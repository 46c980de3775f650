------------------------------ MODULE ByteSeqs ------------------------------
(***************************************************************************)
(* Sequences of bytes as struct and slicing treat them: what brine, the    *)
(* headers of frames and the types of messages are made of.                *)
(***************************************************************************)
EXTENDS Integers, Sequences

\* struct "!B" and "!L"
I1(n) == <<n>>
I4(n) == <<n \div 16777216, (n \div 65536) % 256, (n \div 256) % 256, n % 256>>
U4(s) == ((s[1] * 256 + s[2]) * 256 + s[3]) * 256 + s[4]

\* The first n bytes, and what is after them.
Read(s, n)  == SubSeq(s, 1, n)
After(s, n) == SubSeq(s, n + 1, Len(s))
=============================================================================
