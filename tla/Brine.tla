------------------------------- MODULE Brine -------------------------------
(***************************************************************************)
(* brine: the serialization of the immutable values, byte by byte.         *)
(*                                                                         *)
(* A Python value is a record whose field "t" is its type.  An int is its  *)
(* decimal text, a str the sequence of its code points, a float and a      *)
(* complex the bytes struct packs them into; an object of any other type   *)
(* ("obj", "netref", "exc") is one brine does not serialize.               *)
(***************************************************************************)
EXTENDS ByteSeqs
LOCAL INSTANCE SequencesExt
LOCAL INSTANCE FiniteSetsExt

None           == [t |-> "none"]
NotImplemented == [t |-> "notimpl"]
Ellipsis       == [t |-> "ellipsis"]
Bool(b)        == [t |-> "bool", b |-> b]
Str(chars)     == [t |-> "str", chars |-> chars]
Bytes(bytes)   == [t |-> "bytes", bytes |-> bytes]
Tup(items)     == [t |-> "tuple", items |-> items]
Slice(p)       == [t |-> "slice", parts |-> p]
FSet(elems)    == [t |-> "fset", elems |-> elems]
IntText(text)  == [t |-> "int", text |-> text]

\* str(n) for the integers the protocol itself sends: ASCII digits, "-" first.
RECURSIVE Digits(_)
Digits(n) == IF n < 10 THEN <<48 + n>> ELSE Append(Digits(n \div 10), 48 + (n % 10))
TextOf(n) == IF n < 0 THEN <<45>> \o Digits(-n) ELSE Digits(n)
Num(n)    == IntText(TextOf(n))

\* int(text), for the texts that are short enough to name a small integer.
ValueOf(text) ==
    LET digits == SelectSeq(text, LAMBDA c : c # 45)
        n == FoldLeft(LAMBDA acc, c : acc * 10 + (c - 48), 0, digits)
    IN  IF Head(text) = 45 THEN -n ELSE n

\* A set in some order, always the same.
InOrder(S) == FoldSet(LAMBDA e, seq : Append(seq, e), <<>>, S)

(***************************************************************************)
(* What can be dumped.                                                     *)
(***************************************************************************)
SimpleTypes == {"none", "int", "bool", "float", "bytes", "str", "complex", "notimpl", "ellipsis"}

RECURSIVE Dumpable(_)
Dumpable(v) ==
    \/ v.t \in SimpleTypes
    \/ v.t = "tuple" /\ \A i \in DOMAIN v.items : Dumpable(v.items[i])
    \/ v.t = "fset" /\ \A e \in v.elems : Dumpable(e)
    \/ v.t = "slice" /\ \A i \in 1..3 : Dumpable(v.parts[i])

\* A str with a lone surrogate is dumpable, and encode("utf8") raises.
Surrogate(c) == c \in 55296..57343

RECURSIVE DumpRaises(_)
DumpRaises(v) ==
    \/ ~Dumpable(v)
    \/ v.t = "str" /\ \E i \in DOMAIN v.chars : Surrogate(v.chars[i])
    \/ v.t = "tuple" /\ \E i \in DOMAIN v.items : DumpRaises(v.items[i])
    \/ v.t = "fset" /\ \E e \in v.elems : DumpRaises(e)
    \/ v.t = "slice" /\ \E i \in 1..3 : DumpRaises(v.parts[i])

(***************************************************************************)
(* The encoding.                                                           *)
(***************************************************************************)
Utf8(c) == IF c < 128 THEN <<c>>
           ELSE IF c < 2048 THEN <<192 + c \div 64, 128 + (c % 64)>>
           ELSE <<224 + c \div 4096, 128 + ((c \div 64) % 64), 128 + (c % 64)>>
Encode(chars) == FlattenSeq([i \in DOMAIN chars |-> Utf8(chars[i])])

\* The tag and the length of a bytes or a tuple: five tags for the lengths up
\* to 4 (the first is the tag of the empty one), then a length of 1 or 4 bytes.
Sized(n, empty, first, one, four) ==
    CASE n = 0        -> <<empty>>
      [] n \in 1..4   -> <<first + n - 1>>
      [] n \in 5..255 -> <<one>> \o I1(n)
      [] OTHER        -> <<four>> \o I4(n)

DumpBytes(bytes) == Sized(Len(bytes), 1, 10, 14, 15) \o bytes

Immediate(text) == Len(text) <= 3 /\ ValueOf(text) \in -48..159

DumpInt(text) ==
    IF Immediate(text) THEN <<ValueOf(text) + 80>>
    ELSE IF Len(text) < 256 THEN <<22>> \o I1(Len(text)) \o text
    ELSE <<23>> \o I4(Len(text)) \o text

RECURSIVE Dump(_)
DumpItems(items) == FlattenSeq([i \in DOMAIN items |-> Dump(items[i])])
DumpTuple(items) == Sized(Len(items), 2, 16, 20, 21) \o DumpItems(items)
Dump(v) ==
    CASE v.t = "none"     -> <<0>>
      [] v.t = "notimpl"  -> <<5>>
      [] v.t = "ellipsis" -> <<6>>
      [] v.t = "bool"     -> IF v.b THEN <<3>> ELSE <<4>>
      [] v.t = "int"      -> DumpInt(v.text)
      [] v.t = "float"    -> <<24>> \o v.packed
      [] v.t = "complex"  -> <<27>> \o v.packed
      [] v.t = "bytes"    -> DumpBytes(v.bytes)
      [] v.t = "str"      -> <<8>> \o DumpBytes(Encode(v.chars))
      [] v.t = "tuple"    -> DumpTuple(v.items)
      [] v.t = "slice"    -> <<25>> \o DumpTuple(v.parts)
      [] v.t = "fset"     -> <<26>> \o DumpTuple(InOrder(v.elems))

(***************************************************************************)
(* The decoding: Load(s) is the value at the front of the stream s and     *)
(* what is left of the stream.                                             *)
(***************************************************************************)
RECURSIVE Decode(_)
Decode(b) ==
    IF b = <<>> THEN <<>>
    ELSE IF b[1] < 128 THEN <<b[1]>> \o Decode(After(b, 1))
    ELSE IF b[1] < 224 THEN <<(b[1] - 192) * 64 + b[2] - 128>> \o Decode(After(b, 2))
    ELSE <<(b[1] - 224) * 4096 + (b[2] - 128) * 64 + b[3] - 128>> \o Decode(After(b, 3))

LoadRaw(s, n) == [v |-> Read(s, n), rest |-> After(s, n)]
LoadL1(s)     == LoadRaw(After(s, 1), s[1])
LoadL4(s)     == LoadRaw(After(s, 4), U4(s))

RECURSIVE LoadItems(_, _)
RECURSIVE Load(_)
LoadTuple(s, n) == LET l == LoadItems(s, n) IN [v |-> Tup(l.v), rest |-> l.rest]

\* struct.unpack of 8 or 16 bytes.
LoadPacked(s, n, type) == LET l == LoadRaw(s, n) IN
    [v |-> [t |-> type, packed |-> l.v], rest |-> l.rest]

LoadTagged(tag, s) ==
    LET bytes(l)  == [v |-> Bytes(l.v), rest |-> l.rest]
        int(l)    == [v |-> IntText(l.v), rest |-> l.rest]
        inner     == Load(s)
        of(v)     == [v |-> v, rest |-> inner.rest]
        single(v) == [v |-> v, rest |-> s]
    IN  CASE tag = 0  -> single(None)
          [] tag = 1  -> single(Bytes(<<>>))
          [] tag = 2  -> single(Tup(<<>>))
          [] tag = 3  -> single(Bool(TRUE))
          [] tag = 4  -> single(Bool(FALSE))
          [] tag = 5  -> single(NotImplemented)
          [] tag = 6  -> single(Ellipsis)
          [] tag = 8  -> of(Str(Decode(inner.v.bytes)))
          [] tag \in 10..13 -> bytes(LoadRaw(s, tag - 9))
          [] tag = 14 -> bytes(LoadL1(s))
          [] tag = 15 -> bytes(LoadL4(s))
          [] tag \in 16..19 -> LoadTuple(s, tag - 15)
          [] tag = 20 -> LoadTuple(After(s, 1), s[1])
          [] tag = 21 -> LoadTuple(After(s, 4), U4(s))
          [] tag = 22 -> int(LoadL1(s))
          [] tag = 23 -> int(LoadL4(s))
          [] tag = 24 -> LoadPacked(s, 8, "float")
          [] tag = 25 -> of(Slice(inner.v.items))
          [] tag = 26 -> of(FSet({inner.v.items[i] : i \in DOMAIN inner.v.items}))
          [] tag = 27 -> LoadPacked(s, 16, "complex")

Load(s) ==
    IF Head(s) \in 32..239 THEN [v |-> Num(Head(s) - 80), rest |-> Tail(s)]
    ELSE LoadTagged(Head(s), Tail(s))

LoadItems(s, n) ==
    IF n = 0 THEN [v |-> <<>>, rest |-> s]
    ELSE LET first == Load(s)
             others == LoadItems(first.rest, n - 1)
         IN  [v |-> <<first.v>> \o others.v, rest |-> others.rest]
=============================================================================
