------------------------------ MODULE Framing ------------------------------
(***************************************************************************)
(* Channel and the streams below it: how a packet of bytes becomes a frame,*)
(* is written in chunks of which the operating system takes what it likes, *)
(* and is read back in pieces.  There are two sides; pipe[s] holds the     *)
(* bytes on their way to side s.                                           *)
(***************************************************************************)
EXTENDS ByteSeqs, SequencesExt

CONSTANTS Threshold,    \* Channel.COMPRESSION_THRESHOLD
          MaxChunk,     \* Stream.MAX_IO_CHUNK
          Room          \* the bytes the operating system holds in one direction

ASSUME FramingAssumption ==
    /\ Threshold \in Nat /\ Room \in Nat \ {0}
    /\ MaxChunk \in Nat /\ MaxChunk > 6

Sides == {"c", "s"}
Other(s) == IF s = "c" THEN "s" ELSE "c"

VARIABLES
    out,      \* side -> the writes it has still to make, each a sequence of bytes
    pipe,     \* side -> the bytes that have been sent to it and not read
    rd,       \* side -> the read it is in
    up,       \* side -> whether its stream is open
    broken,   \* whether the network has failed
    coming    \* history: side -> the packets sent to it that it has not taken

framingVars == <<out, pipe, rd, up, broken, coming>>

HeaderSize == 5
Flusher    == <<10>>
Idle       == [header |-> <<>>, buf |-> <<>>, need |-> HeaderSize]

\* zlib, as far as a frame tells: the bytes change, and so does their number.
Compress(data)   == <<120>> \o Reverse(data)
Decompress(data) == Reverse(Tail(data))

\* Channel.send: the frame as the writes it is made of; stream.write of no
\* bytes does nothing.
Body(data)   == IF Len(data) > Threshold THEN Compress(data) ELSE data
HeaderOfData(data) == I4(Len(data)) \o I1(IF Len(data) > Threshold THEN 1 ELSE 0)
Header(data) == I4(Len(Body(data))) \o I1(IF Len(data) > Threshold THEN 1 ELSE 0)
WriteOfNothing(data) == <<data>>
WriteOf(data) == IF data = <<>> THEN <<>> ELSE <<data>>

FirstPart == MaxChunk - HeaderSize

Frame(data) ==
    IF HeaderSize + Len(Body(data)) + Len(Flusher) <= MaxChunk
    THEN <<Header(data) \o Body(data) \o Flusher>>
    ELSE <<Header(data) \o Read(Body(data), FirstPart)>>
             \o WriteOf(After(Body(data), FirstPart)) \o <<Flusher>>

\* struct.pack raises when the length does not fit the header's four bytes.
Packable(data) == I4(Len(Body(data)))[1] < 256

\* Channel.recv once both of its reads are complete.
Complete(s) == rd[s].header # <<>> /\ rd[s].need = 0
Unpacked(s, data) == IF rd[s].header[5] = 1 THEN Decompress(data) ELSE data
PacketWithFlusher(s) == Unpacked(s, rd[s].buf)
Packet(s) == Unpacked(s, Read(rd[s].buf, Len(rd[s].buf) - Len(Flusher)))

\* The second read of recv: the body and the flusher.
BodyNeedNoFlusher(header) == U4(header)
BodyNeed(header) == U4(header) + Len(Flusher)

FramingInit ==
    /\ out = [s \in Sides |-> <<>>]
    /\ pipe = [s \in Sides |-> <<>>]
    /\ rd = [s \in Sides |-> Idle]
    /\ up = [s \in Sides |-> TRUE]
    /\ broken = FALSE
    /\ coming = [s \in Sides |-> <<>>]

\* A packet for the other side; a side that has closed its stream gets nothing.
Coming(s, data) == IF up[Other(s)] THEN Append(coming[Other(s)], data) ELSE coming[Other(s)]

\* Channel.send, up to its first write.
Send(s, data) ==
    /\ up[s] /\ out[s] = <<>> /\ Packable(data)
    /\ out' = [out EXCEPT ![s] = Frame(data)]
    /\ coming' = [coming EXCEPT ![Other(s)] = Coming(s, data)]
    /\ UNCHANGED <<pipe, rd, up, broken>>

\* Channel.recv returns the packet, and is called again.
Take(s) ==
    /\ up[s] /\ Complete(s)
    /\ rd' = [rd EXCEPT ![s] = Idle]
    /\ coming' = [coming EXCEPT ![s] = Tail(@)]
    /\ UNCHANGED <<out, pipe, up, broken>>

\* The two in one step, for a side that does nothing in between.
Answer(s, data) ==
    /\ up[s] /\ Complete(s) /\ out[s] = <<>> /\ Packable(data)
    /\ rd' = [rd EXCEPT ![s] = Idle]
    /\ out' = [out EXCEPT ![s] = Frame(data)]
    /\ coming' = [coming EXCEPT ![s] = Tail(@), ![Other(s)] = Coming(s, data)]
    /\ UNCHANGED <<pipe, up, broken>>

Smallest(S) == CHOOSE n \in S : \A m \in S : n <= m

\* The bytes one call moves, of those that are asked for: n of the operating
\* system's choice at most, a chunk, what there is, and the room that is left.
Moved(n, data, room) == Smallest({n, MaxChunk, Len(data), room})

\* One call of sock.send or os.write: it takes a prefix of the chunk, as long as
\* one of the amounts or all of it.  What is sent to a side that has closed its
\* stream is lost.
SockSend(s, amounts) ==
    /\ up[s] /\ out[s] # <<>> /\ Len(pipe[Other(s)]) < Room
    /\ \E n \in amounts \cup {MaxChunk} :
         LET count == Moved(n, Head(out[s]), Room - Len(pipe[Other(s)]))
         IN  /\ out' = [out EXCEPT ![s] = WriteOf(After(Head(@), count)) \o Tail(@)]
             /\ pipe' = [pipe EXCEPT ![Other(s)] =
                            IF up[Other(s)] THEN @ \o Read(Head(out[s]), count) ELSE @]
    /\ UNCHANGED <<rd, up, broken, coming>>

\* The call fails: the peer is gone, or, on a socket with a timeout, the peer
\* does not read for that long: write() takes socket.timeout for any other error.
SockSendFails(s) ==
    up[s] /\ out[s] # <<>> /\ (broken \/ ~up[Other(s)] \/ Len(pipe[Other(s)]) >= Room)

\* One call of sock.recv or os.read; a timeout of it changes nothing.  When the
\* header is complete the body and the flusher are asked for.
SockRecv(s, amounts) ==
    /\ up[s] /\ pipe[s] # <<>> /\ rd[s].need > 0
    /\ \E n \in amounts \cup {MaxChunk} :
         LET count == Moved(n, pipe[s], rd[s].need)
             buf   == rd[s].buf \o Read(pipe[s], count)
             need  == rd[s].need - count
         IN  /\ pipe' = [pipe EXCEPT ![s] = After(@, count)]
             /\ rd' = [rd EXCEPT ![s] =
                   IF need = 0 /\ @.header = <<>>
                   THEN [header |-> buf, buf |-> <<>>, need |-> BodyNeed(buf)]
                   ELSE [@ EXCEPT !.buf = buf, !.need = need]]
    /\ UNCHANGED <<out, up, broken, coming>>

\* recv gives an error or the end of the stream.
RecvFailsEndIgnored(s) == up[s] /\ rd[s].need > 0 /\ broken
RecvFails(s) ==
    up[s] /\ rd[s].need > 0 /\ (broken \/ (pipe[s] = <<>> /\ ~up[Other(s)]))

\* close(): nothing is read or written any more.
CloseStream(s) ==
    /\ up' = [up EXCEPT ![s] = FALSE]
    /\ out' = [out EXCEPT ![s] = <<>>]
    /\ pipe' = [pipe EXCEPT ![s] = <<>>]
    /\ rd' = [rd EXCEPT ![s] = Idle]
    /\ coming' = [coming EXCEPT ![s] = <<>>]
    /\ UNCHANGED broken

\* A packet that has been read is the first of those that were sent and not yet
\* taken, through every cut of the writes and the reads and both compressions: a
\* side never takes a part of a packet, or of two, or one out of order.
FramesWhole == \A s \in Sides :
    up[s] /\ Complete(s) => coming[s] # <<>> /\ Packet(s) = Head(coming[s])

\* As long as both streams are open, a packet is on its way exactly if some byte
\* of its frame is: what one read leaves over is never taken for a next frame,
\* and no reader waits for bytes that nobody will write.
NothingLeftOver == \A s \in Sides :
    up[s] /\ up[Other(s)] =>
        (coming[s] = <<>> <=> out[Other(s)] = <<>> /\ pipe[s] = <<>> /\ rd[s] = Idle)
=============================================================================
