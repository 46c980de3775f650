------------------------------ MODULE SendQueue ------------------------------
(***************************************************************************)
(* Connection._send: a call appends its message to the send queue and then *)
(* drains the queue for as long as it can take the send lock without       *)
(* blocking.  Calls run on any number of threads, and a garbage collection *)
(* inside a call may run BaseNetref.__del__, which makes a nested call on  *)
(* the same thread while the outer one is suspended.  Each call carries    *)
(* one message, named after the call.                                      *)
(*                                                                         *)
(* Channel.send writes a small frame at once and a large one in three      *)
(* writes.  A write fails when the peer is gone and closes the stream.     *)
(* Connection._cleanup, run by a closer, closes the channel and then       *)
(* releases the send lock whoever holds it.                                *)
(***************************************************************************)
EXTENDS Naturals, Sequences, FiniteSets

CONSTANTS
  Calls,        \* calls of _send, and the message each one sends
  Large,        \* messages whose frame exceeds MAX_IO_CHUNK
  Unsendable,   \* messages Channel.send raises on before it writes anything
  Closers,      \* runs of _cleanup
  None          \* no message, no outer call

ASSUME CallsAssumption ==
  /\ Large \subseteq Calls
  /\ Unsendable \subseteq Calls
  /\ None \notin Calls

VARIABLES
  pc,        \* where each call stands
  outer,     \* the call a garbage collection interrupted to make this one
  msg,       \* the message a call popped and is sending
  part,      \* the write of that message that comes next
  failure,   \* the exception on its way out of a call
  queue,     \* _send_queue
  locked,    \* _sendlock, a Lock: it has no owner, anyone may release it
  open,      \* the stream's socket is not ClosedFile
  wire,      \* every write that reached the socket, in order
  cpc,       \* where each closer stands
  order      \* history: messages in the order they were appended

vars == <<pc, outer, msg, part, failure, queue, locked, open, wire, cpc, order>>

Parts(m) == IF m \in Large THEN 3 ELSE 1

Critical == {"recheck", "pop", "write", "release"}
Draining == {"check", "acquire"} \cup Critical
Active   == {"append"} \cup Draining

Labels     == {"idle", "done", "failed"} \cup Active
Exceptions == {"none", "EOFError", "IndexError", "RuntimeError", "SendError"}

TypeOK ==
  /\ pc \in [Calls -> Labels]
  /\ outer \in [Calls -> Calls \cup {None}]
  /\ msg \in [Calls -> Calls \cup {None}]
  /\ part \in [Calls -> 1..3]
  /\ failure \in [Calls -> Exceptions]
  /\ queue \in Seq(Calls)
  /\ locked \in BOOLEAN
  /\ open \in BOOLEAN
  /\ wire \in Seq(Calls \X (1..3))
  /\ cpc \in [Closers -> {"idle", "closed", "done"}]
  /\ order \in Seq(Calls)

Init ==
  /\ pc = [c \in Calls |-> "idle"]
  /\ outer = [c \in Calls |-> None]
  /\ msg = [c \in Calls |-> None]
  /\ part = [c \in Calls |-> 1]
  /\ failure = [c \in Calls |-> "none"]
  /\ queue = <<>>
  /\ locked = FALSE
  /\ open = TRUE
  /\ wire = <<>>
  /\ cpc = [k \in Closers |-> "idle"]
  /\ order = <<>>

(* A call runs unless a call nested in it is still under way.              *)
Running(c) ==
  /\ pc[c] \in Active
  /\ ~ \E d \in Calls : outer[d] = c /\ pc[d] \in Active

At(c, label) == Running(c) /\ pc[c] = label

Goto(c, label) == pc' = [pc EXCEPT ![c] = label]

Raise(c, label, exception) ==
  /\ Goto(c, label)
  /\ failure' = [failure EXCEPT ![c] = exception]

-----------------------------------------------------------------------------
(* The decisions of the drain loop, each after a variant that a plausible  *)
(* slip in the code would make of it.  The properties tell them apart.     *)

QueuedInFront(c) == <<c>> \o queue

Queued(c) == Append(queue, c)

AfterAcquire == IF locked THEN "done" ELSE "recheck"

AfterRecheckSkipped == "pop"

AfterRecheck == IF queue = <<>> THEN "release" ELSE "pop"

AfterReleaseReturn(c) == IF failure[c] = "none" THEN "done" ELSE "failed"

AfterRelease(c) == IF failure[c] = "none" THEN "check" ELSE "failed"

OpenAfterError == FALSE

CleanupMayReleaseEarly(k) == cpc[k] \in {"idle", "closed"}

CleanupMayRelease(k) == cpc[k] = "closed"

-----------------------------------------------------------------------------
(* A thread calls _send, or a collection inside call p does.               *)
Start(c, p) ==
  /\ pc[c] = "idle"
  /\ p # None => Running(p)
  /\ Goto(c, "append")
  /\ outer' = [outer EXCEPT ![c] = p]
  /\ UNCHANGED <<msg, part, failure, queue, locked, open, wire, cpc, order>>

AppendData(c) ==
  /\ At(c, "append")
  /\ queue' = Queued(c)
  /\ order' = Append(order, c)
  /\ Goto(c, "check")
  /\ UNCHANGED <<outer, msg, part, failure, locked, open, wire, cpc>>

CheckQueue(c) ==
  /\ At(c, "check")
  /\ Goto(c, IF queue = <<>> THEN "done" ELSE "acquire")
  /\ UNCHANGED <<outer, msg, part, failure, queue, locked, open, wire, cpc, order>>

(* acquire(False): a call that finds the lock taken leaves its message to  *)
(* the holder.                                                             *)
TryAcquire(c) ==
  /\ At(c, "acquire")
  /\ Goto(c, AfterAcquire)
  /\ locked' = TRUE
  /\ UNCHANGED <<outer, msg, part, failure, queue, open, wire, cpc, order>>

RecheckQueue(c) ==
  /\ At(c, "recheck")
  /\ Goto(c, AfterRecheck)
  /\ UNCHANGED <<outer, msg, part, failure, queue, locked, open, wire, cpc, order>>

Pop(c) ==
  /\ At(c, "pop")
  /\ queue # <<>>
  /\ msg' = [msg EXCEPT ![c] = Head(queue)]
  /\ part' = [part EXCEPT ![c] = 1]
  /\ queue' = Tail(queue)
  /\ Goto(c, "write")
  /\ UNCHANGED <<outer, failure, locked, open, wire, cpc, order>>

PopFromEmpty(c) ==
  /\ At(c, "pop")
  /\ queue = <<>>
  /\ Raise(c, "release", "IndexError")
  /\ UNCHANGED <<outer, msg, part, queue, locked, open, wire, cpc, order>>

(* One write of the frame, complete: Stream.write loops until the socket   *)
(* has taken every byte.                                                   *)
Write(c) ==
  /\ At(c, "write")
  /\ open
  /\ msg[c] \notin Unsendable
  /\ wire' = Append(wire, <<msg[c], part[c]>>)
  /\ IF part[c] < Parts(msg[c])
       THEN /\ part' = [part EXCEPT ![c] = @ + 1]
            /\ UNCHANGED <<pc, msg>>
       ELSE /\ msg' = [msg EXCEPT ![c] = None]
            /\ Goto(c, "release")
            /\ UNCHANGED part
  /\ UNCHANGED <<outer, failure, queue, locked, open, cpc, order>>

(* The socket refuses the write, or is already ClosedFile.                 *)
WriteFails(c) ==
  /\ At(c, "write")
  /\ msg[c] \notin Unsendable
  /\ open' = OpenAfterError
  /\ msg' = [msg EXCEPT ![c] = None]
  /\ Raise(c, "release", "EOFError")
  /\ UNCHANGED <<outer, part, queue, locked, wire, cpc, order>>

(* Compressing or packing the header raises: nothing was written and the   *)
(* stream stays open.                                                      *)
SendRaises(c) ==
  /\ At(c, "write")
  /\ msg[c] \in Unsendable
  /\ msg' = [msg EXCEPT ![c] = None]
  /\ Raise(c, "release", "SendError")
  /\ UNCHANGED <<outer, part, queue, locked, open, wire, cpc, order>>

(* finally: _sendlock.release() of an unlocked Lock raises RuntimeError.   *)
Release(c) ==
  /\ At(c, "release")
  /\ locked' = FALSE
  /\ IF locked
       THEN /\ Goto(c, AfterRelease(c))
            /\ UNCHANGED failure
       ELSE Raise(c, "failed", "RuntimeError")
  /\ UNCHANGED <<outer, msg, part, queue, open, wire, cpc, order>>

CloseChannel(k) ==
  /\ cpc[k] = "idle"
  /\ open' = FALSE
  /\ cpc' = [cpc EXCEPT ![k] = "closed"]
  /\ UNCHANGED <<pc, outer, msg, part, failure, queue, locked, wire, order>>

(* release() here swallows the error of an unlocked Lock.                  *)
ReleaseSendlock(k) ==
  /\ CleanupMayRelease(k)
  /\ locked' = FALSE
  /\ cpc' = [cpc EXCEPT ![k] = "done"]
  /\ UNCHANGED <<pc, outer, msg, part, failure, queue, open, wire, order>>

Step(c) ==
  \/ AppendData(c)
  \/ CheckQueue(c)
  \/ TryAcquire(c)
  \/ RecheckQueue(c)
  \/ Pop(c)
  \/ PopFromEmpty(c)
  \/ Write(c)
  \/ WriteFails(c)
  \/ SendRaises(c)
  \/ Release(c)

Next ==
  \/ \E c \in Calls, p \in Calls \cup {None} : Start(c, p)
  \/ \E c \in Calls : Step(c)
  \/ \E k \in Closers : CloseChannel(k) \/ ReleaseSendlock(k)

Spec == Init /\ [][Next]_vars

(* A thread inside _send keeps running: nothing in it blocks.              *)
FairSpec == Spec /\ \A c \in Calls : WF_vars(Step(c))

-----------------------------------------------------------------------------

(* Until a closer releases the send lock under its holder, on an open      *)
(* channel and on a closed one, at most one call is between taking and     *)
(* releasing the lock, and the lock is taken exactly then.  After such a   *)
(* release two calls may be, which is why _cleanup closes the channel      *)
(* first: neither of them writes any more.                                 *)
Holders == {c \in Calls : pc[c] \in Critical}

MutualExclusion ==
  IF \E k \in Closers : cpc[k] = "done"
    THEN ~open
    ELSE /\ \A c, d \in Holders : c = d
         /\ locked <=> Holders # {}

(* The writes on the socket are the frames of the messages, each one whole *)
(* and contiguous, in the order _send appended them; a message that        *)
(* Channel.send can send is neither skipped nor repeated.  Only the last   *)
(* frame may be cut short, by the close.  The peer's Channel.recv depends  *)
(* on this for every frame boundary it finds.                              *)
OnWire(m, i) == \E h \in 1..i : wire[h] = <<m, Parts(m)>>

FrameContinues(i) ==
  /\ i > 1
  /\ wire[i - 1][2] < Parts(wire[i - 1][1])
  /\ wire[i] = <<wire[i - 1][1], wire[i - 1][2] + 1>>

FrameStarts(i) ==
  /\ wire[i][2] = 1
  /\ \E n \in 1..Len(order) :
       /\ wire[i][1] = order[n]
       /\ \A j \in 1..(n - 1) : order[j] \in Unsendable \/ OnWire(order[j], i - 1)

FramesInOrder ==
  \A i \in 1..Len(wire) :
    /\ FrameStarts(i) \/ FrameContinues(i)
    /\ \A h \in 1..(i - 1) : wire[h] # wire[i]

(* As long as the channel is open, a message in the queue has a call still *)
(* in its drain loop: the call that gave up on the lock may rely on the    *)
(* holder, and the holder looks again after it has released.  The holder   *)
(* breaks this promise only when Channel.send raises with the stream still *)
(* open: it leaves the loop, and what others queued waits for a later call.*)
SendRaised == \E c \in Calls : failure[c] = "SendError"

NothingStranded ==
  open /\ queue # <<>> /\ ~SendRaised => \E c \in Calls : pc[c] \in Draining

(* pop(0) of an empty queue and release of an unlocked lock can only       *)
(* happen after a close: on an open connection _send raises nothing but    *)
(* what Channel.send raises.                                               *)
OnlyStreamErrors ==
  \A c \in Calls : failure[c] \in {"IndexError", "RuntimeError"} => ~open

(* Every message appended reaches the socket, unless the channel is closed *)
(* or Channel.send raises for some message.                                *)
EveryMessageSent ==
  \A c \in Calls : pc[c] = "check" ~> (OnWire(c, Len(wire)) \/ ~open \/ SendRaised)

-----------------------------------------------------------------------------
(* The elements of s that are in S, in their order; as a function, since   *)
(* the provers know nothing of SelectSeq.                                  *)
Kept(s, S) ==
  LET kept[i \in 0..Len(s)] ==
        IF i = 0 THEN <<>> ELSE IF s[i] \in S THEN Append(kept[i - 1], s[i]) ELSE kept[i - 1]
  IN  kept[Len(s)]

(* The abstract channel: a message is transmitted with its last write.     *)
LastWrites == Kept(wire, {<<m, Parts(m)>> : m \in Calls})

Sent == [i \in 1..Len(LastWrites) |-> LastWrites[i][1]]

Unsent == {m \in Calls : m \notin Unsendable /\ ~OnWire(m, Len(wire))}

Abstract == INSTANCE MessageChannel WITH
  Message <- Calls,
  up      <- open,
  sent    <- Sent,
  pending <- IF open THEN Kept(order, Unsent) ELSE <<>>

(* _send and Channel.send implement the FIFO channel: no interleaving of   *)
(* calls, nested calls and closes loses, repeats or reorders a message.    *)
ImplementsChannel == Abstract!Spec
=============================================================================
