--------------------------- MODULE SendQueue_proofs ---------------------------
(***************************************************************************)
(* Proofs about the two layers of the send path: SendQueue, for any number *)
(* of calls and closers, and below it PacketChannel, the framing of packets*)
(* on a stream, for any packets, sizes and cuts.                           *)
(***************************************************************************)
EXTENDS SendQueue, PacketChannel, SequenceTheorems, WellFoundedInduction, TLAPS

(* What MutualExclusion comes to on an open channel.                       *)
OpenExclusion ==
  open => /\ \A c, d \in Holders : c = d
          /\ locked <=> Holders # {}

(* What the lock protocol maintains: besides the properties themselves, a  *)
(* call that writes has a message, a closer that has started has closed    *)
(* the channel, and while the channel is open a call about to pop is the   *)
(* only one that can, so the queue it looked at is still not empty.        *)
LockInv ==
  /\ TypeOK
  /\ \A c \in Calls : pc[c] = "write" => msg[c] \in Calls
  /\ \A k \in Closers : cpc[k] # "idle" => ~open
  /\ \A c \in Calls : open /\ pc[c] = "pop" => queue # <<>>
  /\ OpenExclusion
  /\ MutualExclusion
  /\ OnlyStreamErrors

USE DEF Labels, Active, Draining, Critical, Exceptions

(* The initial state is well typed and nothing holds the lock.             *)
LEMMA LockInit == Init => LockInv
<1> SUFFICES ASSUME Init PROVE LockInv
  OBVIOUS
<1>1. TypeOK
  <2>1. queue \in Seq(Calls) /\ wire \in Seq(Calls \X (1..3)) /\ order \in Seq(Calls)
    BY EmptySeq DEF Init
  <2>2. part \in [Calls -> 1..3]
    BY DEF Init
  <2>3. QED
    BY <2>1, <2>2 DEF Init, TypeOK
<1>2. OpenExclusion /\ MutualExclusion /\ OnlyStreamErrors
  BY DEF Init, OpenExclusion, MutualExclusion, Holders, OnlyStreamErrors
<1>3. QED
  BY <1>1, <1>2 DEF Init, LockInv

(* Every step preserves the exclusion, also on a closed channel, until a   *)
(* closer releases the lock.                                               *)
LEMMA ExclusionNext == LockInv /\ [Next]_vars => MutualExclusion'
<1> SUFFICES ASSUME LockInv, [Next]_vars
             PROVE  MutualExclusion'
  OBVIOUS
<1> USE DEF Holders, At, Goto, Raise
<1>0. /\ pc \in [Calls -> Labels] /\ locked \in BOOLEAN
      /\ cpc \in [Closers -> {"idle", "closed", "done"}]
      /\ \A k \in Closers : cpc[k] # "idle" => ~open
      /\ MutualExclusion
  BY Zenon DEF LockInv, TypeOK
<1>1. ASSUME NEW c \in Calls, NEW label \in Labels,
             pc[c] \in Critical <=> label \in Critical,
             pc' = [pc EXCEPT ![c] = label], locked' = locked, open' => open, cpc' = cpc
      PROVE  MutualExclusion'
  <2>1. \A d \in Calls : pc'[d] \in Critical <=> pc[d] \in Critical
    BY <1>0, <1>1
  <2>2. CASE \E k \in Closers : cpc[k] = "done"
    BY <1>0, <1>1, <2>2 DEF MutualExclusion
  <2>3. CASE ~ \E k \in Closers : cpc[k] = "done"
    <3>1. (\A d, e \in Holders : d = e) /\ (locked <=> Holders # {})
      BY <1>0, <2>3 DEF MutualExclusion
    <3>2. (\A d, e \in Holders' : d = e) /\ (locked' <=> Holders' # {})
      BY <1>1, <2>1, <3>1
    <3>3. QED
      BY <1>1, <2>3, <3>2 DEF MutualExclusion
  <2>4. QED
    BY <2>2, <2>3
<1>2. ASSUME NEW c \in Calls,
             \/ \E p \in Calls \cup {None} : Start(c, p)
             \/ AppendData(c)
             \/ CheckQueue(c)
             \/ RecheckQueue(c)
             \/ Pop(c)
             \/ PopFromEmpty(c)
             \/ WriteFails(c)
             \/ SendRaises(c)
      PROVE  MutualExclusion'
  <2>1. \E label \in Labels :
          /\ pc[c] \in Critical <=> label \in Critical
          /\ pc' = [pc EXCEPT ![c] = label]
    BY <1>2 DEF Start, AppendData, CheckQueue, RecheckQueue, AfterRecheck, Pop, PopFromEmpty,
                WriteFails, SendRaises
  <2>2. locked' = locked /\ (open' => open) /\ cpc' = cpc
    BY <1>2 DEF Start, AppendData, CheckQueue, RecheckQueue, Pop, PopFromEmpty, WriteFails,
                SendRaises, OpenAfterError
  <2>3. QED
    BY <1>1, <2>1, <2>2
<1>3. ASSUME NEW c \in Calls, TryAcquire(c)
      PROVE  MutualExclusion'
  <2>1. /\ pc[c] = "acquire" /\ pc' = [pc EXCEPT ![c] = IF locked THEN "done" ELSE "recheck"]
        /\ locked' = TRUE /\ open' = open /\ cpc' = cpc
    BY <1>3 DEF TryAcquire, AfterAcquire
  <2>2. CASE locked
    BY <1>0, <1>1, <2>1, <2>2
  <2>3. CASE ~locked
    <3>1. /\ pc'[c] = "recheck"
          /\ \A d \in Calls \ {c} : pc'[d] = pc[d]
      BY <1>0, <2>1, <2>3
    <3>2. QED
      BY <1>0, <2>1, <2>3, <3>1 DEF MutualExclusion
  <2>4. QED
    BY <2>2, <2>3
<1>4. ASSUME NEW c \in Calls, Write(c)
      PROVE  MutualExclusion'
  <2>1. /\ pc[c] = "write" /\ (pc' = pc \/ pc' = [pc EXCEPT ![c] = "release"])
        /\ locked' = locked /\ open' = open /\ cpc' = cpc
    BY <1>4 DEF Write
  <2>2. CASE pc' = pc
    BY <1>0, <2>1, <2>2 DEF MutualExclusion
  <2>3. CASE pc' = [pc EXCEPT ![c] = "release"]
    BY <1>1, <2>1, <2>3
  <2>4. QED
    BY <2>1, <2>2, <2>3
<1>5. ASSUME NEW c \in Calls, Release(c)
      PROVE  MutualExclusion'
  <2>1. /\ pc[c] = "release" /\ pc'[c] \notin Critical
        /\ \A d \in Calls \ {c} : pc'[d] = pc[d]
        /\ locked' = FALSE /\ open' = open /\ cpc' = cpc
    BY <1>0, <1>5 DEF Release, AfterRelease
  <2>2. QED
    BY <1>0, <2>1 DEF MutualExclusion
<1>6. ASSUME NEW k \in Closers, CloseChannel(k)
      PROVE  MutualExclusion'
  <2>1. /\ cpc' = [cpc EXCEPT ![k] = "closed"] /\ open' = FALSE
        /\ pc' = pc /\ locked' = locked /\ cpc[k] = "idle"
    BY <1>6 DEF CloseChannel
  <2>2. \A j \in Closers : cpc'[j] = "done" <=> cpc[j] = "done"
    BY <1>0, <2>1
  <2>3. QED
    BY <1>0, <2>1, <2>2 DEF MutualExclusion
<1>7. ASSUME NEW k \in Closers, ReleaseSendlock(k)
      PROVE  MutualExclusion'
  <2>1. cpc[k] = "closed" /\ cpc'[k] = "done" /\ open' = open
    BY <1>0, <1>7 DEF ReleaseSendlock, CleanupMayRelease
  <2>2. QED
    BY <1>0, <2>1 DEF MutualExclusion
<1>8. CASE UNCHANGED vars
  BY <1>0, <1>8 DEF vars, MutualExclusion
<1>9. QED
  BY <1>2, <1>3, <1>4, <1>5, <1>6, <1>7, <1>8 DEF Next, Step

(* Every step preserves what the lock protocol maintains.                  *)
LEMMA LockNext == LockInv /\ [Next]_vars => LockInv'
<1> SUFFICES ASSUME LockInv, [Next]_vars
             PROVE  LockInv'
  OBVIOUS
<1>0. MutualExclusion'
  BY ExclusionNext
<1> USE CallsAssumption DEF LockInv, TypeOK, OpenExclusion, Holders, OnlyStreamErrors,
        Running, At, Goto, Raise
<1>1. ASSUME NEW c \in Calls, NEW p \in Calls \cup {None}, Start(c, p)
      PROVE  LockInv'
  BY <1>0, <1>1 DEF Start
<1>2. ASSUME NEW c \in Calls, AppendData(c)
      PROVE  LockInv'
  <2>1. TypeOK'
    BY <1>2 DEF AppendData, Queued
  <2>2. OpenExclusion' /\ OnlyStreamErrors'
    BY <1>2 DEF AppendData
  <2>3. /\ \A d \in Calls : pc'[d] = "write" => msg'[d] \in Calls
        /\ \A k \in Closers : cpc'[k] # "idle" => ~open'
        /\ \A d \in Calls : open' /\ pc'[d] = "pop" => queue' # <<>>
    <3>1. queue' # <<>>
      BY <1>2 DEF AppendData, Queued
    <3>2. QED
      BY <1>2, <3>1 DEF AppendData
  <2> HIDE DEF TypeOK, OpenExclusion, OnlyStreamErrors
  <2>4. QED
    BY <1>0, <2>1, <2>2, <2>3, Zenon
<1>3. ASSUME NEW c \in Calls, CheckQueue(c)
      PROVE  LockInv'
  BY <1>0, <1>3 DEF CheckQueue
<1>4. ASSUME NEW c \in Calls, TryAcquire(c)
      PROVE  LockInv'
  BY <1>0, <1>4 DEF TryAcquire, AfterAcquire
<1>5. ASSUME NEW c \in Calls, RecheckQueue(c)
      PROVE  LockInv'
  BY <1>0, <1>5 DEF RecheckQueue, AfterRecheck
<1>6. ASSUME NEW c \in Calls, Pop(c)
      PROVE  LockInv'
  BY <1>0, <1>6 DEF Pop
<1>7. ASSUME NEW c \in Calls, PopFromEmpty(c)
      PROVE  LockInv'
  BY <1>0, <1>7 DEF PopFromEmpty
<1>8. ASSUME NEW c \in Calls, Write(c)
      PROVE  LockInv'
  <2>1. wire' \in Seq(Calls \X (1..3))
    <3>1. <<msg[c], part[c]>> \in Calls \X (1..3)
      BY <1>0, <1>8 DEF Write
    <3>2. wire' = Append(wire, <<msg[c], part[c]>>)
      BY <1>0, <1>8 DEF Write
    <3> HIDE DEF TypeOK, LockInv
    <3>3. wire \in Seq(Calls \X (1..3))
      BY DEF LockInv, TypeOK
    <3>4. QED
      BY <3>1, <3>2, <3>3, AppendProperties
  <2>2. part' \in [Calls -> 1..3] /\ msg' \in [Calls -> Calls \cup {None}]
    <3>1. part[c] \in 1..3 /\ (part[c] < Parts(msg[c]) => part[c] + 1 \in 1..3)
      BY DEF Parts
    <3>2. part' = part \/ (part[c] < Parts(msg[c]) /\ part' = [part EXCEPT ![c] = part[c] + 1])
      BY <1>0, <1>8 DEF Write
    <3>3. msg' = msg \/ msg' = [msg EXCEPT ![c] = None]
      BY <1>0, <1>8 DEF Write
    <3>4. part' \in [Calls -> 1..3]
      BY <3>1, <3>2, SMTT(30)
    <3>5. msg' \in [Calls -> Calls \cup {None}]
      BY <3>3
    <3>6. QED
      BY <3>4, <3>5
  <2>3. TypeOK'
    BY <1>0, <1>8, <2>1, <2>2 DEF Write
  <2>4. \A d \in Calls : pc'[d] = "write" => msg'[d] \in Calls
    BY <1>0, <1>8 DEF Write
  <2>5. OpenExclusion' /\ OnlyStreamErrors'
    BY <1>0, <1>8 DEF Write
  <2>6. QED
    BY <1>0, <1>8, <2>3, <2>4, <2>5 DEF Write
<1>9. ASSUME NEW c \in Calls, WriteFails(c)
      PROVE  LockInv'
  BY <1>0, <1>9 DEF WriteFails, OpenAfterError
<1>10. ASSUME NEW c \in Calls, SendRaises(c)
       PROVE  LockInv'
  BY <1>0, <1>10 DEF SendRaises
<1>11. ASSUME NEW c \in Calls, Release(c)
       PROVE  LockInv'
  <2>1. TypeOK'
    BY <1>0, <1>11, ZenonT(40) DEF Release, AfterRelease
  <2>2. c \in Holders
    BY <1>0, <1>11 DEF Release
  <2>3. CASE open
    <3>1. locked /\ \A d \in Calls : pc[d] \in Critical => d = c
      BY <2>2, <2>3
    <3>2. pc'[c] \notin Critical /\ \A d \in Calls \ {c} : pc'[d] = pc[d]
      BY <1>0, <1>11 DEF Release, AfterRelease
    <3>3. Holders' = {} /\ locked' = FALSE
      BY <1>0, <1>11, <3>1, <3>2, SMTT(30) DEF Release
    <3>4. OpenExclusion' /\ OnlyStreamErrors'
      BY <1>0, <1>11, <3>1, <3>3 DEF Release
    <3>5. QED
      BY <1>0, <1>11, <2>1, <3>1, <3>2, <3>4 DEF Release
  <2>4. CASE ~open
    BY <1>0, <1>11, <2>1, <2>4 DEF Release, AfterRelease
  <2>5. QED
    BY <2>3, <2>4
<1>12. ASSUME NEW k \in Closers, CloseChannel(k)
       PROVE  LockInv'
  BY <1>0, <1>12 DEF CloseChannel
<1>13. ASSUME NEW k \in Closers, ReleaseSendlock(k)
       PROVE  LockInv'
  BY <1>0, <1>13 DEF ReleaseSendlock, CleanupMayRelease
<1>14. CASE UNCHANGED vars
  BY <1>0, <1>14 DEF vars
<1>15. QED
  BY <1>1, <1>2, <1>3, <1>4, <1>5, <1>6, <1>7, <1>8, <1>9, <1>10, <1>11, <1>12,
     <1>13, <1>14 DEF Next, Step

(* The lock protocol of _send and _cleanup maintains LockInv, for every    *)
(* number of calls and closers.                                            *)
LEMMA LockInvariant == Spec => []LockInv
<1>1. QED
  BY LockInit, LockNext, PTL DEF Spec

(* Every variable keeps its type.                                          *)
THEOREM TypeCorrect == Spec => []TypeOK
<1>1. LockInv => TypeOK
  BY DEF LockInv
<1>2. QED
  BY <1>1, LockInvariant, PTL

(* Until _cleanup releases the send lock under its holder the lock         *)
(* excludes, on a closed channel too; when it does, the channel is closed. *)
THEOREM Exclusion == Spec => []MutualExclusion
<1>1. LockInv => MutualExclusion
  BY DEF LockInv
<1>2. QED
  BY <1>1, LockInvariant, PTL

(* On an open connection _send raises nothing of its own.                  *)
THEOREM NoLockErrors == Spec => []OnlyStreamErrors
<1>1. LockInv => OnlyStreamErrors
  BY DEF LockInv
<1>2. QED
  BY <1>1, LockInvariant, PTL

-----------------------------------------------------------------------------
(* The messages popped so far are those order has and queue has not.       *)
Popped == Len(order) - Len(queue)

(* The queue is the end of the order; an order position has its own        *)
(* message, that of a call that is past its append.                        *)
QueueInv ==
  /\ Popped \in Nat
  /\ \A i \in 1..Len(queue) : queue[i] = order[Popped + i]
  /\ \A i, j \in 1..Len(order) : order[i] = order[j] => i = j
  /\ \A i \in 1..Len(order) : pc[order[i]] \notin {"idle", "append"}

(* What has been written was popped.                                       *)
WireInv ==
  \A h \in 1..Len(wire) : \E j \in 1..Popped : wire[h][1] = order[j]

(* A call that writes holds the last popped message, and has written       *)
(* exactly the parts before its next one, the last of them just now.       *)
HandInv ==
  \A c \in Calls : open /\ pc[c] = "write" =>
    /\ Popped >= 1
    /\ msg[c] = order[Popped]
    /\ part[c] <= Parts(msg[c])
    /\ \A h \in 1..Len(wire) : wire[h][1] = msg[c] => wire[h][2] < part[c]
    /\ part[c] > 1 => /\ Len(wire) >= 1
                      /\ wire[Len(wire)] = <<msg[c], part[c] - 1>>

(* What was popped and can be sent is on the wire whole, but for the last  *)
(* popped message while a call is writing it.                              *)
DoneInv ==
  open => \A j \in 1..Popped :
            \/ order[j] \in Unsendable
            \/ OnWire(order[j], Len(wire))
            \/ j = Popped /\ \E c \in Calls : pc[c] = "write" /\ msg[c] = order[j]

FrameInv ==
  /\ QueueInv
  /\ WireInv
  /\ HandInv
  /\ DoneInv
  /\ FramesInOrder

(* Initially nothing has been appended or written.                         *)
LEMMA FrameInit == Init => FrameInv
BY DEF Init, FrameInv, QueueInv, WireInv, HandInv, DoneInv, FramesInOrder, Popped

(* A step that adds nothing to the wire keeps the frames in order, because *)
(* the order only grows at its end.                                        *)
LEMMA FramesKept ==
  ASSUME TypeOK, FramesInOrder, wire' = wire, Len(order') \in Nat, Len(order') >= Len(order),
         \A i \in 1..Len(order) : order'[i] = order[i]
  PROVE  FramesInOrder'
<1> SUFFICES ASSUME NEW i \in 1..Len(wire), FrameStarts(i)
             PROVE  FrameStarts(i)'
  BY DEF FramesInOrder, FrameContinues
<1>1. PICK n \in 1..Len(order) :
        /\ wire[i][1] = order[n]
        /\ \A j \in 1..(n - 1) : order[j] \in Unsendable \/ OnWire(order[j], i - 1)
  BY DEF FrameStarts
<1>2. n \in 1..Len(order') /\ order'[n] = order[n]
  BY DEF TypeOK
<1>3. \A j \in 1..(n - 1) : order'[j] = order[j]
  BY DEF TypeOK
<1>4. \A j \in 1..(n - 1) : (order[j] \in Unsendable \/ OnWire(order[j], i - 1))'
  BY <1>1, <1>3 DEF OnWire
<1>5. wire'[i][1] = order'[n] /\ wire'[i][2] = 1
  BY <1>1, <1>2 DEF FrameStarts
<1>6. QED
  BY <1>2, <1>4, <1>5 DEF FrameStarts

(* A step that moves no message and lets no call start or stop writing     *)
(* disturbs none of the conjuncts.                                         *)
LEMMA FrameQuiet ==
  ASSUME TypeOK, FrameInv,
         UNCHANGED <<msg, part, queue, wire, order>>,
         open' => open,
         \A c \in Calls : pc'[c] = "write" <=> pc[c] = "write",
         \A c \in Calls : pc[c] \notin {"idle", "append"} => pc'[c] \notin {"idle", "append"}
  PROVE  FrameInv'
<1> USE DEF TypeOK
<1>1. QueueInv'
  BY DEF FrameInv, QueueInv, Popped
<1>2. WireInv'
  BY DEF FrameInv, WireInv, Popped
<1>3. HandInv'
  BY DEF FrameInv, HandInv, Popped
<1>4. DoneInv'
  BY DEF FrameInv, DoneInv, Popped, OnWire
<1>5. FramesInOrder'
  BY FramesKept DEF FrameInv
<1>6. QED
  BY <1>1, <1>2, <1>3, <1>4, <1>5 DEF FrameInv

(* _send appends to the order and to the queue alike.                      *)
LEMMA FrameAppend ==
  ASSUME LockInv, FrameInv, NEW c \in Calls, AppendData(c)
  PROVE  FrameInv'
<1> USE DEF LockInv, TypeOK, AppendData, Queued, At, Goto
<1>1. /\ Len(order') = Len(order) + 1
      /\ Len(queue') = Len(queue) + 1
      /\ \A i \in 1..Len(order) : order'[i] = order[i]
      /\ \A i \in 1..Len(queue) : queue'[i] = queue[i]
      /\ order'[Len(order) + 1] = c
      /\ queue'[Len(queue) + 1] = c
  BY AppendProperties
<1>2. Popped' = Popped /\ Popped \in Nat /\ Popped <= Len(order)
  BY <1>1 DEF Popped, FrameInv, QueueInv
<1>3. QueueInv'
  <2>1. \A i \in 1..Len(queue') : queue'[i] = order'[Popped' + i]
    <3> SUFFICES ASSUME NEW i \in 1..Len(queue')
                 PROVE  queue'[i] = order'[Popped + i]
      BY <1>2
    <3>1. CASE i \in 1..Len(queue)
      BY <1>1, <3>1 DEF FrameInv, QueueInv, Popped
    <3>2. CASE i = Len(queue) + 1
      BY <1>1, <3>2 DEF Popped
    <3>3. Len(queue) \in Nat /\ i \in 1..(Len(queue) + 1)
      BY <1>1, LenProperties
    <3>4. i \in 1..Len(queue) \/ i = Len(queue) + 1
      BY <3>3
    <3>5. QED
      BY <3>1, <3>2, <3>4
  <2>2. \A i \in 1..Len(order) : order[i] # c
    BY DEF FrameInv, QueueInv
  <2>3. \A i, j \in 1..Len(order') : order'[i] = order'[j] => i = j
    BY <1>1, <2>2 DEF FrameInv, QueueInv
  <2>4. \A i \in 1..Len(order') : pc'[order'[i]] \notin {"idle", "append"}
    BY <1>1 DEF FrameInv, QueueInv
  <2>5. QED
    BY <1>2, <2>1, <2>3, <2>4 DEF QueueInv
<1>4. WireInv'
  BY <1>1, <1>2 DEF FrameInv, WireInv
<1>5. HandInv'
  BY <1>1, <1>2 DEF FrameInv, HandInv
<1>6. DoneInv'
  <2>1. \A j \in 1..Popped : order'[j] = order[j]
    BY <1>1, <1>2
  <2>2. \A d \in Calls : pc'[d] = "write" <=> pc[d] = "write"
    OBVIOUS
  <2>3. \A j \in 1..Popped : OnWire(order[j], Len(wire)) => OnWire(order[j], Len(wire))'
    BY <2>1 DEF OnWire
  <2> SUFFICES ASSUME open, NEW j \in 1..Popped
               PROVE  (\/ order[j] \in Unsendable
                       \/ OnWire(order[j], Len(wire))
                       \/ j = Popped /\ \E d \in Calls : pc[d] = "write" /\ msg[d] = order[j])'
    BY <1>2 DEF DoneInv
  <2>4. CASE order[j] \in Unsendable
    BY <2>1, <2>4
  <2>5. CASE OnWire(order[j], Len(wire))
    BY <2>3, <2>5
  <2>6. CASE j = Popped /\ \E d \in Calls : pc[d] = "write" /\ msg[d] = order[j]
    BY <1>2, <2>1, <2>2, <2>6
  <2>7. QED
    BY <2>4, <2>5, <2>6 DEF FrameInv, DoneInv
<1>7. FramesInOrder'
  BY <1>1, FramesKept DEF FrameInv
<1>8. QED
  BY <1>3, <1>4, <1>5, <1>6, <1>7 DEF FrameInv

(* Popping moves the head of the queue into the hands of the one call that *)
(* holds the lock; it is on the wire nowhere yet.                          *)
LEMMA FramePop ==
  ASSUME LockInv, FrameInv, NEW c \in Calls, Pop(c)
  PROVE  FrameInv'
<1> USE DEF LockInv, TypeOK, Pop, At, Goto
<1>1. /\ Len(queue') = Len(queue) - 1
      /\ \A i \in 1..Len(queue') : queue'[i] = queue[i + 1]
      /\ Len(queue) \in Nat /\ Len(queue) >= 1
      /\ Head(queue) = queue[1]
  BY HeadTailProperties, LenProperties
<1>2. Popped' = Popped + 1 /\ Popped \in Nat /\ Popped < Len(order) /\ Len(order) \in Nat
  BY <1>1, LenProperties DEF Popped, FrameInv, QueueInv
<1>3. msg'[c] = order[Popped'] /\ part'[c] = 1
  BY <1>1, <1>2 DEF FrameInv, QueueInv
<1>4. QueueInv'
  <2>1. \A i \in 1..Len(queue') : queue'[i] = order[Popped' + i]
    BY <1>1, <1>2 DEF FrameInv, QueueInv
  <2>2. \A i \in 1..Len(order) : pc'[order[i]] \notin {"idle", "append"}
    BY DEF FrameInv, QueueInv
  <2>3. QED
    BY <1>2, <2>1, <2>2 DEF FrameInv, QueueInv
<1>5. WireInv'
  <2>1. 1..Popped \subseteq 1..Popped'
    BY <1>2
  <2>2. QED
    BY <2>1 DEF FrameInv, WireInv
<1>6. ASSUME open
      PROVE  \A d \in Calls : pc'[d] = "write" => d = c
  BY <1>6 DEF OpenExclusion, Holders
<1>7. HandInv'
  <2>1. \A h \in 1..Len(wire) : wire[h][1] # msg'[c]
    <3> SUFFICES ASSUME NEW h \in 1..Len(wire), wire[h][1] = order[Popped']
                 PROVE  FALSE
      BY <1>3
    <3>1. PICK j \in 1..Popped : wire[h][1] = order[j]
      BY DEF FrameInv, WireInv
    <3>2. j \in 1..Len(order) /\ Popped' \in 1..Len(order) /\ j # Popped'
      BY <1>2
    <3>3. QED
      BY <3>1, <3>2 DEF FrameInv, QueueInv
  <2>2. QED
    BY <1>2, <1>3, <1>6, <2>1 DEF HandInv, Parts
<1>8. DoneInv'
  <2> SUFFICES ASSUME open, NEW j \in 1..Popped'
               PROVE  (\/ order[j] \in Unsendable
                       \/ OnWire(order[j], Len(wire))
                       \/ j = Popped /\ \E d \in Calls : pc[d] = "write" /\ msg[d] = order[j])'
    BY DEF DoneInv
  <2>1. CASE j = Popped'
    BY <1>3, <2>1
  <2>2. CASE j \in 1..Popped
    <3>1. ~ \E d \in Calls : pc[d] = "write"
      BY DEF OpenExclusion, Holders
    <3>2. QED
      BY <2>2, <3>1 DEF FrameInv, DoneInv, OnWire
  <2>3. QED
    BY <1>2, <2>1, <2>2
<1>9. FramesInOrder'
  BY FramesKept DEF FrameInv
<1>10. QED
  BY <1>4, <1>5, <1>7, <1>8, <1>9 DEF FrameInv

(* A write puts the next part of the message in hand after the part before *)
(* it, or starts a frame after all frames of earlier messages.             *)
LEMMA FrameWrite ==
  ASSUME LockInv, FrameInv, NEW c \in Calls, Write(c)
  PROVE  FrameInv'
<1>a. /\ msg[c] \in Calls /\ part[c] \in 1..3 /\ open /\ pc[c] = "write"
      /\ queue' = queue /\ order' = order /\ open' = open
      /\ wire' = Append(wire, <<msg[c], part[c]>>)
      /\ wire \in Seq(Calls \X (1..3)) /\ queue \in Seq(Calls) /\ order \in Seq(Calls)
      /\ pc \in [Calls -> Labels] /\ msg \in [Calls -> Calls \cup {None}]
      /\ part \in [Calls -> 1..3]
  BY DEF LockInv, TypeOK, Write, At
<1>b. \/ /\ part[c] < Parts(msg[c])
         /\ part' = [part EXCEPT ![c] = part[c] + 1] /\ pc' = pc /\ msg' = msg
      \/ /\ ~(part[c] < Parts(msg[c])) /\ pc' = [pc EXCEPT ![c] = "release"]
  BY DEF Write, Goto
<1>c. \A d \in Calls : pc[d] = "write" => d = c
  BY <1>a DEF LockInv, OpenExclusion, Holders
<1> PICK L \in Nat : L = Len(wire) + 1
  BY <1>a, LenProperties
<1>1. /\ Len(wire') = L
      /\ \A i \in 1..Len(wire) : wire'[i] = wire[i]
      /\ wire'[L] = <<msg[c], part[c]>>
      /\ Len(wire) \in Nat /\ L - 1 = Len(wire)
      /\ 1..L = 1..Len(wire) \cup {L}
  <2>1. <<msg[c], part[c]>> \in Calls \X (1..3)
    BY <1>a
  <2>2. QED
    BY <1>a, <2>1, AppendProperties, LenProperties
<1>2. Popped' = Popped /\ Popped \in Nat /\ Popped <= Len(order) /\ Len(order) \in Nat
  BY <1>a, LenProperties DEF Popped, FrameInv, QueueInv
<1>3. /\ Popped >= 1
      /\ msg[c] = order[Popped]
      /\ part[c] <= Parts(msg[c])
      /\ \A h \in 1..Len(wire) : wire[h][1] = msg[c] => wire[h][2] < part[c]
      /\ part[c] > 1 => /\ Len(wire) >= 1
                        /\ wire[Len(wire)] = <<msg[c], part[c] - 1>>
  BY <1>a DEF FrameInv, HandInv
<1>5. QueueInv'
  <2>1. \A i \in 1..Len(order) : pc'[order[i]] \notin {"idle", "append"}
    BY <1>a, <1>b DEF FrameInv, QueueInv
  <2>2. QED
    BY <1>a, <1>2, <2>1 DEF FrameInv, QueueInv
<1>6. WireInv'
  BY <1>a, <1>1, <1>2, <1>3 DEF FrameInv, WireInv
<1>7. HandInv'
  <2>1. CASE part[c] < Parts(msg[c])
    <3>1. part'[c] = part[c] + 1 /\ msg' = msg /\ pc' = pc
      BY <1>a, <1>b, <2>1
    <3>2. \A h \in 1..L : wire'[h][1] = msg[c] => wire'[h][2] < part[c] + 1
      <4> SUFFICES ASSUME NEW h \in 1..L, wire'[h][1] = msg[c]
                   PROVE  wire'[h][2] < part[c] + 1
        OBVIOUS
      <4>1. CASE h = L
        BY <1>a, <1>1, <4>1
      <4>2. CASE h \in 1..Len(wire)
        <5>1. wire[h] \in Calls \X (1..3) /\ wire[h][2] < part[c]
          BY <1>a, <1>1, <1>3, <4>2, ElementOfSeq
        <5>2. wire[h][2] \in 1..3
          BY <5>1
        <5>3. QED
          BY <1>a, <1>1, <4>2, <5>1, <5>2
      <4>3. QED
        BY <1>1, <4>1, <4>2
    <3>3. part[c] + 1 <= Parts(msg[c])
      BY <1>a, <2>1 DEF Parts
    <3>4. wire'[Len(wire')] = <<msg[c], part'[c] - 1>> /\ Len(wire') >= 1
      BY <1>a, <1>1, <3>1
    <3>5. QED
      BY <1>a, <1>c, <1>1, <1>2, <1>3, <3>1, <3>2, <3>3, <3>4 DEF HandInv
  <2>2. CASE ~(part[c] < Parts(msg[c]))
    <3>1. \A d \in Calls : pc'[d] # "write"
      BY <1>a, <1>b, <1>c, <2>2
    <3>2. QED
      BY <3>1 DEF HandInv
  <2>3. QED
    BY <2>1, <2>2
<1>8. \A m, i : i \in 0..Len(wire) => (OnWire(m, i) <=> OnWire(m, i)')
  BY <1>1 DEF OnWire
<1>9. DoneInv'
  <2> SUFFICES ASSUME NEW j \in 1..Popped
               PROVE  (\/ order[j] \in Unsendable
                       \/ OnWire(order[j], Len(wire))
                       \/ j = Popped /\ \E d \in Calls : pc[d] = "write" /\ msg[d] = order[j])'
    BY <1>2 DEF DoneInv
  <2>1. CASE order[j] \in Unsendable
    BY <1>a, <2>1
  <2>2. CASE OnWire(order[j], Len(wire))
    BY <1>a, <1>1, <2>2 DEF OnWire
  <2>3. CASE j = Popped
    <3>1. CASE part[c] < Parts(msg[c])
      BY <1>a, <1>b, <1>2, <1>3, <2>3, <3>1
    <3>2. CASE part[c] = Parts(msg[c])
      BY <1>a, <1>1, <1>3, <2>3, <3>2 DEF OnWire
    <3>3. QED
      BY <1>a, <1>3, <3>1, <3>2 DEF Parts
  <2>4. QED
    BY <1>a, <2>1, <2>2, <2>3 DEF FrameInv, DoneInv
<1>10. FramesInOrder'
  <2>1. ASSUME NEW i \in 1..Len(wire)
        PROVE  (FrameStarts(i) \/ FrameContinues(i))' /\ \A h \in 1..(i - 1) : wire'[h] # wire'[i]
    <3>1. CASE FrameStarts(i)
      <4>1. i - 1 \in 0..Len(wire) /\ \A m : OnWire(m, i - 1) <=> OnWire(m, i - 1)'
        BY <1>1, <1>8
      <4>2. QED
        BY <1>a, <1>1, <3>1, <4>1 DEF FrameStarts, FrameInv, FramesInOrder
    <3>2. CASE FrameContinues(i)
      BY <1>1, <3>2, SMTT(30) DEF FrameContinues, FrameInv, FramesInOrder
    <3>3. QED
      BY <3>1, <3>2 DEF FrameInv, FramesInOrder
  <2>2. \A h \in 1..(L - 1) : wire'[h] # wire'[L]
    BY <1>a, <1>1, <1>3, SMTT(30)
  <2>3. CASE part[c] = 1
    <3>1. \A j \in 1..(Popped - 1) : order[j] \in Unsendable \/ OnWire(order[j], Len(wire))
      <4>1. \A j \in 1..(Popped - 1) : j \in 1..Popped /\ j # Popped
        BY <1>2
      <4>2. QED
        BY <1>a, <4>1 DEF FrameInv, DoneInv
    <3>2. \A j \in 1..(Popped - 1) : (order[j] \in Unsendable \/ OnWire(order[j], L - 1))'
      BY <1>a, <1>1, <3>1 DEF OnWire
    <3>3. FrameStarts(L)'
      BY <1>a, <1>1, <1>2, <1>3, <2>3, <3>2 DEF FrameStarts
    <3>4. QED
      BY <1>1, <2>1, <2>2, <3>3 DEF FramesInOrder
  <2>4. CASE part[c] > 1
    <3>1. FrameContinues(L)'
      BY <1>a, <1>1, <1>3, <2>4 DEF FrameContinues, Parts
    <3>2. QED
      BY <1>1, <2>1, <2>2, <3>1 DEF FramesInOrder
  <2>5. QED
    BY <1>a, <2>3, <2>4
<1>11. QED
  BY <1>5, <1>6, <1>7, <1>9, <1>10 DEF FrameInv

(* A failing write closes the stream: nothing is claimed of what was in    *)
(* hand, and the wire stays as it is.                                      *)
LEMMA FrameWriteFails ==
  ASSUME LockInv, FrameInv, NEW c \in Calls, WriteFails(c)
  PROVE  FrameInv'
<1>1. /\ open' = FALSE
      /\ UNCHANGED <<queue, wire, order>>
      /\ \A d \in Calls : pc[d] \notin {"idle", "append"} => pc'[d] \notin {"idle", "append"}
  BY DEF LockInv, TypeOK, WriteFails, OpenAfterError, Raise, Goto, At
<1>2. QueueInv'
  <2>1. \A i \in 1..Len(order) : order[i] \in Calls
    BY DEF LockInv, TypeOK
  <2>2. \A i \in 1..Len(order) : pc'[order[i]] \notin {"idle", "append"}
    BY <1>1, <2>1 DEF FrameInv, QueueInv
  <2>3. QED
    BY <1>1, <2>2 DEF FrameInv, QueueInv, Popped
<1>3. WireInv'
  BY <1>1 DEF FrameInv, WireInv, Popped
<1>4. HandInv' /\ DoneInv'
  BY <1>1 DEF HandInv, DoneInv
<1>5. FramesInOrder'
  BY <1>1, FramesKept, LenProperties DEF FrameInv, LockInv, TypeOK
<1>6. QED
  BY <1>2, <1>3, <1>4, <1>5 DEF FrameInv

(* A message that cannot be sent leaves the hand; the wire has nothing of  *)
(* it, and the next frame may skip it.                                     *)
LEMMA FrameSendRaises ==
  ASSUME LockInv, FrameInv, NEW c \in Calls, SendRaises(c)
  PROVE  FrameInv'
<1>1. /\ UNCHANGED <<queue, wire, order, open, part>>
      /\ pc[c] = "write" /\ msg[c] \in Unsendable
      /\ \A d \in Calls : pc[d] \notin {"idle", "append"} => pc'[d] \notin {"idle", "append"}
      /\ \A d \in Calls : pc'[d] = "write" => pc[d] = "write" /\ d # c
  BY DEF LockInv, TypeOK, SendRaises, Raise, Goto, At
<1>2. open => \A d \in Calls : pc[d] = "write" => d = c
  BY <1>1 DEF LockInv, OpenExclusion, Holders
<1>3. QueueInv' /\ WireInv'
  BY <1>1 DEF LockInv, TypeOK, FrameInv, QueueInv, WireInv, Popped
<1>4. HandInv'
  BY <1>1, <1>2 DEF HandInv
<1>5. DoneInv'
  <2> SUFFICES ASSUME open, NEW j \in 1..Popped
               PROVE  order[j] \in Unsendable \/ OnWire(order[j], Len(wire))
    BY <1>1 DEF DoneInv, OnWire, Popped
  <2>1. \A d \in Calls : pc[d] = "write" => msg[d] \in Unsendable
    BY <1>1, <1>2
  <2>2. QED
    BY <2>1 DEF FrameInv, DoneInv
<1>6. FramesInOrder'
  BY <1>1, FramesKept, LenProperties DEF FrameInv, LockInv, TypeOK
<1>7. QED
  BY <1>3, <1>4, <1>5, <1>6 DEF FrameInv

(* Every step preserves the relation between order, queue, hand and wire.  *)
LEMMA FrameNext == LockInv /\ FrameInv /\ [Next]_vars => FrameInv'
<1> SUFFICES ASSUME LockInv, FrameInv, [Next]_vars
             PROVE  FrameInv'
  OBVIOUS
<1> USE DEF LockInv, TypeOK, At, Goto, Raise
<1>1. ASSUME NEW c \in Calls, NEW p \in Calls \cup {None}, Start(c, p)
      PROVE  FrameInv'
  BY <1>1, FrameQuiet DEF Start
<1>2. ASSUME NEW c \in Calls, CheckQueue(c)
      PROVE  FrameInv'
  BY <1>2, FrameQuiet DEF CheckQueue
<1>3. ASSUME NEW c \in Calls, TryAcquire(c)
      PROVE  FrameInv'
  BY <1>3, FrameQuiet DEF TryAcquire, AfterAcquire
<1>4. ASSUME NEW c \in Calls, RecheckQueue(c)
      PROVE  FrameInv'
  BY <1>4, FrameQuiet DEF RecheckQueue, AfterRecheck
<1>5. ASSUME NEW c \in Calls, PopFromEmpty(c)
      PROVE  FrameInv'
  BY <1>5, FrameQuiet DEF PopFromEmpty
<1>6. ASSUME NEW c \in Calls, Release(c)
      PROVE  FrameInv'
  BY <1>6, FrameQuiet DEF Release, AfterRelease
<1>7. ASSUME NEW k \in Closers, CloseChannel(k) \/ ReleaseSendlock(k)
      PROVE  FrameInv'
  BY <1>7, FrameQuiet DEF CloseChannel, ReleaseSendlock
<1>8. CASE UNCHANGED vars
  BY <1>8, FrameQuiet DEF vars
<1>9. QED
  BY <1>1, <1>2, <1>3, <1>4, <1>5, <1>6, <1>7, <1>8,
     FrameAppend, FramePop, FrameWrite, FrameWriteFails, FrameSendRaises
     DEF Next, Step

(* Whatever the interleaving of calls, nested calls and closes, the socket *)
(* carries whole frames in the order of the appends.                       *)
THEOREM FramesTheorem == Spec => []FramesInOrder
<1>1. FrameInv => FramesInOrder
  BY DEF FrameInv
<1>2. QED
  BY <1>1, LockInvariant, FrameInit, FrameNext, PTL DEF Spec

-----------------------------------------------------------------------------
(* A queue that is not empty is being drained, unless a send has raised.   *)
StrandInv ==
  /\ open => \A c \in Calls : failure[c] \in {"none", "SendError"}
  /\ NothingStranded

(* Every step keeps a drainer for a queue that is not empty: who gives up  *)
(* on the lock leaves its holder, who releases it looks again.             *)
LEMMA StrandNext == LockInv /\ StrandInv /\ [Next]_vars => StrandInv'
<1> SUFFICES ASSUME LockInv, StrandInv, [Next]_vars
             PROVE  StrandInv'
  OBVIOUS
<1> USE DEF LockInv, TypeOK, StrandInv, NothingStranded, SendRaised, OpenExclusion, Holders,
        At, Goto, Raise
<1>1. ASSUME NEW c \in Calls, NEW p \in Calls \cup {None}, Start(c, p)
      PROVE  StrandInv'
  BY <1>1 DEF Start
<1>2. ASSUME NEW c \in Calls, AppendData(c)
      PROVE  StrandInv'
  BY <1>2 DEF AppendData
<1>3. ASSUME NEW c \in Calls, CheckQueue(c)
      PROVE  StrandInv'
  BY <1>3 DEF CheckQueue
<1>4. ASSUME NEW c \in Calls, TryAcquire(c)
      PROVE  StrandInv'
  BY <1>4 DEF TryAcquire, AfterAcquire
<1>5. ASSUME NEW c \in Calls, RecheckQueue(c)
      PROVE  StrandInv'
  BY <1>5 DEF RecheckQueue, AfterRecheck
<1>6. ASSUME NEW c \in Calls, Pop(c)
      PROVE  StrandInv'
  BY <1>6 DEF Pop
<1>7. ASSUME NEW c \in Calls, PopFromEmpty(c)
      PROVE  StrandInv'
  BY <1>7 DEF PopFromEmpty
<1>8. ASSUME NEW c \in Calls, Write(c)
      PROVE  StrandInv'
  BY <1>8 DEF Write
<1>9. ASSUME NEW c \in Calls, WriteFails(c)
      PROVE  StrandInv'
  BY <1>9 DEF WriteFails, OpenAfterError
<1>10. ASSUME NEW c \in Calls, Release(c)
       PROVE  StrandInv'
  BY <1>10 DEF Release, AfterRelease
<1>11. ASSUME NEW k \in Closers, CloseChannel(k) \/ ReleaseSendlock(k)
       PROVE  StrandInv'
  BY <1>11 DEF CloseChannel, ReleaseSendlock
<1>12. CASE UNCHANGED vars
  BY <1>12 DEF vars
<1>13. ASSUME NEW c \in Calls, SendRaises(c)
       PROVE  StrandInv'
  <2>1. failure'[c] = "SendError"
    BY <1>13 DEF SendRaises
  <2>2. open' = open /\ \A d \in Calls : failure'[d] \in {failure[d], "SendError"}
    BY <1>13 DEF SendRaises
  <2>3. QED
    BY <2>1, <2>2
<1>14. QED
  BY <1>1, <1>2, <1>3, <1>4, <1>5, <1>6, <1>7, <1>8, <1>9, <1>10, <1>11, <1>12, <1>13
     DEF Next, Step

(* No message is left in the queue of an open connection without a call    *)
(* that drains it, as long as Channel.send raises only for a closed stream.*)
THEOREM NoMessageStranded == Spec => []NothingStranded
<1>1. Init => StrandInv
  BY DEF Init, StrandInv, NothingStranded
<1>2. LockInv /\ StrandInv /\ [Next]_vars => StrandInv'
  BY StrandNext
<1>3. StrandInv => NothingStranded
  BY DEF StrandInv
<1>4. QED
  BY <1>1, <1>2, <1>3, LockInvariant, PTL DEF Spec

-----------------------------------------------------------------------------
(* The refinement of MessageChannel.  First what Kept computes, by         *)
(* induction on the length: a set of lengths that has 0, and with each     *)
(* length the next, has them all.                                          *)
LEMMA Induction ==
  ASSUME NEW N \in SUBSET Nat, 0 \in N, \A n \in N : n + 1 \in N
  PROVE  N = Nat
<1> SUFFICES ASSUME Nat \ N # {} PROVE FALSE
  OBVIOUS
<1>1. PICK x \in Nat \ N : \A y \in Nat \ N : ~ (<<y, x>> \in OpToRel(<, Nat))
  <2>1. Nat \ N \subseteq Nat
    OBVIOUS
  <2>2. QED
    BY <2>1, NatLessThanWellFounded, WFMin
<1>2. x # 0 /\ x - 1 \in Nat /\ x - 1 + 1 = x
  OBVIOUS
<1>3. <<x - 1, x>> \in OpToRel(<, Nat)
  BY <1>2 DEF OpToRel
<1>4. QED
  BY <1>1, <1>2, <1>3

(* f[i] is what is kept of the first i elements of s.                      *)
Keeps(f, s, S, n) ==
  f = [i \in 0..n |-> IF i = 0 THEN <<>> ELSE IF s[i] \in S THEN Append(f[i - 1], s[i]) ELSE f[i - 1]]

LEMMA KeepsAt ==
  ASSUME NEW f, NEW s, NEW S, NEW n \in Nat, Keeps(f, s, S, n), NEW k \in 0..n
  PROVE  f[k] = IF k = 0 THEN <<>> ELSE IF s[k] \in S THEN Append(f[k - 1], s[k]) ELSE f[k - 1]
BY DEF Keeps

LEMMA KeepsExists ==
  ASSUME NEW s, NEW S, NEW n \in Nat
  PROVE  \E f : Keeps(f, s, S, n)
<1> DEFINE N == {k \in Nat : \E f : Keeps(f, s, S, k)}
<1>1. 0 \in N
  <2>1. Keeps([i \in 0..0 |-> <<>>], s, S, 0)
    BY DEF Keeps
  <2>2. QED
    BY <2>1
<1>2. ASSUME NEW k \in N
      PROVE  k + 1 \in N
  <2>1. PICK f : Keeps(f, s, S, k)
    OBVIOUS
  <2> DEFINE last == IF s[k + 1] \in S THEN Append(f[k], s[k + 1]) ELSE f[k]
             g == [i \in 0..(k + 1) |-> IF i = k + 1 THEN last ELSE f[i]]
  <2>2. \A i \in 0..k : g[i] = f[i]
    OBVIOUS
  <2>3. g[k + 1] = last
    OBVIOUS
  <2> HIDE DEF g
  <2>4. \A i \in 0..(k + 1) :
          g[i] = IF i = 0 THEN <<>> ELSE IF s[i] \in S THEN Append(g[i - 1], s[i]) ELSE g[i - 1]
    <3> SUFFICES ASSUME NEW i \in 0..(k + 1)
                 PROVE  g[i] = IF i = 0 THEN <<>>
                               ELSE IF s[i] \in S THEN Append(g[i - 1], s[i]) ELSE g[i - 1]
      OBVIOUS
    <3>1. CASE i = k + 1
      BY <2>2, <2>3, <3>1
    <3>2. CASE i \in 0..k
      <4>1. f[i] = IF i = 0 THEN <<>> ELSE IF s[i] \in S THEN Append(f[i - 1], s[i]) ELSE f[i - 1]
        BY <2>1, <3>2 DEF Keeps
      <4>2. i # 0 => i - 1 \in 0..k
        BY <3>2
      <4>3. QED
        BY <2>2, <3>2, <4>1, <4>2
    <3>3. QED
      BY <3>1, <3>2
  <2>5. g = [i \in 0..(k + 1) |-> g[i]]
    BY DEF g
  <2>6. Keeps(g, s, S, k + 1)
    BY <2>4, <2>5 DEF Keeps
  <2>7. QED
    BY <2>6
<1> HIDE DEF N
<1>3. N = Nat
  <2>1. N \subseteq Nat
    BY DEF N
  <2>2. QED
    BY <1>1, <1>2, <2>1, Induction
<1>4. QED
  BY <1>3 DEF N

(* Kept is the last value of such a function.                              *)
LEMMA KeptIs ==
  ASSUME NEW T, NEW s \in Seq(T), NEW S
  PROVE  \E f : Keeps(f, s, S, Len(s)) /\ Kept(s, S) = f[Len(s)]
<1>1. Len(s) \in Nat
  OBVIOUS
<1>2. \E g : Keeps(g, s, S, Len(s))
  BY <1>1, KeepsExists
<1>3. QED
  BY <1>2, Zenon DEF Kept, Keeps

(* Two sequences and sets that agree so far keep the same so far.          *)
LEMMA KeepsSame ==
  ASSUME NEW s, NEW S, NEW r, NEW R, NEW n \in Nat, NEW m \in Nat, n <= m,
         NEW f, Keeps(f, s, S, n), NEW g, Keeps(g, r, R, m),
         \A i \in 1..n : s[i] = r[i] /\ (s[i] \in S <=> r[i] \in R)
  PROVE  f[n] = g[n]
<1> DEFINE N == {k \in Nat : k <= n => f[k] = g[k]}
<1>1. 0 \in N
  <2>1. f[0] = <<>> /\ g[0] = <<>>
    BY DEF Keeps
  <2>2. QED
    BY <2>1
<1>2. ASSUME NEW k \in N
      PROVE  k + 1 \in N
  <2> SUFFICES ASSUME k + 1 <= n
               PROVE  f[k + 1] = g[k + 1]
    OBVIOUS
  <2>1. k + 1 \in 0..n /\ k + 1 \in 0..m /\ k + 1 \in 1..n /\ k + 1 # 0 /\ k + 1 - 1 = k /\ f[k] = g[k]
    OBVIOUS
  <2>2. f[k + 1] = IF s[k + 1] \in S THEN Append(f[k], s[k + 1]) ELSE f[k]
    BY <2>1, KeepsAt
  <2>3. g[k + 1] = IF r[k + 1] \in R THEN Append(g[k], r[k + 1]) ELSE g[k]
    BY <2>1, KeepsAt
  <2>4. QED
    BY <2>1, <2>2, <2>3
<1> HIDE DEF N
<1>3. N = Nat
  <2>1. N \subseteq Nat
    BY DEF N
  <2>2. QED
    BY <1>1, <1>2, <2>1, Induction
<1>4. QED
  BY <1>3 DEF N


(* Of an empty sequence nothing is kept.                                   *)
LEMMA KeptEmpty ==
  ASSUME NEW S
  PROVE  Kept(<<>>, S) = <<>>
<1>1. <<>> \in Seq({}) /\ Len(<<>>) = 0
  OBVIOUS
<1>2. PICK f : Keeps(f, <<>>, S, 0) /\ Kept(<<>>, S) = f[0]
  BY <1>1, KeptIs
<1>3. QED
  BY <1>2, KeepsAt

(* What is kept of a longer sequence.                                      *)
LEMMA KeptAppend ==
  ASSUME NEW T, NEW s \in Seq(T), NEW e \in T, NEW S
  PROVE  Kept(Append(s, e), S) = IF e \in S THEN Append(Kept(s, S), e) ELSE Kept(s, S)
<1> DEFINE r == Append(s, e)
<1>1. /\ r \in Seq(T) /\ Len(s) \in Nat /\ Len(r) = Len(s) + 1 /\ r[Len(s) + 1] = e
      /\ \A i \in 1..Len(s) : r[i] = s[i]
  BY AppendProperties, LenProperties
<1> HIDE DEF r
<1>2. PICK f : Keeps(f, s, S, Len(s)) /\ Kept(s, S) = f[Len(s)]
  BY KeptIs
<1>3. PICK g : Keeps(g, r, S, Len(r)) /\ Kept(r, S) = g[Len(r)]
  BY <1>1, KeptIs
<1> PICK n \in Nat : n = Len(s)
  BY <1>1
<1>4. f[n] = g[n]
  <2>1. Keeps(g, r, S, n + 1) /\ Keeps(f, s, S, n) /\ n + 1 \in Nat /\ n <= n + 1
    BY <1>1, <1>2, <1>3
  <2>2. \A i \in 1..n : s[i] = r[i] /\ (s[i] \in S <=> r[i] \in S)
    BY <1>1
  <2>3. QED
    BY <2>1, <2>2, KeepsSame
<1>5. g[n + 1] = IF r[n + 1] \in S THEN Append(g[n], r[n + 1]) ELSE g[n]
  <2>1. Keeps(g, r, S, n + 1) /\ n + 1 \in Nat /\ n + 1 \in 0..(n + 1) /\ n + 1 # 0 /\ n + 1 - 1 = n
    BY <1>1, <1>3
  <2>2. QED
    BY <2>1, KeepsAt
<1>6. QED
  BY <1>1, <1>2, <1>3, <1>4, <1>5 DEF r

(* What is kept is a sequence of elements of s and of S.                   *)
LEMMA KeptType ==
  ASSUME NEW T, NEW s \in Seq(T), NEW S
  PROVE  Kept(s, S) \in Seq(T \cap S)
<1>1. PICK f : Keeps(f, s, S, Len(s)) /\ Kept(s, S) = f[Len(s)]
  BY KeptIs
<1> PICK n \in Nat : n = Len(s)
  OBVIOUS
<1> DEFINE N == {k \in Nat : k <= n => f[k] \in Seq(T \cap S)}
<1>2. 0 \in N
  <2>1. f[0] = <<>> /\ <<>> \in Seq(T \cap S)
    BY <1>1, KeepsAt, EmptySeq
  <2>2. QED
    BY <2>1
<1>3. ASSUME NEW k \in N
      PROVE  k + 1 \in N
  <2> SUFFICES ASSUME k + 1 <= n
               PROVE  f[k + 1] \in Seq(T \cap S)
    OBVIOUS
  <2>1. f[k + 1] = IF s[k + 1] \in S THEN Append(f[k], s[k + 1]) ELSE f[k]
    <3>1. Keeps(f, s, S, n) /\ k + 1 \in 0..n /\ k + 1 # 0 /\ k + 1 - 1 = k
      BY <1>1
    <3>2. QED
      BY <3>1, KeepsAt
  <2>2. f[k] \in Seq(T \cap S) /\ s[k + 1] \in T
    BY ElementOfSeq
  <2>3. QED
    BY <2>1, <2>2
<1> HIDE DEF N
<1>4. N = Nat
  <2>1. N \subseteq Nat
    BY DEF N
  <2>2. QED
    BY <1>2, <1>3, <2>1, Induction
<1>5. QED
  BY <1>1, <1>4 DEF N

(* Where the elements differ, the first that is kept is the head, and the  *)
(* tail is what is kept when the set loses it.                             *)
LEMMA KeptHead ==
  ASSUME NEW T, NEW s \in Seq(T), NEW S, NEW p \in 1..Len(s), s[p] \in S,
         \A i \in 1..(p - 1) : s[i] \notin S,
         \A i \in 1..Len(s) : s[i] = s[p] => i = p
  PROVE  /\ Kept(s, S) # <<>>
         /\ Head(Kept(s, S)) = s[p]
         /\ Tail(Kept(s, S)) = Kept(s, S \ {s[p]})
<1> DEFINE R == S \ {s[p]}
<1>1. PICK f : Keeps(f, s, S, Len(s)) /\ Kept(s, S) = f[Len(s)]
  BY KeptIs
<1>2. PICK g : Keeps(g, s, R, Len(s)) /\ Kept(s, R) = g[Len(s)]
  BY KeptIs
<1> PICK n \in Nat : n = Len(s)
  OBVIOUS
<1>a. p \in 1..n /\ \A i \in 1..n : s[i] \in T
  BY ElementOfSeq
<1>b. \A i \in 1..n : s[i] \in R <=> s[i] \in S /\ i # p
  BY <1>a
<1> HIDE DEF R
<1>c. Keeps(f, s, S, n) /\ Keeps(g, s, R, n)
  BY <1>1, <1>2
<1>s. ASSUME NEW k \in Nat, k + 1 <= n
      PROVE  /\ f[k + 1] = IF s[k + 1] \in S THEN Append(f[k], s[k + 1]) ELSE f[k]
             /\ g[k + 1] = IF s[k + 1] \in R THEN Append(g[k], s[k + 1]) ELSE g[k]
  <2>1. k + 1 \in 0..n /\ k + 1 # 0 /\ k + 1 - 1 = k
    BY <1>s
  <2>2. QED
    BY <1>c, <2>1, KeepsAt
<1> DEFINE N == {k \in Nat : k <= n =>
                   IF k < p THEN f[k] = <<>> /\ g[k] = <<>>
                   ELSE g[k] \in Seq(T) /\ f[k] = <<s[p]>> \o g[k]}
<1>3. 0 \in N
  <2>1. f[0] = <<>> /\ g[0] = <<>>
    BY <1>c, KeepsAt
  <2>2. QED
    BY <2>1
<1>4. ASSUME NEW k \in N
      PROVE  k + 1 \in N
  <2> SUFFICES ASSUME k + 1 <= n
               PROVE  IF k + 1 < p THEN f[k + 1] = <<>> /\ g[k + 1] = <<>>
                      ELSE g[k + 1] \in Seq(T) /\ f[k + 1] = <<s[p]>> \o g[k + 1]
    OBVIOUS
  <2>a. /\ f[k + 1] = IF s[k + 1] \in S THEN Append(f[k], s[k + 1]) ELSE f[k]
        /\ g[k + 1] = IF s[k + 1] \in R THEN Append(g[k], s[k + 1]) ELSE g[k]
    BY <1>s
  <2>b. k + 1 \in 1..n /\ (s[k + 1] \in R <=> s[k + 1] \in S /\ k + 1 # p)
    BY <1>b
  <2>1. CASE k + 1 < p
    BY <2>a, <2>b, <2>1
  <2>2. CASE k + 1 = p
    <3>1. f[k] = <<>> /\ g[k] = <<>>
      BY <2>2
    <3>2. f[k + 1] = Append(<<>>, s[p]) /\ g[k + 1] = <<>>
      BY <2>a, <2>b, <2>2, <3>1
    <3>3. QED
      BY <1>a, <2>2, <3>2
  <2>3. CASE k + 1 > p
    <3>c. ~(k + 1 < p)
      <4>1. k + 1 \in Nat /\ p \in Nat
        BY <1>a
      <4>2. QED
        BY <2>3, <4>1
    <3>1. g[k] \in Seq(T) /\ f[k] = <<s[p]>> \o g[k] /\ s[k + 1] \in T
      BY <1>a, <2>3
    <3>2. CASE s[k + 1] \in S
      <4>1. f[k + 1] = Append(f[k], s[k + 1]) /\ g[k + 1] = Append(g[k], s[k + 1])
        BY <2>a, <2>b, <2>3, <3>2
      <4>2. Append(<<s[p]>> \o g[k], s[k + 1]) = <<s[p]>> \o Append(g[k], s[k + 1])
        BY <1>a, <3>1
      <4>3. g[k + 1] \in Seq(T)
        BY <3>1, <4>1, AppendProperties
      <4>4. f[k + 1] = <<s[p]>> \o g[k + 1]
        BY <3>1, <4>1, <4>2, Zenon
      <4>5. QED
        BY <3>c, <4>3, <4>4, Zenon
    <3>3. CASE s[k + 1] \notin S
      <4>1. f[k + 1] = f[k] /\ g[k + 1] = g[k]
        BY <2>a, <2>b, <2>3, <3>3
      <4>2. QED
        BY <3>c, <3>1, <4>1, Zenon
    <3>4. QED
      BY <3>2, <3>3
  <2>4. k + 1 < p \/ k + 1 = p \/ k + 1 > p
    <3>1. \A i, j \in Nat : i < j \/ i = j \/ i > j
      OBVIOUS
    <3>2. k + 1 \in Nat /\ p \in Nat
      BY <1>a
    <3>3. QED
      BY <3>1, <3>2, Zenon
  <2>5. QED
    BY <2>1, <2>2, <2>3, <2>4, Zenon
<1> HIDE DEF N
<1>5. N = Nat
  <2>1. N \subseteq Nat
    BY DEF N
  <2>2. QED
    BY <1>3, <1>4, <2>1, Induction
<1>6. g[n] \in Seq(T) /\ f[n] = <<s[p]>> \o g[n]
  BY <1>5, <1>a DEF N
<1>7. f[n] # <<>> /\ Head(f[n]) = s[p] /\ Tail(f[n]) = g[n]
  BY <1>6, <1>a
<1>8. QED
  BY <1>1, <1>2, <1>7 DEF R


Writes == {<<m, Parts(m)>> : m \in Calls}

Pending == IF open THEN Kept(order, Unsent) ELSE <<>>

(* A step that neither appends nor writes nor closes is a stutter.         *)
LEMMA QuietStutters ==
  ASSUME UNCHANGED <<open, wire, order>>
  PROVE  UNCHANGED <<open, Pending, Sent>>
<1>1. Unsent' = Unsent
  BY DEF Unsent, OnWire
<1>2. LastWrites' = LastWrites
  BY DEF LastWrites
<1>3. QED
  BY <1>1, <1>2 DEF Pending, Sent

(* AppendData hands a message over, if it can be sent at all.              *)
LEMMA AppendSubmits ==
  ASSUME LockInv, FrameInv, NEW c \in Calls, AppendData(c)
  PROVE  /\ open' = open /\ Sent' = Sent
         /\ Pending' = IF open /\ c \notin Unsendable THEN Append(Pending, c) ELSE Pending
<1>1. /\ open' = open /\ wire' = wire /\ order' = Append(order, c) /\ order \in Seq(Calls)
      /\ pc[c] = "append" /\ wire \in Seq(Calls \X (1..3))
  BY DEF AppendData, LockInv, TypeOK, At
<1>2. Sent' = Sent /\ Unsent' = Unsent
  BY <1>1 DEF Sent, LastWrites, Unsent, OnWire
<1>3. c \in Unsent <=> c \notin Unsendable
  <2> SUFFICES ASSUME OnWire(c, Len(wire))
               PROVE  FALSE
    BY DEF Unsent
  <2>1. PICK h \in 1..Len(wire) : wire[h] = <<c, Parts(c)>>
    BY DEF OnWire
  <2>2. PICK j \in 1..Popped : wire[h][1] = order[j]
    BY DEF FrameInv, WireInv
  <2>3. j \in 1..Len(order)
    BY <1>1, LenProperties DEF FrameInv, QueueInv, Popped, LockInv, TypeOK
  <2>4. QED
    BY <1>1, <2>1, <2>2, <2>3 DEF FrameInv, QueueInv
<1>4. Kept(order', Unsent) = IF c \in Unsent THEN Append(Kept(order, Unsent), c) ELSE Kept(order, Unsent)
  BY <1>1, KeptAppend
<1>5. QED
  BY <1>1, <1>2, <1>3, <1>4 DEF Pending

(* A write that is not the last of its frame transmits nothing yet.        *)
LEMMA PartStutters ==
  ASSUME LockInv, FrameInv, NEW c \in Calls, Write(c), part[c] # Parts(msg[c])
  PROVE  UNCHANGED <<open, Pending, Sent>>
<1> DEFINE w == <<msg[c], part[c]>>
<1>1. /\ open' = open /\ order' = order /\ wire' = Append(wire, w)
      /\ wire \in Seq(Calls \X (1..3)) /\ w \in Calls \X (1..3)
  BY DEF Write, LockInv, TypeOK, At
<1>2. w \notin Writes /\ \A m : w # <<m, Parts(m)>>
  BY DEF Writes
<1>3. LastWrites' = LastWrites
  BY <1>1, <1>2, KeptAppend DEF LastWrites, Writes
<1>4. Unsent' = Unsent
  <2>1. /\ Len(wire) \in Nat /\ Len(wire') = Len(wire) + 1 /\ wire'[Len(wire) + 1] = w
        /\ \A h \in 1..Len(wire) : wire'[h] = wire[h]
    BY <1>1, AppendProperties, LenProperties
  <2> HIDE DEF w
  <2>2. ASSUME NEW m \in Calls
        PROVE  OnWire(m, Len(wire)) <=> OnWire(m, Len(wire))'
    <3>1. w # <<m, Parts(m)>>
      BY <1>2
    <3>2. OnWire(m, Len(wire))' <=> \E h \in 1..(Len(wire) + 1) : wire'[h] = <<m, Parts(m)>>
      BY <2>1 DEF OnWire
    <3>3. \A h \in 1..(Len(wire) + 1) : h \in 1..Len(wire) \/ h = Len(wire) + 1
      BY <2>1
    <3>4. 1..Len(wire) \subseteq 1..(Len(wire) + 1)
      BY <2>1
    <3>5. QED
      BY <2>1, <3>1, <3>2, <3>3, <3>4, Zenon DEF OnWire
  <2>3. QED
    BY <2>2 DEF Unsent
<1>5. QED
  BY <1>1, <1>3, <1>4 DEF Pending, Sent

(* The last write of a frame transmits the first of the pending messages.  *)
LEMMA LastTransmits ==
  ASSUME LockInv, FrameInv, NEW c \in Calls, Write(c), part[c] = Parts(msg[c])
  PROVE  /\ open /\ open' = open
         /\ Pending # <<>>
         /\ Sent' = Append(Sent, Head(Pending))
         /\ Pending' = Tail(Pending)
<1> DEFINE w == <<msg[c], part[c]>>
<1>1. /\ open /\ open' = open /\ order' = order /\ wire' = Append(wire, w)
      /\ wire \in Seq(Calls \X (1..3)) /\ order \in Seq(Calls) /\ queue \in Seq(Calls)
      /\ pc[c] = "write" /\ msg[c] \in Calls /\ msg[c] \notin Unsendable /\ part[c] \in 1..3
  BY DEF Write, LockInv, TypeOK, At
<1>2. w \in Calls \X (1..3) /\ w \in Writes
  BY <1>1 DEF Writes
<1>3. /\ Len(wire) \in Nat /\ Len(wire') = Len(wire) + 1 /\ wire'[Len(wire) + 1] = w
      /\ \A h \in 1..Len(wire) : wire'[h] = wire[h]
  BY <1>1, <1>2, AppendProperties, LenProperties
<1>4. /\ Popped \in 1..Len(order) /\ msg[c] = order[Popped]
      /\ \A h \in 1..Len(wire) : wire[h][1] = msg[c] => wire[h][2] < part[c]
  <2>1. /\ Popped >= 1 /\ msg[c] = order[Popped]
        /\ \A h \in 1..Len(wire) : wire[h][1] = msg[c] => wire[h][2] < part[c]
    BY <1>1 DEF FrameInv, HandInv
  <2>2. Popped \in Nat /\ Popped <= Len(order) /\ Len(order) \in Nat
    BY <1>1, LenProperties DEF FrameInv, QueueInv, Popped
  <2>3. QED
    BY <2>1, <2>2
<1>5. msg[c] \in Unsent
  <2> SUFFICES ASSUME NEW h \in 1..Len(wire), wire[h] = <<msg[c], Parts(msg[c])>>
               PROVE  FALSE
    BY <1>1 DEF Unsent, OnWire
  <2>1. wire[h][1] = msg[c] /\ wire[h][2] = Parts(msg[c])
    OBVIOUS
  <2>2. wire[h][2] < part[c]
    BY <1>4, <2>1
  <2>3. QED
    BY <1>1, <2>1, <2>2
<1>6. \A j \in 1..(Popped - 1) : order[j] \notin Unsent
  <2> SUFFICES ASSUME NEW j \in 1..(Popped - 1), order[j] \notin Unsendable
               PROVE  OnWire(order[j], Len(wire))
    BY DEF Unsent
  <2>1. j \in 1..Popped /\ j # Popped
    BY <1>4
  <2>2. QED
    BY <1>1, <2>1 DEF FrameInv, DoneInv
<1>7. \A j \in 1..Len(order) : order[j] = order[Popped] => j = Popped
  BY <1>4 DEF FrameInv, QueueInv
<1>8. /\ Kept(order, Unsent) # <<>>
      /\ Head(Kept(order, Unsent)) = msg[c]
      /\ Tail(Kept(order, Unsent)) = Kept(order, Unsent \ {msg[c]})
  <2> PICK p \in 1..Len(order) : p = Popped
    BY <1>4
  <2>1. order[p] = msg[c] /\ order[p] \in Unsent
    BY <1>4, <1>5
  <2>2. \A j \in 1..(p - 1) : order[j] \notin Unsent
    BY <1>6
  <2>3. \A j \in 1..Len(order) : order[j] = order[p] => j = p
    BY <1>7
  <2>4. QED
    <3>1. /\ Kept(order, Unsent) # <<>>
          /\ Head(Kept(order, Unsent)) = order[p]
          /\ Tail(Kept(order, Unsent)) = Kept(order, Unsent \ {order[p]})
      <4>1. /\ order \in Seq(Calls) /\ order[p] \in Unsent
            /\ \A i \in 1..(p - 1) : order[i] \notin Unsent
            /\ \A i \in 1..Len(order) : order[i] = order[p] => i = p
        BY <1>1, <2>1, <2>2, <2>3
      <4>2. QED
        BY <4>1, KeptHead
    <3>2. QED
      BY <2>1, <3>1
<1>9. Unsent' = Unsent \ {msg[c]}
  <2>1. \A m : OnWire(m, Len(wire))' <=> OnWire(m, Len(wire)) \/ m = msg[c]
    BY <1>3 DEF OnWire
  <2>2. QED
    BY <2>1 DEF Unsent
<1>10. Sent' = Append(Sent, msg[c])
  <2>1. LastWrites' = Append(LastWrites, w)
    <3> DEFINE T == Calls \X (1..3)
    <3>1. wire \in Seq(T) /\ w \in T /\ w \in Writes
      BY <1>1, <1>2
    <3> HIDE DEF w, T
    <3>2. Kept(Append(wire, w), Writes) = IF w \in Writes THEN Append(Kept(wire, Writes), w) ELSE Kept(wire, Writes)
      BY <3>1, KeptAppend
    <3>3. QED
      BY <1>1, <3>1, <3>2 DEF LastWrites, Writes
  <2>2. LastWrites \in Seq(Calls \X (1..3))
    <3>1. LastWrites \in Seq((Calls \X (1..3)) \cap Writes)
      BY <1>1, KeptType DEF LastWrites, Writes
    <3>2. Seq((Calls \X (1..3)) \cap Writes) \subseteq Seq(Calls \X (1..3))
      OBVIOUS
    <3>3. QED
      BY <3>1, <3>2
  <2> PICK n \in Nat : n = Len(LastWrites)
    BY <2>2
  <2>3. /\ Len(LastWrites') = n + 1 /\ LastWrites'[n + 1] = w
        /\ \A i \in 1..n : LastWrites'[i] = LastWrites[i]
    BY <1>2, <2>1, <2>2, AppendProperties
  <2>4. Sent = [i \in 1..n |-> LastWrites[i][1]]
    BY DEF Sent
  <2>5. Sent' = [i \in 1..(n + 1) |-> LastWrites'[i][1]]
    BY <2>3 DEF Sent
  <2>6. Sent \in Seq(Calls) /\ Len(Sent) = n
    <3>1. \A i \in 1..n : LastWrites[i][1] \in Calls
      BY <2>2, ElementOfSeq
    <3>2. QED
      BY <2>4, <3>1
  <2>7. /\ Append(Sent, msg[c]) \in Seq(Calls) /\ Len(Append(Sent, msg[c])) = n + 1
        /\ Append(Sent, msg[c])[n + 1] = msg[c]
        /\ \A i \in 1..n : Append(Sent, msg[c])[i] = Sent[i]
    BY <1>1, <2>6, AppendProperties
  <2>8. \A i \in 1..(n + 1) : Append(Sent, msg[c])[i] = LastWrites'[i][1]
    <3> SUFFICES ASSUME NEW i \in 1..(n + 1)
                 PROVE  Append(Sent, msg[c])[i] = LastWrites'[i][1]
      OBVIOUS
    <3>1. CASE i = n + 1
      BY <2>3, <2>7, <3>1
    <3>2. CASE i \in 1..n
      BY <2>3, <2>4, <2>7, <3>2
    <3>3. i = n + 1 \/ i \in 1..n
      OBVIOUS
    <3>4. QED
      BY <3>1, <3>2, <3>3
  <2>9. QED
    BY <2>5, <2>7, <2>8
<1>11. QED
  BY <1>1, <1>8, <1>9, <1>10 DEF Pending

(* Every step hands over or transmits a message, takes the channel down,   *)
(* or changes nothing that the abstract channel knows of.                  *)
LEMMA StepRefines ==
  LockInv /\ FrameInv /\ [Next]_vars => [Abstract!Next]_(Abstract!vars)
<1> SUFFICES ASSUME LockInv, FrameInv, [Next]_vars
             PROVE  \/ \E m \in Calls : /\ open /\ UNCHANGED <<open, Sent>>
                                        /\ Pending' = Append(Pending, m)
                    \/ /\ open /\ Pending # <<>> /\ open' = open
                       /\ Sent' = Append(Sent, Head(Pending)) /\ Pending' = Tail(Pending)
                    \/ open /\ open' = FALSE /\ Pending' = <<>> /\ Sent' = Sent
                    \/ UNCHANGED <<open, Pending, Sent>>
  BY Zenon DEF Abstract!Next, Abstract!Submit, Abstract!Transmit, Abstract!GoDown, Abstract!vars, Pending
<1>1. CASE UNCHANGED <<open, wire, order>>
  BY <1>1, QuietStutters
<1>2. ASSUME NEW c \in Calls, AppendData(c)
      PROVE  \/ \E m \in Calls : /\ open /\ UNCHANGED <<open, Sent>>
                                 /\ Pending' = Append(Pending, m)
             \/ UNCHANGED <<open, Pending, Sent>>
  BY <1>2, AppendSubmits
<1>3. ASSUME NEW c \in Calls, Write(c)
      PROVE  \/ /\ open /\ Pending # <<>> /\ open' = open
                /\ Sent' = Append(Sent, Head(Pending)) /\ Pending' = Tail(Pending)
             \/ UNCHANGED <<open, Pending, Sent>>
  BY <1>3, PartStutters, LastTransmits
<1>4. ASSUME open' = FALSE, wire' = wire
      PROVE  \/ open /\ open' = FALSE /\ Pending' = <<>> /\ Sent' = Sent
             \/ UNCHANGED <<open, Pending, Sent>>
  BY <1>4 DEF Pending, Sent, LastWrites, LockInv, TypeOK
<1>5. ASSUME NEW c \in Calls, Step(c)
      PROVE  \/ AppendData(c) \/ Write(c)
             \/ UNCHANGED <<open, wire, order>>
             \/ open' = FALSE /\ wire' = wire
  BY <1>5 DEF Step, CheckQueue, TryAcquire, RecheckQueue, Pop, PopFromEmpty, WriteFails,
              OpenAfterError, SendRaises, Release
<1>6. ASSUME NEW k \in Closers, CloseChannel(k) \/ ReleaseSendlock(k)
      PROVE  UNCHANGED <<open, wire, order>> \/ (open' = FALSE /\ wire' = wire)
  BY <1>6 DEF CloseChannel, ReleaseSendlock
<1>7. ASSUME NEW c \in Calls, NEW p \in Calls \cup {None}, Start(c, p)
      PROVE  UNCHANGED <<open, wire, order>>
  BY <1>7 DEF Start
<1>8. UNCHANGED vars => UNCHANGED <<open, wire, order>>
  BY DEF vars
<1>9. QED
  BY <1>1, <1>2, <1>3, <1>4, <1>5, <1>6, <1>7, <1>8 DEF Next

(* _send and Channel.send implement the FIFO channel, for any number of    *)
(* calls, nested calls and closers.                                        *)
THEOREM Refinement == Spec => ImplementsChannel
<1>1. Init => Abstract!Init
  <2> SUFFICES ASSUME Init
               PROVE  open = TRUE /\ Pending = <<>> /\ Sent = <<>>
    BY DEF Abstract!Init, Pending
  <2>1. open = TRUE /\ wire = <<>> /\ order = <<>>
    BY DEF Init
  <2>2. LastWrites = <<>>
    BY <2>1, KeptEmpty DEF LastWrites
  <2>3. Sent = <<>>
    BY <2>2 DEF Sent
  <2>4. QED
    BY <2>1, <2>3, KeptEmpty DEF Pending
<1>2. QED
  BY <1>1, StepRefines, LockInvariant, FrameInit, FrameNext, PTL
     DEF Spec, ImplementsChannel, Abstract!Spec

(***************************************************************************)
(* PacketChannel.  The frames of the packets on their way to a side are,   *)
(* one after the other, the bytes that the side has got, then those of the *)
(* pipe, then those the peer has still to write: every step moves bytes    *)
(* from one of the three to the next, adds the bytes of one more frame at  *)
(* the end, or takes those of the first frame away at the front.           *)
(***************************************************************************)

Octets == Seq(Nat)

(* Sequences of bytes are strings: concatenation is associative, has a     *)
(* neutral element, and adds the lengths.                                  *)
LEMMA CatType ==
  ASSUME NEW a \in Octets, NEW b \in Octets
  PROVE  /\ a \o b \in Octets
         /\ Len(a \o b) = Len(a) + Len(b)
BY ConcatProperties DEF Octets

LEMMA CatAssoc ==
  ASSUME NEW a \in Octets, NEW b \in Octets, NEW c \in Octets
  PROVE  (a \o b) \o c = a \o (b \o c)
<1>1. a \in Seq(Nat) /\ b \in Seq(Nat) /\ c \in Seq(Nat)
  BY DEF Octets
<1>2. QED
  BY <1>1, ConcatAssociative, SMTT(30)

LEMMA CatEmpty ==
  ASSUME NEW a \in Octets
  PROVE  a \o <<>> = a /\ <<>> \o a = a /\ <<>> \in Octets
BY ConcatEmptySeq, EmptySeq DEF Octets

LEMMA CatAt ==
  ASSUME NEW a \in Octets, NEW b \in Octets
  PROVE  /\ \A i \in 1..Len(a) : (a \o b)[i] = a[i]
         /\ \A i \in 1..Len(b) : (a \o b)[Len(a) + i] = b[i]
<1>1. Len(a) \in Nat /\ Len(b) \in Nat
  BY LenProperties DEF Octets
<1>2. \A i \in 1..(Len(a) + Len(b)) : (a \o b)[i] = IF i <= Len(a) THEN a[i] ELSE b[i - Len(a)]
  BY ConcatProperties DEF Octets
<1>3. ASSUME NEW i \in 1..Len(b) PROVE (a \o b)[Len(a) + i] = b[i]
  <2>1. Len(a) + i \in 1..(Len(a) + Len(b)) /\ ~(Len(a) + i <= Len(a)) /\ (Len(a) + i) - Len(a) = i
    BY <1>1
  <2>2. QED
    BY <1>2, <2>1
<1>4. QED
  BY <1>1, <1>2, <1>3

(* A string is what is read of it and what comes after, wherever it is cut.*)
LEMMA Cut ==
  ASSUME NEW a \in Octets, NEW n \in 0..Len(a)
  PROVE  /\ Read(a, n) \in Octets /\ Len(Read(a, n)) = n
         /\ After(a, n) \in Octets /\ Len(After(a, n)) = Len(a) - n
         /\ Read(a, n) \o After(a, n) = a
<1>1. Read(a, n) \in Octets /\ Len(Read(a, n)) = n
  BY SubSeqProperties, LenProperties DEF Octets, Read
<1>2. After(a, n) \in Octets /\ Len(After(a, n)) = Len(a) - n
  BY SubSeqProperties, LenProperties DEF Octets, After
<1>3. Read(a, n) \o After(a, n) = SubSeq(a, 1, Len(a))
  <2>1. 1 \in 1..(Len(a) + 1) /\ n \in (1 - 1)..Len(a) /\ Len(a) \in n..Len(a)
    BY LenProperties DEF Octets
  <2>2. SubSeq(a, 1, n) \o SubSeq(a, n + 1, Len(a)) = SubSeq(a, 1, Len(a))
    BY <2>1, ConcatAdjacentSubSeq DEF Octets
  <2>3. QED
    BY <2>2 DEF Read, After
<1>4. QED
  BY <1>1, <1>2, <1>3, SubSeqFull DEF Octets

(* Two cuts of one string at the same place give the same parts.           *)
LEMMA SameCut ==
  ASSUME NEW a \in Octets, NEW b \in Octets, NEW x \in Octets, NEW y \in Octets,
         a \o x = b \o y, Len(a) = Len(b)
  PROVE  a = b /\ x = y
<1>1. a = b
  <2>1. \A i \in 1..Len(a) : a[i] = b[i]
    BY CatAt
  <2>2. QED
    BY <2>1, SeqEqual DEF Octets
<1>2. Len(x) = Len(y)
  <2>1. Len(a \o x) = Len(a) + Len(x) /\ Len(b \o y) = Len(b) + Len(y)
    BY CatType, Zenon
  <2>2. Len(x) \in Nat /\ Len(y) \in Nat /\ Len(a) \in Nat
    BY LenProperties DEF Octets
  <2>3. Len(a) + Len(x) = Len(a) + Len(y)
    BY <2>1, Zenon
  <2>4. QED
    BY <2>2, <2>3
<1>3. ASSUME NEW i \in 1..Len(x) PROVE x[i] = y[i]
  <2>1. (a \o x)[Len(a) + i] = x[i]
    BY CatAt
  <2>2. (b \o y)[Len(b) + i] = y[i]
    BY <1>2, CatAt
  <2>3. QED
    BY <2>1, <2>2
<1>4. x = y
  BY <1>2, <1>3, SeqEqual DEF Octets
<1>5. QED
  BY <1>1, <1>4

(* What one read of a header finds is the number that was packed.          *)
LEMMA Packed ==
  ASSUME NEW n \in Nat, NEW x \in Octets
  PROVE  /\ I4(n) \in Octets /\ Len(I4(n)) = 4
         /\ U4(I4(n) \o x) = n
<1>1. I4(n) \in Octets /\ Len(I4(n)) = 4
  <2>1. /\ n \div 16777216 \in Nat /\ (n \div 65536) % 256 \in Nat
        /\ (n \div 256) % 256 \in Nat /\ n % 256 \in Nat
    OBVIOUS
  <2>2. QED
    BY <2>1 DEF I4, Octets
<1>2. \A i \in 1..4 : (I4(n) \o x)[i] = I4(n)[i]
  <2> DEFINE l == I4(n)
  <2>1. l \in Octets /\ Len(l) = 4
    BY <1>1
  <2> HIDE DEF l
  <2>2. \A i \in 1..Len(l) : (l \o x)[i] = l[i]
    BY <2>1, CatAt
  <2>3. QED
    BY <2>1, <2>2 DEF l
<1>3. U4(I4(n)) = n
  <2>1. /\ I4(n)[1] = n \div 16777216 /\ I4(n)[2] = (n \div 65536) % 256
        /\ I4(n)[3] = (n \div 256) % 256 /\ I4(n)[4] = n % 256
    BY DEF I4
  <2>2. PICK q \in Nat : q = n \div 256
    OBVIOUS
  <2>3. PICK w \in Nat : w = n \div 65536
    OBVIOUS
  <2>4. PICK e \in Nat : e = n \div 16777216
    OBVIOUS
  <2>5. n % 256 = n - 256 * q
    BY <2>2
  <2>6. q % 256 = q - 256 * w
    <3>1. q \div 256 = w
      BY <2>2, <2>3
    <3>2. q % 256 = q - 256 * (q \div 256)
      OBVIOUS
    <3>3. QED
      BY <3>1, <3>2
  <2>7. w % 256 = w - 256 * e
    <3>1. w \div 256 = e
      BY <2>3, <2>4
    <3>2. w % 256 = w - 256 * (w \div 256)
      OBVIOUS
    <3>3. QED
      BY <3>1, <3>2
  <2>8. U4(I4(n)) = ((e * 256 + (w - 256 * e)) * 256 + (q - 256 * w)) * 256 + (n - 256 * q)
    BY <2>1, <2>2, <2>3, <2>4, <2>5, <2>6, <2>7 DEF U4
  <2>9. QED
    BY <2>8
<1>4. U4(I4(n) \o x) = U4(I4(n))
  <2>1. /\ (I4(n) \o x)[1] = I4(n)[1] /\ (I4(n) \o x)[2] = I4(n)[2]
        /\ (I4(n) \o x)[3] = I4(n)[3] /\ (I4(n) \o x)[4] = I4(n)[4]
    <3>1. 1 \in 1..4 /\ 2 \in 1..4 /\ 3 \in 1..4 /\ 4 \in 1..4
      OBVIOUS
    <3>2. QED
      BY <1>2, <3>1, Zenon
  <2>2. QED
    BY <2>1, Zenon DEF U4
<1>5. QED
  BY <1>1, <1>3, <1>4

(* zlib gives back what it was given.                                      *)
LEMMA Inflated ==
  ASSUME NEW d \in Octets
  PROVE  /\ Compress(d) \in Octets /\ Len(Compress(d)) = Len(d) + 1
         /\ Decompress(Compress(d)) = d
<1> DEFINE r == [i \in 1..Len(d) |-> d[(Len(d) - i) + 1]]
<1>1. r \in Octets /\ Len(r) = Len(d)
  BY LenProperties, ElementOfSeq DEF Octets
<1>2. Compress(d) = <<120>> \o r
  BY DEF Compress, Reverse
<1>3. Tail(<<120>> \o r) = r
  <2>1. <<120>> \in Octets /\ Len(<<120>>) = 1
    BY DEF Octets
  <2>2. /\ <<120>> \o r \in Octets /\ Len(<<120>> \o r) = 1 + Len(d) /\ <<120>> \o r # <<>>
        /\ \A i \in 1..Len(d) : (<<120>> \o r)[i + 1] = r[i]
    <3> DEFINE z == <<120>>
    <3>1. z \in Octets /\ Len(z) = 1 /\ Len(d) \in Nat
      BY <2>1, LenProperties DEF Octets
    <3> HIDE DEF z, r
    <3>2. z \o r \in Octets /\ Len(z \o r) = Len(z) + Len(r)
      BY <1>1, <3>1, CatType
    <3>3. \A i \in 1..Len(r) : (z \o r)[Len(z) + i] = r[i]
      BY <1>1, <3>1, CatAt
    <3>4. \A i \in 1..Len(d) : (z \o r)[i + 1] = r[i]
      <4>1. \A i \in 1..Len(d) : i + 1 = Len(z) + i
        BY <3>1
      <4>2. QED
        BY <1>1, <3>3, <4>1
    <3>5. Len(z \o r) = 1 + Len(d)
      BY <1>1, <3>1, <3>2
    <3>6. z \o r # <<>>
      BY <3>1, <3>5
    <3>7. QED
      BY <3>2, <3>4, <3>5, <3>6 DEF z
  <2> DEFINE z == <<120>> \o r
             t == Tail(z)
  <2>3. z \in Octets /\ z # <<>> /\ Len(z) = 1 + Len(d) /\ Len(d) \in Nat
        /\ \A i \in 1..Len(d) : z[i + 1] = r[i]
    BY <2>2, LenProperties DEF Octets
  <2> HIDE DEF r, z
  <2>4. t \in Octets /\ Len(t) = Len(z) - 1 /\ \A i \in 1..Len(t) : t[i] = z[i + 1]
    BY <2>3, HeadTailProperties DEF Octets
  <2> HIDE DEF t
  <2>5. Len(t) = Len(r) /\ \A i \in 1..Len(t) : t[i] = r[i]
    BY <1>1, <2>3, <2>4
  <2>6. t = r
    BY <1>1, <2>4, <2>5, SeqEqual DEF Octets
  <2>7. QED
    BY <2>6 DEF t, z
<1>4. Reverse(r) = d
  <2>1. Reverse(r) = [i \in 1..Len(d) |-> r[(Len(d) - i) + 1]]
    BY <1>1 DEF Reverse
  <2>2. \A i \in 1..Len(d) : r[(Len(d) - i) + 1] = d[i]
    BY LenProperties DEF Octets
  <2>3. d = [i \in 1..Len(d) |-> d[i]]
    BY LenProperties DEF Octets
  <2>4. QED
    BY <2>1, <2>2, <2>3
<1>5. QED
  <2>1. <<120>> \in Octets /\ Len(<<120>>) = 1
    BY DEF Octets
  <2>2. <<120>> \o r \in Octets /\ Len(<<120>> \o r) = 1 + Len(d)
    <3> HIDE DEF r
    <3>1. QED
      BY <1>1, <2>1, CatType
  <2>3. Len(d) \in Nat
    BY LenProperties DEF Octets
  <2>4. Decompress(Compress(d)) = d
    <3> HIDE DEF r
    <3>1. QED
      BY <1>2, <1>3, <1>4, Zenon DEF Decompress
  <2>5. QED
    BY <1>2, <2>2, <2>3, <2>4

(* The bytes of a packet's frame, whatever the writes it is cut into.      *)
Whole(data) == Header(data) \o (Body(data) \o Flusher)

LEMMA BodyIs ==
  ASSUME NEW d \in Octets
  PROVE  /\ Body(d) \in Octets
         /\ (IF Len(d) > Threshold THEN Decompress(Body(d)) ELSE Body(d)) = d
BY Inflated DEF Body

LEMMA HeaderIs ==
  ASSUME NEW d \in Octets
  PROVE  /\ Header(d) \in Octets /\ Len(Header(d)) = HeaderSize
         /\ U4(Header(d)) = Len(Body(d))
         /\ Header(d)[5] = 1 <=> Len(d) > Threshold
<1> DEFINE flag == I1(IF Len(d) > Threshold THEN 1 ELSE 0)
           length == I4(Len(Body(d)))
<1>1. Len(Body(d)) \in Nat
  BY BodyIs, LenProperties DEF Octets
<1>2. flag \in Octets /\ Len(flag) = 1 /\ (flag[1] = 1 <=> Len(d) > Threshold)
  BY DEF I1, Octets
<1>3. length \in Octets /\ Len(length) = 4 /\ U4(length \o flag) = Len(Body(d))
  BY <1>1, <1>2, Packed
<1>4. Header(d) = length \o flag
  BY DEF Header
<1> HIDE DEF flag, length
<1>5. length \o flag \in Octets /\ Len(length \o flag) = 5
  <2>1. length \o flag \in Octets /\ Len(length \o flag) = Len(length) + Len(flag)
    BY <1>2, <1>3, CatType, Zenon
  <2>2. QED
    BY <1>2, <1>3, <2>1
<1>6. (length \o flag)[5] = flag[1]
  <2>1. 1 \in 1..Len(flag) /\ Len(length) + 1 = 5
    BY <1>2, <1>3
  <2>2. (length \o flag)[Len(length) + 1] = flag[1]
    BY <1>2, <1>3, <2>1, CatAt
  <2>3. QED
    BY <2>1, <2>2
<1>7. QED
  BY <1>2, <1>3, <1>4, <1>5, <1>6 DEF HeaderSize

LEMMA FlusherIs == Flusher \in Octets /\ Len(Flusher) = 1
BY DEF Flusher, Octets

LEMMA WholeIs ==
  ASSUME NEW d \in Octets
  PROVE  /\ Whole(d) \in Octets
         /\ Len(Whole(d)) = HeaderSize + Len(Body(d)) + 1
         /\ Len(Body(d)) \in Nat
<1>1. Body(d) \o Flusher \in Octets /\ Len(Body(d) \o Flusher) = Len(Body(d)) + 1
  BY BodyIs, FlusherIs, CatType
<1>2. Len(Body(d)) \in Nat
  BY BodyIs, LenProperties DEF Octets
<1>3. Header(d) \in Octets /\ Len(Header(d)) = 5
  BY HeaderIs DEF HeaderSize
<1>4. /\ Whole(d) \in Octets
      /\ Len(Whole(d)) = Len(Header(d)) + Len(Body(d) \o Flusher)
  BY <1>1, <1>3, CatType DEF Whole
<1>5. QED
  BY <1>1, <1>2, <1>3, <1>4 DEF HeaderSize

(* The bytes of up to three writes, in their order.                        *)
Flat(w) ==
  CASE Len(w) = 0 -> <<>>
    [] Len(w) = 1 -> w[1]
    [] Len(w) = 2 -> w[1] \o w[2]
    [] Len(w) = 3 -> w[1] \o (w[2] \o w[3])

Chunks == Seq(Octets \ {<<>>})

LEMMA FlatIs ==
  ASSUME NEW w \in Chunks, Len(w) <= 3
  PROVE  /\ Flat(w) \in Octets
         /\ Flat(w) = <<>> <=> w = <<>>
<1>1. Len(w) \in 0..3 /\ \A i \in 1..Len(w) : w[i] \in Octets /\ w[i] # <<>>
  <2>1. Len(w) \in Nat
    BY LenProperties DEF Chunks
  <2>2. Len(w) \in 0..3
    <3>1. \A n \in Nat : n <= 3 => n \in 0..3
      OBVIOUS
    <3>2. QED
      BY <2>1, <3>1, Zenon
  <2>3. \A i \in 1..Len(w) : w[i] \in Octets \ {<<>>}
    BY ElementOfSeq DEF Chunks
  <2>4. QED
    BY <2>2, <2>3, Zenon
<1>2. \A a, b \in Octets : a \o b \in Octets /\ (a # <<>> => a \o b # <<>>)
  <2> SUFFICES ASSUME NEW a \in Octets, NEW b \in Octets
               PROVE  a \o b \in Octets /\ (a # <<>> => a \o b # <<>>)
    OBVIOUS
  <2>1. a \o b \in Octets
    BY CatType
  <2>2. a \o b = <<>> => a = <<>>
    BY ConcatEqualIffEmpty DEF Octets
  <2>3. QED
    BY <2>1, <2>2
<1>3. CASE Len(w) = 0
  BY <1>3, EmptySeq DEF Flat, Chunks, Octets
<1>4. CASE Len(w) = 1
  <2>1. Flat(w) = w[1] /\ w # <<>>
    BY <1>4 DEF Flat
  <2>2. QED
    BY <1>1, <1>4, <2>1
<1>5. CASE Len(w) = 2
  <2>1. Flat(w) = w[1] \o w[2] /\ w # <<>>
    BY <1>5 DEF Flat
  <2>2. w[1] \in Octets /\ w[2] \in Octets /\ w[1] # <<>>
    BY <1>1, <1>5
  <2>3. QED
    BY <1>2, <2>1, <2>2
<1>6. CASE Len(w) = 3
  <2>1. Flat(w) = w[1] \o (w[2] \o w[3]) /\ w # <<>>
    <3>1. w # <<>>
      BY <1>6
    <3>2. ~(3 = 0) /\ ~(3 = 1) /\ ~(3 = 2)
      OBVIOUS
    <3>3. Flat(w) = w[1] \o (w[2] \o w[3])
      BY <1>6, <3>2, SMTT(30) DEF Flat
    <3>4. QED
      BY <3>1, <3>3
  <2>2. w[1] \in Octets /\ w[2] \in Octets /\ w[3] \in Octets /\ w[1] # <<>>
    BY <1>1, <1>6
  <2>3. QED
    BY <1>2, <2>1, <2>2
<1>7. QED
  BY <1>1, <1>3, <1>4, <1>5, <1>6

LEMMA FlatCons ==
  ASSUME NEW e \in Octets \ {<<>>}, NEW t \in Chunks, Len(t) <= 2
  PROVE  /\ <<e>> \o t \in Chunks /\ Len(<<e>> \o t) = 1 + Len(t)
         /\ Flat(<<e>> \o t) = e \o Flat(t)
<1>1. Len(t) \in 0..2
  <2>1. Len(t) \in Nat
    BY LenProperties DEF Chunks
  <2>2. QED
    BY <2>1
<1>2. <<e>> \in Chunks /\ Len(<<e>>) = 1 /\ <<e>>[1] = e
  BY DEF Chunks
<1> DEFINE w == <<e>> \o t
<1>3. w \in Chunks /\ Len(w) = 1 + Len(t)
  BY <1>2, ConcatProperties DEF Chunks
<1>4. \A i \in 1..(1 + Len(t)) : w[i] = IF i <= 1 THEN <<e>>[i] ELSE t[i - 1]
  BY <1>2, ConcatProperties DEF Chunks
<1> HIDE DEF w
<1>5. w[1] = e /\ (Len(t) >= 1 => w[2] = t[1]) /\ (Len(t) = 2 => w[3] = t[2])
  BY <1>1, <1>2, <1>4
<1>6. Flat(w) = e \o Flat(t)
  <2>1. CASE Len(t) = 0
    <3>1. Flat(w) = w[1] /\ Flat(t) = <<>>
      BY <1>3, <2>1 DEF Flat
    <3>2. e \o <<>> = e
      BY CatEmpty
    <3>3. QED
      BY <1>5, <3>1, <3>2
  <2>2. CASE Len(t) = 1
    BY <1>3, <1>5, <2>2 DEF Flat
  <2>3. CASE Len(t) = 2
    BY <1>3, <1>5, <2>3 DEF Flat
  <2>4. QED
    BY <1>1, <2>1, <2>2, <2>3
<1>7. QED
  BY <1>3, <1>6 DEF w

(* What is written of the first write comes before what is left.           *)
LEMMA FlatShift ==
  ASSUME NEW w \in Chunks, Len(w) <= 3, w # <<>>, NEW n \in 0..Len(Head(w))
  PROVE  LET left == WriteOf(After(Head(w), n)) \o Tail(w)
         IN  /\ left \in Chunks /\ Len(left) <= 3
             /\ Flat(left) \in Octets
             /\ Flat(w) = Read(Head(w), n) \o Flat(left)
<1> DEFINE h == Head(w)
           t == Tail(w)
           x == After(h, n)
           r == Read(h, n)
           left == WriteOf(x) \o t
<1>1. /\ h \in Octets /\ h # <<>> /\ t \in Chunks
      /\ Len(t) = Len(w) - 1 /\ Len(w) \in Nat
  BY HeadTailProperties, LenProperties DEF Chunks
<1>2. w = <<h>> \o t
  <2>1. Len(<<h>>) = 1 /\ <<h>> \in Chunks /\ <<h>>[1] = h
    BY <1>1 DEF Chunks
  <2>2. \A i \in 1..Len(t) : t[i] = w[i + 1]
    BY HeadTailProperties DEF Chunks
  <2>3. /\ <<h>> \o t \in Chunks /\ Len(<<h>> \o t) = Len(w)
        /\ \A i \in 1..Len(w) : (<<h>> \o t)[i] = IF i <= 1 THEN <<h>>[i] ELSE t[i - 1]
    BY <1>1, <2>1, ConcatProperties DEF Chunks
  <2>4. h = w[1]
    OBVIOUS
  <2> HIDE DEF h, t
  <2>5. \A i \in 1..Len(w) : (<<h>> \o t)[i] = w[i]
    BY <1>1, <2>1, <2>2, <2>3, <2>4
  <2>6. QED
    BY <2>3, <2>5, SeqEqual DEF Chunks
<1>3. Len(t) <= 2 /\ h \in Octets \ {<<>>}
  BY <1>1
<1>4. Flat(w) = h \o Flat(t) /\ Flat(t) \in Octets
  <2> HIDE DEF h, t
  <2>1. Flat(<<h>> \o t) = h \o Flat(t)
    BY <1>1, <1>3, FlatCons
  <2>2. Flat(t) \in Octets
    BY <1>1, <1>3, FlatIs
  <2>3. QED
    BY <1>2, <2>1, <2>2
<1>5. r \in Octets /\ x \in Octets /\ h = r \o x
  <2> HIDE DEF h
  <2>1. n \in 0..Len(h)
    BY DEF h
  <2>2. QED
    BY <1>1, <2>1, Cut
<1>6. left \in Chunks /\ Len(left) <= 3 /\ Flat(left) = x \o Flat(t)
  <2> HIDE DEF h, t, x
  <2>1. CASE x = <<>>
    <3>1. left = t
      BY <1>1, <2>1, ConcatEmptySeq DEF WriteOf, Chunks
    <3>2. <<>> \o Flat(t) = Flat(t)
      BY <1>4, CatEmpty
    <3>3. Len(t) <= 3
      BY <1>1, <1>3
    <3>4. QED
      BY <1>1, <2>1, <3>1, <3>2, <3>3
  <2>2. CASE x # <<>>
    <3>1. left = <<x>> \o t
      BY <2>2 DEF WriteOf
    <3>2. x \in Octets \ {<<>>}
      BY <1>5, <2>2
    <3>3. /\ <<x>> \o t \in Chunks /\ Len(<<x>> \o t) = 1 + Len(t)
          /\ Flat(<<x>> \o t) = x \o Flat(t)
      BY <1>1, <1>3, <3>2, FlatCons
    <3>4. 1 + Len(t) <= 3
      BY <1>1, <1>3
    <3>5. QED
      BY <3>1, <3>3, <3>4
  <2>3. QED
    BY <2>1, <2>2
<1>7. Flat(left) \in Octets
  BY <1>6, FlatIs
<1>8. Flat(w) = r \o Flat(left)
  <2> HIDE DEF h, t, x, r, left
  <2>1. (r \o x) \o Flat(t) = r \o (x \o Flat(t))
    BY <1>4, <1>5, CatAssoc
  <2>2. QED
    BY <1>4, <1>5, <1>6, <2>1
<1>9. QED
  BY <1>6, <1>7, <1>8

(* The writes of a frame are its bytes.                                    *)
LEMMA FrameIs ==
  ASSUME NEW d \in Octets
  PROVE  /\ Frame(d) \in Chunks /\ Len(Frame(d)) <= 3
         /\ Flat(Frame(d)) = Whole(d)
<1> DEFINE h == Header(d)
           b == Body(d)
           part1 == Read(b, FirstPart)
           part2 == After(b, FirstPart)
<1>1. h \in Octets /\ Len(h) = 5 /\ b \in Octets /\ Len(b) \in Nat
  BY HeaderIs, BodyIs, WholeIs DEF HeaderSize
<1>2. Flusher \in Octets \ {<<>>} /\ Len(Flusher) = 1 /\ <<Flusher>> \in Chunks /\ Len(<<Flusher>>) = 1
  BY FlusherIs DEF Chunks, Flusher
<1>3. Flat(<<Flusher>>) = Flusher
  BY <1>2 DEF Flat
<1>4. CASE HeaderSize + Len(b) + Len(Flusher) <= MaxChunk
  <2>1. Frame(d) = <<h \o b \o Flusher>>
    BY <1>4 DEF Frame
  <2>2. (h \o b) \o Flusher = Whole(d)
    BY <1>1, <1>2, CatAssoc DEF Whole
  <2>3. Whole(d) \in Octets /\ Whole(d) # <<>>
    BY WholeIs DEF HeaderSize
  <2>4. Frame(d) = <<Whole(d)>> /\ Len(<<Whole(d)>>) = 1 /\ <<Whole(d)>> \in Chunks
    BY <2>1, <2>2, <2>3 DEF Chunks
  <2>5. Flat(<<Whole(d)>>) = Whole(d)
    BY <2>4 DEF Flat
  <2>6. QED
    BY <2>4, <2>5
<1>5. CASE ~(HeaderSize + Len(b) + Len(Flusher) <= MaxChunk)
  <2>1. FirstPart \in 0..Len(b)
    BY <1>1, <1>2, <1>5, FramingAssumption DEF FirstPart, HeaderSize
  <2>2. Frame(d) = <<h \o part1>> \o WriteOf(part2) \o <<Flusher>>
    BY <1>5 DEF Frame
  <2>3. part1 \in Octets /\ part2 \in Octets /\ b = part1 \o part2
    <3> HIDE DEF b
    <3>1. QED
      BY <1>1, <2>1, Cut
  <2> HIDE DEF h, b, part1, part2
  <2>4. h \o part1 \in Octets \ {<<>>}
    <3>1. h \o part1 \in Octets /\ Len(h \o part1) = Len(h) + Len(part1)
      BY <1>1, <2>3, CatType, Zenon
    <3>2. Len(part1) \in Nat
      BY <2>3, LenProperties DEF Octets
    <3>3. QED
      BY <1>1, <3>1, <3>2
  <2> DEFINE last == WriteOf(part2) \o <<Flusher>>
  <2>5. last \in Chunks /\ Len(last) <= 2 /\ Flat(last) = part2 \o Flusher
    <3>1. CASE part2 = <<>>
      <4>1. last = <<Flusher>>
        BY <1>2, <3>1, ConcatEmptySeq DEF WriteOf, Chunks
      <4>2. <<>> \o Flusher = Flusher
        BY <1>2, CatEmpty
      <4>3. Len(<<Flusher>>) <= 2
        BY <1>2
      <4>4. QED
        BY <1>2, <1>3, <3>1, <4>1, <4>2, <4>3, Zenon
    <3>2. CASE part2 # <<>>
      <4>1. last = <<part2>> \o <<Flusher>>
        BY <3>2 DEF WriteOf
      <4>2. part2 \in Octets \ {<<>>}
        BY <2>3, <3>2
      <4>3. /\ <<part2>> \o <<Flusher>> \in Chunks
            /\ Len(<<part2>> \o <<Flusher>>) = 1 + Len(<<Flusher>>)
            /\ Flat(<<part2>> \o <<Flusher>>) = part2 \o Flat(<<Flusher>>)
        <5>1. Len(<<Flusher>>) <= 2
          BY <1>2
        <5>2. QED
          BY <1>2, <4>2, <5>1, FlatCons
      <4>4. 1 + Len(<<Flusher>>) <= 2
        BY <1>2
      <4>5. QED
        BY <1>3, <4>1, <4>3, <4>4, Zenon
    <3>3. QED
      BY <3>1, <3>2
  <2> HIDE DEF last
  <2>6. Frame(d) = <<h \o part1>> \o last
    <3>1. <<h \o part1>> \in Chunks /\ WriteOf(part2) \in Chunks
      <4>1. \A c \in Octets \ {<<>>} : <<c>> \in Chunks
        BY DEF Chunks
      <4>2. <<>> \in Chunks
        BY DEF Chunks
      <4>3. part2 # <<>> => part2 \in Octets \ {<<>>}
        BY <2>3
      <4>4. QED
        BY <2>4, <4>1, <4>2, <4>3, Zenon DEF WriteOf
    <3>2. QED
      BY <1>2, <2>2, <3>1, ConcatAssociative DEF Chunks, last
  <2>7. /\ <<h \o part1>> \o last \in Chunks /\ Len(<<h \o part1>> \o last) = 1 + Len(last)
        /\ Flat(<<h \o part1>> \o last) = (h \o part1) \o Flat(last)
    BY <2>4, <2>5, FlatCons
  <2>8. (h \o part1) \o (part2 \o Flusher) = h \o (b \o Flusher)
    <3>1. part2 \o Flusher \in Octets
      BY <1>2, <2>3, CatType
    <3>2. (h \o part1) \o (part2 \o Flusher) = h \o (part1 \o (part2 \o Flusher))
      <4> DEFINE y == part2 \o Flusher
      <4> HIDE DEF y
      <4>1. y \in Octets
        BY <3>1 DEF y
      <4>2. h \in Octets /\ part1 \in Octets
        BY <1>1, <2>3, Zenon
      <4>3. (h \o part1) \o y = h \o (part1 \o y)
        BY <4>1, <4>2, CatAssoc, ZenonT(60)
      <4>4. QED
        BY <4>3 DEF y
    <3>3. (part1 \o part2) \o Flusher = part1 \o (part2 \o Flusher)
      BY <1>2, <2>3, CatAssoc
    <3>4. QED
      BY <2>3, <3>2, <3>3
  <2>9. Whole(d) = h \o (b \o Flusher)
    BY DEF Whole, h, b
  <2>10. Len(last) \in Nat
    BY <2>5, LenProperties DEF Chunks
  <2>11. 1 + Len(last) <= 3
    BY <2>5, <2>10
  <2>12. QED
    BY <2>5, <2>6, <2>7, <2>8, <2>9, <2>11
<1>6. QED
  BY <1>4, <1>5

(* The bytes B are those of the frames of P, one after the other: what is  *)
(* left of them before each packet starts with the frame of that packet.   *)
Streamed(B, P, left) ==
    /\ left[1] = B /\ left[Len(P) + 1] = <<>>
    /\ \A i \in 1..Len(P) : left[i] = Whole(P[i]) \o left[i + 1]

Stream(B, P) == \E left \in [1..(Len(P) + 1) -> Octets] : Streamed(B, P, left)

(* No packets, no bytes; and the reverse.                                  *)
LEMMA StreamEmpty == Stream(<<>>, <<>>)
<1> DEFINE left == [i \in 1..1 |-> <<>>]
<1>1. left \in [1..1 -> Octets] /\ left[1] = <<>>
  BY CatEmpty, FlusherIs
<1>2. Len(<<>>) = 0
  OBVIOUS
<1> HIDE DEF left
<1>3. Streamed(<<>>, <<>>, left)
  BY <1>1, <1>2 DEF Streamed
<1>4. QED
  BY <1>1, <1>2, <1>3 DEF Stream

LEMMA StreamNone ==
  ASSUME NEW B, NEW P \in Seq(Octets), Stream(B, P)
  PROVE  B \in Octets /\ (B = <<>> <=> P = <<>>)
<1>1. PICK left \in [1..(Len(P) + 1) -> Octets] : Streamed(B, P, left)
  BY DEF Stream
<1>2. Len(P) \in Nat
  BY LenProperties
<1>3. 1 \in 1..(Len(P) + 1) /\ B \in Octets
  BY <1>1, <1>2 DEF Streamed
<1>4. ASSUME P = <<>> PROVE B = <<>>
  BY <1>1, <1>4 DEF Streamed
<1>5. ASSUME P # <<>> PROVE B # <<>>
  <2>1. Len(P) # 0 /\ 1 \in 1..Len(P) /\ 2 \in 1..(Len(P) + 1) /\ P[1] \in Octets
    <3>1. Len(P) # 0
      BY <1>5, EmptySeq
    <3>2. 1 \in 1..Len(P)
      BY <1>2, <3>1
    <3>3. QED
      BY <1>2, <3>1, <3>2, ElementOfSeq
  <2>2. B = Whole(P[1]) \o left[2] /\ left[2] \in Octets
    <3>1. left[1] = B /\ left[1] = Whole(P[1]) \o left[1 + 1]
      BY <1>1, <2>1, Zenon DEF Streamed
    <3>2. 1 + 1 = 2 /\ left[2] \in Octets
      BY <1>1, <2>1
    <3>3. QED
      BY <3>1, <3>2
  <2>3. Whole(P[1]) \in Octets /\ Whole(P[1]) # <<>>
    <3>1. /\ Whole(P[1]) \in Octets /\ Len(Whole(P[1])) = 5 + Len(Body(P[1])) + 1
          /\ Len(Body(P[1])) \in Nat
      BY <2>1, WholeIs DEF HeaderSize
    <3>2. QED
      BY <3>1
  <2>4. B = <<>> => Whole(P[1]) = <<>>
    <3> DEFINE V == Whole(P[1])
               C == left[2]
    <3>1. V \in Seq(Nat) /\ C \in Seq(Nat) /\ B = V \o C
      BY <2>2, <2>3 DEF Octets
    <3> HIDE DEF V, C
    <3>2. V \o C = <<>> => V = <<>>
      BY <3>1, ConcatEqualIffEmpty
    <3>3. QED
      BY <3>1, <3>2 DEF V
  <2>5. QED
    BY <2>3, <2>4
<1>6. QED
  BY <1>3, <1>4, <1>5

(* The frame of one more packet comes after the others.                    *)
LEMMA StreamMore ==
  ASSUME NEW B, NEW P \in Seq(Octets), Stream(B, P), NEW p \in Octets
  PROVE  Stream(B \o Whole(p), Append(P, p))
<1> DEFINE Q == Append(P, p)
           W == Whole(p)
<1>1. PICK left \in [1..(Len(P) + 1) -> Octets] : Streamed(B, P, left)
  BY DEF Stream
<1>2. Len(P) \in Nat
  BY LenProperties
<1>3. /\ Len(Q) = Len(P) + 1 /\ Q[Len(P) + 1] = p
      /\ \A i \in 1..Len(P) : Q[i] = P[i]
  BY <1>2, AppendProperties
<1>4. W \in Octets /\ <<>> \in Octets
  BY WholeIs, CatEmpty
<1> DEFINE more == [i \in 1..(Len(P) + 2) |-> IF i <= Len(P) + 1 THEN left[i] \o W ELSE <<>>]
<1> HIDE DEF Q, W
<1>5. more \in [1..(Len(Q) + 1) -> Octets]
  <2>1. Len(Q) + 1 = Len(P) + 2
    BY <1>2, <1>3
  <2>2. ASSUME NEW i \in 1..(Len(P) + 2), i <= Len(P) + 1 PROVE left[i] \o W \in Octets
    <3>1. i \in 1..(Len(P) + 1)
      BY <1>2, <2>2
    <3>2. left[i] \in Octets
      BY <1>1, <3>1
    <3>3. QED
      BY <1>4, <3>2, CatType
  <2>3. QED
    BY <1>4, <2>1, <2>2
<1>6. /\ \A i \in 1..(Len(P) + 1) : more[i] = left[i] \o W
      /\ more[Len(P) + 2] = <<>>
  BY <1>2
<1> HIDE DEF more
<1>7. more[1] = B \o W /\ more[Len(Q) + 1] = <<>>
  <2>1. 1 \in 1..(Len(P) + 1) /\ Len(Q) + 1 = Len(P) + 2
    BY <1>2, <1>3
  <2>2. QED
    BY <1>1, <1>6, <2>1 DEF Streamed
<1>8. ASSUME NEW i \in 1..Len(Q) PROVE more[i] = Whole(Q[i]) \o more[i + 1]
  <2>1. CASE i \in 1..Len(P)
    <3>1. i \in 1..(Len(P) + 1) /\ i + 1 \in 1..(Len(P) + 1)
      BY <1>2, <2>1
    <3>2. left[i] = Whole(P[i]) \o left[i + 1] /\ left[i + 1] \in Octets /\ P[i] \in Octets
      BY <1>1, <2>1, <3>1, ElementOfSeq DEF Streamed
    <3>3. Whole(P[i]) \in Octets
      BY <3>2, WholeIs
    <3>4. (Whole(P[i]) \o left[i + 1]) \o W = Whole(P[i]) \o (left[i + 1] \o W)
      BY <1>4, <3>2, <3>3, CatAssoc, ZenonT(60)
    <3>5. more[i] = left[i] \o W /\ more[i + 1] = left[i + 1] \o W /\ Q[i] = P[i]
      BY <1>3, <1>6, <2>1, <3>1
    <3>6. QED
      BY <3>2, <3>4, <3>5, Zenon
  <2>2. CASE i = Len(P) + 1
    <3>1. i \in 1..(Len(P) + 1) /\ i + 1 = Len(P) + 2
      BY <1>2, <2>2
    <3>2. more[i] = left[i] \o W /\ more[i + 1] = <<>> /\ left[i] = <<>> /\ Whole(Q[i]) = W
      BY <1>1, <1>3, <1>6, <2>2, <3>1, Zenon DEF Streamed, W
    <3>3. <<>> \o W = W /\ W \o <<>> = W
      BY <1>4, CatEmpty
    <3>4. QED
      BY <3>2, <3>3, Zenon
  <2>3. i \in 1..Len(P) \/ i = Len(P) + 1
    BY <1>2, <1>3
  <2>4. QED
    BY <2>1, <2>2, <2>3
<1>9. QED
  BY <1>5, <1>7, <1>8 DEF Stream, Streamed, Q, W

(* The bytes start with the frame of the first packet, and after it come   *)
(* those of the others.                                                    *)
LEMMA StreamFirst ==
  ASSUME NEW B, NEW P \in Seq(Octets), Stream(B, P), P # <<>>
  PROVE  \E C \in Octets : B = Whole(Head(P)) \o C /\ Stream(C, Tail(P))
<1> DEFINE T == Tail(P)
<1>1. PICK left \in [1..(Len(P) + 1) -> Octets] : Streamed(B, P, left)
  BY DEF Stream
<1>2. Len(P) \in Nat \ {0}
  BY LenProperties, EmptySeq
<1>3. /\ T \in Seq(Octets) /\ Len(T) = Len(P) - 1
      /\ \A i \in 1..Len(T) : T[i] = P[i + 1]
  BY HeadTailProperties
<1>4. Head(P) = P[1]
  OBVIOUS
<1> HIDE DEF T
<1> DEFINE rest == [i \in 1..Len(P) |-> left[i + 1]]
<1>5. rest \in [1..(Len(T) + 1) -> Octets] /\ \A i \in 1..Len(P) : rest[i] = left[i + 1]
  <2>1. \A i \in 1..Len(P) : i + 1 \in 1..(Len(P) + 1)
    BY <1>2
  <2>2. Len(T) + 1 = Len(P)
    BY <1>2, <1>3
  <2>3. QED
    BY <1>1, <2>1, <2>2
<1> HIDE DEF rest
<1>6. 1 \in 1..Len(P) /\ Len(P) \in 1..Len(P) /\ 2 \in 1..(Len(P) + 1) /\ Len(T) + 1 = Len(P)
  BY <1>2, <1>3
<1>7. left[2] \in Octets /\ B = Whole(Head(P)) \o left[2] /\ rest[1] = left[2]
  <2>1. left[1] = B /\ left[1] = Whole(P[1]) \o left[1 + 1]
    <3>1. 1 \in 1..Len(P)
      BY <1>6
    <3>2. QED
      BY <1>1, <3>1, Zenon DEF Streamed
  <2>2. 1 + 1 = 2 /\ left[2] \in Octets /\ rest[1] = left[1 + 1]
    BY <1>1, <1>5, <1>6
  <2>3. QED
    BY <1>4, <2>1, <2>2
<1>8. rest[Len(T) + 1] = <<>>
  BY <1>1, <1>5, <1>6 DEF Streamed
<1>9. ASSUME NEW i \in 1..Len(T) PROVE rest[i] = Whole(T[i]) \o rest[i + 1]
  <2>1. i \in 1..Len(P) /\ i + 1 \in 1..Len(P)
    BY <1>2, <1>3
  <2>2. left[i + 1] = Whole(P[i + 1]) \o left[(i + 1) + 1]
    BY <1>1, <2>1 DEF Streamed
  <2>3. rest[i] = left[i + 1] /\ rest[i + 1] = left[(i + 1) + 1] /\ T[i] = P[i + 1]
    BY <1>3, <1>5, <2>1
  <2>4. QED
    BY <2>2, <2>3, Zenon
<1>10. Stream(left[2], T)
  BY <1>5, <1>7, <1>8, <1>9 DEF Stream, Streamed
<1>11. QED
  BY <1>7, <1>10 DEF T

(* The bytes that side s has taken from the stream for the frame it reads. *)
Got(s) == rd[s].header \o rd[s].buf

(* A read is in its header, which is not complete, or after it: then it    *)
(* asks for the body that the header counts, and for the flusher.          *)
ReadInv(s) ==
    \/ rd[s].header = <<>> /\ Len(rd[s].buf) + rd[s].need = HeaderSize /\ rd[s].need > 0
    \/ Len(rd[s].header) = HeaderSize /\ rd[s].need + Len(rd[s].buf) = U4(rd[s].header) + 1

(* The packets on their way to s are frame for frame the bytes that s has  *)
(* got, the pipe holds and the peer has still to write; what a peer that   *)
(* closed its stream had still to write does not come any more.            *)
Carried(s) == \E rest \in Octets :
    /\ Stream(Got(s) \o (pipe[s] \o rest), coming[s])
    /\ up[Other(s)] => rest = Flat(out[Other(s)])

ChannelInv ==
    /\ ChannelTypeOK
    /\ \A s \in Sides : ReadInv(s) /\ (up[s] => Carried(s))

(* What the types say of one side.                                         *)
LEMMA SideTypes ==
  ASSUME ChannelTypeOK, NEW s \in Sides
  PROVE  /\ out[s] \in Chunks /\ Len(out[s]) <= 3 /\ Flat(out[s]) \in Octets
         /\ pipe[s] \in Octets /\ Len(pipe[s]) <= Room
         /\ rd[s] \in [header : Octets, buf : Octets, need : Nat]
         /\ rd[s].header \in Octets /\ rd[s].buf \in Octets /\ rd[s].need \in Nat
         /\ Got(s) \in Octets
         /\ coming[s] \in Seq(Octets)
         /\ up[s] \in BOOLEAN
<1>1. /\ out[s] \in Chunks /\ Len(out[s]) <= 3
      /\ pipe[s] \in Octets /\ Len(pipe[s]) <= Room
      /\ coming[s] \in Seq(Octets)
      /\ up[s] \in BOOLEAN
  BY DEF ChannelTypeOK, Chunks, Octets
<1>2. rd[s] \in [header : Octets, buf : Octets, need : Nat]
  BY DEF ChannelTypeOK, Octets
<1>3. rd[s].header \in Octets /\ rd[s].buf \in Octets /\ rd[s].need \in Nat
  BY <1>2
<1>4. Got(s) \in Octets
  BY <1>3, CatType DEF Got
<1>5. Flat(out[s]) \in Octets
  BY <1>1, FlatIs
<1>6. QED
  BY <1>1, <1>2, <1>3, <1>4, <1>5

LEMMA TwoSides ==
  ASSUME NEW s \in Sides
  PROVE  Other(s) \in Sides /\ Other(s) # s /\ Other(Other(s)) = s /\ \A t \in Sides : t = s \/ t = Other(s)
BY DEF Sides, Other

(* One call moves no more bytes than there are, than there is room for and *)
(* than were asked for.                                                    *)
LEMMA MovedIs ==
  ASSUME NEW n \in Nat, NEW d \in Octets, NEW room \in Nat
  PROVE  Moved(n, d, room) \in 0..Len(d) /\ Moved(n, d, room) <= room
<1> DEFINE S == {n, MaxChunk, Len(d), room}
<1>1. MaxChunk \in Nat /\ Len(d) \in Nat
  BY FramingAssumption, LenProperties DEF Octets
<1>2. \E x \in S : \A y \in S : x <= y
  <2>1. \A a, b, c, e \in Nat : \E x \in {a, b, c, e} : x <= a /\ x <= b /\ x <= c /\ x <= e
    OBVIOUS
  <2>2. PICK x \in S : x <= n /\ x <= MaxChunk /\ x <= Len(d) /\ x <= room
    BY <1>1, <2>1
  <2>3. QED
    BY <2>2
<1>3. Moved(n, d, room) \in S /\ \A y \in S : Moved(n, d, room) <= y
  BY <1>2, Zenon DEF Moved, Smallest
<1> DEFINE m == Moved(n, d, room)
<1> HIDE DEF m
<1>4. m \in Nat /\ m <= Len(d) /\ m <= room
  BY <1>1, <1>3 DEF m
<1>5. m \in 0..Len(d)
  BY <1>1, <1>4
<1>6. QED
  BY <1>4, <1>5 DEF m

(* Nothing changes for a side whose read, pipe and packets stay, and whose *)
(* peer closes or keeps its writes.                                        *)
LEMMA SideKept ==
  ASSUME NEW s \in Sides, ReadInv(s), up[s] => Carried(s),
         rd'[s] = rd[s], pipe'[s] = pipe[s], coming'[s] = coming[s], up'[s] => up[s],
         up'[Other(s)] => up[Other(s)] /\ out'[Other(s)] = out[Other(s)]
  PROVE  ReadInv(s)' /\ (up[s] => Carried(s))'
<1>1. ReadInv(s)'
  BY DEF ReadInv
<1>2. ASSUME up'[s] PROVE Carried(s)'
  <2>1. PICK rest \in Octets :
          /\ Stream(Got(s) \o (pipe[s] \o rest), coming[s])
          /\ up[Other(s)] => rest = Flat(out[Other(s)])
    BY <1>2, Zenon DEF Carried
  <2>2. Got(s)' = Got(s)
    BY Zenon DEF Got
  <2>3. Stream(Got(s)' \o (pipe'[s] \o rest), coming'[s])
    BY <2>1, <2>2, Zenon
  <2>4. up'[Other(s)] => rest = Flat(out'[Other(s)])
    BY <2>1, Zenon
  <2>5. QED
    BY <2>3, <2>4, Zenon DEF Carried
<1>3. QED
  BY <1>1, <1>2

(* A packet that is sent is the last of those on their way to the peer.    *)
LEMMA SendCarries ==
  ASSUME ChannelTypeOK, NEW s \in Sides, NEW o \in Sides, o = Other(s), NEW p \in Octets,
         ReadInv(o), up[o] => Carried(o), up[s], out[s] = <<>>,
         out'[s] = Frame(p), rd'[o] = rd[o], pipe'[o] = pipe[o], up'[o] = up[o],
         coming'[o] = Coming(s, p)
  PROVE  ReadInv(o)' /\ (up[o] => Carried(o))'
<1>1. ReadInv(o)'
  BY DEF ReadInv
<1>2. ASSUME up'[o] PROVE Carried(o)'
  <2>1. Other(o) = s /\ up[o] /\ coming'[o] = Append(coming[o], p)
    BY <1>2, TwoSides DEF Coming
  <2>2. PICK rest \in Octets :
          /\ Stream(Got(o) \o (pipe[o] \o rest), coming[o])
          /\ up[s] => rest = Flat(out[s])
    BY <2>1, Zenon DEF Carried
  <2>3. rest = <<>>
    BY <2>2 DEF Flat
  <2> DEFINE g == Got(o)
             q == pipe[o]
             w == Whole(p)
  <2>4. g \in Octets /\ q \in Octets /\ coming[o] \in Seq(Octets) /\ w \in Octets /\ Flat(Frame(p)) = w
    BY SideTypes, WholeIs, FrameIs
  <2> HIDE DEF g, q, w
  <2>5. Stream((g \o q) \o w, Append(coming[o], p))
    <3>1. q \o <<>> = q
      BY <2>4, CatEmpty
    <3>2. Stream(g \o q, coming[o])
      BY <2>2, <2>3, <3>1, Zenon DEF g, q
    <3>3. QED
      BY <2>4, <3>2, StreamMore DEF w
  <2>6. (g \o q) \o w = g \o (q \o w)
    <3>1. g \in Octets /\ q \in Octets /\ w \in Octets
      BY <2>4, Zenon
    <3>2. QED
      BY <3>1, CatAssoc, ZenonT(60)
  <2>7. Stream(Got(o)' \o (pipe'[o] \o w), coming'[o])
    <3>1. Got(o)' = g
      BY Zenon DEF Got, g
    <3>2. pipe'[o] = q
      BY DEF q
    <3>3. QED
      BY <2>1, <2>5, <2>6, <3>1, <3>2, Zenon
  <2>8. w = Flat(out'[s])
    BY <2>4, Zenon
  <2>9. QED
    BY <2>1, <2>4, <2>7, <2>8, Zenon DEF Carried
<1>3. QED
  BY <1>1, <1>2

(* What the first write gives up is what the pipe takes.                   *)
LEMMA SockSendCarries ==
  ASSUME ChannelTypeOK, NEW s \in Sides, NEW o \in Sides, o = Other(s),
         ReadInv(o), up[o] => Carried(o), up[s], out[s] # <<>>,
         NEW n \in 0..Len(Head(out[s])),
         out'[s] = WriteOf(After(Head(out[s]), n)) \o Tail(out[s]),
         pipe'[o] = IF up[o] THEN pipe[o] \o Read(Head(out[s]), n) ELSE pipe[o],
         rd'[o] = rd[o], up'[o] = up[o], coming'[o] = coming[o]
  PROVE  ReadInv(o)' /\ (up[o] => Carried(o))'
<1>1. ReadInv(o)'
  BY DEF ReadInv
<1>2. ASSUME up'[o] PROVE Carried(o)'
  <2>1. Other(o) = s /\ up[o] /\ pipe'[o] = pipe[o] \o Read(Head(out[s]), n)
    BY <1>2, TwoSides
  <2>2. PICK rest \in Octets :
          /\ Stream(Got(o) \o (pipe[o] \o rest), coming[o])
          /\ up[s] => rest = Flat(out[s])
    BY <2>1, Zenon DEF Carried
  <2> DEFINE g == Got(o)
             q == pipe[o]
             r == Read(Head(out[s]), n)
             left == WriteOf(After(Head(out[s]), n)) \o Tail(out[s])
             f == Flat(left)
  <2>3. g \in Octets /\ q \in Octets /\ out[s] \in Chunks /\ Len(out[s]) <= 3
    BY SideTypes
  <2>4. f \in Octets /\ Flat(out[s]) = r \o f
    BY <2>3, FlatShift
  <2>5. r \in Octets
    <3>1. Head(out[s]) \in Octets
      BY <2>3, HeadTailProperties DEF Chunks
    <3>2. QED
      BY <3>1, Cut
  <2> HIDE DEF g, q, r, left, f
  <2>6. q \o (r \o f) = (q \o r) \o f
    BY <2>3, <2>4, <2>5, CatAssoc
  <2>7. rest = r \o f
    BY <2>2, <2>4
  <2>8. Stream(g \o ((q \o r) \o f), coming[o])
    BY <2>2, <2>6, <2>7, Zenon DEF g, q
  <2>9. Got(o)' = g /\ pipe'[o] = q \o r /\ f = Flat(out'[s])
    BY <2>1, Zenon DEF Got, g, q, r, f, left
  <2>10. Stream(Got(o)' \o (pipe'[o] \o f), coming'[o])
    BY <2>8, <2>9, Zenon
  <2>11. QED
    BY <2>1, <2>4, <2>9, <2>10, Zenon DEF Carried
<1>3. QED
  BY <1>1, <1>2

LEMMA U4Type ==
  ASSUME NEW h \in Octets, Len(h) = HeaderSize
  PROVE  U4(h) \in Nat
<1>1. 1 \in 1..Len(h) /\ 2 \in 1..Len(h) /\ 3 \in 1..Len(h) /\ 4 \in 1..Len(h)
  BY DEF HeaderSize
<1>2. h[1] \in Nat /\ h[2] \in Nat /\ h[3] \in Nat /\ h[4] \in Nat
  BY <1>1, ElementOfSeq DEF Octets
<1> DEFINE a == h[1]
           b == h[2]
           c == h[3]
           e == h[4]
<1>3. U4(h) = ((a * 256 + b) * 256 + c) * 256 + e
  BY DEF U4
<1>4. a \in Nat /\ b \in Nat /\ c \in Nat /\ e \in Nat
  BY <1>2
<1> HIDE DEF a, b, c, e
<1>5. ((a * 256 + b) * 256 + c) * 256 + e \in Nat
  BY <1>4
<1>6. QED
  BY <1>3, <1>5

(* What the pipe gives up is what the read takes; the header, once it is   *)
(* complete, is kept apart.                                                *)
Takes(s, n) ==
    /\ pipe'[s] = After(pipe[s], n)
    /\ LET buf == rd[s].buf \o Read(pipe[s], n)
       IN  rd'[s] = IF rd[s].need - n = 0 /\ rd[s].header = <<>>
                    THEN [header |-> buf, buf |-> <<>>, need |-> BodyNeed(buf)]
                    ELSE [rd[s] EXCEPT !.buf = buf, !.need = rd[s].need - n]
    /\ out'[Other(s)] = out[Other(s)] /\ up'[Other(s)] = up[Other(s)]
    /\ coming'[s] = coming[s]

LEMMA SockRecvCarries ==
  ASSUME ChannelTypeOK, NEW s \in Sides, ReadInv(s), Carried(s),
         NEW n \in 0..Len(pipe[s]), n <= rd[s].need, Takes(s, n)
  PROVE  ReadInv(s)' /\ Carried(s)' /\ rd'[s] \in [header : Octets, buf : Octets, need : Nat]
<1> DEFINE r == Read(pipe[s], n)
           x == After(pipe[s], n)
           h == rd[s].header
           b == rd[s].buf
           m == rd[s].need
           buf == b \o r
<1>1. /\ pipe[s] \in Octets /\ h \in Octets /\ b \in Octets /\ m \in Nat
      /\ rd[s] \in [header : Octets, buf : Octets, need : Nat]
      /\ r \in Octets /\ Len(r) = n /\ x \in Octets /\ pipe[s] = r \o x
      /\ n \in Nat /\ n <= m /\ Len(b) \in Nat
  <2>1. /\ pipe[s] \in Octets /\ h \in Octets /\ b \in Octets /\ m \in Nat
        /\ rd[s] \in [header : Octets, buf : Octets, need : Nat]
    BY SideTypes
  <2>2. r \in Octets /\ Len(r) = n /\ x \in Octets /\ r \o x = pipe[s]
    BY <2>1, Cut
  <2>3. Len(r) \in Nat /\ Len(b) \in Nat
    BY <2>1, <2>2, LenProperties DEF Octets
  <2>4. QED
    BY <2>1, <2>2, <2>3
<1>. HIDE DEF r, x, h, b, m
<1>2. buf \in Octets /\ Len(buf) = Len(b) + n
  BY <1>1, CatType
<1>. HIDE DEF buf
<1>3. /\ pipe'[s] = x /\ out'[Other(s)] = out[Other(s)] /\ up'[Other(s)] = up[Other(s)]
      /\ coming'[s] = coming[s]
      /\ m - n = 0 /\ h = <<>> => rd'[s] = [header |-> buf, buf |-> <<>>, need |-> BodyNeed(buf)]
      /\ ~(m - n = 0 /\ h = <<>>) => rd'[s] = [rd[s] EXCEPT !.buf = buf, !.need = m - n]
  BY Zenon DEF Takes, r, x, h, b, m, buf
<1>4. /\ rd'[s] \in [header : Octets, buf : Octets, need : Nat] /\ ReadInv(s)'
      /\ rd'[s].header \o rd'[s].buf = (h \o b) \o r
  <2>1. CASE m - n = 0 /\ h = <<>>
    <3>1. rd'[s] = [header |-> buf, buf |-> <<>>, need |-> BodyNeed(buf)]
      BY <1>3, <2>1, Zenon
    <3>2. Len(h) = 0 /\ Len(buf) = 5
      BY <1>1, <1>2, <2>1 DEF ReadInv, HeaderSize, h, b, m
    <3>3. U4(buf) \in Nat
      BY <1>2, <3>2, U4Type DEF HeaderSize
    <3>4. BodyNeed(buf) = U4(buf) + 1
      BY FlusherIs DEF BodyNeed
    <3> DEFINE k == U4(buf) + 1
    <3> HIDE DEF k
    <3>. k \in Nat /\ rd'[s] = [header |-> buf, buf |-> <<>>, need |-> k]
      <4>1. k \in Nat
        BY <3>3 DEF k
      <4>2. QED
        BY <3>1, <3>4, <4>1, Zenon DEF k
    <3>5. rd'[s].header = buf /\ rd'[s].buf = <<>> /\ rd'[s].need = k
      OBVIOUS
    <3>6. rd'[s] \in [header : Octets, buf : Octets, need : Nat]
      <4>1. <<>> \in Octets /\ buf \in Octets
        BY <1>2, FlusherIs, CatEmpty
      <4>2. QED
        BY <4>1
    <3>7. ReadInv(s)'
      <4>1. Len(rd'[s].header) = 5 /\ rd'[s].need + Len(rd'[s].buf) = U4(rd'[s].header) + 1
        <5>1. Len(buf) = 5 /\ k + 0 = k /\ Len(<<>>) = 0
          BY <3>2
        <5>2. QED
          BY <3>5, <5>1, Zenon DEF k
      <4>2. QED
        BY <4>1 DEF ReadInv, HeaderSize
    <3>8. buf \o <<>> = (<<>> \o b) \o r
      <4>1. buf \o <<>> = buf /\ <<>> \o b = b
        BY <1>1, <1>2, CatEmpty
      <4>2. QED
        BY <4>1 DEF buf
    <3>9. QED
      BY <2>1, <3>5, <3>6, <3>7, <3>8
  <2>2. CASE ~(m - n = 0 /\ h = <<>>)
    <3>1. rd'[s] = [rd[s] EXCEPT !.buf = buf, !.need = m - n]
      BY <1>3, <2>2, Zenon
    <3>2. m - n \in Nat
      BY <1>1
    <3>3. rd'[s].header = h /\ rd'[s].buf = buf /\ rd'[s].need = m - n
      BY <1>1, <3>1 DEF h
    <3>4. rd'[s] \in [header : Octets, buf : Octets, need : Nat]
      BY <1>1, <1>2, <3>1, <3>2
    <3>5. ReadInv(s)'
      <4>1. CASE h = <<>> /\ Len(b) + m = HeaderSize /\ m > 0
        <5>1. rd'[s].header = <<>> /\ Len(buf) + (m - n) = HeaderSize /\ m - n > 0
          <6>1. m - n # 0
            BY <2>2, <4>1
          <6>2. Len(b) + m = 5 /\ Len(b) \in Nat /\ Len(buf) = Len(b) + n
            BY <1>1, <1>2, <4>1 DEF HeaderSize
          <6>3. Len(buf) + (m - n) = HeaderSize /\ m - n > 0
            BY <1>1, <3>2, <6>1, <6>2 DEF HeaderSize
          <6>4. QED
            BY <3>3, <4>1, <6>3, Zenon
        <5>2. QED
          BY <3>3, <5>1 DEF ReadInv
      <4>2. CASE Len(h) = HeaderSize /\ m + Len(b) = U4(h) + 1
        <5>1. (m - n) + Len(buf) = m + Len(b)
          BY <1>1, <1>2
        <5>2. QED
          BY <3>3, <4>2, <5>1 DEF ReadInv
      <4>3. QED
        BY <4>1, <4>2 DEF ReadInv, h, b, m
    <3>6. h \o (b \o r) = (h \o b) \o r
      <4>1. h \in Octets /\ b \in Octets /\ r \in Octets
        BY <1>1, Zenon
      <4>2. QED
        BY <4>1, CatAssoc, ZenonT(60)
    <3>7. QED
      BY <3>3, <3>4, <3>5, <3>6, Zenon DEF buf
  <2>3. QED
    BY <2>1, <2>2
<1>5. Carried(s)'
  <2>1. PICK rest \in Octets :
          /\ Stream(Got(s) \o (pipe[s] \o rest), coming[s])
          /\ up[Other(s)] => rest = Flat(out[Other(s)])
    BY Zenon DEF Carried
  <2> DEFINE g == Got(s)
  <2>2. g \in Octets /\ Got(s)' = g \o r
    BY <1>4, SideTypes, Zenon DEF Got, h, b
  <2> HIDE DEF g
  <2>3. (g \o r) \o (x \o rest) = g \o ((r \o x) \o rest)
    <3>0. g \in Octets /\ r \in Octets /\ x \in Octets
      BY <1>1, <2>2, Zenon
    <3>1. x \o rest \in Octets
      BY <3>0, CatType, Zenon
    <3>2. (r \o x) \o rest = r \o (x \o rest)
      BY <3>0, CatAssoc, ZenonT(60)
    <3> DEFINE y == x \o rest
    <3> HIDE DEF y
    <3>3. (g \o r) \o y = g \o (r \o y)
      <4>1. y \in Octets
        BY <3>1 DEF y
      <4>2. QED
        BY <3>0, <4>1, CatAssoc, ZenonT(60)
    <3>4. QED
      BY <3>2, <3>3, Zenon DEF y
  <2>4. Stream((g \o r) \o (x \o rest), coming[s])
    BY <1>1, <2>1, <2>3, Zenon DEF g
  <2>5. Stream(Got(s)' \o (pipe'[s] \o rest), coming'[s])
    BY <1>3, <2>2, <2>4, Zenon
  <2>6. up'[Other(s)] => rest = Flat(out'[Other(s)])
    BY <1>3, <2>1, Zenon
  <2>7. QED
    BY <2>1, <2>5, <2>6, Zenon DEF Carried
<1>6. QED
  BY <1>4, <1>5

LEMMA ReadCat ==
  ASSUME NEW a \in Octets, NEW b \in Octets
  PROVE  Read(a \o b, Len(a)) = a
<1> DEFINE c == a \o b
           n == Len(a)
<1>1. c \in Octets /\ n \in 0..Len(c)
  <2>1. c \in Octets /\ Len(c) = Len(a) + Len(b)
    BY CatType
  <2>2. Len(a) \in Nat /\ Len(b) \in Nat
    BY LenProperties DEF Octets
  <2> HIDE DEF c
  <2>3. QED
    BY <2>1, <2>2
<1> HIDE DEF c, n
<1>2. /\ Read(c, n) \in Octets /\ Len(Read(c, n)) = n /\ After(c, n) \in Octets
      /\ Read(c, n) \o After(c, n) = c
  BY <1>1, Cut
<1>3. Read(c, n) \o After(c, n) = a \o b /\ Len(Read(c, n)) = Len(a)
  BY <1>2, Zenon DEF c, n
<1>4. Read(c, n) = a
  BY <1>2, <1>3, SameCut, Zenon
<1>5. QED
  BY <1>4 DEF c, n

(* A complete read has the frame of the first packet on its way, and what  *)
(* is left is the frames of the others.                                    *)
LEMMA FirstFrame ==
  ASSUME ChannelTypeOK, NEW s \in Sides, ReadInv(s), Carried(s), Complete(s)
  PROVE  /\ coming[s] # <<>> /\ Packet(s) = Head(coming[s])
         /\ \E rest \in Octets :
              /\ Stream(pipe[s] \o rest, Tail(coming[s]))
              /\ up[Other(s)] => rest = Flat(out[Other(s)])
<1> DEFINE h == rd[s].header
           b == rd[s].buf
           q == pipe[s]
           P == coming[s]
           d == Head(P)
           k == Body(d) \o Flusher
<1>1. h \in Octets /\ b \in Octets /\ q \in Octets /\ P \in Seq(Octets) /\ Len(b) \in Nat
  <2>1. h \in Octets /\ b \in Octets /\ q \in Octets /\ P \in Seq(Octets)
    BY SideTypes
  <2>2. QED
    BY <2>1, LenProperties DEF Octets
<1>2. h # <<>> /\ Len(h) = HeaderSize /\ Len(b) = U4(h) + 1
  <2>1. h # <<>> /\ rd[s].need = 0
    BY DEF Complete
  <2>2. Len(h) = HeaderSize /\ rd[s].need + Len(b) = U4(h) + 1
    BY <2>1, Zenon DEF ReadInv
  <2>3. QED
    BY <1>1, <2>1, <2>2
<1>3. PICK rest \in Octets :
        /\ Stream((h \o b) \o (q \o rest), P)
        /\ up[Other(s)] => rest = Flat(out[Other(s)])
  BY Zenon DEF Carried, Got
<1> DEFINE y == q \o rest
<1>4. y \in Octets
  BY <1>1, CatType
<1> HIDE DEF h, b, q, P, y
<1>5. b \o y \in Octets /\ (h \o b) \o y = h \o (b \o y)
  <2>1. h \in Octets /\ b \in Octets
    BY <1>1, Zenon
  <2>2. b \o y \in Octets
    BY <1>4, <2>1, CatType, Zenon
  <2>3. (h \o b) \o y = h \o (b \o y)
    BY <1>4, <2>1, CatAssoc, ZenonT(60)
  <2>4. QED
    BY <2>2, <2>3
<1>6. Stream(h \o (b \o y), P)
  BY <1>3, <1>5, Zenon DEF y
<1>7. P # <<>>
  <2> DEFINE z == b \o y
  <2>1. h \in Seq(Nat) /\ z \in Seq(Nat)
    BY <1>1, <1>5 DEF Octets
  <2> HIDE DEF z
  <2>2. h \o z # <<>>
    BY <1>2, <2>1, ConcatEqualIffEmpty
  <2>3. h \o z = <<>> <=> P = <<>>
    BY <1>1, <1>6, StreamNone, Zenon DEF z
  <2>4. QED
    BY <2>2, <2>3
<1>8. d \in Octets
  BY <1>1, <1>7, HeadTailProperties
<1> HIDE DEF d
<1>9. PICK C \in Octets : h \o (b \o y) = Whole(d) \o C /\ Stream(C, Tail(P))
  BY <1>1, <1>6, <1>7, StreamFirst, Zenon DEF d
<1>10. /\ Header(d) \in Octets /\ Len(Header(d)) = HeaderSize /\ U4(Header(d)) = Len(Body(d))
       /\ Header(d)[5] = 1 <=> Len(d) > Threshold
  BY <1>8, HeaderIs
<1>11. /\ Body(d) \in Octets /\ Flusher \in Octets /\ Len(Body(d)) \in Nat
       /\ k \in Octets /\ Len(k) = Len(Body(d)) + 1
  <2>1. Body(d) \in Octets /\ Len(Body(d)) \in Nat
    BY <1>8, BodyIs, WholeIs
  <2>2. k \in Octets /\ Len(k) = Len(Body(d)) + Len(Flusher)
    BY <2>1, FlusherIs, CatType, Zenon
  <2>3. QED
    BY <2>1, <2>2, FlusherIs
<1>12. k = Body(d) \o Flusher /\ Whole(d) = Header(d) \o k
  BY Zenon DEF Whole
<1> HIDE DEF k
<1>13. k \o C \in Octets /\ (Header(d) \o k) \o C = Header(d) \o (k \o C)
  <2>1. Header(d) \in Octets /\ k \in Octets
    BY <1>10, <1>11, Zenon
  <2>2. k \o C \in Octets
    BY <2>1, CatType, Zenon
  <2>3. (Header(d) \o k) \o C = Header(d) \o (k \o C)
    BY <2>1, CatAssoc, ZenonT(60)
  <2>4. QED
    BY <2>2, <2>3
<1>14. h = Header(d) /\ b \o y = k \o C
  <2>1. h \o (b \o y) = Header(d) \o (k \o C)
    BY <1>9, <1>12, <1>13, Zenon
  <2>2. Len(h) = Len(Header(d))
    BY <1>2, <1>10
  <2> DEFINE u == b \o y
             v == k \o C
  <2>3. u \in Octets /\ v \in Octets /\ h \o u = Header(d) \o v
    BY <1>5, <1>13, <2>1
  <2> HIDE DEF u, v
  <2>4. h = Header(d) /\ u = v
    BY <1>1, <1>10, <2>2, <2>3, SameCut
  <2>5. QED
    BY <2>4 DEF u, v
<1>15. b = k /\ y = C
  <2>1. Len(b) = Len(k)
    BY <1>2, <1>10, <1>11, <1>14
  <2>2. QED
    BY <1>1, <1>4, <1>11, <1>14, <2>1, SameCut
<1>16. Read(b, Len(b) - Len(Flusher)) = Body(d)
  <2>1. Len(b) - Len(Flusher) = Len(Body(d))
    BY <1>11, <1>15, FlusherIs
  <2>2. Read(Body(d) \o Flusher, Len(Body(d))) = Body(d)
    BY <1>11, ReadCat
  <2>3. QED
    BY <1>12, <1>15, <2>1, <2>2, Zenon
<1>17. Packet(s) = d
  <2>1. Packet(s) = IF h[5] = 1 THEN Decompress(Body(d)) ELSE Body(d)
    BY <1>16, Zenon DEF Packet, Unpacked, h, b
  <2>2. h[5] = 1 <=> Len(d) > Threshold
    BY <1>10, <1>14, Zenon
  <2>3. (IF Len(d) > Threshold THEN Decompress(Body(d)) ELSE Body(d)) = d
    BY <1>8, BodyIs, Zenon
  <2>4. CASE Len(d) > Threshold
    BY <2>1, <2>2, <2>3, <2>4, Zenon
  <2>5. CASE ~(Len(d) > Threshold)
    BY <2>1, <2>2, <2>3, <2>5, Zenon
  <2>6. QED
    BY <2>4, <2>5
<1>18. Stream(q \o rest, Tail(P))
  BY <1>9, <1>15, Zenon DEF y
<1>19. QED
  BY <1>3, <1>7, <1>17, <1>18, Zenon DEF d, P, q

(* A packet that is taken is no longer on its way.                         *)
LEMMA TakeCarries ==
  ASSUME ChannelTypeOK, NEW s \in Sides, ReadInv(s), Carried(s), Complete(s),
         rd'[s] = Idle, coming'[s] = Tail(coming[s]), pipe'[s] = pipe[s],
         up'[Other(s)] = up[Other(s)], out'[Other(s)] = out[Other(s)]
  PROVE  ReadInv(s)' /\ Carried(s)' /\ Tail(coming[s]) \in Seq(Octets)
<1>1. PICK rest \in Octets :
        /\ Stream(pipe[s] \o rest, Tail(coming[s]))
        /\ up[Other(s)] => rest = Flat(out[Other(s)])
  BY FirstFrame, Zenon
<1>2. rd'[s].header = <<>> /\ rd'[s].buf = <<>> /\ rd'[s].need = 5
  BY DEF Idle, HeaderSize
<1>3. ReadInv(s)'
  BY <1>2 DEF ReadInv, HeaderSize
<1>4. Got(s)' = <<>>
  BY <1>2, CatEmpty DEF Got
<1>5. pipe[s] \o rest \in Octets
  BY SideTypes, CatType
<1> DEFINE z == pipe[s] \o rest
<1>6. <<>> \o z = z
  <2>1. z \in Octets
    BY <1>5
  <2> HIDE DEF z
  <2>2. QED
    BY <2>1, CatEmpty
<1>7. Stream(Got(s)' \o (pipe'[s] \o rest), coming'[s])
  BY <1>1, <1>4, <1>6, Zenon
<1>8. Carried(s)'
  BY <1>1, <1>7, Zenon DEF Carried
<1>9. Tail(coming[s]) \in Seq(Octets)
  <2>1. coming[s] \in Seq(Octets) /\ coming[s] # <<>>
    BY SideTypes, FirstFrame
  <2>2. QED
    BY <2>1, HeadTailProperties
<1>10. QED
  BY <1>3, <1>8, <1>9

LEMMA ChannelInit == FramingInit => ChannelInv
<1> SUFFICES ASSUME FramingInit PROVE ChannelInv
  OBVIOUS
<1>1. <<>> \in Chunks /\ <<>> \in Octets /\ <<>> \in Seq(Octets) /\ Len(<<>>) = 0
  BY EmptySeq DEF Chunks, Octets
<1>2. ChannelTypeOK
  <2>1. Idle \in [header : Seq(Nat), buf : Seq(Nat), need : Nat]
    BY <1>1 DEF Idle, HeaderSize, Octets
  <2>2. Room \in Nat
    BY FramingAssumption
  <2>3. /\ <<>> \in Seq(Seq(Nat) \ {<<>>}) /\ <<>> \in Seq(Nat) /\ <<>> \in Seq(Seq(Nat))
    BY <1>1 DEF Chunks, Octets
  <2>4. /\ up \in [Sides -> BOOLEAN] /\ broken \in BOOLEAN
        /\ out \in [Sides -> Seq(Seq(Nat) \ {<<>>})]
        /\ pipe \in [Sides -> Seq(Nat)]
        /\ rd \in [Sides -> [header : Seq(Nat), buf : Seq(Nat), need : Nat]]
        /\ coming \in [Sides -> Seq(Seq(Nat))]
    <3> HIDE DEF Idle
    <3>1. QED
      BY <2>1, <2>3, Zenon DEF FramingInit
  <2>5. \A s \in Sides : Len(out[s]) <= 3 /\ Len(pipe[s]) <= Room
    <3>1. 0 <= 3 /\ 0 <= Room
      BY <2>2
    <3>2. \A s \in Sides : out[s] = <<>> /\ pipe[s] = <<>>
      BY DEF FramingInit
    <3>3. QED
      BY <1>1, <3>1, <3>2, Zenon
  <2>6. QED
    BY <2>4, <2>5 DEF ChannelTypeOK
<1>3. ASSUME NEW s \in Sides PROVE ReadInv(s) /\ Carried(s)
  <2>1. /\ rd[s].header = <<>> /\ rd[s].buf = <<>> /\ rd[s].need = 5
        /\ pipe[s] = <<>> /\ coming[s] = <<>> /\ out[Other(s)] = <<>>
    BY TwoSides DEF FramingInit, Idle, HeaderSize
  <2>2. ReadInv(s)
    BY <2>1 DEF ReadInv, HeaderSize
  <2>3. Got(s) \o (pipe[s] \o <<>>) = <<>> /\ Flat(out[Other(s)]) = <<>>
    BY <2>1, CatEmpty DEF Got, Flat
  <2>4. Stream(Got(s) \o (pipe[s] \o <<>>), coming[s])
    BY <2>1, <2>3, StreamEmpty, Zenon
  <2>5. Carried(s)
    BY <1>1, <2>3, <2>4, Zenon DEF Carried
  <2>6. QED
    BY <2>2, <2>5
<1>4. QED
  BY <1>2, <1>3 DEF ChannelInv

(* A side and its peer are all the sides: what a step keeps for the one    *)
(* and for the other, it keeps.                                            *)
LEMMA BothSides ==
  ASSUME NEW s \in Sides, ChannelTypeOK',
         ReadInv(s)' /\ (up[s] => Carried(s))',
         ReadInv(Other(s))' /\ (up[Other(s)] => Carried(Other(s)))'
  PROVE  ChannelInv'
<1>1. ASSUME NEW t \in Sides PROVE ReadInv(t)' /\ (up[t] => Carried(t))'
  <2>1. CASE t = s
    BY <2>1
  <2>2. CASE t = Other(s)
    BY <2>2
  <2>3. QED
    BY <2>1, <2>2, TwoSides
<1>2. QED
  BY <1>1 DEF ChannelInv

LEMMA ChannelSends ==
  ASSUME ChannelInv, NEW s \in Sides, NEW p \in Packets[s], Send(s, p)
  PROVE  ChannelInv'
<1> DEFINE o == Other(s)
<1>1. ChannelTypeOK /\ ReadInv(s) /\ (up[s] => Carried(s)) /\ o \in Sides /\ Other(o) = s /\ o # s
      /\ ReadInv(o) /\ (up[o] => Carried(o))
  BY TwoSides DEF ChannelInv
<1>2. p \in Octets
  BY PacketsAssumption DEF Octets
<1>3. /\ up[s] /\ out[s] = <<>> /\ out' = [out EXCEPT ![s] = Frame(p)]
      /\ coming' = [coming EXCEPT ![o] = Coming(s, p)]
      /\ pipe' = pipe /\ rd' = rd /\ up' = up /\ broken' = broken
  BY DEF Send
<1> HIDE DEF o
<1>4. /\ out'[s] = Frame(p) /\ out'[o] = out[o]
      /\ coming'[s] = coming[s] /\ coming'[o] = Coming(s, p)
  BY <1>1, <1>3 DEF ChannelTypeOK
<1>5. Frame(p) \in Chunks /\ Len(Frame(p)) <= 3 /\ Coming(s, p) \in Seq(Octets)
  <2>1. coming[o] \in Seq(Octets) /\ Append(coming[o], p) \in Seq(Octets)
    BY <1>1, <1>2, SideTypes, AppendProperties
  <2>2. Coming(s, p) \in Seq(Octets)
    BY <2>1 DEF Coming, o
  <2>3. QED
    BY <1>2, <2>2, FrameIs
<1>6. ChannelTypeOK'
  <2>1. out' \in [Sides -> Chunks] /\ coming' \in [Sides -> Seq(Octets)]
    BY <1>1, <1>3, <1>5 DEF ChannelTypeOK, Chunks, Octets
  <2>2. \A t \in Sides : Len(out'[t]) <= 3 /\ Len(pipe'[t]) <= Room
    BY <1>1, <1>3, <1>4, <1>5, TwoSides DEF ChannelTypeOK, o
  <2>3. QED
    BY <1>1, <1>3, <2>1, <2>2 DEF ChannelTypeOK, Chunks, Octets
<1>7. ReadInv(s)' /\ (up[s] => Carried(s))'
  <2>1. rd'[s] = rd[s] /\ pipe'[s] = pipe[s] /\ up'[s] = up[s] /\ up'[o] = up[o]
    BY <1>3
  <2>2. QED
    BY <1>1, <1>4, <2>1, SideKept DEF o
<1>8. ReadInv(o)' /\ (up[o] => Carried(o))'
  <2>1. rd'[o] = rd[o] /\ pipe'[o] = pipe[o] /\ up'[o] = up[o]
    BY <1>3
  <2>2. QED
    BY <1>1, <1>2, <1>3, <1>4, <2>1, SendCarries DEF o
<1>9. QED
  BY <1>6, <1>7, <1>8, BothSides DEF o

LEMMA ChannelAnswers ==
  ASSUME ChannelInv, NEW s \in Sides, NEW p \in Packets[s], Answer(s, p)
  PROVE  ChannelInv'
<1> DEFINE o == Other(s)
<1>1. ChannelTypeOK /\ ReadInv(s) /\ (up[s] => Carried(s)) /\ o \in Sides /\ Other(o) = s /\ o # s
      /\ ReadInv(o) /\ (up[o] => Carried(o))
  BY TwoSides DEF ChannelInv
<1>2. p \in Octets
  BY PacketsAssumption DEF Octets
<1>3. /\ up[s] /\ Complete(s) /\ out[s] = <<>> /\ rd' = [rd EXCEPT ![s] = Idle]
      /\ out' = [out EXCEPT ![s] = Frame(p)]
      /\ coming' = [coming EXCEPT ![s] = Tail(coming[s]), ![o] = Coming(s, p)]
      /\ pipe' = pipe /\ up' = up /\ broken' = broken
  BY <1>1 DEF Answer
<1> HIDE DEF o
<1>4. /\ out'[s] = Frame(p) /\ out'[o] = out[o]
      /\ coming'[s] = Tail(coming[s]) /\ coming'[o] = Coming(s, p)
      /\ rd'[s] = Idle /\ rd'[o] = rd[o]
  BY <1>1, <1>3 DEF ChannelTypeOK
<1>5. ReadInv(s)' /\ (up[s] => Carried(s))' /\ Tail(coming[s]) \in Seq(Octets)
  <2>1. pipe'[s] = pipe[s] /\ up'[o] = up[o] /\ Carried(s)
    BY <1>1, <1>3
  <2>2. ReadInv(s)' /\ Carried(s)' /\ Tail(coming[s]) \in Seq(Octets)
    BY <1>1, <1>3, <1>4, <2>1, TakeCarries DEF o
  <2>3. QED
    BY <2>2
<1>6. ReadInv(o)' /\ (up[o] => Carried(o))'
  <2>1. pipe'[o] = pipe[o] /\ up'[o] = up[o]
    BY <1>3
  <2>2. QED
    BY <1>1, <1>2, <1>3, <1>4, <2>1, SendCarries DEF o
<1>7. Frame(p) \in Chunks /\ Len(Frame(p)) <= 3 /\ Coming(s, p) \in Seq(Octets)
  <2>1. coming[o] \in Seq(Octets) /\ Append(coming[o], p) \in Seq(Octets)
    BY <1>1, <1>2, SideTypes, AppendProperties
  <2>2. Coming(s, p) \in Seq(Octets)
    BY <2>1 DEF Coming, o
  <2>3. QED
    BY <1>2, <2>2, FrameIs
<1>8. ChannelTypeOK'
  <2>1. out' \in [Sides -> Chunks] /\ coming' \in [Sides -> Seq(Octets)]
    BY <1>1, <1>3, <1>5, <1>7 DEF ChannelTypeOK, Chunks, Octets
  <2>2. rd' \in [Sides -> [header : Octets, buf : Octets, need : Nat]]
    <3>1. Idle \in [header : Octets, buf : Octets, need : Nat]
      BY CatEmpty, FlusherIs DEF Idle, HeaderSize
    <3>2. QED
      BY <1>1, <1>3, <3>1 DEF ChannelTypeOK, Octets
  <2>3. \A t \in Sides : Len(out'[t]) <= 3 /\ Len(pipe'[t]) <= Room
    BY <1>1, <1>3, <1>4, <1>7, TwoSides DEF ChannelTypeOK, o
  <2>4. QED
    BY <1>1, <1>3, <2>1, <2>2, <2>3 DEF ChannelTypeOK, Chunks, Octets
<1>9. QED
  BY <1>5, <1>6, <1>8, BothSides DEF o

LEMMA ChannelTakes ==
  ASSUME ChannelInv, NEW s \in Sides, Take(s)
  PROVE  ChannelInv'
<1> DEFINE o == Other(s)
<1>1. ChannelTypeOK /\ ReadInv(s) /\ (up[s] => Carried(s)) /\ o \in Sides /\ Other(o) = s /\ o # s
      /\ ReadInv(o) /\ (up[o] => Carried(o))
  BY TwoSides DEF ChannelInv
<1>2. /\ up[s] /\ Complete(s) /\ rd' = [rd EXCEPT ![s] = Idle]
      /\ coming' = [coming EXCEPT ![s] = Tail(coming[s])]
      /\ out' = out /\ pipe' = pipe /\ up' = up /\ broken' = broken
  BY <1>1 DEF Take
<1> HIDE DEF o
<1>3. /\ coming'[s] = Tail(coming[s]) /\ coming'[o] = coming[o]
      /\ rd'[s] = Idle /\ rd'[o] = rd[o]
  BY <1>1, <1>2 DEF ChannelTypeOK
<1>4. ReadInv(s)' /\ (up[s] => Carried(s))' /\ Tail(coming[s]) \in Seq(Octets)
  <2>1. pipe'[s] = pipe[s] /\ up'[o] = up[o] /\ out'[o] = out[o] /\ Carried(s)
    BY <1>1, <1>2
  <2>2. ReadInv(s)' /\ Carried(s)' /\ Tail(coming[s]) \in Seq(Octets)
    BY <1>1, <1>2, <1>3, <2>1, TakeCarries DEF o
  <2>3. QED
    BY <2>2
<1>5. ReadInv(o)' /\ (up[o] => Carried(o))'
  <2>1. pipe'[o] = pipe[o] /\ up'[o] = up[o] /\ up'[s] = up[s] /\ out'[s] = out[s]
    BY <1>2
  <2>2. QED
    BY <1>1, <1>3, <2>1, SideKept
<1>6. ChannelTypeOK'
  <2>1. coming' \in [Sides -> Seq(Octets)]
    BY <1>1, <1>2, <1>4 DEF ChannelTypeOK, Octets
  <2>2. rd' \in [Sides -> [header : Octets, buf : Octets, need : Nat]]
    <3>1. Idle \in [header : Octets, buf : Octets, need : Nat]
      BY CatEmpty, FlusherIs DEF Idle, HeaderSize
    <3>2. QED
      BY <1>1, <1>2, <3>1 DEF ChannelTypeOK, Octets
  <2>3. QED
    BY <1>1, <1>2, <2>1, <2>2 DEF ChannelTypeOK, Octets
<1>7. QED
  BY <1>4, <1>5, <1>6, BothSides DEF o

LEMMA ChannelSockSends ==
  ASSUME ChannelInv, NEW s \in Sides, SockSend(s, Amounts)
  PROVE  ChannelInv'
<1> DEFINE o == Other(s)
           h == Head(out[s])
           room == Room - Len(pipe[o])
<1>1. ChannelTypeOK /\ ReadInv(s) /\ (up[s] => Carried(s)) /\ o \in Sides /\ Other(o) = s /\ o # s
      /\ ReadInv(o) /\ (up[o] => Carried(o))
  BY TwoSides DEF ChannelInv
<1>2. /\ up[s] /\ out[s] # <<>> /\ Len(pipe[o]) < Room
      /\ rd' = rd /\ up' = up /\ broken' = broken /\ coming' = coming
  BY DEF SockSend
<1>3. PICK a \in Amounts \cup {MaxChunk} :
        /\ out' = [out EXCEPT ![s] = WriteOf(After(Head(@), Moved(a, h, room))) \o Tail(@)]
        /\ pipe' = [pipe EXCEPT ![o] = IF up[o] THEN @ \o Read(h, Moved(a, h, room)) ELSE @]
  BY Zenon DEF SockSend
<1> DEFINE n == Moved(a, h, room)
           left == WriteOf(After(h, n)) \o Tail(out[s])
<1>4. /\ out[s] \in Chunks /\ Len(out[s]) <= 3 /\ h \in Octets
      /\ pipe[o] \in Octets /\ Len(pipe[o]) \in Nat
  <2>1. out[s] \in Chunks /\ Len(out[s]) <= 3 /\ pipe[o] \in Octets
    BY <1>1, SideTypes
  <2>2. Head(out[s]) \in Octets
    BY <1>2, <2>1, HeadTailProperties DEF Chunks
  <2>3. Len(pipe[o]) \in Nat
    BY <2>1, LenProperties DEF Octets
  <2>4. QED
    BY <2>1, <2>2, <2>3
<1> HIDE DEF o
<1>5. n \in 0..Len(h) /\ n <= room
  <2>1. a \in Nat
    BY PacketsAssumption, FramingAssumption
  <2>2. room \in Nat
    BY <1>2, <1>4, FramingAssumption
  <2> HIDE DEF h, room
  <2>3. QED
    BY <1>4, <2>1, <2>2, MovedIs
<1> HIDE DEF n
<1>6. left \in Chunks /\ Len(left) <= 3
  BY <1>2, <1>4, <1>5, FlatShift
<1>7. Read(h, n) \in Octets /\ Len(Read(h, n)) = n
  <2> HIDE DEF h
  <2>1. QED
    BY <1>4, <1>5, Cut
<1>8. /\ out' = [out EXCEPT ![s] = left]
      /\ pipe' = [pipe EXCEPT ![o] = IF up[o] THEN pipe[o] \o Read(h, n) ELSE pipe[o]]
  BY <1>3 DEF n
<1> HIDE DEF left, h
<1>9. /\ out'[s] = left /\ out'[o] = out[o] /\ pipe'[s] = pipe[s]
      /\ pipe'[o] = IF up[o] THEN pipe[o] \o Read(h, n) ELSE pipe[o]
  BY <1>1, <1>8 DEF ChannelTypeOK
<1>10. pipe'[o] \in Octets /\ Len(pipe'[o]) <= Room
  <2>1. CASE up[o]
    <3>1. pipe[o] \o Read(h, n) \in Octets /\ Len(pipe[o] \o Read(h, n)) = Len(pipe[o]) + n
      BY <1>4, <1>7, CatType
    <3>2. Len(pipe[o]) + n <= Room
      BY <1>4, <1>5, FramingAssumption
    <3>3. QED
      BY <1>9, <2>1, <3>1, <3>2
  <2>2. CASE ~up[o]
    <3>1. Len(pipe[o]) <= Room
      BY <1>1, SideTypes
    <3>2. QED
      BY <1>4, <1>9, <2>2, <3>1
  <2>3. QED
    BY <2>1, <2>2
<1>11. ChannelTypeOK'
  <2>1. out' \in [Sides -> Chunks]
    BY <1>1, <1>6, <1>8 DEF ChannelTypeOK, Chunks, Octets
  <2>2. pipe' \in [Sides -> Octets]
    <3>1. (IF up[o] THEN pipe[o] \o Read(h, n) ELSE pipe[o]) \in Octets
      BY <1>9, <1>10
    <3>2. QED
      BY <1>1, <1>8, <3>1 DEF ChannelTypeOK, Octets
  <2>3. \A t \in Sides : Len(out'[t]) <= 3 /\ Len(pipe'[t]) <= Room
    BY <1>1, <1>6, <1>9, <1>10, TwoSides DEF ChannelTypeOK, o
  <2>4. QED
    BY <1>1, <1>2, <2>1, <2>2, <2>3 DEF ChannelTypeOK, Chunks, Octets
<1>12. ReadInv(s)' /\ (up[s] => Carried(s))'
  <2>1. rd'[s] = rd[s] /\ coming'[s] = coming[s] /\ up'[s] = up[s] /\ up'[o] = up[o]
    BY <1>2
  <2>2. QED
    BY <1>1, <1>9, <2>1, SideKept DEF o
<1>13. ReadInv(o)' /\ (up[o] => Carried(o))'
  <2>1. rd'[o] = rd[o] /\ coming'[o] = coming[o] /\ up'[o] = up[o]
    BY <1>2
  <2>2. QED
    BY <1>1, <1>2, <1>5, <1>9, <2>1, SockSendCarries DEF o, left, h
<1>14. QED
  BY <1>11, <1>12, <1>13, BothSides DEF o

LEMMA ChannelSockRecvs ==
  ASSUME ChannelInv, NEW s \in Sides, SockRecv(s, Amounts)
  PROVE  ChannelInv'
<1> DEFINE o == Other(s)
<1>1. ChannelTypeOK /\ ReadInv(s) /\ (up[s] => Carried(s)) /\ o \in Sides /\ Other(o) = s /\ o # s
      /\ ReadInv(o) /\ (up[o] => Carried(o))
  BY TwoSides DEF ChannelInv
<1>2. /\ up[s] /\ out' = out /\ up' = up /\ broken' = broken /\ coming' = coming
  BY DEF SockRecv
<1> DEFINE count(a) == Moved(a, pipe[s], rd[s].need)
           next(n) == LET buf == rd[s].buf \o Read(pipe[s], n)
                      IN  IF rd[s].need - n = 0 /\ rd[s].header = <<>>
                          THEN [header |-> buf, buf |-> <<>>, need |-> BodyNeed(buf)]
                          ELSE [rd[s] EXCEPT !.buf = buf, !.need = rd[s].need - n]
<1>3. PICK a \in Amounts \cup {MaxChunk} :
        /\ pipe' = [pipe EXCEPT ![s] = After(pipe[s], count(a))]
        /\ rd' = [rd EXCEPT ![s] = next(count(a))]
  BY DEF SockRecv
<1> DEFINE n == count(a)
<1>4. pipe[s] \in Octets /\ Len(pipe[s]) \in Nat /\ Len(pipe[s]) <= Room /\ rd[s].need \in Nat
  <2>1. pipe[s] \in Octets /\ Len(pipe[s]) <= Room /\ rd[s].need \in Nat
    BY <1>1, SideTypes
  <2>2. Len(pipe[s]) \in Nat
    BY <2>1, LenProperties DEF Octets
  <2>3. QED
    BY <2>1, <2>2
<1> HIDE DEF o
<1>5. n \in 0..Len(pipe[s]) /\ n <= rd[s].need
  <2>1. a \in Nat
    BY PacketsAssumption, FramingAssumption
  <2>2. QED
    BY <1>4, <2>1, MovedIs
<1>6. pipe' = [pipe EXCEPT ![s] = After(pipe[s], n)] /\ rd' = [rd EXCEPT ![s] = next(n)]
  BY <1>3
<1> HIDE DEF n, count
<1>7. pipe'[s] = After(pipe[s], n) /\ pipe'[o] = pipe[o]
  BY <1>1, <1>6 DEF ChannelTypeOK
<1>8. rd'[s] = next(n) /\ rd'[o] = rd[o]
  <2> HIDE DEF next
  <2>1. QED
    BY <1>1, <1>6 DEF ChannelTypeOK
<1>9. Takes(s, n)
  BY <1>2, <1>7, <1>8, Zenon DEF Takes
<1>10. /\ ReadInv(s)' /\ Carried(s)'
       /\ rd'[s] \in [header : Octets, buf : Octets, need : Nat]
  BY <1>1, <1>2, <1>5, <1>9, SockRecvCarries
<1>11. ReadInv(o)' /\ (up[o] => Carried(o))'
  <2>1. coming'[o] = coming[o] /\ up'[o] = up[o] /\ up'[s] = up[s] /\ out'[s] = out[s]
    BY <1>2
  <2> HIDE DEF next
  <2>2. QED
    BY <1>1, <1>7, <1>8, <2>1, SideKept
<1>12. After(pipe[s], n) \in Octets /\ Len(After(pipe[s], n)) <= Room
  <2>1. After(pipe[s], n) \in Octets /\ Len(After(pipe[s], n)) = Len(pipe[s]) - n
    BY <1>4, <1>5, Cut
  <2>2. Len(pipe[s]) - n <= Room
    BY <1>4, <1>5, FramingAssumption
  <2>3. QED
    BY <2>1, <2>2
<1>13. ChannelTypeOK'
  <2> HIDE DEF next
  <2>1. pipe' \in [Sides -> Octets]
    BY <1>1, <1>6, <1>12 DEF ChannelTypeOK, Octets
  <2>2. rd' \in [Sides -> [header : Octets, buf : Octets, need : Nat]]
    BY <1>1, <1>6, <1>8, <1>10 DEF ChannelTypeOK, Octets
  <2>3. \A t \in Sides : Len(out'[t]) <= 3 /\ Len(pipe'[t]) <= Room
    BY <1>1, <1>2, <1>7, <1>12, TwoSides DEF ChannelTypeOK, o
  <2>4. QED
    BY <1>1, <1>2, <2>1, <2>2, <2>3 DEF ChannelTypeOK, Chunks, Octets
<1>14. QED
  BY <1>10, <1>11, <1>13, BothSides DEF o

LEMMA ChannelCloses ==
  ASSUME ChannelInv, NEW s \in Sides, Closes(s)
  PROVE  ChannelInv'
<1> DEFINE o == Other(s)
<1>1. ChannelTypeOK /\ o \in Sides /\ Other(o) = s /\ o # s /\ ReadInv(o) /\ (up[o] => Carried(o))
  BY TwoSides DEF ChannelInv
<1>2. /\ up' = [up EXCEPT ![s] = FALSE] /\ out' = [out EXCEPT ![s] = <<>>]
      /\ pipe' = [pipe EXCEPT ![s] = <<>>] /\ rd' = [rd EXCEPT ![s] = Idle]
      /\ coming' = [coming EXCEPT ![s] = <<>>] /\ broken' = broken
  BY DEF Closes, CloseStream
<1> HIDE DEF o
<1>3. /\ up'[s] = FALSE /\ up'[o] = up[o] /\ rd'[s] = Idle /\ rd'[o] = rd[o]
      /\ pipe'[s] = <<>> /\ pipe'[o] = pipe[o] /\ coming'[o] = coming[o]
      /\ out'[s] = <<>> /\ out'[o] = out[o]
  BY <1>1, <1>2 DEF ChannelTypeOK
<1>4. ReadInv(s)' /\ (up[s] => Carried(s))'
  <2>1. rd'[s].header = <<>> /\ Len(rd'[s].buf) + rd'[s].need = HeaderSize /\ rd'[s].need > 0
    BY <1>3 DEF Idle, HeaderSize
  <2>2. QED
    BY <1>3, <2>1 DEF ReadInv
<1>5. ReadInv(o)' /\ (up[o] => Carried(o))'
  BY <1>1, <1>3, SideKept
<1>6. ChannelTypeOK'
  <2>1. /\ <<>> \in Octets /\ <<>> \in Chunks /\ <<>> \in Seq(Octets) /\ Len(<<>>) = 0
        /\ 0 <= 3 /\ 0 <= Room
    <3>1. <<>> \in Octets /\ <<>> \in Seq(Octets) /\ <<>> \in Chunks /\ Len(<<>>) = 0
      BY EmptySeq DEF Chunks, Octets
    <3>2. Room \in Nat
      BY FramingAssumption
    <3>3. QED
      BY <3>1, <3>2
  <2>2. Idle \in [header : Octets, buf : Octets, need : Nat]
    BY <2>1 DEF Idle, HeaderSize
  <2>3. /\ out' \in [Sides -> Chunks] /\ pipe' \in [Sides -> Octets]
        /\ coming' \in [Sides -> Seq(Octets)] /\ up' \in [Sides -> BOOLEAN]
    BY <1>1, <1>2, <2>1 DEF ChannelTypeOK, Chunks, Octets
  <2>4. rd' \in [Sides -> [header : Octets, buf : Octets, need : Nat]]
    BY <1>1, <1>2, <2>2 DEF ChannelTypeOK, Octets
  <2>5. \A t \in Sides : Len(out'[t]) <= 3 /\ Len(pipe'[t]) <= Room
    BY <1>1, <1>3, <2>1, TwoSides DEF ChannelTypeOK, o
  <2>6. QED
    BY <1>1, <1>2, <2>3, <2>4, <2>5 DEF ChannelTypeOK, Chunks, Octets
<1>7. QED
  BY <1>4, <1>5, <1>6, BothSides DEF o

LEMMA ChannelStays ==
  ASSUME ChannelInv, UNCHANGED <<out, pipe, rd, up, coming>>, broken' \in BOOLEAN
  PROVE  ChannelInv'
<1>1. ChannelTypeOK'
  BY DEF ChannelInv, ChannelTypeOK
<1>2. ASSUME NEW s \in Sides PROVE ReadInv(s)' /\ (up[s] => Carried(s))'
  <2>1. ReadInv(s) /\ (up[s] => Carried(s))
    BY DEF ChannelInv
  <2>2. QED
    BY <2>1, SideKept
<1>3. QED
  BY <1>1, <1>2 DEF ChannelInv

LEMMA ChannelStep == ChannelInv /\ [ChannelNext]_framingVars => ChannelInv'
<1> SUFFICES ASSUME ChannelInv, [ChannelNext]_framingVars PROVE ChannelInv'
  OBVIOUS
<1>1. ASSUME NEW s \in Sides, NEW p \in Packets[s], Send(s, p) PROVE ChannelInv'
  BY <1>1, ChannelSends
<1>2. ASSUME NEW s \in Sides, NEW p \in Packets[s], Answer(s, p) PROVE ChannelInv'
  BY <1>2, ChannelAnswers
<1>3. ASSUME NEW s \in Sides, SockSend(s, Amounts) PROVE ChannelInv'
  BY <1>3, ChannelSockSends
<1>4. ASSUME NEW s \in Sides, SockRecv(s, Amounts) PROVE ChannelInv'
  BY <1>4, ChannelSockRecvs
<1>5. ASSUME NEW s \in Sides, Take(s) PROVE ChannelInv'
  BY <1>5, ChannelTakes
<1>6. ASSUME NEW s \in Sides, Closes(s) PROVE ChannelInv'
  BY <1>6, ChannelCloses
<1>7. CASE NetworkBreaks
  <2>1. UNCHANGED <<out, pipe, rd, up, coming>> /\ broken' \in BOOLEAN
    BY <1>7 DEF NetworkBreaks
  <2>2. QED
    BY <2>1, ChannelStays
<1>8. CASE UNCHANGED framingVars
  <2>1. UNCHANGED <<out, pipe, rd, up, coming>> /\ broken' \in BOOLEAN
    BY <1>8 DEF framingVars, ChannelInv, ChannelTypeOK
  <2>2. QED
    BY <2>1, ChannelStays
<1>9. QED
  BY <1>1, <1>2, <1>3, <1>4, <1>5, <1>6, <1>7, <1>8 DEF ChannelNext

(* What the invariant says of packets: a complete read is the first one on *)
(* its way, and no packets are on their way exactly if no bytes are.       *)
LEMMA ChannelInvFrames == ChannelInv => FramesWhole /\ NothingLeftOver
<1> SUFFICES ASSUME ChannelInv PROVE FramesWhole /\ NothingLeftOver
  OBVIOUS
<1>1. FramesWhole
  <2>1. ASSUME NEW s \in Sides, up[s], Complete(s)
        PROVE  coming[s] # <<>> /\ Packet(s) = Head(coming[s])
    BY <2>1, FirstFrame DEF ChannelInv
  <2>2. QED
    BY <2>1 DEF FramesWhole
<1>2. ASSUME NEW s \in Sides, up[s], up[Other(s)]
      PROVE  coming[s] = <<>> <=> out[Other(s)] = <<>> /\ pipe[s] = <<>> /\ rd[s] = Idle
  <2> DEFINE w == out[Other(s)]
             g == Got(s)
             q == pipe[s]
             f == Flat(w)
  <2>1. /\ ChannelTypeOK /\ ReadInv(s) /\ Carried(s) /\ Other(s) \in Sides
    BY <1>2, TwoSides DEF ChannelInv
  <2>2. /\ g \in Octets /\ q \in Octets /\ coming[s] \in Seq(Octets)
        /\ rd[s] \in [header : Octets, buf : Octets, need : Nat]
    BY <2>1, SideTypes
  <2>3. w \in Chunks /\ Len(w) <= 3
    BY <2>1, SideTypes
  <2>4. f \in Octets /\ (f = <<>> <=> w = <<>>)
    <3> HIDE DEF w
    <3>1. QED
      BY <2>3, FlatIs
  <2>5. Stream(g \o (q \o f), coming[s])
    BY <1>2, <2>1, Zenon DEF Carried
  <2>6. g = <<>> <=> rd[s] = Idle
    <3> DEFINE h == rd[s].header
               b == rd[s].buf
               m == rd[s].need
    <3>1. h \in Octets /\ b \in Octets /\ m \in Nat /\ rd[s] = [header |-> h, buf |-> b, need |-> m]
      BY <2>2
    <3>2. ASSUME g = <<>> PROVE rd[s] = Idle
      <4>1. g = h \o b
        BY DEF Got
      <4>2. h \in Seq(Nat) /\ b \in Seq(Nat)
        BY <3>1 DEF Octets
      <4> HIDE DEF g, h, b
      <4>3. h = <<>> /\ b = <<>>
        <5>1. h \o b = <<>>
          BY <3>2, <4>1
        <5>2. h \o b = <<>> <=> h = <<>> /\ b = <<>>
          BY <4>2, ConcatEqualIffEmpty
        <5>3. QED
          BY <5>1, <5>2
      <4>4. m = 5
        BY <2>1, <3>1, <4>3 DEF ReadInv, HeaderSize, h, b
      <4>5. QED
        BY <3>1, <4>3, <4>4 DEF Idle, HeaderSize
    <3>3. ASSUME rd[s] = Idle PROVE g = <<>>
      BY <3>3, CatEmpty DEF Got, Idle
    <3>4. QED
      BY <3>2, <3>3
  <2> HIDE DEF w, g, q, f
  <2>7. coming[s] = <<>> <=> g \o (q \o f) = <<>>
    BY <2>2, <2>5, StreamNone, Zenon
  <2>8. g \o (q \o f) = <<>> <=> g = <<>> /\ q = <<>> /\ f = <<>>
    <3>1. q \o f \in Octets
      BY <2>2, <2>4, CatType, Zenon
    <3>2. q \o f = <<>> <=> q = <<>> /\ f = <<>>
      BY <2>2, <2>4, ConcatEqualIffEmpty DEF Octets
    <3> DEFINE z == q \o f
    <3>3. z \in Octets
      BY <3>1
    <3> HIDE DEF z
    <3>4. g \o z = <<>> <=> g = <<>> /\ z = <<>>
      BY <2>2, <3>3, ConcatEqualIffEmpty DEF Octets
    <3>5. QED
      BY <3>2, <3>4 DEF z
  <2>9. QED
    BY <2>4, <2>6, <2>7, <2>8 DEF w, q
<1>3. NothingLeftOver
  BY <1>2 DEF NothingLeftOver
<1>4. QED
  BY <1>1, <1>3

(* Every reachable state satisfies the invariant: the types, the progress  *)
(* of each read, and the bytes on their way as the frames on their way.    *)
THEOREM ChannelAlwaysInv == ChannelSpec => []ChannelInv
<1>1. FramingInit => ChannelInv
  BY ChannelInit
<1>2. ChannelInv /\ [ChannelNext]_framingVars => ChannelInv'
  BY ChannelStep
<1>3. QED
  BY <1>1, <1>2, PTL DEF ChannelSpec

(* Type correctness: no write is of no bytes, a frame is never more than   *)
(* three writes, and no pipe holds more than the operating system allows.  *)
THEOREM ChannelTypes == ChannelSpec => []ChannelTypeOK
<1>1. ChannelInv => ChannelTypeOK
  BY DEF ChannelInv
<1>2. QED
  BY <1>1, ChannelAlwaysInv, PTL

(* A packet that Channel.recv returns is the first of those that the peer  *)
(* sent and this side has not taken, for every size of packets, threshold, *)
(* chunk and buffer, and every cut of the writes and the reads.            *)
THEOREM ChannelFramesWhole == ChannelSpec => []FramesWhole
<1>1. ChannelInv => FramesWhole
  BY ChannelInvFrames
<1>2. QED
  BY <1>1, ChannelAlwaysInv, PTL

(* While both streams are open, packets are on their way exactly if bytes  *)
(* are: a read leaves nothing over, and waits for nothing nobody writes.   *)
THEOREM ChannelNothingLeftOver == ChannelSpec => []NothingLeftOver
<1>1. ChannelInv => NothingLeftOver
  BY ChannelInvFrames
<1>2. QED
  BY <1>1, ChannelAlwaysInv, PTL

(* The channel keeps its promise, whatever its ends send: the types, whole *)
(* packets in order, and nothing left over.                                *)
THEOREM ChannelPacketsWhole == ChannelSpec => []PacketsWhole
<1>1. ChannelTypeOK /\ FramesWhole /\ NothingLeftOver => PacketsWhole
  BY DEF PacketsWhole
<1>2. QED
  BY <1>1, ChannelTypes, ChannelFramesWhole, ChannelNothingLeftOver, PTL
=============================================================================
