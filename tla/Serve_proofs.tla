---------------------------- MODULE Serve_proofs ----------------------------
(***************************************************************************)
(* Proofs about Serve, for any number of threads and setups: the receive   *)
(* lock is balanced, no thread polls for a reply that has arrived, and a   *)
(* thread asleep will be woken.                                            *)
(***************************************************************************)
EXTENDS Serve, FiniteSetTheorems, TLAPS

-----------------------------------------------------------------------------
(* Stacks of activations, and what the steps make of one.                  *)

LEMMA Replaced ==
  ASSUME NEW q \in Seq(Frame), q # <<>>, NEW f \in Frame
  PROVE  LET r == [q EXCEPT ![Len(q)] = f]
         IN  /\ r \in Seq(Frame) /\ r # <<>> /\ Len(r) = Len(q)
             /\ Len(q) \in Nat /\ Len(q) >= 1
             /\ r[Len(q)] = f
             /\ \A i \in 1..(Len(q) - 1) : r[i] = q[i]
OBVIOUS

LEMMA Pushed ==
  ASSUME NEW q \in Seq(Frame), NEW f \in Frame
  PROVE  LET r == Append(q, f)
         IN  /\ r \in Seq(Frame) /\ r # <<>> /\ Len(r) = Len(q) + 1
             /\ Len(q) \in Nat
             /\ r[Len(q) + 1] = f
             /\ \A i \in 1..Len(q) : r[i] = q[i]
OBVIOUS

(* The activation below the one that is left goes on.                      *)
Resumed(f, raised) ==
  IF f.pc = "handle" THEN AfterHandler(f) ELSE AfterUnbox(f, raised)

LEMMA ResumedType ==
  ASSUME NEW f \in Frame, NEW raised \in BOOLEAN, open \in BOOLEAN
  PROVE  /\ Resumed(f, raised) \in Frame
         /\ Resumed(f, raised).waits = f.waits /\ Resumed(f, raised).data = f.data
         /\ Resumed(f, raised).pc \in {"notify", "callback"}
         /\ Resumed(f, raised).pc = "callback" <=> f.pc # "handle" /\ ~raised
         /\ Resumed(f, raised).pc = "callback" => Resumed(f, raised).raising = f.raising
<1>1. CASE f.pc = "handle"
  BY <1>1 DEF Resumed, AfterHandler, Frame, Labels
<1>2. CASE f.pc # "handle" /\ raised
  BY <1>2 DEF Resumed, AfterUnbox, Frame, Labels
<1>3. CASE f.pc # "handle" /\ ~raised
  BY <1>3 DEF Resumed, AfterUnbox, Frame, Labels
<1>4. QED
  BY <1>1, <1>2, <1>3

LEMMA LeftIs ==
  ASSUME NEW t \in Threads, stack[t] \in Seq(Frame), stack[t] # <<>>,
         NEW raised \in BOOLEAN, open \in BOOLEAN
  PROVE  /\ Left(t, raised) \in Seq(Frame)
         /\ Len(stack[t]) \in Nat /\ Len(stack[t]) >= 1
         /\ Len(Left(t, raised)) = Len(stack[t]) - 1
         /\ \A i \in 1..(Len(stack[t]) - 2) : Left(t, raised)[i] = stack[t][i]
         /\ Len(stack[t]) = 1 => Left(t, raised) = <<>>
         /\ Len(stack[t]) > 1 =>
              /\ Left(t, raised) # <<>>
              /\ Left(t, raised)[Len(stack[t]) - 1]
                   = Resumed(stack[t][Len(stack[t]) - 1], raised)
<1>0. PICK q \in Seq(Frame) : q = stack[t]
  BY SMTT(30)
<1>1. PICK n \in Nat : Len(q) = n + 1
  <2>1. Len(q) - 1 \in Nat /\ Len(q) = (Len(q) - 1) + 1
    BY <1>0
  <2>2. QED
    BY <2>1
<1>2. CASE n = 0
  <2>1. Left(t, raised) = <<>>
    BY <1>0, <1>1, <1>2 DEF Left
  <2>2. QED
    BY <1>0, <1>1, <1>2, <2>1
<1>3. CASE n > 0
  <2>1. q[n] \in Frame
    BY <1>1, <1>3
  <2>2. PICK g \in Frame : g = Resumed(q[n], raised)
    BY <2>1, ResumedType
  <2>3. PICK front : front = SubSeq(q, 1, n - 1)
    OBVIOUS
  <2>4. /\ front \in Seq(Frame) /\ Len(front) = n - 1
        /\ \A i \in 1..(n - 1) : front[i] = q[i]
    BY <1>1, <1>3, <2>3
  <2>5. Left(t, raised) = Append(front, g)
    BY <1>0, <1>1, <1>3, <2>2, <2>3 DEF Left, Resumed
  <2>6. /\ Append(front, g) \in Seq(Frame) /\ Len(Append(front, g)) = n
        /\ Append(front, g)[n] = g /\ Append(front, g) # <<>>
        /\ \A i \in 1..(n - 1) : Append(front, g)[i] = q[i]
    <3>1. n - 1 \in Nat /\ (n - 1) + 1 = n
      BY <1>3
    <3>2. QED
      BY <2>2, <2>4, <3>1, Pushed
  <2>7. QED
    BY <1>0, <1>1, <1>3, <2>2, <2>5, <2>6
<1>4. QED
  BY <1>2, <1>3

-----------------------------------------------------------------------------
(* The invariants.                                                         *)

(* An activation that has the receive lock, once.                          *)
Holds(f) ==
  \/ f.pc \in {"got", "poll", "unbox", "unlock"}
  \/ f.pc = "callback" /\ KeepsLock(f.data)

Once(f) == IF Holds(f) THEN 1 ELSE 0

HoldsOf(q) == {i \in 1..Len(q) : Holds(q[i])}

H(t) == Cardinality(Holding(t))             \* owed by its activations ...
D(t) == IF holder = t THEN depth ELSE 0     \* ... and acquired

(* What an activation carries, where the stream is open or not.            *)
FrameOK(f, o) ==
  /\ f.pc \in {"unbox", "unlock"} => f.data \in Message /\ f.data.kind = "reply"
  /\ f.pc = "callback" => f.data \in Message /\ f.data.kind \in {"reply", "exception"}
  /\ f.raising => f.pc = "notify"
  /\ f.pc = "send" => f.waits \in Seqs
  /\ f.pc = "eof" => ~o

(* All activations but the innermost are in a handler or unbox a reply,    *)
(* and the one above waits for the request made there.                     *)
Tidy(q, o) ==
  \A i \in 1..Len(q) :
    /\ FrameOK(q[i], o)
    /\ i < Len(q) => q[i].pc \in {"handle", "unbox"}
    /\ i > 1 => q[i].waits \in Seqs
    /\ i > 1 /\ q[i - 1].pc = "unbox" => q[i].waits > MaxCalls

Stacks == \A t \in Threads : Tidy(stack[t], open)

(* If two stacks differ in one place, so do the locks they owe.            *)
LEMMA HoldsOfFinite ==
  ASSUME NEW q \in Seq(Frame)
  PROVE  IsFiniteSet(HoldsOf(q)) /\ Cardinality(HoldsOf(q)) \in Nat
<1>1. Len(q) \in Nat
  OBVIOUS
<1>2. IsFiniteSet(1..Len(q))
  BY <1>1, FS_Interval
<1>3. HoldsOf(q) \subseteq 1..Len(q)
  BY DEF HoldsOf
<1>4. IsFiniteSet(HoldsOf(q))
  BY <1>2, <1>3, FS_Subset
<1>5. QED
  BY <1>4, FS_CardinalityType

LEMMA HeldDiffers ==
  ASSUME NEW q \in Seq(Frame), NEW r \in Seq(Frame), NEW k,
         HoldsOf(q) \ {k} = HoldsOf(r) \ {k}
  PROVE  Cardinality(HoldsOf(r)) + (IF k \in HoldsOf(q) THEN 1 ELSE 0)
           = Cardinality(HoldsOf(q)) + (IF k \in HoldsOf(r) THEN 1 ELSE 0)
<1> DEFINE S == HoldsOf(q) \ {k}
<1>1. IsFiniteSet(HoldsOf(q)) /\ Cardinality(HoldsOf(q)) \in Nat
  BY HoldsOfFinite
<1>2. IsFiniteSet(HoldsOf(r)) /\ Cardinality(HoldsOf(r)) \in Nat
  BY HoldsOfFinite
<1>3. k \in HoldsOf(q) => Cardinality(S) = Cardinality(HoldsOf(q)) - 1
  BY <1>1, FS_RemoveElement
<1>4. k \in HoldsOf(r) => Cardinality(S) = Cardinality(HoldsOf(r)) - 1
  BY <1>2, FS_RemoveElement
<1>5. k \notin HoldsOf(q) => S = HoldsOf(q)
  OBVIOUS
<1>6. k \notin HoldsOf(r) => S = HoldsOf(r)
  OBVIOUS
<1> HIDE DEF S
<1>7. QED
  BY <1>1, <1>2, <1>3, <1>4, <1>5, <1>6

(* The innermost activation is replaced by another.                        *)
LEMMA SwapTidy ==
  ASSUME NEW q \in Seq(Frame), NEW r \in Seq(Frame), q # <<>>, Len(r) = Len(q),
         NEW o \in BOOLEAN, NEW p \in BOOLEAN, p => o, Tidy(q, o),
         \A i \in 1..(Len(q) - 1) : r[i] = q[i],
         r[Len(q)].waits = q[Len(q)].waits, FrameOK(r[Len(q)], p)
  PROVE  Tidy(r, p)
<1>1. Len(q) \in Nat /\ Len(q) >= 1
  OBVIOUS
<1>2. SUFFICES ASSUME NEW i \in 1..Len(q)
               PROVE  /\ FrameOK(r[i], p)
                      /\ i < Len(q) => r[i].pc \in {"handle", "unbox"}
                      /\ i > 1 => r[i].waits \in Seqs
                      /\ i > 1 /\ r[i - 1].pc = "unbox" => r[i].waits > MaxCalls
  BY DEF Tidy
<1>3. i \in Nat /\ i >= 1 /\ i <= Len(q) /\ (i < Len(q) => r[i] = q[i])
  BY <1>1
<1>4. r[i].waits = q[i].waits
  BY <1>1, <1>3
<1>5. i > 1 => i - 1 \in 1..(Len(q) - 1) /\ r[i - 1] = q[i - 1]
  BY <1>1, <1>3
<1>6. FrameOK(q[i], o) => FrameOK(q[i], p)
  BY DEF FrameOK
<1>7. FrameOK(r[i], p)
  BY <1>1, <1>3, <1>6 DEF Tidy
<1>8. QED
  BY <1>3, <1>4, <1>5, <1>7 DEF Tidy

LEMMA SwapCount ==
  ASSUME NEW q \in Seq(Frame), NEW r \in Seq(Frame), q # <<>>, Len(r) = Len(q),
         \A i \in 1..(Len(q) - 1) : r[i] = q[i]
  PROVE  Cardinality(HoldsOf(r)) + Once(q[Len(q)]) = Cardinality(HoldsOf(q)) + Once(r[Len(q)])
<1> DEFINE n == Len(q)
<1>1. n \in Nat /\ n >= 1 /\ n \in 1..n
  OBVIOUS
<1>2. \A i \in 1..n : i = n \/ r[i] = q[i]
  BY <1>1
<1>3. HoldsOf(q) \ {n} = HoldsOf(r) \ {n}
  BY <1>2 DEF HoldsOf
<1>4. Cardinality(HoldsOf(r)) + (IF n \in HoldsOf(q) THEN 1 ELSE 0)
        = Cardinality(HoldsOf(q)) + (IF n \in HoldsOf(r) THEN 1 ELSE 0)
  BY <1>3, HeldDiffers
<1>5. (n \in HoldsOf(q) <=> Holds(q[n])) /\ (n \in HoldsOf(r) <=> Holds(r[n]))
  BY <1>1 DEF HoldsOf
<1>6. QED
  BY <1>4, <1>5 DEF Once

(* A new request is on top.                                                *)
LEMMA PushTidy ==
  ASSUME NEW q \in Seq(Frame), NEW r \in Seq(Frame), Len(r) = Len(q) + 1,
         NEW o \in BOOLEAN, Tidy(q, o), NEW s \in Seqs,
         \A i \in 1..Len(q) : r[i] = q[i],
         r[Len(q) + 1] = NewFrame(s, "send"),
         q # <<>> => q[Len(q)].pc \in {"handle", "unbox"},
         q # <<>> /\ q[Len(q)].pc = "unbox" => s > MaxCalls
  PROVE  Tidy(r, o) /\ HoldsOf(r) = HoldsOf(q)
<1>1. Len(q) \in Nat /\ (Len(q) >= 1 => q # <<>>)
  OBVIOUS
<1>2. /\ FrameOK(NewFrame(s, "send"), o) /\ ~Holds(NewFrame(s, "send"))
      /\ NewFrame(s, "send").waits = s
  BY DEF FrameOK, NewFrame, Holds
<1>3. Tidy(r, o)
  <2>1. SUFFICES ASSUME NEW i \in 1..(Len(q) + 1)
                 PROVE  /\ FrameOK(r[i], o)
                        /\ i < Len(q) + 1 => r[i].pc \in {"handle", "unbox"}
                        /\ i > 1 => r[i].waits \in Seqs
                        /\ i > 1 /\ r[i - 1].pc = "unbox" => r[i].waits > MaxCalls
    BY DEF Tidy
  <2>2. i \in Nat /\ i >= 1 /\ i <= Len(q) + 1 /\ (i > 1 => i - 1 \in 1..Len(q))
    BY <1>1
  <2>3. CASE i = Len(q) + 1
    <3>1. r[i] = NewFrame(s, "send")
      BY <2>3
    <3>2. i > 1 => r[i - 1] = q[Len(q)] /\ q # <<>>
      BY <1>1, <2>2, <2>3
    <3>3. QED
      BY <1>2, <2>3, <3>1, <3>2
  <2>4. CASE i # Len(q) + 1
    <3>1. i \in 1..Len(q) /\ r[i] = q[i] /\ (i > 1 => r[i - 1] = q[i - 1])
      BY <1>1, <2>2, <2>4
    <3>2. i = Len(q) => q # <<>>
      BY <1>1, <2>2
    <3>3. QED
      BY <1>1, <3>1, <3>2 DEF Tidy
  <2>5. QED
    BY <2>3, <2>4
<1>4. \A i \in 1..(Len(q) + 1) : i = Len(q) + 1 \/ (i \in 1..Len(q) /\ r[i] = q[i])
  BY <1>1
<1>5. 1..Len(q) \subseteq 1..(Len(q) + 1)
  BY <1>1
<1>6. HoldsOf(r) = HoldsOf(q)
  BY <1>2, <1>4, <1>5 DEF HoldsOf
<1>7. QED
  BY <1>3, <1>6

(* The innermost activation is left, and the one below goes on.  If it was *)
(* unboxing a reply and an exception passes, nobody releases its lock.     *)
Skipped(q, raised) == Len(q) > 1 /\ q[Len(q) - 1].pc = "unbox" /\ raised

LEMMA PopTidy ==
  ASSUME NEW q \in Seq(Frame), NEW r \in Seq(Frame), NEW raised \in BOOLEAN, open \in BOOLEAN,
         q # <<>>, Len(r) = Len(q) - 1, Tidy(q, open), ~Holds(q[Len(q)]),
         \A i \in 1..(Len(q) - 2) : r[i] = q[i],
         Len(q) > 1 => r[Len(q) - 1] = Resumed(q[Len(q) - 1], raised)
  PROVE  /\ Tidy(r, open)
         /\ Cardinality(HoldsOf(r)) + (IF Skipped(q, raised) THEN 1 ELSE 0)
              = Cardinality(HoldsOf(q))
<1>1. Len(q) \in Nat /\ Len(q) >= 1 /\ Len(r) \in Nat
  OBVIOUS
<1> DEFINE n == Len(q) - 1
<1>2. n \in Nat /\ Len(q) = n + 1 /\ Len(r) = n
  BY <1>1
<1>3. \A i \in 1..n : i = n \/ (i \in 1..(Len(q) - 2) /\ r[i] = q[i])
  BY <1>1
<1>4. n > 0 => /\ n \in 1..n /\ n \in 1..Len(q) /\ n < Len(q)
               /\ q[n] \in Frame /\ r[n] = Resumed(q[n], raised)
               /\ q[n].pc \in {"handle", "unbox"} /\ FrameOK(q[n], open)
  BY <1>1 DEF Tidy
<1>5. n > 0 => /\ r[n].waits = q[n].waits /\ r[n].data = q[n].data
               /\ r[n].pc \in {"notify", "callback"}
               /\ r[n].pc = "callback" => r[n].raising = q[n].raising
               /\ r[n].pc = "callback" <=> q[n].pc = "unbox" /\ ~raised
  <2>1. CASE n > 0
    <3>1. q[n] \in Frame /\ r[n] = Resumed(q[n], raised) /\ q[n].pc \in {"handle", "unbox"}
      BY <1>4, <2>1
    <3>2. QED
      BY <3>1, ResumedType
  <2>2. QED
    BY <1>2, <2>1
<1>6. n > 0 => FrameOK(r[n], open)
  BY <1>4, <1>5 DEF FrameOK
<1>7. n > 0 => (Holds(q[n]) <=> q[n].pc = "unbox")
  BY <1>4 DEF Holds
<1>8. n > 0 => (Holds(r[n]) <=> q[n].pc = "unbox" /\ ~raised)
  BY <1>4, <1>5 DEF Holds, KeepsLock, FrameOK
<1>9. Tidy(r, open)
  <2>1. SUFFICES ASSUME NEW i \in 1..n
                 PROVE  /\ FrameOK(r[i], open)
                        /\ i < n => r[i].pc \in {"handle", "unbox"}
                        /\ i > 1 => r[i].waits \in Seqs
                        /\ i > 1 /\ r[i - 1].pc = "unbox" => r[i].waits > MaxCalls
    BY <1>2 DEF Tidy
  <2>2. i \in Nat /\ i >= 1 /\ i <= n /\ i \in 1..Len(q) /\ i < Len(q) /\ n > 0
    BY <1>2
  <2>3. i > 1 => i - 1 \in 1..(Len(q) - 2) /\ r[i - 1] = q[i - 1]
    BY <1>2, <2>2
  <2>4. r[i].waits = q[i].waits /\ FrameOK(r[i], open) /\ (i < n => r[i] = q[i])
    BY <1>3, <1>5, <1>6, <2>2 DEF Tidy
  <2>5. QED
    BY <2>2, <2>3, <2>4 DEF Tidy
<1>10. CASE n = 0
  <2>1. \A i \in 1..Len(q) : i = Len(q)
    BY <1>2, <1>10
  <2>2. \A i \in 1..Len(r) : FALSE
    BY <1>2, <1>10
  <2>3. HoldsOf(q) = HoldsOf(r)
    BY <2>1, <2>2 DEF HoldsOf
  <2>4. ~Skipped(q, raised)
    BY <1>2, <1>10 DEF Skipped
  <2>5. QED
    BY <1>9, <2>3, <2>4, HoldsOfFinite
<1>11. CASE n > 0
  <2>1. \A i \in 1..Len(q) : i = Len(q) \/ i = n \/ (i \in 1..n /\ r[i] = q[i])
    BY <1>2, <1>3
  <2>2. 1..n \subseteq 1..Len(q) /\ ~Holds(q[Len(q)])
    BY <1>2
  <2>3. HoldsOf(q) \ {n} = HoldsOf(r) \ {n}
    BY <1>2, <1>3, <2>1, <2>2 DEF HoldsOf
  <2>4. Cardinality(HoldsOf(r)) + (IF n \in HoldsOf(q) THEN 1 ELSE 0)
          = Cardinality(HoldsOf(q)) + (IF n \in HoldsOf(r) THEN 1 ELSE 0)
    BY <2>3, HeldDiffers
  <2>5. (n \in HoldsOf(q) <=> q[n].pc = "unbox")
        /\ (n \in HoldsOf(r) <=> q[n].pc = "unbox" /\ ~raised)
    BY <1>2, <1>4, <1>7, <1>8, <1>11 DEF HoldsOf
  <2>6. Skipped(q, raised) <=> q[n].pc = "unbox" /\ raised
    BY <1>2, <1>11 DEF Skipped
  <2>7. QED
    BY <1>9, <2>4, <2>5, <2>6, HoldsOfFinite
<1>12. QED
  BY <1>2, <1>10, <1>11

-----------------------------------------------------------------------------
(* At one of these labels a thread waits for the receive lock.             *)
Waits == {"check", "sleep", "asleep"}

(* A thread that will not release the receive lock any more: it is idle,   *)
(* or about to pass an exception on.                                       *)
Doomed(t) ==
  \/ stack[t] = <<>>
  \/ At(t, {"send"})
  \/ At(t, {"notify"}) /\ Top(t).raising

(* A thread owns at least the locks it owes, but for what _cleanup         *)
(* released in its place.                                                  *)
LockInv ==
  /\ holder = None <=> depth = 0
  /\ closed => ~open
  /\ \A t \in Threads : H(t) <= D(t) \/ (closed /\ Doomed(t))

(* Between the end of the stream and close, a thread that unboxes a reply  *)
(* is the one that has seen the end.                                       *)
Severed ==
  ~open /\ ~closed =>
    \A t \in Threads : \A i \in 1..Len(stack[t]) :
      stack[t][i].pc = "unbox" => At(t, {"eof"})

(* Exceptions leave serve only when the stream has ended or a              *)
(* HANDLE_INSPECT has failed.                                              *)
Raising ==
  \A t \in Threads : \A i \in 1..Len(stack[t]) :
    stack[t][i].raising => ~open \/ InspectFailed

Balanced == ~closed /\ ~InspectFailed => \A t \in Threads : H(t) = D(t)

(* A sequence number is used once: what has a result has no callback.      *)
Used(s) == IF s <= MaxCalls THEN s < nextSeq ELSE s < nextInspect

Numbered ==
  \A s \in Seqs : /\ s \in callbacks => Used(s)
                  /\ result[s] # "none" => Used(s) /\ s \notin callbacks

(* A thread that waits for the lock does not own it, and one at a time is  *)
(* between its failed acquire and its wait.                                *)
Outside == \A t \in Threads : At(t, Waits) => holder # t

OneChecks ==
  \A t, u \in Threads : At(t, {"check", "sleep"}) /\ At(u, {"check", "sleep"}) => t = u

(* The lock is free: whoever waits will be notified.                       *)
Notifies(u) ==
  ~At(u, Waits) /\ \E i \in 1..Len(stack[u]) : stack[u][i].pc \in WillNotify

Wakeful ==
  holder = None /\ (\E t \in Threads : At(t, Waits)) => \E u \in Threads : Notifies(u)

IInv ==
  /\ TypeOK /\ Stacks /\ LockInv /\ Severed /\ Raising /\ Balanced
  /\ Numbered /\ Outside /\ OneChecks /\ Wakeful /\ NoPollForReadyResult

-----------------------------------------------------------------------------
(* The kinds of step.  In all of them a thread changes its own stack, and  *)
(* may wake others.                                                        *)
Alike(q, r) ==
  /\ Len(r) = Len(q)
  /\ \A i \in 1..Len(q) :
       \/ r[i] = q[i]
       \/ /\ i = Len(q) /\ q[i].pc = "asleep" /\ r[i].pc = "woken"
          /\ r[i].waits = q[i].waits /\ r[i].data = q[i].data /\ r[i].raising = q[i].raising

Quiet(t) ==
  /\ stack' \in [Threads -> Seq(Frame)]
  /\ \A u \in Threads \ {t} : Alike(stack[u], stack'[u])

AllAwake == \A u \in Threads : ~(stack'[u] # <<>> /\ stack'[u][Len(stack'[u])].pc \in Waits)

(* f takes the place of the innermost activation.                          *)
Exchanged(t, f) ==
  /\ stack[t] # <<>> /\ f \in Frame
  /\ stack'[t] \in Seq(Frame) /\ Len(stack'[t]) = Len(stack[t])
  /\ stack'[t][Len(stack[t])] = f
  /\ \A i \in 1..(Len(stack[t]) - 1) : stack'[t][i] = stack[t][i]
  /\ f.waits = Top(t).waits /\ FrameOK(f, open')

Keeps(t, f) == UNCHANGED lockVars /\ (Holds(f) <=> Holds(Top(t)))
Takes(t, f) == MayAcquire(t) /\ Acquire(t) /\ Holds(f) /\ ~Holds(Top(t))
Frees(t, f) == Unlock(t) /\ Holds(Top(t)) /\ ~Holds(f) /\ f.pc \in WillNotify

Swaps(t, f) ==
  /\ Quiet(t) /\ Exchanged(t, f)
  /\ Keeps(t, f) \/ Takes(t, f) \/ Frees(t, f)
  /\ closed' = closed
  /\ open' = open \/ (open' = FALSE /\ f.pc = "eof" /\ Holds(Top(t)))
  /\ Top(t).pc # "eof" /\ ~Top(t).raising
  /\ Top(t).pc = "send" => open
  /\ f.pc = "unbox" => open
  /\ f.raising => ~open'
  /\ f.pc \in {"check", "sleep"} => Top(t).pc = "check" \/ CondFree
  /\ f.pc \in Waits => Top(t).pc \in Waits \/ ~MayAcquire(t)
  /\ Top(t).pc \in WillNotify => f.pc \in WillNotify \/ AllAwake
  /\ f.pc = "poll" /\ f.waits # None => result'[f.waits] = "none"
  /\ \A s \in Seqs : result'[s] = "reply" => result[s] = "reply" \/ Holds(Top(t))

Closes(t, f) ==
  /\ Quiet(t) /\ Exchanged(t, f)
  /\ Top(t).pc = "eof" /\ f.pc = "notify" /\ f.raising
  /\ closed' = TRUE /\ open' = open
  /\ IF ~closed /\ holder = t THEN Unlock(t) ELSE UNCHANGED lockVars
  /\ result' = result

Pushes(t, s) ==
  /\ Quiet(t)
  /\ s \in Seqs
  /\ stack[t] = <<>> \/ Top(t).pc \in {"handle", "unbox"}
  /\ stack[t] # <<>> /\ Top(t).pc = "unbox" => s > MaxCalls
  /\ stack'[t] = Append(stack[t], NewFrame(s, "send"))
  /\ UNCHANGED <<lockVars, open, closed, result>>

Pops(t, raised) ==
  /\ Quiet(t)
  /\ raised \in BOOLEAN
  /\ At(t, Heads \cup {"send", "notify"})
  /\ Doomed(t) /\ closed => raised
  /\ Skipped(stack[t], raised) => ~open \/ InspectFailed
  /\ Top(t).pc = "notify" => AllAwake
  /\ stack'[t] = Left(t, raised)
  /\ UNCHANGED <<lockVars, open, closed, result>>

Stays == UNCHANGED <<stack, lockVars, open, closed, result>>

Move(t) ==
  \/ \E f \in Frame : Swaps(t, f)
  \/ \E f \in Frame : Closes(t, f)
  \/ \E s \in Seqs : Pushes(t, s)
  \/ \E raised \in BOOLEAN : Pops(t, raised)

-----------------------------------------------------------------------------
(* Every step is of one of these kinds.                                    *)
LEMMA TopIs ==
  ASSUME TypeOK, Stacks, NEW t \in Threads, stack[t] # <<>>
  PROVE  /\ Top(t) \in Frame /\ FrameOK(Top(t), open)
         /\ stack[t] \in Seq(Frame) /\ Len(stack[t]) \in Nat /\ Len(stack[t]) >= 1
<1>1. stack[t] \in Seq(Frame)
  BY DEF TypeOK
<1>2. Len(stack[t]) \in Nat /\ Len(stack[t]) >= 1 /\ Top(t) \in Frame
  BY <1>1 DEF Top
<1>3. Len(stack[t]) \in 1..Len(stack[t])
  BY <1>2
<1>4. QED
  BY <1>1, <1>2, <1>3 DEF Stacks, Tidy, Top

LEMMA AlikeSame ==
  ASSUME NEW q \in Seq(Frame)
  PROVE  Alike(q, q)
BY DEF Alike

LEMMA OneStack ==
  ASSUME TypeOK, NEW t \in Threads, NEW r \in Seq(Frame), stack' = [stack EXCEPT ![t] = r]
  PROVE  Quiet(t) /\ stack'[t] = r
<1>1. stack \in [Threads -> Seq(Frame)]
  BY DEF TypeOK
<1>2. stack' \in [Threads -> Seq(Frame)] /\ stack'[t] = r
      /\ \A u \in Threads \ {t} : stack'[u] = stack[u]
  BY <1>1
<1>3. \A u \in Threads : stack[u] \in Seq(Frame)
  BY <1>1
<1>4. QED
  BY <1>2, <1>3, AlikeSame DEF Quiet

LEMMA BecomeIs ==
  ASSUME TypeOK, NEW t \in Threads, stack[t] # <<>>, NEW f \in Frame, Become(t, f),
         f.waits = Top(t).waits, FrameOK(f, open')
  PROVE  Quiet(t) /\ Exchanged(t, f)
<1>1. stack \in [Threads -> Seq(Frame)] /\ stack[t] \in Seq(Frame)
  BY DEF TypeOK
<1>2. PICK r : r = [stack[t] EXCEPT ![Len(stack[t])] = f]
  OBVIOUS
<1>3. stack' = [stack EXCEPT ![t] = r]
  BY <1>1, <1>2 DEF Become
<1>4. /\ r \in Seq(Frame) /\ Len(r) = Len(stack[t]) /\ r[Len(stack[t])] = f
      /\ \A i \in 1..(Len(stack[t]) - 1) : r[i] = stack[t][i]
  BY <1>1, <1>2, Replaced
<1>5. Quiet(t) /\ stack'[t] = r
  BY <1>3, <1>4, OneStack
<1>6. QED
  BY <1>4, <1>5 DEF Exchanged

LEMMA GotoIs ==
  ASSUME TypeOK, Stacks, NEW t \in Threads, stack[t] # <<>>, NEW pc \in Labels, Goto(t, pc)
  PROVE  \E f \in Frame : /\ Become(t, f) /\ f.waits = Top(t).waits /\ f.data = Top(t).data
                          /\ f.raising = Top(t).raising /\ f.pc = pc
<1>1. Top(t) \in Frame
  BY TopIs
<1>2. PICK f : f = [Top(t) EXCEPT !.pc = pc]
  OBVIOUS
<1>3. /\ f \in Frame /\ f.waits = Top(t).waits /\ f.data = Top(t).data
      /\ f.raising = Top(t).raising /\ f.pc = pc
  BY <1>1, <1>2 DEF Frame
<1>4. Become(t, f)
  BY <1>2 DEF Goto
<1>5. QED
  BY <1>3, <1>4

(* Labels of a thread that has not got the lock and answers nobody.        *)
Idle == Heads \cup {"enter", "check", "sleep", "asleep", "woken"}

LEMMA Strolls ==
  ASSUME TypeOK, Stacks, NEW t \in Threads, stack[t] # <<>>, NEW f \in Frame,
         Become(t, f), f.waits = Top(t).waits, f.raising = Top(t).raising,
         Top(t).pc \in Idle, f.pc \in Idle,
         f.pc \in {"check", "sleep"} => Top(t).pc = "check" \/ CondFree,
         f.pc \in Waits => Top(t).pc \in Waits \/ ~MayAcquire(t),
         UNCHANGED <<lockVars, open, closed, result>>
  PROVE  Move(t)
<1>1. Top(t) \in Frame /\ FrameOK(Top(t), open)
  BY TopIs
<1>2. ~Top(t).raising /\ ~f.raising
  BY <1>1 DEF FrameOK, Idle, Heads, Frame
<1>3. FrameOK(f, open')
  BY <1>2 DEF FrameOK, Idle, Heads
<1>4. Quiet(t) /\ Exchanged(t, f)
  BY <1>3, BecomeIs
<1>5. ~Holds(f) /\ ~Holds(Top(t))
  BY DEF Holds, Idle, Heads
<1>6. /\ Top(t).pc \notin WillNotify \cup {"send", "eof"}
      /\ f.pc \notin {"unbox", "poll", "eof"}
  BY DEF Idle, Heads, WillNotify
<1>7. Swaps(t, f)
  BY <1>2, <1>4, <1>5, <1>6 DEF Swaps, Keeps
<1>8. QED
  BY <1>7 DEF Move

LEMMA WalksMove ==
  ASSUME TypeOK, Stacks, NEW t \in Threads,
         CheckWaiting(t) \/ CondWait(t) \/ Wake(t) \/ WakeTimeout(t)
  PROVE  Move(t)
<1>1. CASE CheckWaiting(t)
  <2>1. stack[t] # <<>> /\ Top(t).pc = "check"
    BY <1>1 DEF CheckWaiting, At
  <2>2. PICK pc \in {"sleep", "false"} : Goto(t, pc)
    BY <1>1 DEF CheckWaiting
  <2>3. pc \in Labels
    BY DEF Labels, Heads
  <2>4. PICK f \in Frame : Become(t, f) /\ f.waits = Top(t).waits /\ f.raising = Top(t).raising
                           /\ f.pc = pc
    BY <2>1, <2>2, <2>3, GotoIs
  <2>5. UNCHANGED <<lockVars, open, closed, result>>
    BY <1>1 DEF CheckWaiting, connVars
  <2>6. QED
    BY <2>1, <2>4, <2>5, Strolls DEF Idle, Heads, Waits
<1>2. CASE CondWait(t)
  <2>1. stack[t] # <<>> /\ Top(t).pc = "sleep"
    BY <1>2 DEF CondWait, At
  <2>2. "asleep" \in Labels /\ Goto(t, "asleep")
    BY <1>2 DEF Labels, CondWait
  <2>3. PICK f \in Frame : Become(t, f) /\ f.waits = Top(t).waits /\ f.raising = Top(t).raising
                           /\ f.pc = "asleep"
    BY <2>1, <2>2, GotoIs
  <2>4. UNCHANGED <<lockVars, open, closed, result>>
    BY <1>2 DEF CondWait, connVars
  <2>5. QED
    BY <2>1, <2>3, <2>4, Strolls DEF Idle, Heads, Waits
<1>3. CASE Wake(t)
  <2>1. stack[t] # <<>> /\ Top(t).pc = "woken"
    BY <1>3 DEF Wake, At
  <2>2. "true" \in Labels /\ Goto(t, "true")
    BY <1>3 DEF Labels, Heads, Wake
  <2>3. PICK f \in Frame : Become(t, f) /\ f.waits = Top(t).waits /\ f.raising = Top(t).raising
                           /\ f.pc = "true"
    BY <2>1, <2>2, GotoIs
  <2>4. UNCHANGED <<lockVars, open, closed, result>>
    BY <1>3 DEF Wake, connVars
  <2>5. QED
    BY <2>1, <2>3, <2>4, Strolls DEF Idle, Heads, Waits
<1>4. CASE WakeTimeout(t)
  <2>1. stack[t] # <<>> /\ Top(t).pc = "asleep"
    BY <1>4 DEF WakeTimeout, At
  <2>2. "false" \in Labels /\ Goto(t, "false")
    BY <1>4 DEF Labels, Heads, WakeTimeout
  <2>3. PICK f \in Frame : Become(t, f) /\ f.waits = Top(t).waits /\ f.raising = Top(t).raising
                           /\ f.pc = "false"
    BY <2>1, <2>2, GotoIs
  <2>4. UNCHANGED <<lockVars, open, closed, result>>
    BY <1>4 DEF WakeTimeout, connVars
  <2>5. QED
    BY <2>1, <2>3, <2>4, Strolls DEF Idle, Heads, Waits
<1>5. QED
  BY <1>1, <1>2, <1>3, <1>4

LEMMA ServeMoves ==
  ASSUME TypeOK, Stacks, NEW t \in Threads, CallServe(t) \/ ServeEnter(t)
  PROVE  Move(t)
<1>1. CASE CallServe(t)
  <2>1. stack[t] # <<>> /\ Top(t).pc \in Heads
    BY <1>1 DEF CallServe, At
  <2>2. Top(t) \in Frame
    BY <2>1, TopIs
  <2>3. PICK f : f = [Top(t) EXCEPT !.data = None, !.pc = "enter"]
    OBVIOUS
  <2>4. f \in Frame /\ f.waits = Top(t).waits /\ f.raising = Top(t).raising /\ f.pc = "enter"
    BY <2>2, <2>3 DEF Frame, Labels
  <2>5. Become(t, f)
    BY <1>1, <2>3 DEF CallServe
  <2>6. UNCHANGED <<lockVars, open, closed, result>>
    BY <1>1 DEF CallServe, connVars
  <2>7. QED
    BY <2>1, <2>4, <2>5, <2>6, Strolls DEF Idle, Waits
<1>2. CASE ServeEnter(t)
  <2>1. stack[t] # <<>> /\ Top(t).pc = "enter" /\ CondFree
    BY <1>2 DEF ServeEnter, At
  <2>2. UNCHANGED <<open, closed, result>>
    BY <1>2 DEF ServeEnter, connVars
  <2>3. CASE MayAcquire(t)
    <3>1. "got" \in Labels /\ Goto(t, "got") /\ Acquire(t)
      BY <1>2, <2>3 DEF Labels, ServeEnter
    <3>2. PICK f \in Frame : Become(t, f) /\ f.waits = Top(t).waits
                             /\ f.raising = Top(t).raising /\ f.pc = "got"
      BY <2>1, <3>1, GotoIs
    <3>3. Top(t) \in Frame /\ FrameOK(Top(t), open)
      BY <2>1, TopIs
    <3>4. ~Top(t).raising /\ ~f.raising
      BY <2>1, <3>2, <3>3 DEF FrameOK, Frame
    <3>5. FrameOK(f, open')
      BY <3>2, <3>4 DEF FrameOK
    <3>6. Quiet(t) /\ Exchanged(t, f)
      BY <2>1, <3>2, <3>5, BecomeIs
    <3>7. Holds(f) /\ ~Holds(Top(t))
      BY <2>1, <3>2 DEF Holds
    <3>8. Swaps(t, f)
      BY <2>1, <2>2, <2>3, <3>1, <3>2, <3>4, <3>6, <3>7 DEF Swaps, Takes, WillNotify, Waits
    <3>9. QED
      BY <3>8 DEF Move
  <2>4. CASE ~MayAcquire(t)
    <3>1. "check" \in Labels /\ Goto(t, "check") /\ UNCHANGED lockVars
      BY <1>2, <2>4 DEF Labels, ServeEnter
    <3>2. PICK f \in Frame : Become(t, f) /\ f.waits = Top(t).waits
                             /\ f.raising = Top(t).raising /\ f.pc = "check"
      BY <2>1, <3>1, GotoIs
    <3>3. QED
      BY <2>1, <2>2, <2>4, <3>1, <3>2, Strolls DEF Idle, Waits
  <2>5. QED
    BY <2>3, <2>4
<1>3. QED
  BY <1>1, <1>2

LEMMA RecheckMoves ==
  ASSUME TypeOK, Stacks, NEW t \in Threads, Recheck(t)
  PROVE  Move(t)
<1>1. stack[t] # <<>> /\ Top(t).pc = "got"
  BY DEF Recheck, At
<1>2. UNCHANGED <<open, closed, result>>
  BY DEF Recheck, connVars
<1>3. Top(t) \in Frame /\ FrameOK(Top(t), open)
  BY <1>1, TopIs
<1>4. ~Top(t).raising
  BY <1>1, <1>3 DEF FrameOK
<1>5. CASE Waiting(t)
  <2>1. "poll" \in Labels /\ Goto(t, "poll") /\ UNCHANGED lockVars
    BY <1>5 DEF Labels, Recheck, AfterAcquire, GiveUpLock
  <2>2. PICK f \in Frame : Become(t, f) /\ f.waits = Top(t).waits
                           /\ f.raising = Top(t).raising /\ f.pc = "poll"
    BY <1>1, <2>1, GotoIs
  <2>3. FrameOK(f, open')
    BY <1>4, <2>2 DEF FrameOK
  <2>4. Quiet(t) /\ Exchanged(t, f)
    BY <1>1, <2>2, <2>3, BecomeIs
  <2>5. Holds(f) /\ Holds(Top(t))
    BY <1>1, <2>2 DEF Holds
  <2>6. f.waits # None => result'[f.waits] = "none"
    BY <1>2, <1>5, <2>2 DEF Waiting, Ready
  <2>7. Swaps(t, f)
    BY <1>1, <1>2, <1>4, <2>1, <2>2, <2>4, <2>5, <2>6 DEF Swaps, Keeps, WillNotify, Waits
  <2>8. QED
    BY <2>7 DEF Move
<1>6. CASE ~Waiting(t)
  <2>1. "unlucky" \in Labels /\ Goto(t, "unlucky") /\ Unlock(t)
    BY <1>6 DEF Labels, Recheck, AfterAcquire, GiveUpLock
  <2>2. PICK f \in Frame : Become(t, f) /\ f.waits = Top(t).waits
                           /\ f.raising = Top(t).raising /\ f.pc = "unlucky"
    BY <1>1, <2>1, GotoIs
  <2>3. FrameOK(f, open')
    BY <1>4, <2>2 DEF FrameOK
  <2>4. Quiet(t) /\ Exchanged(t, f)
    BY <1>1, <2>2, <2>3, BecomeIs
  <2>5. ~Holds(f) /\ Holds(Top(t))
    BY <1>1, <2>2 DEF Holds
  <2>6. Swaps(t, f)
    BY <1>1, <1>2, <1>4, <2>1, <2>2, <2>4, <2>5 DEF Swaps, Frees, WillNotify, Waits
  <2>7. QED
    BY <2>6 DEF Move
<1>7. QED
  BY <1>5, <1>6

(* A message is received: the thread has the lock, and keeps it for a      *)
(* reply.                                                                  *)
LEMMA ReceiveMoves ==
  ASSUME TypeOK, Stacks, NEW t \in Threads, Receive(t)
  PROVE  Move(t)
<1>1. stack[t] # <<>> /\ Top(t).pc = "poll" /\ open /\ inbox # <<>>
  BY DEF Receive, At
<1>2. UNCHANGED <<open, closed, result>>
  BY DEF Receive, connVars
<1>3. Top(t) \in Frame /\ FrameOK(Top(t), open)
  BY <1>1, TopIs
<1>4. ~Top(t).raising
  BY <1>1, <1>3 DEF FrameOK
<1>5. PICK m \in Message : m = Head(inbox)
  BY <1>1 DEF TypeOK
<1>6. m.kind \in {"request", "reply", "exception"}
  BY DEF Message
<1>7. FirstLabel(m) \in Labels
  BY DEF FirstLabel, Labels
<1>8. PICK f : f = [Top(t) EXCEPT !.data = m, !.pc = FirstLabel(m)]
  OBVIOUS
<1>9. /\ f \in Frame /\ f.waits = Top(t).waits /\ f.raising = Top(t).raising
      /\ f.pc = FirstLabel(m) /\ f.data = m
  BY <1>3, <1>7, <1>8 DEF Frame
<1>10. Become(t, f)
  BY <1>5, <1>8 DEF Receive
<1>11. FrameOK(f, open')
  BY <1>1, <1>2, <1>4, <1>6, <1>9 DEF FrameOK, FirstLabel
<1>12. Quiet(t) /\ Exchanged(t, f)
  BY <1>1, <1>9, <1>10, <1>11, BecomeIs
<1>13. Holds(Top(t)) /\ (Holds(f) <=> m.kind = "reply")
  BY <1>1, <1>6, <1>9 DEF Holds, FirstLabel, KeepsLock
<1>14. m.kind = "reply" => UNCHANGED lockVars
  BY <1>5 DEF Receive, KeepsLock
<1>15. m.kind # "reply" => Unlock(t) /\ f.pc \in WillNotify
  BY <1>5, <1>6, <1>9 DEF Receive, KeepsLock, FirstLabel, WillNotify
<1>16. f.pc \in {"handle", "unbox", "callback"}
  BY <1>6, <1>9 DEF FirstLabel
<1>17. Keeps(t, f) \/ Frees(t, f)
  BY <1>13, <1>14, <1>15 DEF Keeps, Frees
<1>18. /\ f.pc \in WillNotify /\ f.pc \notin Waits \cup {"check", "sleep", "poll"}
       /\ Top(t).pc \notin {"eof", "send"}
  BY <1>1, <1>16 DEF WillNotify, Waits
<1>19. /\ closed' = closed /\ open' = open /\ result' = result
       /\ ~f.raising /\ ~Top(t).raising
  BY <1>2, <1>4, <1>9
<1>20. Swaps(t, f)
  BY <1>1, <1>12, <1>17, <1>18, <1>19 DEF Swaps
<1>21. QED
  BY <1>9, <1>20 DEF Move

LEMMA PollMoves ==
  ASSUME TypeOK, Stacks, NEW t \in Threads, PollTimeout(t) \/ ReceiveEOF(t)
  PROVE  Move(t)
<1>1. stack[t] # <<>> /\ Top(t).pc = "poll" /\ Unlock(t)
  BY DEF PollTimeout, ReceiveEOF, At
<1>2. UNCHANGED <<closed, result>>
  BY DEF PollTimeout, ReceiveEOF, connVars
<1>3. Top(t) \in Frame /\ FrameOK(Top(t), open)
  BY <1>1, TopIs
<1>4. ~Top(t).raising /\ Holds(Top(t))
  BY <1>1, <1>3 DEF FrameOK, Holds
<1>5. CASE PollTimeout(t)
  <2>1. "notify" \in Labels /\ Goto(t, "notify") /\ open' = open
    BY <1>5 DEF Labels, PollTimeout, connVars
  <2>2. PICK f \in Frame : Become(t, f) /\ f.waits = Top(t).waits
                           /\ f.raising = Top(t).raising /\ f.pc = "notify"
    BY <1>1, <2>1, GotoIs
  <2>3. FrameOK(f, open') /\ ~Holds(f)
    BY <1>4, <2>2 DEF FrameOK, Holds
  <2>4. Quiet(t) /\ Exchanged(t, f)
    BY <1>1, <2>2, <2>3, BecomeIs
  <2>5. Swaps(t, f)
    BY <1>1, <1>2, <1>4, <2>1, <2>2, <2>3, <2>4 DEF Swaps, Frees, WillNotify, Waits
  <2>6. QED
    BY <2>5 DEF Move
<1>6. CASE ReceiveEOF(t)
  <2>1. "eof" \in Labels /\ Goto(t, "eof") /\ open' = FALSE
    BY <1>6 DEF Labels, ReceiveEOF
  <2>2. PICK f \in Frame : Become(t, f) /\ f.waits = Top(t).waits
                           /\ f.raising = Top(t).raising /\ f.pc = "eof"
    BY <1>1, <2>1, GotoIs
  <2>3. FrameOK(f, open') /\ ~Holds(f)
    BY <1>4, <2>1, <2>2 DEF FrameOK, Holds
  <2>4. Quiet(t) /\ Exchanged(t, f)
    BY <1>1, <2>2, <2>3, BecomeIs
  <2>5. Swaps(t, f)
    BY <1>1, <1>2, <1>4, <2>1, <2>2, <2>3, <2>4 DEF Swaps, Frees, WillNotify, Waits
  <2>6. QED
    BY <2>5 DEF Move
<1>7. QED
  BY <1>5, <1>6

LEMMA CloseMoves ==
  ASSUME TypeOK, Stacks, NEW t \in Threads, CloseAfterEOF(t)
  PROVE  Move(t)
<1>1. stack[t] # <<>> /\ Top(t).pc = "eof"
  BY DEF CloseAfterEOF, At
<1>2. Top(t) \in Frame
  BY <1>1, TopIs
<1>3. PICK f : f = [Top(t) EXCEPT !.pc = "notify", !.raising = TRUE]
  OBVIOUS
<1>4. f \in Frame /\ f.waits = Top(t).waits /\ f.raising /\ f.pc = "notify"
  BY <1>2, <1>3 DEF Frame, Labels
<1>5. Become(t, f)
  BY <1>3 DEF CloseAfterEOF
<1>6. FrameOK(f, open')
  BY <1>4 DEF FrameOK
<1>7. Quiet(t) /\ Exchanged(t, f)
  BY <1>1, <1>4, <1>5, <1>6, BecomeIs
<1>8. Closes(t, f)
  BY <1>1, <1>4, <1>7 DEF Closes, CloseAfterEOF
<1>9. QED
  BY <1>4, <1>8 DEF Move

LEMMA DispatchMoves ==
  ASSUME TypeOK, Stacks, NEW t \in Threads, UnboxValue(t) \/ ReleaseAfterReply(t)
  PROVE  Move(t)
<1>1. UNCHANGED <<open, closed, result>>
  BY DEF UnboxValue, ReleaseAfterReply, connVars
<1>2. CASE UnboxValue(t)
  <2>1. stack[t] # <<>> /\ Top(t).pc = "unbox" /\ UNCHANGED lockVars
    BY <1>2 DEF UnboxValue, At
  <2>2. Top(t) \in Frame /\ FrameOK(Top(t), open)
    BY <2>1, TopIs
  <2>3. "callback" \in Labels /\ Goto(t, "callback")
    BY <1>2 DEF Labels, UnboxValue
  <2>4. PICK f \in Frame : Become(t, f) /\ f.waits = Top(t).waits /\ f.data = Top(t).data
                           /\ f.raising = Top(t).raising /\ f.pc = "callback"
    BY <2>1, <2>3, GotoIs
  <2>5. /\ ~Top(t).raising /\ FrameOK(f, open')
        /\ Holds(f) /\ Holds(Top(t))
    BY <2>1, <2>2, <2>4 DEF FrameOK, Holds, KeepsLock
  <2>6. Quiet(t) /\ Exchanged(t, f)
    BY <2>1, <2>4, <2>5, BecomeIs
  <2>7. Swaps(t, f)
    BY <1>1, <2>1, <2>4, <2>5, <2>6 DEF Swaps, Keeps, WillNotify, Waits
  <2>8. QED
    BY <2>7 DEF Move
<1>3. CASE ReleaseAfterReply(t)
  <2>1. stack[t] # <<>> /\ Top(t).pc = "unlock" /\ Unlock(t)
    BY <1>3 DEF ReleaseAfterReply, At
  <2>2. Top(t) \in Frame /\ FrameOK(Top(t), open)
    BY <2>1, TopIs
  <2>3. "notify" \in Labels /\ Goto(t, "notify")
    BY <1>3 DEF Labels, ReleaseAfterReply
  <2>4. PICK f \in Frame : Become(t, f) /\ f.waits = Top(t).waits
                           /\ f.raising = Top(t).raising /\ f.pc = "notify"
    BY <2>1, <2>3, GotoIs
  <2>5. /\ ~Top(t).raising /\ FrameOK(f, open')
        /\ ~Holds(f) /\ Holds(Top(t))
    BY <2>1, <2>2, <2>4 DEF FrameOK, Holds
  <2>6. Quiet(t) /\ Exchanged(t, f)
    BY <2>1, <2>4, <2>5, BecomeIs
  <2>7. Swaps(t, f)
    BY <1>1, <2>1, <2>4, <2>5, <2>6 DEF Swaps, Frees, WillNotify, Waits
  <2>8. QED
    BY <2>7 DEF Move
<1>4. QED
  BY <1>2, <1>3

(* The result of a reply is set while its lock is held, that of an         *)
(* exception is not.                                                       *)
LEMMA CallbackMoves ==
  ASSUME TypeOK, Stacks, NEW t \in Threads, Callback(t)
  PROVE  Move(t)
<1>1. stack[t] # <<>> /\ Top(t).pc = "callback" /\ UNCHANGED <<lockVars, open, closed>>
  BY DEF Callback, At, connVars
<1>2. Top(t) \in Frame /\ FrameOK(Top(t), open)
  BY <1>1, TopIs
<1>3. PICK m \in Message : m = Top(t).data
  BY <1>1, <1>2 DEF FrameOK
<1>4. m.kind \in {"reply", "exception"} /\ ~Top(t).raising
  BY <1>1, <1>2, <1>3 DEF FrameOK
<1>5. \A s \in Seqs : result'[s] = result[s] \/ result'[s] = m.kind
  <2>1. result \in [Seqs -> {"none", "reply", "exception"}]
    BY DEF TypeOK
  <2>2. result' = result \/ result' = [result EXCEPT ![m.seq] = m.kind]
    BY <1>3 DEF Callback
  <2>3. QED
    BY <2>1, <2>2
<1>6. PICK pc \in {"unlock", "notify"} : /\ Goto(t, pc)
                                         /\ pc = "unlock" <=> m.kind = "reply"
  BY <1>3 DEF Callback, KeepsLock
<1>7. pc \in Labels
  BY DEF Labels
<1>8. PICK f \in Frame : Become(t, f) /\ f.waits = Top(t).waits /\ f.data = Top(t).data
                         /\ f.raising = Top(t).raising /\ f.pc = pc
  BY <1>1, <1>6, <1>7, GotoIs
<1>9. FrameOK(f, open') /\ (Holds(f) <=> m.kind = "reply") /\ (Holds(Top(t)) <=> m.kind = "reply")
  BY <1>1, <1>3, <1>4, <1>6, <1>8 DEF FrameOK, Holds, KeepsLock
<1>10. Quiet(t) /\ Exchanged(t, f)
  BY <1>1, <1>8, <1>9, BecomeIs
<1>11. \A s \in Seqs : result'[s] = "reply" => result[s] = "reply" \/ Holds(Top(t))
  BY <1>4, <1>5, <1>9
<1>12. /\ Top(t).pc \in WillNotify => f.pc \in WillNotify \/ AllAwake
       /\ f.pc \notin Waits \cup {"check", "sleep", "poll", "unbox"}
       /\ Top(t).pc \notin {"eof", "send"}
  BY <1>1, <1>6, <1>8 DEF WillNotify, Waits
<1>13. CASE f.pc = "notify"
  <2>1. Swaps(t, f)
    BY <1>1, <1>4, <1>8, <1>9, <1>10, <1>11, <1>12 DEF Swaps, Keeps
  <2>2. QED
    BY <2>1 DEF Move
<1>14. CASE f.pc = "unlock"
  <2>1. Swaps(t, f)
    BY <1>1, <1>4, <1>8, <1>9, <1>10, <1>11, <1>12 DEF Swaps, Keeps
  <2>2. QED
    BY <2>1 DEF Move
<1>15. QED
  BY <1>6, <1>8, <1>13, <1>14

LEMMA HandlerMoves ==
  ASSUME TypeOK, Stacks, NEW t \in Threads, HandlerEnds(t)
  PROVE  Move(t)
<1>1. stack[t] # <<>> /\ Top(t).pc = "handle" /\ UNCHANGED <<lockVars, open, closed, result>>
  BY DEF HandlerEnds, At, connVars
<1>2. Top(t) \in Frame /\ FrameOK(Top(t), open)
  BY <1>1, TopIs
<1>3. open \in BOOLEAN
  BY DEF TypeOK
<1>4. PICK f : f = AfterHandler(Top(t))
  OBVIOUS
<1>5. f \in Frame /\ f.waits = Top(t).waits /\ f.raising = ~open /\ f.pc = "notify"
  BY <1>2, <1>3, <1>4 DEF AfterHandler, Frame, Labels
<1>6. Become(t, f)
  BY <1>4 DEF HandlerEnds
<1>7. FrameOK(f, open') /\ ~Top(t).raising /\ ~Holds(f) /\ ~Holds(Top(t))
  BY <1>1, <1>2, <1>5 DEF FrameOK, Holds
<1>8. Quiet(t) /\ Exchanged(t, f)
  BY <1>1, <1>5, <1>6, <1>7, BecomeIs
<1>9. Swaps(t, f)
  BY <1>1, <1>5, <1>7, <1>8 DEF Swaps, Keeps, WillNotify, Waits
<1>10. QED
  BY <1>5, <1>9 DEF Move

(* A request is registered: its number has not been used.                  *)
LEMMA RegisterIs ==
  ASSUME TypeOK, NEW t \in Threads, NEW s \in Seqs, Register(t, s),
         stack[t] = <<>> \/ Top(t).pc \in {"handle", "unbox"},
         stack[t] # <<>> /\ Top(t).pc = "unbox" => s > MaxCalls
  PROVE  Pushes(t, s)
<1>1. stack \in [Threads -> Seq(Frame)] /\ stack[t] \in Seq(Frame)
  BY DEF TypeOK
<1>2. NewFrame(s, "send") \in Frame
  BY DEF NewFrame, Frame, Labels
<1>3. PICK r : r = Append(stack[t], NewFrame(s, "send"))
  OBVIOUS
<1>4. r \in Seq(Frame) /\ stack' = [stack EXCEPT ![t] = r]
  BY <1>1, <1>2, <1>3 DEF Register
<1>5. Quiet(t) /\ stack'[t] = r
  BY <1>4, OneStack
<1>6. QED
  BY <1>3, <1>5 DEF Pushes, Register, connVars

LEMMA RequestMoves ==
  ASSUME TypeOK, Stacks, NEW t \in Threads, Call(t) \/ HandlerCalls(t) \/ UnboxReference(t)
  PROVE  Move(t)
<1>1. MaxCalls \in Nat /\ MaxInspects \in Nat
  BY ServeAssumption
<1>2. nextSeq \in 1..(MaxCalls + 1)
      /\ nextInspect \in (MaxCalls + 1)..(MaxCalls + MaxInspects + 1)
  BY DEF TypeOK
<1>3. CASE Call(t) \/ HandlerCalls(t)
  <2>1. nextSeq \in Seqs
    BY <1>1, <1>2, <1>3 DEF Call, HandlerCalls, RegisterCall, Seqs
  <2>2. /\ Register(t, nextSeq)
        /\ stack[t] = <<>> \/ (stack[t] # <<>> /\ Top(t).pc = "handle")
    BY <1>3 DEF Call, HandlerCalls, RegisterCall, At
  <2>3. Pushes(t, nextSeq)
    BY <2>1, <2>2, RegisterIs
  <2>4. QED
    BY <2>1, <2>3 DEF Move
<1>4. CASE UnboxReference(t)
  <2>1. nextInspect \in Seqs /\ nextInspect > MaxCalls
    BY <1>1, <1>2, <1>4 DEF UnboxReference, Seqs
  <2>2. Register(t, nextInspect) /\ stack[t] # <<>> /\ Top(t).pc = "unbox"
    BY <1>4 DEF UnboxReference, At
  <2>3. Pushes(t, nextInspect)
    BY <2>1, <2>2, RegisterIs
  <2>4. QED
    BY <2>1, <2>3 DEF Move
<1>5. QED
  BY <1>3, <1>4

LEMMA LeaveIs ==
  ASSUME TypeOK, NEW t \in Threads, stack[t] # <<>>, NEW raised \in BOOLEAN, Leave(t, raised)
  PROVE  Quiet(t) /\ stack'[t] = Left(t, raised)
<1>1. stack[t] \in Seq(Frame) /\ open \in BOOLEAN
  BY DEF TypeOK
<1>2. PICK r \in Seq(Frame) : r = Left(t, raised)
  BY <1>1, LeftIs
<1>3. stack' = [stack EXCEPT ![t] = r]
  BY <1>2 DEF Leave
<1>4. QED
  BY <1>2, <1>3, OneStack

LEMMA ReturnMoves ==
  ASSUME TypeOK, Stacks, NEW t \in Threads,
         SendRequest(t) \/ WaitReturns(t) \/ LoopEnds(t)
  PROVE  Move(t)
<1>1. stack[t] # <<>> /\ UNCHANGED <<lockVars, open, closed, result>>
  BY DEF SendRequest, WaitReturns, LoopEnds, At, connVars
<1>2. /\ Top(t) \in Frame /\ FrameOK(Top(t), open)
      /\ stack[t] \in Seq(Frame) /\ Len(stack[t]) \in Nat /\ Len(stack[t]) >= 1
  BY <1>1, TopIs
<1>3. CASE SendRequest(t)
  <2>1. Top(t).pc = "send"
    BY <1>3 DEF SendRequest, At
  <2>2. CASE open
    <3>1. "head" \in Labels /\ Goto(t, "head")
      BY <1>3, <2>2 DEF SendRequest, Labels, Heads
    <3>2. PICK f \in Frame : Become(t, f) /\ f.waits = Top(t).waits
                             /\ f.raising = Top(t).raising /\ f.pc = "head"
      BY <1>1, <3>1, GotoIs
    <3>3. ~Top(t).raising /\ FrameOK(f, open') /\ ~Holds(f) /\ ~Holds(Top(t))
      BY <1>2, <2>1, <3>2 DEF FrameOK, Holds
    <3>4. Quiet(t) /\ Exchanged(t, f)
      BY <1>1, <3>2, <3>3, BecomeIs
    <3>5. Swaps(t, f)
      BY <1>1, <2>1, <2>2, <3>2, <3>3, <3>4 DEF Swaps, Keeps, WillNotify, Waits
    <3>6. QED
      BY <3>5 DEF Move
  <2>3. CASE ~open
    <3>1. Leave(t, TRUE)
      BY <1>3, <2>3 DEF SendRequest
    <3>2. Quiet(t) /\ stack'[t] = Left(t, TRUE)
      BY <1>1, <3>1, LeaveIs
    <3>3. Pops(t, TRUE)
      BY <1>1, <2>1, <2>3, <3>2 DEF Pops, At
    <3>4. QED
      BY <3>3 DEF Move
  <2>4. QED
    BY <2>2, <2>3
<1>4. CASE WaitReturns(t)
  <2>1. PICK s : s = Top(t).waits
    OBVIOUS
  <2>2. /\ Top(t).pc \in Heads
        /\ s # None /\ (result[s] # "none" \/ s \in expired)
    BY <1>4, <2>1 DEF WaitReturns, At, Waiting, Ready
  <2>3. s \in Seqs
    BY <1>2, <2>1, <2>2 DEF Frame
  <2>4. PICK raised \in BOOLEAN : raised <=> result[s] # "reply"
    BY Zenon
  <2>5. raised = (result[s] # "reply")
    BY <2>4
  <2>6. Leave(t, raised)
    BY <1>4, <2>1, <2>5 DEF WaitReturns
  <2>7. Quiet(t) /\ stack'[t] = Left(t, raised)
    BY <1>1, <2>6, LeaveIs
  <2>8. Skipped(stack[t], raised) => InspectFailed
    <3>1. SUFFICES ASSUME Skipped(stack[t], raised)
                   PROVE  s > MaxCalls /\ (result[s] = "exception" \/ s \in expired)
      BY <2>3 DEF InspectFailed
    <3>2. Len(stack[t]) \in 1..Len(stack[t])
      BY <1>2
    <3>3. s > MaxCalls
      BY <2>1, <3>1, <3>2 DEF Stacks, Tidy, Skipped, Top
    <3>4. result[s] \in {"none", "reply", "exception"} /\ raised
      BY <2>3, <3>1 DEF TypeOK, Skipped
    <3>5. QED
      BY <2>2, <2>4, <3>3, <3>4
  <2>9. ~Doomed(t)
    BY <1>1, <2>2 DEF Doomed, At, Heads
  <2>10. Pops(t, raised)
    BY <1>1, <2>2, <2>7, <2>8, <2>9 DEF Pops, At, Heads
  <2>11. QED
    BY <2>10 DEF Move
<1>5. CASE LoopEnds(t)
  <2>1. Top(t).pc \in Heads /\ Leave(t, FALSE)
    BY <1>5 DEF LoopEnds, At
  <2>2. Quiet(t) /\ stack'[t] = Left(t, FALSE)
    BY <1>1, <2>1, LeaveIs
  <2>3. ~Doomed(t)
    BY <1>1, <2>1 DEF Doomed, At, Heads
  <2>4. Pops(t, FALSE)
    BY <1>1, <2>1, <2>2, <2>3 DEF Pops, At, Heads, Skipped
  <2>5. QED
    BY <2>4 DEF Move
<1>6. QED
  BY <1>3, <1>4, <1>5

(* notify_all wakes every thread that is asleep, and no thread is on its   *)
(* way to sleep.                                                           *)
LEMMA NotifiedIs ==
  ASSUME TypeOK, Stacks, NEW u \in Threads, ~At(u, {"check", "sleep"})
  PROVE  /\ Notified(u) \in Seq(Frame) /\ Alike(stack[u], Notified(u))
         /\ Notified(u) # <<>> => Notified(u)[Len(Notified(u))].pc \notin Waits
<1>1. stack[u] \in Seq(Frame)
  BY DEF TypeOK
<1>2. CASE At(u, {"asleep"})
  <2>1. stack[u] # <<>> /\ Top(u).pc = "asleep"
    BY <1>2 DEF At
  <2>2. Top(u) \in Frame /\ Len(stack[u]) \in Nat /\ Len(stack[u]) >= 1
    BY <2>1, TopIs
  <2>3. PICK f : f = [Top(u) EXCEPT !.pc = "woken"]
    OBVIOUS
  <2>4. /\ f \in Frame /\ f.pc = "woken" /\ f.waits = Top(u).waits /\ f.data = Top(u).data
        /\ f.raising = Top(u).raising
    BY <2>2, <2>3 DEF Frame, Labels
  <2>5. PICK r : r = [stack[u] EXCEPT ![Len(stack[u])] = f]
    OBVIOUS
  <2>6. /\ r \in Seq(Frame) /\ Len(r) = Len(stack[u]) /\ r[Len(stack[u])] = f
        /\ \A i \in 1..(Len(stack[u]) - 1) : r[i] = stack[u][i]
    BY <1>1, <2>1, <2>4, <2>5, Replaced
  <2>7. Notified(u) = r
    BY <1>1, <1>2, <2>2, <2>3, <2>5 DEF Notified, Top
  <2>8. \A i \in 1..Len(stack[u]) : i = Len(stack[u]) \/ i \in 1..(Len(stack[u]) - 1)
    BY <2>2
  <2>9. stack[u][Len(stack[u])] = Top(u)
    BY DEF Top
  <2>10. Alike(stack[u], r)
    BY <2>1, <2>4, <2>6, <2>8, <2>9 DEF Alike
  <2>11. QED
    BY <2>4, <2>6, <2>7, <2>10 DEF Waits
<1>3. CASE ~At(u, {"asleep"})
  <2>1. Notified(u) = stack[u]
    BY <1>3 DEF Notified
  <2>2. stack[u] # <<>> => stack[u][Len(stack[u])].pc \notin Waits
    BY <1>3 DEF At, Top, Waits
  <2>3. QED
    BY <1>1, <2>1, <2>2, AlikeSame
<1>4. QED
  BY <1>2, <1>3

LEMMA LeftTop ==
  ASSUME NEW t \in Threads, stack[t] \in Seq(Frame), stack[t] # <<>>,
         NEW raised \in BOOLEAN, open \in BOOLEAN, Left(t, raised) # <<>>
  PROVE  Left(t, raised)[Len(Left(t, raised))].pc \in {"notify", "callback"}
<1>1. PICK n \in Nat : Len(stack[t]) = n + 1 /\ Len(Left(t, raised)) = n
  <2>1. Len(Left(t, raised)) = Len(stack[t]) - 1 /\ Len(stack[t]) \in Nat /\ Len(stack[t]) >= 1
    BY LeftIs
  <2>2. Len(stack[t]) - 1 \in Nat /\ Len(stack[t]) = (Len(stack[t]) - 1) + 1
    BY <2>1
  <2>3. QED
    BY <2>1, <2>2
<1>2. n > 0
  BY <1>1, LeftIs
<1>3. Left(t, raised)[n] = Resumed(stack[t][n], raised)
  BY <1>1, <1>2, LeftIs, SMTT(30)
<1>4. stack[t][n] \in Frame
  BY <1>1, <1>2
<1>5. QED
  BY <1>1, <1>3, <1>4, ResumedType

LEMMA NotifyOthers ==
  ASSUME TypeOK, Stacks, NEW t \in Threads, CondFree, NEW left \in Seq(Frame),
         stack' = [u \in Threads |-> IF u = t THEN left ELSE Notified(u)],
         left # <<>> => left[Len(left)].pc \notin Waits
  PROVE  Quiet(t) /\ stack'[t] = left /\ AllAwake
<1>1. \A u \in Threads : /\ Notified(u) \in Seq(Frame) /\ Alike(stack[u], Notified(u))
                         /\ Notified(u) # <<>> =>
                              Notified(u)[Len(Notified(u))].pc \notin Waits
  BY NotifiedIs DEF CondFree
<1>2. Quiet(t) /\ stack'[t] = left
  BY <1>1 DEF Quiet
<1>3. AllAwake
  BY <1>1, <1>2 DEF AllAwake
<1>4. QED
  BY <1>2, <1>3

LEMMA NotifyMoves ==
  ASSUME TypeOK, Stacks, Raising, NEW t \in Threads, Notify(t)
  PROVE  Move(t)
<1>1. stack[t] # <<>> /\ Top(t).pc \in {"notify", "unlucky"} /\ CondFree
  BY DEF Notify, At
<1>2. UNCHANGED <<lockVars, open, closed, result>>
  BY DEF Notify
<1>3. /\ Top(t) \in Frame /\ FrameOK(Top(t), open)
      /\ stack[t] \in Seq(Frame) /\ Len(stack[t]) \in Nat /\ Len(stack[t]) >= 1
  BY <1>1, TopIs
<1>4. open \in BOOLEAN
  BY DEF TypeOK
<1>5. CASE Top(t).raising
  <2>1. PICK left \in Seq(Frame) : left = Left(t, TRUE)
    BY <1>1, <1>3, <1>4, LeftIs
  <2>2. stack' = [u \in Threads |-> IF u = t THEN left ELSE Notified(u)]
    BY <1>5, <2>1 DEF Notify
  <2>3. left # <<>> => left[Len(left)].pc \in {"notify", "callback"}
    BY <1>1, <1>3, <1>4, <2>1, LeftTop
  <2>4. left # <<>> => left[Len(left)].pc \notin Waits
    BY <2>3 DEF Waits
  <2>5. Quiet(t) /\ stack'[t] = left /\ AllAwake
    BY <1>1, <2>2, <2>4, NotifyOthers
  <2>6. Top(t).pc = "notify"
    BY <1>3, <1>5 DEF FrameOK
  <2>7. Len(stack[t]) \in 1..Len(stack[t])
    BY <1>3
  <2>8. ~open \/ InspectFailed
    BY <1>5, <2>7 DEF Raising, Top
  <2>9. Pops(t, TRUE)
    BY <1>1, <1>2, <2>1, <2>5, <2>6, <2>8 DEF Pops, At
  <2>10. QED
    BY <2>9 DEF Move
<1>6. CASE ~Top(t).raising
  <2>1. PICK pc \in Heads :
          pc = IF Top(t).pc = "notify" /\ Top(t).data # None THEN "true" ELSE "false"
    BY DEF Heads
  <2>2. PICK f : f = [Top(t) EXCEPT !.pc = pc]
    OBVIOUS
  <2>3. f \in Frame /\ f.pc = pc /\ f.waits = Top(t).waits /\ f.raising = Top(t).raising
    BY <1>3, <2>2 DEF Frame, Labels
  <2>4. PICK left : left = [stack[t] EXCEPT ![Len(stack[t])] = f]
    OBVIOUS
  <2>5. /\ left \in Seq(Frame) /\ Len(left) = Len(stack[t]) /\ left[Len(stack[t])] = f
        /\ \A i \in 1..(Len(stack[t]) - 1) : left[i] = stack[t][i]
    BY <1>1, <1>3, <2>3, <2>4, Replaced
  <2>6. left = [stack[t] EXCEPT ![Len(stack[t])].pc = pc]
    BY <1>3, <2>2, <2>4 DEF Top
  <2>7. stack' = [u \in Threads |-> IF u = t THEN left ELSE Notified(u)]
    BY <1>6, <2>1, <2>6 DEF Notify
  <2>8. /\ f.pc \notin Waits
        /\ f.pc \notin {"check", "sleep", "poll", "unbox", "eof", "callback", "unlock", "got", "send"}
    BY <2>3 DEF Heads, Waits
  <2>9. Quiet(t) /\ stack'[t] = left /\ AllAwake
    BY <1>1, <2>5, <2>7, <2>8, NotifyOthers
  <2>10. FrameOK(f, open') /\ ~Holds(f) /\ ~Holds(Top(t))
    BY <1>1, <1>6, <2>3, <2>8 DEF FrameOK, Holds
  <2>11. Exchanged(t, f)
    BY <1>1, <2>3, <2>5, <2>9, <2>10 DEF Exchanged
  <2>12. Top(t).pc \notin {"eof", "send"}
    BY <1>1
  <2>13. Swaps(t, f)
    BY <1>2, <1>6, <2>3, <2>8, <2>9, <2>10, <2>11, <2>12 DEF Swaps, Keeps
  <2>14. QED
    BY <2>3, <2>13 DEF Move
<1>7. QED
  BY <1>5, <1>6

LEMMA StepMoves ==
  ASSUME TypeOK, Stacks, Raising, NEW t \in Threads, Step(t) \/ Call(t)
  PROVE  Move(t)
BY WalksMove, ServeMoves, RecheckMoves, ReceiveMoves, PollMoves, CloseMoves, DispatchMoves,
   CallbackMoves, HandlerMoves, RequestMoves, ReturnMoves, NotifyMoves DEF Step

LEMMA OtherMoves ==
  ASSUME Stop \/ Joined \/ (\E s \in Seqs : Answer(s) \/ Expire(s)) \/ PeerRequest \/ PeerCloses
  PROVE  Stays
BY DEF Stays, Stop, Joined, Answer, Expire, PeerRequest, PeerCloses, Deliver, connVars

-----------------------------------------------------------------------------
(* What a step does to the other threads.                                  *)
LEMMA HIs ==
  ASSUME NEW t
  PROVE  H(t) = Cardinality(HoldsOf(stack[t])) /\ H(t)' = Cardinality(HoldsOf(stack'[t]))
BY DEF H, Holding, HoldsOf, Holds

LEMMA HType ==
  ASSUME TypeOK, NEW t \in Threads
  PROVE  H(t) \in Nat /\ D(t) \in Nat
<1>1. stack[t] \in Seq(Frame) /\ depth \in Nat
  BY DEF TypeOK
<1>2. H(t) \in Nat
  BY <1>1, HIs, HoldsOfFinite
<1>3. QED
  BY <1>1, <1>2 DEF D

LEMMA AlikeKeeps ==
  ASSUME NEW q \in Seq(Frame), NEW r \in Seq(Frame), Alike(q, r),
         NEW o \in BOOLEAN, NEW p \in BOOLEAN, p => o, Tidy(q, o)
  PROVE  Tidy(r, p) /\ HoldsOf(r) = HoldsOf(q)
<1>1. Len(q) \in Nat /\ Len(r) = Len(q)
  BY DEF Alike
<1>2. \A i \in 1..Len(q) :
        /\ r[i].waits = q[i].waits /\ r[i].raising = q[i].raising
        /\ r[i] = q[i] \/ (q[i].pc = "asleep" /\ r[i].pc = "woken" /\ i = Len(q))
  BY DEF Alike
<1>3. \A i \in 1..Len(q) : Holds(r[i]) <=> Holds(q[i])
  BY <1>2 DEF Holds
<1>4. \A i \in 1..Len(q) : FrameOK(q[i], o) => FrameOK(r[i], p)
  BY <1>2 DEF FrameOK
<1>5. Tidy(r, p)
  <2>1. SUFFICES ASSUME NEW i \in 1..Len(q)
                 PROVE  /\ FrameOK(r[i], p)
                        /\ i < Len(q) => r[i].pc \in {"handle", "unbox"}
                        /\ i > 1 => r[i].waits \in Seqs
                        /\ i > 1 /\ r[i - 1].pc = "unbox" => r[i].waits > MaxCalls
    BY <1>1 DEF Tidy
  <2>2. i < Len(q) => r[i] = q[i]
    BY <1>1, <1>2
  <2>3. i > 1 => i - 1 \in 1..Len(q) /\ r[i - 1] = q[i - 1]
    BY <1>1, <1>2
  <2>4. QED
    BY <1>2, <1>4, <2>2, <2>3 DEF Tidy
<1>6. HoldsOf(r) = HoldsOf(q)
  BY <1>1, <1>3 DEF HoldsOf
<1>7. QED
  BY <1>5, <1>6

LEMMA OthersLocks ==
  ASSUME TypeOK, Stacks, NEW t \in Threads, Quiet(t), open' \in BOOLEAN, open' => open,
         NEW u \in Threads, u # t
  PROVE  Tidy(stack'[u], open') /\ H(u)' = H(u)
<1>1. /\ stack[u] \in Seq(Frame) /\ stack'[u] \in Seq(Frame)
      /\ Alike(stack[u], stack'[u]) /\ Tidy(stack[u], open) /\ open \in BOOLEAN
  BY DEF TypeOK, Quiet, Stacks
<1>2. PICK o \in BOOLEAN, p \in BOOLEAN : o = open /\ p = open'
  BY <1>1
<1>3. Tidy(stack'[u], open') /\ HoldsOf(stack'[u]) = HoldsOf(stack[u])
  BY <1>1, <1>2, AlikeKeeps
<1>4. QED
  BY <1>3, HIs

(* What an other thread is at, it was at before, or asleep.                *)
LEMMA OthersAt ==
  ASSUME TypeOK, NEW t \in Threads, Quiet(t), NEW u \in Threads, u # t
  PROVE  /\ stack'[u] \in Seq(Frame) /\ Len(stack'[u]) = Len(stack[u])
         /\ (stack'[u] = <<>>) <=> (stack[u] = <<>>)
         /\ \A i \in 1..Len(stack[u]) :
              /\ stack'[u][i].waits = stack[u][i].waits
              /\ stack'[u][i].raising = stack[u][i].raising
              /\ \/ stack'[u][i].pc = stack[u][i].pc
                 \/ i = Len(stack[u]) /\ stack[u][i].pc = "asleep" /\ stack'[u][i].pc = "woken"
         /\ stack[u] # <<>> =>
              /\ Top(u)'.waits = Top(u).waits
              /\ Top(u)'.raising = Top(u).raising
              /\ Top(u)'.pc = Top(u).pc \/ (Top(u).pc = "asleep" /\ Top(u)'.pc = "woken")
<1>1. /\ stack[u] \in Seq(Frame) /\ stack'[u] \in Seq(Frame)
      /\ Alike(stack[u], stack'[u])
  BY DEF TypeOK, Quiet
<1>2. /\ Len(stack'[u]) = Len(stack[u])
      /\ \A i \in 1..Len(stack[u]) :
           /\ stack'[u][i].waits = stack[u][i].waits
           /\ stack'[u][i].raising = stack[u][i].raising
           /\ \/ stack'[u][i].pc = stack[u][i].pc
              \/ i = Len(stack[u]) /\ stack[u][i].pc = "asleep" /\ stack'[u][i].pc = "woken"
  BY <1>1 DEF Alike
<1>3. (stack'[u] = <<>>) <=> (stack[u] = <<>>)
  BY <1>1, <1>2
<1>4. stack[u] # <<>> => Len(stack[u]) \in 1..Len(stack[u])
  BY <1>1
<1>5. Top(u)' = stack'[u][Len(stack[u])] /\ Top(u) = stack[u][Len(stack[u])]
  BY <1>2 DEF Top
<1>6. QED
  BY <1>1, <1>2, <1>3, <1>4, <1>5

-----------------------------------------------------------------------------
(* What a step does to the lock.                                           *)
LEMMA LockUp ==
  ASSUME TypeOK, LockInv, NEW t \in Threads, MayAcquire(t), Acquire(t)
  PROVE  /\ D(t)' = D(t) + 1 /\ \A u \in Threads \ {t} : D(u)' = D(u)
         /\ holder' = t /\ depth' \in Nat /\ depth' # 0
<1>1. depth \in Nat /\ (holder = None => depth = 0) /\ holder \in {None, t} /\ None # t
  BY ServeAssumption DEF TypeOK, LockInv, MayAcquire
<1>2. holder' = t /\ depth' = depth + 1
  BY DEF Acquire
<1>3. None \notin Threads
  BY ServeAssumption
<1>4. QED
  BY <1>1, <1>2, <1>3 DEF D

LEMMA LockDown ==
  ASSUME TypeOK, NEW t \in Threads, holder = t, depth # 0, Unlock(t)
  PROVE  /\ D(t)' + 1 = D(t) /\ \A u \in Threads \ {t} : D(u)' = D(u)
         /\ holder' \in {None, t} /\ depth' \in Nat /\ (holder' = None <=> depth' = 0)
<1>1. depth \in Nat /\ depth >= 1 /\ None \notin Threads
  BY ServeAssumption DEF TypeOK
<1>2. depth' = depth - 1 /\ holder' = IF depth = 1 THEN None ELSE t
  BY DEF Unlock
<1>3. CASE depth = 1
  BY <1>1, <1>2, <1>3 DEF D
<1>4. CASE depth # 1
  BY <1>1, <1>2, <1>4 DEF D
<1>5. QED
  BY <1>3, <1>4

(* Who owes a release owns the lock.                                       *)
LEMMA Owner ==
  ASSUME TypeOK, LockInv, NEW t \in Threads, NEW i \in 1..Len(stack[t]), Holds(stack[t][i]),
         ~(closed /\ Doomed(t))
  PROVE  holder = t /\ depth # 0 /\ H(t) >= 1
<1>1. stack[t] \in Seq(Frame) /\ depth \in Nat
  BY DEF TypeOK
<1>2. IsFiniteSet(HoldsOf(stack[t])) /\ i \in HoldsOf(stack[t])
  BY <1>1, HoldsOfFinite DEF HoldsOf
<1>3. Cardinality(HoldsOf(stack[t])) # 0
  BY <1>2, FS_EmptySet
<1>4. H(t) \in Nat /\ H(t) # 0 /\ D(t) \in Nat
  BY <1>3, HIs, HType
<1>5. H(t) <= D(t)
  BY DEF LockInv
<1>6. D(t) # 0
  BY <1>4, <1>5
<1>7. QED
  BY <1>1, <1>4, <1>6 DEF D

LEMMA TopOwner ==
  ASSUME TypeOK, LockInv, NEW t \in Threads, stack[t] # <<>>, Holds(Top(t))
  PROVE  holder = t /\ depth # 0 /\ ~Doomed(t)
<1>1. stack[t] \in Seq(Frame)
  BY DEF TypeOK
<1>2. Len(stack[t]) \in 1..Len(stack[t])
  BY <1>1
<1>3. ~Doomed(t)
  BY DEF Doomed, At, Holds
<1>4. QED
  BY <1>2, <1>3, Owner DEF Top

LockStep(t) ==
  /\ holder' \in Threads \cup {None} /\ depth' \in Nat /\ (holder' = None <=> depth' = 0)
  /\ \A u \in Threads \ {t} : D(u)' = D(u)
  /\ open' \in BOOLEAN /\ (open' => open) /\ Tidy(stack'[t], open')
  /\ H(t)' \in Nat /\ D(t)' \in Nat

LEMMA SameLock ==
  ASSUME TypeOK, LockInv, UNCHANGED lockVars
  PROVE  /\ holder' \in Threads \cup {None} /\ depth' \in Nat /\ (holder' = None <=> depth' = 0)
         /\ \A u \in Threads : D(u)' = D(u)
BY DEF TypeOK, LockInv, lockVars, D

LEMMA DType ==
  ASSUME NEW t \in Threads, depth' \in Nat
  PROVE  D(t)' \in Nat
BY DEF D

LEMMA HNat ==
  ASSUME NEW t \in Threads, stack'[t] \in Seq(Frame)
  PROVE  H(t)' \in Nat
BY HIs, HoldsOfFinite

LEMMA ExchangedLocks ==
  ASSUME TypeOK, Stacks, NEW t \in Threads, NEW f \in Frame, Exchanged(t, f),
         open' \in BOOLEAN, open' => open
  PROVE  /\ Tidy(stack'[t], open')
         /\ H(t)' + Once(Top(t)) = H(t) + Once(f)
         /\ H(t)' \in Nat
<1>1. /\ stack[t] \in Seq(Frame) /\ stack[t] # <<>> /\ stack'[t] \in Seq(Frame)
      /\ Tidy(stack[t], open) /\ open \in BOOLEAN
  BY DEF TypeOK, Exchanged, Stacks
<1>2. PICK o \in BOOLEAN, p \in BOOLEAN : o = open /\ p = open'
  BY <1>1
<1>3. PICK q \in Seq(Frame), r \in Seq(Frame) : q = stack[t] /\ r = stack'[t]
  BY <1>1
<1>4. /\ q # <<>> /\ Len(r) = Len(q) /\ r[Len(q)] = f /\ (p => o)
      /\ \A i \in 1..(Len(q) - 1) : r[i] = q[i]
      /\ r[Len(q)].waits = q[Len(q)].waits /\ FrameOK(r[Len(q)], p) /\ Tidy(q, o)
      /\ q[Len(q)] = Top(t)
  BY <1>1, <1>2, <1>3 DEF Exchanged, Top
<1>5. Tidy(r, p)
  BY <1>4, SwapTidy
<1>6. Cardinality(HoldsOf(r)) + Once(q[Len(q)]) = Cardinality(HoldsOf(q)) + Once(r[Len(q)])
  BY <1>4, SwapCount
<1>7. QED
  BY <1>1, <1>2, <1>3, <1>4, <1>5, <1>6, HIs, HNat

LEMMA SwapLock ==
  ASSUME TypeOK, Stacks, LockInv, NEW t \in Threads, NEW f \in Frame, Swaps(t, f)
  PROVE  LockStep(t) /\ H(t)' + D(t) = H(t) + D(t)'
<1>1. Exchanged(t, f) /\ stack[t] # <<>>
  BY DEF Swaps, Exchanged
<1>2. open' \in BOOLEAN /\ (open' => open)
  <2>1. open \in BOOLEAN
    BY DEF TypeOK
  <2>2. open' = open \/ open' = FALSE
    BY DEF Swaps
  <2>3. CASE open' = open
    BY <2>1, <2>3
  <2>4. CASE open' = FALSE
    BY <2>4
  <2>5. QED
    BY <2>2, <2>3, <2>4
<1>3. /\ Tidy(stack'[t], open') /\ H(t)' \in Nat
      /\ H(t)' + Once(Top(t)) = H(t) + Once(f)
  BY <1>1, <1>2, ExchangedLocks
<1>4. H(t) \in Nat /\ D(t) \in Nat
  BY HType
<1>5. CASE Keeps(t, f)
  <2>1. UNCHANGED lockVars /\ Once(Top(t)) = Once(f) /\ Once(f) \in Nat
    BY <1>5 DEF Keeps, Once
  <2>2. /\ holder' \in Threads \cup {None} /\ depth' \in Nat /\ (holder' = None <=> depth' = 0)
        /\ \A u \in Threads : D(u)' = D(u)
    BY <2>1, SameLock
  <2>3. H(t)' = H(t)
    BY <1>3, <1>4, <2>1
  <2>4. QED
    BY <1>2, <1>3, <1>4, <2>2, <2>3 DEF LockStep
<1>6. CASE Takes(t, f)
  <2>1. MayAcquire(t) /\ Acquire(t) /\ Once(Top(t)) = 0 /\ Once(f) = 1
    BY <1>6 DEF Takes, Once
  <2>2. /\ D(t)' = D(t) + 1 /\ \A u \in Threads \ {t} : D(u)' = D(u)
        /\ holder' = t /\ depth' \in Nat /\ depth' # 0
    BY <2>1, LockUp
  <2>3. t # None
    BY ServeAssumption
  <2>4. H(t)' = H(t) + 1
    BY <1>3, <1>4, <2>1
  <2>5. QED
    BY <1>2, <1>3, <1>4, <2>2, <2>3, <2>4 DEF LockStep
<1>7. CASE Frees(t, f)
  <2>1. Unlock(t) /\ Holds(Top(t)) /\ Once(Top(t)) = 1 /\ Once(f) = 0
    BY <1>7 DEF Frees, Once
  <2>2. holder = t /\ depth # 0
    BY <1>1, <2>1, TopOwner
  <2>3. /\ D(t)' + 1 = D(t) /\ \A u \in Threads \ {t} : D(u)' = D(u)
        /\ holder' \in {None, t} /\ depth' \in Nat /\ (holder' = None <=> depth' = 0)
    BY <2>1, <2>2, LockDown
  <2>4. D(t)' \in Nat
    BY <2>3, DType
  <2>5. H(t)' + 1 = H(t)
    BY <1>3, <1>4, <2>1
  <2>6. QED
    BY <1>2, <1>3, <1>4, <2>3, <2>4, <2>5 DEF LockStep
<1>8. QED
  BY <1>5, <1>6, <1>7 DEF Swaps

LEMMA CloseLock ==
  ASSUME TypeOK, Stacks, LockInv, NEW t \in Threads, NEW f \in Frame, Closes(t, f)
  PROVE  LockStep(t) /\ open' = FALSE /\ Doomed(t)'
<1>1. Exchanged(t, f) /\ stack[t] # <<>> /\ Top(t).pc = "eof" /\ f.pc = "notify" /\ f.raising
  BY DEF Closes, Exchanged
<1>2. ~open /\ open' = FALSE
  BY <1>1, TopIs DEF Closes, TypeOK, FrameOK
<1>3. Tidy(stack'[t], open') /\ H(t)' \in Nat
  BY <1>1, <1>2, ExchangedLocks
<1>4. /\ holder' \in Threads \cup {None} /\ depth' \in Nat /\ (holder' = None <=> depth' = 0)
      /\ \A u \in Threads \ {t} : D(u)' = D(u)
  <2>1. CASE ~closed /\ holder = t
    <3>1. Unlock(t) /\ depth # 0
      BY <2>1, ServeAssumption DEF Closes, LockInv
    <3>2. QED
      BY <2>1, <3>1, LockDown
  <2>2. CASE ~(~closed /\ holder = t)
    <3>1. UNCHANGED lockVars
      BY <2>2 DEF Closes
    <3>2. QED
      BY <3>1, SameLock
  <2>3. QED
    BY <2>1, <2>2
<1>5. D(t)' \in Nat
  BY <1>4, DType
<1>6. Doomed(t)'
  <2>1. stack[t] \in Seq(Frame) /\ stack'[t] \in Seq(Frame) /\ Len(stack'[t]) = Len(stack[t])
    BY DEF TypeOK, Closes, Exchanged
  <2>2. stack'[t] # <<>>
    BY <1>1, <2>1
  <2>3. Top(t)' = f
    BY <2>1 DEF Top, Closes, Exchanged
  <2>4. QED
    BY <1>1, <2>2, <2>3 DEF Doomed, At
<1>7. QED
  BY <1>2, <1>3, <1>4, <1>5, <1>6 DEF LockStep

LEMMA PushLock ==
  ASSUME TypeOK, Stacks, LockInv, NEW t \in Threads, NEW s \in Seqs, Pushes(t, s)
  PROVE  LockStep(t) /\ H(t)' = H(t) /\ D(t)' = D(t)
<1>1. /\ stack[t] \in Seq(Frame) /\ stack'[t] \in Seq(Frame) /\ open \in BOOLEAN
      /\ Tidy(stack[t], open)
  BY DEF TypeOK, Pushes, Quiet, Stacks
<1>2. PICK o \in BOOLEAN : o = open
  BY <1>1
<1>3. PICK q \in Seq(Frame), r \in Seq(Frame) : q = stack[t] /\ r = stack'[t]
  BY <1>1
<1>4. NewFrame(s, "send") \in Frame
  BY DEF NewFrame, Frame, Labels
<1>5. /\ r = Append(q, NewFrame(s, "send")) /\ Tidy(q, o)
      /\ q # <<>> => q[Len(q)].pc \in {"handle", "unbox"}
      /\ q # <<>> /\ q[Len(q)].pc = "unbox" => s > MaxCalls
  BY <1>1, <1>2, <1>3 DEF Pushes, Top
<1>6. /\ Len(r) = Len(q) + 1 /\ r[Len(q) + 1] = NewFrame(s, "send")
      /\ \A i \in 1..Len(q) : r[i] = q[i]
  BY <1>4, <1>5, Pushed
<1>7. Tidy(r, o) /\ HoldsOf(r) = HoldsOf(q)
  BY <1>5, <1>6, PushTidy
<1>8. UNCHANGED lockVars /\ open' = open
  BY DEF Pushes
<1>9. QED
  BY <1>1, <1>2, <1>3, <1>7, <1>8, SameLock, HIs, HNat, HType DEF LockStep

LEMMA PopLock ==
  ASSUME TypeOK, Stacks, LockInv, NEW t \in Threads, NEW raised \in BOOLEAN, Pops(t, raised)
  PROVE  /\ LockStep(t) /\ D(t)' = D(t)
         /\ H(t)' + (IF Skipped(stack[t], raised) THEN 1 ELSE 0) = H(t)
<1>1. /\ stack[t] \in Seq(Frame) /\ stack'[t] \in Seq(Frame) /\ open \in BOOLEAN
      /\ Tidy(stack[t], open) /\ stack'[t] = Left(t, raised)
  BY DEF TypeOK, Pops, Quiet, Stacks
<1>2. stack[t] # <<>> /\ Top(t).pc \in Heads \cup {"send", "notify"}
  BY DEF Pops, At
<1>3. ~Holds(stack[t][Len(stack[t])])
  BY <1>2 DEF Holds, Heads, Top
<1>4. PICK q \in Seq(Frame), r \in Seq(Frame) : q = stack[t] /\ r = stack'[t]
  BY <1>1
<1>5. /\ Len(r) = Len(q) - 1
      /\ \A i \in 1..(Len(q) - 2) : r[i] = q[i]
      /\ Len(q) > 1 => r[Len(q) - 1] = Resumed(q[Len(q) - 1], raised)
  BY <1>1, <1>2, <1>4, LeftIs
<1>6. /\ Tidy(r, open)
      /\ Cardinality(HoldsOf(r)) + (IF Skipped(q, raised) THEN 1 ELSE 0)
           = Cardinality(HoldsOf(q))
  BY <1>1, <1>2, <1>3, <1>4, <1>5, PopTidy
<1>7. UNCHANGED lockVars /\ open' = open
  BY DEF Pops
<1>8. LockStep(t) /\ D(t)' = D(t)
  BY <1>1, <1>4, <1>6, <1>7, SameLock, HNat, HType DEF LockStep
<1>9. QED
  BY <1>4, <1>6, <1>8, HIs

LEMMA MoveLocks ==
  ASSUME TypeOK, Stacks, LockInv, NEW t \in Threads, Move(t)
  PROVE  LockStep(t) /\ Quiet(t)
<1>1. Quiet(t)
  BY DEF Move, Swaps, Closes, Pushes, Pops
<1>2. LockStep(t)
  BY SwapLock, CloseLock, PushLock, PopLock DEF Move
<1>3. QED
  BY <1>1, <1>2

-----------------------------------------------------------------------------
(* The invariants are kept.                                                *)
LEMMA MoveStacks ==
  ASSUME TypeOK, Stacks, LockInv, NEW t \in Threads, Move(t)
  PROVE  Stacks'
<1>1. LockStep(t) /\ Quiet(t)
  BY MoveLocks
<1>2. Tidy(stack'[t], open') /\ open' \in BOOLEAN /\ (open' => open)
  BY <1>1 DEF LockStep
<1>3. \A u \in Threads : u # t => Tidy(stack'[u], open')
  BY <1>1, <1>2, OthersLocks
<1>4. \A u \in Threads : Tidy(stack'[u], open')
  BY <1>2, <1>3
<1>5. QED
  BY <1>4 DEF Stacks

(* Once doomed, a thread on a closed connection stays so.                  *)
LEMMA PushTop ==
  ASSUME TypeOK, NEW t \in Threads, NEW s \in Seqs, Pushes(t, s)
  PROVE  /\ stack'[t] # <<>> /\ Top(t)' = NewFrame(s, "send")
         /\ Len(stack[t]) \in Nat /\ Len(stack'[t]) = Len(stack[t]) + 1
         /\ \A i \in 1..Len(stack[t]) : stack'[t][i] = stack[t][i]
<1>1. PICK q \in Seq(Frame) : q = stack[t]
  BY DEF TypeOK
<1>2. NewFrame(s, "send") \in Frame
  BY DEF NewFrame, Frame, Labels
<1>3. stack'[t] = Append(q, NewFrame(s, "send"))
  BY <1>1 DEF Pushes
<1>4. /\ stack'[t] # <<>> /\ Len(stack'[t]) = Len(q) + 1 /\ Len(q) \in Nat
      /\ stack'[t][Len(q) + 1] = NewFrame(s, "send")
      /\ \A i \in 1..Len(q) : stack'[t][i] = q[i]
  BY <1>2, <1>3, Pushed
<1>5. QED
  BY <1>1, <1>4 DEF Top

LEMMA PopTop ==
  ASSUME TypeOK, NEW t \in Threads, NEW raised \in BOOLEAN, Pops(t, raised)
  PROVE  \/ Len(stack[t]) = 1 /\ stack'[t] = <<>>
         \/ \E n \in Nat :
              /\ n > 0 /\ Len(stack[t]) = n + 1 /\ Len(stack'[t]) = n /\ stack'[t] # <<>>
              /\ stack[t][n] \in Frame /\ Top(t)' = Resumed(stack[t][n], raised)
              /\ stack'[t][n] = Resumed(stack[t][n], raised)
              /\ \A i \in 1..(n - 1) : stack'[t][i] = stack[t][i]
<1>1. PICK q \in Seq(Frame) : q = stack[t]
  BY DEF TypeOK
<1>2. /\ q # <<>> /\ open \in BOOLEAN /\ stack'[t] = Left(t, raised)
      /\ Len(q) \in Nat /\ Len(q) >= 1
  BY <1>1 DEF Pops, At, TypeOK
<1>3. /\ Len(stack'[t]) = Len(q) - 1
      /\ \A i \in 1..(Len(q) - 2) : stack'[t][i] = q[i]
      /\ Len(q) = 1 => stack'[t] = <<>>
      /\ Len(q) > 1 => /\ stack'[t] # <<>>
                       /\ stack'[t][Len(q) - 1] = Resumed(q[Len(q) - 1], raised)
  BY <1>1, <1>2, LeftIs, SMTT(30)
<1>4. PICK n \in Nat : Len(q) = n + 1
  <2>1. Len(q) - 1 \in Nat /\ Len(q) = (Len(q) - 1) + 1
    BY <1>2
  <2>2. QED
    BY <2>1
<1>5. CASE n = 0
  BY <1>1, <1>3, <1>4, <1>5
<1>6. CASE n > 0
  <2>1. /\ Len(stack'[t]) = n /\ stack'[t] # <<>>
        /\ stack'[t][n] = Resumed(q[n], raised)
        /\ \A i \in 1..(n - 1) : stack'[t][i] = q[i]
    BY <1>3, <1>4, <1>6
  <2>2. q[n] \in Frame
    BY <1>4, <1>6
  <2>3. Top(t)' = Resumed(q[n], raised)
    BY <2>1 DEF Top
  <2>4. QED
    BY <1>1, <1>4, <1>6, <2>1, <2>2, <2>3
<1>7. QED
  BY <1>5, <1>6

LEMMA OthersDoomed ==
  ASSUME TypeOK, NEW t \in Threads, Quiet(t), NEW u \in Threads, u # t, Doomed(u)
  PROVE  Doomed(u)'
BY OthersAt DEF Doomed, At

LEMMA PopDoomed ==
  ASSUME TypeOK, NEW t \in Threads, Pops(t, TRUE), ~open
  PROVE  Doomed(t)'
<1>1. CASE stack'[t] = <<>>
  BY <1>1 DEF Doomed
<1>2. CASE stack'[t] # <<>>
  <2>1. TRUE \in BOOLEAN
    OBVIOUS
  <2>2. PICK g \in Frame : Top(t)' = Resumed(g, TRUE)
    BY <1>2, <2>1, PopTop
  <2>3. Resumed(g, TRUE).pc = "notify" /\ Resumed(g, TRUE).raising
    BY DEF Resumed, AfterHandler, AfterUnbox, Frame
  <2>4. QED
    BY <1>2, <2>2, <2>3 DEF Doomed, At
<1>3. QED
  BY <1>1, <1>2

LEMMA MoveLockInv ==
  ASSUME TypeOK, Stacks, LockInv, NEW t \in Threads, Move(t)
  PROVE  LockInv'
<1>1. LockStep(t) /\ Quiet(t)
  BY MoveLocks
<1>2. (closed' => ~open') /\ (closed => closed')
  <2>1. CASE \E f \in Frame : Swaps(t, f)
    BY <2>1 DEF Swaps, LockInv
  <2>2. CASE \E f \in Frame : Closes(t, f)
    BY <2>2, CloseLock DEF Closes
  <2>3. CASE \E s \in Seqs : Pushes(t, s)
    BY <2>3 DEF Pushes, LockInv
  <2>4. CASE \E raised \in BOOLEAN : Pops(t, raised)
    BY <2>4 DEF Pops, LockInv
  <2>5. QED
    BY <2>1, <2>2, <2>3, <2>4 DEF Move
<1>3. ASSUME NEW u \in Threads, u # t
      PROVE  H(u)' <= D(u)' \/ (closed' /\ Doomed(u)')
  <2>1. H(u)' = H(u) /\ D(u)' = D(u)
    BY <1>1, <1>3, OthersLocks DEF LockStep
  <2>2. Doomed(u) => Doomed(u)'
    BY <1>1, <1>3, OthersDoomed
  <2>3. QED
    BY <1>2, <2>1, <2>2 DEF LockInv
<1>4. H(t)' <= D(t)' \/ (closed' /\ Doomed(t)')
  <2>1. H(t) <= D(t) \/ (closed /\ Doomed(t))
    BY DEF LockInv
  <2>2. H(t) \in Nat /\ D(t) \in Nat /\ H(t)' \in Nat /\ D(t)' \in Nat
    BY <1>1, HType DEF LockStep
  <2>3. CASE \E f \in Frame : Swaps(t, f)
    <3>1. PICK f \in Frame : Swaps(t, f)
      BY <2>3
    <3>2. ~(closed /\ Doomed(t))
      BY <3>1 DEF Swaps, Exchanged, LockInv, Doomed, At
    <3>3. H(t)' + D(t) = H(t) + D(t)'
      BY <3>1, SwapLock
    <3>4. QED
      BY <2>1, <2>2, <3>2, <3>3
  <2>4. CASE \E f \in Frame : Closes(t, f)
    BY <2>4, CloseLock DEF Closes
  <2>5. CASE \E s \in Seqs : Pushes(t, s)
    <3>1. PICK s \in Seqs : Pushes(t, s)
      BY <2>5
    <3>2. H(t)' = H(t) /\ D(t)' = D(t) /\ closed' = closed
      BY <3>1, PushLock DEF Pushes
    <3>3. NewFrame(s, "send").pc = "send"
      BY DEF NewFrame
    <3>4. Doomed(t)'
      BY <3>1, <3>3, PushTop DEF Doomed, At
    <3>5. QED
      BY <2>1, <3>2, <3>4
  <2>6. CASE \E raised \in BOOLEAN : Pops(t, raised)
    <3>1. PICK raised \in BOOLEAN : Pops(t, raised)
      BY <2>6
    <3>2. /\ D(t)' = D(t) /\ closed' = closed
          /\ H(t)' + (IF Skipped(stack[t], raised) THEN 1 ELSE 0) = H(t)
      BY <3>1, PopLock DEF Pops
    <3>3. H(t)' <= H(t)
      BY <2>2, <3>2
    <3>4. CASE closed /\ Doomed(t)
      <4>1. raised /\ ~open
        BY <3>1, <3>4 DEF Pops, LockInv
      <4>2. raised = TRUE
        BY <4>1
      <4>3. Pops(t, TRUE)
        BY <3>1, <4>2
      <4>4. QED
        BY <3>2, <3>4, <4>1, <4>3, PopDoomed
    <3>5. CASE ~(closed /\ Doomed(t))
      BY <2>1, <2>2, <3>2, <3>3, <3>5
    <3>6. QED
      BY <3>4, <3>5
  <2>7. QED
    BY <2>3, <2>4, <2>5, <2>6 DEF Move
<1>5. \A u \in Threads : H(u)' <= D(u)' \/ (closed' /\ Doomed(u)')
  BY <1>3, <1>4
<1>6. QED
  BY <1>1, <1>2, <1>5 DEF LockInv, LockStep

(* The activations of the thread that moves, one by one.                   *)
LEMMA SwapFrames ==
  ASSUME TypeOK, NEW t \in Threads, NEW f \in Frame, Exchanged(t, f)
  PROVE  /\ stack'[t] # <<>> /\ Top(t)' = f /\ Len(stack'[t]) = Len(stack[t])
         /\ \A i \in 1..Len(stack'[t]) :
              \/ i \in 1..Len(stack[t]) /\ stack'[t][i] = stack[t][i]
              \/ stack'[t][i] = f
<1>1. PICK q \in Seq(Frame), r \in Seq(Frame) : q = stack[t] /\ r = stack'[t]
  BY DEF TypeOK, Exchanged
<1>2. /\ q # <<>> /\ Len(r) = Len(q) /\ r[Len(q)] = f
      /\ \A i \in 1..(Len(q) - 1) : r[i] = q[i]
  BY <1>1 DEF Exchanged
<1>3. r # <<>> /\ r[Len(r)] = f
  BY <1>2
<1>4. \A i \in 1..Len(r) : (i \in 1..Len(q) /\ r[i] = q[i]) \/ r[i] = f
  <2>1. \A i \in 1..Len(r) : i = Len(q) \/ (i \in 1..(Len(q) - 1) /\ i \in 1..Len(q))
    BY <1>2
  <2>2. QED
    BY <1>2, <2>1
<1>5. QED
  BY <1>1, <1>2, <1>3, <1>4 DEF Top

LEMMA PushFrames ==
  ASSUME TypeOK, NEW t \in Threads, NEW s \in Seqs, Pushes(t, s)
  PROVE  \A i \in 1..Len(stack'[t]) :
              \/ i \in 1..Len(stack[t]) /\ stack'[t][i] = stack[t][i]
              \/ stack'[t][i] = NewFrame(s, "send")
<1>1. PICK n \in Nat : n = Len(stack[t])
  BY PushTop
<1>2. \A i \in 1..(n + 1) : i = n + 1 \/ i \in 1..n
  OBVIOUS
<1>3. /\ Len(stack'[t]) = n + 1
      /\ \A i \in 1..n : stack'[t][i] = stack[t][i]
  BY <1>1, PushTop
<1>4. stack'[t][n + 1] = NewFrame(s, "send")
  BY <1>3, PushTop DEF Top
<1>5. QED
  BY <1>1, <1>2, <1>3, <1>4

LEMMA PopFrames ==
  ASSUME TypeOK, NEW t \in Threads, NEW raised \in BOOLEAN, Pops(t, raised)
  PROVE  \A i \in 1..Len(stack'[t]) :
           /\ i \in 1..Len(stack[t]) /\ stack[t][i] \in Frame
           /\ \/ stack'[t][i] = stack[t][i]
              \/ /\ stack'[t][i] = Resumed(stack[t][i], raised)
                 /\ stack[t][i].pc = "unbox" /\ raised => Skipped(stack[t], raised)
<1>1. CASE stack'[t] = <<>>
  BY <1>1
<1>2. CASE stack'[t] # <<>>
  <2>1. PICK n \in Nat :
          /\ n > 0 /\ Len(stack[t]) = n + 1 /\ Len(stack'[t]) = n
          /\ stack'[t][n] = Resumed(stack[t][n], raised)
          /\ \A i \in 1..(n - 1) : stack'[t][i] = stack[t][i]
    BY <1>2, PopTop
  <2>2. \A i \in 1..n : i \in 1..(n + 1) /\ (i = n \/ i \in 1..(n - 1))
    BY <2>1
  <2>3. stack[t] \in Seq(Frame)
    BY DEF TypeOK
  <2>4. \A i \in 1..n : stack[t][i] \in Frame
    BY <2>1, <2>2, <2>3
  <2>5. stack[t][n].pc = "unbox" /\ raised => Skipped(stack[t], raised)
    BY <2>1 DEF Skipped
  <2>6. QED
    BY <2>1, <2>2, <2>4, <2>5
<1>3. QED
  BY <1>1, <1>2

LEMMA PopTopPc ==
  ASSUME TypeOK, NEW t \in Threads, NEW raised \in BOOLEAN, Pops(t, raised), stack'[t] # <<>>
  PROVE  Top(t)'.pc \in {"notify", "callback"}
<1>1. PICK g \in Frame : Top(t)' = Resumed(g, raised)
  BY PopTop
<1>2. open \in BOOLEAN
  BY DEF TypeOK
<1>3. QED
  BY <1>1, <1>2, ResumedType

LEMMA MoveClosed ==
  ASSUME NEW t \in Threads, Move(t), ~closed'
  PROVE  ~closed /\ ~(\E f \in Frame : Closes(t, f))
BY DEF Move, Swaps, Closes, Pushes, Pops

LEMMA MoveSevered ==
  ASSUME TypeOK, Stacks, LockInv, Severed, NEW t \in Threads, Move(t)
  PROVE  Severed'
<1>1. SUFFICES ASSUME ~open', ~closed', NEW u \in Threads, NEW i \in 1..Len(stack'[u]),
                      stack'[u][i].pc = "unbox"
               PROVE  At(u, {"eof"})'
  BY DEF Severed
<1>2. Quiet(t) /\ ~closed
  BY <1>1, MoveLocks, MoveClosed
<1>3. CASE u # t
  <2>1. /\ stack'[u] \in Seq(Frame) /\ Len(stack'[u]) = Len(stack[u])
        /\ i \in 1..Len(stack[u]) /\ stack[u][i].pc = "unbox"
    BY <1>1, <1>2, <1>3, OthersAt
  <2>2. CASE ~open
    <3>1. At(u, {"eof"})
      BY <1>2, <2>1, <2>2 DEF Severed
    <3>2. QED
      BY <1>2, <1>3, <3>1, OthersAt DEF At
  <2>3. CASE open
    <3>1. PICK f \in Frame : Swaps(t, f)
      BY <1>1, <2>3, <1>2, MoveClosed DEF Move, Pushes, Pops
    <3>2. Holds(Top(t)) /\ stack[t] # <<>>
      BY <1>1, <2>3, <3>1 DEF Swaps, Exchanged
    <3>3. holder = t
      BY <3>2, TopOwner
    <3>4. Holds(stack[u][i])
      BY <2>1 DEF Holds
    <3>5. holder = u
      BY <1>2, <2>1, <3>4, Owner
    <3>6. QED
      BY <1>3, <3>3, <3>5
  <2>4. QED
    BY <2>2, <2>3
<1>4. CASE u = t
  <2>1. CASE \E f \in Frame : Swaps(t, f)
    <3>1. PICK f \in Frame : Swaps(t, f)
      BY <2>1
    <3>2. /\ stack'[t] # <<>> /\ Top(t)' = f
          /\ \/ i \in 1..Len(stack[t]) /\ stack'[t][i] = stack[t][i]
             \/ stack'[t][i] = f
      BY <1>4, <3>1, SwapFrames DEF Swaps
    <3>3. CASE open
      <4>1. f.pc = "eof"
        BY <1>1, <3>1, <3>3 DEF Swaps
      <4>2. QED
        BY <1>4, <3>2, <4>1 DEF At
    <3>4. CASE ~open
      <4>1. f.pc # "unbox" /\ Top(t).pc # "eof"
        BY <3>1, <3>4 DEF Swaps
      <4>2. At(t, {"eof"})
        BY <1>1, <1>2, <1>4, <3>2, <3>4, <4>1 DEF Severed
      <4>3. QED
        BY <4>1, <4>2 DEF At
    <3>5. QED
      BY <3>3, <3>4
  <2>2. CASE \E s \in Seqs : Pushes(t, s)
    <3>1. PICK s \in Seqs : Pushes(t, s)
      BY <2>2
    <3>2. NewFrame(s, "send").pc = "send"
      BY DEF NewFrame
    <3>3. i \in 1..Len(stack[t]) /\ stack[t][i].pc = "unbox"
      BY <1>1, <1>4, <3>1, <3>2, PushFrames
    <3>4. ~open /\ (stack[t] = <<>> \/ Top(t).pc \in {"handle", "unbox"})
      BY <1>1, <3>1 DEF Pushes
    <3>5. At(t, {"eof"})
      BY <1>2, <3>3, <3>4 DEF Severed
    <3>6. QED
      BY <3>4, <3>5 DEF At
  <2>3. CASE \E raised \in BOOLEAN : Pops(t, raised)
    <3>1. PICK raised \in BOOLEAN : Pops(t, raised)
      BY <2>3
    <3>2. open \in BOOLEAN
      BY DEF TypeOK
    <3>3. i \in 1..Len(stack[t]) /\ stack[t][i].pc = "unbox"
      BY <1>1, <1>4, <3>1, <3>2, PopFrames, ResumedType
    <3>4. ~open /\ Top(t).pc \in Heads \cup {"send", "notify"}
      BY <1>1, <3>1 DEF Pops, At
    <3>5. At(t, {"eof"})
      BY <1>2, <3>3, <3>4 DEF Severed
    <3>6. QED
      BY <3>4, <3>5 DEF At, Heads
  <2>4. QED
    BY <1>1, <2>1, <2>2, <2>3, MoveClosed DEF Move
<1>5. QED
  BY <1>3, <1>4

LEMMA MoveOpen ==
  ASSUME TypeOK, Stacks, LockInv, NEW t \in Threads, Move(t)
  PROVE  open' \in BOOLEAN /\ (~open => ~open')
BY MoveLocks DEF LockStep

LEMMA MoveRaising ==
  ASSUME TypeOK, Stacks, LockInv, Raising, NEW t \in Threads, Move(t),
         InspectFailed => InspectFailed'
  PROVE  Raising'
<1>1. SUFFICES ASSUME NEW u \in Threads, NEW i \in 1..Len(stack'[u]), stack'[u][i].raising
               PROVE  ~open' \/ InspectFailed'
  BY DEF Raising
<1>2. Quiet(t) /\ (~open => ~open')
  BY MoveLocks, MoveOpen
<1>3. SUFFICES ASSUME ~(\E j \in 1..Len(stack[u]) : stack[u][j].raising)
               PROVE  ~open' \/ InspectFailed'
  BY <1>2 DEF Raising
<1>4. CASE u # t
  BY <1>1, <1>2, <1>3, <1>4, OthersAt
<1>5. CASE u = t
  <2>1. CASE \E f \in Frame : Swaps(t, f)
    <3>1. PICK f \in Frame : Swaps(t, f)
      BY <2>1
    <3>2. stack'[t][i] = f
      BY <1>1, <1>3, <1>5, <3>1, SwapFrames DEF Swaps
    <3>3. QED
      BY <1>1, <1>5, <3>1, <3>2 DEF Swaps
  <2>2. CASE \E f \in Frame : Closes(t, f)
    BY <2>2, CloseLock
  <2>3. CASE \E s \in Seqs : Pushes(t, s)
    <3>1. PICK s \in Seqs : Pushes(t, s)
      BY <2>3
    <3>2. ~NewFrame(s, "send").raising
      BY DEF NewFrame
    <3>3. QED
      BY <1>1, <1>3, <1>5, <3>1, <3>2, PushFrames
  <2>4. CASE \E raised \in BOOLEAN : Pops(t, raised)
    <3>1. PICK raised \in BOOLEAN : Pops(t, raised)
      BY <2>4
    <3>2. /\ stack[t][i] \in Frame /\ ~stack[t][i].raising
          /\ stack'[t][i] = Resumed(stack[t][i], raised)
          /\ stack[t][i].pc = "unbox" /\ raised => Skipped(stack[t], raised)
      BY <1>1, <1>3, <1>5, <3>1, PopFrames
    <3>3. PICK g \in Frame : g = stack[t][i]
      BY <3>2
    <3>4. i \in 1..Len(stack[t])
      BY <1>5, <3>1, PopFrames
    <3>5. open \in BOOLEAN /\ open' = open
      BY <3>1 DEF TypeOK, Pops
    <3>6. Resumed(g, raised).raising /\ ~g.raising
      BY <1>1, <1>5, <3>2, <3>3
    <3>7. CASE g.pc = "handle"
      <4>1. Resumed(g, raised).raising = ~open
        BY <3>7 DEF Resumed, AfterHandler, Frame
      <4>2. QED
        BY <3>5, <3>6, <4>1
    <3>8. CASE g.pc # "handle" /\ raised
      <4>1. CASE g.pc = "unbox"
        <5>1. Skipped(stack[t], raised)
          BY <3>2, <3>3, <3>8, <4>1
        <5>2. QED
          BY <1>2, <3>1, <5>1 DEF Pops
      <4>2. CASE g.pc # "unbox"
        <5>1. i < Len(stack[t])
          <6>1. stack'[t] # <<>>
            BY <1>5, <3>4, <3>1, PopTop
          <6>2. PICK n \in Nat : Len(stack[t]) = n + 1 /\ Len(stack'[t]) = n
            BY <3>1, <6>1, PopTop
          <6>3. QED
            BY <1>5, <6>2
        <5>2. g.pc \in {"handle", "unbox"}
          BY <3>3, <3>4, <5>1 DEF Stacks, Tidy
        <5>3. QED
          BY <3>8, <4>2, <5>2
      <4>3. QED
        BY <4>1, <4>2
    <3>9. CASE g.pc # "handle" /\ ~raised
      <4>1. Resumed(g, raised).raising = g.raising
        BY <3>9 DEF Resumed, AfterUnbox, Frame
      <4>2. QED
        BY <3>6, <4>1
    <3>10. QED
      BY <3>7, <3>8, <3>9
  <2>5. QED
    BY <2>1, <2>2, <2>3, <2>4 DEF Move
<1>6. QED
  BY <1>4, <1>5

LEMMA MoveBalanced ==
  ASSUME TypeOK, Stacks, LockInv, Severed, Balanced, NEW t \in Threads, Move(t),
         InspectFailed => InspectFailed'
  PROVE  Balanced'
<1>1. SUFFICES ASSUME ~closed', ~InspectFailed'
               PROVE  \A u \in Threads : H(u)' = D(u)'
  BY DEF Balanced
<1>2. ~closed /\ ~InspectFailed
  BY <1>1, MoveClosed
<1>3. LockStep(t) /\ Quiet(t)
  BY MoveLocks
<1>4. \A u \in Threads : H(u) = D(u)
  BY <1>2 DEF Balanced
<1>5. \A u \in Threads : u # t => H(u)' = D(u)'
  BY <1>3, <1>4, OthersLocks DEF LockStep
<1>6. H(t) \in Nat /\ H(t)' \in Nat /\ D(t)' \in Nat /\ H(t) = D(t)
  BY <1>3, <1>4, HType DEF LockStep
<1>7. H(t)' = D(t)'
  <2>1. CASE \E f \in Frame : Swaps(t, f)
    <3>1. H(t)' + D(t) = H(t) + D(t)'
      BY <2>1, SwapLock
    <3>2. QED
      BY <1>6, <3>1
  <2>2. CASE \E s \in Seqs : Pushes(t, s)
    BY <1>6, <2>2, PushLock
  <2>3. CASE \E raised \in BOOLEAN : Pops(t, raised)
    <3>1. PICK raised \in BOOLEAN : Pops(t, raised)
      BY <2>3
    <3>2. ~Skipped(stack[t], raised)
      <4>1. SUFFICES ASSUME Skipped(stack[t], raised)
                     PROVE  FALSE
        OBVIOUS
      <4>2. ~open
        BY <1>2, <3>1, <4>1 DEF Pops
      <4>3. PICK n \in Nat : n = Len(stack[t]) /\ n > 1 /\ stack[t][n - 1].pc = "unbox"
        BY <4>1 DEF TypeOK, Skipped
      <4>4. n - 1 \in 1..Len(stack[t])
        BY <4>3
      <4>5. At(t, {"eof"})
        BY <1>2, <4>2, <4>3, <4>4 DEF Severed
      <4>6. QED
        BY <3>1, <4>5 DEF Pops, At, Heads
    <3>3. /\ D(t)' = D(t)
          /\ H(t)' + (IF Skipped(stack[t], raised) THEN 1 ELSE 0) = H(t)
      BY <3>1, PopLock
    <3>4. H(t)' + 0 = H(t)
      BY <3>2, <3>3
    <3>5. QED
      BY <1>6, <3>3, <3>4
  <2>4. QED
    BY <1>1, <2>1, <2>2, <2>3, MoveClosed DEF Move
<1>8. QED
  BY <1>5, <1>7

LEMMA MoveOutside ==
  ASSUME TypeOK, Stacks, LockInv, Outside, NEW t \in Threads, Move(t)
  PROVE  Outside'
<1>1. SUFFICES ASSUME NEW u \in Threads, At(u, Waits)'
               PROVE  holder' # u
  BY DEF Outside
<1>2. LockStep(t) /\ Quiet(t) /\ u # None
  BY MoveLocks, ServeAssumption
<1>3. CASE u # t
  <2>1. At(u, Waits)
    BY <1>1, <1>2, <1>3, OthersAt DEF At, Waits
  <2>2. D(u) = 0
    BY <2>1 DEF Outside, D
  <2>3. D(u)' = 0
    BY <1>2, <1>3, <2>2 DEF LockStep
  <2>4. holder' = u => depth' = 0
    BY <2>3 DEF D
  <2>5. QED
    BY <1>2, <2>4 DEF LockStep
<1>4. CASE u = t
  <2>1. CASE \E f \in Frame : Swaps(t, f)
    <3>1. PICK f \in Frame : Swaps(t, f)
      BY <2>1
    <3>2. Top(t)' = f /\ stack[t] # <<>>
      BY <3>1, SwapFrames DEF Swaps, Exchanged
    <3>3. f.pc \in Waits
      BY <1>1, <1>4, <3>2 DEF At
    <3>4. holder # t
      <4>1. CASE Top(t).pc \in Waits
        BY <3>2, <4>1 DEF Outside, At
      <4>2. CASE ~MayAcquire(t)
        BY <4>2 DEF MayAcquire
      <4>3. QED
        BY <3>1, <3>3, <4>1, <4>2 DEF Swaps
    <3>5. ~Holds(f) /\ f.pc \notin WillNotify
      BY <3>3 DEF Holds, Waits, WillNotify
    <3>6. UNCHANGED lockVars
      BY <3>1, <3>5 DEF Swaps, Keeps, Takes, Frees
    <3>7. QED
      BY <1>4, <3>4, <3>6 DEF lockVars
  <2>2. CASE \E f \in Frame : Closes(t, f)
    BY <1>1, <1>4, <2>2, SwapFrames DEF Closes, At, Waits
  <2>3. CASE \E s \in Seqs : Pushes(t, s)
    BY <1>1, <1>4, <2>3, PushTop DEF At, Waits, NewFrame
  <2>4. CASE \E raised \in BOOLEAN : Pops(t, raised)
    BY <1>1, <1>4, <2>4, PopTopPc DEF At, Waits
  <2>5. QED
    BY <2>1, <2>2, <2>3, <2>4 DEF Move
<1>5. QED
  BY <1>3, <1>4

(* Who is between a failed acquire and its wait was so before, or found    *)
(* the lock of _recv_event free.                                           *)
LEMMA MoveChecks ==
  ASSUME TypeOK, NEW t \in Threads, Move(t), At(t, {"check", "sleep"})'
  PROVE  At(t, {"check", "sleep"}) \/ CondFree
<1>1. CASE \E f \in Frame : Swaps(t, f)
  <2>1. PICK f \in Frame : Swaps(t, f)
    BY <1>1
  <2>2. Top(t)' = f /\ stack[t] # <<>>
    BY <2>1, SwapFrames DEF Swaps, Exchanged
  <2>3. f.pc \in {"check", "sleep"}
    BY <2>2 DEF At
  <2>4. Top(t).pc = "check" \/ CondFree
    BY <2>1, <2>3 DEF Swaps
  <2>5. QED
    BY <2>2, <2>4 DEF At
<1>2. CASE \E f \in Frame : Closes(t, f)
  BY <1>2, SwapFrames DEF Closes, At
<1>3. CASE \E s \in Seqs : Pushes(t, s)
  BY <1>3, PushTop DEF At, NewFrame
<1>4. CASE \E raised \in BOOLEAN : Pops(t, raised)
  BY <1>4, PopTopPc DEF At
<1>5. QED
  BY <1>1, <1>2, <1>3, <1>4 DEF Move

LEMMA MoveOneChecks ==
  ASSUME TypeOK, Stacks, LockInv, OneChecks, NEW t \in Threads, Move(t)
  PROVE  OneChecks'
<1>1. Quiet(t)
  BY MoveLocks
<1>2. \A u \in Threads : u # t /\ At(u, {"check", "sleep"})' => At(u, {"check", "sleep"})
  BY <1>1, OthersAt DEF At
<1>3. At(t, {"check", "sleep"})' => At(t, {"check", "sleep"}) \/ CondFree
  BY MoveChecks
<1>4. SUFFICES ASSUME NEW u \in Threads, NEW v \in Threads,
                      At(u, {"check", "sleep"})', At(v, {"check", "sleep"})'
               PROVE  u = v
  BY DEF OneChecks
<1>5. CASE u # t /\ v # t
  BY <1>2, <1>4, <1>5 DEF OneChecks
<1>6. CASE u = t /\ v # t
  BY <1>2, <1>3, <1>4, <1>6 DEF OneChecks, CondFree
<1>7. CASE u # t /\ v = t
  BY <1>2, <1>3, <1>4, <1>7 DEF OneChecks, CondFree
<1>8. QED
  BY <1>5, <1>6, <1>7

(* The step that frees the lock leaves its thread about to notify.         *)
LEMMA MoveFrees ==
  ASSUME TypeOK, Stacks, LockInv, NEW t \in Threads, Move(t), holder # None, holder' = None
  PROVE  Notifies(t)'
<1>1. SUFFICES ASSUME NEW f \in Frame, Exchanged(t, f), f.pc \in WillNotify
               PROVE  Notifies(t)'
  <2>1. CASE \E f \in Frame : Swaps(t, f)
    <3>1. PICK f \in Frame : Swaps(t, f)
      BY <2>1
    <3>2. Exchanged(t, f) /\ t # None
      BY <3>1, ServeAssumption DEF Swaps
    <3>3. f.pc \in WillNotify
      BY <3>1, <3>2 DEF Swaps, Keeps, Takes, Frees, Acquire, lockVars
    <3>4. QED
      BY <1>1, <3>2, <3>3
  <2>2. CASE \E f \in Frame : Closes(t, f)
    <3>1. PICK f \in Frame : Closes(t, f)
      BY <2>2
    <3>2. Exchanged(t, f) /\ f.pc \in WillNotify
      BY <3>1 DEF Closes, WillNotify
    <3>3. QED
      BY <1>1, <3>2
  <2>3. CASE \E s \in Seqs : Pushes(t, s)
    BY <2>3 DEF Pushes, lockVars
  <2>4. CASE \E raised \in BOOLEAN : Pops(t, raised)
    BY <2>4 DEF Pops, lockVars
  <2>5. QED
    BY <2>1, <2>2, <2>3, <2>4 DEF Move
<1>2. stack'[t] # <<>> /\ Top(t)' = f /\ stack'[t] \in Seq(Frame)
  BY <1>1, SwapFrames DEF Exchanged
<1>3. Len(stack'[t]) \in 1..Len(stack'[t]) /\ stack'[t][Len(stack'[t])] = f
  BY <1>2 DEF Top
<1>4. ~At(t, Waits)'
  BY <1>1, <1>2 DEF At, Waits, WillNotify
<1>5. QED
  BY <1>1, <1>3, <1>4 DEF Notifies

LEMMA AwakeAll ==
  ASSUME AllAwake, NEW u \in Threads
  PROVE  ~At(u, Waits)'
BY DEF AllAwake, At, Top

(* While the lock is free nobody begins to wait, and whoever is to notify  *)
(* still is, or has done it.                                               *)
LEMMA MoveNotifies ==
  ASSUME TypeOK, Stacks, LockInv, NEW t \in Threads, Move(t), holder = None
  PROVE  /\ At(t, Waits)' => At(t, Waits)
         /\ Notifies(t) => Notifies(t)' \/ AllAwake
<1>1. MayAcquire(t)
  BY DEF MayAcquire
<1>2. stack[t] \in Seq(Frame) /\ Len(stack[t]) \in Nat
  BY DEF TypeOK
<1>3. CASE \E f \in Frame : Swaps(t, f) \/ Closes(t, f)
  <2>1. PICK f \in Frame : Swaps(t, f) \/ Closes(t, f)
    BY <1>3
  <2>2. Exchanged(t, f)
    BY <2>1 DEF Swaps, Closes
  <2>3. /\ stack'[t] # <<>> /\ Top(t)' = f /\ Len(stack'[t]) = Len(stack[t])
        /\ stack[t] # <<>> /\ stack'[t][Len(stack[t])] = f
        /\ \A i \in 1..(Len(stack[t]) - 1) : stack'[t][i] = stack[t][i]
    BY <2>2, SwapFrames DEF Exchanged
  <2>4. f.pc \in Waits => Top(t).pc \in Waits
    BY <1>1, <2>1 DEF Swaps, Closes, Waits
  <2>5. Top(t).pc \in WillNotify => f.pc \in WillNotify \/ AllAwake
    BY <2>1 DEF Swaps, Closes, WillNotify
  <2>6. At(t, Waits)' => At(t, Waits)
    BY <2>3, <2>4 DEF At
  <2>7. ASSUME Notifies(t)
        PROVE  Notifies(t)' \/ AllAwake
    <3>1. ~At(t, Waits)'
      BY <2>6, <2>7 DEF Notifies
    <3>2. PICK i \in 1..Len(stack[t]) : stack[t][i].pc \in WillNotify
      BY <2>7 DEF Notifies
    <3>3. CASE i = Len(stack[t])
      <4>1. Top(t).pc \in WillNotify
        BY <3>2, <3>3 DEF Top
      <4>2. i \in 1..Len(stack'[t]) /\ stack'[t][i] = f
        BY <2>3, <3>3
      <4>3. QED
        BY <2>5, <3>1, <4>1, <4>2 DEF Notifies
    <3>4. CASE i # Len(stack[t])
      <4>1. i \in 1..(Len(stack[t]) - 1) /\ i \in 1..Len(stack'[t])
        BY <1>2, <2>3, <3>4
      <4>2. QED
        BY <2>3, <3>1, <3>2, <4>1 DEF Notifies
    <3>5. QED
      BY <3>3, <3>4
  <2>8. QED
    BY <2>6, <2>7
<1>4. CASE \E s \in Seqs : Pushes(t, s)
  <2>1. PICK s \in Seqs : Pushes(t, s)
    BY <1>4
  <2>2. /\ stack'[t] # <<>> /\ Top(t)' = NewFrame(s, "send")
        /\ Len(stack'[t]) = Len(stack[t]) + 1
        /\ \A i \in 1..Len(stack[t]) : stack'[t][i] = stack[t][i]
    BY <2>1, PushTop
  <2>3. ~At(t, Waits)'
    BY <2>2 DEF At, NewFrame, Waits
  <2>4. ASSUME Notifies(t)
        PROVE  Notifies(t)'
    <3>1. PICK i \in 1..Len(stack[t]) : stack[t][i].pc \in WillNotify
      BY <2>4 DEF Notifies
    <3>2. i \in 1..Len(stack'[t]) /\ stack'[t][i].pc \in WillNotify
      BY <1>2, <2>2, <3>1
    <3>3. QED
      BY <2>3, <3>2 DEF Notifies
  <2>5. QED
    BY <2>3, <2>4
<1>5. CASE \E raised \in BOOLEAN : Pops(t, raised)
  <2>1. PICK raised \in BOOLEAN : Pops(t, raised)
    BY <1>5
  <2>2. ~At(t, Waits)'
    BY <2>1, PopTopPc DEF At, Waits
  <2>3. ASSUME Notifies(t), ~AllAwake
        PROVE  Notifies(t)'
    <3>1. PICK i \in 1..Len(stack[t]) : stack[t][i].pc \in WillNotify
      BY <2>3 DEF Notifies
    <3>2. Top(t).pc \in Heads \cup {"send"}
      BY <2>1, <2>3 DEF Pops, At
    <3>3. Top(t).pc \notin WillNotify
      BY <3>2 DEF Heads, WillNotify
    <3>4. i # Len(stack[t])
      BY <3>1, <3>3 DEF Top
    <3>5. Len(stack[t]) # 1
      <4>1. \A j \in 1..1 : j = 1
        OBVIOUS
      <4>2. QED
        BY <3>4, <4>1
    <3>6. PICK n \in Nat : n > 0 /\ Len(stack'[t]) = n /\ stack'[t] # <<>>
      BY <2>1, <3>5, PopTop
    <3>7. Top(t)'.pc \in WillNotify
      BY <2>1, <3>6, PopTopPc DEF WillNotify
    <3>8. n \in 1..Len(stack'[t]) /\ stack'[t][n].pc \in WillNotify
      BY <3>6, <3>7 DEF Top
    <3>9. QED
      BY <2>2, <3>8 DEF Notifies
  <2>4. QED
    BY <2>2, <2>3
<1>6. QED
  BY <1>3, <1>4, <1>5 DEF Move

LEMMA MoveWakeful ==
  ASSUME TypeOK, Stacks, LockInv, Wakeful, NEW t \in Threads, Move(t)
  PROVE  Wakeful'
<1>1. SUFFICES ASSUME holder' = None, NEW x \in Threads, At(x, Waits)'
               PROVE  \E u \in Threads : Notifies(u)'
  BY DEF Wakeful
<1>2. CASE holder # None
  BY <1>1, <1>2, MoveFrees
<1>3. CASE holder = None
  <2>1. Quiet(t) /\ ~AllAwake
    BY <1>1, MoveLocks, AwakeAll
  <2>2. At(x, Waits)
    <3>1. CASE x = t
      BY <1>1, <1>3, <3>1, MoveNotifies
    <3>2. CASE x # t
      BY <1>1, <2>1, <3>2, OthersAt DEF At, Waits
    <3>3. QED
      BY <3>1, <3>2
  <2>3. PICK u \in Threads : Notifies(u)
    BY <1>3, <2>2 DEF Wakeful
  <2>4. CASE u = t
    BY <1>3, <2>1, <2>3, <2>4, MoveNotifies
  <2>5. CASE u # t
    <3>1. ~At(u, Waits)'
      BY <2>1, <2>3, <2>5, OthersAt DEF Notifies, At, Waits
    <3>2. PICK i \in 1..Len(stack[u]) : stack[u][i].pc \in WillNotify
      BY <2>3 DEF Notifies
    <3>3. stack[u][i].pc # "asleep"
      BY <3>2 DEF WillNotify
    <3>4. i \in 1..Len(stack'[u]) /\ stack'[u][i].pc \in WillNotify
      BY <2>1, <2>5, <3>2, <3>3, OthersAt
    <3>5. QED
      BY <3>1, <3>4 DEF Notifies
  <2>6. QED
    BY <2>4, <2>5
<1>4. QED
  BY <1>2, <1>3

LEMMA MoveNoPoll ==
  ASSUME TypeOK, Stacks, LockInv, NoPollForReadyResult, NEW t \in Threads, Move(t)
  PROVE  NoPollForReadyResult'
<1>1. SUFFICES ASSUME NEW u \in Threads, At(u, {"poll"})', Top(u)'.waits # None
               PROVE  result'[Top(u)'.waits] # "reply"
  BY DEF NoPollForReadyResult
<1>2. Quiet(t)
  BY MoveLocks
<1>3. CASE u # t
  <2>1. At(u, {"poll"}) /\ Top(u).waits = Top(u)'.waits /\ stack[u] # <<>>
    BY <1>1, <1>2, <1>3, OthersAt DEF At
  <2>2. result[Top(u).waits] # "reply"
    BY <1>1, <2>1 DEF NoPollForReadyResult
  <2>3. Top(u).waits \in Seqs
    BY <1>1, <2>1, TopIs DEF Frame
  <2>4. Holds(Top(u)) /\ holder = u
    BY <2>1, TopOwner DEF At, Holds
  <2>5. CASE \E f \in Frame : Swaps(t, f)
    <3>1. PICK f \in Frame : Swaps(t, f)
      BY <2>5
    <3>2. ~Holds(Top(t))
      BY <1>3, <2>4, <3>1, TopOwner DEF Swaps, Exchanged
    <3>3. QED
      BY <2>1, <2>2, <2>3, <3>1, <3>2 DEF Swaps
  <2>6. CASE ~(\E f \in Frame : Swaps(t, f))
    <3>1. result' = result
      BY <2>6 DEF Move, Closes, Pushes, Pops
    <3>2. QED
      BY <2>1, <2>2, <3>1
  <2>7. QED
    BY <2>5, <2>6
<1>4. CASE u = t
  <2>1. CASE \E f \in Frame : Swaps(t, f)
    <3>1. PICK f \in Frame : Swaps(t, f)
      BY <2>1
    <3>2. Top(t)' = f
      BY <3>1, SwapFrames DEF Swaps
    <3>3. f.pc = "poll" /\ f.waits # None
      BY <1>1, <1>4, <3>2 DEF At
    <3>4. result'[f.waits] = "none"
      BY <3>1, <3>3 DEF Swaps
    <3>5. QED
      BY <1>4, <3>2, <3>4
  <2>2. CASE \E f \in Frame : Closes(t, f)
    BY <1>1, <1>4, <2>2, SwapFrames DEF Closes, At
  <2>3. CASE \E s \in Seqs : Pushes(t, s)
    BY <1>1, <1>4, <2>3, PushTop DEF At, NewFrame
  <2>4. CASE \E raised \in BOOLEAN : Pops(t, raised)
    BY <1>1, <1>4, <2>4, PopTopPc DEF At
  <2>5. QED
    BY <2>1, <2>2, <2>3, <2>4 DEF Move
<1>5. QED
  BY <1>3, <1>4

-----------------------------------------------------------------------------
(* The other variables: their types, and the numbers of requests.          *)
Rest ==
  /\ setup \in Setups
  /\ inbox \in Seq(Message)
  /\ asked \in [Seqs -> {"no", "yes", "answered"}]
  /\ callbacks \subseteq Seqs
  /\ result \in [Seqs -> {"none", "reply", "exception"}]
  /\ expired \subseteq Seqs
  /\ nextSeq \in 1..(MaxCalls + 1)
  /\ nextInspect \in (MaxCalls + 1)..(MaxCalls + MaxInspects + 1)
  /\ {open, eof, closed} \subseteq BOOLEAN
  /\ requested \in 0..setup.requests
  /\ refs \in 0..setup.refs
  /\ bg \in [active : BOOLEAN, told : BOOLEAN, stop : {"no", "joining", "stopped", "refused"}]

restVars == <<setup, inbox, asked, callbacks, result, expired, nextSeq, nextInspect, open, eof,
              closed, requested, refs, bg>>

Kept == Rest' /\ Numbered' /\ (InspectFailed => InspectFailed')

LEMMA RestSame ==
  ASSUME Rest, Numbered, UNCHANGED restVars
  PROVE  Kept
<1>1. Rest'
  BY DEF restVars, Rest
<1>2. Numbered'
  BY DEF restVars, Numbered, Used
<1>3. InspectFailed => InspectFailed'
  BY DEF restVars, InspectFailed
<1>4. QED
  BY <1>1, <1>2, <1>3 DEF Kept

LEMMA PlainRest ==
  ASSUME Rest, Numbered, NEW t \in Threads,
         \/ WaitReturns(t) \/ CallServe(t) \/ LoopEnds(t) \/ ServeEnter(t) \/ CheckWaiting(t)
         \/ CondWait(t) \/ Wake(t) \/ WakeTimeout(t) \/ Recheck(t) \/ PollTimeout(t)
         \/ UnboxValue(t) \/ ReleaseAfterReply(t) \/ HandlerEnds(t)
  PROVE  Kept
<1>1. UNCHANGED restVars
  BY DEF restVars, connVars, peerVars, seqVars, WaitReturns, CallServe, LoopEnds, ServeEnter,
         CheckWaiting, CondWait, Wake, WakeTimeout, Recheck, PollTimeout, UnboxValue,
         ReleaseAfterReply, HandlerEnds
<1>2. QED
  BY <1>1, RestSame

LEMMA SendRest ==
  ASSUME Rest, Numbered, TypeOK, Stacks, NEW t \in Threads, SendRequest(t)
  PROVE  Kept
<1>1. stack[t] # <<>> /\ Top(t).pc = "send"
  BY DEF SendRequest, At
<1>2. PICK s \in Seqs : s = Top(t).waits
  BY <1>1, TopIs DEF FrameOK
<1>3. /\ UNCHANGED <<setup, inbox, result, expired, nextSeq, nextInspect, open, eof, closed,
                    requested, refs, bg>>
      /\ asked' = [asked EXCEPT ![s] = "yes"] \/ asked' = asked
      /\ callbacks' \subseteq callbacks
  BY <1>2 DEF SendRequest, connVars, seqVars
<1>4. asked' \in [Seqs -> {"no", "yes", "answered"}]
  BY <1>3 DEF Rest
<1>5. Rest'
  BY <1>3, <1>4 DEF Rest
<1>6. Numbered'
  BY <1>3 DEF Numbered, Used
<1>7. InspectFailed => InspectFailed'
  BY <1>3 DEF InspectFailed
<1>8. QED
  BY <1>5, <1>6, <1>7 DEF Kept

LEMMA ReceiveRest ==
  ASSUME Rest, Numbered, NEW t \in Threads, Receive(t) \/ ReceiveEOF(t) \/ CloseAfterEOF(t)
  PROVE  Kept
<1>1. UNCHANGED <<setup, asked, result, expired, nextSeq, nextInspect, eof, requested, refs, bg>>
  BY DEF Receive, ReceiveEOF, CloseAfterEOF, connVars, peerVars, seqVars
<1>2. callbacks' \subseteq callbacks
  BY DEF Receive, ReceiveEOF, CloseAfterEOF
<1>3. inbox' \in Seq(Message)
  <2>1. inbox \in Seq(Message)
    BY DEF Rest
  <2>2. CASE Receive(t)
    <3>1. inbox # <<>> /\ inbox' = Tail(inbox)
      BY <2>2 DEF Receive
    <3>2. QED
      BY <2>1, <3>1
  <2>3. CASE ReceiveEOF(t) \/ CloseAfterEOF(t)
    BY <2>1, <2>3 DEF ReceiveEOF, CloseAfterEOF
  <2>4. QED
    BY <2>2, <2>3
<1>4. open' \in BOOLEAN /\ closed' \in BOOLEAN
  BY DEF Receive, ReceiveEOF, CloseAfterEOF, Rest, connVars
<1>5. Rest'
  BY <1>1, <1>2, <1>3, <1>4 DEF Rest
<1>6. Numbered'
  BY <1>1, <1>2 DEF Numbered, Used
<1>7. InspectFailed => InspectFailed'
  BY <1>1 DEF InspectFailed
<1>8. QED
  BY <1>5, <1>6, <1>7 DEF Kept

LEMMA RequestRest ==
  ASSUME Rest, Numbered, NEW t \in Threads, Call(t) \/ HandlerCalls(t) \/ UnboxReference(t)
  PROVE  Kept
<1>1. MaxCalls \in Nat /\ MaxInspects \in Nat
  BY ServeAssumption
<1>2. nextSeq \in 1..(MaxCalls + 1)
      /\ nextInspect \in (MaxCalls + 1)..(MaxCalls + MaxInspects + 1)
  BY DEF Rest
<1>3. PICK s \in Seqs :
        /\ Register(t, s)
        /\ \/ s = nextSeq /\ s <= MaxCalls /\ nextSeq' = nextSeq + 1 /\ nextInspect' = nextInspect
           \/ s = nextInspect /\ s > MaxCalls /\ nextInspect <= MaxCalls + MaxInspects
              /\ nextInspect' = nextInspect + 1 /\ nextSeq' = nextSeq
  <2>1. CASE Call(t) \/ HandlerCalls(t)
    <3>1. RegisterCall(t) /\ nextInspect' = nextInspect
      BY <2>1 DEF Call, HandlerCalls, RegisterCall
    <3>2. nextSeq \in Seqs
      BY <1>1, <1>2, <3>1 DEF RegisterCall, Seqs
    <3>3. QED
      BY <3>1, <3>2 DEF RegisterCall
  <2>2. CASE UnboxReference(t)
    <3>1. nextInspect \in Seqs /\ nextInspect > MaxCalls
      BY <1>1, <1>2, <2>2 DEF UnboxReference, Seqs
    <3>2. QED
      BY <2>2, <3>1 DEF UnboxReference
  <2>3. QED
    BY <2>1, <2>2
<1>4. /\ UNCHANGED <<setup, inbox, asked, result, expired, open, eof, closed, requested, refs, bg>>
      /\ callbacks' = callbacks \cup {s}
  BY <1>3 DEF Register, connVars, peerVars
<1>5. nextSeq' \in 1..(MaxCalls + 1)
      /\ nextInspect' \in (MaxCalls + 1)..(MaxCalls + MaxInspects + 1)
  BY <1>1, <1>2, <1>3
<1>6. Rest'
  BY <1>4, <1>5 DEF Rest
<1>7. \A x \in Seqs : Used(x) => Used(x)'
  BY <1>1, <1>2, <1>3 DEF Used, Seqs
<1>8. Used(s)' /\ ~Used(s)
  BY <1>1, <1>2, <1>3 DEF Used
<1>9. result[s] = "none"
  BY <1>8 DEF Numbered
<1>10. Numbered'
  <2>1. SUFFICES ASSUME NEW x \in Seqs
                 PROVE  /\ x \in callbacks' => Used(x)'
                        /\ result'[x] # "none" => Used(x)' /\ x \notin callbacks'
    BY DEF Numbered
  <2>2. x \in callbacks' => Used(x)'
    BY <1>4, <1>7, <1>8 DEF Numbered
  <2>3. result'[x] # "none" => Used(x)' /\ x \notin callbacks'
    BY <1>4, <1>7, <1>9 DEF Numbered
  <2>4. QED
    BY <2>2, <2>3
<1>11. InspectFailed => InspectFailed'
  BY <1>4 DEF InspectFailed
<1>12. QED
  BY <1>6, <1>10, <1>11 DEF Kept

LEMMA CallbackRest ==
  ASSUME Rest, Numbered, TypeOK, Stacks, NEW t \in Threads, Callback(t)
  PROVE  Kept
<1>1. stack[t] # <<>> /\ Top(t).pc = "callback"
  BY DEF Callback, At
<1>2. PICK m \in Message : m = Top(t).data /\ m.kind \in {"reply", "exception"}
  BY <1>1, TopIs DEF FrameOK
<1>3. m.seq \in Seqs
  BY <1>2 DEF Message
<1>4. /\ UNCHANGED <<setup, inbox, asked, expired, nextSeq, nextInspect, open, eof, closed,
                    requested, refs, bg>>
      /\ callbacks' = callbacks \ {m.seq}
      /\ result' = IF m.seq \in callbacks /\ m.seq \notin expired
                     THEN [result EXCEPT ![m.seq] = m.kind] ELSE result
  BY <1>2 DEF Callback, connVars, peerVars, seqVars
<1>5. PICK s \in Seqs, k \in {"reply", "exception"} : s = m.seq /\ k = m.kind
  BY <1>2, <1>3
<1>6. result \in [Seqs -> {"none", "reply", "exception"}]
  BY DEF Rest
<1>7. /\ result' \in [Seqs -> {"none", "reply", "exception"}]
      /\ \A x \in Seqs : result'[x] = result[x] \/ (x = s /\ s \in callbacks)
  BY <1>4, <1>5, <1>6
<1>8. Rest'
  BY <1>4, <1>7 DEF Rest
<1>9. \A x \in Seqs : Used(x)' <=> Used(x)
  BY <1>4 DEF Used
<1>10. Numbered'
  BY <1>4, <1>5, <1>7, <1>9 DEF Numbered
<1>11. \A x \in Seqs : result[x] = "exception" => result'[x] = "exception"
  BY <1>7 DEF Numbered
<1>12. InspectFailed => InspectFailed'
  BY <1>4, <1>11 DEF InspectFailed
<1>13. QED
  BY <1>8, <1>10, <1>12 DEF Kept

LEMMA BackgroundRest ==
  ASSUME Rest, Numbered, (\E t \in Threads : Notify(t)) \/ Stop \/ Joined
  PROVE  Kept
<1>1. UNCHANGED <<setup, inbox, asked, callbacks, result, expired, nextSeq, nextInspect, open,
                 eof, closed, requested, refs>>
  BY DEF Notify, Stop, Joined, peerVars, seqVars
<1>2. bg' \in [active : BOOLEAN, told : BOOLEAN, stop : {"no", "joining", "stopped", "refused"}]
  <2>1. bg \in [active : BOOLEAN, told : BOOLEAN,
                stop : {"no", "joining", "stopped", "refused"}]
    BY DEF Rest
  <2>2. CASE \E t \in Threads : Notify(t)
    BY <2>1, <2>2 DEF Notify, Raised
  <2>3. CASE Stop
    BY <2>1, <2>3 DEF Stop
  <2>4. CASE Joined
    BY <2>1, <2>4 DEF Joined
  <2>5. QED
    BY <2>2, <2>3, <2>4
<1>3. Rest'
  BY <1>1, <1>2 DEF Rest
<1>4. Numbered'
  BY <1>1 DEF Numbered, Used
<1>5. InspectFailed => InspectFailed'
  BY <1>1 DEF InspectFailed
<1>6. QED
  BY <1>3, <1>4, <1>5 DEF Kept

LEMMA PeerRest ==
  ASSUME Rest, Numbered,
         (\E s \in Seqs : Answer(s) \/ Expire(s)) \/ PeerRequest \/ PeerCloses
  PROVE  Kept
<1>1. UNCHANGED <<setup, callbacks, result, nextSeq, nextInspect, open, closed, bg>>
  BY DEF Answer, Expire, PeerRequest, PeerCloses, Deliver, connVars, seqVars
<1>2. expired \subseteq expired' /\ expired' \subseteq Seqs
  BY DEF Answer, Expire, PeerRequest, PeerCloses, Deliver, Rest
<1>3. setup.requests \in Nat /\ setup.refs \in Nat
  <2>1. setup \in [clients : SUBSET Threads, loopers : SUBSET Threads,
                   pollers : SUBSET Threads, background : SUBSET Threads,
                   timed : BOOLEAN, requests : Nat, refs : 0..MaxInspects,
                   kinds : SUBSET {"reply", "exception"}, mayClose : BOOLEAN]
    BY ServeAssumption DEF Rest
  <2>2. QED
    BY <2>1
<1>4. /\ inbox' \in Seq(Message) /\ asked' \in [Seqs -> {"no", "yes", "answered"}]
      /\ eof' \in BOOLEAN /\ requested' \in 0..setup.requests /\ refs' \in 0..setup.refs
  <2>1. CASE \E s \in Seqs : Answer(s)
    <3>1. PICK s \in Seqs : Answer(s)
      BY <2>1
    <3>2. PICK kind \in (IF s > MaxCalls THEN InspectKinds ELSE setup.kinds), ref \in BOOLEAN :
            /\ ref => kind = "reply" /\ s <= MaxCalls /\ refs < setup.refs
            /\ asked' = [asked EXCEPT ![s] = "answered"]
            /\ refs' = IF ref THEN refs + 1 ELSE refs
            /\ Deliver([kind |-> kind, seq |-> s, ref |-> ref])
            /\ requested' = requested
      BY <3>1 DEF Answer
    <3>3. setup.kinds \subseteq {"reply", "exception"} /\ InspectKinds \subseteq {"reply", "exception"}
      <4>1. setup \in [clients : SUBSET Threads, loopers : SUBSET Threads,
                       pollers : SUBSET Threads, background : SUBSET Threads,
                       timed : BOOLEAN, requests : Nat, refs : 0..MaxInspects,
                       kinds : SUBSET {"reply", "exception"}, mayClose : BOOLEAN]
        BY ServeAssumption DEF Rest
      <4>2. QED
        BY <4>1, ServeAssumption
    <3>4. kind \in {"reply", "exception"}
      BY <3>3
    <3>5. [kind |-> kind, seq |-> s, ref |-> ref] \in Message
      BY <3>4 DEF Message
    <3>6. inbox' \in Seq(Message) /\ eof' = eof
      BY <3>2, <3>5 DEF Deliver, Rest
    <3>7. asked' \in [Seqs -> {"no", "yes", "answered"}]
      BY <3>2 DEF Rest
    <3>8. refs' \in 0..setup.refs
      BY <1>3, <3>2 DEF Rest
    <3>9. QED
      BY <3>2, <3>6, <3>7, <3>8 DEF Rest
  <2>2. CASE \E s \in Seqs : Expire(s)
    BY <2>2 DEF Expire, peerVars, Rest
  <2>3. CASE PeerRequest
    <3>1. [kind |-> "request", seq |-> None, ref |-> FALSE] \in Message
      BY DEF Message
    <3>2. inbox' \in Seq(Message)
      BY <2>3, <3>1 DEF PeerRequest, Deliver, Rest
    <3>3. requested' \in 0..setup.requests
      BY <1>3, <2>3 DEF PeerRequest, Rest
    <3>4. QED
      BY <2>3, <3>2, <3>3 DEF PeerRequest, Deliver, Rest
  <2>4. CASE PeerCloses
    BY <2>4 DEF PeerCloses, Rest
  <2>5. QED
    BY <2>1, <2>2, <2>3, <2>4
<1>5. Rest'
  BY <1>1, <1>2, <1>4 DEF Rest
<1>6. Numbered'
  BY <1>1 DEF Numbered, Used
<1>7. InspectFailed => InspectFailed'
  BY <1>1, <1>2 DEF InspectFailed
<1>8. QED
  BY <1>5, <1>6, <1>7 DEF Kept

LEMMA NextRest ==
  ASSUME TypeOK, Stacks, Numbered, Next
  PROVE  Kept
<1>1. Rest
  BY DEF TypeOK, Rest
<1>2. ASSUME NEW t \in Threads, Call(t) \/ Step(t)
      PROVE  Kept
  BY <1>1, <1>2, PlainRest, SendRest, ReceiveRest, RequestRest, CallbackRest, BackgroundRest
  DEF Step
<1>3. QED
  BY <1>1, <1>2, BackgroundRest, PeerRest DEF Next

-----------------------------------------------------------------------------
(* The inductive invariant.                                                *)
LEMMA InitIInv ==
  ASSUME Init
  PROVE  IInv
<1>1. MaxCalls \in Nat /\ MaxInspects \in Nat /\ None \notin Threads
  BY ServeAssumption
<1>2. NewFrame(None, "head") \in Frame /\ ~Holds(NewFrame(None, "head"))
      /\ NewFrame(None, "head").pc = "head" /\ ~NewFrame(None, "head").raising
  BY DEF NewFrame, Frame, Labels, Heads, Holds
<1>3. PICK h \in Frame : h = NewFrame(None, "head")
  BY <1>2
<1>4. \A t \in Threads : stack[t] = <<h>> \/ stack[t] = <<>>
  BY <1>3 DEF Init
<1>5. FrameOK(h, open) /\ ~Holds(h) /\ h.pc = "head" /\ ~h.raising
  BY <1>2, <1>3 DEF FrameOK
<1>6. TypeOK
  <2>1. stack \in [Threads -> Seq(Frame)]
    <3>1. <<h>> \in Seq(Frame) /\ <<>> \in Seq(Frame)
      OBVIOUS
    <3>2. QED
      BY <1>3, <3>1 DEF Init
  <2>2. setup \in Setups /\ setup.requests \in Nat /\ setup.refs \in Nat
    <3>1. setup \in [clients : SUBSET Threads, loopers : SUBSET Threads,
                     pollers : SUBSET Threads, background : SUBSET Threads,
                     timed : BOOLEAN, requests : Nat, refs : 0..MaxInspects,
                     kinds : SUBSET {"reply", "exception"}, mayClose : BOOLEAN]
      BY ServeAssumption DEF Init
    <3>2. QED
      BY <1>1, <3>1 DEF Init
  <2>3. /\ nextSeq \in 1..(MaxCalls + 1)
        /\ nextInspect \in (MaxCalls + 1)..(MaxCalls + MaxInspects + 1)
        /\ requested \in 0..setup.requests /\ refs \in 0..setup.refs
    BY <1>1, <2>2 DEF Init
  <2>4. /\ inbox \in Seq(Message)
        /\ asked \in [Seqs -> {"no", "yes", "answered"}]
        /\ result \in [Seqs -> {"none", "reply", "exception"}]
        /\ bg \in [active : BOOLEAN, told : BOOLEAN,
                   stop : {"no", "joining", "stopped", "refused"}]
    BY DEF Init
  <2>5. /\ holder \in Threads \cup {None} /\ depth \in Nat
        /\ callbacks \subseteq Seqs /\ expired \subseteq Seqs
        /\ {open, eof, closed} \subseteq BOOLEAN
    BY DEF Init
  <2>6. QED
    BY <2>1, <2>2, <2>3, <2>4, <2>5 DEF TypeOK
<1>7. \A t \in Threads : \A i \in 1..Len(stack[t]) : i = 1 /\ Len(stack[t]) = 1 /\ stack[t][i] = h
  <2>1. SUFFICES ASSUME NEW t \in Threads
                 PROVE  \A i \in 1..Len(stack[t]) :
                          i = 1 /\ Len(stack[t]) = 1 /\ stack[t][i] = h
    OBVIOUS
  <2>2. CASE stack[t] = <<h>>
    BY <2>2
  <2>3. CASE stack[t] = <<>>
    BY <2>3
  <2>4. QED
    BY <1>4, <2>2, <2>3
<1>8. Stacks
  BY <1>5, <1>7 DEF Stacks, Tidy
<1>9. \A t \in Threads : H(t) = 0 /\ D(t) = 0
  <2>1. \A t \in Threads : HoldsOf(stack[t]) = {}
    BY <1>5, <1>7 DEF HoldsOf
  <2>2. \A t \in Threads : H(t) = 0
    BY <2>1, HIs, FS_EmptySet
  <2>3. QED
    BY <2>2 DEF D, Init
<1>10. LockInv
  BY <1>9 DEF LockInv, Init
<1>11. Severed /\ Raising /\ Balanced
  BY <1>5, <1>7, <1>9 DEF Severed, Raising, Balanced, Init
<1>12. Numbered
  BY DEF Numbered, Init
<1>13. \A t \in Threads : stack[t] # <<>> => Top(t) = h
  <2>1. SUFFICES ASSUME NEW t \in Threads, stack[t] # <<>>
                 PROVE  Top(t) = h
    OBVIOUS
  <2>2. stack[t] = <<h>>
    BY <1>4, <2>1
  <2>3. QED
    BY <2>2 DEF Top
<1>14. \A t \in Threads : ~At(t, Waits) /\ ~At(t, {"check", "sleep"}) /\ ~At(t, {"poll"})
  BY <1>5, <1>13 DEF At, Waits
<1>15. Outside /\ OneChecks /\ Wakeful /\ NoPollForReadyResult
  BY <1>14 DEF Outside, OneChecks, Wakeful, NoPollForReadyResult
<1>16. QED
  BY <1>6, <1>8, <1>10, <1>11, <1>12, <1>15 DEF IInv

LEMMA TypeFrom ==
  ASSUME Rest', stack' \in [Threads -> Seq(Frame)], holder' \in Threads \cup {None},
         depth' \in Nat
  PROVE  TypeOK'
BY DEF Rest, TypeOK

LEMMA MoveIInv ==
  ASSUME IInv, Kept, NEW t \in Threads, Move(t)
  PROVE  IInv'
<1>1. /\ TypeOK /\ Stacks /\ LockInv /\ Severed /\ Raising /\ Balanced
      /\ Numbered /\ Outside /\ OneChecks /\ Wakeful /\ NoPollForReadyResult
  BY DEF IInv
<1>2. Rest' /\ Numbered' /\ (InspectFailed => InspectFailed')
  BY DEF Kept
<1>3. LockStep(t) /\ Quiet(t)
  BY <1>1, MoveLocks
<1>4. TypeOK'
  BY <1>2, <1>3, TypeFrom DEF LockStep, Quiet
<1>5. Stacks' /\ LockInv' /\ Severed' /\ Outside' /\ OneChecks' /\ Wakeful'
      /\ NoPollForReadyResult'
  BY <1>1, MoveStacks, MoveLockInv, MoveSevered, MoveOutside, MoveOneChecks, MoveWakeful,
     MoveNoPoll
<1>6. Raising' /\ Balanced'
  BY <1>1, <1>2, MoveRaising, MoveBalanced
<1>7. QED
  BY <1>2, <1>4, <1>5, <1>6 DEF IInv

LEMMA StaysIInv ==
  ASSUME IInv, Kept, Stays
  PROVE  IInv'
<1>1. /\ TypeOK /\ Stacks /\ LockInv /\ Severed /\ Raising /\ Balanced
      /\ Outside /\ OneChecks /\ Wakeful /\ NoPollForReadyResult
  BY DEF IInv
<1>2. Rest' /\ Numbered' /\ (InspectFailed => InspectFailed')
  BY DEF Kept
<1>3. /\ stack' = stack /\ holder' = holder /\ depth' = depth /\ open' = open
      /\ closed' = closed /\ result' = result
  BY DEF Stays, lockVars
<1>4. TypeOK'
  BY <1>1, <1>2, <1>3, TypeFrom DEF TypeOK
<1>5. \A t : H(t)' = H(t) /\ D(t)' = D(t) /\ (Doomed(t)' <=> Doomed(t))
  BY <1>3, HIs DEF D, Doomed, At, Top
<1>6. \A t, pcs : At(t, pcs)' <=> At(t, pcs)
  BY <1>3 DEF At, Top
<1>7. Stacks' /\ LockInv' /\ Severed'
  BY <1>1, <1>3, <1>5, <1>6 DEF Stacks, LockInv, Severed
<1>8. Raising' /\ Balanced'
  BY <1>1, <1>2, <1>3, <1>5 DEF Raising, Balanced
<1>9. Outside' /\ OneChecks' /\ NoPollForReadyResult'
  BY <1>1, <1>3 DEF Outside, OneChecks, NoPollForReadyResult, At, Top
<1>10. Wakeful'
  BY <1>1, <1>3 DEF Wakeful, Notifies, At, Top
<1>11. QED
  BY <1>2, <1>4, <1>7, <1>8, <1>9, <1>10 DEF IInv

LEMMA NextIInv ==
  ASSUME IInv, [Next]_vars
  PROVE  IInv'
<1>1. TypeOK /\ Stacks /\ Raising /\ Numbered
  BY DEF IInv
<1>2. CASE Next
  <2>1. Kept
    BY <1>1, <1>2, NextRest
  <2>2. CASE \E t \in Threads : Call(t) \/ Step(t)
    <3>1. PICK t \in Threads : Step(t) \/ Call(t)
      BY <2>2
    <3>2. Move(t)
      BY <1>1, <3>1, StepMoves
    <3>3. QED
      BY <2>1, <3>2, MoveIInv
  <2>3. CASE Stop \/ Joined \/ (\E s \in Seqs : Answer(s) \/ Expire(s)) \/ PeerRequest
             \/ PeerCloses
    BY <2>1, <2>3, OtherMoves, StaysIInv
  <2>4. QED
    BY <1>2, <2>2, <2>3 DEF Next
<1>3. CASE UNCHANGED vars
  <2>1. Rest
    BY <1>1 DEF TypeOK, Rest
  <2>2. UNCHANGED restVars /\ Stays
    BY <1>3 DEF vars, restVars, Stays, lockVars
  <2>3. Kept
    BY <1>1, <2>1, <2>2, RestSame
  <2>4. QED
    BY <2>2, <2>3, StaysIInv
<1>4. QED
  BY <1>2, <1>3

-----------------------------------------------------------------------------
(* The theorems.                                                           *)
LEMMA Invariance == Spec => []IInv
<1>1. Init => IInv
  BY InitIInv
<1>2. IInv /\ [Next]_vars => IInv'
  BY NextIInv
<1>3. QED
  BY <1>1, <1>2, PTL DEF Spec

(* The types are right, and on an open connection the receive lock is held *)
(* exactly by the activations that are receiving or dispatching a reply,   *)
(* whatever threads, nested requests and disconnections do, unless a       *)
(* HANDLE_INSPECT has failed (protocol.py:421).                            *)
THEOREM LockIsBalanced == Spec => []Inv
<1>1. IInv => Inv
  <2>1. Balanced => LockBalanced
    BY DEF Balanced, LockBalanced, H, D
  <2>2. QED
    BY <2>1 DEF IInv, Inv
<1>2. QED
  BY <1>1, Invariance, PTL

(* No thread is in poll, waiting for a reply that has arrived already: the *)
(* check under the receive lock in serve is enough (protocol.py:455).      *)
THEOREM NoPollForReply == Spec => []NoPollForReadyResult
<1>1. IInv => NoPollForReadyResult
  BY DEF IInv
<1>2. QED
  BY <1>1, Invariance, PTL

(* A thread asleep on _recv_event has another that will notify: the owner  *)
(* of the receive lock, or one that has just released it and not yet gone  *)
(* through the finally clause of serve.                                    *)
LEMMA WakeupFromIInv ==
  ASSUME IInv
  PROVE  NoLostWakeup
<1>1. TypeOK /\ LockInv /\ Outside /\ Wakeful
  BY DEF IInv
<1>2. SUFFICES ASSUME NEW t \in Threads, At(t, {"asleep"}), ~LeftBehind
               PROVE  \E u \in Threads : /\ ~At(u, {"asleep"})
                                         /\ \E i \in 1..Len(stack[u]) :
                                              stack[u][i].pc \in WillNotify
  BY DEF NoLostWakeup
<1>3. CASE holder = None
  <2>1. At(t, Waits)
    BY <1>2 DEF At, Waits
  <2>2. PICK u \in Threads : Notifies(u)
    BY <1>1, <1>3, <2>1 DEF Wakeful
  <2>3. ~At(u, {"asleep"})
    BY <2>2 DEF Notifies, At, Waits
  <2>4. QED
    BY <2>2, <2>3 DEF Notifies
<1>4. CASE holder # None
  <2>1. PICK u \in Threads : u = holder
    BY <1>1, <1>4 DEF TypeOK
  <2>2. depth \in Nat /\ depth # 0 /\ H(u) \in Nat
    BY <1>1, <1>4, HType DEF TypeOK, LockInv
  <2>3. ~(H(u) < depth)
    BY <1>2, <1>4, <2>1 DEF LeftBehind, H
  <2>4. H(u) # 0
    BY <2>2, <2>3
  <2>5. HoldsOf(stack[u]) # {}
    BY <2>4, HIs, FS_EmptySet
  <2>6. PICK i \in 1..Len(stack[u]) : Holds(stack[u][i])
    BY <2>5 DEF HoldsOf
  <2>7. stack[u][i].pc \in WillNotify
    BY <2>6 DEF Holds, WillNotify
  <2>8. ~At(u, {"asleep"})
    BY <1>1, <2>1 DEF Outside, At, Waits
  <2>9. QED
    BY <2>7, <2>8
<1>5. QED
  BY <1>3, <1>4

(* No wakeup is lost: while a thread sleeps in serve, another one, itself  *)
(* not asleep, has still to go through notify_all, unless the receive lock *)
(* has been left behind.                                                   *)
THEOREM NobodySleepsAlone == Spec => []NoLostWakeup
<1>1. IInv => NoLostWakeup
  BY WakeupFromIInv
<1>2. QED
  BY <1>1, Invariance, PTL

=============================================================================
