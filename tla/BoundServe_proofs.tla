-------------------------- MODULE BoundServe_proofs --------------------------
(***************************************************************************)
(* Proofs about BoundServe, for any number of threads, calls of this side  *)
(* and of the peer, and any setup.                                         *)
(***************************************************************************)
EXTENDS BoundServe, FiniteSetTheorems, SequenceTheorems, WellFoundedInduction, TLAPS

-----------------------------------------------------------------------------
(* What the operators on sequences yield.                                  *)

(* A set of natural numbers that is not empty has a least.                 *)
LEMMA MinIsLeast ==
  ASSUME NEW I \in SUBSET Nat, I # {}
  PROVE  Min(I) \in I /\ \A j \in I : Min(I) <= j
<1>1. PICK x \in I : \A y \in I : ~ (<<y, x>> \in OpToRel(<, Nat))
  BY NatLessThanWellFounded, WFMin
<1>2. \A y \in I : x <= y
  <2> SUFFICES ASSUME NEW y \in I, y < x PROVE FALSE
    OBVIOUS
  <2>1. <<y, x>> \in OpToRel(<, Nat)
    BY DEF OpToRel
  <2>2. QED
    BY <1>1, <2>1
<1>3. QED
  BY <1>2 DEF Min

(* One element less: what was in front of it stays, the rest moves up.     *)
LEMMA RemoveAtIs ==
  ASSUME NEW S, NEW s \in Seq(S), NEW i \in 1..Len(s)
  PROVE  /\ RemoveAt(s, i) \in Seq(S)
         /\ Len(RemoveAt(s, i)) = Len(s) - 1
         /\ \A k \in 1..(Len(s) - 1) : RemoveAt(s, i)[k] = IF k < i THEN s[k] ELSE s[k + 1]
<1> DEFINE a == SubSeq(s, 1, i - 1)
           b == SubSeq(s, i + 1, Len(s))
<1>1. a \in Seq(S) /\ Len(a) = i - 1 /\ \A k \in 1..(i - 1) : a[k] = s[k]
  OBVIOUS
<1>2. b \in Seq(S) /\ Len(b) = Len(s) - i /\ \A k \in 1..(Len(s) - i) : b[k] = s[k + i]
  OBVIOUS
<1>3. RemoveAt(s, i) = a \o b
  BY DEF RemoveAt
<1> HIDE DEF a, b
<1>4. /\ a \o b \in Seq(S) /\ Len(a \o b) = Len(s) - 1
      /\ \A k \in 1..(Len(s) - 1) : (a \o b)[k] = IF k <= i - 1 THEN a[k] ELSE b[k - (i - 1)]
  <2>1. /\ a \o b \in Seq(S) /\ Len(a \o b) = Len(a) + Len(b)
        /\ \A k \in 1..(Len(a) + Len(b)) : (a \o b)[k] = IF k <= Len(a) THEN a[k] ELSE b[k - Len(a)]
    BY <1>1, <1>2, ConcatProperties
  <2>2. Len(a) + Len(b) = Len(s) - 1
    BY <1>1, <1>2
  <2>3. QED
    BY <1>1, <2>1, <2>2
<1>5. ASSUME NEW k \in 1..(Len(s) - 1)
      PROVE  (a \o b)[k] = IF k < i THEN s[k] ELSE s[k + 1]
  <2>1. CASE k < i
    BY <1>1, <1>4, <2>1
  <2>2. CASE ~(k < i)
    <3>1. k - (i - 1) \in 1..(Len(s) - i) /\ k - (i - 1) + i = k + 1
      BY <2>2
    <3>2. QED
      BY <1>2, <1>4, <2>2, <3>1
  <2>3. QED
    BY <2>1, <2>2
<1>6. QED
  BY <1>3, <1>4, <1>5

LEMMA RemoveFirstIs ==
  ASSUME NEW S, NEW s \in Seq(S), NEW e, NEW j \in 1..Len(s), s[j] = e
  PROVE  \E i \in 1..Len(s) : s[i] = e /\ RemoveFirst(s, e) = RemoveAt(s, i)
<1> DEFINE I == {i \in 1..Len(s) : s[i] = e}
<1>1. Min(I) \in I
  <2>1. I \in SUBSET Nat /\ I # {}
    OBVIOUS
  <2>2. QED
    BY <2>1, MinIsLeast
<1>2. SelectInSeq(s, LAMBDA v : v = e) = Min(I)
  BY DEF SelectInSeq
<1>3. RemoveFirst(s, e) = RemoveAt(s, Min(I))
  BY <1>2 DEF RemoveFirst
<1>4. QED
  BY <1>1, <1>3

(* The pool hands the receiving end to a thread whose event is not set, or *)
(* has none.                                                               *)
LEMMA WokenIs ==
  ASSUME pool \in Seq(Threads)
  PROVE  \/ Woken = event /\ \A i \in 1..Len(pool) : pool[i] \in event
         \/ \E i \in 1..Len(pool) : pool[i] \notin event /\ Woken = event \cup {pool[i]}
<1> DEFINE I == {i \in 1..Len(pool) : pool[i] \notin event}
<1>1. SelectInSeq(pool, LAMBDA u : u \notin event) = IF I # {} THEN Min(I) ELSE 0
  BY DEF SelectInSeq
<1>2. CASE I = {}
  BY <1>1, <1>2 DEF Woken
<1>3. CASE I # {}
  <2>1. Min(I) \in I
    <3>1. I \in SUBSET Nat
      OBVIOUS
    <3>2. QED
      BY <1>3, <3>1, MinIsLeast
  <2>2. Min(I) # 0
    BY <2>1
  <2>3. Woken = event \cup {pool[Min(I)]}
    BY <1>1, <1>3, <2>2 DEF Woken
  <2>4. QED
    BY <2>1, <2>3
<1>4. QED
  BY <1>2, <1>3

(* A message that is for anyone goes to a free thread of the pool, or to   *)
(* one of the executor.                                                    *)
LEMMA HandToFreeIs ==
  ASSUME pool \in Seq(Threads), NEW t, HandToFree(t)
  PROVE  \/ UNCHANGED stack /\ \E i \in 1..Len(pool) : Free(pool[i]) /\ Hand(pool[i], Head(inbox))
         \/ \E u \in Temps : ServeTemporary(u, Head(inbox))
<1> DEFINE I == {i \in 1..Len(pool) : Free(pool[i])}
<1>1. SelectInSeq(pool, Free) = IF I # {} THEN Min(I) ELSE 0
  BY DEF SelectInSeq
<1>2. I # {} => Min(I) \in I
  <2>1. I \in SUBSET Nat
    OBVIOUS
  <2>2. QED
    BY <2>1, MinIsLeast
<1>3. CASE I = {}
  BY <1>1, <1>3 DEF HandToFree
<1>4. CASE I # {}
  <2>1. Min(I) # 0
    BY <1>2, <1>4
  <2>2. UNCHANGED stack /\ Hand(pool[Min(I)], Head(inbox))
    BY <1>1, <1>4, <2>1 DEF HandToFree
  <2>3. QED
    BY <1>2, <1>4, <2>2
<1>5. QED
  BY <1>3, <1>4

(* The entry that a handler's end takes from a thread of the peer.         *)
LEMMA WithoutIs ==
  ASSUME NEW S, NEW s \in Seq(S), NEW q
  PROVE  \/ Without(s, q) = s /\ \A i \in 1..Len(s) : s[i].seq # q
         \/ \E i \in 1..Len(s) : s[i].seq = q /\ Without(s, q) = RemoveAt(s, i)
<1> DEFINE I == {i \in 1..Len(s) : s[i].seq = q}
<1>1. SelectInSeq(s, LAMBDA item : item.seq = q) = IF I # {} THEN Min(I) ELSE 0
  BY DEF SelectInSeq
<1>2. I # {} => Min(I) \in I
  <2>1. I \in SUBSET Nat
    OBVIOUS
  <2>2. QED
    BY <2>1, MinIsLeast
<1>3. CASE I = {}
  <2>1. ~ \E i \in 1..Len(s) : s[i].seq = q
    BY <1>3
  <2>2. Without(s, q) = s
    BY <2>1 DEF Without, RemoveFirstMatch
  <2>3. QED
    BY <2>1, <2>2
<1>4. CASE I # {}
  <2>1. \E i \in 1..Len(s) : s[i].seq = q
    BY <1>4
  <2>2. Without(s, q) = RemoveAt(s, Min(I))
    BY <1>1, <1>4, <2>1 DEF Without, RemoveFirstMatch
  <2>3. QED
    BY <1>2, <1>4, <2>2
<1>5. QED
  BY <1>3, <1>4

-----------------------------------------------------------------------------
(* What a step does to the stack of a thread: the innermost activation     *)
(* goes elsewhere, one begins, one ends, all end.                          *)
Stacks == [Threads -> Seq(Frame)]

Others(t) == \A u \in Threads : u # t => stack'[u] = stack[u]

Becomes(t, pc, d) ==
  /\ Others(t)
  /\ stack[t] # <<>>
  /\ Len(stack'[t]) = Len(stack[t])
  /\ stack'[t][Len(stack[t])] = [pc |-> pc, waits |-> Top(t).waits, data |-> d]
  /\ \A i \in 1..(Len(stack[t]) - 1) : stack'[t][i] = stack[t][i]

Begins(t, f) ==
  /\ Others(t)
  /\ Len(stack'[t]) = Len(stack[t]) + 1
  /\ stack'[t][Len(stack[t]) + 1] = f
  /\ \A i \in 1..Len(stack[t]) : stack'[t][i] = stack[t][i]

Ends(t) ==
  /\ Others(t)
  /\ stack[t] # <<>>
  /\ Len(stack'[t]) = Len(stack[t]) - 1
  /\ \A i \in 1..(Len(stack[t]) - 1) : stack'[t][i] = stack[t][i]

AllEnd(t) == Others(t) /\ stack'[t] = <<>>

LEMMA TopIs ==
  ASSUME stack \in Stacks, NEW t \in Threads, stack[t] # <<>>
  PROVE  /\ Len(stack[t]) \in Nat /\ Len(stack[t]) >= 1
         /\ Top(t) = stack[t][Len(stack[t])]
         /\ Top(t) \in Frame
<1>1. stack[t] \in Seq(Frame)
  BY DEF Stacks
<1>2. Len(stack[t]) \in Nat /\ Len(stack[t]) >= 1 /\ stack[t][Len(stack[t])] \in Frame
  BY <1>1
<1>3. QED
  BY <1>2 DEF Top, Last

LEMMA WithBecomes ==
  ASSUME stack \in Stacks, NEW t \in Threads, stack[t] # <<>>, NEW f \in Frame, f.waits = Top(t).waits,
         stack' = With(t, f)
  PROVE  Becomes(t, f.pc, f.data) /\ stack' \in Stacks
<1>1. stack[t] \in Seq(Frame)
  BY DEF Stacks
<1> DEFINE n == Len(stack[t])
           s == [stack[t] EXCEPT ![n] = f]
<1>2. n \in Nat /\ n >= 1
  BY <1>1
<1>3. s \in Seq(Frame) /\ Len(s) = n /\ s[n] = f /\ \A i \in 1..(n - 1) : s[i] = stack[t][i]
  BY <1>1, <1>2
<1>4. stack' = [stack EXCEPT ![t] = s]
  BY DEF With
<1> HIDE DEF s
<1>5. stack'[t] = s /\ Others(t) /\ stack' \in Stacks
  BY <1>3, <1>4 DEF Others, Stacks
<1>6. f = [pc |-> f.pc, waits |-> Top(t).waits, data |-> f.data]
  BY DEF Frame
<1>7. QED
  BY <1>3, <1>5, <1>6 DEF Becomes

LEMMA GotoBecomes ==
  ASSUME stack \in Stacks, NEW t \in Threads, stack[t] # <<>>, NEW pc \in Labels, Goto(t, pc)
  PROVE  Becomes(t, pc, Top(t).data) /\ stack' \in Stacks
<1>1. Top(t) \in Frame
  BY TopIs
<1> DEFINE f == [Top(t) EXCEPT !.pc = pc]
<1>2. f \in Frame /\ f.waits = Top(t).waits /\ f.pc = pc /\ f.data = Top(t).data
  BY <1>1 DEF Frame
<1>3. stack' = With(t, f)
  BY DEF Goto
<1> HIDE DEF f
<1>4. QED
  BY <1>2, <1>3, WithBecomes

LEMMA PushBegins ==
  ASSUME stack \in Stacks, NEW t \in Threads, NEW f \in Frame, Push(t, f)
  PROVE  Begins(t, f) /\ stack' \in Stacks
<1>1. stack[t] \in Seq(Frame)
  BY DEF Stacks
<1> DEFINE s == Append(stack[t], f)
<1>2. /\ s \in Seq(Frame) /\ Len(s) = Len(stack[t]) + 1 /\ s[Len(stack[t]) + 1] = f
      /\ \A i \in 1..Len(stack[t]) : s[i] = stack[t][i]
  BY <1>1, AppendProperties
<1>3. stack' = [stack EXCEPT ![t] = s]
  BY DEF Push
<1> HIDE DEF s
<1>4. stack'[t] = s /\ Others(t) /\ stack' \in Stacks
  BY <1>2, <1>3 DEF Others, Stacks
<1>5. QED
  BY <1>2, <1>4 DEF Begins

LEMMA FrontEnds ==
  ASSUME stack \in Stacks, NEW t \in Threads, stack[t] # <<>>,
         stack' = [stack EXCEPT ![t] = Front(stack[t])]
  PROVE  Ends(t) /\ stack' \in Stacks
<1>1. stack[t] \in Seq(Frame)
  BY DEF Stacks
<1> DEFINE s == Front(stack[t])
<1>2. /\ s \in Seq(Frame) /\ Len(s) = Len(stack[t]) - 1
      /\ \A i \in 1..(Len(stack[t]) - 1) : s[i] = stack[t][i]
  BY <1>1 DEF Front
<1> HIDE DEF s
<1>3. stack'[t] = s /\ Others(t) /\ stack' \in Stacks
  BY <1>2 DEF Others, Stacks, s
<1>4. QED
  BY <1>2, <1>3 DEF Ends

LEMMA UnwindEnds ==
  ASSUME stack \in Stacks, NEW t \in Threads, Unwind(t)
  PROVE  AllEnd(t) /\ stack' \in Stacks
BY DEF Unwind, AllEnd, Others, Stacks


-----------------------------------------------------------------------------
(* Messages on their way: in the inbox, or in the deque of a thread.       *)
Boxes == Threads \cup {None}

Box(b) == IF b = None THEN inbox ELSE deque[b]

Slots == {x \in Boxes \X Nat : x[2] \in 1..Len(Box(x[1]))}

Mail(x) == Box(x[1])[x[2]]

Mails == inbox \in Seq(Message) /\ deque \in [Threads -> Seq(Message)]

(* After a step g tells where each message was before it.                  *)
Carried(g) ==
  /\ \A x \in Slots' : g[x] \in Slots /\ Mail(x)' = Mail(g[x])
  /\ \A x, y \in Slots' : g[x] = g[y] => x = y

(* The boxes are sequences of messages.                                    *)
LEMMA BoxType ==
  ASSUME Mails, NEW b \in Boxes
  PROVE  Box(b) \in Seq(Message) /\ Len(Box(b)) \in Nat
BY BoundAssumption DEF Mails, Boxes, Box

LEMMA SlotIs ==
  ASSUME NEW x \in Slots
  PROVE  x[1] \in Boxes /\ x[2] \in 1..Len(Box(x[1])) /\ x = <<x[1], x[2]>>
BY DEF Slots

LEMMA SlotOf ==
  ASSUME Mails, NEW b \in Boxes, NEW i \in 1..Len(Box(b))
  PROVE  <<b, i>> \in Slots /\ Mail(<<b, i>>) = Box(b)[i]
BY BoxType DEF Slots, Mail

LEMMA MailType ==
  ASSUME Mails, NEW x \in Slots
  PROVE  Mail(x) \in Message
BY BoxType, SlotIs, ElementOfSeq DEF Mail

(* Nothing moves.                                                          *)
LEMMA MailStays ==
  ASSUME UNCHANGED <<inbox, deque>>
  PROVE  /\ Slots' = Slots /\ \A x : Mail(x)' = Mail(x)
         /\ \E g : Carried(g) /\ \A x \in Slots' : g[x] = x
<1>1. \A b : Box(b)' = Box(b)
  BY DEF Box
<1>2. Slots' = Slots /\ \A x : Mail(x)' = Mail(x)
  BY <1>1 DEF Slots, Mail
<1> DEFINE g == [x \in Slots |-> x]
<1>3. \A x \in Slots' : g[x] = x
  BY <1>2
<1> HIDE DEF g
<1>4. Carried(g)
  BY <1>2, <1>3, Zenon DEF Carried
<1>5. QED
  BY <1>2, <1>3, <1>4

(* The first message leaves box b.                                         *)
LEMMA MailTaken ==
  ASSUME Mails, NEW b \in Boxes, Box(b) # <<>>, Box(b)' = Tail(Box(b)),
         \A c \in Boxes : c # b => Box(c)' = Box(c)
  PROVE  /\ <<b, 1>> \in Slots /\ Mail(<<b, 1>>) = Head(Box(b))
         /\ \E g : /\ Carried(g)
                   /\ \A x \in Slots' : g[x][1] = x[1] /\ g[x] # <<b, 1>>
<1>1. /\ Box(b) \in Seq(Message) /\ Len(Box(b)) \in Nat /\ Len(Box(b)) >= 1
      /\ Len(Box(b)') = Len(Box(b)) - 1
      /\ \A i \in 1..(Len(Box(b)) - 1) : Box(b)'[i] = Box(b)[i + 1]
      /\ Head(Box(b)) = Box(b)[1]
  BY BoxType
<1>2. <<b, 1>> \in Slots /\ Mail(<<b, 1>>) = Head(Box(b))
  <2>1. 1 \in 1..Len(Box(b))
    BY <1>1
  <2>2. QED
    BY <1>1, <2>1, SlotOf
<1> DEFINE g == [x \in Slots' |-> IF x[1] = b THEN <<b, x[2] + 1>> ELSE x]
<1>3. ASSUME NEW x \in Slots'
      PROVE  /\ x[1] \in Boxes /\ x = <<x[1], x[2]>> /\ x[2] \in Nat /\ x[2] >= 1
             /\ g[x] \in Slots /\ Mail(x)' = Mail(g[x])
             /\ g[x][1] = x[1] /\ g[x] # <<b, 1>>
             /\ g[x][2] = IF x[1] = b THEN x[2] + 1 ELSE x[2]
  <2>1. x[1] \in Boxes /\ x[2] \in Nat /\ x[2] \in 1..Len(Box(x[1])') /\ x = <<x[1], x[2]>>
    BY DEF Slots, Boxes
  <2>2. CASE x[1] = b
    <3>1. g[x] = <<b, x[2] + 1>> /\ x[2] + 1 \in 1..Len(Box(b)) /\ x[2] \in 1..(Len(Box(b)) - 1)
      BY <1>1, <2>1, <2>2
    <3>2. g[x] \in Slots /\ Mail(g[x]) = Box(b)[x[2] + 1]
      BY <3>1, SlotOf
    <3>3. Mail(x)' = Box(b)'[x[2]]
      BY <2>2 DEF Mail
    <3>4. QED
      BY <1>1, <2>1, <2>2, <3>1, <3>2, <3>3
  <2>3. CASE x[1] # b
    <3>1. g[x] = x /\ Box(x[1])' = Box(x[1])
      BY <2>1, <2>3
    <3>2. x \in Slots /\ Mail(x) = Box(x[1])[x[2]]
      BY <2>1, <3>1, SlotOf
    <3>3. Mail(x)' = Box(x[1])'[x[2]]
      BY DEF Mail
    <3>4. QED
      BY <2>1, <2>3, <3>1, <3>2, <3>3
  <2>4. QED
    BY <2>2, <2>3
<1> HIDE DEF g
<1>4. ASSUME NEW x \in Slots', NEW y \in Slots', g[x] = g[y]
      PROVE  x = y
  <2>1. x[1] = y[1] /\ x[2] = y[2]
    BY <1>3, <1>4
  <2>2. QED
    BY <1>3, <2>1
<1>5. Carried(g)
  BY <1>3, <1>4 DEF Carried
<1>6. QED
  BY <1>2, <1>3, <1>5

(* The first message of the inbox goes to the end of the deque of u.       *)
LEMMA MailMoved ==
  ASSUME Mails, NEW u \in Threads, inbox # <<>>, inbox' = Tail(inbox),
         deque' = [deque EXCEPT ![u] = Append(deque[u], Head(inbox))]
  PROVE  /\ <<None, 1>> \in Slots /\ Mail(<<None, 1>>) = Head(inbox)
         /\ \E g : /\ Carried(g)
                   /\ \A x \in Slots' : IF g[x] = <<None, 1>> THEN x = <<u, Len(deque[u]) + 1>>
                                                              ELSE g[x][1] = x[1]
<1>1. /\ inbox \in Seq(Message) /\ Len(inbox) \in Nat /\ Len(inbox) >= 1
      /\ Len(inbox') = Len(inbox) - 1
      /\ \A i \in 1..(Len(inbox) - 1) : inbox'[i] = inbox[i + 1]
      /\ Head(inbox) = inbox[1]
  BY DEF Mails
<1>2. deque[u] \in Seq(Message) /\ Head(inbox) \in Message /\ Len(deque[u]) \in Nat
  BY <1>1 DEF Mails
<1>3. /\ Len(deque'[u]) = Len(deque[u]) + 1
      /\ deque'[u][Len(deque[u]) + 1] = Head(inbox)
      /\ \A i \in 1..Len(deque[u]) : deque'[u][i] = deque[u][i]
      /\ \A v \in Threads : v # u => deque'[v] = deque[v]
  <2>1. deque'[u] = Append(deque[u], Head(inbox)) /\ \A v \in Threads : v # u => deque'[v] = deque[v]
    BY DEF Mails
  <2>2. QED
    BY <1>2, <2>1, AppendProperties
<1>4. None \in Boxes /\ u \in Boxes /\ u # None /\ Box(None) = inbox /\ Box(None)' = inbox'
      /\ \A v \in Threads : v # None /\ Box(v) = deque[v] /\ Box(v)' = deque'[v]
  BY BoundAssumption DEF Boxes, Box
<1>5. <<None, 1>> \in Slots /\ Mail(<<None, 1>>) = Head(inbox)
  <2>1. 1 \in 1..Len(Box(None))
    BY <1>1, <1>4
  <2>2. QED
    BY <1>1, <1>4, <2>1, SlotOf
<1> DEFINE n == Len(deque[u]) + 1
           g == [x \in Slots' |-> IF x[1] = None THEN <<None, x[2] + 1>>
                                  ELSE IF x = <<u, n>> THEN <<None, 1>> ELSE x]
<1>6. ASSUME NEW x \in Slots'
      PROVE  /\ x[1] \in Boxes /\ x = <<x[1], x[2]>> /\ x[2] \in Nat /\ x[2] >= 1
             /\ g[x] \in Slots /\ Mail(x)' = Mail(g[x])
             /\ x[1] = None => g[x] = <<None, x[2] + 1>>
             /\ x[1] # None => IF x = <<u, n>> THEN g[x] = <<None, 1>> ELSE g[x] = x
  <2>1. x[1] \in Boxes /\ x[2] \in Nat /\ x[2] \in 1..Len(Box(x[1])') /\ x = <<x[1], x[2]>>
    BY DEF Slots, Boxes
  <2>2. CASE x[1] = None
    <3>1. g[x] = <<None, x[2] + 1>> /\ x[2] + 1 \in 1..Len(inbox) /\ x[2] \in 1..(Len(inbox) - 1)
      BY <1>1, <1>4, <2>1, <2>2
    <3>2. g[x] \in Slots /\ Mail(g[x]) = inbox[x[2] + 1]
      BY <1>4, <3>1, SlotOf
    <3>3. Mail(x)' = inbox'[x[2]]
      BY <1>4, <2>2 DEF Mail
    <3>4. QED
      BY <1>1, <2>1, <2>2, <3>1, <3>2, <3>3
  <2>3. CASE x[1] # None
    <3>1. x[1] \in Threads /\ Box(x[1]) = deque[x[1]] /\ Box(x[1])' = deque'[x[1]]
      BY <1>4, <2>1, <2>3 DEF Boxes
    <3>2. Mail(x)' = deque'[x[1]][x[2]]
      BY <3>1 DEF Mail
    <3>3. CASE x = <<u, n>>
      <4>1. g[x] = <<None, 1>> /\ Mail(x)' = Head(inbox)
        BY <1>3, <2>3, <3>2, <3>3
      <4>2. QED
        BY <1>5, <2>1, <2>3, <3>3, <4>1
    <3>4. CASE x # <<u, n>>
      <4>1. g[x] = x
        BY <2>3, <3>4
      <4>2. x[2] \in 1..Len(deque[x[1]]) /\ deque'[x[1]][x[2]] = deque[x[1]][x[2]]
        <5>1. CASE x[1] = u
          BY <1>2, <1>3, <2>1, <3>1, <3>4, <5>1
        <5>2. CASE x[1] # u
          BY <1>3, <2>1, <3>1, <5>2
        <5>3. QED
          BY <5>1, <5>2
      <4>3. x \in Slots /\ Mail(x) = deque[x[1]][x[2]]
        BY <2>1, <3>1, <4>2, SlotOf
      <4>4. QED
        BY <2>1, <2>3, <3>2, <3>4, <4>1, <4>2, <4>3
    <3>5. QED
      BY <3>3, <3>4
  <2>4. QED
    BY <2>2, <2>3
<1> HIDE DEF g
<1>7. ASSUME NEW x \in Slots', NEW y \in Slots', g[x] = g[y]
      PROVE  x = y
  <2>1. CASE x[1] = None /\ y[1] = None
    <3>1. x[2] + 1 = y[2] + 1
      BY <1>6, <1>7, <2>1
    <3>2. QED
      BY <1>6, <2>1, <3>1
  <2>2. CASE x[1] # None /\ y[1] # None
    <3>1. <<None, 1>>[1] = None
      OBVIOUS
    <3>2. QED
      BY <1>6, <1>7, <2>2, <3>1
  <2>3. ASSUME NEW z \in Slots', NEW w \in Slots', z[1] = None, w[1] # None, g[z] = g[w]
        PROVE  FALSE
    <3>1. g[z] = <<None, z[2] + 1>> /\ z[2] \in Nat /\ z[2] >= 1
      BY <1>6, <2>3
    <3>2. CASE w = <<u, n>>
      <4>1. <<None, z[2] + 1>> = <<None, 1>>
        BY <1>6, <2>3, <3>1, <3>2
      <4>2. z[2] + 1 = 1
        BY <4>1
      <4>3. QED
        BY <3>1, <4>2
    <3>3. CASE w # <<u, n>>
      <4>1. w = <<None, z[2] + 1>>
        BY <1>6, <2>3, <3>1, <3>3
      <4>2. QED
        BY <2>3, <4>1
    <3>4. QED
      BY <3>2, <3>3
  <2>4. QED
    BY <1>7, <2>1, <2>2, <2>3
<1>8. Carried(g)
  BY <1>6, <1>7 DEF Carried
<1>9. ASSUME NEW x \in Slots'
      PROVE  IF g[x] = <<None, 1>> THEN x = <<u, n>> ELSE g[x][1] = x[1]
  <2>1. CASE x[1] = None
    <3>1. g[x] = <<None, x[2] + 1>> /\ x[2] + 1 # 1
      BY <1>6, <2>1
    <3>2. g[x] # <<None, 1>> /\ g[x][1] = None
      BY <3>1
    <3>3. QED
      BY <2>1, <3>2
  <2>2. CASE x[1] # None
    <3>1. <<None, 1>>[1] = None
      OBVIOUS
    <3>2. QED
      BY <1>6, <2>2, <3>1
  <2>3. QED
    BY <2>1, <2>2
<1>10. QED
  BY <1>5, <1>8, <1>9

(* A message is put into the inbox.                                        *)
LEMMA MailPut ==
  ASSUME Mails, NEW m \in Message, inbox' = Append(inbox, m), UNCHANGED deque
  PROVE  \E n : /\ n \notin Slots /\ Slots' = Slots \cup {n}
                /\ n[1] = None /\ Mail(n)' = m
                /\ \A x \in Slots : Mail(x)' = Mail(x)
<1>1. /\ inbox \in Seq(Message) /\ Len(inbox) \in Nat
      /\ Len(inbox') = Len(inbox) + 1 /\ inbox'[Len(inbox) + 1] = m
      /\ \A i \in 1..Len(inbox) : inbox'[i] = inbox[i]
  BY AppendProperties DEF Mails
<1>2. None \in Boxes /\ Box(None) = inbox /\ Box(None)' = inbox'
      /\ \A v \in Threads : v # None /\ Box(v)' = Box(v)
  BY BoundAssumption DEF Boxes, Box
<1>3. PICK n : n = <<None, Len(inbox) + 1>> /\ n[1] = None /\ n[2] = Len(inbox) + 1
  <2>1. \E x : x = <<None, Len(inbox) + 1>>
    OBVIOUS
  <2>2. \A x : x = <<None, Len(inbox) + 1>> => x[1] = None /\ x[2] = Len(inbox) + 1
    OBVIOUS
  <2>3. QED
    BY <2>1, <2>2
<1>4. n \notin Slots /\ Mail(n)' = m
  BY <1>1, <1>2, <1>3 DEF Slots, Mail
<1>5. ASSUME NEW x \in Boxes \X Nat
      PROVE  x \in Slots' <=> x \in Slots \/ x = n
  <2>1. x[1] \in Boxes /\ x[2] \in Nat /\ x = <<x[1], x[2]>>
    OBVIOUS
  <2>2. x \in Slots' <=> x[2] \in 1..Len(Box(x[1])')
    BY <2>1 DEF Slots, Boxes
  <2>3. x \in Slots <=> x[2] \in 1..Len(Box(x[1]))
    BY <2>1 DEF Slots, Boxes
  <2>4. CASE x[1] = None
    <3>1. x = n <=> x[2] = Len(inbox) + 1
      BY <1>3, <2>1, <2>4
    <3>2. QED
      BY <1>1, <1>2, <2>1, <2>2, <2>3, <2>4, <3>1
  <2>5. CASE x[1] # None
    BY <1>2, <1>3, <2>1, <2>2, <2>3, <2>5 DEF Boxes
  <2>6. QED
    BY <2>4, <2>5
<1>6. n \in Boxes \X Nat
  BY <1>1, <1>2, <1>3
<1>7. Slots' = Slots \cup {n}
  <2>1. Slots \subseteq Boxes \X Nat /\ Slots' \subseteq Boxes \X Nat
    BY DEF Slots, Boxes
  <2>2. QED
    BY <1>5, <1>6, <2>1
<1>8. ASSUME NEW x \in Slots
      PROVE  Mail(x)' = Mail(x)
  <2>1. x[1] \in Boxes /\ x[2] \in 1..Len(Box(x[1]))
    BY SlotIs
  <2>2. CASE x[1] = None
    BY <1>1, <1>2, <2>1, <2>2 DEF Mail
  <2>3. CASE x[1] # None
    BY <1>2, <2>1, <2>3 DEF Mail, Boxes
  <2>4. QED
    BY <2>2, <2>3
<1>9. QED
  BY <1>3, <1>4, <1>7, <1>8

-----------------------------------------------------------------------------
(* What the threads of the peer are at, innermost last.                    *)
Item == [seq : Remotes, thread : Threads \cup {None}]

Peers == [Remotes -> Seq(Item)]

Asks == {x \in Remotes \X Nat : x[2] \in 1..Len(peer[x[1]])}

Entry(x) == peer[x[1]][x[2]]

(* After a step g tells where each of the peer's entries was before it.    *)
Kept(g) ==
  /\ \A x \in Asks' : g[x] \in Asks /\ Entry(x)' = Entry(g[x]) /\ g[x][1] = x[1]
  /\ \A x, y \in Asks' : g[x] = g[y] => x = y

LEMMA AskOf ==
  ASSUME peer \in Peers, NEW r \in Remotes, NEW i \in 1..Len(peer[r])
  PROVE  <<r, i>> \in Asks /\ Entry(<<r, i>>) = peer[r][i]
BY DEF Peers, Asks, Entry

LEMMA AskIs ==
  ASSUME peer \in Peers, NEW x \in Asks
  PROVE  /\ x[1] \in Remotes /\ x[2] \in Nat /\ x[2] \in 1..Len(peer[x[1]]) /\ x = <<x[1], x[2]>>
         /\ Entry(x) \in Item
<1>1. x[1] \in Remotes /\ x[2] \in Nat /\ x[2] \in 1..Len(peer[x[1]]) /\ x = <<x[1], x[2]>>
  BY DEF Asks
<1>2. peer[x[1]] \in Seq(Item)
  BY <1>1 DEF Peers
<1>3. QED
  BY <1>1, <1>2, ElementOfSeq DEF Entry

LEMMA PeerStays ==
  ASSUME UNCHANGED peer
  PROVE  /\ Asks' = Asks /\ \A x : Entry(x)' = Entry(x)
         /\ \E g : Kept(g) /\ \A x \in Asks' : g[x] = x
<1>1. Asks' = Asks /\ \A x : Entry(x)' = Entry(x)
  BY DEF Asks, Entry
<1> DEFINE g == [x \in Asks |-> x]
<1>2. \A x \in Asks' : g[x] = x
  BY <1>1
<1> HIDE DEF g
<1>3. Kept(g)
  BY <1>1, <1>2, Zenon DEF Kept
<1>4. QED
  BY <1>1, <1>2, <1>3


(* A thread of the peer is at one more.                                    *)
LEMMA PeerAdds ==
  ASSUME peer \in Peers, NEW r \in Remotes, NEW e \in Item,
         peer' = [peer EXCEPT ![r] = Append(peer[r], e)]
  PROVE  /\ peer' \in Peers
         /\ \E n : /\ n = <<r, Len(peer[r]) + 1>> /\ n \notin Asks /\ Asks' = Asks \cup {n}
                   /\ Entry(n)' = e
                   /\ \A x \in Asks : Entry(x)' = Entry(x)
<1>1. peer[r] \in Seq(Item) /\ Len(peer[r]) \in Nat
  BY DEF Peers
<1>2. /\ Append(peer[r], e) \in Seq(Item)
      /\ Len(Append(peer[r], e)) = Len(peer[r]) + 1 /\ Append(peer[r], e)[Len(peer[r]) + 1] = e
      /\ \A i \in 1..Len(peer[r]) : Append(peer[r], e)[i] = peer[r][i]
  BY <1>1, AppendProperties
<1>3. peer' \in Peers /\ peer'[r] = Append(peer[r], e) /\ \A q \in Remotes : q # r => peer'[q] = peer[q]
  BY <1>2 DEF Peers
<1>4. PICK n : n = <<r, Len(peer[r]) + 1>> /\ n[1] = r /\ n[2] = Len(peer[r]) + 1
  <2>1. \E x : x = <<r, Len(peer[r]) + 1>>
    OBVIOUS
  <2>2. \A x : x = <<r, Len(peer[r]) + 1>> => x[1] = r /\ x[2] = Len(peer[r]) + 1
    OBVIOUS
  <2>3. QED
    BY <2>1, <2>2
<1>5. n \notin Asks /\ Entry(n)' = e
  BY <1>1, <1>2, <1>3, <1>4 DEF Asks, Entry
<1>6. ASSUME NEW x \in Remotes \X Nat
      PROVE  x \in Asks' <=> x \in Asks \/ x = n
  <2>1. x[1] \in Remotes /\ x[2] \in Nat /\ x = <<x[1], x[2]>>
    OBVIOUS
  <2>2. x \in Asks' <=> x[2] \in 1..Len(peer'[x[1]])
    BY <2>1 DEF Asks
  <2>3. x \in Asks <=> x[2] \in 1..Len(peer[x[1]])
    BY <2>1 DEF Asks
  <2>4. CASE x[1] = r
    <3>1. x = n <=> x[2] = Len(peer[r]) + 1
      BY <1>4, <2>1, <2>4
    <3>2. QED
      BY <1>1, <1>2, <1>3, <2>1, <2>2, <2>3, <2>4, <3>1
  <2>5. CASE x[1] # r
    BY <1>3, <1>4, <2>1, <2>2, <2>3, <2>5
  <2>6. QED
    BY <2>4, <2>5
<1>7. n \in Remotes \X Nat
  BY <1>1, <1>4
<1>8. Asks' = Asks \cup {n}
  <2>1. Asks \subseteq Remotes \X Nat /\ Asks' \subseteq Remotes \X Nat
    BY DEF Asks
  <2>2. QED
    BY <1>6, <1>7, <2>1
<1>9. ASSUME NEW x \in Asks
      PROVE  Entry(x)' = Entry(x)
  <2>1. x[1] \in Remotes /\ x[2] \in 1..Len(peer[x[1]])
    BY AskIs
  <2>2. CASE x[1] = r
    BY <1>1, <1>2, <1>3, <2>1, <2>2 DEF Entry
  <2>3. CASE x[1] # r
    BY <1>3, <2>1, <2>3 DEF Entry
  <2>4. QED
    BY <2>2, <2>3
<1>10. QED
  BY <1>3, <1>4, <1>5, <1>8, <1>9

(* A thread of the peer is at one less, the innermost.                     *)
LEMMA PeerFront ==
  ASSUME peer \in Peers, NEW r \in Remotes, peer[r] # <<>>,
         peer' = [peer EXCEPT ![r] = Front(peer[r])]
  PROVE  /\ peer' \in Peers
         /\ <<r, Len(peer[r])>> \in Asks /\ Entry(<<r, Len(peer[r])>>) = Last(peer[r])
         /\ Asks' = Asks \ {<<r, Len(peer[r])>>}
         /\ \A x \in Asks' : Entry(x)' = Entry(x)
<1>1. peer[r] \in Seq(Item) /\ Len(peer[r]) \in Nat /\ Len(peer[r]) >= 1
  BY DEF Peers
<1>2. /\ Front(peer[r]) \in Seq(Item) /\ Len(Front(peer[r])) = Len(peer[r]) - 1
      /\ \A i \in 1..(Len(peer[r]) - 1) : Front(peer[r])[i] = peer[r][i]
  BY <1>1 DEF Front
<1>3. peer' \in Peers /\ peer'[r] = Front(peer[r]) /\ \A q \in Remotes : q # r => peer'[q] = peer[q]
  BY <1>2 DEF Peers
<1> DEFINE n == <<r, Len(peer[r])>>
<1>4. n \in Asks /\ Entry(n) = Last(peer[r]) /\ n[1] = r /\ n[2] = Len(peer[r])
  BY <1>1, AskOf DEF Last
<1>5. ASSUME NEW x \in Remotes \X Nat
      PROVE  x \in Asks' <=> x \in Asks /\ x # n
  <2>1. x[1] \in Remotes /\ x[2] \in Nat /\ x = <<x[1], x[2]>>
    OBVIOUS
  <2>2. x \in Asks' <=> x[2] \in 1..Len(peer'[x[1]])
    BY <2>1 DEF Asks
  <2>3. x \in Asks <=> x[2] \in 1..Len(peer[x[1]])
    BY <2>1 DEF Asks
  <2>4. CASE x[1] = r
    <3>1. x = n <=> x[2] = Len(peer[r])
      BY <2>1, <2>4
    <3>2. QED
      BY <1>1, <1>2, <1>3, <2>1, <2>2, <2>3, <2>4, <3>1
  <2>5. CASE x[1] # r
    BY <1>3, <1>4, <2>1, <2>2, <2>3, <2>5
  <2>6. QED
    BY <2>4, <2>5
<1>6. Asks' = Asks \ {n}
  <2>1. Asks \subseteq Remotes \X Nat /\ Asks' \subseteq Remotes \X Nat
    BY DEF Asks
  <2>2. QED
    BY <1>5, <2>1
<1>7. ASSUME NEW x \in Asks'
      PROVE  Entry(x)' = Entry(x)
  <2>1. x[1] \in Remotes /\ x[2] \in 1..Len(peer'[x[1]])
    BY DEF Asks
  <2>2. CASE x[1] = r
    BY <1>1, <1>2, <1>3, <2>1, <2>2 DEF Entry
  <2>3. CASE x[1] # r
    BY <1>3, <2>1, <2>3 DEF Entry
  <2>4. QED
    BY <2>2, <2>3
<1>8. QED
  BY <1>3, <1>4, <1>6, <1>7

(* A thread of the peer is at one less, wherever it was.                   *)
LEMMA PeerRemoves ==
  ASSUME peer \in Peers, NEW r, NEW q,
         peer' = [peer EXCEPT ![r] = Without(peer[r], q)]
  PROVE  peer' \in Peers /\ \E g : Kept(g)
<1>1. CASE r \notin Remotes
  <2>1. peer' = peer
    BY <1>1 DEF Peers
  <2>2. QED
    BY <2>1, PeerStays
<1>2. CASE r \in Remotes
  <2> DEFINE s == Without(peer[r], q)
  <2>1. peer[r] \in Seq(Item) /\ Len(peer[r]) \in Nat
    BY <1>2 DEF Peers
  <2>2. \/ s = peer[r]
        \/ \E i \in 1..Len(peer[r]) : s = RemoveAt(peer[r], i)
    BY <2>1, WithoutIs
  <2>3. peer' = [peer EXCEPT ![r] = s]
    OBVIOUS
  <2> HIDE DEF s
  <2>4. CASE s = peer[r]
    <3>1. peer' = peer
      BY <2>3, <2>4 DEF Peers
    <3>2. QED
      BY <3>1, PeerStays
  <2>5. CASE \E i \in 1..Len(peer[r]) : s = RemoveAt(peer[r], i)
    <3>1. PICK i \in 1..Len(peer[r]) : s = RemoveAt(peer[r], i)
      BY <2>5
    <3>2. /\ s \in Seq(Item) /\ Len(s) = Len(peer[r]) - 1
          /\ \A k \in 1..(Len(peer[r]) - 1) : s[k] = IF k < i THEN peer[r][k] ELSE peer[r][k + 1]
      BY <2>1, <3>1, RemoveAtIs
    <3>3. peer' \in Peers /\ peer'[r] = s /\ \A p \in Remotes : p # r => peer'[p] = peer[p]
      BY <1>2, <2>3, <3>2 DEF Peers
    <3> DEFINE g == [x \in Asks' |-> IF x[1] = r /\ x[2] >= i THEN <<r, x[2] + 1>> ELSE x]
    <3>4. ASSUME NEW x \in Asks'
          PROVE  /\ x[2] \in Nat /\ x = <<x[1], x[2]>>
                 /\ g[x] \in Asks /\ Entry(x)' = Entry(g[x]) /\ g[x][1] = x[1]
                 /\ g[x][2] = IF x[1] = r /\ x[2] >= i THEN x[2] + 1 ELSE x[2]
      <4>1. x[1] \in Remotes /\ x[2] \in Nat /\ x[2] \in 1..Len(peer'[x[1]]) /\ x = <<x[1], x[2]>>
        BY DEF Asks
      <4>2. Entry(x)' = peer'[x[1]][x[2]]
        BY DEF Entry
      <4>3. CASE x[1] = r /\ x[2] >= i
        <5>1. g[x] = <<r, x[2] + 1>> /\ x[2] + 1 \in 1..Len(peer[r]) /\ x[2] \in 1..(Len(peer[r]) - 1)
          BY <2>1, <3>2, <3>3, <4>1, <4>3
        <5>2. g[x] \in Asks /\ Entry(g[x]) = peer[r][x[2] + 1]
          BY <1>2, <5>1, AskOf
        <5>3. QED
          BY <3>2, <3>3, <4>1, <4>2, <4>3, <5>1, <5>2
      <4>4. CASE ~(x[1] = r /\ x[2] >= i)
        <5>1. g[x] = x
          BY <4>4
        <5>2. x[2] \in 1..Len(peer[x[1]]) /\ peer'[x[1]][x[2]] = peer[x[1]][x[2]]
          BY <2>1, <3>2, <3>3, <4>1, <4>4
        <5>3. x \in Asks /\ Entry(x) = peer[x[1]][x[2]]
          BY <4>1, <5>2, AskOf
        <5>4. QED
          BY <4>1, <4>2, <4>4, <5>1, <5>2, <5>3
      <4>5. QED
        BY <4>3, <4>4
    <3> HIDE DEF g
    <3>5. ASSUME NEW x \in Asks', NEW y \in Asks', g[x] = g[y]
          PROVE  x = y
      <4>1. x[1] = y[1] /\ g[x][2] = g[y][2]
        BY <3>4, <3>5
      <4>2. x[2] = y[2]
        BY <3>4, <4>1
      <4>3. QED
        BY <3>4, <4>1, <4>2
    <3>6. Kept(g)
      BY <3>4, <3>5 DEF Kept
    <3>7. QED
      BY <3>3, <3>6
  <2>6. QED
    BY <2>2, <2>4, <2>5
<1>3. QED
  BY <1>1, <1>2

-----------------------------------------------------------------------------
(* Where a thread is after a step.                                         *)
LEMMA OthersStay ==
  ASSUME NEW t, Others(t), NEW u \in Threads, u # t
  PROVE  stack'[u] = stack[u] /\ Top(u)' = Top(u) /\ \A pcs : At(u, pcs)' <=> At(u, pcs)
BY DEF Others, Top, At

LEMMA BecomesTop ==
  ASSUME stack \in Stacks, stack' \in Stacks, NEW t \in Threads, NEW pc, NEW d, Becomes(t, pc, d)
  PROVE  /\ stack'[t] # <<>>
         /\ Top(t)' = [pc |-> pc, waits |-> Top(t).waits, data |-> d]
         /\ \A pcs : At(t, pcs)' <=> pc \in pcs
<1>1. Len(stack'[t]) = Len(stack[t]) /\ Len(stack[t]) >= 1 /\ Len(stack[t]) \in Nat
  BY TopIs DEF Becomes
<1>2. stack'[t] # <<>>
  BY <1>1 DEF Stacks
<1>3. Top(t)' = [pc |-> pc, waits |-> Top(t).waits, data |-> d]
  BY <1>1 DEF Becomes, Top, Last
<1>4. QED
  BY <1>2, <1>3 DEF At

LEMMA BeginsTop ==
  ASSUME stack \in Stacks, stack' \in Stacks, NEW t \in Threads, NEW f, Begins(t, f)
  PROVE  stack'[t] # <<>> /\ Top(t)' = f /\ \A pcs : At(t, pcs)' <=> f.pc \in pcs
<1>1. Len(stack[t]) \in Nat /\ Len(stack'[t]) = Len(stack[t]) + 1
  BY DEF Stacks, Begins
<1>2. stack'[t] # <<>>
  BY <1>1 DEF Stacks
<1>3. Top(t)' = f
  BY <1>1 DEF Begins, Top, Last
<1>4. QED
  BY <1>2, <1>3 DEF At

-----------------------------------------------------------------------------
(* What holds of the activations: those further out are handlers, which    *)
(* alone have a message; no two wait for the same request.                 *)
FrameOK(f) ==
  /\ f.data # None <=> f.pc = "handle"
  /\ f.data # None => f.data.kind = "request"
  /\ f.pc = "send" => f.waits # None
  /\ f.pc = "first" => f.waits = None
  /\ f.pc = "closing" => closed
  /\ f.waits # None => f.waits < nextCall

Framed ==
  /\ \A t \in Threads : \A i \in 1..(Len(stack[t]) - 1) : stack[t][i].pc = "handle"
  /\ \A t \in Threads : \A i \in 1..Len(stack[t]) : FrameOK(stack[t][i])
  /\ \A t \in Threads : \A i \in 2..Len(stack[t]) : stack[t][i].waits # None

Distinct ==
  \A t, u \in Threads : \A i \in 1..Len(stack[t]), j \in 1..Len(stack[u]) :
    stack[t][i].waits # None /\ stack[t][i].waits = stack[u][j].waits => t = u /\ i = j

LEMMA TopOK ==
  ASSUME stack \in Stacks, Framed, NEW t \in Threads, stack[t] # <<>>
  PROVE  FrameOK(Top(t))
BY TopIs DEF Framed

LEMMA EndsTop ==
  ASSUME stack \in Stacks, Framed, NEW t \in Threads, Ends(t), stack' \in Stacks
  PROVE  \A pcs : At(t, pcs)' => "handle" \in pcs
<1>1. Len(stack[t]) \in Nat /\ Len(stack'[t]) = Len(stack[t]) - 1
  BY TopIs DEF Ends
<1>2. SUFFICES ASSUME stack'[t] # <<>> PROVE Top(t)'.pc = "handle"
  BY DEF At
<1>3. Len(stack'[t]) \in 1..(Len(stack[t]) - 1)
  BY <1>1, <1>2 DEF Stacks
<1>4. Top(t)' = stack[t][Len(stack[t]) - 1]
  BY <1>1, <1>3 DEF Ends, Top, Last
<1>5. QED
  BY <1>1, <1>3, <1>4 DEF Framed

LEMMA FramedBecomes ==
  ASSUME stack \in Stacks, stack' \in Stacks, Framed, Distinct, closed => closed', nextCall' = nextCall,
         NEW t \in Threads, NEW pc, NEW d, Becomes(t, pc, d),
         d # None <=> pc = "handle", d # None => d.kind = "request",
         pc # "send", pc # "first", pc = "closing" => closed'
  PROVE  Framed' /\ Distinct'
<1>1. /\ Len(stack'[t]) = Len(stack[t]) /\ Len(stack[t]) >= 1 /\ Len(stack[t]) \in Nat
      /\ stack'[t][Len(stack[t])] = [pc |-> pc, waits |-> stack[t][Len(stack[t])].waits, data |-> d]
      /\ \A i \in 1..(Len(stack[t]) - 1) : stack'[t][i] = stack[t][i]
      /\ \A u \in Threads : u # t => stack'[u] = stack[u]
  BY TopIs DEF Becomes, Others
<1>2. \A u \in Threads : Len(stack'[u]) = Len(stack[u])
  BY <1>1
<1>3. \A u \in Threads : Len(stack[u]) \in Nat
  BY DEF Stacks
<1>4. \A u \in Threads : \A i \in 1..Len(stack[u]) : stack'[u][i].waits = stack[u][i].waits
  BY <1>1, <1>3
<1>5. Distinct'
  <2> SUFFICES ASSUME NEW u \in Threads, NEW v \in Threads,
                      NEW i \in 1..Len(stack'[u]), NEW j \in 1..Len(stack'[v]),
                      stack'[u][i].waits # None, stack'[u][i].waits = stack'[v][j].waits
               PROVE  u = v /\ i = j
    BY DEF Distinct
  <2>1. i \in 1..Len(stack[u]) /\ j \in 1..Len(stack[v])
    BY <1>2
  <2>2. stack[u][i].waits # None /\ stack[u][i].waits = stack[v][j].waits
    BY <1>4, <2>1
  <2>3. QED
    BY <2>1, <2>2 DEF Distinct
<1>6. ASSUME NEW f, FrameOK(f) PROVE FrameOK(f)'
  BY <1>6 DEF FrameOK
<1>7. ASSUME NEW u \in Threads, NEW i \in 1..Len(stack'[u])
      PROVE  /\ FrameOK(stack[u][i])'
             /\ i < Len(stack'[u]) => stack'[u][i].pc = "handle"
             /\ i >= 2 => stack'[u][i].waits # None
  <2>1. i \in 1..Len(stack[u]) /\ FrameOK(stack[u][i])
    BY <1>2 DEF Framed
  <2>2. i >= 2 => stack'[u][i].waits # None
    BY <1>3, <1>4, <2>1 DEF Framed
  <2>3. CASE u = t /\ i = Len(stack[t])
    <3>1. stack'[u][i].pc = pc /\ stack'[u][i].waits = stack[u][i].waits /\ stack'[u][i].data = d
      BY <1>1, <2>3
    <3>2. stack'[u][i].waits # None => stack'[u][i].waits < nextCall'
      BY <2>1, <3>1 DEF FrameOK
    <3>3. FrameOK(stack[u][i])'
      BY <3>1, <3>2 DEF FrameOK
    <3>4. QED
      BY <1>1, <2>2, <2>3, <3>3
  <2>4. CASE ~(u = t /\ i = Len(stack[t]))
    <3>1. stack'[u][i] = stack[u][i]
      BY <1>1, <2>1, <2>4
    <3>2. FrameOK(stack[u][i])'
      BY <2>1, <3>1 DEF FrameOK
    <3>3. i < Len(stack'[u]) => stack[u][i].pc = "handle"
      BY <1>2, <1>3, <2>1 DEF Framed
    <3>4. QED
      BY <2>2, <3>1, <3>2, <3>3
  <2>5. QED
    BY <2>3, <2>4
<1>8. Framed'
  <2>1. \A u \in Threads : Len(stack'[u]) \in Nat
    BY <1>2, <1>3
  <2>2. QED
    BY <1>7, <2>1 DEF Framed
<1>9. QED
  BY <1>5, <1>8

LEMMA FramedBegins ==
  ASSUME stack \in Stacks, stack' \in Stacks, Framed, Distinct, UNCHANGED closed,
         nextCall \in Nat, nextCall' \in Nat, nextCall' >= nextCall,
         NEW t \in Threads, NEW f, Begins(t, f),
         stack[t] = <<>> \/ (At(t, {"handle"}) /\ f.waits # None), f.data = None,
         \/ f.pc = "send" /\ f.waits = nextCall /\ nextCall' = nextCall + 1
         \/ f.pc = "first" /\ f.waits = None
  PROVE  Framed' /\ Distinct'
<1>1. /\ Len(stack'[t]) = Len(stack[t]) + 1 /\ Len(stack[t]) \in Nat
      /\ stack'[t][Len(stack[t]) + 1] = f
      /\ \A i \in 1..Len(stack[t]) : stack'[t][i] = stack[t][i]
      /\ \A u \in Threads : u # t => stack'[u] = stack[u]
  BY DEF Begins, Others, Stacks
<1>2. \A u \in Threads : Len(stack[u]) \in Nat /\ Len(stack'[u]) \in Nat
  BY DEF Stacks
<1> DEFINE New(u, i) == u = t /\ i = Len(stack[t]) + 1
<1>3. ASSUME NEW u \in Threads, NEW i \in 1..Len(stack'[u]), ~New(u, i)
      PROVE  i \in 1..Len(stack[u]) /\ stack'[u][i] = stack[u][i]
  <2>1. CASE u = t
    BY <1>1, <1>3, <2>1
  <2>2. CASE u # t
    BY <1>1, <2>2
  <2>3. QED
    BY <2>1, <2>2
<1>4. None \notin Nat
  BY BoundAssumption
<1>5. ASSUME NEW u \in Threads, NEW i \in 1..Len(stack[u]), f.waits # None
      PROVE  stack[u][i].waits # f.waits
  <2>1. f.waits = nextCall
    BY <1>5
  <2>2. stack[u][i].waits # None => stack[u][i].waits < nextCall
    BY DEF Framed, FrameOK
  <2>3. QED
    BY <1>5, <2>1, <2>2
<1>6. Distinct'
  <2> SUFFICES ASSUME NEW u \in Threads, NEW v \in Threads,
                      NEW i \in 1..Len(stack'[u]), NEW j \in 1..Len(stack'[v]),
                      stack'[u][i].waits # None, stack'[u][i].waits = stack'[v][j].waits
               PROVE  u = v /\ i = j
    BY DEF Distinct
  <2>1. CASE New(u, i) /\ New(v, j)
    BY <2>1
  <2>2. CASE New(u, i) /\ ~New(v, j)
    BY <1>1, <1>3, <1>5, <2>2
  <2>3. CASE ~New(u, i) /\ New(v, j)
    <3>1. stack'[v][j] = f
      BY <1>1, <2>3
    <3>2. i \in 1..Len(stack[u]) /\ stack'[u][i] = stack[u][i]
      BY <1>3, <2>3
    <3>3. f.waits # None /\ stack[u][i].waits = f.waits
      BY <3>1, <3>2
    <3>4. QED
      BY <1>5, <3>2, <3>3
  <2>4. CASE ~New(u, i) /\ ~New(v, j)
    <3>1. i \in 1..Len(stack[u]) /\ j \in 1..Len(stack[v])
          /\ stack'[u][i] = stack[u][i] /\ stack'[v][j] = stack[v][j]
      BY <1>3, <2>4
    <3>2. QED
      BY <3>1 DEF Distinct
  <2>5. QED
    BY <2>1, <2>2, <2>3, <2>4
<1>7. ASSUME NEW u \in Threads, NEW i \in 1..Len(stack'[u])
      PROVE  /\ FrameOK(stack[u][i])'
             /\ i < Len(stack'[u]) => stack'[u][i].pc = "handle"
             /\ i >= 2 => stack'[u][i].waits # None
  <2>1. CASE New(u, i)
    <3>1. stack'[u][i] = f /\ ~(i < Len(stack'[u]))
      BY <1>1, <2>1
    <3>2. FrameOK(f)'
      BY <1>4 DEF FrameOK
    <3>3. i >= 2 => f.waits # None
      <4>1. i >= 2 => stack[t] # <<>>
        BY <1>1, <2>1
      <4>2. QED
        BY <4>1
    <3>4. QED
      BY <3>1, <3>2, <3>3 DEF FrameOK
  <2>2. CASE ~New(u, i)
    <3>1. i \in 1..Len(stack[u]) /\ stack'[u][i] = stack[u][i]
      BY <1>3, <2>2
    <3>2. FrameOK(stack[u][i]) /\ (i >= 2 => stack[u][i].waits # None)
      BY <1>2, <3>1 DEF Framed
    <3>3. FrameOK(stack[u][i])'
      <4>1. stack[u][i].waits # None => stack[u][i].waits < nextCall'
        <5>1. SUFFICES ASSUME stack[u][i].waits # None PROVE stack[u][i].waits < nextCall'
          OBVIOUS
        <5>2. stack[u][i].waits \in Calls
          <6>1. stack[u] \in Seq(Frame)
            BY DEF Stacks
          <6>2. stack[u][i] \in Frame
            BY <3>1, <6>1, ElementOfSeq
          <6>3. QED
            BY <5>1, <6>2 DEF Frame
        <5>3. stack[u][i].waits < nextCall
          BY <3>2, <5>1 DEF FrameOK
        <5>4. QED
          BY <5>2, <5>3 DEF Calls
      <4>2. QED
        BY <3>1, <3>2, <4>1 DEF FrameOK
    <3>4. ASSUME i < Len(stack'[u]) PROVE stack[u][i].pc = "handle"
      <4>1. CASE i = Len(stack[u])
        <5>1. u = t
          BY <1>1, <1>2, <3>4, <4>1
        <5>2. stack[t] # <<>> /\ stack[t][i] = Top(t)
          BY <3>1, <4>1, <5>1 DEF Top, Last
        <5>3. QED
          BY <5>1, <5>2 DEF At
      <4>2. CASE i # Len(stack[u])
        BY <1>2, <3>1, <4>2 DEF Framed
      <4>3. QED
        BY <4>1, <4>2
    <3>5. QED
      BY <3>1, <3>2, <3>3, <3>4
  <2>3. QED
    BY <2>1, <2>2
<1>8. Framed'
  <2>1. ASSUME NEW u \in Threads, NEW i \in 1..(Len(stack'[u]) - 1)
        PROVE  stack'[u][i].pc = "handle"
    <3>1. i \in 1..Len(stack'[u]) /\ i < Len(stack'[u])
      BY <1>2
    <3>2. QED
      BY <1>7, <3>1
  <2>2. ASSUME NEW u \in Threads, NEW i \in 2..Len(stack'[u])
        PROVE  stack'[u][i].waits # None
    <3>1. i \in 1..Len(stack'[u]) /\ i >= 2
      BY <1>2
    <3>2. QED
      BY <1>7, <3>1
  <2>3. QED
    BY <1>7, <2>1, <2>2 DEF Framed
<1>9. QED
  BY <1>6, <1>8

LEMMA FramedEnds ==
  ASSUME stack \in Stacks, stack' \in Stacks, Framed, Distinct, UNCHANGED nextCall, closed => closed',
         NEW t \in Threads, Ends(t) \/ AllEnd(t)
  PROVE  Framed' /\ Distinct'
<1>1. \A u \in Threads : Len(stack[u]) \in Nat /\ Len(stack'[u]) \in Nat
  BY DEF Stacks
<1>2. ASSUME NEW u \in Threads, NEW i \in 1..Len(stack'[u])
      PROVE  i \in 1..Len(stack[u]) /\ stack'[u][i] = stack[u][i] /\ Len(stack'[u]) <= Len(stack[u])
  <2>1. CASE u = t
    BY <1>1, <2>1 DEF Ends, AllEnd
  <2>2. CASE u # t
    BY <1>1, <2>2 DEF Ends, AllEnd, Others
  <2>3. QED
    BY <2>1, <2>2
<1>3. Distinct'
  <2> SUFFICES ASSUME NEW u \in Threads, NEW v \in Threads,
                      NEW i \in 1..Len(stack'[u]), NEW j \in 1..Len(stack'[v]),
                      stack'[u][i].waits # None, stack'[u][i].waits = stack'[v][j].waits
               PROVE  u = v /\ i = j
    BY DEF Distinct
  <2>1. i \in 1..Len(stack[u]) /\ j \in 1..Len(stack[v])
        /\ stack'[u][i] = stack[u][i] /\ stack'[v][j] = stack[v][j]
    BY <1>2
  <2>2. QED
    BY <2>1 DEF Distinct
<1>4. ASSUME NEW u \in Threads, NEW i \in 1..Len(stack'[u])
      PROVE  /\ FrameOK(stack[u][i])'
             /\ i < Len(stack'[u]) => stack'[u][i].pc = "handle"
             /\ i >= 2 => stack'[u][i].waits # None
  <2>1. i \in 1..Len(stack[u]) /\ stack'[u][i] = stack[u][i] /\ Len(stack'[u]) <= Len(stack[u])
    BY <1>2
  <2>2. FrameOK(stack[u][i]) /\ (i < Len(stack[u]) => stack[u][i].pc = "handle")
        /\ (i >= 2 => stack[u][i].waits # None)
    BY <1>1, <2>1 DEF Framed
  <2>3. FrameOK(stack[u][i])'
    BY <2>1, <2>2 DEF FrameOK
  <2>4. i < Len(stack'[u]) => i < Len(stack[u])
    BY <1>1, <2>1
  <2>5. QED
    BY <2>1, <2>2, <2>3, <2>4
<1>5. Framed'
  BY <1>1, <1>4 DEF Framed
<1>6. QED
  BY <1>3, <1>5

-----------------------------------------------------------------------------
(* The requests: each is in one place, with the thread that waits for it   *)
(* beside it, until its answer is dispatched.                              *)
Replies == {x \in Slots : Mail(x).kind = "reply"}

Sends ==
  {s \in Calls : \E t \in Threads : \E i \in 1..Len(stack[t]) :
                   stack[t][i].pc = "send" /\ stack[t][i].waits = s}

Once ==
  /\ \A x, y \in Asks : Entry(x).seq = Entry(y).seq => x = y
  /\ \A x, y \in Replies : Mail(x).seq = Mail(y).seq => x = y
  /\ \A x \in Asks, y \in Replies : Entry(x).seq # Mail(y).seq

AskKnown(x) ==
  \/ Entry(x).seq \in Calls /\ Entry(x).seq < nextCall /\ Entry(x).thread \in Threads
  \/ Entry(x).seq \in PeerCalls /\ Entry(x).seq < peerNext /\ Entry(x).thread = None

MailKnown(x) ==
  \/ /\ Mail(x).kind = "reply" /\ Mail(x).seq \in Calls /\ Mail(x).seq < nextCall
     /\ Mail(x).to \in Threads /\ x[1] \in {None, Mail(x).to}
  \/ Mail(x).kind = "request" /\ Mail(x).seq \in PeerCalls /\ Mail(x).seq < peerNext

Unsent ==
  \A s \in Sends : (\A x \in Asks : Entry(x).seq # s) /\ (\A x \in Replies : Mail(x).seq # s)

Placed ==
  /\ Once /\ Unsent
  /\ \A x \in Asks : AskKnown(x)
  /\ \A x \in Slots : MailKnown(x)

(* What t has coming: the answers to its requests.                         *)
Owed(t) ==
  {s \in Calls : \/ \E x \in Asks : Entry(x).seq = s /\ Entry(x).thread = t
                 \/ \E x \in Replies : Mail(x).seq = s /\ Mail(x).to = t}

(* A request is in no other place than before.                             *)
LEMMA PlacedMoves ==
  ASSUME Placed, NEW g, Kept(g), NEW h, Carried(h), UNCHANGED <<nextCall, peerNext>>,
         Sends' \subseteq Sends,
         \A x \in Slots' : Mail(h[x]).kind = "reply" => x[1] \in {None, Mail(h[x]).to}
  PROVE  Placed' /\ \A t : Owed(t)' \subseteq Owed(t)
<1>1. \A x \in Asks' : g[x] \in Asks /\ Entry(x)' = Entry(g[x])
  BY DEF Kept
<1>2. \A x, y \in Asks' : g[x] = g[y] => x = y
  BY DEF Kept
<1>3. \A x \in Slots' : h[x] \in Slots /\ Mail(x)' = Mail(h[x])
  BY DEF Carried
<1>4. \A x, y \in Slots' : h[x] = h[y] => x = y
  BY DEF Carried
<1>5. Replies' \subseteq Slots' /\ \A x \in Replies' : h[x] \in Replies
  BY <1>3 DEF Replies
<1>6. Once'
  <2>1. ASSUME NEW x \in Asks', NEW y \in Asks', Entry(x)'.seq = Entry(y)'.seq
        PROVE  x = y
    BY <1>1, <1>2, <2>1 DEF Placed, Once
  <2>2. ASSUME NEW x \in Replies', NEW y \in Replies', Mail(x)'.seq = Mail(y)'.seq
        PROVE  x = y
    BY <1>3, <1>4, <1>5, <2>2 DEF Placed, Once
  <2>3. ASSUME NEW x \in Asks', NEW y \in Replies'
        PROVE  Entry(x)'.seq # Mail(y)'.seq
    BY <1>1, <1>3, <1>5 DEF Placed, Once
  <2>4. QED
    BY <2>1, <2>2, <2>3 DEF Once
<1>7. Unsent'
  <2> SUFFICES ASSUME NEW s \in Sends'
               PROVE  /\ \A x \in Asks' : Entry(x)'.seq # s
                      /\ \A x \in Replies' : Mail(x)'.seq # s
    BY DEF Unsent
  <2>1. s \in Sends
    OBVIOUS
  <2>2. QED
    BY <1>1, <1>3, <1>5, <2>1 DEF Placed, Unsent
<1>8. ASSUME NEW x \in Asks' PROVE AskKnown(x)'
  <2>1. AskKnown(g[x]) /\ Entry(x)' = Entry(g[x])
    BY <1>1 DEF Placed
  <2>2. QED
    BY <2>1 DEF AskKnown
<1>9. ASSUME NEW x \in Slots' PROVE MailKnown(x)'
  <2>1. MailKnown(h[x]) /\ Mail(x)' = Mail(h[x])
    BY <1>3 DEF Placed
  <2>2. QED
    BY <2>1 DEF MailKnown
<1>10. ASSUME NEW t PROVE Owed(t)' \subseteq Owed(t)
  BY <1>1, <1>3, <1>5 DEF Owed
<1>11. QED
  BY <1>6, <1>7, <1>8, <1>9, <1>10 DEF Placed

(* ... but for one whose answer is taken.                                  *)
LEMMA OwedTaken ==
  ASSUME Placed, NEW g, Kept(g), NEW h, Carried(h),
         NEW z \in Replies, \A x \in Slots' : h[x] # z
  PROVE  /\ Mail(z).seq \in Owed(Mail(z).to)
         /\ \A t : Mail(z).seq \notin Owed(t)'
<1>1. MailKnown(z) /\ Mail(z).kind = "reply"
  BY DEF Placed, Replies
<1>2. Mail(z).seq \in Owed(Mail(z).to)
  BY <1>1 DEF Owed, MailKnown
<1>3. \A x \in Asks' : Entry(x)'.seq # Mail(z).seq
  BY DEF Kept, Placed, Once
<1>4. ASSUME NEW x \in Replies' PROVE Mail(x)'.seq # Mail(z).seq
  <2>1. x \in Slots' /\ h[x] \in Replies /\ Mail(x)' = Mail(h[x]) /\ h[x] # z
    BY DEF Carried, Replies
  <2>2. QED
    BY <2>1 DEF Placed, Once
<1>5. ASSUME NEW t PROVE Mail(z).seq \notin Owed(t)'
  BY <1>3, <1>4 DEF Owed
<1>6. QED
  BY <1>2, <1>5

(* A request is sent.                                                      *)
LEMMA PlacedAsked ==
  ASSUME Placed, UNCHANGED <<inbox, deque, nextCall, peerNext>>,
         NEW n, n \notin Asks, Asks' = Asks \cup {n}, \A x \in Asks : Entry(x)' = Entry(x),
         NEW s \in Sends, NEW t \in Threads, s < nextCall, Entry(n)' = [seq |-> s, thread |-> t],
         Sends' \subseteq Sends, s \notin Sends'
  PROVE  /\ Placed'
         /\ Owed(t)' \subseteq Owed(t) \cup {s}
         /\ \A u \in Threads : u # t => Owed(u)' \subseteq Owed(u)
<1>1. Slots' = Slots /\ \A x : Mail(x)' = Mail(x)
  BY MailStays
<1>2. Replies' = Replies
  BY <1>1 DEF Replies
<1>3. s \in Calls /\ Entry(n)'.seq = s /\ Entry(n)'.thread = t
  BY DEF Sends
<1>4. (\A x \in Asks : Entry(x).seq # s) /\ (\A x \in Replies : Mail(x).seq # s)
  BY DEF Placed, Unsent
<1>5. Once'
  <2>1. ASSUME NEW x \in Asks', NEW y \in Asks', Entry(x)'.seq = Entry(y)'.seq
        PROVE  x = y
    <3>1. CASE x = n \/ y = n
      BY <1>3, <1>4, <2>1, <3>1
    <3>2. CASE x # n /\ y # n
      BY <2>1, <3>2 DEF Placed, Once
    <3>3. QED
      BY <3>1, <3>2
  <2>2. \A x, y \in Replies' : Mail(x)'.seq = Mail(y)'.seq => x = y
    BY <1>1, <1>2 DEF Placed, Once
  <2>3. ASSUME NEW x \in Asks', NEW y \in Replies'
        PROVE  Entry(x)'.seq # Mail(y)'.seq
    BY <1>1, <1>2, <1>3, <1>4 DEF Placed, Once
  <2>4. QED
    BY <2>1, <2>2, <2>3 DEF Once
<1>6. Unsent'
  BY <1>1, <1>2, <1>3 DEF Placed, Unsent
<1>7. \A x \in Asks' : AskKnown(x)'
  <2> SUFFICES ASSUME NEW x \in Asks' PROVE AskKnown(x)'
    OBVIOUS
  <2>1. CASE x = n
    BY <1>3, <2>1 DEF AskKnown
  <2>2. CASE x \in Asks
    BY <2>2 DEF AskKnown, Placed
  <2>3. QED
    BY <2>1, <2>2
<1>8. \A x \in Slots' : MailKnown(x)'
  BY <1>1 DEF MailKnown, Placed
<1>9. ASSUME NEW u \in Threads
      PROVE  Owed(u)' \subseteq IF u = t THEN Owed(u) \cup {s} ELSE Owed(u)
  BY <1>1, <1>2, <1>3 DEF Owed
<1>10. QED
  BY <1>5, <1>6, <1>7, <1>8, <1>9 DEF Placed

(* A request is answered.                                                  *)
LEMMA PlacedAnswered ==
  ASSUME Placed, UNCHANGED <<nextCall, peerNext>>, Sends' \subseteq Sends,
         NEW n \in Asks, Asks' = Asks \ {n}, \A x \in Asks' : Entry(x)' = Entry(x),
         NEW k, k \notin Slots, Slots' = Slots \cup {k}, \A x \in Slots : Mail(x)' = Mail(x), k[1] = None,
         Entry(n).seq \in Calls,
         Mail(k)'.kind = "reply", Mail(k)'.seq = Entry(n).seq, Mail(k)'.to = Entry(n).thread
  PROVE  Placed' /\ \A t : Owed(t)' \subseteq Owed(t)
<1>1. /\ Entry(n).seq < nextCall /\ Entry(n).thread \in Threads
      /\ \A x \in Asks : x # n => Entry(x).seq # Entry(n).seq
      /\ \A x \in Replies : Mail(x).seq # Entry(n).seq
  <2>1. AskKnown(n)
    BY DEF Placed
  <2>2. Entry(n).seq \notin PeerCalls
    BY BoundAssumption DEF Calls, PeerCalls
  <2>3. QED
    BY <2>1, <2>2 DEF AskKnown, Placed, Once
<1>2. Replies' = Replies \cup {k}
  BY DEF Replies
<1>3. Once'
  <2>1. ASSUME NEW x \in Asks', NEW y \in Asks', Entry(x)'.seq = Entry(y)'.seq
        PROVE  x = y
    BY <2>1 DEF Placed, Once
  <2>2. ASSUME NEW x \in Replies', NEW y \in Replies', Mail(x)'.seq = Mail(y)'.seq
        PROVE  x = y
    <3>1. CASE x = k \/ y = k
      BY <1>1, <1>2, <2>2, <3>1 DEF Replies
    <3>2. CASE x # k /\ y # k
      BY <1>2, <2>2, <3>2 DEF Placed, Once, Replies
    <3>3. QED
      BY <3>1, <3>2
  <2>3. ASSUME NEW x \in Asks', NEW y \in Replies'
        PROVE  Entry(x)'.seq # Mail(y)'.seq
    <3>1. CASE y = k
      BY <1>1, <3>1
    <3>2. CASE y # k
      BY <1>2, <3>2 DEF Placed, Once, Replies
    <3>3. QED
      BY <3>1, <3>2
  <2>4. QED
    BY <2>1, <2>2, <2>3 DEF Once
<1>4. Unsent'
  <2> SUFFICES ASSUME NEW s \in Sends'
               PROVE  /\ \A x \in Asks' : Entry(x)'.seq # s
                      /\ \A x \in Replies' : Mail(x)'.seq # s
    BY DEF Unsent
  <2>1. /\ \A x \in Asks : Entry(x).seq # s
        /\ \A x \in Replies : Mail(x).seq # s
    BY DEF Placed, Unsent
  <2>2. QED
    BY <1>2, <2>1 DEF Replies
<1>5. \A x \in Asks' : AskKnown(x)'
  BY DEF Placed, AskKnown
<1>6. ASSUME NEW x \in Slots' PROVE MailKnown(x)'
  <2>1. CASE x = k
    BY <1>1, <2>1 DEF MailKnown
  <2>2. CASE x \in Slots
    BY <2>2 DEF MailKnown, Placed
  <2>3. QED
    BY <2>1, <2>2
<1>7. ASSUME NEW t PROVE Owed(t)' \subseteq Owed(t)
  <2> SUFFICES ASSUME NEW s \in Owed(t)' PROVE s \in Owed(t)
    OBVIOUS
  <2>1. CASE \E x \in Asks' : Entry(x)'.seq = s /\ Entry(x)'.thread = t
    BY <2>1 DEF Owed
  <2>2. CASE \E x \in Replies' : Mail(x)'.seq = s /\ Mail(x)'.to = t
    <3>1. PICK x \in Replies' : Mail(x)'.seq = s /\ Mail(x)'.to = t
      BY <2>2
    <3>2. CASE x = k
      BY <3>1, <3>2 DEF Owed
    <3>3. CASE x # k
      BY <1>2, <3>1, <3>3 DEF Owed, Replies
    <3>4. QED
      BY <3>2, <3>3
  <2>3. QED
    BY <2>1, <2>2 DEF Owed
<1>8. QED
  BY <1>3, <1>4, <1>5, <1>6, <1>7 DEF Placed

(* A thread of the peer makes a request.                                   *)
LEMMA PlacedCalled ==
  ASSUME Placed, UNCHANGED nextCall, peerNext \in PeerCalls, peerNext' = peerNext + 1,
         Sends' \subseteq Sends,
         NEW n, n \notin Asks, Asks' = Asks \cup {n}, \A x \in Asks : Entry(x)' = Entry(x),
         NEW k, k \notin Slots, Slots' = Slots \cup {k}, \A x \in Slots : Mail(x)' = Mail(x),
         Entry(n)' = [seq |-> peerNext, thread |-> None],
         Mail(k)'.kind = "request", Mail(k)'.seq = peerNext
  PROVE  Placed' /\ \A t \in Threads : Owed(t)' \subseteq Owed(t)
<1>1. peerNext \in Nat /\ peerNext \notin Calls
  BY BoundAssumption DEF Calls, PeerCalls
<1>2. Entry(n)'.seq = peerNext /\ Entry(n)'.thread = None
  OBVIOUS
<1>3. Replies' = Replies
  BY DEF Replies
<1>4. \A x \in Replies : Mail(x)' = Mail(x) /\ Mail(x).seq \in Calls
  BY DEF Replies, Placed, MailKnown
<1>5. \A x \in Asks : Entry(x).seq # peerNext
  BY <1>1 DEF Placed, AskKnown, PeerCalls
<1>6. Once'
  <2>1. ASSUME NEW x \in Asks', NEW y \in Asks', Entry(x)'.seq = Entry(y)'.seq
        PROVE  x = y
    <3>1. CASE x = n \/ y = n
      BY <1>2, <1>5, <2>1, <3>1
    <3>2. CASE x # n /\ y # n
      BY <2>1, <3>2 DEF Placed, Once
    <3>3. QED
      BY <3>1, <3>2
  <2>2. \A x, y \in Replies' : Mail(x)'.seq = Mail(y)'.seq => x = y
    BY <1>3, <1>4 DEF Placed, Once
  <2>3. ASSUME NEW x \in Asks', NEW y \in Replies'
        PROVE  Entry(x)'.seq # Mail(y)'.seq
    BY <1>1, <1>2, <1>3, <1>4 DEF Placed, Once
  <2>4. QED
    BY <2>1, <2>2, <2>3 DEF Once
<1>7. Unsent'
  <2> SUFFICES ASSUME NEW s \in Sends'
               PROVE  /\ \A x \in Asks' : Entry(x)'.seq # s
                      /\ \A x \in Replies' : Mail(x)'.seq # s
    BY DEF Unsent
  <2>1. /\ \A x \in Asks : Entry(x).seq # s
        /\ \A x \in Replies : Mail(x).seq # s
    BY DEF Placed, Unsent
  <2>2. s \in Calls
    BY DEF Sends
  <2>3. QED
    BY <1>1, <1>2, <1>3, <1>4, <2>1, <2>2
<1>8. ASSUME NEW x \in Asks' PROVE AskKnown(x)'
  <2>1. CASE x = n
    BY <1>1, <1>2, <2>1 DEF AskKnown
  <2>2. CASE x \in Asks
    <3>1. AskKnown(x) /\ Entry(x)' = Entry(x)
      BY <2>2 DEF Placed
    <3>2. Entry(x).seq \in PeerCalls /\ Entry(x).seq < peerNext => Entry(x).seq < peerNext'
      BY <1>1 DEF PeerCalls
    <3>3. QED
      BY <3>1, <3>2 DEF AskKnown
  <2>3. QED
    BY <2>1, <2>2
<1>9. ASSUME NEW x \in Slots' PROVE MailKnown(x)'
  <2>1. CASE x = k
    BY <1>1, <2>1 DEF MailKnown
  <2>2. CASE x \in Slots
    <3>1. MailKnown(x) /\ Mail(x)' = Mail(x)
      BY <2>2 DEF Placed
    <3>2. Mail(x).seq \in PeerCalls /\ Mail(x).seq < peerNext => Mail(x).seq < peerNext'
      BY <1>1 DEF PeerCalls
    <3>3. QED
      BY <3>1, <3>2 DEF MailKnown
  <2>3. QED
    BY <2>1, <2>2
<1>10. ASSUME NEW t \in Threads PROVE Owed(t)' \subseteq Owed(t)
  <2>1. t # None
    BY BoundAssumption
  <2>2. QED
    BY <1>2, <1>3, <1>4, <2>1 DEF Owed
<1>11. QED
  BY <1>6, <1>7, <1>8, <1>9, <1>10 DEF Placed

(* A request begins.                                                       *)
LEMMA PlacedBegun ==
  ASSUME Placed, UNCHANGED <<inbox, deque, peer, peerNext>>, nextCall \in Calls, nextCall' = nextCall + 1,
         Sends' \subseteq Sends \cup {nextCall}
  PROVE  Placed' /\ \A t : Owed(t)' = Owed(t)
<1>1. Slots' = Slots /\ \A x : Mail(x)' = Mail(x)
  BY MailStays
<1>2. Asks' = Asks /\ \A x : Entry(x)' = Entry(x)
  BY PeerStays
<1>3. Replies' = Replies
  BY <1>1 DEF Replies
<1>4. Once'
  BY <1>1, <1>2, <1>3 DEF Placed, Once
<1>5. nextCall \in Nat /\ nextCall \notin PeerCalls
  BY BoundAssumption DEF Calls, PeerCalls
<1>6. ASSUME NEW x \in Asks' PROVE AskKnown(x)' /\ Entry(x).seq # nextCall
  <2>1. AskKnown(x) /\ Entry(x)' = Entry(x)
    BY <1>2 DEF Placed
  <2>2. Entry(x).seq \in Calls /\ Entry(x).seq < nextCall
          => Entry(x).seq < nextCall' /\ Entry(x).seq # nextCall
    BY <1>5 DEF Calls
  <2>3. QED
    BY <1>5, <2>1, <2>2 DEF AskKnown
<1>7. ASSUME NEW x \in Slots' PROVE MailKnown(x)' /\ Mail(x).seq # nextCall
  <2>1. MailKnown(x) /\ Mail(x)' = Mail(x)
    BY <1>1 DEF Placed
  <2>2. Mail(x).seq \in Calls /\ Mail(x).seq < nextCall
          => Mail(x).seq < nextCall' /\ Mail(x).seq # nextCall
    BY <1>5 DEF Calls
  <2>3. QED
    BY <1>5, <2>1, <2>2 DEF MailKnown
<1>8. Unsent'
  <2> SUFFICES ASSUME NEW s \in Sends'
               PROVE  /\ \A x \in Asks : Entry(x).seq # s
                      /\ \A x \in Replies : Mail(x).seq # s
    BY <1>1, <1>2, <1>3 DEF Unsent
  <2>1. CASE s \in Sends
    BY <2>1 DEF Placed, Unsent
  <2>2. CASE s = nextCall
    BY <1>1, <1>2, <1>6, <1>7, <2>2 DEF Replies
  <2>3. QED
    BY <2>1, <2>2
<1>9. \A t : Owed(t)' = Owed(t)
  BY <1>1, <1>2, <1>3 DEF Owed
<1>10. QED
  BY <1>4, <1>6, <1>7, <1>8, <1>9 DEF Placed

-----------------------------------------------------------------------------
(* What is to be sent, and the handlers, after a step.                     *)
Handled(t) == {i \in 1..Len(stack[t]) : stack[t][i].pc = "handle"}

LEMMA SendsBecome ==
  ASSUME stack \in Stacks, Distinct, Framed,
         NEW t \in Threads, NEW pc, NEW d, Becomes(t, pc, d), pc # "send"
  PROVE  /\ Sends' \subseteq Sends
         /\ At(t, {"send"}) => Top(t).waits \in Sends /\ Top(t).waits \notin Sends'
<1>1. /\ Len(stack'[t]) = Len(stack[t]) /\ Len(stack[t]) \in Nat /\ Len(stack[t]) >= 1
      /\ stack'[t][Len(stack[t])].pc = pc
      /\ \A i \in 1..(Len(stack[t]) - 1) : stack'[t][i] = stack[t][i]
      /\ \A u \in Threads : u # t => stack'[u] = stack[u]
      /\ Top(t) = stack[t][Len(stack[t])] /\ Top(t) \in Frame
  BY TopIs DEF Becomes, Others
<1>2. \A u \in Threads : Len(stack[u]) \in Nat
  BY DEF Stacks
<1>3. ASSUME NEW u \in Threads, NEW i \in 1..Len(stack'[u]), stack'[u][i].pc = "send"
      PROVE  i \in 1..Len(stack[u]) /\ stack'[u][i] = stack[u][i] /\ ~(u = t /\ i = Len(stack[t]))
  <2>1. CASE u = t
    BY <1>1, <1>3, <2>1
  <2>2. CASE u # t
    BY <1>1, <2>2
  <2>3. QED
    BY <2>1, <2>2
<1>4. Sends' \subseteq Sends
  BY <1>3 DEF Sends
<1>5. ASSUME At(t, {"send"})
      PROVE  Top(t).waits \in Sends /\ Top(t).waits \notin Sends'
  <2>1. Top(t).pc = "send" /\ Top(t).waits \in Calls /\ Top(t).waits # None
    <3>1. Top(t).pc = "send" /\ FrameOK(Top(t))
      BY <1>5, TopOK DEF At
    <3>2. QED
      BY <1>1, <3>1 DEF FrameOK, Frame
  <2>2. Top(t).waits \in Sends
    BY <1>1, <2>1 DEF Sends
  <2>3. ASSUME Top(t).waits \in Sends' PROVE FALSE
    <3>5. PICK u \in Threads : \E i \in 1..Len(stack'[u]) :
            stack'[u][i].pc = "send" /\ stack'[u][i].waits = Top(t).waits
      BY <2>3 DEF Sends
    <3>1. PICK i \in 1..Len(stack'[u]) :
            stack'[u][i].pc = "send" /\ stack'[u][i].waits = Top(t).waits
      BY <3>5
    <3>2. i \in 1..Len(stack[u]) /\ stack[u][i].waits = Top(t).waits /\ ~(u = t /\ i = Len(stack[t]))
      BY <1>3, <3>1
    <3>3. Len(stack[t]) \in 1..Len(stack[t]) /\ stack[t][Len(stack[t])].waits = Top(t).waits
      BY <1>1
    <3>4. QED
      BY <2>1, <3>2, <3>3 DEF Distinct
  <2>4. QED
    BY <2>2, <2>3
<1>6. QED
  BY <1>4, <1>5

LEMMA SendsBegin ==
  ASSUME stack \in Stacks, NEW t \in Threads, NEW f, Begins(t, f)
  PROVE  Sends' \subseteq IF f.pc = "send" THEN Sends \cup {f.waits} ELSE Sends
<1>1. ASSUME NEW u \in Threads, NEW i \in 1..Len(stack'[u])
      PROVE  stack'[u][i] = f \/ (i \in 1..Len(stack[u]) /\ stack'[u][i] = stack[u][i])
  <2>1. CASE u = t
    <3>1. Len(stack[t]) \in Nat
      BY DEF Stacks
    <3>2. QED
      BY <2>1, <3>1 DEF Begins
  <2>2. CASE u # t
    BY <2>2 DEF Begins, Others
  <2>3. QED
    BY <2>1, <2>2
<1>2. QED
  BY <1>1 DEF Sends

LEMMA SendsEnd ==
  ASSUME stack \in Stacks, NEW t \in Threads, Ends(t) \/ AllEnd(t)
  PROVE  Sends' \subseteq Sends
<1>1. ASSUME NEW u \in Threads, NEW i \in 1..Len(stack'[u])
      PROVE  i \in 1..Len(stack[u]) /\ stack'[u][i] = stack[u][i]
  <2>1. CASE u = t
    <3>1. Len(stack[t]) \in Nat
      BY DEF Stacks
    <3>2. QED
      BY <2>1, <3>1 DEF Ends, AllEnd
  <2>2. CASE u # t
    BY <2>2 DEF Ends, AllEnd, Others
  <2>3. QED
    BY <2>1, <2>2
<1>2. QED
  BY <1>1 DEF Sends

LEMMA HandledBecome ==
  ASSUME stack \in Stacks, NEW t \in Threads, NEW pc, NEW d, Becomes(t, pc, d)
  PROVE  /\ pc = "handle" => Handled(t)' = Handled(t) \cup {Len(stack[t])}
         /\ pc # "handle" => Handled(t)' = Handled(t) \ {Len(stack[t])}
         /\ At(t, {"handle"}) => Len(stack[t]) \in Handled(t)
<1>1. /\ Len(stack'[t]) = Len(stack[t]) /\ Len(stack[t]) \in Nat /\ Len(stack[t]) >= 1
      /\ stack'[t][Len(stack[t])].pc = pc
      /\ \A i \in 1..(Len(stack[t]) - 1) : stack'[t][i] = stack[t][i]
      /\ Top(t) = stack[t][Len(stack[t])]
  BY TopIs DEF Becomes
<1>2. pc = "handle" => Handled(t)' = Handled(t) \cup {Len(stack[t])}
  BY <1>1 DEF Handled
<1>3. pc # "handle" => Handled(t)' = Handled(t) \ {Len(stack[t])}
  BY <1>1 DEF Handled
<1>4. At(t, {"handle"}) => Len(stack[t]) \in Handled(t)
  BY <1>1 DEF Handled, At
<1>5. QED
  BY <1>2, <1>3, <1>4

LEMMA HandledStay ==
  ASSUME stack \in Stacks, NEW t \in Threads,
         Ends(t) \/ AllEnd(t) \/ \E f : Begins(t, f) /\ f.pc # "handle"
  PROVE  Handled(t)' \subseteq Handled(t)
<1>1. Len(stack[t]) \in Nat
  BY DEF Stacks
<1>2. CASE Ends(t)
  BY <1>1, <1>2 DEF Ends, Handled
<1>3. CASE AllEnd(t)
  BY <1>3 DEF AllEnd, Handled
<1>4. CASE \E f : Begins(t, f) /\ f.pc # "handle"
  BY <1>1, <1>4 DEF Begins, Handled
<1>5. QED
  BY <1>2, <1>3, <1>4

(* A thread counts all that it has coming, and all that it handles.        *)
PaidFor(t) == Cardinality(Owed(t)) + Cardinality(Handled(t)) <= occupation[t]

Paid == \A t \in Threads : PaidFor(t)

LEMMA DebtsFinite ==
  ASSUME stack \in Stacks, NEW t \in Threads
  PROVE  /\ IsFiniteSet(Owed(t)) /\ IsFiniteSet(Handled(t))
         /\ Cardinality(Owed(t)) \in Nat /\ Cardinality(Handled(t)) \in Nat
<1>1. IsFiniteSet(Calls)
  BY BoundAssumption, FS_Interval DEF Calls
<1>2. IsFiniteSet(Owed(t))
  BY <1>1, FS_Subset DEF Owed
<1>3. Len(stack[t]) \in Nat
  BY DEF Stacks
<1>4. IsFiniteSet(1..Len(stack[t]))
  BY <1>3, FS_Interval
<1>5. IsFiniteSet(Handled(t))
  BY <1>4, FS_Subset DEF Handled
<1>6. QED
  BY <1>2, <1>5, FS_CardinalityType

LEMMA PaidLess ==
  ASSUME stack \in Stacks, NEW t \in Threads, PaidFor(t), occupation[t] \in Nat,
         Owed(t)' \subseteq Owed(t), Handled(t)' \subseteq Handled(t), occupation'[t] = occupation[t]
  PROVE  PaidFor(t)'
<1>1. /\ IsFiniteSet(Owed(t)) /\ IsFiniteSet(Handled(t))
      /\ Cardinality(Owed(t)) \in Nat /\ Cardinality(Handled(t)) \in Nat
  BY DebtsFinite
<1>2. IsFiniteSet(Owed(t)') /\ Cardinality(Owed(t)') <= Cardinality(Owed(t))
  BY <1>1, FS_Subset
<1>3. IsFiniteSet(Handled(t)') /\ Cardinality(Handled(t)') <= Cardinality(Handled(t))
  BY <1>1, FS_Subset
<1>4. Cardinality(Owed(t)') \in Nat /\ Cardinality(Handled(t)') \in Nat
  BY <1>2, <1>3, FS_CardinalityType
<1>5. QED
  BY <1>1, <1>2, <1>3, <1>4 DEF PaidFor

LEMMA PaidOneMore ==
  ASSUME stack \in Stacks, NEW t \in Threads, PaidFor(t), occupation[t] \in Nat,
         NEW x,
         \/ Owed(t)' \subseteq Owed(t) \cup {x} /\ Handled(t)' \subseteq Handled(t)
         \/ Owed(t)' \subseteq Owed(t) /\ Handled(t)' \subseteq Handled(t) \cup {x},
         occupation'[t] = occupation[t] + 1
  PROVE  PaidFor(t)'
<1>1. /\ IsFiniteSet(Owed(t)) /\ IsFiniteSet(Handled(t))
      /\ Cardinality(Owed(t)) \in Nat /\ Cardinality(Handled(t)) \in Nat
  BY DebtsFinite
<1>2. /\ IsFiniteSet(Owed(t) \cup {x}) /\ IsFiniteSet(Handled(t) \cup {x})
      /\ Cardinality(Owed(t) \cup {x}) <= Cardinality(Owed(t)) + 1
      /\ Cardinality(Handled(t) \cup {x}) <= Cardinality(Handled(t)) + 1
  <2>1. ASSUME NEW S, IsFiniteSet(S), Cardinality(S) \in Nat
        PROVE  IsFiniteSet(S \cup {x}) /\ Cardinality(S \cup {x}) <= Cardinality(S) + 1
    <3>1. IsFiniteSet(S \cup {x})
          /\ Cardinality(S \cup {x}) = IF x \in S THEN Cardinality(S) ELSE Cardinality(S) + 1
      BY <2>1, FS_AddElement
    <3>2. QED
      BY <2>1, <3>1
  <2>2. QED
    BY <1>1, <2>1
<1>3. \A S, T : IsFiniteSet(T) /\ S \subseteq T =>
        Cardinality(S) \in Nat /\ Cardinality(T) \in Nat /\ Cardinality(S) <= Cardinality(T)
  BY FS_Subset, FS_CardinalityType
<1>4. CASE Owed(t)' \subseteq Owed(t) \cup {x} /\ Handled(t)' \subseteq Handled(t)
  <2>1. /\ Cardinality(Owed(t)') \in Nat /\ Cardinality(Handled(t)') \in Nat
        /\ Cardinality(Owed(t) \cup {x}) \in Nat
        /\ Cardinality(Owed(t)') <= Cardinality(Owed(t) \cup {x})
        /\ Cardinality(Handled(t)') <= Cardinality(Handled(t))
    BY <1>1, <1>2, <1>3, <1>4
  <2>2. QED
    BY <1>1, <1>2, <2>1 DEF PaidFor
<1>5. CASE Owed(t)' \subseteq Owed(t) /\ Handled(t)' \subseteq Handled(t) \cup {x}
  <2>1. /\ Cardinality(Owed(t)') \in Nat /\ Cardinality(Handled(t)') \in Nat
        /\ Cardinality(Handled(t) \cup {x}) \in Nat
        /\ Cardinality(Owed(t)') <= Cardinality(Owed(t))
        /\ Cardinality(Handled(t)') <= Cardinality(Handled(t) \cup {x})
    BY <1>1, <1>2, <1>3, <1>5
  <2>2. QED
    BY <1>1, <1>2, <2>1 DEF PaidFor
<1>6. QED
  BY <1>4, <1>5

LEMMA PaidOneLess ==
  ASSUME stack \in Stacks, NEW t \in Threads, PaidFor(t), occupation[t] \in Nat,
         NEW x,
         \/ x \in Owed(t) /\ Owed(t)' \subseteq Owed(t) \ {x} /\ Handled(t)' \subseteq Handled(t)
         \/ x \in Handled(t) /\ Owed(t)' \subseteq Owed(t) /\ Handled(t)' \subseteq Handled(t) \ {x},
         occupation'[t] = occupation[t] - 1
  PROVE  PaidFor(t)' /\ occupation[t] - 1 \in Nat
<1>1. /\ IsFiniteSet(Owed(t)) /\ IsFiniteSet(Handled(t))
      /\ Cardinality(Owed(t)) \in Nat /\ Cardinality(Handled(t)) \in Nat
  BY DebtsFinite
<1>2. \A S, T : IsFiniteSet(T) /\ S \subseteq T =>
        Cardinality(S) \in Nat /\ Cardinality(T) \in Nat /\ Cardinality(S) <= Cardinality(T)
  BY FS_Subset, FS_CardinalityType
<1>3. CASE x \in Owed(t) /\ Owed(t)' \subseteq Owed(t) \ {x} /\ Handled(t)' \subseteq Handled(t)
  <2>1. IsFiniteSet(Owed(t) \ {x}) /\ Cardinality(Owed(t) \ {x}) = Cardinality(Owed(t)) - 1
    BY <1>1, <1>3, FS_RemoveElement
  <2>2. /\ Cardinality(Owed(t)') \in Nat /\ Cardinality(Handled(t)') \in Nat
        /\ Cardinality(Owed(t)') <= Cardinality(Owed(t)) - 1
        /\ Cardinality(Handled(t)') <= Cardinality(Handled(t))
        /\ Cardinality(Owed(t)) - 1 \in Nat
    BY <1>1, <1>2, <1>3, <2>1
  <2>3. QED
    BY <1>1, <2>2 DEF PaidFor
<1>4. CASE x \in Handled(t) /\ Owed(t)' \subseteq Owed(t) /\ Handled(t)' \subseteq Handled(t) \ {x}
  <2>1. IsFiniteSet(Handled(t) \ {x}) /\ Cardinality(Handled(t) \ {x}) = Cardinality(Handled(t)) - 1
    BY <1>1, <1>4, FS_RemoveElement
  <2>2. /\ Cardinality(Owed(t)') \in Nat /\ Cardinality(Handled(t)') \in Nat
        /\ Cardinality(Owed(t)') <= Cardinality(Owed(t))
        /\ Cardinality(Handled(t)') <= Cardinality(Handled(t)) - 1
        /\ Cardinality(Handled(t)) - 1 \in Nat
    BY <1>1, <1>2, <1>4, <2>1
  <2>3. QED
    BY <1>1, <2>2 DEF PaidFor
<1>5. QED
  BY <1>3, <1>4

-----------------------------------------------------------------------------
(* The pool: who sleeps is in it, and where no request times out nobody    *)
(* else is, nor anybody twice.                                             *)
EventsSet == \A t \in Threads : deque[t] # <<>> => t \in event

InPool == \A t \in Threads : At(t, {"pool"}) => \E i \in 1..Len(pool) : pool[i] = t

PoolExact ==
  ~setup.timed =>
    /\ \A i \in 1..Len(pool) : At(pool[i], {"pool"})
    /\ \A i, j \in 1..Len(pool) : pool[i] = pool[j] => i = j

(* Who is to receive: the receiver, or else somebody of the pool who has   *)
(* been told to and has no message to see to first, unless everybody there *)
(* has been told.                                                          *)
Receives(t) == At(t, {"recv", "closing"})

Handover ==
  /\ \A t, u \in Threads : Receives(t) /\ Receives(u) => t = u
  /\ \A t \in Threads : Receives(t) => receiving
  /\ receiving => closed \/ \E t \in Threads : Receives(t)
  /\ ~setup.timed /\ ~closed /\ ~receiving =>
       \/ \A t \in Threads : At(t, {"pool"}) => t \in event
       \/ \E t \in Threads : At(t, {"pool"}) /\ t \in event /\ deque[t] = <<>>

(* The inductive invariant behind Inv.                                     *)
Base ==
  /\ TypeOK
  /\ Framed /\ Distinct
  /\ Placed /\ Paid
  /\ EventsSet /\ InPool /\ PoolExact /\ Handover
  /\ expired # {} => setup.timed

LEMMA Typed ==
  ASSUME TypeOK
  PROVE  stack \in Stacks /\ Mails /\ peer \in Peers
BY DEF TypeOK, Stacks, Mails, Peers, Item

-----------------------------------------------------------------------------
(* What the actions do.                                                    *)
LEMMA DispatchIs ==
  ASSUME TypeOK, NEW t \in Threads, stack[t] # <<>>, Top(t).data = None,
         NEW m \in Message, Dispatch(t, m)
  PROVE  /\ stack' \in Stacks
         /\ m.kind = "request" =>
              /\ Becomes(t, "handle", m)
              /\ remote' = [remote EXCEPT ![t] = m.from]
              /\ occupation' = [occupation EXCEPT ![t] = occupation[t] + 1]
              /\ ready' = ready
         /\ m.kind = "reply" =>
              /\ Becomes(t, "loop", None)
              /\ remote' = [remote EXCEPT ![t] = IF occupation[t] = 1 THEN Unbound ELSE m.from]
              /\ occupation' = [occupation EXCEPT ![t] = occupation[t] - 1]
              /\ ready' = IF m.seq \in expired THEN ready ELSE ready \cup {m.seq}
<1>1. stack \in Stacks /\ Top(t) \in Frame
  BY Typed, TopIs
<1>2. CASE m.kind = "request"
  <2> DEFINE f == [Top(t) EXCEPT !.pc = "handle", !.data = m]
  <2>1. f \in Frame /\ f.waits = Top(t).waits /\ f.pc = "handle" /\ f.data = m
    BY <1>1 DEF Frame, Labels
  <2>2. stack' = With(t, f) /\ remote' = [remote EXCEPT ![t] = m.from]
        /\ occupation' = [occupation EXCEPT ![t] = occupation[t] + 1] /\ ready' = ready
    BY <1>2 DEF Dispatch
  <2> HIDE DEF f
  <2>3. Becomes(t, "handle", m) /\ stack' \in Stacks
    BY <1>1, <2>1, <2>2, WithBecomes
  <2>4. QED
    BY <1>2, <2>2, <2>3
<1>3. CASE m.kind = "reply"
  <2>1. /\ Goto(t, "loop")
        /\ remote' = [remote EXCEPT ![t] = IF occupation[t] = 1 THEN Unbound ELSE m.from]
        /\ occupation' = [occupation EXCEPT ![t] = occupation[t] - 1]
        /\ ready' = IF m.seq \in expired THEN ready ELSE ready \cup {m.seq}
    BY <1>3 DEF Dispatch, Vacate
  <2>2. "loop" \in Labels
    BY DEF Labels
  <2>3. Becomes(t, "loop", None) /\ stack' \in Stacks
    BY <1>1, <2>1, <2>2, GotoBecomes
  <2>4. QED
    BY <1>3, <2>1, <2>3
<1>4. QED
  BY <1>2, <1>3 DEF Message

(* A thread dispatches the message z that has left its box.                *)
LEMMA DispatchKeeps ==
  ASSUME Base, NEW t \in Threads, stack[t] # <<>>, ~At(t, {"send", "handle"}), UNCHANGED <<setup, peer, nextCall, peerNext, closed>>,
         NEW z \in Slots, Mail(z).kind = "reply" => Mail(z).to = t,
         NEW h, Carried(h), \A x \in Slots' : h[x][1] = x[1] /\ h[x] # z,
         Dispatch(t, Mail(z))
  PROVE  /\ Framed' /\ Distinct' /\ Placed' /\ Paid'
         /\ stack' \in Stacks
         /\ occupation' \in [Threads -> Nat]
         /\ remote' \in [Threads -> Remotes \cup {Unbound}]
         /\ ready' \subseteq Calls
         /\ \/ Mail(z).kind = "request" /\ Becomes(t, "handle", Mail(z))
            \/ Mail(z).kind = "reply" /\ Becomes(t, "loop", None)
<1> DEFINE m == Mail(z)
<1>1. TypeOK /\ Framed /\ Distinct /\ Placed /\ Paid
  BY DEF Base
<1>2. stack \in Stacks /\ Mails /\ peer \in Peers
  BY <1>1, Typed
<1>3. m \in Message
  BY <1>2, MailType
<1>4. Top(t).data = None
  <2>1. FrameOK(Top(t))
    BY <1>1, <1>2, TopOK
  <2>2. QED
    BY <2>1 DEF FrameOK, At
<1>5. /\ stack' \in Stacks
      /\ m.kind = "request" =>
           /\ Becomes(t, "handle", m)
           /\ remote' = [remote EXCEPT ![t] = m.from]
           /\ occupation' = [occupation EXCEPT ![t] = occupation[t] + 1]
           /\ ready' = ready
      /\ m.kind = "reply" =>
           /\ Becomes(t, "loop", None)
           /\ remote' = [remote EXCEPT ![t] = IF occupation[t] = 1 THEN Unbound ELSE m.from]
           /\ occupation' = [occupation EXCEPT ![t] = occupation[t] - 1]
           /\ ready' = IF m.seq \in expired THEN ready ELSE ready \cup {m.seq}
  BY <1>1, <1>3, <1>4, DispatchIs
<1>6. MailKnown(z) /\ m.from \in Remotes
  BY <1>1, <1>3 DEF Placed, Message
<1>7. occupation \in [Threads -> Nat] /\ remote \in [Threads -> Remotes \cup {Unbound}] /\ ready \subseteq Calls
  BY <1>1 DEF TypeOK
<1>8. PICK g : Kept(g)
  BY PeerStays
<1>9. \A x \in Slots' : Mail(h[x]).kind = "reply" => x[1] \in {None, Mail(h[x]).to}
  <2> SUFFICES ASSUME NEW x \in Slots', Mail(h[x]).kind = "reply"
               PROVE  x[1] \in {None, Mail(h[x]).to}
    OBVIOUS
  <2>1. h[x] \in Slots /\ h[x][1] = x[1]
    BY DEF Carried
  <2>2. MailKnown(h[x])
    BY <1>1, <2>1 DEF Placed
  <2>3. QED
    BY <2>1, <2>2 DEF MailKnown
<1>10. \A u \in Threads : u # t => Handled(u)' = Handled(u)
  <2>1. Others(t)
    BY <1>3, <1>5 DEF Becomes, Message
  <2>2. QED
    BY <2>1 DEF Others, Handled
<1>11. CASE m.kind = "request"
  <2>1. Becomes(t, "handle", m)
    BY <1>5, <1>11
  <2>2. Framed' /\ Distinct'
    <3>1. m # None
      BY <1>3, BoundAssumption
    <3>2. QED
      BY <1>1, <1>2, <1>5, <1>11, <2>1, <3>1, FramedBecomes
  <2>3. Sends' \subseteq Sends
    BY <1>1, <1>2, <2>1, SendsBecome
  <2>4. Placed' /\ \A u : Owed(u)' \subseteq Owed(u)
    BY <1>1, <1>8, <1>9, <2>3, PlacedMoves
  <2>5. PaidFor(t)'
    <3>1. Handled(t)' = Handled(t) \cup {Len(stack[t])}
      BY <1>2, <2>1, HandledBecome
    <3>2. occupation'[t] = occupation[t] + 1 /\ occupation[t] \in Nat
      BY <1>5, <1>7, <1>11
    <3>3. Owed(t)' \subseteq Owed(t) /\ Handled(t)' \subseteq Handled(t) \cup {Len(stack[t])}
      BY <2>4, <3>1
    <3>4. PaidFor(t)
      BY <1>1 DEF Paid
    <3>5. QED
      BY <1>2, <3>2, <3>3, <3>4, PaidOneMore
  <2>6. occupation' \in [Threads -> Nat] /\ \A u \in Threads : u # t => occupation'[u] = occupation[u]
    BY <1>5, <1>7, <1>11
  <2>7. ASSUME NEW u \in Threads, u # t PROVE PaidFor(u)'
    <3>1. occupation'[u] = occupation[u] /\ occupation[u] \in Nat /\ PaidFor(u)
      BY <1>1, <1>7, <2>6, <2>7 DEF Paid
    <3>2. QED
      BY <1>2, <1>10, <2>4, <2>7, <3>1, PaidLess
  <2>8. remote' \in [Threads -> Remotes \cup {Unbound}] /\ ready' \subseteq Calls
    BY <1>5, <1>6, <1>7, <1>11
  <2>9. QED
    BY <1>5, <1>11, <2>1, <2>2, <2>4, <2>5, <2>6, <2>7, <2>8 DEF Paid
<1>12. CASE m.kind = "reply"
  <2>1. Becomes(t, "loop", None)
    BY <1>5, <1>12
  <2>2. Framed' /\ Distinct'
    BY <1>1, <1>2, <1>5, <1>12, <2>1, FramedBecomes
  <2>3. Sends' \subseteq Sends
    BY <1>1, <1>2, <2>1, SendsBecome
  <2>4. Placed' /\ \A u : Owed(u)' \subseteq Owed(u)
    BY <1>1, <1>8, <1>9, <2>3, PlacedMoves
  <2>5. m.to = t /\ m.seq \in Calls /\ z \in Replies
    BY <1>6, <1>12 DEF MailKnown, Replies
  <2>6. m.seq \in Owed(t) /\ m.seq \notin Owed(t)'
    BY <1>1, <1>8, <2>5, OwedTaken
  <2>7. PaidFor(t)' /\ occupation[t] - 1 \in Nat
    <3>1. Handled(t)' \subseteq Handled(t)
      BY <1>2, <2>1, HandledBecome
    <3>2. occupation'[t] = occupation[t] - 1 /\ occupation[t] \in Nat
      BY <1>5, <1>7, <1>12
    <3>3. Owed(t)' \subseteq Owed(t) \ {m.seq}
      BY <2>4, <2>6
    <3>4. PaidFor(t)
      BY <1>1 DEF Paid
    <3> HIDE DEF m
    <3>5. QED
      BY <1>2, <2>6, <3>1, <3>2, <3>3, <3>4, PaidOneLess
  <2>8. occupation' \in [Threads -> Nat] /\ \A u \in Threads : u # t => occupation'[u] = occupation[u]
    BY <1>5, <1>7, <1>12, <2>7
  <2>9. ASSUME NEW u \in Threads, u # t PROVE PaidFor(u)'
    <3>1. occupation'[u] = occupation[u] /\ occupation[u] \in Nat /\ PaidFor(u)
      BY <1>1, <1>7, <2>8, <2>9 DEF Paid
    <3>2. QED
      BY <1>2, <1>10, <2>4, <2>9, <3>1, PaidLess
  <2>10. remote' \in [Threads -> Remotes \cup {Unbound}] /\ ready' \subseteq Calls
    BY <1>5, <1>6, <1>7, <1>12, <2>5
  <2>11. QED
    BY <1>5, <1>12, <2>1, <2>2, <2>4, <2>7, <2>8, <2>9, <2>10 DEF Paid
<1>13. QED
  BY <1>3, <1>11, <1>12 DEF Message

(* A step that sends nothing and handles nothing.                          *)
LEMMA QuietKeeps ==
  ASSUME Base, NEW t \in Threads, stack' \in Stacks, closed => closed',
         UNCHANGED <<setup, occupation, inbox, deque, peer, nextCall, peerNext>>,
         \/ Ends(t) \/ AllEnd(t) \/ UNCHANGED stack
         \/ \E pc \in {"loop", "pool", "recv", "closing"} :
              Becomes(t, pc, None) /\ (pc = "closing" => closed')
  PROVE  Framed' /\ Distinct' /\ Placed' /\ Paid'
<1>1. TypeOK /\ Framed /\ Distinct /\ Placed /\ Paid
  BY DEF Base
<1>2. stack \in Stacks /\ Mails /\ peer \in Peers
  BY <1>1, Typed
<1>3. Framed' /\ Distinct'
  <2>1. CASE Ends(t) \/ AllEnd(t)
    BY <1>1, <1>2, <2>1, FramedEnds
  <2>4. CASE UNCHANGED stack
    BY <1>1, <2>4 DEF Framed, FrameOK, Distinct
  <2>2. CASE \E pc \in {"loop", "pool", "recv", "closing"} :
               Becomes(t, pc, None) /\ (pc = "closing" => closed')
    <3>1. PICK pc \in {"loop", "pool", "recv", "closing"} :
               Becomes(t, pc, None) /\ (pc = "closing" => closed')
      BY <2>2
    <3>2. QED
      BY <1>1, <1>2, <3>1, FramedBecomes
  <2>3. QED
    BY <2>1, <2>2, <2>4
<1>4. Sends' \subseteq Sends /\ Handled(t)' \subseteq Handled(t) /\ Others(t)
  <2>4. CASE UNCHANGED stack
    BY <2>4 DEF Sends, Handled, Others
  <2>1. CASE Ends(t) \/ AllEnd(t)
    BY <1>2, <2>1, SendsEnd, HandledStay DEF Ends, AllEnd
  <2>2. CASE \E pc \in {"loop", "pool", "recv", "closing"} : Becomes(t, pc, None)
    <3>1. PICK pc \in {"loop", "pool", "recv", "closing"} : Becomes(t, pc, None)
      BY <2>2
    <3>2. QED
      BY <1>1, <1>2, <3>1, SendsBecome, HandledBecome DEF Becomes
  <2>3. QED
    BY <2>1, <2>2, <2>4
<1>5. Placed' /\ \A u : Owed(u)' \subseteq Owed(u)
  <2>1. PICK h : Carried(h) /\ \A x \in Slots' : h[x] = x
    BY MailStays
  <2>2. PICK g : Kept(g)
    BY PeerStays
  <2>3. \A x \in Slots' : Mail(h[x]).kind = "reply" => x[1] \in {None, Mail(h[x]).to}
    BY <1>1, <2>1 DEF Placed, MailKnown, Carried
  <2>4. QED
    BY <1>1, <1>4, <2>1, <2>2, <2>3, PlacedMoves
<1>6. ASSUME NEW u \in Threads PROVE PaidFor(u)'
  <2>1. Handled(u)' \subseteq Handled(u)
    BY <1>4 DEF Others, Handled
  <2>2. occupation'[u] = occupation[u] /\ occupation[u] \in Nat /\ PaidFor(u)
    BY <1>1 DEF Paid, TypeOK
  <2>3. QED
    BY <1>2, <1>5, <2>1, <2>2, PaidLess
<1>7. QED
  BY <1>3, <1>5, <1>6 DEF Paid

(* A step after which everybody is where they were, in the pool or out of  *)
(* it, and nobody there is told less.                                      *)
LEMMA SamePlaces ==
  ASSUME Handover, InPool, PoolExact, pool \in Seq(Threads), UNCHANGED <<setup, pool, receiving>>, closed => closed',
         \A u \in Threads : (At(u, {"pool"})' <=> At(u, {"pool"})) /\ (Receives(u)' <=> Receives(u)),
         \/ closed' \/ receiving
         \/ \A u \in Threads : At(u, {"pool"}) =>
              (u \in event => u \in event') /\ (deque[u] = <<>> => deque'[u] = <<>>)
  PROVE  Handover' /\ InPool' /\ PoolExact'
<1>1. \A i \in 1..Len(pool) : pool[i] \in Threads
  OBVIOUS
<1>2. InPool' /\ PoolExact'
  BY <1>1 DEF InPool, PoolExact
<1>3. Handover'
  BY DEF Handover
<1>4. QED
  BY <1>2, <1>3

(* Where a thread is after a step of its own, and the others are.          *)
LEMMA PlaceAfter ==
  ASSUME stack \in Stacks, stack' \in Stacks, NEW t \in Threads, NEW pc, NEW d, Becomes(t, pc, d)
  PROVE  /\ At(t, {"pool"})' <=> pc = "pool"
         /\ Receives(t)' <=> pc \in {"recv", "closing"}
         /\ \A u \in Threads : u # t => (At(u, {"pool"})' <=> At(u, {"pool"})) /\ (Receives(u)' <=> Receives(u))
<1>1. \A pcs : At(t, pcs)' <=> pc \in pcs
  BY BecomesTop
<1>2. \A u \in Threads : u # t => (At(u, {"pool"})' <=> At(u, {"pool"})) /\ (Receives(u)' <=> Receives(u))
  BY OthersStay DEF Becomes, Receives
<1>3. QED
  BY <1>1, <1>2 DEF Receives

LEMMA PlaceAfterEnd ==
  ASSUME stack \in Stacks, stack' \in Stacks, Framed, NEW t \in Threads, Ends(t) \/ AllEnd(t)
  PROVE  /\ ~At(t, {"pool"})' /\ ~Receives(t)'
         /\ \A u \in Threads : u # t => (At(u, {"pool"})' <=> At(u, {"pool"})) /\ (Receives(u)' <=> Receives(u))
<1>1. Others(t)
  BY DEF Ends, AllEnd
<1>2. \A u \in Threads : u # t => (At(u, {"pool"})' <=> At(u, {"pool"})) /\ (Receives(u)' <=> Receives(u))
  BY <1>1, OthersStay DEF Receives
<1>3. ~At(t, {"pool"})' /\ ~At(t, {"recv", "closing"})'
  <2>1. CASE Ends(t)
    BY <2>1, EndsTop
  <2>2. CASE AllEnd(t)
    BY <2>2 DEF AllEnd, At
  <2>3. QED
    BY <2>1, <2>2
<1>4. QED
  BY <1>2, <1>3 DEF Receives

(* At one place, a thread is not at another.                               *)
LEMMA OnePlace ==
  ASSUME NEW t, NEW p, NEW q, At(t, p), p \cap q = {}
  PROVE  ~At(t, q)
BY DEF At

(* A thread leaves the pool.                                               *)
LEMMA PoolLeft ==
  ASSUME TypeOK, InPool, NEW t \in Threads, At(t, {"pool"}), pool' = RemoveFirst(pool, t),
         UNCHANGED setup,
         ~At(t, {"pool"})', \A u \in Threads : u # t => (At(u, {"pool"})' <=> At(u, {"pool"})),
         PoolExact
  PROVE  pool' \in Seq(Threads) /\ InPool' /\ PoolExact'
<1>1. pool \in Seq(Threads) /\ Len(pool) \in Nat
  BY DEF TypeOK
<1>2. PICK j \in 1..Len(pool) : pool[j] = t
  BY DEF InPool
<1>3. PICK i \in 1..Len(pool) : pool[i] = t /\ pool' = RemoveAt(pool, i)
  BY <1>1, <1>2, RemoveFirstIs
<1>4. /\ pool' \in Seq(Threads) /\ Len(pool') = Len(pool) - 1
      /\ \A k \in 1..(Len(pool) - 1) : pool'[k] = IF k < i THEN pool[k] ELSE pool[k + 1]
  BY <1>1, <1>3, RemoveAtIs
<1>5. InPool'
  <2> SUFFICES ASSUME NEW u \in Threads, At(u, {"pool"})'
               PROVE  \E k \in 1..Len(pool') : pool'[k] = u
    BY DEF InPool
  <2>1. u # t /\ At(u, {"pool"})
    OBVIOUS
  <2>2. PICK k \in 1..Len(pool) : pool[k] = u
    BY <2>1 DEF InPool
  <2>3. CASE k < i
    <3>1. k \in 1..(Len(pool) - 1) /\ pool'[k] = u
      BY <1>1, <1>4, <2>2, <2>3
    <3>2. QED
      BY <1>4, <3>1
  <2>4. CASE k > i
    <3>1. k - 1 \in 1..(Len(pool) - 1) /\ ~(k - 1 < i) /\ k - 1 + 1 = k
      BY <1>1, <2>4
    <3>2. pool'[k - 1] = u
      BY <1>4, <2>2, <3>1
    <3>3. QED
      BY <1>4, <3>1, <3>2
  <2>5. QED
    BY <1>3, <2>1, <2>2, <2>3, <2>4
<1>6. PoolExact'
  <2> SUFFICES ASSUME ~setup.timed
               PROVE  /\ \A k \in 1..Len(pool') : At(pool[k], {"pool"})'
                      /\ \A k, l \in 1..Len(pool') : pool'[k] = pool'[l] => k = l
    BY DEF PoolExact
  <2>1. /\ \A k \in 1..Len(pool) : At(pool[k], {"pool"}) /\ pool[k] \in Threads
        /\ \A k, l \in 1..Len(pool) : pool[k] = pool[l] => k = l
    BY <1>1 DEF PoolExact
  <2>2. ASSUME NEW k \in 1..Len(pool')
        PROVE  \E l \in 1..Len(pool) : l # i /\ pool'[k] = pool[l] /\ l = IF k < i THEN k ELSE k + 1
    <3>1. k \in 1..(Len(pool) - 1)
      BY <1>4
    <3>2. CASE k < i
      BY <1>1, <1>4, <3>1, <3>2
    <3>3. CASE ~(k < i)
      <4>1. k + 1 \in 1..Len(pool) /\ k + 1 # i /\ pool'[k] = pool[k + 1]
        BY <1>1, <1>4, <3>1, <3>3
      <4>2. QED
        BY <3>3, <4>1
    <3>4. QED
      BY <3>2, <3>3
  <2>3. ASSUME NEW k \in 1..Len(pool')
        PROVE  At(pool[k], {"pool"})'
    <3>1. PICK l \in 1..Len(pool) : l # i /\ pool'[k] = pool[l]
      BY <2>2
    <3>2. pool[l] # t /\ At(pool[l], {"pool"}) /\ pool[l] \in Threads
      BY <1>3, <2>1, <3>1
    <3>3. PICK u \in Threads : u = pool[l]
      BY <3>2
    <3>4. At(u, {"pool"})' /\ u = pool'[k]
      BY <3>1, <3>2, <3>3
    <3>5. QED
      BY <3>4 DEF At, Top
  <2>4. ASSUME NEW k \in 1..Len(pool'), NEW l \in 1..Len(pool'), pool'[k] = pool'[l]
        PROVE  k = l
    <3>1. PICK a \in 1..Len(pool) : a # i /\ pool'[k] = pool[a] /\ a = IF k < i THEN k ELSE k + 1
      BY <2>2
    <3>2. PICK b \in 1..Len(pool) : b # i /\ pool'[l] = pool[b] /\ b = IF l < i THEN l ELSE l + 1
      BY <2>2
    <3>3. a = b
      BY <2>1, <2>4, <3>1, <3>2
    <3>4. k \in Nat /\ l \in Nat
      BY <1>4
    <3>5. QED
      BY <3>1, <3>2, <3>3, <3>4
  <2>5. QED
    BY <2>3, <2>4 DEF PoolExact
<1>7. QED
  BY <1>4, <1>5, <1>6

-----------------------------------------------------------------------------
(* Every action keeps Base.                                                *)
LEMMA SetupIs ==
  ASSUME TypeOK
  PROVE  /\ setup.calls \in 0..MaxCalls /\ setup.peerCalls \in 0..MaxPeerCalls
         /\ MaxCalls \in Nat /\ MaxPeerCalls \in Nat
BY BoundAssumption DEF TypeOK

LEMMA CallIs ==
  ASSUME Base, NEW t \in Threads, Call(t)
  PROVE  /\ nextCall \in Calls /\ nextCall' \in 1..(MaxCalls + 1)
         /\ Begins(t, NewFrame(nextCall, "send")) /\ stack' \in Stacks
<1>1. TypeOK
  BY DEF Base
<1>2. nextCall \in Calls /\ nextCall' \in 1..(MaxCalls + 1)
  <2>1. nextCall \in 1..(MaxCalls + 1) /\ nextCall <= setup.calls /\ nextCall' = nextCall + 1
    BY <1>1 DEF TypeOK, Call
  <2>2. setup.calls \in 0..MaxCalls /\ MaxCalls \in Nat
    BY <1>1, SetupIs
  <2>3. QED
    BY <2>1, <2>2 DEF Calls
<1>3. NewFrame(nextCall, "send") \in Frame
  BY <1>2 DEF NewFrame, Frame, Labels
<1>4. Begins(t, NewFrame(nextCall, "send")) /\ stack' \in Stacks
  BY <1>1, <1>3, Typed, PushBegins DEF Call
<1>5. QED
  BY <1>2, <1>4

LEMMA CallKeeps ==
  ASSUME Base, NEW t \in Threads, ClientCalls(t) \/ HandlerCalls(t)
  PROVE  Base'
<1>1. TypeOK /\ Framed /\ Distinct /\ Placed /\ Paid /\ EventsSet /\ InPool /\ PoolExact /\ Handover
  BY DEF Base
<1>2. stack \in Stacks /\ Call(t) /\ (stack[t] = <<>> \/ At(t, {"handle"}))
  BY <1>1, Typed DEF ClientCalls, HandlerCalls
<1>3. /\ nextCall \in Calls /\ nextCall' \in 1..(MaxCalls + 1)
      /\ Begins(t, NewFrame(nextCall, "send")) /\ stack' \in Stacks
  BY <1>2, CallIs
<1> DEFINE f == NewFrame(nextCall, "send")
<1>4. f.pc = "send" /\ f.waits = nextCall /\ f.data = None /\ nextCall # None
  BY <1>3, BoundAssumption DEF NewFrame, Calls
<1>5. /\ nextCall' = nextCall + 1
      /\ UNCHANGED <<setup, occupation, remote, event, deque, pool, receiving, inbox, ready, expired>>
      /\ UNCHANGED <<peerNext, peer, eof, closed>>
  BY <1>2 DEF Call, threadVars, poolVars, resultVars, peerVars
<1> HIDE DEF f
<1>6. Begins(t, f)
  BY <1>3 DEF f
<1>7. TypeOK'
  BY <1>1, <1>3, <1>5 DEF TypeOK, Stacks
<1>8. Framed' /\ Distinct'
  <2>1. nextCall \in Nat /\ nextCall' \in Nat /\ nextCall' >= nextCall
    BY <1>3, <1>5 DEF Calls
  <2>2. QED
    BY <1>1, <1>2, <1>3, <1>4, <1>5, <1>6, <2>1, FramedBegins
<1>9. Placed' /\ \A u : Owed(u)' = Owed(u)
  <2>1. Sends' \subseteq Sends \cup {nextCall}
    BY <1>2, <1>4, <1>6, SendsBegin
  <2>2. QED
    BY <1>1, <1>3, <1>5, <2>1, PlacedBegun
<1>10. ASSUME NEW u \in Threads PROVE PaidFor(u)'
  <2>1. Handled(u)' \subseteq Handled(u)
    <3>1. CASE u = t
      BY <1>2, <1>4, <1>6, <3>1, HandledStay
    <3>2. CASE u # t
      BY <1>6, <3>2 DEF Begins, Others, Handled
    <3>3. QED
      BY <3>1, <3>2
  <2>2. occupation'[u] = occupation[u] /\ occupation[u] \in Nat /\ PaidFor(u)
    BY <1>1, <1>5 DEF Paid, TypeOK
  <2>3. QED
    BY <1>2, <1>9, <2>1, <2>2, PaidLess
<1>11. Handover' /\ InPool' /\ PoolExact'
  <2>1. ASSUME NEW u \in Threads
        PROVE  (At(u, {"pool"})' <=> At(u, {"pool"})) /\ (Receives(u)' <=> Receives(u))
    <3>1. CASE u = t
      <4>1. ~At(t, {"pool"})' /\ ~At(t, {"recv", "closing"})'
        BY <1>2, <1>3, <1>4, <1>6, BeginsTop
      <4>2. ~At(t, {"pool"}) /\ ~At(t, {"recv", "closing"})
        BY <1>2 DEF At
      <4>3. QED
        BY <3>1, <4>1, <4>2 DEF Receives
    <3>2. CASE u # t
      BY <1>6, <3>2, OthersStay DEF Begins, Receives
    <3>3. QED
      BY <3>1, <3>2
  <2>2. pool \in Seq(Threads)
    BY <1>1 DEF TypeOK
  <2>3. QED
    BY <1>1, <1>5, <2>1, <2>2, SamePlaces
<1>12. EventsSet' /\ (expired' # {} => setup'.timed)
  BY <1>1, <1>5 DEF EventsSet, Base
<1>13. QED
  BY <1>7, <1>8, <1>9, <1>10, <1>11, <1>12 DEF Base, Paid

LEMMA SendRequestIs ==
  ASSUME Base, NEW t \in Threads, SendRequest(t)
  PROVE  /\ stack[t] # <<>> /\ At(t, {"send"}) /\ Top(t).waits \in Calls /\ Top(t).data = None
         /\ Becomes(t, "loop", None) /\ stack' \in Stacks
         /\ \E r \in Remotes : 
              /\ r = IF remote[t] = Unbound THEN Top(t).waits ELSE remote[t]
              /\ peer' = [peer EXCEPT ![r] = Append(peer[r], [seq |-> Top(t).waits, thread |-> t])]
<1>1. TypeOK /\ Framed /\ stack \in Stacks /\ stack[t] # <<>> /\ At(t, {"send"})
  BY Typed DEF Base, SendRequest, At
<1>2. FrameOK(Top(t)) /\ Top(t) \in Frame /\ Top(t).pc = "send"
  BY <1>1, TopIs, TopOK DEF At
<1>3. Top(t).waits \in Calls /\ Top(t).data = None
  BY <1>2 DEF FrameOK, Frame
<1>4. Becomes(t, "loop", None) /\ stack' \in Stacks
  <2>1. Goto(t, "loop") /\ "loop" \in Labels
    BY DEF SendRequest, Labels
  <2>2. QED
    BY <1>1, <1>3, <2>1, GotoBecomes
<1> DEFINE r == IF remote[t] = Unbound THEN Top(t).waits ELSE remote[t]
<1>5. r \in Remotes
  BY <1>1, <1>3 DEF TypeOK, Remotes
<1>6. peer' = [peer EXCEPT ![r] = Append(peer[r], [seq |-> Top(t).waits, thread |-> t])]
  BY DEF SendRequest
<1>7. QED
  BY <1>1, <1>3, <1>4, <1>5, <1>6

LEMMA SendRequestKeeps ==
  ASSUME Base, NEW t \in Threads, SendRequest(t)
  PROVE  Base'
<1>1. TypeOK /\ Framed /\ Distinct /\ Placed /\ Paid /\ EventsSet /\ InPool /\ PoolExact /\ Handover
  BY DEF Base
<1>2. stack \in Stacks /\ peer \in Peers
  BY <1>1, Typed
<1>3. /\ At(t, {"send"}) /\ Top(t).waits \in Calls
      /\ Becomes(t, "loop", None) /\ stack' \in Stacks
  BY SendRequestIs
<1>4. PICK r \in Remotes : peer' = [peer EXCEPT ![r] = Append(peer[r], [seq |-> Top(t).waits, thread |-> t])]
  BY SendRequestIs
<1>5. /\ UNCHANGED <<setup, remote, event, deque, pool, receiving, inbox, ready, expired, nextCall, peerNext, eof, closed>>
      /\ occupation' = [occupation EXCEPT ![t] = occupation[t] + 1]
  BY DEF SendRequest, poolVars, resultVars
<1>6. PICK s \in Calls : s = Top(t).waits
  BY <1>3
<1> DEFINE e == [seq |-> s, thread |-> t]
<1>7. e \in Item /\ peer' = [peer EXCEPT ![r] = Append(peer[r], e)]
  BY <1>4, <1>6 DEF Item, Remotes
<1>8. /\ peer' \in Peers
      /\ \E n : /\ n \notin Asks /\ Asks' = Asks \cup {n}
                /\ Entry(n)' = e
                /\ \A x \in Asks : Entry(x)' = Entry(x)
  <2> HIDE DEF e
  <2>1. QED
    BY <1>2, <1>7, PeerAdds
<1>9. TypeOK'
  <2>1. occupation' \in [Threads -> Nat]
    BY <1>1, <1>5 DEF TypeOK
  <2>2. peer' \in Peers
    BY <1>8
  <2>3. QED
    BY <1>1, <1>3, <1>5, <2>1, <2>2 DEF TypeOK, Stacks, Peers, Item
<1>10. Framed' /\ Distinct'
  BY <1>1, <1>2, <1>3, <1>5, FramedBecomes
<1>11. Sends' \subseteq Sends /\ s \in Sends /\ s \notin Sends'
  BY <1>1, <1>2, <1>3, <1>6, SendsBecome
<1>12. s < nextCall
  <2>1. FrameOK(Top(t)) /\ s # None
    BY <1>1, <1>2, <1>3, <1>6, TopOK, BoundAssumption DEF At, Calls
  <2>2. QED
    BY <1>6, <2>1 DEF FrameOK
<1>13. /\ Placed'
       /\ Owed(t)' \subseteq Owed(t) \cup {s}
       /\ \A u \in Threads : u # t => Owed(u)' \subseteq Owed(u)
  <2>1. PICK n : /\ n \notin Asks /\ Asks' = Asks \cup {n}
                 /\ Entry(n)' = [seq |-> s, thread |-> t]
                 /\ \A x \in Asks : Entry(x)' = Entry(x)
    BY <1>8
  <2>2. QED
    BY <1>1, <1>5, <1>11, <1>12, <2>1, PlacedAsked
<1>14. ASSUME NEW u \in Threads PROVE PaidFor(u)'
  <2>1. occupation[u] \in Nat /\ PaidFor(u)
        /\ occupation'[u] = IF u = t THEN occupation[u] + 1 ELSE occupation[u]
    BY <1>1, <1>5 DEF Paid, TypeOK
  <2>2. Handled(u)' \subseteq Handled(u)
    <3>1. CASE u = t
      BY <1>2, <1>3, <3>1, HandledBecome
    <3>2. CASE u # t
      BY <1>3, <3>2 DEF Becomes, Others, Handled
    <3>3. QED
      BY <3>1, <3>2
  <2>3. CASE u = t
    <3>1. occupation'[t] = occupation[t] + 1
      BY <2>1, <2>3
    <3>2. QED
      BY <1>2, <1>13, <2>1, <2>2, <2>3, <3>1, PaidOneMore
  <2>4. CASE u # t
    <3>1. occupation'[u] = occupation[u]
      BY <2>1, <2>4
    <3>2. QED
      BY <1>2, <1>13, <2>1, <2>2, <2>4, <3>1, PaidLess
  <2>5. QED
    BY <2>3, <2>4
<1>15. Handover' /\ InPool' /\ PoolExact'
  <2>1. ~At(t, {"pool"}) /\ ~Receives(t)
    BY <1>3, OnePlace DEF Receives
  <2>2. \A u \in Threads : (At(u, {"pool"})' <=> At(u, {"pool"})) /\ (Receives(u)' <=> Receives(u))
    BY <1>2, <1>3, <2>1, PlaceAfter
  <2>3. pool \in Seq(Threads)
    BY <1>1 DEF TypeOK
  <2>4. QED
    BY <1>1, <1>5, <2>2, <2>3, SamePlaces
<1>16. EventsSet' /\ (expired' # {} => setup'.timed)
  BY <1>1, <1>5 DEF EventsSet, Base
<1>17. QED
  BY <1>9, <1>10, <1>13, <1>14, <1>15, <1>16 DEF Base, Paid

LEMMA SendReplyIs ==
  ASSUME Base, NEW t \in Threads, SendReply(t)
  PROVE  /\ stack[t] # <<>> /\ At(t, {"handle"})
         /\ Becomes(t, "loop", None) /\ stack' \in Stacks
<1>1. TypeOK /\ Framed /\ stack \in Stacks /\ stack[t] # <<>> /\ At(t, {"handle"})
  BY Typed DEF Base, SendReply, At
<1>2. Top(t) \in Frame
  BY <1>1, TopIs
<1> DEFINE f == [Top(t) EXCEPT !.pc = "loop", !.data = None]
<1>3. f \in Frame /\ f.waits = Top(t).waits /\ f.pc = "loop" /\ f.data = None
  BY <1>2 DEF Frame, Labels
<1>4. stack' = With(t, f)
  BY DEF SendReply
<1> HIDE DEF f
<1>5. QED
  BY <1>1, <1>3, <1>4, WithBecomes

LEMMA SendReplyKeeps ==
  ASSUME Base, NEW t \in Threads, SendReply(t)
  PROVE  Base'
<1>1. TypeOK /\ Framed /\ Distinct /\ Placed /\ Paid /\ EventsSet /\ InPool /\ PoolExact /\ Handover
  BY DEF Base
<1>2. stack \in Stacks /\ peer \in Peers
  BY <1>1, Typed
<1>3. At(t, {"handle"}) /\ Becomes(t, "loop", None) /\ stack' \in Stacks
  BY SendReplyIs
<1>4. /\ UNCHANGED <<setup, event, deque, pool, receiving, inbox, ready, expired, nextCall, peerNext, eof, closed>>
      /\ occupation' = [occupation EXCEPT ![t] = occupation[t] - 1]
      /\ remote' = [remote EXCEPT ![t] = IF occupation[t] = 1 THEN Unbound ELSE remote[t]]
  BY DEF SendReply, Vacate, poolVars, resultVars
<1>5. peer' \in Peers /\ \E g : Kept(g)
  <2>1. peer' = [peer EXCEPT ![remote[t]] = Without(peer[remote[t]], Top(t).data.seq)]
    BY DEF SendReply
  <2>2. QED
    BY <1>2, <2>1, PeerRemoves
<1>6. Framed' /\ Distinct'
  BY <1>1, <1>2, <1>3, <1>4, FramedBecomes
<1>7. Placed' /\ \A u : Owed(u)' \subseteq Owed(u)
  <2>1. PICK g : Kept(g)
    BY <1>5
  <2>2. PICK h : Carried(h) /\ \A x \in Slots' : h[x] = x
    BY <1>4, MailStays
  <2>3. \A x \in Slots' : Mail(h[x]).kind = "reply" => x[1] \in {None, Mail(h[x]).to}
    BY <1>1, <2>2 DEF Placed, MailKnown, Carried
  <2>4. Sends' \subseteq Sends
    BY <1>1, <1>2, <1>3, SendsBecome
  <2>5. QED
    BY <1>1, <1>4, <2>1, <2>2, <2>3, <2>4, PlacedMoves
<1>8. PaidFor(t)' /\ occupation[t] - 1 \in Nat
  <2>1. Len(stack[t]) \in Handled(t) /\ Handled(t)' \subseteq Handled(t) \ {Len(stack[t])}
    BY <1>2, <1>3, HandledBecome
  <2>2. occupation[t] \in Nat /\ PaidFor(t) /\ occupation'[t] = occupation[t] - 1
    BY <1>1, <1>4 DEF Paid, TypeOK
  <2>3. QED
    BY <1>2, <1>7, <2>1, <2>2, PaidOneLess
<1>9. ASSUME NEW u \in Threads, u # t PROVE PaidFor(u)'
  <2>1. occupation'[u] = occupation[u] /\ occupation[u] \in Nat /\ PaidFor(u)
    BY <1>1, <1>4, <1>9 DEF Paid, TypeOK
  <2>2. Handled(u)' \subseteq Handled(u)
    BY <1>3, <1>9 DEF Becomes, Others, Handled
  <2>3. QED
    BY <1>2, <1>7, <2>1, <2>2, PaidLess
<1>10. TypeOK'
  <2>1. occupation' \in [Threads -> Nat] /\ remote' \in [Threads -> Remotes \cup {Unbound}]
    BY <1>1, <1>4, <1>8 DEF TypeOK
  <2>2. QED
    BY <1>1, <1>3, <1>4, <1>5, <2>1 DEF TypeOK, Stacks, Peers, Item
<1>11. Handover' /\ InPool' /\ PoolExact'
  <2>1. ~At(t, {"pool"}) /\ ~Receives(t)
    BY <1>3, OnePlace DEF Receives
  <2>2. \A u \in Threads : (At(u, {"pool"})' <=> At(u, {"pool"})) /\ (Receives(u)' <=> Receives(u))
    BY <1>2, <1>3, <2>1, PlaceAfter
  <2>3. pool \in Seq(Threads)
    BY <1>1 DEF TypeOK
  <2>4. QED
    BY <1>1, <1>4, <2>2, <2>3, SamePlaces
<1>12. EventsSet' /\ (expired' # {} => setup'.timed)
  BY <1>1, <1>4 DEF EventsSet, Base
<1>13. QED
  BY <1>6, <1>7, <1>8, <1>9, <1>10, <1>11, <1>12 DEF Base, Paid

(* A step that neither sends nor handles anything, with the rest of Base   *)
(* but for who is in the pool and who receives.                            *)
LEMMA QuietRest ==
  ASSUME Base, NEW t \in Threads, stack' \in Stacks, closed => closed',
         UNCHANGED <<setup, occupation, remote, deque, inbox, ready, expired, nextCall, peerNext, peer, eof>>,
         {receiving', closed'} \subseteq BOOLEAN, pool' \in Seq(Threads), event' \subseteq Threads,
         \A u \in Threads : deque[u] # <<>> /\ u \in event => u \in event',
         \/ Ends(t) \/ AllEnd(t) \/ UNCHANGED stack
         \/ \E pc \in {"loop", "pool", "recv", "closing"} :
              Becomes(t, pc, None) /\ (pc = "closing" => closed')
  PROVE  /\ TypeOK' /\ Framed' /\ Distinct' /\ Placed' /\ Paid' /\ EventsSet'
         /\ expired' # {} => setup'.timed
<1>1. TypeOK /\ EventsSet /\ (expired # {} => setup.timed)
  BY DEF Base
<1>2. TypeOK'
  BY <1>1 DEF TypeOK, Stacks
<1>3. Framed' /\ Distinct' /\ Placed' /\ Paid'
  BY QuietKeeps
<1>4. EventsSet'
  BY <1>1 DEF EventsSet
<1>5. QED
  BY <1>1, <1>2, <1>3, <1>4

LEMMA SendFailsKeeps ==
  ASSUME Base, NEW t \in Threads, SendFails(t)
  PROVE  Base'
<1>1. TypeOK /\ Framed /\ InPool /\ PoolExact /\ Handover /\ stack \in Stacks
  BY Typed DEF Base
<1>2. AllEnd(t) /\ stack' \in Stacks /\ At(t, {"send", "handle"})
  BY <1>1, UnwindEnds DEF SendFails
<1>3. /\ UNCHANGED <<setup, occupation, remote, deque, inbox, ready, expired, nextCall, peerNext, peer, eof>>
      /\ UNCHANGED <<event, pool, receiving, closed>>
      /\ receiving \in BOOLEAN /\ closed \in BOOLEAN /\ pool \in Seq(Threads) /\ event \subseteq Threads
  BY <1>1 DEF SendFails, threadVars, poolVars, resultVars, peerVars, TypeOK
<1>4. /\ TypeOK' /\ Framed' /\ Distinct' /\ Placed' /\ Paid' /\ EventsSet'
      /\ expired' # {} => setup'.timed
  BY <1>2, <1>3, QuietRest
<1>5. Handover' /\ InPool' /\ PoolExact'
  <2>1. ~At(t, {"pool"}) /\ ~Receives(t)
    BY <1>2, OnePlace DEF Receives
  <2>2. \A u \in Threads : (At(u, {"pool"})' <=> At(u, {"pool"})) /\ (Receives(u)' <=> Receives(u))
    BY <1>1, <1>2, <2>1, PlaceAfterEnd
  <2>3. QED
    BY <1>1, <1>3, <2>2, SamePlaces
<1>6. QED
  BY <1>4, <1>5 DEF Base

LEMMA ReturnIs ==
  ASSUME Base, NEW t \in Threads, Return(t)
  PROVE  At(t, {"loop"}) /\ Ends(t) /\ stack' \in Stacks
<1>1. stack \in Stacks /\ stack[t] # <<>>
  BY Typed DEF Base, Return, At
<1>2. stack' = [stack EXCEPT ![t] = Front(stack[t])]
  BY DEF Return
<1>3. Ends(t) /\ stack' \in Stacks
  BY <1>1, <1>2, FrontEnds
<1>4. QED
  BY <1>3 DEF Return

LEMMA ReturnKeeps ==
  ASSUME Base, NEW t \in Threads, Return(t)
  PROVE  Base'
<1>1. TypeOK /\ Framed /\ InPool /\ PoolExact /\ Handover /\ stack \in Stacks
  BY Typed DEF Base
<1>2. Ends(t) /\ stack' \in Stacks /\ At(t, {"loop"})
  BY ReturnIs
<1>3. /\ UNCHANGED <<setup, occupation, remote, deque, inbox, ready, expired, nextCall, peerNext, peer, eof>>
      /\ UNCHANGED <<event, pool, receiving, closed>>
      /\ receiving \in BOOLEAN /\ closed \in BOOLEAN /\ pool \in Seq(Threads) /\ event \subseteq Threads
  BY <1>1 DEF Return, threadVars, poolVars, resultVars, peerVars, TypeOK
<1>4. /\ TypeOK' /\ Framed' /\ Distinct' /\ Placed' /\ Paid' /\ EventsSet'
      /\ expired' # {} => setup'.timed
  BY <1>2, <1>3, QuietRest
<1>5. Handover' /\ InPool' /\ PoolExact'
  <2>1. ~At(t, {"pool"}) /\ ~Receives(t)
    BY <1>2, OnePlace DEF Receives
  <2>2. \A u \in Threads : (At(u, {"pool"})' <=> At(u, {"pool"})) /\ (Receives(u)' <=> Receives(u))
    BY <1>1, <1>2, <2>1, PlaceAfterEnd
  <2>3. QED
    BY <1>1, <1>3, <2>2, SamePlaces
<1>6. QED
  BY <1>4, <1>5 DEF Base

(* A thread that serves, from wherever it does, has no message in hand.    *)
LEMMA GoesTo ==
  ASSUME Base, NEW t \in Threads, ~At(t, {"send", "handle"}), stack[t] # <<>>, NEW pc \in Labels, Goto(t, pc)
  PROVE  Becomes(t, pc, None) /\ stack' \in Stacks
<1>1. stack \in Stacks /\ Framed
  BY Typed DEF Base
<1>2. FrameOK(Top(t)) /\ Top(t).pc # "handle"
  BY <1>1, TopOK DEF At
<1>3. Top(t).data = None
  BY <1>2 DEF FrameOK
<1>4. QED
  BY <1>1, <1>3, GotoBecomes

LEMMA ServingAt ==
  ASSUME NEW t, Serving(t)
  PROVE  At(t, {"first", "loop"}) /\ stack[t] # <<>>
BY DEF Serving, At

LEMMA EnterPoolKeeps ==
  ASSUME Base, NEW t \in Threads, EnterPool(t)
  PROVE  Base'
<1>1. TypeOK /\ Framed /\ InPool /\ PoolExact /\ Handover /\ stack \in Stacks
  BY Typed DEF Base
<1>2. At(t, {"first", "loop"}) /\ stack[t] # <<>>
  BY ServingAt DEF EnterPool
<1>3. ~At(t, {"pool"}) /\ ~Receives(t) /\ ~At(t, {"send", "handle"})
  BY <1>2, OnePlace DEF Receives
<1>4. Becomes(t, "pool", None) /\ stack' \in Stacks
  BY <1>2, <1>3, GoesTo DEF EnterPool, Labels
<1>5. /\ UNCHANGED <<setup, occupation, remote, deque, inbox, ready, expired, nextCall, peerNext, peer, eof>>
      /\ UNCHANGED <<event, receiving, closed>>
      /\ receiving \in BOOLEAN /\ closed \in BOOLEAN /\ pool \in Seq(Threads) /\ event \subseteq Threads
      /\ receiving /\ pool' = Append(pool, t)
  BY <1>1 DEF EnterPool, threadVars, poolVars, resultVars, peerVars, TypeOK
<1>6. /\ pool' \in Seq(Threads) /\ Len(pool') = Len(pool) + 1 /\ pool'[Len(pool) + 1] = t
      /\ \A i \in 1..Len(pool) : pool'[i] = pool[i] /\ pool[i] \in Threads
      /\ Len(pool) \in Nat
  BY <1>5, AppendProperties
<1>7. /\ TypeOK' /\ Framed' /\ Distinct' /\ Placed' /\ Paid' /\ EventsSet'
      /\ expired' # {} => setup'.timed
  BY <1>4, <1>5, <1>6, QuietRest
<1>8. /\ At(t, {"pool"})' /\ ~Receives(t)'
      /\ \A u \in Threads : u # t => (At(u, {"pool"})' <=> At(u, {"pool"})) /\ (Receives(u)' <=> Receives(u))
  BY <1>1, <1>4, PlaceAfter
<1>9. InPool'
  <2> SUFFICES ASSUME NEW u \in Threads, At(u, {"pool"})'
               PROVE  \E i \in 1..Len(pool') : pool'[i] = u
    BY DEF InPool
  <2>1. CASE u = t
    <3>1. Len(pool) + 1 \in 1..Len(pool')
      BY <1>6
    <3>2. QED
      BY <1>6, <2>1, <3>1
  <2>2. CASE u # t
    <3>1. PICK i \in 1..Len(pool) : pool[i] = u
      BY <1>1, <1>8, <2>2 DEF InPool
    <3>2. i \in 1..Len(pool')
      BY <1>6
    <3>3. QED
      BY <1>6, <3>1, <3>2
  <2>3. QED
    BY <2>1, <2>2
<1>10. PoolExact'
  <2> SUFFICES ASSUME ~setup.timed
               PROVE  /\ \A i \in 1..Len(pool') : At(pool[i], {"pool"})'
                      /\ \A i, j \in 1..Len(pool') : pool'[i] = pool'[j] => i = j
    BY <1>5 DEF PoolExact
  <2>1. \A i \in 1..Len(pool) : At(pool[i], {"pool"}) /\ pool[i] # t
    BY <1>1, <1>3 DEF PoolExact
  <2>2. \A i, j \in 1..Len(pool) : pool[i] = pool[j] => i = j
    BY <1>1 DEF PoolExact
  <2>3. ASSUME NEW i \in 1..Len(pool') PROVE i = Len(pool) + 1 \/ i \in 1..Len(pool)
    BY <1>6
  <2>4. ASSUME NEW i \in 1..Len(pool') PROVE At(pool[i], {"pool"})'
    <3>1. PICK u \in Threads : u = pool'[i]
      BY <1>6, <2>3
    <3>2. At(u, {"pool"})'
      BY <1>6, <1>8, <2>1, <2>3, <3>1
    <3>3. QED
      BY <3>1, <3>2 DEF At, Top
  <2>5. ASSUME NEW i \in 1..Len(pool'), NEW j \in 1..Len(pool'), pool'[i] = pool'[j]
        PROVE  i = j
    BY <1>6, <2>1, <2>2, <2>3, <2>5
  <2>6. QED
    BY <2>4, <2>5
<1>11. Handover'
  <2>1. \A u \in Threads : Receives(u)' <=> Receives(u)
    BY <1>3, <1>8
  <2>2. QED
    BY <1>1, <1>5, <2>1 DEF Handover
<1>12. QED
  BY <1>7, <1>9, <1>10, <1>11 DEF Base

LEMMA ReceiveAtOnceKeeps ==
  ASSUME Base, NEW t \in Threads, ReceiveAtOnce(t)
  PROVE  Base'
<1>1. TypeOK /\ Framed /\ InPool /\ PoolExact /\ Handover /\ stack \in Stacks
  BY Typed DEF Base
<1>2. At(t, {"first", "loop"}) /\ stack[t] # <<>>
  BY ServingAt DEF ReceiveAtOnce
<1>3. ~At(t, {"pool"}) /\ ~Receives(t) /\ ~At(t, {"send", "handle"})
  BY <1>2, OnePlace DEF Receives
<1>4. Becomes(t, "recv", None) /\ stack' \in Stacks
  BY <1>2, <1>3, GoesTo DEF ReceiveAtOnce, Labels
<1>5. /\ UNCHANGED <<setup, occupation, remote, deque, inbox, ready, expired, nextCall, peerNext, peer, eof>>
      /\ UNCHANGED <<event, pool, closed>>
      /\ closed \in BOOLEAN /\ pool \in Seq(Threads) /\ event \subseteq Threads
      /\ ~receiving /\ receiving' = TRUE
  BY <1>1 DEF ReceiveAtOnce, threadVars, poolVars, resultVars, peerVars, TypeOK
<1>6. /\ TypeOK' /\ Framed' /\ Distinct' /\ Placed' /\ Paid' /\ EventsSet'
      /\ expired' # {} => setup'.timed
  BY <1>4, <1>5, QuietRest
<1>7. /\ ~At(t, {"pool"})' /\ Receives(t)'
      /\ \A u \in Threads : u # t => (At(u, {"pool"})' <=> At(u, {"pool"})) /\ (Receives(u)' <=> Receives(u))
  BY <1>1, <1>4, PlaceAfter
<1>8. InPool' /\ PoolExact'
  <2>1. \A u \in Threads : At(u, {"pool"})' <=> At(u, {"pool"})
    BY <1>3, <1>7
  <2>2. \A i \in 1..Len(pool) : pool[i] \in Threads
    BY <1>5
  <2>3. QED
    BY <1>1, <1>5, <2>1, <2>2 DEF InPool, PoolExact
<1>9. Handover'
  <2>1. \A u \in Threads : ~Receives(u)
    BY <1>1, <1>5 DEF Handover
  <2>2. QED
    BY <1>5, <1>7, <2>1 DEF Handover
<1>10. QED
  BY <1>6, <1>8, <1>9 DEF Base

LEMMA PoolReceivesKeeps ==
  ASSUME Base, NEW t \in Threads, PoolReceives(t)
  PROVE  Base'
<1>1. TypeOK /\ Framed /\ InPool /\ PoolExact /\ Handover /\ stack \in Stacks
  BY Typed DEF Base
<1>2. At(t, {"pool"}) /\ stack[t] # <<>> /\ t \in event /\ deque[t] = <<>>
  BY DEF PoolReceives, At
<1>3. ~Receives(t) /\ ~At(t, {"send", "handle"})
  BY <1>2, OnePlace DEF Receives
<1>4. /\ UNCHANGED <<setup, occupation, remote, deque, inbox, ready, expired, nextCall, peerNext, peer, eof>>
      /\ UNCHANGED closed
      /\ closed \in BOOLEAN /\ receiving \in BOOLEAN /\ pool \in Seq(Threads) /\ event \subseteq Threads
      /\ receiving' = TRUE /\ event' = event \ {t}
  BY <1>1 DEF PoolReceives, threadVars, poolVars, resultVars, peerVars, TypeOK
<1>5. event' \subseteq Threads /\ \A u \in Threads : deque[u] # <<>> /\ u \in event => u \in event'
  BY <1>2, <1>4
<1>6. CASE receiving
  <2>1. UNCHANGED <<stack, pool>>
    BY <1>6 DEF PoolReceives
  <2>2. stack' \in Stacks /\ pool' \in Seq(Threads)
    BY <1>1, <1>4, <2>1
  <2>3. /\ TypeOK' /\ Framed' /\ Distinct' /\ Placed' /\ Paid' /\ EventsSet'
        /\ expired' # {} => setup'.timed
    BY <1>4, <1>5, <2>1, <2>2, QuietRest
  <2>4. \A u \in Threads : (At(u, {"pool"})' <=> At(u, {"pool"})) /\ (Receives(u)' <=> Receives(u))
    BY <2>1 DEF Receives, At, Top
  <2>5. UNCHANGED receiving
    BY <1>4, <1>6
  <2>6. Handover' /\ InPool' /\ PoolExact'
    BY <1>1, <1>4, <1>6, <2>1, <2>4, <2>5, SamePlaces
  <2>7. QED
    BY <2>3, <2>6 DEF Base
<1>7. CASE ~receiving
  <2>1. Goto(t, "recv") /\ pool' = RemoveFirst(pool, t)
    BY <1>7 DEF PoolReceives
  <2>2. Becomes(t, "recv", None) /\ stack' \in Stacks
    BY <1>2, <1>3, <2>1, GoesTo DEF Labels
  <2>3. /\ ~At(t, {"pool"})' /\ Receives(t)'
        /\ \A u \in Threads : u # t => (At(u, {"pool"})' <=> At(u, {"pool"})) /\ (Receives(u)' <=> Receives(u))
    BY <1>1, <2>2, PlaceAfter
  <2>4. pool' \in Seq(Threads) /\ InPool' /\ PoolExact'
    BY <1>1, <1>2, <1>4, <2>1, <2>3, PoolLeft
  <2>5. /\ TypeOK' /\ Framed' /\ Distinct' /\ Placed' /\ Paid' /\ EventsSet'
        /\ expired' # {} => setup'.timed
    BY <1>4, <1>5, <2>2, <2>4, QuietRest
  <2>6. Handover'
    <3>1. \A u \in Threads : ~Receives(u)
      BY <1>1, <1>7 DEF Handover
    <3>2. QED
      BY <1>4, <2>3, <3>1 DEF Handover
  <2>7. QED
    BY <2>4, <2>5, <2>6 DEF Base
<1>8. QED
  BY <1>4, <1>6, <1>7

LEMMA PoolTimeoutKeeps ==
  ASSUME Base, NEW t \in Threads, PoolTimeout(t)
  PROVE  Base'
<1>1. TypeOK /\ Framed /\ InPool /\ PoolExact /\ Handover /\ stack \in Stacks /\ (expired # {} => setup.timed)
  BY Typed DEF Base
<1>2. At(t, {"pool"}) /\ stack[t] # <<>> /\ setup.timed
  BY <1>1 DEF PoolTimeout, At
<1>3. ~Receives(t) /\ ~At(t, {"send", "handle"})
  BY <1>2, OnePlace DEF Receives
<1>4. Becomes(t, "loop", None) /\ stack' \in Stacks
  BY <1>2, <1>3, GoesTo DEF PoolTimeout, Labels
<1>5. /\ UNCHANGED <<setup, occupation, remote, deque, inbox, ready, expired, nextCall, peerNext, peer, eof>>
      /\ UNCHANGED <<event, pool, receiving, closed>>
      /\ receiving \in BOOLEAN /\ closed \in BOOLEAN /\ pool \in Seq(Threads) /\ event \subseteq Threads
  BY <1>1 DEF PoolTimeout, threadVars, poolVars, resultVars, peerVars, TypeOK
<1>6. /\ TypeOK' /\ Framed' /\ Distinct' /\ Placed' /\ Paid' /\ EventsSet'
      /\ expired' # {} => setup'.timed
  BY <1>4, <1>5, QuietRest
<1>7. /\ ~At(t, {"pool"})' /\ ~Receives(t)'
      /\ \A u \in Threads : u # t => (At(u, {"pool"})' <=> At(u, {"pool"})) /\ (Receives(u)' <=> Receives(u))
  BY <1>1, <1>4, PlaceAfter
<1>8. InPool' /\ PoolExact'
  BY <1>1, <1>2, <1>5, <1>7 DEF InPool, PoolExact
<1>9. Handover'
  <2>1. \A u \in Threads : Receives(u)' <=> Receives(u)
    BY <1>3, <1>7
  <2>2. QED
    BY <1>1, <1>2, <1>5, <2>1 DEF Handover
<1>10. QED
  BY <1>6, <1>8, <1>9 DEF Base

(* The pool is told: nobody is told less.                                  *)
LEMMA WokenMore ==
  ASSUME TypeOK
  PROVE  event \subseteq Woken /\ Woken \subseteq Threads
<1>1. pool \in Seq(Threads) /\ event \subseteq Threads /\ \A i \in 1..Len(pool) : pool[i] \in Threads
  BY DEF TypeOK
<1>2. QED
  BY <1>1, WokenIs

LEMMA ReceiveTimeoutKeeps ==
  ASSUME Base, NEW t \in Threads, ReceiveTimeout(t)
  PROVE  Base'
<1>1. TypeOK /\ Framed /\ InPool /\ PoolExact /\ Handover /\ stack \in Stacks /\ (expired # {} => setup.timed)
  BY Typed DEF Base
<1>2. At(t, {"recv"}) /\ stack[t] # <<>> /\ setup.timed
  BY <1>1 DEF ReceiveTimeout, At
<1>3. Receives(t) /\ ~At(t, {"pool"}) /\ ~At(t, {"send", "handle"})
  BY <1>2, OnePlace DEF Receives, At
<1>4. Becomes(t, "loop", None) /\ stack' \in Stacks
  BY <1>2, <1>3, GoesTo DEF ReceiveTimeout, Labels
<1>5. /\ UNCHANGED <<setup, occupation, remote, deque, inbox, ready, expired, nextCall, peerNext, peer, eof>>
      /\ UNCHANGED <<pool, closed>>
      /\ closed \in BOOLEAN /\ pool \in Seq(Threads) /\ event' = Woken /\ receiving' = FALSE
  BY <1>1 DEF ReceiveTimeout, threadVars, poolVars, resultVars, peerVars, TypeOK
<1>6. event \subseteq event' /\ event' \subseteq Threads
  BY <1>1, <1>5, WokenMore
<1>7. /\ TypeOK' /\ Framed' /\ Distinct' /\ Placed' /\ Paid' /\ EventsSet'
      /\ expired' # {} => setup'.timed
  BY <1>4, <1>5, <1>6, QuietRest
<1>8. /\ ~At(t, {"pool"})' /\ ~Receives(t)'
      /\ \A u \in Threads : u # t => (At(u, {"pool"})' <=> At(u, {"pool"})) /\ (Receives(u)' <=> Receives(u))
  BY <1>1, <1>4, PlaceAfter
<1>9. InPool' /\ PoolExact'
  BY <1>1, <1>2, <1>3, <1>5, <1>8 DEF InPool, PoolExact
<1>10. Handover'
  <2>1. \A u \in Threads : ~Receives(u)'
    BY <1>1, <1>3, <1>8 DEF Handover
  <2>2. QED
    BY <1>2, <1>5, <2>1 DEF Handover
<1>11. QED
  BY <1>7, <1>9, <1>10 DEF Base

LEMMA ReceiveEOFKeeps ==
  ASSUME Base, NEW t \in Threads, ReceiveEOF(t)
  PROVE  Base'
<1>1. TypeOK /\ Framed /\ InPool /\ PoolExact /\ Handover /\ stack \in Stacks
  BY Typed DEF Base
<1>2. At(t, {"recv"}) /\ stack[t] # <<>>
  BY DEF ReceiveEOF, At
<1>3. Receives(t) /\ ~At(t, {"pool"}) /\ ~At(t, {"send", "handle"})
  BY <1>2, OnePlace DEF Receives, At
<1>4. /\ UNCHANGED <<setup, occupation, remote, deque, inbox, ready, expired, nextCall, peerNext, peer, eof>>
      /\ UNCHANGED <<pool, event, receiving>>
      /\ closed' = TRUE /\ receiving \in BOOLEAN /\ pool \in Seq(Threads) /\ event \subseteq Threads
  BY <1>1 DEF ReceiveEOF, threadVars, poolVars, resultVars, peerVars, TypeOK
<1>5. /\ stack' \in Stacks
      /\ AllEnd(t) \/ Becomes(t, "closing", None)
  <2>1. CASE Unwind(t)
    BY <1>1, <2>1, UnwindEnds
  <2>2. CASE Goto(t, "closing")
    BY <1>2, <1>3, <2>2, GoesTo DEF Labels
  <2>3. QED
    BY <2>1, <2>2 DEF ReceiveEOF
<1>6. /\ TypeOK' /\ Framed' /\ Distinct' /\ Placed' /\ Paid' /\ EventsSet'
      /\ expired' # {} => setup'.timed
  BY <1>4, <1>5, QuietRest
<1>7. /\ ~At(t, {"pool"})'
      /\ \A u \in Threads : u # t => (At(u, {"pool"})' <=> At(u, {"pool"})) /\ (Receives(u)' <=> Receives(u))
  BY <1>1, <1>5, PlaceAfter, PlaceAfterEnd
<1>8. InPool' /\ PoolExact'
  <2>1. \A u \in Threads : At(u, {"pool"})' <=> At(u, {"pool"})
    BY <1>3, <1>7
  <2>2. \A i \in 1..Len(pool) : pool[i] \in Threads
    BY <1>4
  <2>3. QED
    BY <1>1, <1>4, <2>1, <2>2 DEF InPool, PoolExact
<1>9. Handover'
  <2>1. \A u \in Threads : Receives(u)' => Receives(u)
    BY <1>3, <1>7
  <2>2. QED
    BY <1>1, <1>4, <2>1 DEF Handover
<1>10. QED
  BY <1>6, <1>8, <1>9 DEF Base

LEMMA ClosedKeeps ==
  ASSUME Base, NEW t \in Threads, Closed(t)
  PROVE  Base'
<1>1. TypeOK /\ Framed /\ InPool /\ PoolExact /\ Handover /\ stack \in Stacks
  BY Typed DEF Base
<1>2. At(t, {"closing"}) /\ stack[t] # <<>>
  BY DEF Closed, At
<1>3. Receives(t) /\ ~At(t, {"pool"})
  BY <1>2, OnePlace DEF Receives, At
<1>4. closed
  <2>1. FrameOK(Top(t)) /\ Top(t).pc = "closing"
    BY <1>1, <1>2, TopOK DEF At
  <2>2. QED
    BY <2>1 DEF FrameOK
<1>5. /\ UNCHANGED <<setup, occupation, remote, deque, inbox, ready, expired, nextCall, peerNext, peer, eof>>
      /\ UNCHANGED <<pool, closed>>
      /\ closed \in BOOLEAN /\ pool \in Seq(Threads) /\ receiving' = FALSE
      /\ event' = IF pool = <<>> THEN event ELSE event \cup {Head(pool)}
      /\ event \subseteq Threads
  BY <1>1 DEF Closed, threadVars, resultVars, peerVars, TypeOK
<1>6. event \subseteq event' /\ event' \subseteq Threads
  <2>1. pool # <<>> => Head(pool) \in Threads
    BY <1>5
  <2>2. QED
    BY <1>5, <2>1
<1>7. AllEnd(t) /\ stack' \in Stacks
  BY <1>1, UnwindEnds DEF Closed
<1>8. /\ TypeOK' /\ Framed' /\ Distinct' /\ Placed' /\ Paid' /\ EventsSet'
      /\ expired' # {} => setup'.timed
  BY <1>5, <1>6, <1>7, QuietRest
<1>9. /\ ~At(t, {"pool"})' /\ ~Receives(t)'
      /\ \A u \in Threads : u # t => (At(u, {"pool"})' <=> At(u, {"pool"})) /\ (Receives(u)' <=> Receives(u))
  BY <1>1, <1>7, PlaceAfterEnd
<1>10. InPool' /\ PoolExact'
  <2>1. \A u \in Threads : At(u, {"pool"})' <=> At(u, {"pool"})
    BY <1>3, <1>9
  <2>2. \A i \in 1..Len(pool) : pool[i] \in Threads
    BY <1>5
  <2>3. QED
    BY <1>1, <1>5, <2>1, <2>2 DEF InPool, PoolExact
<1>11. Handover'
  <2>1. \A u \in Threads : ~Receives(u)'
    BY <1>1, <1>3, <1>9 DEF Handover
  <2>2. QED
    BY <1>4, <1>5, <2>1 DEF Handover
<1>12. QED
  BY <1>8, <1>10, <1>11 DEF Base

(* The first message of a thread's own deque.                              *)
LEMMA TakeOwnIs ==
  ASSUME Base, NEW t \in Threads, HasMessage(t), TakeOwn(t), UNCHANGED inbox
  PROVE  /\ \E z \in Slots : \E h :
              /\ z = <<t, 1>> /\ Mail(z) = Head(deque[t]) /\ Dispatch(t, Mail(z))
              /\ Mail(z).kind = "reply" => Mail(z).to = t
              /\ Carried(h) /\ \A x \in Slots' : h[x][1] = x[1] /\ h[x] # z
         /\ deque' \in [Threads -> Seq(Message)] /\ event' \subseteq Threads /\ EventsSet'
         /\ \A u \in Threads : u # t => deque'[u] = deque[u] /\ (u \in event' <=> u \in event)
<1>1. TypeOK /\ EventsSet /\ Placed /\ Mails
  BY Typed DEF Base
<1>2. deque[t] # <<>> /\ deque[t] \in Seq(Message) /\ deque \in [Threads -> Seq(Message)] /\ event \subseteq Threads
  BY <1>1 DEF HasMessage, TypeOK
<1>3. /\ Dispatch(t, Head(deque[t]))
      /\ deque' = [deque EXCEPT ![t] = Tail(deque[t])]
      /\ event' = IF Len(deque[t]) = 1 THEN event \ {t} ELSE event
  BY DEF TakeOwn
<1>4. /\ deque' \in [Threads -> Seq(Message)] /\ deque'[t] = Tail(deque[t])
      /\ \A u \in Threads : u # t => deque'[u] = deque[u] /\ (u \in event' <=> u \in event)
      /\ event' \subseteq Threads
  BY <1>2, <1>3
<1>5. EventsSet'
  <2>1. t \in event
    BY DEF HasMessage
  <2>2. Len(deque[t]) = 1 => deque'[t] = <<>>
    <3>1. Len(deque[t]) = 1 => Len(deque'[t]) = 0 /\ deque'[t] \in Seq(Message)
      BY <1>2, <1>4
    <3>2. QED
      BY <3>1
  <2>3. QED
    BY <1>1, <1>3, <1>4, <2>1, <2>2 DEF EventsSet
<1>6. /\ t \in Boxes /\ Box(t) = deque[t] /\ Box(t)' = Tail(Box(t))
      /\ \A c \in Boxes : c # t => Box(c)' = Box(c)
  <2>1. t # None
    BY BoundAssumption
  <2>2. QED
    BY <1>4, <2>1 DEF Boxes, Box
<1>7. /\ <<t, 1>> \in Slots /\ Mail(<<t, 1>>) = Head(Box(t))
      /\ \E g : /\ Carried(g)
                /\ \A x \in Slots' : g[x][1] = x[1] /\ g[x] # <<t, 1>>
  BY <1>1, <1>2, <1>6, MailTaken
<1>8. Mail(<<t, 1>>).kind = "reply" => Mail(<<t, 1>>).to = t
  <2>1. MailKnown(<<t, 1>>) /\ <<t, 1>>[1] = t /\ t # None
    BY <1>1, <1>7, BoundAssumption DEF Placed
  <2>2. QED
    BY <2>1 DEF MailKnown
<1>9. QED
  BY <1>3, <1>4, <1>5, <1>6, <1>7, <1>8

LEMMA ServeOwnKeeps ==
  ASSUME Base, NEW t \in Threads, ServeOwn(t)
  PROVE  Base'
<1>1. TypeOK /\ Framed /\ InPool /\ PoolExact /\ Handover /\ stack \in Stacks /\ (expired # {} => setup.timed)
  BY Typed DEF Base
<1>2. At(t, {"first", "loop"}) /\ stack[t] # <<>>
  BY ServingAt DEF ServeOwn
<1>3. ~At(t, {"pool"}) /\ ~Receives(t) /\ ~At(t, {"send", "handle"})
  BY <1>2, OnePlace DEF Receives
<1>4. UNCHANGED <<setup, pool, receiving, inbox, expired, nextCall, peerNext, peer, eof, closed>>
  BY DEF ServeOwn, peerVars
<1>5. /\ \E z \in Slots : \E h :
           /\ z = <<t, 1>> /\ Mail(z) = Head(deque[t]) /\ Dispatch(t, Mail(z))
           /\ Mail(z).kind = "reply" => Mail(z).to = t
           /\ Carried(h) /\ \A x \in Slots' : h[x][1] = x[1] /\ h[x] # z
      /\ deque' \in [Threads -> Seq(Message)] /\ event' \subseteq Threads /\ EventsSet'
      /\ \A u \in Threads : u # t => deque'[u] = deque[u] /\ (u \in event' <=> u \in event)
  BY <1>4, TakeOwnIs DEF ServeOwn
<1>6. PICK z \in Slots : \E h :
           /\ Dispatch(t, Mail(z))
           /\ Mail(z).kind = "reply" => Mail(z).to = t
           /\ Carried(h) /\ \A x \in Slots' : h[x][1] = x[1] /\ h[x] # z
  BY <1>5
<1>7. /\ Framed' /\ Distinct' /\ Placed' /\ Paid'
      /\ stack' \in Stacks
      /\ occupation' \in [Threads -> Nat]
      /\ remote' \in [Threads -> Remotes \cup {Unbound}]
      /\ ready' \subseteq Calls
      /\ \/ Mail(z).kind = "request" /\ Becomes(t, "handle", Mail(z))
         \/ Mail(z).kind = "reply" /\ Becomes(t, "loop", None)
  BY <1>2, <1>3, <1>4, <1>6, DispatchKeeps
<1>8. TypeOK'
  BY <1>1, <1>4, <1>5, <1>7 DEF TypeOK, Stacks
<1>9. Handover' /\ InPool' /\ PoolExact'
  <2>1. \A u \in Threads : (At(u, {"pool"})' <=> At(u, {"pool"})) /\ (Receives(u)' <=> Receives(u))
    BY <1>1, <1>3, <1>7, PlaceAfter
  <2>2. pool \in Seq(Threads)
    BY <1>1 DEF TypeOK
  <2>3. \A u \in Threads : At(u, {"pool"}) =>
          (u \in event => u \in event') /\ (deque[u] = <<>> => deque'[u] = <<>>)
    BY <1>3, <1>5
  <2>4. QED
    BY <1>1, <1>4, <2>1, <2>2, <2>3, SamePlaces
<1>10. QED
  BY <1>1, <1>4, <1>5, <1>7, <1>8, <1>9 DEF Base

LEMMA PoolOwnKeeps ==
  ASSUME Base, NEW t \in Threads, PoolOwn(t)
  PROVE  Base'
<1>1. TypeOK /\ Framed /\ InPool /\ PoolExact /\ Handover /\ stack \in Stacks /\ (expired # {} => setup.timed)
  BY Typed DEF Base
<1>2. At(t, {"pool"}) /\ stack[t] # <<>> /\ deque[t] # <<>>
  BY DEF PoolOwn, At, HasMessage
<1>3. ~Receives(t) /\ ~At(t, {"send", "handle"})
  BY <1>2, OnePlace DEF Receives
<1>4. /\ UNCHANGED <<setup, receiving, inbox, expired, nextCall, peerNext, peer, eof, closed>>
      /\ pool' = RemoveFirst(pool, t)
  BY DEF PoolOwn, peerVars
<1>5. /\ \E z \in Slots : \E h :
           /\ z = <<t, 1>> /\ Mail(z) = Head(deque[t]) /\ Dispatch(t, Mail(z))
           /\ Mail(z).kind = "reply" => Mail(z).to = t
           /\ Carried(h) /\ \A x \in Slots' : h[x][1] = x[1] /\ h[x] # z
      /\ deque' \in [Threads -> Seq(Message)] /\ event' \subseteq Threads /\ EventsSet'
      /\ \A u \in Threads : u # t => deque'[u] = deque[u] /\ (u \in event' <=> u \in event)
  BY <1>4, TakeOwnIs DEF PoolOwn
<1>6. PICK z \in Slots : \E h :
           /\ Dispatch(t, Mail(z))
           /\ Mail(z).kind = "reply" => Mail(z).to = t
           /\ Carried(h) /\ \A x \in Slots' : h[x][1] = x[1] /\ h[x] # z
  BY <1>5
<1>7. /\ Framed' /\ Distinct' /\ Placed' /\ Paid'
      /\ stack' \in Stacks
      /\ occupation' \in [Threads -> Nat]
      /\ remote' \in [Threads -> Remotes \cup {Unbound}]
      /\ ready' \subseteq Calls
      /\ \/ Mail(z).kind = "request" /\ Becomes(t, "handle", Mail(z))
         \/ Mail(z).kind = "reply" /\ Becomes(t, "loop", None)
  BY <1>2, <1>3, <1>4, <1>6, DispatchKeeps
<1>8. /\ ~At(t, {"pool"})' /\ ~Receives(t)'
      /\ \A u \in Threads : u # t => (At(u, {"pool"})' <=> At(u, {"pool"})) /\ (Receives(u)' <=> Receives(u))
  BY <1>1, <1>7, PlaceAfter
<1>9. pool' \in Seq(Threads) /\ InPool' /\ PoolExact'
  BY <1>1, <1>2, <1>4, <1>8, PoolLeft
<1>10. TypeOK'
  BY <1>1, <1>4, <1>5, <1>7, <1>9 DEF TypeOK, Stacks
<1>11. Handover'
  <2>1. \A u \in Threads : Receives(u)' <=> Receives(u)
    BY <1>3, <1>8
  <2>2. ASSUME ~setup.timed, ~closed, ~receiving
        PROVE  \/ \A u \in Threads : At(u, {"pool"})' => u \in event'
               \/ \E u \in Threads : At(u, {"pool"})' /\ u \in event' /\ deque'[u] = <<>>
    <3>1. CASE \A u \in Threads : At(u, {"pool"}) => u \in event
      BY <1>5, <1>8, <3>1
    <3>2. CASE \E u \in Threads : At(u, {"pool"}) /\ u \in event /\ deque[u] = <<>>
      <4>1. PICK u \in Threads : At(u, {"pool"}) /\ u \in event /\ deque[u] = <<>>
        BY <3>2
      <4>2. u # t
        BY <1>2, <4>1
      <4>3. QED
        BY <1>5, <1>8, <4>1, <4>2
    <3>3. QED
      BY <1>1, <2>2, <3>1, <3>2 DEF Handover
  <2>3. QED
    BY <1>1, <1>4, <2>1, <2>2 DEF Handover
<1>12. QED
  BY <1>1, <1>4, <1>5, <1>7, <1>9, <1>10, <1>11 DEF Base

(* The first message of the inbox.                                         *)
LEMMA InboxTaken ==
  ASSUME TypeOK, inbox # <<>>, inbox' = Tail(inbox), UNCHANGED deque
  PROVE  /\ inbox' \in Seq(Message) /\ <<None, 1>> \in Slots /\ Mail(<<None, 1>>) = Head(inbox)
         /\ \E h : Carried(h) /\ \A x \in Slots' : h[x][1] = x[1] /\ h[x] # <<None, 1>>
<1>1. Mails /\ inbox \in Seq(Message)
  BY Typed DEF TypeOK
<1>2. /\ None \in Boxes /\ Box(None) = inbox /\ Box(None)' = Tail(Box(None))
      /\ \A c \in Boxes : c # None => Box(c)' = Box(c)
  BY DEF Boxes, Box
<1>3. /\ <<None, 1>> \in Slots /\ Mail(<<None, 1>>) = Head(Box(None))
      /\ \E h : Carried(h) /\ \A x \in Slots' : h[x][1] = x[1] /\ h[x] # <<None, 1>>
  BY <1>1, <1>2, MailTaken
<1>4. Tail(inbox) \in Seq(Message)
  BY <1>1
<1>5. QED
  BY <1>2, <1>3, <1>4, Zenon

LEMMA ReceiveOwnKeeps ==
  ASSUME Base, NEW t \in Threads, ReceiveOwn(t)
  PROVE  Base'
<1>1. TypeOK /\ Framed /\ InPool /\ PoolExact /\ Handover /\ EventsSet /\ Placed /\ stack \in Stacks
      /\ (expired # {} => setup.timed)
  BY Typed DEF Base
<1>2. At(t, {"recv"}) /\ stack[t] # <<>>
  BY DEF ReceiveOwn, At
<1>3. Receives(t) /\ ~At(t, {"pool"}) /\ ~At(t, {"send", "handle"})
  BY <1>2, OnePlace DEF Receives, At
<1>4. /\ UNCHANGED <<setup, deque, pool, expired, nextCall, peerNext, peer, eof, closed>>
      /\ receiving' = FALSE /\ event' = Woken /\ ~closed
      /\ inbox # <<>> /\ inbox' = Tail(inbox)
      /\ Dispatch(t, Head(inbox)) /\ ~MeantElsewhere(t, Head(inbox))
  BY DEF ReceiveOwn, peerVars
<1>5. /\ inbox' \in Seq(Message) /\ <<None, 1>> \in Slots /\ Mail(<<None, 1>>) = Head(inbox)
      /\ \E h : Carried(h) /\ \A x \in Slots' : h[x][1] = x[1] /\ h[x] # <<None, 1>>
  BY <1>1, <1>4, InboxTaken
<1>6. PICK z \in Slots : \E h :
           /\ Dispatch(t, Mail(z)) /\ Mail(z) = Head(inbox)
           /\ Carried(h) /\ \A x \in Slots' : h[x][1] = x[1] /\ h[x] # z
  BY <1>4, <1>5
<1>7. Mail(z).kind = "reply" => Mail(z).to = t
  <2>1. MailKnown(z) /\ Mail(z).to \in {Unbound, t} /\ Unbound \notin Threads
    BY <1>1, <1>4, <1>6, BoundAssumption DEF Placed, MeantElsewhere, Unbound
  <2>2. QED
    BY <2>1 DEF MailKnown
<1>8. /\ Framed' /\ Distinct' /\ Placed' /\ Paid'
      /\ stack' \in Stacks
      /\ occupation' \in [Threads -> Nat]
      /\ remote' \in [Threads -> Remotes \cup {Unbound}]
      /\ ready' \subseteq Calls
      /\ \/ Mail(z).kind = "request" /\ Becomes(t, "handle", Mail(z))
         \/ Mail(z).kind = "reply" /\ Becomes(t, "loop", None)
  BY <1>2, <1>3, <1>4, <1>6, <1>7, DispatchKeeps
<1>9. /\ ~At(t, {"pool"})' /\ ~Receives(t)'
      /\ \A u \in Threads : u # t => (At(u, {"pool"})' <=> At(u, {"pool"})) /\ (Receives(u)' <=> Receives(u))
  BY <1>1, <1>8, PlaceAfter
<1>10. event \subseteq event' /\ event' \subseteq Threads
  BY <1>1, <1>4, WokenMore
<1>11. TypeOK'
  BY <1>1, <1>4, <1>5, <1>8, <1>10 DEF TypeOK, Stacks
<1>12. InPool' /\ PoolExact'
  <2>1. \A u \in Threads : At(u, {"pool"})' <=> At(u, {"pool"})
    BY <1>3, <1>9
  <2>2. \A i \in 1..Len(pool) : pool[i] \in Threads
    BY <1>1 DEF TypeOK
  <2>3. QED
    BY <1>1, <1>4, <2>1, <2>2 DEF InPool, PoolExact
<1>13. Handover'
  <2>1. \A u \in Threads : ~Receives(u)'
    BY <1>1, <1>3, <1>9 DEF Handover
  <2>2. ASSUME ~setup.timed
        PROVE  \/ \A u \in Threads : At(u, {"pool"})' => u \in event'
               \/ \E u \in Threads : At(u, {"pool"})' /\ u \in event' /\ deque'[u] = <<>>
    <3>1. pool \in Seq(Threads) /\ \A i \in 1..Len(pool) : pool[i] \in Threads
      BY <1>1 DEF TypeOK
    <3>2. CASE \A i \in 1..Len(pool) : pool[i] \in event
      BY <1>1, <1>3, <1>9, <1>10, <3>2 DEF InPool
    <3>3. CASE \E i \in 1..Len(pool) : pool[i] \notin event /\ Woken = event \cup {pool[i]}
      <4>1. PICK i \in 1..Len(pool) : pool[i] \notin event /\ Woken = event \cup {pool[i]}
        BY <3>3
      <4>2. PICK u \in Threads : u = pool[i]
        BY <3>1, <4>1
      <4>3. At(u, {"pool"}) /\ u # t
        BY <1>1, <1>3, <2>2, <4>2 DEF PoolExact
      <4>4. deque[u] = <<>>
        BY <1>1, <4>1, <4>2 DEF EventsSet
      <4>5. QED
        BY <1>4, <1>9, <4>1, <4>2, <4>3, <4>4
    <3>4. QED
      BY <3>1, <3>2, <3>3, WokenIs
  <2>3. QED
    BY <1>4, <2>1, <2>2 DEF Handover
<1>14. EventsSet'
  BY <1>1, <1>4, <1>10 DEF EventsSet
<1>15. QED
  BY <1>1, <1>4, <1>8, <1>11, <1>12, <1>13, <1>14 DEF Base

(* The first message of the inbox goes to the deque of u.                  *)
LEMMA HandedOn ==
  ASSUME Base, NEW u \in Threads, inbox # <<>>, inbox' = Tail(inbox), Hand(u, Head(inbox)),
         Head(inbox).to \in {Unbound, u}, UNCHANGED <<occupation, peer, nextCall, peerNext>>, Sends' \subseteq Sends,
         \A v \in Threads : Handled(v)' \subseteq Handled(v)
  PROVE  /\ inbox' \in Seq(Message) /\ deque' \in [Threads -> Seq(Message)] /\ event' \subseteq Threads
         /\ \A v \in Threads : v # u => deque'[v] = deque[v]
         /\ event' = event \cup {u}
         /\ Placed' /\ Paid' /\ EventsSet'
<1>1. TypeOK /\ EventsSet /\ Placed /\ Paid /\ Mails /\ stack \in Stacks
  BY Typed DEF Base
<1>2. inbox \in Seq(Message) /\ Head(inbox) \in Message /\ deque \in [Threads -> Seq(Message)] /\ event \subseteq Threads
  BY <1>1 DEF TypeOK
<1>3. deque' = [deque EXCEPT ![u] = Append(deque[u], Head(inbox))] /\ event' = event \cup {u}
  BY DEF Hand
<1>4. inbox' \in Seq(Message)
  BY <1>2
<1>5. deque' \in [Threads -> Seq(Message)] /\ \A v \in Threads : v # u => deque'[v] = deque[v]
  <2>1. Append(deque[u], Head(inbox)) \in Seq(Message)
    BY <1>2
  <2>2. QED
    BY <1>2, <1>3, <2>1
<1>6. EventsSet'
  BY <1>1, <1>3, <1>5 DEF EventsSet
<1>7. /\ <<None, 1>> \in Slots /\ Mail(<<None, 1>>) = Head(inbox)
      /\ \E h : /\ Carried(h)
                /\ \A x \in Slots' : IF h[x] = <<None, 1>> THEN x = <<u, Len(deque[u]) + 1>>
                                                           ELSE h[x][1] = x[1]
  BY <1>1, <1>3, MailMoved
<1>8. PICK h : /\ Carried(h)
               /\ \A x \in Slots' : IF h[x] = <<None, 1>> THEN x = <<u, Len(deque[u]) + 1>>
                                                          ELSE h[x][1] = x[1]
  BY <1>7
<1>9. \A x \in Slots' : Mail(h[x]).kind = "reply" => x[1] \in {None, Mail(h[x]).to}
  <2> SUFFICES ASSUME NEW x \in Slots', Mail(h[x]).kind = "reply"
               PROVE  x[1] \in {None, Mail(h[x]).to}
    OBVIOUS
  <2>1. h[x] \in Slots
    BY <1>8 DEF Carried
  <2>2. MailKnown(h[x])
    BY <1>1, <2>1 DEF Placed
  <2>3. CASE h[x] = <<None, 1>>
    <3>1. x[1] = u
      BY <1>8, <2>3
    <3>2. Mail(h[x]).to \in {Unbound, u} /\ Unbound \notin Threads
      BY <1>7, <2>3, BoundAssumption DEF Unbound
    <3>3. QED
      BY <2>2, <3>1, <3>2 DEF MailKnown
  <2>4. CASE h[x] # <<None, 1>>
    <3>1. h[x][1] = x[1]
      BY <1>8, <2>4
    <3>2. QED
      BY <2>2, <3>1 DEF MailKnown
  <2>5. QED
    BY <2>3, <2>4
<1>10. PICK g : Kept(g)
  BY PeerStays
<1>11. Placed' /\ \A v : Owed(v)' \subseteq Owed(v)
  BY <1>1, <1>8, <1>9, <1>10, PlacedMoves
<1>12. ASSUME NEW v \in Threads PROVE PaidFor(v)'
  <2>1. occupation'[v] = occupation[v] /\ occupation[v] \in Nat /\ PaidFor(v)
    BY <1>1 DEF Paid, TypeOK
  <2>2. QED
    BY <1>1, <1>11, <2>1, PaidLess
<1>13. QED
  BY <1>2, <1>3, <1>4, <1>5, <1>6, <1>11, <1>12 DEF Paid

LEMMA HandOnKeeps ==
  ASSUME Base, NEW t \in Threads, HandOn(t)
  PROVE  Base'
<1>1. TypeOK /\ Framed /\ Distinct /\ InPool /\ PoolExact /\ Handover /\ stack \in Stacks
      /\ (expired # {} => setup.timed)
  BY Typed DEF Base
<1>2. Receives(t) /\ receiving
  BY <1>1 DEF HandOn, At, Receives, Handover
<1>3. /\ UNCHANGED <<setup, stack, occupation, remote, pool, receiving, ready, expired, nextCall>>
      /\ UNCHANGED <<peerNext, peer, eof, closed>>
      /\ inbox # <<>> /\ inbox' = Tail(inbox) /\ Hand(Head(inbox).to, Head(inbox))
      /\ MeantElsewhere(t, Head(inbox))
  BY DEF HandOn, threadVars, resultVars, peerVars
<1>4. PICK u \in Threads : u = Head(inbox).to
  <2>1. inbox \in Seq(Message)
    BY <1>1 DEF TypeOK
  <2>2. Head(inbox) \in Message
    BY <1>3, <2>1
  <2>3. QED
    BY <1>3, <2>2 DEF Message, MeantElsewhere
<1>5. Sends' \subseteq Sends /\ \A v \in Threads : Handled(v)' \subseteq Handled(v)
  BY <1>3 DEF Sends, Handled
<1>6. /\ inbox' \in Seq(Message) /\ deque' \in [Threads -> Seq(Message)] /\ event' \subseteq Threads
      /\ Placed' /\ Paid' /\ EventsSet'
  BY <1>3, <1>4, <1>5, HandedOn
<1>7. TypeOK'
  BY <1>1, <1>3, <1>6 DEF TypeOK
<1>8. Framed' /\ Distinct'
  BY <1>1, <1>3 DEF Framed, FrameOK, Distinct
<1>9. Handover' /\ InPool' /\ PoolExact'
  <2>1. \A v \in Threads : (At(v, {"pool"})' <=> At(v, {"pool"})) /\ (Receives(v)' <=> Receives(v))
    BY <1>3 DEF Receives, At, Top
  <2>2. pool \in Seq(Threads)
    BY <1>1 DEF TypeOK
  <2>3. QED
    BY <1>1, <1>2, <1>3, <2>1, <2>2, SamePlaces
<1>10. QED
  BY <1>1, <1>3, <1>6, <1>7, <1>8, <1>9 DEF Base

LEMMA TemporaryBegins ==
  ASSUME stack \in Stacks, NEW u \in Threads, NEW m, ServeTemporary(u, m)
  PROVE  Begins(u, NewFrame(None, "first")) /\ stack' \in Stacks /\ Hand(u, m) /\ stack[u] = <<>>
<1> DEFINE f == NewFrame(None, "first")
<1>1. f \in Frame
  BY DEF NewFrame, Frame, Labels
<1>2. stack[u] = <<>> /\ stack' = [stack EXCEPT ![u] = <<f>>] /\ Hand(u, m)
  BY DEF ServeTemporary
<1> HIDE DEF f
<1>3. Push(u, f)
  <2>1. Append(stack[u], f) = <<f>>
    BY <1>1, <1>2
  <2>2. QED
    BY <1>2, <2>1 DEF Push
<1>4. Begins(u, f) /\ stack' \in Stacks
  BY <1>1, <1>3, PushBegins
<1>5. QED
  BY <1>2, <1>4 DEF f

LEMMA HandToFreeKeeps ==
  ASSUME Base, NEW t \in Threads, HandToFree(t)
  PROVE  Base'
<1>1. TypeOK /\ Framed /\ Distinct /\ InPool /\ PoolExact /\ Handover /\ stack \in Stacks
      /\ (expired # {} => setup.timed)
  BY Typed DEF Base
<1>2. Receives(t) /\ receiving
  BY <1>1 DEF HandToFree, At, Receives, Handover
<1>3. /\ UNCHANGED <<setup, occupation, remote, pool, receiving, ready, expired, nextCall>>
      /\ UNCHANGED <<peerNext, peer, eof, closed>>
      /\ inbox # <<>> /\ inbox' = Tail(inbox) /\ Head(inbox).to = Unbound
  BY DEF HandToFree, threadVars, resultVars, peerVars
<1>4. pool \in Seq(Threads) /\ \A i \in 1..Len(pool) : pool[i] \in Threads
  BY <1>1 DEF TypeOK
<1>5. CASE UNCHANGED stack /\ \E i \in 1..Len(pool) : Free(pool[i]) /\ Hand(pool[i], Head(inbox))
  <2>1. PICK u \in Threads : Hand(u, Head(inbox))
    BY <1>4, <1>5
  <2>2. Sends' \subseteq Sends /\ \A v \in Threads : Handled(v)' \subseteq Handled(v)
    BY <1>5 DEF Sends, Handled
  <2>3. /\ inbox' \in Seq(Message) /\ deque' \in [Threads -> Seq(Message)] /\ event' \subseteq Threads
        /\ Placed' /\ Paid' /\ EventsSet'
    BY <1>3, <2>1, <2>2, HandedOn
  <2>4. TypeOK'
    BY <1>1, <1>3, <1>5, <2>3 DEF TypeOK
  <2>5. Framed' /\ Distinct'
    <3>1. UNCHANGED <<stack, nextCall, closed>>
      BY <1>3, <1>5
    <3>2. QED
      BY <1>1, <3>1 DEF Framed, FrameOK, Distinct
  <2>6. Handover' /\ InPool' /\ PoolExact'
    <3>1. \A v \in Threads : (At(v, {"pool"})' <=> At(v, {"pool"})) /\ (Receives(v)' <=> Receives(v))
      BY <1>5 DEF Receives, At, Top
    <3>2. QED
      BY <1>1, <1>2, <1>3, <1>4, <3>1, SamePlaces
  <2>7. QED
    BY <1>1, <1>3, <2>3, <2>4, <2>5, <2>6 DEF Base
<1>6. CASE \E u \in Temps : ServeTemporary(u, Head(inbox))
  <2>1. PICK u \in Threads : ServeTemporary(u, Head(inbox))
    BY <1>6, BoundAssumption
  <2> DEFINE f == NewFrame(None, "first")
  <2>2. Begins(u, f) /\ stack' \in Stacks /\ Hand(u, Head(inbox)) /\ stack[u] = <<>>
    BY <1>1, <2>1, TemporaryBegins
  <2>3. f.pc = "first" /\ f.waits = None /\ f.data = None
    BY DEF NewFrame
  <2> HIDE DEF f
  <2>4. Sends' \subseteq Sends
    BY <1>1, <2>2, <2>3, SendsBegin
  <2>5. \A v \in Threads : Handled(v)' \subseteq Handled(v)
    <3>1. Handled(u)' \subseteq Handled(u)
      BY <1>1, <2>2, <2>3, HandledStay
    <3>2. \A v \in Threads : v # u => Handled(v)' = Handled(v)
      BY <2>2 DEF Begins, Others, Handled
    <3>3. QED
      BY <3>1, <3>2
  <2>6. /\ inbox' \in Seq(Message) /\ deque' \in [Threads -> Seq(Message)] /\ event' \subseteq Threads
        /\ Placed' /\ Paid' /\ EventsSet'
    BY <1>3, <2>2, <2>4, <2>5, HandedOn
  <2>7. TypeOK'
    BY <1>1, <1>3, <2>2, <2>6 DEF TypeOK, Stacks
  <2>8. Framed' /\ Distinct'
    <3>1. nextCall \in Nat /\ nextCall' \in Nat /\ nextCall' >= nextCall
      BY <1>1, <1>3 DEF TypeOK
    <3>2. QED
      BY <1>1, <1>3, <2>2, <2>3, <3>1, FramedBegins
  <2>9. Handover' /\ InPool' /\ PoolExact'
    <3>1. ASSUME NEW v \in Threads
          PROVE  (At(v, {"pool"})' <=> At(v, {"pool"})) /\ (Receives(v)' <=> Receives(v))
      <4>1. CASE v = u
        <5>1. ~At(u, {"pool"})' /\ ~At(u, {"recv", "closing"})'
          BY <1>1, <2>2, <2>3, BeginsTop
        <5>2. QED
          BY <2>2, <4>1, <5>1 DEF Receives, At
      <4>2. CASE v # u
        BY <2>2, <4>2, OthersStay DEF Begins, Receives
      <4>3. QED
        BY <4>1, <4>2
    <3>2. QED
      BY <1>1, <1>2, <1>3, <1>4, <3>1, SamePlaces
  <2>10. QED
    BY <1>1, <1>3, <2>6, <2>7, <2>8, <2>9 DEF Base
<1>7. QED
  BY <1>4, <1>5, <1>6, HandToFreeIs

(* A step that leaves the stacks, the pool and what is told to it alone.   *)
LEMMA StandsStill ==
  ASSUME Base, UNCHANGED <<setup, stack, event, deque, pool, receiving, nextCall>>, closed = closed'
  PROVE  Framed' /\ Distinct' /\ EventsSet' /\ InPool' /\ PoolExact' /\ Handover'
<1>1. TypeOK /\ Framed /\ Distinct /\ EventsSet /\ InPool /\ PoolExact /\ Handover
  BY DEF Base
<1>2. Framed' /\ Distinct' /\ EventsSet'
  BY <1>1 DEF Framed, FrameOK, Distinct, EventsSet
<1>3. \A v \in Threads : (At(v, {"pool"})' <=> At(v, {"pool"})) /\ (Receives(v)' <=> Receives(v))
  BY DEF Receives, At, Top
<1>4. Handover' /\ InPool' /\ PoolExact'
  <2>1. pool \in Seq(Threads)
    BY <1>1 DEF TypeOK
  <2>2. QED
    BY <1>1, <1>3, <2>1, SamePlaces
<1>5. QED
  BY <1>2, <1>4

LEMMA PaidStill ==
  ASSUME Base, UNCHANGED <<stack, occupation>>, \A t \in Threads : Owed(t)' \subseteq Owed(t)
  PROVE  Paid'
<1> SUFFICES ASSUME NEW u \in Threads PROVE PaidFor(u)'
  BY DEF Paid
<1>1. stack \in Stacks /\ PaidFor(u) /\ occupation[u] \in Nat /\ occupation'[u] = occupation[u]
  BY Typed DEF Base, Paid, TypeOK
<1>2. Handled(u)' \subseteq Handled(u)
  BY DEF Handled
<1>3. QED
  BY <1>1, <1>2, PaidLess

LEMMA AnswerIs ==
  ASSUME TypeOK, Placed, NEW r \in Remotes, Answer(r)
  PROVE  /\ peer' \in Peers /\ inbox' \in Seq(Message)
         /\ <<r, Len(peer[r])>> \in Asks /\ Entry(<<r, Len(peer[r])>>) = Last(peer[r])
         /\ Asks' = Asks \ {<<r, Len(peer[r])>>}
         /\ \A x \in Asks' : Entry(x)' = Entry(x)
         /\ Last(peer[r]).seq \in Calls /\ Last(peer[r]).thread \in Threads
         /\ \E k : /\ k \notin Slots /\ Slots' = Slots \cup {k} /\ k[1] = None
                   /\ Mail(k)' = [kind |-> "reply", seq |-> Last(peer[r]).seq, from |-> r,
                                  to |-> Last(peer[r]).thread]
                   /\ \A x \in Slots : Mail(x)' = Mail(x)
         /\ UNCHANGED <<setup, stack, occupation, remote, event, deque, pool, receiving, ready, expired, nextCall,
                        eof, closed, peerNext>>
<1>1. peer \in Peers /\ Mails
  BY Typed
<1>2. peer[r] # <<>> /\ peer' = [peer EXCEPT ![r] = Front(peer[r])] /\ Last(peer[r]).seq \in Calls
  BY DEF Answer
<1>3. /\ peer' \in Peers
      /\ <<r, Len(peer[r])>> \in Asks /\ Entry(<<r, Len(peer[r])>>) = Last(peer[r])
      /\ Asks' = Asks \ {<<r, Len(peer[r])>>}
      /\ \A x \in Asks' : Entry(x)' = Entry(x)
  BY <1>1, <1>2, PeerFront
<1>4. Last(peer[r]).thread \in Threads
  <2>1. AskKnown(<<r, Len(peer[r])>>)
    BY <1>3 DEF Placed
  <2>2. Last(peer[r]).seq \notin PeerCalls
    BY <1>2, BoundAssumption DEF Calls, PeerCalls
  <2>3. QED
    BY <1>3, <2>1, <2>2 DEF AskKnown
<1> DEFINE m == [kind |-> "reply", seq |-> Last(peer[r]).seq, from |-> r, to |-> Last(peer[r]).thread]
<1>5. m \in Message
  BY <1>2, <1>4 DEF Message, Remotes
<1>6. /\ inbox' = Append(inbox, m)
      /\ UNCHANGED <<setup, stack, occupation, remote, event, deque, pool, receiving, ready, expired, nextCall,
                     eof, closed, peerNext>>
  BY DEF Answer, Deliver, threadVars, poolVars, resultVars
<1>7. PICK a \in Message : a = m
  BY <1>5
<1>8. inbox' \in Seq(Message)
  BY <1>1, <1>5, <1>6 DEF Mails
<1>9. \E k : /\ k \notin Slots /\ Slots' = Slots \cup {k} /\ k[1] = None
             /\ Mail(k)' = a
             /\ \A x \in Slots : Mail(x)' = Mail(x)
  BY <1>1, <1>6, <1>7, MailPut
<1> HIDE DEF m
<1>10. \E k : /\ k \notin Slots /\ Slots' = Slots \cup {k} /\ k[1] = None
              /\ Mail(k)' = m
              /\ \A x \in Slots : Mail(x)' = Mail(x)
  BY <1>7, <1>9
<1>11. QED
  BY <1>2, <1>3, <1>4, <1>6, <1>8, <1>10 DEF m

LEMMA AnswerKeeps ==
  ASSUME Base, NEW r \in Remotes, Answer(r)
  PROVE  Base'
<1>1. TypeOK /\ Placed /\ (expired # {} => setup.timed)
  BY DEF Base
<1>2. /\ peer' \in Peers /\ inbox' \in Seq(Message)
      /\ UNCHANGED <<setup, stack, occupation, remote, event, deque, pool, receiving, ready, expired, nextCall,
                     eof, closed, peerNext>>
  BY <1>1, AnswerIs
<1>3. TypeOK'
  BY <1>1, <1>2 DEF TypeOK, Peers, Item
<1>4. Framed' /\ Distinct' /\ EventsSet' /\ InPool' /\ PoolExact' /\ Handover'
  BY <1>2, StandsStill
<1>5. Placed' /\ \A t : Owed(t)' \subseteq Owed(t)
  <2>1. PICK n \in Asks :
             /\ Entry(n) = Last(peer[r]) /\ Asks' = Asks \ {n}
             /\ \A x \in Asks' : Entry(x)' = Entry(x)
    BY <1>1, AnswerIs
  <2>2. PICK k : /\ k \notin Slots /\ Slots' = Slots \cup {k} /\ k[1] = None
                 /\ Mail(k)' = [kind |-> "reply", seq |-> Last(peer[r]).seq, from |-> r,
                                to |-> Last(peer[r]).thread]
                 /\ \A x \in Slots : Mail(x)' = Mail(x)
    BY <1>1, AnswerIs
  <2>3. Entry(n).seq \in Calls /\ Mail(k)'.kind = "reply" /\ Mail(k)'.seq = Entry(n).seq
        /\ Mail(k)'.to = Entry(n).thread
    <3>1. Last(peer[r]).seq \in Calls
      BY <1>1, AnswerIs
    <3>2. QED
      BY <2>1, <2>2, <3>1
  <2>4. Sends' \subseteq Sends
    BY <1>2 DEF Sends
  <2>5. QED
    BY <1>1, <1>2, <2>1, <2>2, <2>3, <2>4, PlacedAnswered
<1>6. Paid'
  BY <1>2, <1>5, PaidStill
<1>7. QED
  BY <1>1, <1>2, <1>3, <1>4, <1>5, <1>6 DEF Base

LEMMA PeerRequestIs ==
  ASSUME TypeOK, NEW r \in Remotes, NEW to \in Threads \cup {Unbound}, PeerRequest(r, to)
  PROVE  /\ peer' \in Peers /\ inbox' \in Seq(Message)
         /\ peerNext \in PeerCalls /\ peerNext' = peerNext + 1
         /\ \E n : /\ n = <<r, Len(peer[r]) + 1>> /\ n \notin Asks /\ Asks' = Asks \cup {n}
                   /\ Entry(n)' = [seq |-> peerNext, thread |-> None]
                   /\ \A x \in Asks : Entry(x)' = Entry(x)
         /\ \E k : /\ k \notin Slots /\ Slots' = Slots \cup {k} /\ k[1] = None
                   /\ Mail(k)' = [kind |-> "request", seq |-> peerNext, from |-> r, to |-> to]
                   /\ \A x \in Slots : Mail(x)' = Mail(x)
         /\ UNCHANGED <<setup, stack, occupation, remote, event, deque, pool, receiving, ready, expired, nextCall,
                        eof, closed>>
<1>1. peer \in Peers /\ Mails
  BY Typed
<1>2. peerNext \in PeerCalls
  <2>1. peerNext \in (MaxCalls + 1)..(MaxCalls + MaxPeerCalls + 1) /\ peerNext <= MaxCalls + setup.peerCalls
    BY DEF TypeOK, PeerRequest
  <2>2. QED
    BY <2>1, SetupIs DEF PeerCalls
<1>3. PICK e \in Item : e = [seq |-> peerNext, thread |-> None]
  BY <1>2 DEF Item, Remotes
<1>4. peer' = [peer EXCEPT ![r] = Append(peer[r], e)]
  BY <1>3 DEF PeerRequest
<1>5. /\ peer' \in Peers
      /\ \E n : /\ n = <<r, Len(peer[r]) + 1>> /\ n \notin Asks /\ Asks' = Asks \cup {n}
                /\ Entry(n)' = e
                /\ \A x \in Asks : Entry(x)' = Entry(x)
  BY <1>1, <1>4, PeerAdds
<1>6. PICK m \in Message : m = [kind |-> "request", seq |-> peerNext, from |-> r, to |-> to]
  BY <1>2 DEF Message, Remotes
<1>7. /\ inbox' = Append(inbox, m) /\ peerNext' = peerNext + 1
      /\ UNCHANGED <<setup, stack, occupation, remote, event, deque, pool, receiving, ready, expired, nextCall,
                     eof, closed>>
  BY <1>6 DEF PeerRequest, Deliver, threadVars, poolVars, resultVars
<1>8. inbox' \in Seq(Message)
  BY <1>1, <1>7 DEF Mails
<1>9. \E k : /\ k \notin Slots /\ Slots' = Slots \cup {k} /\ k[1] = None
             /\ Mail(k)' = m
             /\ \A x \in Slots : Mail(x)' = Mail(x)
  BY <1>1, <1>7, MailPut
<1>10. /\ \E n : /\ n = <<r, Len(peer[r]) + 1>> /\ n \notin Asks /\ Asks' = Asks \cup {n}
                 /\ Entry(n)' = [seq |-> peerNext, thread |-> None]
                 /\ \A x \in Asks : Entry(x)' = Entry(x)
       /\ \E k : /\ k \notin Slots /\ Slots' = Slots \cup {k} /\ k[1] = None
                 /\ Mail(k)' = [kind |-> "request", seq |-> peerNext, from |-> r, to |-> to]
                 /\ \A x \in Slots : Mail(x)' = Mail(x)
  BY <1>3, <1>5, <1>6, <1>9
<1>11. QED
  BY <1>2, <1>5, <1>7, <1>8, <1>10

LEMMA PeerRequestKeeps ==
  ASSUME Base, NEW r \in Remotes, NEW to \in Threads \cup {Unbound}, PeerRequest(r, to)
  PROVE  Base'
<1>1. TypeOK /\ Placed /\ (expired # {} => setup.timed)
  BY DEF Base
<1>2. /\ peer' \in Peers /\ inbox' \in Seq(Message)
      /\ peerNext \in PeerCalls /\ peerNext' = peerNext + 1
      /\ UNCHANGED <<setup, stack, occupation, remote, event, deque, pool, receiving, ready, expired, nextCall,
                     eof, closed>>
  BY <1>1, PeerRequestIs
<1>3. TypeOK'
  <2>1. peerNext' \in (MaxCalls + 1)..(MaxCalls + MaxPeerCalls + 1)
    BY <1>2, BoundAssumption DEF PeerCalls
  <2>2. QED
    BY <1>1, <1>2, <2>1 DEF TypeOK, Peers, Item
<1>4. Framed' /\ Distinct' /\ EventsSet' /\ InPool' /\ PoolExact' /\ Handover'
  BY <1>2, StandsStill
<1>5. Placed' /\ \A t \in Threads : Owed(t)' \subseteq Owed(t)
  <2>1. PICK n : /\ n \notin Asks /\ Asks' = Asks \cup {n}
                 /\ Entry(n)' = [seq |-> peerNext, thread |-> None]
                 /\ \A x \in Asks : Entry(x)' = Entry(x)
    BY <1>1, PeerRequestIs
  <2>2. PICK k : /\ k \notin Slots /\ Slots' = Slots \cup {k}
                 /\ Mail(k)' = [kind |-> "request", seq |-> peerNext, from |-> r, to |-> to]
                 /\ \A x \in Slots : Mail(x)' = Mail(x)
    BY <1>1, PeerRequestIs
  <2>3. Mail(k)'.kind = "request" /\ Mail(k)'.seq = peerNext
    BY <2>2
  <2>4. Sends' \subseteq Sends
    BY <1>2 DEF Sends
  <2>5. QED
    BY <1>1, <1>2, <2>1, <2>2, <2>3, <2>4, PlacedCalled
<1>6. Paid'
  BY <1>2, <1>5, PaidStill
<1>7. QED
  BY <1>1, <1>2, <1>3, <1>4, <1>5, <1>6 DEF Base

(* The requests of the peer are one of these.                              *)
LEMMA PeerRequests ==
  ASSUME TypeOK, Placed, PeerStarts \/ \E r \in Remotes : PeerCallsBack(r)
  PROVE  \/ peerNext \in Remotes /\ PeerRequest(peerNext, Unbound)
         \/ \E r \in Remotes : /\ peer[r] # <<>> /\ Last(peer[r]).seq \in Calls
                               /\ Last(peer[r]).thread \in Threads
                               /\ PeerRequest(r, Last(peer[r]).thread)
<1>1. CASE PeerStarts
  <2>1. peerNext \in (MaxCalls + 1)..(MaxCalls + MaxPeerCalls + 1) /\ peerNext <= MaxCalls + setup.peerCalls
    BY <1>1 DEF TypeOK, PeerStarts, PeerRequest
  <2>2. peerNext \in PeerCalls
    BY <2>1, SetupIs DEF PeerCalls
  <2>3. QED
    BY <1>1, <2>2 DEF PeerStarts, Remotes
<1>2. CASE \E r \in Remotes : PeerCallsBack(r)
  <2>1. PICK r \in Remotes : PeerCallsBack(r)
    BY <1>2
  <2>2. peer[r] # <<>> /\ Last(peer[r]).seq \in Calls /\ PeerRequest(r, Last(peer[r]).thread)
    BY <2>1 DEF PeerCallsBack
  <2>3. Len(peer[r]) \in 1..Len(peer[r]) /\ peer \in Peers
    BY <2>2, Typed DEF Peers
  <2>4. <<r, Len(peer[r])>> \in Asks /\ Entry(<<r, Len(peer[r])>>) = Last(peer[r])
    BY <2>3, AskOf DEF Last
  <2>5. AskKnown(<<r, Len(peer[r])>>) /\ Last(peer[r]).seq \notin PeerCalls
    BY <2>2, <2>4, BoundAssumption DEF Placed, Calls, PeerCalls
  <2>6. QED
    BY <2>2, <2>4, <2>5 DEF AskKnown
<1>3. QED
  BY <1>1, <1>2

LEMMA PeerCallKeeps ==
  ASSUME Base, PeerStarts \/ \E r \in Remotes : PeerCallsBack(r)
  PROVE  Base'
<1>1. \/ peerNext \in Remotes /\ PeerRequest(peerNext, Unbound)
      \/ \E r \in Remotes : Last(peer[r]).thread \in Threads /\ PeerRequest(r, Last(peer[r]).thread)
  BY PeerRequests DEF Base
<1>2. PICK r \in Remotes, to \in Threads \cup {Unbound} : PeerRequest(r, to)
  BY <1>1
<1>3. QED
  BY <1>2, PeerRequestKeeps

LEMMA PeerClosesKeeps ==
  ASSUME Base, PeerCloses
  PROVE  Base'
<1>1. TypeOK /\ Placed /\ (expired # {} => setup.timed)
  BY DEF Base
<1>2. /\ UNCHANGED <<setup, stack, occupation, remote, event, deque, pool, receiving, inbox, ready, expired,
                     nextCall, peerNext, peer, closed>>
      /\ eof' = TRUE
  BY DEF PeerCloses, threadVars, poolVars, resultVars
<1>3. TypeOK'
  BY <1>1, <1>2 DEF TypeOK
<1>4. Framed' /\ Distinct' /\ EventsSet' /\ InPool' /\ PoolExact' /\ Handover'
  BY <1>2, StandsStill
<1>5. Placed' /\ Paid'
  <2>1. stack' \in Stacks
    BY <1>2, Typed DEF Base
  <2>2. CASE \E t \in Threads : TRUE
    BY <1>2, <2>1, <2>2, QuietKeeps
  <2>3. CASE ~ \E t \in Threads : TRUE
    <3>1. Slots' = Slots /\ (\A x : Mail(x)' = Mail(x)) /\ Asks' = Asks /\ \A x : Entry(x)' = Entry(x)
      BY <1>2, MailStays, PeerStays
    <3>2. Replies' = Replies /\ Sends' = Sends
      BY <1>2, <3>1 DEF Replies, Sends
    <3>3. QED
      BY <1>1, <1>2, <2>3, <3>1, <3>2 DEF Placed, Once, Unsent, AskKnown, MailKnown, Paid
  <2>4. QED
    BY <2>2, <2>3
<1>6. QED
  BY <1>1, <1>2, <1>3, <1>4, <1>5 DEF Base

LEMMA ExpireKeeps ==
  ASSUME Base, NEW s \in Calls, Expire(s)
  PROVE  Base'
<1>1. TypeOK
  BY DEF Base
<1>2. /\ UNCHANGED <<setup, stack, occupation, remote, event, deque, pool, receiving, inbox, ready,
                     nextCall, peerNext, peer, eof, closed>>
      /\ expired' = expired \cup {s} /\ setup.timed
  BY DEF Expire, threadVars, poolVars, peerVars
<1>3. TypeOK'
  BY <1>1, <1>2 DEF TypeOK
<1>4. Framed' /\ Distinct' /\ EventsSet' /\ InPool' /\ PoolExact' /\ Handover'
  BY <1>2, StandsStill
<1>5. Placed' /\ Paid'
  <2>1. PICK t \in Threads : TRUE
    BY DEF Expire
  <2>2. stack' \in Stacks
    BY <1>2, Typed DEF Base
  <2>3. QED
    BY <1>2, <2>1, <2>2, QuietKeeps
<1>6. QED
  BY <1>2, <1>3, <1>4, <1>5 DEF Base

LEMMA BaseStutters ==
  ASSUME Base, UNCHANGED vars
  PROVE  Base'
<1>1. TypeOK /\ (expired # {} => setup.timed) /\ Placed /\ Paid
  BY DEF Base
<1>2. /\ UNCHANGED <<setup, stack, occupation, remote, event, deque, pool, receiving, inbox, ready, expired,
                     nextCall, peerNext, peer, eof, closed>>
  BY DEF vars, threadVars, poolVars, resultVars, peerVars
<1>3. TypeOK'
  BY <1>1, <1>2 DEF TypeOK
<1>4. Framed' /\ Distinct' /\ EventsSet' /\ InPool' /\ PoolExact' /\ Handover'
  BY <1>2, StandsStill
<1>5. Slots' = Slots /\ (\A x : Mail(x)' = Mail(x)) /\ Asks' = Asks /\ \A x : Entry(x)' = Entry(x)
  BY <1>2, MailStays, PeerStays
<1>6. Replies' = Replies /\ Sends' = Sends
  BY <1>2, <1>5 DEF Replies, Sends
<1>7. Placed'
  BY <1>1, <1>2, <1>5, <1>6 DEF Placed, Once, Unsent, AskKnown, MailKnown
<1>8. \A t : Owed(t)' = Owed(t)
  BY <1>5, <1>6 DEF Owed
<1>9. Paid'
  BY <1>2, <1>8, PaidStill
<1>10. QED
  BY <1>1, <1>2, <1>3, <1>4, <1>7, <1>9 DEF Base

LEMMA StepKeeps ==
  ASSUME Base, NEW t \in Threads, Step(t)
  PROVE  Base'
BY SendRequestKeeps, SendReplyKeeps, SendFailsKeeps, ReturnKeeps, ServeOwnKeeps, EnterPoolKeeps,
   ReceiveAtOnceKeeps, PoolOwnKeeps, PoolReceivesKeeps, PoolTimeoutKeeps, ReceiveOwnKeeps, HandOnKeeps,
   HandToFreeKeeps, ReceiveTimeoutKeeps, ReceiveEOFKeeps, ClosedKeeps DEF Step

LEMMA BaseSteps ==
  ASSUME Base, [Next]_vars
  PROVE  Base'
<1>1. CASE Next
  BY <1>1, CallKeeps, StepKeeps, AnswerKeeps, PeerCallKeeps, PeerClosesKeeps, ExpireKeeps DEF Next
<1>2. CASE UNCHANGED vars
  BY <1>2, BaseStutters
<1>3. QED
  BY <1>1, <1>2

LEMMA BaseStarts ==
  ASSUME Init
  PROVE  Base
<1>1. /\ setup \in Setups
      /\ stack = [t \in Threads |-> IF t \in setup.loopers THEN <<NewFrame(None, "loop")>> ELSE <<>>]
      /\ occupation = [t \in Threads |-> 0] /\ remote = [t \in Threads |-> Unbound]
      /\ event = {} /\ deque = [t \in Threads |-> <<>>]
      /\ pool = <<>> /\ receiving = FALSE /\ inbox = <<>> /\ ready = {} /\ expired = {}
      /\ nextCall = 1 /\ peerNext = MaxCalls + 1 /\ peer = [r \in Remotes |-> <<>>]
      /\ eof = FALSE /\ closed = FALSE
  BY DEF Init, NewThreads
<1>2. NewFrame(None, "loop") \in Frame
  BY DEF NewFrame, Frame, Labels
<1>3. \A t \in Threads : stack[t] = <<>> \/ stack[t] = <<NewFrame(None, "loop")>>
  BY <1>1
<1>4. stack \in Stacks
  <2>1. <<NewFrame(None, "loop")>> \in Seq(Frame) /\ <<>> \in Seq(Frame)
    BY <1>2
  <2> HIDE DEF NewFrame
  <2>2. \A t \in Threads : stack[t] \in Seq(Frame)
    BY <1>3, <2>1
  <2>3. QED
    BY <1>1, <2>2 DEF Stacks
<1>5. \A t \in Threads : \A i \in 1..Len(stack[t]) : i = Len(stack[t]) /\ stack[t][i] = NewFrame(None, "loop") /\ i = 1
  <2> SUFFICES ASSUME NEW t \in Threads, NEW i \in 1..Len(stack[t])
               PROVE  i = Len(stack[t]) /\ stack[t][i] = NewFrame(None, "loop") /\ i = 1
    OBVIOUS
  <2> HIDE DEF NewFrame
  <2>1. CASE stack[t] = <<>>
    BY <2>1
  <2>2. CASE stack[t] = <<NewFrame(None, "loop")>>
    BY <2>2
  <2>3. QED
    BY <1>3, <2>1, <2>2
<1>6. TypeOK
  <2>1. pool \in Seq(Threads) /\ inbox \in Seq(Message)
        /\ peer \in [Remotes -> Seq([seq : Remotes, thread : Threads \cup {None}])]
        /\ deque \in [Threads -> Seq(Message)]
    BY <1>1
  <2>2. occupation \in [Threads -> Nat] /\ remote \in [Threads -> Remotes \cup {Unbound}]
    BY <1>1
  <2>3. nextCall \in 1..(MaxCalls + 1) /\ peerNext \in (MaxCalls + 1)..(MaxCalls + MaxPeerCalls + 1)
    BY <1>1, BoundAssumption
  <2>4. QED
    BY <1>1, <1>4, <2>1, <2>2, <2>3 DEF TypeOK, Stacks
<1>7. Framed /\ Distinct
  <2>1. \A t \in Threads : Len(stack[t]) \in Nat
    BY <1>4 DEF Stacks
  <2>2. \A t \in Threads : \A i \in 1..Len(stack[t]) : FrameOK(stack[t][i]) /\ stack[t][i].waits = None
    BY <1>5 DEF FrameOK, NewFrame
  <2>3. \A t \in Threads : \A i \in 1..(Len(stack[t]) - 1) : FALSE
    BY <1>5, <2>1
  <2>4. \A t \in Threads : \A i \in 2..Len(stack[t]) : FALSE
    BY <1>5, <2>1
  <2>5. Framed
    BY <2>2, <2>3, <2>4 DEF Framed
  <2>6. Distinct
    BY <2>2 DEF Distinct
  <2>7. QED
    BY <2>5, <2>6
<1>8. Asks = {}
  BY <1>1 DEF Asks
<1>9. Slots = {}
  BY <1>1 DEF Slots, Boxes, Box
<1>10. Replies = {} /\ Sends = {}
  BY <1>5, <1>9 DEF Replies, Sends, NewFrame
<1>11. Placed
  BY <1>8, <1>9, <1>10 DEF Placed, Once, Unsent
<1>12. Paid
  <2> SUFFICES ASSUME NEW t \in Threads PROVE PaidFor(t)
    BY DEF Paid
  <2>1. Owed(t) = {}
    BY <1>8, <1>10 DEF Owed
  <2>2. Handled(t) = {}
    BY <1>5 DEF Handled, NewFrame
  <2>3. QED
    BY <1>1, <2>1, <2>2, FS_EmptySet DEF PaidFor
<1>13. \A t \in Threads : ~At(t, {"pool"}) /\ ~Receives(t)
  <2> SUFFICES ASSUME NEW t \in Threads, stack[t] # <<>>
               PROVE  Top(t).pc = "loop"
    BY DEF At, Receives
  <2>1. Len(stack[t]) \in 1..Len(stack[t])
    BY <1>4 DEF Stacks
  <2>2. Top(t) = NewFrame(None, "loop")
    BY <1>5, <2>1 DEF Top, Last
  <2>3. QED
    BY <2>2 DEF NewFrame
<1>14. EventsSet /\ InPool /\ PoolExact /\ Handover
  <2>1. \A i \in 1..Len(pool) : FALSE
    BY <1>1
  <2>2. QED
    BY <1>1, <1>13, <2>1 DEF EventsSet, InPool, PoolExact, Handover
<1>15. QED
  BY <1>1, <1>6, <1>7, <1>11, <1>12, <1>14 DEF Base

LEMMA BaseHolds == Spec => []Base
BY BaseStarts, BaseSteps, PTL DEF Spec

LEMMA BaseInv ==
  ASSUME Base
  PROVE  Inv
<1>1. TypeOK /\ Handover
  BY DEF Base
<1>2. \A t \in Threads : t \in Receivers <=> Receives(t)
  BY DEF Receivers, Receives
<1>3. Cardinality(Receivers) <= 1
  <2>1. CASE Receivers = {}
    BY <2>1, FS_EmptySet
  <2>2. CASE Receivers # {}
    <3>1. PICK t \in Threads : t \in Receivers
      BY <2>2 DEF Receivers
    <3>2. Receivers = {t}
      BY <1>1, <1>2, <3>1 DEF Handover, Receivers
    <3>3. Cardinality({t}) = 1
      BY FS_Singleton
    <3>4. QED
      BY <3>2, <3>3
  <2>3. QED
    BY <2>1, <2>2
<1>4. (Receivers # {} => receiving) /\ (receiving => Receivers # {} \/ closed)
  BY <1>1, <1>2 DEF Handover, Receivers
<1>5. ~setup.timed /\ ~closed /\ ~receiving /\ (\E t \in Threads : At(t, {"pool"})) =>
        \E t \in event : At(t, {"pool"})
  BY <1>1 DEF Handover
<1>6. QED
  BY <1>1, <1>3, <1>4, <1>5 DEF Inv, OneReceiver

(* Inv: whatever the threads, the calls and the setup, at most one thread  *)
(* receives, the flag says whether one does, and while threads sleep in    *)
(* the pool somebody receives or has been told to.                         *)
THEOREM OneReceives == Spec => []Inv
BY BaseHolds, BaseInv, PTL

-----------------------------------------------------------------------------
(* Where no request times out, a request of a thread of the peer is        *)
(* handled by the thread it works for, and an answer goes to the thread    *)
(* that waits for it.                                                      *)

(* A thread's transactions, its own requests and those it handles in turn, *)
(* mirror those of the thread of the peer it is bound to.  A thread is     *)
(* gone when it runs nothing, or nothing that could be sent, on a closed   *)
(* connection.                                                             *)
Gone(t) == closed /\ (stack[t] = <<>> \/ (Len(stack[t]) = 1 /\ At(t, {"send"})))

Waits(t) == At(t, {"first", "loop", "pool", "recv", "closing"}) /\ Top(t).waits \notin ready

(* How many transactions it is in.  The outermost activation waits for     *)
(* nothing in a looper or a thread of the executor; the innermost handles  *)
(* a request, waits, or has not sent its request or has its answer.        *)
Off(t) == IF stack[t][1].waits = None THEN 1 ELSE 0

Rest(t) == IF At(t, {"handle"}) THEN 0 ELSE IF Waits(t) THEN 1 ELSE 2

Depth(t) == IF stack[t] = <<>> THEN 0 ELSE 2 * Len(stack[t]) - Off(t) - Rest(t)

Bound(t) == Depth(t) >= 1

(* A thread of the peer is named after the first of them.                  *)
Partner(t) == IF stack[t][1].waits = None THEN stack[t][1].data.seq ELSE stack[t][1].waits

(* An answered request is the innermost, and its thread is about to see.   *)
ReadyTop ==
  \A t \in Threads : \A i \in 1..Len(stack[t]) :
    stack[t][i].waits \in ready => i = Len(stack[t]) /\ stack[t][i].pc = "loop"

(* _occupation_count counts just these, and while there are any the thread *)
(* is bound; until the first answer _remote_thread_id may not say so.      *)
CountedOK(t) ==
  ~Gone(t) =>
    /\ occupation[t] = Depth(t)
    /\ Depth(t) = 0 => remote[t] = Unbound
    /\ Depth(t) >= 1 => remote[t] = Partner(t) \/ (Depth(t) = 1 /\ Off(t) = 0 /\ remote[t] = Unbound)

Counted == \A t \in Threads : CountedOK(t)

(* The i-th activation's own request is at Place(t, i), the one it handles *)
(* comes next.  The thread of the peer is at the same, but for one message *)
(* on its way.                                                             *)
Place(t, i) == 2 * i - 1 - Off(t)

Requested(t, items, i) ==
  stack[t][i].waits # None /\ Place(t, i) <= Depth(t) /\ Place(t, i) <= Len(items) =>
    items[Place(t, i)] = [seq |-> stack[t][i].waits, thread |-> t]

Handles(t, items, i) ==
  stack[t][i].data # None =>
    /\ Place(t, i) + 1 <= Len(items)
    /\ items[Place(t, i) + 1] = [seq |-> stack[t][i].data.seq, thread |-> None]
    /\ stack[t][i].data.from = Partner(t)

Mirrors(t, items) ==
  /\ Len(items) \in {Depth(t) - 1, Depth(t), Depth(t) + 1}
  /\ Len(items) # Depth(t) => Waits(t)
  /\ \A k \in 1..Len(items) : items[k].thread \in {t, None}
  /\ \A i \in 1..Len(stack[t]) : Requested(t, items, i) /\ Handles(t, items, i)

Agree == \A t \in Threads : Bound(t) => Mirrors(t, peer[Partner(t)])

Apart == \A t, u \in Threads : Bound(t) /\ Bound(u) /\ Partner(t) = Partner(u) => t = u

(* A request of ours that the peer is at has its thread bound there.       *)
BackedOK(x) ==
  Entry(x).seq \in Calls =>
    \/ Gone(Entry(x).thread)
    \/ /\ Bound(Entry(x).thread) /\ Partner(Entry(x).thread) = x[1]
       /\ x[2] <= Depth(Entry(x).thread)

Backed == \A x \in Asks : BackedOK(x)

(* What a message finds: one for anyone is the first from a new thread of  *)
(* the peer; another one a thread that waits for it.                       *)
Opens(m) ==
  /\ m.kind = "request" /\ m.from = m.seq
  /\ peer[m.seq] = <<[seq |-> m.seq, thread |-> None]>>
  /\ \A u \in Threads : Bound(u) => Partner(u) # m.seq

Continues(m) ==
  /\ Bound(m.to) /\ Waits(m.to) /\ Partner(m.to) = m.from
  /\ m.kind = "reply" => m.seq = Top(m.to).waits /\ Len(peer[m.from]) = Depth(m.to) - 1
  /\ m.kind = "request" =>
       /\ Len(peer[m.from]) = Depth(m.to) + 1
       /\ peer[m.from][Depth(m.to) + 1] = [seq |-> m.seq, thread |-> None]

Meant(m) == IF m.to = Unbound THEN Opens(m) ELSE ~Gone(m.to) => Continues(m)

(* A message for somebody is the only one from its thread of the peer.     *)
Live(m) == m.to = Unbound \/ ~Gone(m.to)

Letters ==
  /\ \A x \in Slots : Meant(Mail(x))
  /\ \A x, y \in Slots : Mail(x).from = Mail(y).from /\ Live(Mail(x)) /\ Live(Mail(y)) => x = y

(* A thread's deque has what is for the thread, or all that an idle one    *)
(* has been given.                                                         *)
Parked(u) ==
  Len(deque[u]) = 1 /\ Len(stack[u]) = 1 /\ At(u, {"first", "pool"}) /\ Top(u).waits = None

DeliveredOK(x) == x[1] # None => Mail(x).to = x[1] \/ (Mail(x).to = Unbound /\ Parked(x[1]))

Delivered == \A x \in Slots : DeliveredOK(x)

(* What nobody has used yet.                                               *)
Fresh ==
  /\ \A r \in Calls : peer[r] # <<>> => r < nextCall /\ r \notin Sends
  /\ \A r \in PeerCalls : peer[r] # <<>> => r < peerNext
  /\ \A t \in Threads : \A i \in 1..Len(stack[t]) :
       stack[t][i].data # None => stack[t][i].data.seq \in PeerCalls /\ stack[t][i].data.seq < peerNext
  /\ \A x \in Slots : Mail(x).from \in PeerCalls => Mail(x).from < peerNext
  /\ \A s \in ready : s < nextCall

(* The inductive invariant behind Affinity and RepliesReturn, beside Base. *)
Mirrored == ReadyTop /\ Counted /\ Agree /\ Apart /\ Backed /\ Letters /\ Delivered /\ Fresh

-----------------------------------------------------------------------------
LEMMA NoneIs == None \notin Calls /\ None \notin PeerCalls /\ None \notin Message /\ None \notin Threads
BY BoundAssumption DEF Calls, PeerCalls

LEMMA CallsApart == Calls \cap PeerCalls = {}
BY BoundAssumption DEF Calls, PeerCalls

(* How deep a thread is.                                                   *)
LEMMA DepthIs ==
  ASSUME Base, NEW t \in Threads, stack[t] # <<>>
  PROVE  /\ Len(stack[t]) \in Nat /\ Len(stack[t]) >= 1 /\ Off(t) \in {0, 1} /\ Depth(t) \in Nat
         /\ At(t, {"handle"}) => Depth(t) = 2 * Len(stack[t]) - Off(t) /\ ~Waits(t)
         /\ Waits(t) => Depth(t) = 2 * Len(stack[t]) - Off(t) - 1
         /\ ~At(t, {"handle"}) /\ ~Waits(t) =>
              Depth(t) = 2 * Len(stack[t]) - Off(t) - 2 /\ Top(t).waits # None
         /\ Len(stack[t]) >= 2 => Depth(t) >= 1
         /\ Len(stack[t]) = 1 => (Off(t) = 1 <=> Top(t).waits = None)
<1>1. stack \in Stacks /\ TypeOK /\ Framed
  BY Typed DEF Base
<1>2. /\ Len(stack[t]) \in Nat /\ Len(stack[t]) >= 1
      /\ Top(t) = stack[t][Len(stack[t])] /\ Top(t) \in Frame
  BY <1>1, TopIs
<1>3. Off(t) \in {0, 1} /\ (Off(t) = 1 <=> stack[t][1].waits = None)
  BY DEF Off
<1>4. At(t, {"handle"}) => ~Waits(t)
  BY DEF At, Waits
<1>5. ASSUME ~At(t, {"handle"}), ~Waits(t)
      PROVE  Top(t).waits # None
  <2>1. CASE At(t, {"send"})
    BY <1>1, <2>1, TopOK DEF At, FrameOK
  <2>2. CASE ~At(t, {"send"})
    <3>1. At(t, {"first", "loop", "pool", "recv", "closing"})
      BY <1>2, <1>5, <2>2 DEF At, Frame, Labels
    <3>2. Top(t).waits \in ready
      BY <1>5, <3>1 DEF Waits
    <3>3. Top(t).waits \in Calls
      BY <1>1, <3>2 DEF TypeOK
    <3>4. QED
      BY <3>3, NoneIs
  <2>3. QED
    BY <2>1, <2>2
<1>6. Rest(t) = IF At(t, {"handle"}) THEN 0 ELSE IF Waits(t) THEN 1 ELSE 2
  BY DEF Rest
<1>7. Depth(t) = 2 * Len(stack[t]) - Off(t) - Rest(t)
  BY DEF Depth
<1>8. Len(stack[t]) = 1 => (Off(t) = 1 <=> Top(t).waits = None)
  BY <1>2, <1>3
<1>9. QED
  <2> HIDE DEF Rest, Off, Depth
  <2>1. PICK n \in Nat : n = Len(stack[t])
    BY <1>2
  <2>2. CASE At(t, {"handle"})
    BY <1>2, <1>3, <1>4, <1>6, <1>7, <1>8, <2>1, <2>2
  <2>3. CASE Waits(t)
    BY <1>2, <1>3, <1>4, <1>6, <1>7, <1>8, <2>1, <2>3
  <2>4. CASE ~At(t, {"handle"}) /\ ~Waits(t)
    BY <1>2, <1>3, <1>5, <1>6, <1>7, <1>8, <2>1, <2>4
  <2>5. QED
    BY <2>2, <2>3, <2>4

LEMMA GoneIs ==
  ASSUME Base, NEW t \in Threads, Gone(t)
  PROVE  closed /\ Depth(t) = 0 /\ ~Bound(t)
<1>1. CASE stack[t] = <<>>
  BY <1>1 DEF Depth, Bound, Gone
<1>2. CASE stack[t] # <<>>
  <2>1. closed /\ Len(stack[t]) = 1 /\ At(t, {"send"})
    BY <1>2 DEF Gone
  <2>2. ~At(t, {"handle"}) /\ ~Waits(t)
    BY <2>1 DEF At, Waits
  <2>3. Top(t).waits # None /\ Depth(t) = 2 * 1 - Off(t) - 2 /\ Off(t) = 0
    BY <1>2, <2>1, <2>2, DepthIs
  <2>4. QED
    BY <2>1, <2>3 DEF Bound
<1>3. QED
  BY <1>1, <1>2

LEMMA BoundIs ==
  ASSUME Base, NEW t \in Threads, Bound(t)
  PROVE  /\ stack[t] # <<>> /\ ~Gone(t)
         /\ Partner(t) \in Remotes
         /\ Off(t) = 0 => stack[t][1].waits \in Calls /\ Partner(t) = stack[t][1].waits
         /\ Off(t) = 1 => stack[t][1].data \in Message /\ Partner(t) = stack[t][1].data.seq
<1>1. stack[t] # <<>> /\ ~Gone(t)
  BY GoneIs DEF Bound, Depth
<1>2. stack \in Stacks /\ Framed
  BY Typed DEF Base
<1>3. Len(stack[t]) \in Nat /\ Len(stack[t]) >= 1 /\ stack[t] \in Seq(Frame)
  BY <1>1, <1>2, TopIs DEF Stacks
<1>4. 1 \in 1..Len(stack[t]) /\ stack[t][1] \in Frame /\ FrameOK(stack[t][1])
  BY <1>2, <1>3 DEF Framed
<1>5. CASE Off(t) = 0
  <2>1. stack[t][1].waits \in Calls
    BY <1>4, <1>5 DEF Off, Frame
  <2>2. QED
    BY <1>1, <1>5, <2>1 DEF Off, Partner, Remotes
<1>6. CASE Off(t) = 1
  <2>1. stack[t][1].waits = None
    BY <1>6 DEF Off
  <2>2. stack[t][1].pc = "handle"
    <3>1. CASE Len(stack[t]) >= 2
      BY <1>2, <1>3, <3>1 DEF Framed
    <3>2. CASE Len(stack[t]) = 1
      <4>1. Top(t).waits = None /\ Top(t) = stack[t][1]
        BY <1>1, <1>2, <2>1, <3>2, TopIs
      <4>2. Depth(t) >= 1 /\ Depth(t) \in Nat
        BY <1>1, DepthIs DEF Bound
      <4>3. ~Waits(t)
        <5>1. Waits(t) => Depth(t) = 2 * 1 - 1 - 1
          BY <1>1, <1>6, <3>2, DepthIs
        <5>2. QED
          BY <4>2, <5>1
      <4>4. At(t, {"handle"})
        BY <1>1, <4>1, <4>3, DepthIs
      <4>5. QED
        BY <4>1, <4>4 DEF At
    <3>3. Len(stack[t]) >= 2 \/ Len(stack[t]) = 1
      <4>1. Len(stack[t]) \in Nat /\ Len(stack[t]) >= 1
        BY <1>1, DepthIs
      <4>2. \A n \in Nat : n >= 1 => n >= 2 \/ n = 1
        OBVIOUS
      <4>3. QED
        BY <4>1, <4>2, Zenon
    <3>4. QED
      BY <3>1, <3>2, <3>3
  <2>3. stack[t][1].data # None
    BY <1>4, <2>2 DEF FrameOK
  <2>4. stack[t][1].data \in Message
    BY <1>4, <2>3 DEF Frame
  <2>5. stack[t][1].data.seq \in Remotes
    BY <2>4 DEF Message
  <2>6. QED
    BY <1>1, <1>6, <2>1, <2>4, <2>5 DEF Partner
<1>7. QED
  BY <1>5, <1>6 DEF Off

-----------------------------------------------------------------------------
(* A step shows nothing of a thread: it is in as many transactions as      *)
(* before, and where it is in any, they are the same.                      *)
SameView(u) ==
  /\ Depth(u)' = Depth(u)
  /\ Bound(u) =>
       /\ Partner(u)' = Partner(u) /\ Off(u)' = Off(u)
       /\ Waits(u)' <=> Waits(u)
       /\ Waits(u) => Top(u)'.waits = Top(u).waits
       /\ \A items : Mirrors(u, items) => Mirrors(u, items)'

LEMMA ViewStays ==
  ASSUME Base, NEW u \in Threads, stack[u] # <<>>,
         Depth(u)' = Depth(u), Off(u)' = Off(u), Waits(u)' <=> Waits(u),
         Waits(u) => Top(u)'.waits = Top(u).waits, 1 \in 1..Len(stack'[u]),
         \A i \in 1..Len(stack'[u]) :
           \/ /\ i \in 1..Len(stack[u]) /\ stack'[u][i].waits = stack[u][i].waits
              /\ stack'[u][i].data = stack[u][i].data
           \/ stack'[u][i].data = None /\ ~(Place(u, i) <= Depth(u))
  PROVE  SameView(u)
<1> SUFFICES ASSUME Bound(u)
             PROVE  /\ Partner(u)' = Partner(u)
                    /\ \A items : Mirrors(u, items) => Mirrors(u, items)'
  BY DEF SameView
<1>1. Depth(u) \in Nat /\ Depth(u) >= 1 /\ Off(u) \in {0, 1}
  BY DepthIs DEF Bound
<1>2. ~(stack'[u][1].data = None /\ ~(Place(u, 1) <= Depth(u)))
  BY <1>1 DEF Place
<1>3. stack'[u][1].waits = stack[u][1].waits /\ stack'[u][1].data = stack[u][1].data
  BY <1>2
<1>4. Partner(u)' = Partner(u)
  BY <1>3 DEF Partner
<1>5. \A i : Place(u, i)' = Place(u, i)
  BY DEF Place
<1>6. ASSUME NEW items, Mirrors(u, items), NEW i \in 1..Len(stack'[u])
      PROVE  Requested(u, items, i)' /\ Handles(u, items, i)'
  <2>1. CASE /\ i \in 1..Len(stack[u]) /\ stack'[u][i].waits = stack[u][i].waits
             /\ stack'[u][i].data = stack[u][i].data
    <3>1. Requested(u, items, i) /\ Handles(u, items, i)
      BY <1>6, <2>1 DEF Mirrors
    <3>2. QED
      BY <1>4, <1>5, <2>1, <3>1 DEF Requested, Handles
  <2>2. CASE stack'[u][i].data = None /\ ~(Place(u, i) <= Depth(u))
    BY <1>5, <2>2 DEF Requested, Handles
  <2>3. QED
    BY <2>1, <2>2
<1>7. ASSUME NEW items, Mirrors(u, items)
      PROVE  Mirrors(u, items)'
  BY <1>6, <1>7 DEF Mirrors
<1>8. QED
  BY <1>4, <1>7

LEMMA StackStays ==
  ASSUME Base, NEW u \in Threads, stack'[u] = stack[u],
         stack[u] # <<>> => (Top(u).waits \in ready' <=> Top(u).waits \in ready)
  PROVE  SameView(u) /\ Top(u)' = Top(u) /\ (Waits(u)' <=> Waits(u))
<1>1. Top(u)' = Top(u) /\ \A pcs : At(u, pcs)' <=> At(u, pcs)
  BY DEF Top, At, Last
<1>2. Waits(u)' <=> Waits(u)
  BY <1>1 DEF Waits, At
<1>3. Off(u)' = Off(u) /\ Rest(u)' = Rest(u)
  BY <1>1, <1>2 DEF Off, Rest
<1>4. Depth(u)' = Depth(u)
  BY <1>3 DEF Depth
<1>5. CASE stack[u] = <<>>
  BY <1>1, <1>2, <1>4, <1>5 DEF SameView, Bound, Depth
<1>6. CASE stack[u] # <<>>
  <2>1. 1 \in 1..Len(stack'[u])
    <3>1. Len(stack[u]) \in Nat /\ Len(stack[u]) >= 1
      BY <1>6, DepthIs
    <3>2. QED
      BY <3>1
  <2>2. SameView(u)
    BY <1>1, <1>2, <1>3, <1>4, <1>6, <2>1, ViewStays
  <2>3. QED
    BY <1>1, <1>2, <2>2
<1>7. QED
  BY <1>5, <1>6

(* An activation that waits goes on to wait elsewhere.                     *)
LEMMA WaitsStays ==
  ASSUME Base, stack' \in Stacks, ready' = ready, NEW t \in Threads, Waits(t),
         NEW pc \in {"loop", "pool", "recv", "closing"}, Becomes(t, pc, None)
  PROVE  SameView(t) /\ ~Gone(t)' /\ (Waits(t)' /\ Top(t)'.waits = Top(t).waits)
<1>1. stack \in Stacks /\ Framed
  BY Typed DEF Base
<1>2. stack[t] # <<>> /\ stack'[t] # <<>> /\ Top(t)' = [pc |-> pc, waits |-> Top(t).waits, data |-> None]
  BY <1>1, BecomesTop DEF Becomes
<1>3. Waits(t)' /\ ~At(t, {"handle"})' /\ ~At(t, {"handle"}) /\ ~At(t, {"send"})'
  BY <1>2 DEF Waits, At
<1>4. Top(t).data = None
  <2>1. FrameOK(Top(t))
    BY <1>1, <1>2, TopOK
  <2>2. Top(t).pc # "handle"
    BY <1>2, <1>3 DEF At
  <2>3. QED
    BY <2>1, <2>2 DEF FrameOK
<1>5. /\ Len(stack[t]) \in Nat /\ Len(stack[t]) >= 1 /\ Len(stack'[t]) = Len(stack[t])
      /\ Top(t) = stack[t][Len(stack[t])]
  BY <1>1, <1>2, TopIs DEF Becomes
<1>6. \A i \in 1..Len(stack'[t]) :
         /\ i \in 1..Len(stack[t]) /\ stack'[t][i].waits = stack[t][i].waits
         /\ stack'[t][i].data = stack[t][i].data
  <2> SUFFICES ASSUME NEW i \in 1..Len(stack[t])
               PROVE  stack'[t][i].waits = stack[t][i].waits /\ stack'[t][i].data = stack[t][i].data
    BY <1>5
  <2>1. CASE i = Len(stack[t])
    BY <1>2, <1>4, <1>5, <2>1 DEF Becomes
  <2>2. CASE i # Len(stack[t])
    <3>1. i \in 1..(Len(stack[t]) - 1)
      BY <1>5, <2>2
    <3>2. QED
      BY <3>1 DEF Becomes
  <2>3. QED
    BY <2>1, <2>2
<1>7. 1 \in 1..Len(stack'[t])
  BY <1>5
<1>8. Off(t)' = Off(t)
  BY <1>6, <1>7 DEF Off
<1>9. Rest(t)' = Rest(t)
  BY <1>3 DEF Rest
<1>10. Depth(t)' = Depth(t)
  BY <1>2, <1>5, <1>8, <1>9 DEF Depth
<1>11. SameView(t)
  <2>1. Waits(t)' <=> Waits(t)
    BY <1>3
  <2>2. Top(t)'.waits = Top(t).waits
    BY <1>2
  <2>3. QED
    BY <1>2, <1>6, <1>7, <1>8, <1>10, <2>1, <2>2, ViewStays
<1>12. ~Gone(t)'
  BY <1>2, <1>3 DEF Gone
<1>13. QED
  BY <1>2, <1>3, <1>11, <1>12

(* A request begins that has not been sent, at the outermost or in a       *)
(* handler.                                                                *)
LEMMA BeginsStays ==
  ASSUME Base, stack' \in Stacks, ready' = ready, closed' = closed, NEW t \in Threads, NEW s \in Calls,
         Begins(t, NewFrame(s, "send")), stack[t] = <<>> \/ At(t, {"handle"})
  PROVE  SameView(t) /\ (Gone(t)' <=> Gone(t))
<1>1. stack \in Stacks /\ Framed
  BY Typed DEF Base
<1>2. stack[t] \in Seq(Frame) /\ stack'[t] \in Seq(Frame)
  BY <1>1 DEF Stacks
<1>3. stack'[t] # <<>> /\ Top(t)' = NewFrame(s, "send") /\ \A pcs : At(t, pcs)' <=> "send" \in pcs
  BY <1>1, BeginsTop DEF NewFrame
<1>4. At(t, {"send"})' /\ ~At(t, {"handle"})' /\ ~Waits(t)'
  BY <1>3 DEF Waits
<1>5. Rest(t)' = 2
  BY <1>4 DEF Rest
<1>6. CASE stack[t] = <<>>
  <2>1. Len(stack'[t]) = 1 /\ stack'[t][1] = NewFrame(s, "send")
    BY <1>6 DEF Begins
  <2>2. Off(t)' = 0
    BY <2>1, NoneIs DEF Off, NewFrame
  <2>3. Depth(t)' = 0 /\ Depth(t) = 0
    BY <1>3, <1>5, <1>6, <2>1, <2>2 DEF Depth
  <2>4. QED
    BY <1>4, <1>6, <2>1, <2>3 DEF SameView, Bound, Gone
<1>7. CASE At(t, {"handle"})
  <2>1. stack[t] # <<>> /\ ~Waits(t) /\ ~At(t, {"send"})
    BY <1>7 DEF At, Waits
  <2>2. PICK n \in Nat : n = Len(stack[t])
    BY <1>2
  <2>3. n >= 1 /\ Len(stack'[t]) = n + 1 /\ \A i \in 1..n : stack'[t][i] = stack[t][i]
    BY <2>1, <2>2, DepthIs DEF Begins
  <2>4. stack'[t][n + 1] = NewFrame(s, "send")
    BY <2>2 DEF Begins
  <2>5. 1 \in 1..n
    BY <2>3
  <2>6. Off(t)' = Off(t) /\ Off(t) \in {0, 1} /\ Depth(t) = 2 * n - Off(t)
    BY <1>7, <2>1, <2>2, <2>3, <2>5, DepthIs DEF Off
  <2>7. Depth(t)' = 2 * (n + 1) - Off(t) - 2
    BY <1>3, <1>5, <2>3, <2>6 DEF Depth
  <2>8. Depth(t)' = Depth(t)
    BY <2>6, <2>7
  <2>9. stack'[t][n + 1].data = None /\ ~(Place(t, n + 1) <= Depth(t))
    BY <2>4, <2>6 DEF NewFrame, Place
  <2>10. SameView(t)
    <3>1. ASSUME NEW i \in 1..Len(stack'[t])
          PROVE  \/ /\ i \in 1..Len(stack[t]) /\ stack'[t][i].waits = stack[t][i].waits
                    /\ stack'[t][i].data = stack[t][i].data
                 \/ stack'[t][i].data = None /\ ~(Place(t, i) <= Depth(t))
      <4>1. i \in 1..n \/ i = n + 1
        BY <2>3
      <4>2. QED
        BY <2>2, <2>3, <2>9, <4>1
    <3>2. 1 \in 1..Len(stack'[t])
      BY <2>3
    <3>3. Waits(t)' <=> Waits(t)
      BY <1>4, <2>1
    <3>4. QED
      BY <2>1, <2>6, <2>8, <3>1, <3>2, <3>3, ViewStays
  <2>11. ~Gone(t) /\ ~Gone(t)'
    BY <2>1, <2>3, <1>3 DEF Gone
  <2>12. QED
    BY <2>10, <2>11
<1>8. QED
  BY <1>6, <1>7

(* An activation ends that has its answer, or that waited for none.        *)
LEMMA EndsStays ==
  ASSUME Base, stack' \in Stacks, ready' = ready, NEW t \in Threads, At(t, {"loop"}), Ends(t),
         Top(t).waits = None \/ Top(t).waits \in ready
  PROVE  SameView(t) /\ ~Gone(t) /\ (Bound(t) => ~Waits(t))
<1>1. stack \in Stacks /\ Framed
  BY Typed DEF Base
<1>2. stack[t] \in Seq(Frame) /\ stack'[t] \in Seq(Frame) /\ stack[t] # <<>>
  BY <1>1 DEF Stacks, At
<1>3. ~At(t, {"handle"}) /\ ~At(t, {"send"}) /\ ~Gone(t)
  BY <1>2 DEF At, Gone
<1>4. PICK n \in Nat : n = Len(stack[t])
  BY <1>2
<1>5. /\ n >= 1 /\ Len(stack'[t]) = n - 1 /\ \A i \in 1..(n - 1) : stack'[t][i] = stack[t][i]
      /\ Top(t) = stack[t][n]
  BY <1>1, <1>2, <1>4, TopIs DEF Ends
<1>6. CASE n = 1
  <2>1. stack'[t] = <<>>
    BY <1>2, <1>5, <1>6
  <2>2. Depth(t)' = 0
    BY <2>1 DEF Depth
  <2>3. Depth(t) = 0
    <3>1. Off(t) \in {0, 1} /\ (Off(t) = 1 <=> Top(t).waits = None)
      BY <1>2, <1>4, <1>6, DepthIs
    <3>2. CASE Top(t).waits = None
      <4>1. Waits(t)
        <5>1. None \notin ready
          BY NoneIs DEF Base, TypeOK
        <5>2. QED
          BY <3>2, <5>1 DEF Waits, At
      <4>2. Depth(t) = 2 * 1 - 1 - 1
        BY <1>2, <1>4, <1>6, <3>1, <3>2, <4>1, DepthIs
      <4>3. QED
        BY <4>2
    <3>3. CASE Top(t).waits # None
      <4>1. ~Waits(t)
        BY <3>3 DEF Waits
      <4>2. Depth(t) = 2 * 1 - 0 - 2
        BY <1>2, <1>3, <1>4, <1>6, <3>1, <3>3, <4>1, DepthIs
      <4>3. QED
        BY <4>2
    <3>4. QED
      BY <3>2, <3>3
  <2>4. QED
    BY <1>3, <2>2, <2>3 DEF SameView, Bound
<1>7. CASE n # 1
  <2>1. n \in 2..Len(stack[t]) /\ n - 1 \in 1..(Len(stack[t]) - 1) /\ 1 \in 1..(n - 1) /\ n - 1 \in Nat
    <3>1. n >= 1 /\ n # 1
      BY <1>5, <1>7
    <3>2. n \in 2..n /\ n - 1 \in 1..(n - 1) /\ 1 \in 1..(n - 1) /\ n - 1 \in Nat
      BY <3>1
    <3>3. QED
      BY <1>4, <3>2
  <2>2. Top(t).waits # None /\ stack[t][n - 1].pc = "handle"
    BY <1>1, <1>5, <2>1 DEF Framed
  <2>3. ~Waits(t)
    BY <2>2 DEF Waits
  <2>4. Depth(t) = 2 * n - Off(t) - 2 /\ Off(t) \in {0, 1}
    BY <1>2, <1>3, <1>4, <2>3, DepthIs
  <2>5. stack'[t] # <<>> /\ Top(t)' = stack'[t][n - 1]
    <3>1. stack'[t] # <<>>
      BY <1>5, <2>1
    <3>2. QED
      BY <1>1, <1>5, <3>1, TopIs DEF Top, Last
  <2>6. At(t, {"handle"})' /\ ~Waits(t)'
    <3>1. stack'[t][n - 1] = stack[t][n - 1]
      BY <1>5, <2>1
    <3>2. Top(t)'.pc = "handle"
      BY <2>2, <2>5, <3>1
    <3>3. QED
      BY <2>5, <3>2 DEF At, Waits
  <2>7. Off(t)' = Off(t)
    BY <1>5, <2>1 DEF Off
  <2>8. Depth(t)' = 2 * (n - 1) - Off(t) - 0
    BY <1>5, <2>5, <2>6, <2>7 DEF Depth, Rest
  <2>9. Depth(t)' = Depth(t)
    BY <2>4, <2>8
  <2>10. \A i \in 1..Len(stack'[t]) :
           /\ i \in 1..Len(stack[t]) /\ stack'[t][i].waits = stack[t][i].waits
           /\ stack'[t][i].data = stack[t][i].data
    <3>1. \A i \in 1..(n - 1) : i \in 1..n
      OBVIOUS
    <3>2. QED
      BY <1>4, <1>5, <3>1
  <2>11. 1 \in 1..Len(stack'[t])
    BY <1>5, <2>1
  <2>12. SameView(t)
    BY <1>2, <2>3, <2>6, <2>7, <2>9, <2>10, <2>11, ViewStays
  <2>13. QED
    BY <1>3, <2>3, <2>12
<1>8. QED
  BY <1>6, <1>7

(* All activations of a thread end on a closed connection.                 *)
LEMMA AllEndGone ==
  ASSUME NEW t, AllEnd(t), closed'
  PROVE  Gone(t)' /\ Depth(t)' = 0
BY DEF AllEnd, Gone, Depth

-----------------------------------------------------------------------------
(* Steps that show nothing: the parts of Mirrored about threads, entries   *)
(* and messages stay true of what stays.                                   *)
LEMMA ToIs ==
  ASSUME NEW m \in Message, m.to # Unbound
  PROVE  m.to \in Threads
BY DEF Message

LEMMA QuietMirrors ==
  ASSUME Base, Mirrored, UNCHANGED <<occupation, remote, peer>>, NEW g, Carried(g),
         \A u \in Threads : Gone(u) => Gone(u)',
         \A u \in Threads : SameView(u) \/ (Gone(u)' /\ Depth(u)' = 0),
         ReadyTop', Fresh', Delivered'
  PROVE  Mirrored'
<1>1. TypeOK /\ Mails /\ Placed /\ peer \in Peers
  BY Typed DEF Base
<1>2. ASSUME NEW u \in Threads, Bound(u)'
      PROVE  Bound(u) /\ SameView(u) /\ Partner(u)' = Partner(u)
  BY <1>2 DEF Bound, SameView
<1>3. Counted'
  <2> SUFFICES ASSUME NEW u \in Threads, ~Gone(u)'
               PROVE  /\ occupation'[u] = Depth(u)'
                      /\ Depth(u)' = 0 => remote'[u] = Unbound
                      /\ Depth(u)' >= 1 => \/ remote'[u] = Partner(u)'
                                           \/ Depth(u)' = 1 /\ Off(u)' = 0 /\ remote'[u] = Unbound
    BY DEF Counted, CountedOK
  <2>1. SameView(u) /\ CountedOK(u) /\ ~Gone(u)
    BY DEF Mirrored, Counted
  <2>2. QED
    BY <2>1 DEF CountedOK, SameView, Bound
<1>4. Agree'
  <2> SUFFICES ASSUME NEW u \in Threads, Bound(u)'
               PROVE  Mirrors(u, peer[Partner(u)])'
    BY DEF Agree
  <2>1. Bound(u) /\ SameView(u) /\ Partner(u)' = Partner(u) /\ Mirrors(u, peer[Partner(u)])
    BY <1>2 DEF Mirrored, Agree
  <2>2. PICK items : items = peer[Partner(u)]
    OBVIOUS
  <2>3. Mirrors(u, items)'
    BY <2>1, <2>2 DEF SameView
  <2>4. peer'[Partner(u)'] = items
    BY <2>1, <2>2
  <2>5. QED
    BY <2>3, <2>4
<1>5. Apart'
  BY <1>2 DEF Mirrored, Apart
<1>6. Backed'
  <2> SUFFICES ASSUME NEW x \in Asks' PROVE BackedOK(x)'
    BY DEF Backed
  <2>1. x \in Asks /\ Entry(x)' = Entry(x) /\ AskKnown(x) /\ BackedOK(x)
    BY <1>1, PeerStays DEF Placed, Mirrored, Backed
  <2> SUFFICES ASSUME Entry(x).seq \in Calls
               PROVE  BackedOK(x)'
    BY <2>1 DEF BackedOK
  <2>2. PICK u \in Threads : u = Entry(x).thread
    BY <2>1, CallsApart DEF AskKnown
  <2>3. Gone(u)' \/ (Bound(u)' /\ Partner(u)' = x[1] /\ x[2] <= Depth(u)')
    BY <2>1, <2>2 DEF BackedOK, SameView, Bound
  <2>4. Entry(x)'.thread = u
    BY <2>1, <2>2
  <2>5. QED
    BY <2>3, <2>4 DEF BackedOK
<1>7. ASSUME NEW m \in Message, Meant(m)
      PROVE  Meant(m)'
  <2>1. CASE m.to = Unbound
    BY <1>2, <1>7, <2>1 DEF Meant, Opens
  <2>2. CASE m.to # Unbound
    <3> SUFFICES ASSUME ~Gone(m.to)'
                 PROVE  Continues(m)'
      BY <2>2 DEF Meant
    <3>1. PICK u \in Threads : u = m.to
      BY <2>2, ToIs
    <3>2. SameView(u) /\ ~Gone(u) /\ Continues(m)
      BY <1>7, <2>2, <3>1 DEF Meant
    <3>3. Bound(u)' /\ Waits(u)' /\ Partner(u)' = m.from /\ Depth(u)' = Depth(u) /\ Top(u)'.waits = Top(u).waits
      BY <3>1, <3>2 DEF Continues, SameView, Bound
    <3>4. QED
      BY <3>1, <3>2, <3>3 DEF Continues
  <2>3. QED
    BY <2>1, <2>2
<1>8. ASSUME NEW m \in Message, Live(m)'
      PROVE  Live(m)
  BY <1>8, ToIs DEF Live
<1>9. \A x \in Slots' : g[x] \in Slots /\ Mail(x)' = Mail(g[x]) /\ Mail(g[x]) \in Message
  BY <1>1, MailType DEF Carried
<1>10. Letters'
  <2>1. ASSUME NEW x \in Slots'
        PROVE  Meant(Mail(x))'
    <3>1. PICK m \in Message : m = Mail(g[x])
      BY <1>9
    <3>2. Meant(m)
      BY <1>9, <3>1 DEF Mirrored, Letters
    <3>3. Meant(m)' /\ Mail(x)' = m
      BY <1>7, <1>9, <3>1, <3>2
    <3>4. QED
      BY <3>3 DEF Meant, Opens, Continues
  <2>2. ASSUME NEW x \in Slots', NEW y \in Slots', Mail(x)'.from = Mail(y)'.from, Live(Mail(x))', Live(Mail(y))'
        PROVE  x = y
    <3>1. PICK m \in Message : m = Mail(g[x])
      BY <1>9
    <3>2. PICK k \in Message : k = Mail(g[y])
      BY <1>9
    <3>3. Live(m)' /\ Live(k)'
      BY <1>9, <2>2, <3>1, <3>2 DEF Live
    <3>4. Live(Mail(g[x])) /\ Live(Mail(g[y])) /\ Mail(g[x]).from = Mail(g[y]).from
      BY <1>8, <1>9, <2>2, <3>1, <3>2, <3>3
    <3>5. g[x] = g[y]
      BY <1>9, <3>4 DEF Mirrored, Letters
    <3>6. QED
      BY <3>5 DEF Carried
  <2>3. QED
    BY <2>1, <2>2 DEF Letters
<1>11. QED
  BY <1>3, <1>4, <1>5, <1>6, <1>10 DEF Mirrored

-----------------------------------------------------------------------------
(* Steps in which t and the thread of the peer it is bound to, R, move.    *)
(* No message from R is on its way afterwards, and nobody else is bound to *)
(* it.                                                                     *)
LEMMA MoveMirrors ==
  ASSUME Base, Mirrored, NEW t \in Threads, NEW R \in Remotes, ~Gone(t), ~Gone(t)',
         \A u \in Threads : u # t =>
           SameView(u) /\ (Gone(u)' <=> Gone(u)) /\ occupation'[u] = occupation[u] /\ remote'[u] = remote[u],
         \A r \in Remotes : r # R => peer'[r] = peer[r],
         \A u \in Threads : u # t /\ Bound(u) => Partner(u) # R,
         Bound(t) => Partner(t) = R,
         NEW g, Carried(g), \A x \in Slots' : Live(Mail(g[x])) => Mail(g[x]).from # R,
         CountedOK(t)', Bound(t)' => Partner(t)' = R /\ Mirrors(t, peer[R])',
         \A x \in Asks' : x[1] = R => BackedOK(x)',
         ReadyTop', Fresh', Delivered'
  PROVE  Mirrored'
<1>1. TypeOK /\ Mails /\ Placed /\ peer \in Peers
  BY Typed DEF Base
<1>2. ASSUME NEW u \in Threads, u # t, Bound(u)'
      PROVE  Bound(u) /\ Partner(u)' = Partner(u) /\ Partner(u) # R /\ Partner(u) \in Remotes
  BY <1>2, BoundIs DEF Bound, SameView
<1>3. Counted'
  <2> SUFFICES ASSUME NEW u \in Threads, u # t, ~Gone(u)'
               PROVE  /\ occupation'[u] = Depth(u)'
                      /\ Depth(u)' = 0 => remote'[u] = Unbound
                      /\ Depth(u)' >= 1 => \/ remote'[u] = Partner(u)'
                                           \/ Depth(u)' = 1 /\ Off(u)' = 0 /\ remote'[u] = Unbound
    BY DEF Counted, CountedOK
  <2>1. SameView(u) /\ CountedOK(u) /\ ~Gone(u)
    BY DEF Mirrored, Counted
  <2>2. occupation'[u] = occupation[u] /\ remote'[u] = remote[u]
    OBVIOUS
  <2>3. QED
    BY <2>1, <2>2 DEF CountedOK, SameView, Bound
<1>4. Agree'
  <2> SUFFICES ASSUME NEW u \in Threads, Bound(u)'
               PROVE  Mirrors(u, peer[Partner(u)])'
    BY DEF Agree
  <2>1. CASE u = t
    <3>1. PICK items : items = peer'[R]
      OBVIOUS
    <3>2. Mirrors(t, items)' /\ Partner(t)' = R
      BY <2>1, <3>1
    <3>3. QED
      BY <2>1, <3>1, <3>2
  <2>2. CASE u # t
    <3>1. Bound(u) /\ SameView(u) /\ Partner(u)' = Partner(u) /\ peer'[Partner(u)] = peer[Partner(u)]
      BY <1>2, <2>2
    <3>2. Mirrors(u, peer[Partner(u)])
      BY <3>1 DEF Mirrored, Agree
    <3>3. PICK items : items = peer[Partner(u)]
      OBVIOUS
    <3>4. Mirrors(u, items)'
      BY <3>1, <3>2, <3>3 DEF SameView
    <3>5. QED
      BY <3>1, <3>3, <3>4
  <2>3. QED
    BY <2>1, <2>2
<1>5. Apart'
  <2> SUFFICES ASSUME NEW u \in Threads, NEW v \in Threads, Bound(u)', Bound(v)', Partner(u)' = Partner(v)'
               PROVE  u = v
    BY DEF Apart
  <2>1. CASE u = t \/ v = t
    BY <1>2, <2>1
  <2>2. CASE u # t /\ v # t
    <3>1. Bound(u) /\ Bound(v) /\ Partner(u) = Partner(v)
      BY <1>2, <2>2
    <3>2. QED
      BY <3>1 DEF Mirrored, Apart
  <2>3. QED
    BY <2>1, <2>2
<1>6. Backed'
  <2> SUFFICES ASSUME NEW x \in Asks', x[1] # R PROVE BackedOK(x)'
    BY DEF Backed
  <2>1. x \in Asks /\ Entry(x)' = Entry(x)
    BY DEF Asks, Entry
  <2>2. AskKnown(x) /\ BackedOK(x)
    BY <1>1, <2>1 DEF Placed, Mirrored, Backed
  <2> SUFFICES ASSUME Entry(x).seq \in Calls
               PROVE  BackedOK(x)'
    BY <2>1 DEF BackedOK
  <2>3. PICK u \in Threads : u = Entry(x).thread
    BY <2>2, CallsApart DEF AskKnown
  <2>4. Gone(u)' \/ (Bound(u)' /\ Partner(u)' = x[1] /\ x[2] <= Depth(u)')
    <3>1. CASE Gone(u)
      BY <3>1
    <3>2. CASE Bound(u) /\ Partner(u) = x[1] /\ x[2] <= Depth(u)
      <4>1. u # t /\ SameView(u)
        BY <3>2
      <4>2. QED
        BY <3>2, <4>1 DEF SameView, Bound
    <3>3. QED
      BY <2>2, <2>3, <3>1, <3>2 DEF BackedOK
  <2>5. Entry(x)'.thread = u
    BY <2>1, <2>3
  <2>6. QED
    BY <2>4, <2>5 DEF BackedOK
<1>7. ASSUME NEW m \in Message, Meant(m), Live(m) => m.from # R
      PROVE  Meant(m)'
  <2>1. CASE m.to = Unbound
    <3>1. Opens(m) /\ m.from # R /\ m.seq \in Remotes
      BY <1>7, <2>1 DEF Meant, Live, Message
    <3>2. \A u \in Threads : Bound(u)' => Partner(u)' # m.seq
      BY <1>2, <3>1 DEF Opens
    <3>3. QED
      BY <2>1, <3>1, <3>2 DEF Meant, Opens
  <2>2. CASE m.to # Unbound
    <3> SUFFICES ASSUME ~Gone(m.to)'
                 PROVE  Continues(m)'
      BY <2>2 DEF Meant
    <3>1. PICK u \in Threads : u = m.to
      BY <2>2, ToIs
    <3>2. Continues(m) /\ m.from # R
      BY <1>7, <2>2, <3>1 DEF Meant, Live
    <3>3. u # t
      BY <3>1, <3>2 DEF Continues
    <3>4. SameView(u)
      BY <3>3
    <3>5. Bound(u)' /\ Waits(u)' /\ Partner(u)' = m.from /\ Depth(u)' = Depth(u) /\ Top(u)'.waits = Top(u).waits
      BY <3>1, <3>2, <3>4 DEF Continues, SameView, Bound
    <3>6. peer'[m.from] = peer[m.from]
      BY <3>2 DEF Message
    <3>7. QED
      BY <3>1, <3>2, <3>5, <3>6 DEF Continues
  <2>3. QED
    BY <2>1, <2>2
<1>8. ASSUME NEW m \in Message
      PROVE  Live(m)' <=> Live(m)
  BY ToIs DEF Live
<1>9. \A x \in Slots' : g[x] \in Slots /\ Mail(x)' = Mail(g[x]) /\ Mail(g[x]) \in Message
  BY <1>1, MailType DEF Carried
<1>10. Letters'
  <2>1. ASSUME NEW x \in Slots'
        PROVE  Meant(Mail(x))'
    <3>1. PICK m \in Message : m = Mail(g[x])
      BY <1>9
    <3>2. Meant(m) /\ (Live(m) => m.from # R)
      BY <1>9, <3>1 DEF Mirrored, Letters
    <3>3. Meant(m)' /\ Mail(x)' = m
      BY <1>7, <1>9, <3>1, <3>2
    <3>4. QED
      BY <3>3 DEF Meant, Opens, Continues
  <2>2. ASSUME NEW x \in Slots', NEW y \in Slots', Mail(x)'.from = Mail(y)'.from, Live(Mail(x))', Live(Mail(y))'
        PROVE  x = y
    <3>1. PICK m \in Message : m = Mail(g[x])
      BY <1>9
    <3>2. PICK k \in Message : k = Mail(g[y])
      BY <1>9
    <3>3. Live(m)' /\ Live(k)'
      BY <1>9, <2>2, <3>1, <3>2 DEF Live
    <3>4. Live(Mail(g[x])) /\ Live(Mail(g[y])) /\ Mail(g[x]).from = Mail(g[y]).from
      BY <1>8, <1>9, <2>2, <3>1, <3>2, <3>3
    <3>5. g[x] = g[y]
      BY <1>9, <3>4 DEF Mirrored, Letters
    <3>6. QED
      BY <3>5 DEF Carried
  <2>3. QED
    BY <2>1, <2>2 DEF Letters
<1>11. QED
  BY <1>3, <1>4, <1>5, <1>6, <1>10 DEF Mirrored

-----------------------------------------------------------------------------
(* Steps of the peer: its thread r moves and sends the message m.  No      *)
(* other message from r is on its way.                                     *)
LEMMA PostMirrors ==
  ASSUME Base, Mirrored, NEW r \in Remotes, \A q \in Remotes : q # r => peer'[q] = peer[q],
         \A u \in Threads : SameView(u) /\ (Gone(u)' <=> Gone(u)), UNCHANGED <<occupation, remote>>,
         NEW items, peer'[r] = items, \A u \in Threads : Bound(u) /\ Partner(u) = r => Mirrors(u, items),
         \A x \in Slots : Live(Mail(x)) => Mail(x).from # r,
         NEW m \in Message, m.from = r, Meant(m)',
         NEW k, Slots' = Slots \cup {k}, Mail(k)' = m, \A x \in Slots : Mail(x)' = Mail(x),
         \A x \in Asks' : x[1] = r => BackedOK(x)',
         ReadyTop', Fresh', Delivered'
  PROVE  Mirrored'
<1>1. TypeOK /\ Mails /\ Placed /\ peer \in Peers
  BY Typed DEF Base
<1>2. ASSUME NEW u \in Threads, Bound(u)'
      PROVE  Bound(u) /\ Partner(u)' = Partner(u) /\ Partner(u) \in Remotes
  BY <1>2, BoundIs DEF Bound, SameView
<1>3. Counted'
  <2> SUFFICES ASSUME NEW u \in Threads, ~Gone(u)'
               PROVE  /\ occupation'[u] = Depth(u)'
                      /\ Depth(u)' = 0 => remote'[u] = Unbound
                      /\ Depth(u)' >= 1 => \/ remote'[u] = Partner(u)'
                                           \/ Depth(u)' = 1 /\ Off(u)' = 0 /\ remote'[u] = Unbound
    BY DEF Counted, CountedOK
  <2>1. SameView(u) /\ CountedOK(u) /\ ~Gone(u)
    BY DEF Mirrored, Counted
  <2>2. QED
    BY <2>1 DEF CountedOK, SameView, Bound
<1>4. Agree'
  <2> SUFFICES ASSUME NEW u \in Threads, Bound(u)'
               PROVE  Mirrors(u, peer[Partner(u)])'
    BY DEF Agree
  <2>1. Bound(u) /\ SameView(u) /\ Partner(u)' = Partner(u) /\ Partner(u) \in Remotes
    BY <1>2
  <2>2. PICK now : now = peer'[Partner(u)]
    OBVIOUS
  <2>3. Mirrors(u, now)
    <3>1. CASE Partner(u) = r
      BY <2>1, <2>2, <3>1
    <3>2. CASE Partner(u) # r
      BY <2>1, <2>2, <3>2 DEF Mirrored, Agree
    <3>3. QED
      BY <3>1, <3>2
  <2>4. Mirrors(u, now)'
    BY <2>1, <2>3 DEF SameView
  <2>5. QED
    BY <2>1, <2>2, <2>4
<1>5. Apart'
  BY <1>2 DEF Mirrored, Apart
<1>6. Backed'
  <2> SUFFICES ASSUME NEW x \in Asks', x[1] # r PROVE BackedOK(x)'
    BY DEF Backed
  <2>1. x \in Asks /\ Entry(x)' = Entry(x)
    BY DEF Asks, Entry
  <2>2. AskKnown(x) /\ BackedOK(x)
    BY <1>1, <2>1 DEF Placed, Mirrored, Backed
  <2> SUFFICES ASSUME Entry(x).seq \in Calls
               PROVE  BackedOK(x)'
    BY <2>1 DEF BackedOK
  <2>3. PICK u \in Threads : u = Entry(x).thread
    BY <2>2, CallsApart DEF AskKnown
  <2>4. Gone(u)' \/ (Bound(u)' /\ Partner(u)' = x[1] /\ x[2] <= Depth(u)')
    BY <2>2, <2>3 DEF BackedOK, SameView, Bound
  <2>5. Entry(x)'.thread = u
    BY <2>1, <2>3
  <2>6. QED
    BY <2>4, <2>5 DEF BackedOK
<1>7. ASSUME NEW l \in Message, Meant(l), Live(l) => l.from # r
      PROVE  Meant(l)'
  <2>1. CASE l.to = Unbound
    <3>1. Opens(l) /\ l.from # r /\ l.seq \in Remotes
      BY <1>7, <2>1 DEF Meant, Live, Message
    <3>2. \A u \in Threads : Bound(u)' => Partner(u)' # l.seq
      BY <1>2, <3>1 DEF Opens
    <3>3. QED
      BY <2>1, <3>1, <3>2 DEF Meant, Opens
  <2>2. CASE l.to # Unbound
    <3> SUFFICES ASSUME ~Gone(l.to)'
                 PROVE  Continues(l)'
      BY <2>2 DEF Meant
    <3>1. PICK u \in Threads : u = l.to
      BY <2>2, ToIs
    <3>2. Continues(l) /\ l.from # r /\ SameView(u)
      BY <1>7, <2>2, <3>1 DEF Meant, Live
    <3>3. Bound(u)' /\ Waits(u)' /\ Partner(u)' = l.from /\ Depth(u)' = Depth(u) /\ Top(u)'.waits = Top(u).waits
      BY <3>1, <3>2 DEF Continues, SameView, Bound
    <3>4. peer'[l.from] = peer[l.from]
      BY <3>2 DEF Message
    <3>5. QED
      BY <3>1, <3>2, <3>3, <3>4 DEF Continues
  <2>3. QED
    BY <2>1, <2>2
<1>8. ASSUME NEW l \in Message
      PROVE  Live(l)' <=> Live(l)
  BY ToIs DEF Live
<1>9. \A x \in Slots : Mail(x) \in Message
  BY <1>1, MailType
<1>10. Letters'
  <2>1. ASSUME NEW x \in Slots'
        PROVE  Meant(Mail(x))'
    <3>1. PICK l \in Message : l = Mail(x)' /\ Meant(l)'
      <4>1. CASE x = k
        BY <4>1
      <4>2. CASE x \in Slots
        <5>1. PICK l \in Message : l = Mail(x)
          BY <1>9, <4>2
        <5>2. Meant(l) /\ (Live(l) => l.from # r)
          BY <4>2, <5>1 DEF Mirrored, Letters
        <5>3. QED
          BY <1>7, <4>2, <5>1, <5>2
      <4>3. QED
        BY <4>1, <4>2
    <3>2. QED
      BY <3>1 DEF Meant, Opens, Continues
  <2>2. ASSUME NEW x \in Slots', NEW y \in Slots', Mail(x)'.from = Mail(y)'.from, Live(Mail(x))', Live(Mail(y))'
        PROVE  x = y
    <3>1. ASSUME NEW z \in Slots, Live(Mail(z))'
          PROVE  Live(Mail(z)) /\ Mail(z).from # r
      <4>1. PICK l \in Message : l = Mail(z) /\ Mail(z)' = l
        BY <1>9
      <4>2. Live(l)'
        BY <3>1, <4>1 DEF Live
      <4>3. Live(Mail(z))
        BY <1>8, <4>1, <4>2
      <4>4. QED
        BY <4>3
    <3>2. CASE x \in Slots /\ y \in Slots
      BY <2>2, <3>1, <3>2 DEF Mirrored, Letters
    <3>3. CASE x = k \/ y = k
      BY <2>2, <3>1, <3>3
    <3>4. QED
      BY <3>2, <3>3
  <2>3. QED
    BY <2>1, <2>2 DEF Letters
<1>11. QED
  BY <1>3, <1>4, <1>5, <1>6, <1>10 DEF Mirrored

(* A thread of the peer that is at a request of ours has nothing on its    *)
(* way, and our thread waits for just this.                                *)
LEMMA Waited ==
  ASSUME Base, Mirrored, NEW r \in Remotes, peer[r] # <<>>, Last(peer[r]).seq \in Calls,
         NEW u \in Threads, u = Last(peer[r]).thread
  PROVE  /\ \A x \in Slots : Live(Mail(x)) => Mail(x).from # r
         /\ \A v \in Threads : Bound(v) /\ Partner(v) = r => v = u
         /\ Gone(u) \/ (/\ Bound(u) /\ Waits(u) /\ Partner(u) = r /\ Depth(u) = Len(peer[r])
                        /\ Top(u).waits = Last(peer[r]).seq)
<1>1. TypeOK /\ stack \in Stacks /\ Mails /\ Framed /\ peer \in Peers
  BY Typed DEF Base
<1>2. /\ peer[r] \in Seq(Item) /\ Len(peer[r]) \in Nat /\ Len(peer[r]) >= 1
      /\ Last(peer[r]) = peer[r][Len(peer[r])]
  BY <1>1 DEF Peers, Last
<1>3. PICK L \in Nat : L = Len(peer[r]) /\ L >= 1 /\ L \in 1..L
  BY <1>2
<1>4. peer[r][L].thread = u /\ peer[r][L].seq \in Calls /\ u # None
  BY <1>2, <1>3, NoneIs
<1>5. BackedOK(<<r, L>>) /\ Entry(<<r, L>>) = peer[r][L]
  BY <1>1, <1>3, AskOf DEF Mirrored, Backed
<1>6. Gone(u) \/ (Bound(u) /\ Partner(u) = r /\ L <= Depth(u))
  BY <1>4, <1>5 DEF BackedOK
<1>7. ASSUME NEW v \in Threads, Bound(v), Partner(v) = r
      PROVE  v = u
  <2>1. Mirrors(v, peer[r])
    BY <1>7 DEF Mirrored, Agree
  <2>2. u \in {v, None}
    BY <1>3, <1>4, <2>1 DEF Mirrors
  <2>3. QED
    BY <1>4, <2>2
<1>8. ASSUME Bound(u), Partner(u) = r, L <= Depth(u)
      PROVE  Waits(u) /\ Depth(u) = L /\ Top(u).waits = peer[r][L].seq
  <2>1. stack[u] # <<>> /\ Mirrors(u, peer[r])
    BY <1>8, BoundIs DEF Mirrored, Agree
  <2>2. PICK n \in Nat : n = Len(stack[u])
    BY <2>1, DepthIs
  <2>3. /\ n >= 1 /\ Off(u) \in {0, 1} /\ Depth(u) \in Nat
        /\ At(u, {"handle"}) => Depth(u) = 2 * n - Off(u) /\ ~Waits(u)
        /\ Waits(u) => Depth(u) = 2 * n - Off(u) - 1
        /\ ~At(u, {"handle"}) /\ ~Waits(u) => Depth(u) = 2 * n - Off(u) - 2
    BY <2>1, <2>2, DepthIs
  <2>4. Top(u) = stack[u][n]
    BY <1>1, <2>1, <2>2, TopIs
  <2>5. \A i \in 1..n : Requested(u, peer[r], i) /\ Handles(u, peer[r], i)
    BY <2>1, <2>2 DEF Mirrors
  <2>6. L = Depth(u) \/ (L = Depth(u) - 1 /\ Waits(u))
    BY <1>3, <1>8, <2>1, <2>3 DEF Mirrors
  <2>7. ASSUME NEW i \in 1..n, stack[u][i].pc = "handle", L = Place(u, i) + 1
        PROVE  FALSE
    <3>1. stack[u][i].data # None
      BY <1>1, <2>2, <2>7 DEF Framed, FrameOK
    <3>2. peer[r][Place(u, i) + 1] = [seq |-> stack[u][i].data.seq, thread |-> None]
      BY <2>5, <2>7, <3>1 DEF Handles
    <3>3. peer[r][L].thread = None
      BY <2>7, <3>2
    <3>4. QED
      BY <1>4, <3>3
  <2>8. ASSUME L = 2 * n - Off(u) - 2
        PROVE  FALSE
    <3>1. n >= 2
      BY <1>3, <2>3, <2>8
    <3>2. n - 1 \in 1..n /\ n - 1 \in 1..(n - 1) /\ n - 1 \in Nat
      BY <3>1
    <3>3. stack[u][n - 1].pc = "handle"
      BY <1>1, <2>2, <3>2 DEF Framed
    <3>4. L = Place(u, n - 1) + 1
      BY <2>3, <2>8, <3>1 DEF Place
    <3>5. QED
      BY <2>7, <3>2, <3>3, <3>4
  <2>9. Waits(u)
    <3> SUFFICES ASSUME ~Waits(u) PROVE FALSE
      OBVIOUS
    <3>1. L = Depth(u)
      BY <2>6
    <3>2. CASE At(u, {"handle"})
      <4>1. stack[u][n].pc = "handle" /\ n \in 1..n
        BY <2>3, <2>4, <3>2 DEF At
      <4>2. L = Place(u, n) + 1
        BY <2>3, <3>1, <3>2 DEF Place
      <4>3. QED
        BY <2>7, <4>1, <4>2
    <3>3. CASE ~At(u, {"handle"})
      BY <2>3, <2>8, <3>1, <3>3
    <3>4. QED
      BY <3>2, <3>3
  <2>10. L = Depth(u) /\ L = Place(u, n)
    <3>1. Depth(u) = 2 * n - Off(u) - 1
      BY <2>3, <2>9
    <3>2. L # Depth(u) - 1
      BY <2>3, <2>8, <3>1
    <3>3. L = Depth(u)
      BY <2>6, <3>2
    <3>4. QED
      BY <2>3, <3>1, <3>3 DEF Place
  <2>11. stack[u][n].waits # None
    <3>1. CASE n = 1
      <4>1. Off(u) # 1
        BY <1>3, <2>3, <2>10, <3>1 DEF Place
      <4>2. QED
        BY <3>1, <4>1 DEF Off
    <3>2. CASE n # 1
      <4>1. n \in 2..n
        BY <2>3, <3>2
      <4>2. QED
        BY <1>1, <2>2, <4>1 DEF Framed
    <3>3. QED
      BY <3>1, <3>2
  <2>12. peer[r][L] = [seq |-> stack[u][n].waits, thread |-> u]
    <3>1. n \in 1..n /\ Requested(u, peer[r], n)
      BY <2>3, <2>5
    <3>2. Place(u, n) <= Depth(u) /\ Place(u, n) <= Len(peer[r])
      BY <1>3, <2>10
    <3>3. QED
      BY <2>10, <2>11, <3>1, <3>2 DEF Requested
  <2>13. QED
    BY <2>4, <2>9, <2>10, <2>12
<1>9. ASSUME NEW x \in Slots, Live(Mail(x)), Mail(x).from = r
      PROVE  FALSE
  <2>1. PICK m \in Message : m = Mail(x)
    BY <1>1, MailType
  <2>2. Meant(m) /\ Live(m) /\ m.from = r
    BY <1>9, <2>1 DEF Mirrored, Letters
  <2>3. CASE m.to = Unbound
    <3>1. peer[r] = <<[seq |-> m.seq, thread |-> None]>>
      BY <2>2, <2>3 DEF Meant, Opens
    <3>2. L = 1 /\ peer[r][L] = [seq |-> m.seq, thread |-> None]
      BY <1>3, <3>1
    <3>3. QED
      BY <1>4, <3>2
  <2>4. CASE m.to # Unbound
    <3>1. PICK v \in Threads : v = m.to
      BY <2>4, ToIs
    <3>2. ~Gone(v) /\ Continues(m)
      BY <2>2, <2>4, <3>1 DEF Meant, Live
    <3>3. v = u /\ Bound(u)
      BY <1>7, <2>2, <3>1, <3>2 DEF Continues
    <3>4. Depth(u) = L
      BY <1>6, <1>8, <3>2, <3>3
    <3>5. L = Depth(u) - 1 \/ L = Depth(u) + 1
      BY <1>3, <2>1, <2>2, <3>1, <3>2, <3>3 DEF Continues, Message
    <3>6. QED
      BY <1>3, <3>4, <3>5
  <2>5. QED
    BY <2>3, <2>4
<1>10. QED
  BY <1>2, <1>3, <1>6, <1>7, <1>8, <1>9

(* What the threads show when only the peer moves.                         *)
LEMMA OursStay ==
  ASSUME Base, Mirrored, UNCHANGED <<stack, occupation, remote, deque, ready, closed, nextCall>>,
         NEW k, k[1] = None, Slots' = Slots \cup {k}, \A x \in Slots : Mail(x)' = Mail(x)
  PROVE  /\ \A u \in Threads : /\ SameView(u) /\ (Gone(u)' <=> Gone(u)) /\ Top(u)' = Top(u)
                               /\ (Waits(u)' <=> Waits(u))
         /\ ReadyTop' /\ Delivered' /\ Sends' = Sends
<1>1. ASSUME NEW u \in Threads
      PROVE  /\ SameView(u) /\ (Gone(u)' <=> Gone(u)) /\ Top(u)' = Top(u) /\ (Waits(u)' <=> Waits(u))
             /\ Parked(u)' <=> Parked(u)
  <2>1. SameView(u) /\ Top(u)' = Top(u) /\ (Waits(u)' <=> Waits(u))
    BY StackStays
  <2>2. \A pcs : At(u, pcs)' <=> At(u, pcs)
    BY <2>1 DEF At
  <2>3. QED
    BY <2>1, <2>2 DEF Gone, Parked
<1>2. ReadyTop'
  BY DEF Mirrored, ReadyTop
<1>3. Delivered'
  <2> SUFFICES ASSUME NEW x \in Slots' PROVE DeliveredOK(x)'
    BY DEF Delivered
  <2>1. CASE x = k
    BY <2>1 DEF DeliveredOK
  <2>2. CASE x \in Slots
    <3>1. DeliveredOK(x) /\ Mail(x)' = Mail(x)
      BY <2>2 DEF Mirrored, Delivered
    <3>2. x[1] # None => x[1] \in Threads
      BY <2>2 DEF Slots, Boxes
    <3>3. QED
      BY <1>1, <3>1, <3>2 DEF DeliveredOK
  <2>3. QED
    BY <2>1, <2>2
<1>4. Sends' = Sends
  BY DEF Sends
<1>5. QED
  BY <1>1, <1>2, <1>3, <1>4

LEMMA BackedStays ==
  ASSUME Base, Mirrored, NEW x \in Asks, Entry(x)' = Entry(x),
         \A u \in Threads : SameView(u) /\ (Gone(u)' <=> Gone(u))
  PROVE  BackedOK(x)'
<1>1. AskKnown(x) /\ BackedOK(x)
  BY DEF Base, Placed, Mirrored, Backed
<1> SUFFICES ASSUME Entry(x).seq \in Calls
             PROVE  BackedOK(x)'
  BY DEF BackedOK
<1>2. PICK u \in Threads : u = Entry(x).thread
  BY <1>1, CallsApart DEF AskKnown
<1>3. Gone(u)' \/ (Bound(u)' /\ Partner(u)' = x[1] /\ x[2] <= Depth(u)')
  BY <1>1, <1>2 DEF BackedOK, SameView, Bound
<1>4. Entry(x)'.thread = u
  BY <1>2
<1>5. QED
  BY <1>3, <1>4 DEF BackedOK

LEMMA AnswerMirrors ==
  ASSUME Base, Mirrored, NEW r \in Remotes, Answer(r)
  PROVE  Mirrored'
<1>1. TypeOK /\ stack \in Stacks /\ Mails /\ Framed /\ Placed /\ peer \in Peers
  BY Typed DEF Base
<1>2. /\ Asks' = Asks \ {<<r, Len(peer[r])>>}
      /\ \A x \in Asks' : Entry(x)' = Entry(x)
      /\ Last(peer[r]).seq \in Calls /\ Last(peer[r]).thread \in Threads
      /\ UNCHANGED <<stack, occupation, remote, deque, ready, closed, nextCall, peerNext>>
  BY <1>1, AnswerIs
<1>3. PICK k : /\ k \notin Slots /\ Slots' = Slots \cup {k} /\ k[1] = None
               /\ Mail(k)' = [kind |-> "reply", seq |-> Last(peer[r]).seq, from |-> r,
                              to |-> Last(peer[r]).thread]
               /\ \A x \in Slots : Mail(x)' = Mail(x)
  BY <1>1, AnswerIs
<1>4. PICK u \in Threads : u = Last(peer[r]).thread
  BY <1>2
<1>5. PICK s \in Calls : s = Last(peer[r]).seq
  BY <1>2
<1>6. PICK m \in Message : /\ m = Mail(k)' /\ m.kind = "reply" /\ m.seq = s /\ m.from = r /\ m.to = u
                           /\ m.to # Unbound
  <2>1. s \in Remotes /\ u # Unbound
    BY BoundAssumption DEF Remotes, Unbound
  <2>2. [kind |-> "reply", seq |-> s, from |-> r, to |-> u] \in Message
    BY <2>1 DEF Message
  <2>3. QED
    BY <1>3, <1>4, <1>5, <2>1, <2>2
<1>7. peer[r] # <<>> /\ peer' = [peer EXCEPT ![r] = Front(peer[r])]
  BY DEF Answer
<1>8. PICK L \in Nat : L = Len(peer[r]) /\ L >= 1 /\ peer[r] \in Seq(Item) /\ Last(peer[r]) = peer[r][L]
  BY <1>1, <1>7 DEF Peers, Last
<1>9. PICK items \in Seq(Item) : /\ items = peer'[r] /\ Len(items) = L - 1
                                 /\ \A i \in 1..(L - 1) : items[i] = peer[r][i]
  <2>1. peer'[r] = SubSeq(peer[r], 1, L - 1)
    BY <1>1, <1>7, <1>8 DEF Front, Peers
  <2>2. /\ SubSeq(peer[r], 1, L - 1) \in Seq(Item) /\ Len(SubSeq(peer[r], 1, L - 1)) = L - 1
        /\ \A i \in 1..(L - 1) : SubSeq(peer[r], 1, L - 1)[i] = peer[r][i]
    BY <1>8
  <2>3. QED
    BY <2>1, <2>2
<1>10. \A q \in Remotes : q # r => peer'[q] = peer[q]
  BY <1>1, <1>7 DEF Peers
<1>11. /\ \A x \in Slots : Live(Mail(x)) => Mail(x).from # r
       /\ \A v \in Threads : Bound(v) /\ Partner(v) = r => v = u
       /\ Gone(u) \/ (/\ Bound(u) /\ Waits(u) /\ Partner(u) = r /\ Depth(u) = L
                      /\ Top(u).waits = s)
  BY <1>4, <1>5, <1>7, <1>8, Waited
<1>12. /\ \A v \in Threads : /\ SameView(v) /\ (Gone(v)' <=> Gone(v)) /\ Top(v)' = Top(v)
                             /\ (Waits(v)' <=> Waits(v))
       /\ ReadyTop' /\ Delivered' /\ Sends' = Sends
  BY <1>2, <1>3, OursStay
<1>13. \A v \in Threads : Bound(v) /\ Partner(v) = r => Mirrors(v, items)
  <2> SUFFICES ASSUME Bound(u), Partner(u) = r
               PROVE  Mirrors(u, items)
    BY <1>11
  <2>1. Mirrors(u, peer[r]) /\ Waits(u) /\ Depth(u) = L
    BY <1>11, GoneIs DEF Mirrored, Agree
  <2>2. ASSUME NEW i \in 1..Len(stack[u])
        PROVE  Requested(u, items, i) /\ Handles(u, items, i)
    <3>1. Requested(u, peer[r], i) /\ Handles(u, peer[r], i)
      BY <2>1 DEF Mirrors
    <3>2. Off(u) \in {0, 1} /\ Place(u, i) \in Int /\ Place(u, i) >= 0 /\ (Place(u, i) = 0 => Off(u) = 1 /\ i = 1)
      <4>1. stack[u] # <<>>
        BY BoundIs
      <4>2. Off(u) \in {0, 1} /\ i \in Nat /\ i >= 1
        BY <4>1, DepthIs
      <4>3. QED
        BY <4>2 DEF Place
    <3>3. Requested(u, items, i)
      <4> SUFFICES ASSUME stack[u][i].waits # None, Place(u, i) <= Depth(u), Place(u, i) <= L - 1
                   PROVE  items[Place(u, i)] = [seq |-> stack[u][i].waits, thread |-> u]
        BY <1>9 DEF Requested
      <4>1. Place(u, i) # 0
        BY <3>2 DEF Off
      <4>2. Place(u, i) \in 1..(L - 1) /\ Place(u, i) <= L
        BY <1>8, <3>2, <4>1
      <4>3. peer[r][Place(u, i)] = [seq |-> stack[u][i].waits, thread |-> u]
        BY <1>8, <3>1, <4>2 DEF Requested
      <4>4. QED
        BY <1>9, <4>2, <4>3
    <3>4. Handles(u, items, i)
      <4> SUFFICES ASSUME stack[u][i].data # None
                   PROVE  /\ Place(u, i) + 1 <= L - 1
                          /\ items[Place(u, i) + 1] = [seq |-> stack[u][i].data.seq, thread |-> None]
                          /\ stack[u][i].data.from = Partner(u)
        BY <1>9 DEF Handles
      <4>1. /\ Place(u, i) + 1 <= L
            /\ peer[r][Place(u, i) + 1] = [seq |-> stack[u][i].data.seq, thread |-> None]
            /\ stack[u][i].data.from = Partner(u)
        BY <1>8, <3>1 DEF Handles
      <4>2. Place(u, i) + 1 # L
        BY <1>4, <1>8, <4>1, NoneIs
      <4>3. Place(u, i) + 1 \in 1..(L - 1)
        BY <1>8, <3>2, <4>1, <4>2
      <4>4. QED
        BY <1>9, <4>1, <4>3
    <3>5. QED
      BY <3>3, <3>4
  <2>3. \A i \in 1..Len(items) : items[i].thread \in {u, None}
    <3>1. \A i \in 1..(L - 1) : i \in 1..L
      BY <1>8
    <3>2. QED
      BY <1>8, <1>9, <2>1, <3>1 DEF Mirrors
  <2>4. Len(items) \in {Depth(u) - 1, Depth(u), Depth(u) + 1}
    BY <1>9, <2>1
  <2>5. QED
    BY <2>1, <2>2, <2>3, <2>4 DEF Mirrors
<1>14. Meant(m)'
  <2>1. CASE Gone(u)
    BY <1>6, <1>12, <2>1 DEF Meant
  <2>2. CASE Bound(u) /\ Waits(u) /\ Partner(u) = r /\ Depth(u) = L /\ Top(u).waits = s
    <3>1. Bound(u)' /\ Waits(u)' /\ Partner(u)' = r /\ Depth(u)' = L /\ Top(u)'.waits = s
      BY <1>12, <2>2 DEF SameView, Bound
    <3>2. Len(peer'[r]) = L - 1
      BY <1>9
    <3>3. Continues(m)'
      BY <1>6, <3>1, <3>2 DEF Continues
    <3>4. QED
      BY <1>6, <3>3 DEF Meant
  <2>3. QED
    BY <1>11, <2>1, <2>2
<1>15. \A x \in Asks' : BackedOK(x)'
  BY <1>2, <1>12, BackedStays
<1>16. Fresh'
  <2>1. \A q \in Remotes : peer'[q] # <<>> => peer[q] # <<>>
    BY <1>7, <1>10
  <2>2. Calls \subseteq Remotes /\ PeerCalls \subseteq Remotes
    BY DEF Remotes
  <2>3. Fresh
    BY DEF Mirrored
  <2>4. \A x \in Slots' : Mail(x)'.from \in PeerCalls => Mail(x)'.from < peerNext
    <3> SUFFICES ASSUME NEW x \in Slots', Mail(x)'.from \in PeerCalls
                 PROVE  Mail(x)'.from < peerNext
      OBVIOUS
    <3>1. CASE x = k
      BY <1>6, <1>7, <2>3, <3>1 DEF Fresh
    <3>2. CASE x \in Slots
      BY <1>3, <2>3, <3>2 DEF Fresh
    <3>3. QED
      BY <1>3, <3>1, <3>2
  <2>5. /\ \A q \in Calls : peer'[q] # <<>> => q < nextCall' /\ q \notin Sends'
        /\ \A q \in PeerCalls : peer'[q] # <<>> => q < peerNext'
    BY <1>2, <1>12, <2>1, <2>2, <2>3 DEF Fresh
  <2>6. \A c \in ready' : c < nextCall'
    BY <1>2, <2>3 DEF Fresh
  <2>7. QED
    BY <1>2, <2>3, <2>4, <2>5, <2>6 DEF Fresh
<1>17. QED
  BY <1>2, <1>3, <1>6, <1>9, <1>10, <1>11, <1>12, <1>13, <1>14, <1>15, <1>16, PostMirrors

(* A thread of the peer that starts is nobody's yet.                       *)
LEMMA Newcomer ==
  ASSUME Base, Mirrored, peerNext \in PeerCalls
  PROVE  /\ peer[peerNext] = <<>>
         /\ \A u \in Threads : Bound(u) => Partner(u) # peerNext
         /\ \A x \in Slots : Mail(x).from # peerNext
<1>1. peer \in Peers /\ Fresh /\ peerNext \in Nat /\ peerNext \notin Calls
  BY Typed, CallsApart, BoundAssumption DEF Base, Mirrored, PeerCalls
<1>2. peer[peerNext] = <<>>
  BY <1>1 DEF Fresh
<1>3. ASSUME NEW u \in Threads, Bound(u)
      PROVE  Partner(u) # peerNext
  <2>1. CASE Off(u) = 0
    BY <1>1, <1>3, <2>1, BoundIs
  <2>2. CASE Off(u) = 1
    <3>1. Partner(u) = stack[u][1].data.seq /\ stack[u][1].data # None /\ stack[u] # <<>>
      BY <1>3, <2>2, BoundIs, NoneIs
    <3>2. Len(stack[u]) \in Nat /\ Len(stack[u]) >= 1
      BY <3>1, DepthIs
    <3>3. 1 \in 1..Len(stack[u])
      BY <3>2
    <3>4. Partner(u) < peerNext
      BY <1>1, <3>1, <3>3 DEF Fresh
    <3>5. QED
      BY <1>1, <3>4
  <2>3. QED
    BY <2>1, <2>2 DEF Off
<1>4. \A x \in Slots : Mail(x).from # peerNext
  BY <1>1 DEF Fresh
<1>5. QED
  BY <1>2, <1>3, <1>4

LEMMA PeerRequestMirrors ==
  ASSUME Base, Mirrored, NEW r \in Remotes, NEW to \in Threads \cup {Unbound}, PeerRequest(r, to),
         \/ r = peerNext /\ to = Unbound
         \/ peer[r] # <<>> /\ Last(peer[r]).seq \in Calls /\ to = Last(peer[r]).thread /\ to \in Threads
  PROVE  Mirrored'
<1>1. TypeOK /\ stack \in Stacks /\ Mails /\ Framed /\ Placed /\ peer \in Peers
  BY Typed DEF Base
<1>2. /\ peerNext \in PeerCalls /\ peerNext' = peerNext + 1
      /\ UNCHANGED <<stack, occupation, remote, deque, ready, closed, nextCall>>
  BY <1>1, PeerRequestIs
<1>3. PICK n : /\ n = <<r, Len(peer[r]) + 1>> /\ n \notin Asks /\ Asks' = Asks \cup {n}
               /\ Entry(n)' = [seq |-> peerNext, thread |-> None]
               /\ \A x \in Asks : Entry(x)' = Entry(x)
  BY <1>1, PeerRequestIs
<1>4. PICK k : /\ k \notin Slots /\ Slots' = Slots \cup {k} /\ k[1] = None
               /\ Mail(k)' = [kind |-> "request", seq |-> peerNext, from |-> r, to |-> to]
               /\ \A x \in Slots : Mail(x)' = Mail(x)
  BY <1>1, PeerRequestIs
<1>5. PICK q \in PeerCalls : q = peerNext /\ q \in Remotes /\ q \in Nat
  BY <1>2, BoundAssumption DEF Remotes, PeerCalls
<1>6. PICK m \in Message : m = Mail(k)' /\ m.kind = "request" /\ m.seq = q /\ m.from = r /\ m.to = to
  <2>1. [kind |-> "request", seq |-> q, from |-> r, to |-> to] \in Message
    BY <1>5 DEF Message
  <2>2. QED
    BY <1>4, <1>5, <2>1
<1>7. PICK L \in Nat : L = Len(peer[r]) /\ peer[r] \in Seq(Item)
  BY <1>1 DEF Peers
<1>8. PICK e \in Item : e = [seq |-> q, thread |-> None]
  BY <1>5 DEF Item
<1>9. PICK items \in Seq(Item) : /\ items = peer'[r] /\ Len(items) = L + 1 /\ items[L + 1] = e
                                 /\ \A i \in 1..L : items[i] = peer[r][i]
  <2>1. peer'[r] = Append(peer[r], e)
    BY <1>1, <1>5, <1>8 DEF PeerRequest, Peers
  <2>2. Len(peer'[r]) = L + 1 /\ peer'[r][L + 1] = e /\ peer'[r] \in Seq(Item)
    BY <1>7, <2>1, AppendProperties
  <2>3. \A i \in 1..L : peer'[r][i] = peer[r][i]
    BY <1>7, <2>1, AppendProperties
  <2>4. QED
    BY <2>2, <2>3
<1>10. \A p \in Remotes : p # r => peer'[p] = peer[p]
  BY <1>1 DEF PeerRequest, Peers
<1>11. /\ \A v \in Threads : /\ SameView(v) /\ (Gone(v)' <=> Gone(v)) /\ Top(v)' = Top(v)
                             /\ (Waits(v)' <=> Waits(v))
       /\ ReadyTop' /\ Delivered' /\ Sends' = Sends
  BY <1>2, <1>4, OursStay
<1>12. /\ \A x \in Slots : Live(Mail(x)) => Mail(x).from # r
       /\ \A v \in Threads : Bound(v) /\ Partner(v) = r => Mirrors(v, items)
       /\ Meant(m)'
  <2>1. CASE r = peerNext /\ to = Unbound
    <3>1. /\ peer[r] = <<>> /\ \A u \in Threads : Bound(u) => Partner(u) # r
          /\ \A x \in Slots : Mail(x).from # r
      BY <1>2, <2>1, Newcomer
    <3>2. \A u \in Threads : Bound(u)' => Partner(u)' # q
      BY <1>5, <1>11, <2>1, <3>1 DEF SameView, Bound
    <3>3. peer'[q] = <<[seq |-> q, thread |-> None]>>
      <4>1. L = 0
        BY <1>7, <3>1
      <4>2. items = <<e>>
        BY <1>9, <4>1
      <4>3. QED
        BY <1>5, <1>8, <1>9, <2>1, <4>2
    <3>4. Opens(m)'
      BY <1>5, <1>6, <2>1, <3>2, <3>3 DEF Opens
    <3>5. QED
      BY <1>6, <2>1, <3>1, <3>4 DEF Meant
  <2>2. CASE peer[r] # <<>> /\ Last(peer[r]).seq \in Calls /\ to = Last(peer[r]).thread /\ to \in Threads
    <3>1. PICK u \in Threads : u = to /\ u # Unbound
      BY <2>2, BoundAssumption DEF Unbound
    <3>2. /\ \A x \in Slots : Live(Mail(x)) => Mail(x).from # r
          /\ \A v \in Threads : Bound(v) /\ Partner(v) = r => v = u
          /\ Gone(u) \/ (Bound(u) /\ Waits(u) /\ Partner(u) = r /\ Depth(u) = L)
      BY <1>7, <2>2, <3>1, Waited
    <3>3. \A v \in Threads : Bound(v) /\ Partner(v) = r => Mirrors(v, items)
      <4> SUFFICES ASSUME Bound(u), Partner(u) = r
                   PROVE  Mirrors(u, items)
        BY <3>2
      <4>1. Mirrors(u, peer[r]) /\ Waits(u) /\ Depth(u) = L
        BY <3>2, GoneIs DEF Mirrored, Agree
      <4>2. ASSUME NEW i \in 1..Len(stack[u])
            PROVE  Requested(u, items, i) /\ Handles(u, items, i)
        <5>1. Requested(u, peer[r], i) /\ Handles(u, peer[r], i)
          BY <4>1 DEF Mirrors
        <5>2. Off(u) \in {0, 1} /\ Place(u, i) \in Int /\ Place(u, i) >= 0 /\ (Place(u, i) = 0 => Off(u) = 1 /\ i = 1)
          <6>1. stack[u] # <<>>
            BY BoundIs
          <6>2. Off(u) \in {0, 1} /\ i \in Nat /\ i >= 1
            BY <6>1, DepthIs
          <6>3. QED
            BY <6>2 DEF Place
        <5>3. Requested(u, items, i)
          <6> SUFFICES ASSUME stack[u][i].waits # None, Place(u, i) <= L
                       PROVE  items[Place(u, i)] = [seq |-> stack[u][i].waits, thread |-> u]
            BY <4>1 DEF Requested
          <6>1. Place(u, i) # 0
            BY <5>2 DEF Off
          <6>2. Place(u, i) \in 1..L
            BY <1>7, <5>2, <6>1
          <6>3. peer[r][Place(u, i)] = [seq |-> stack[u][i].waits, thread |-> u]
            BY <1>7, <4>1, <5>1 DEF Requested
          <6>4. QED
            BY <1>9, <6>2, <6>3
        <5>4. Handles(u, items, i)
          <6> SUFFICES ASSUME stack[u][i].data # None
                       PROVE  /\ Place(u, i) + 1 <= L + 1
                              /\ items[Place(u, i) + 1] = [seq |-> stack[u][i].data.seq, thread |-> None]
                              /\ stack[u][i].data.from = Partner(u)
            BY <1>9 DEF Handles
          <6>1. /\ Place(u, i) + 1 <= L
                /\ peer[r][Place(u, i) + 1] = [seq |-> stack[u][i].data.seq, thread |-> None]
                /\ stack[u][i].data.from = Partner(u)
            BY <1>7, <5>1 DEF Handles
          <6>2. Place(u, i) + 1 \in 1..L /\ Place(u, i) + 1 <= L + 1
            BY <1>7, <5>2, <6>1
          <6>3. QED
            BY <1>9, <6>1, <6>2
        <5>5. QED
          BY <5>3, <5>4
      <4>3. \A i \in 1..Len(items) : items[i].thread \in {u, None}
        <5>1. \A i \in 1..(L + 1) : i \in 1..L \/ i = L + 1
          OBVIOUS
        <5>2. e.thread = None
          BY <1>8
        <5>3. QED
          BY <1>7, <1>9, <4>1, <5>1, <5>2 DEF Mirrors
      <4>4. Len(items) \in {Depth(u) - 1, Depth(u), Depth(u) + 1}
        BY <1>9, <4>1
      <4>5. QED
        BY <4>1, <4>2, <4>3, <4>4 DEF Mirrors
    <3>4. Meant(m)'
      <4>1. CASE Gone(u)
        BY <1>6, <1>11, <3>1, <4>1 DEF Meant
      <4>2. CASE Bound(u) /\ Waits(u) /\ Partner(u) = r /\ Depth(u) = L
        <5>1. Bound(u)' /\ Waits(u)' /\ Partner(u)' = r /\ Depth(u)' = L
          BY <1>11, <4>2 DEF SameView, Bound
        <5>2. Len(peer'[r]) = L + 1 /\ peer'[r][L + 1] = [seq |-> q, thread |-> None]
          BY <1>8, <1>9
        <5>3. Continues(m)'
          BY <1>6, <3>1, <5>1, <5>2 DEF Continues
        <5>4. QED
          BY <1>6, <3>1, <5>3 DEF Meant
      <4>3. QED
        BY <3>2, <4>1, <4>2
    <3>5. QED
      BY <3>2, <3>3, <3>4
  <2>3. QED
    BY <2>1, <2>2
<1>13. \A x \in Asks' : BackedOK(x)'
  <2> SUFFICES ASSUME NEW x \in Asks' PROVE BackedOK(x)'
    OBVIOUS
  <2>1. CASE x = n
    <3>1. Entry(x)'.seq \notin Calls
      BY <1>3, <1>5, <2>1, CallsApart
    <3>2. QED
      BY <3>1 DEF BackedOK
  <2>2. CASE x \in Asks
    BY <1>3, <1>11, <2>2, BackedStays
  <2>3. QED
    BY <1>3, <2>1, <2>2
<1>14. Fresh'
  <2>1. Fresh /\ r \in Remotes /\ (r \in Calls \/ r \in PeerCalls) /\ (r = q \/ peer[r] # <<>>)
    BY <1>5 DEF Mirrored, Remotes
  <2>2. Calls \subseteq Remotes /\ PeerCalls \subseteq Remotes /\ q \notin Calls /\ PeerCalls \subseteq Nat
    BY <1>5, CallsApart, BoundAssumption DEF Remotes, PeerCalls
  <2>3. \A i \in Nat : i < q \/ i = q => i < peerNext'
    BY <1>2, <1>5
  <2>4. r \in PeerCalls => r < q \/ r = q
    BY <1>5, <2>1 DEF Fresh
  <2>5. \A x \in Slots' : Mail(x)'.from \in PeerCalls => Mail(x)'.from < peerNext'
    <3> SUFFICES ASSUME NEW x \in Slots', Mail(x)'.from \in PeerCalls
                 PROVE  Mail(x)'.from < peerNext'
      OBVIOUS
    <3>1. CASE x = k
      BY <1>6, <2>2, <2>3, <2>4, <3>1
    <3>2. CASE x \in Slots
      BY <1>4, <1>5, <2>1, <2>2, <2>3, <3>2 DEF Fresh
    <3>3. QED
      BY <1>4, <3>1, <3>2
  <2>6. ASSUME NEW p \in Calls, peer'[p] # <<>>
        PROVE  p < nextCall' /\ p \notin Sends'
    <3>1. peer[p] # <<>>
      BY <1>10, <2>1, <2>2, <2>6
    <3>2. QED
      BY <1>2, <1>11, <2>1, <3>1 DEF Fresh
  <2>7. ASSUME NEW p \in PeerCalls, peer'[p] # <<>>
        PROVE  p < peerNext'
    <3>1. CASE p = r
      BY <2>2, <2>3, <2>4, <3>1
    <3>2. CASE p # r
      <4>1. peer[p] # <<>>
        BY <1>10, <2>2, <2>7, <3>2
      <4>2. p < q
        BY <1>5, <2>1, <4>1 DEF Fresh
      <4>3. QED
        BY <2>2, <2>3, <4>2
    <3>3. QED
      BY <3>1, <3>2
  <2>8. \A t \in Threads : \A i \in 1..Len(stack'[t]) :
          stack'[t][i].data # None => stack'[t][i].data.seq \in PeerCalls /\ stack'[t][i].data.seq < peerNext'
    BY <1>2, <1>5, <2>1, <2>2, <2>3 DEF Fresh
  <2>9. \A c \in ready' : c < nextCall'
    BY <1>2, <2>1 DEF Fresh
  <2>10. QED
    BY <2>5, <2>6, <2>7, <2>8, <2>9 DEF Fresh
<1>15. QED
  BY <1>2, <1>4, <1>6, <1>9, <1>10, <1>11, <1>12, <1>13, <1>14, PostMirrors

LEMMA PeerCallMirrors ==
  ASSUME Base, Mirrored, PeerStarts \/ \E r \in Remotes : PeerCallsBack(r)
  PROVE  Mirrored'
<1>1. \/ peerNext \in Remotes /\ PeerRequest(peerNext, Unbound)
      \/ \E r \in Remotes : /\ peer[r] # <<>> /\ Last(peer[r]).seq \in Calls
                            /\ Last(peer[r]).thread \in Threads
                            /\ PeerRequest(r, Last(peer[r]).thread)
  BY PeerRequests DEF Base
<1>2. QED
  BY <1>1, PeerRequestMirrors

-----------------------------------------------------------------------------
(* What a step of one thread shows of it and of the others.                *)
LEMMA BecomesIs ==
  ASSUME Base, stack' \in Stacks, NEW t \in Threads, NEW pc, NEW d, Becomes(t, pc, d)
  PROVE  \E n \in Nat :
           /\ n >= 1 /\ n = Len(stack[t]) /\ n = Len(stack'[t]) /\ stack'[t] # <<>>
           /\ 1 \in 1..n /\ n \in 1..n /\ \A i \in 1..n : i = n \/ i \in 1..(n - 1)
           /\ Top(t) = stack[t][n] /\ Top(t)' = stack'[t][n]
           /\ stack'[t][n] = [pc |-> pc, waits |-> Top(t).waits, data |-> d]
           /\ \A i \in 1..(n - 1) : stack'[t][i] = stack[t][i]
           /\ \A i \in 1..n : stack'[t][i].waits = stack[t][i].waits
           /\ Off(t)' = Off(t) /\ \A i : Place(t, i)' = Place(t, i)
           /\ n >= 2 \/ Off(t) = 0 \/ d = Top(t).data => Partner(t)' = Partner(t)
<1>1. stack \in Stacks /\ stack[t] # <<>>
  BY Typed DEF Base, Becomes
<1>2. PICK n \in Nat : n >= 1 /\ n = Len(stack[t]) /\ n = Len(stack'[t]) /\ Top(t) = stack[t][n]
  BY <1>1, TopIs DEF Becomes
<1>3. 1 \in 1..n /\ n \in 1..n /\ \A i \in 1..n : i = n \/ i \in 1..(n - 1)
  BY <1>2
<1>4. /\ stack'[t][n] = [pc |-> pc, waits |-> Top(t).waits, data |-> d]
      /\ \A i \in 1..(n - 1) : stack'[t][i] = stack[t][i]
  BY <1>2 DEF Becomes
<1>5. stack'[t] # <<>> /\ Top(t)' = stack'[t][n]
  BY <1>1, <1>4, BecomesTop
<1>6. \A i \in 1..n : stack'[t][i].waits = stack[t][i].waits
  BY <1>2, <1>3, <1>4
<1>7. Off(t)' = Off(t)
  BY <1>3, <1>6 DEF Off
<1>8. \A i : Place(t, i)' = Place(t, i)
  BY <1>7 DEF Place
<1>9. ASSUME n >= 2 \/ Off(t) = 0 \/ d = Top(t).data
      PROVE  Partner(t)' = Partner(t)
  <2>1. CASE n >= 2
    <3>1. 1 \in 1..(n - 1)
      BY <2>1
    <3>2. QED
      BY <1>4, <3>1 DEF Partner
  <2>2. CASE Off(t) = 0
    <3>1. stack[t][1].waits # None
      BY <2>2 DEF Off
    <3>2. QED
      BY <1>3, <1>6, <3>1 DEF Partner
  <2>3. CASE n = 1 /\ d = Top(t).data
    <3>1. stack'[t][1] = [pc |-> pc, waits |-> stack[t][1].waits, data |-> stack[t][1].data]
      BY <1>2, <1>4, <2>3
    <3>2. stack'[t][1].waits = stack[t][1].waits /\ stack'[t][1].data = stack[t][1].data
      BY <3>1
    <3>3. QED
      BY <3>2 DEF Partner
  <2>4. n >= 2 \/ n = 1
    <3>1. \A i \in Nat : i >= 1 => i >= 2 \/ i = 1
      OBVIOUS
    <3>2. n >= 1
      BY <1>2
    <3>3. QED
      BY <3>1, <3>2, Zenon
  <2>5. QED
    BY <1>9, <2>1, <2>2, <2>3, <2>4
<1>10. QED
  BY <1>2, <1>3, <1>4, <1>5, <1>6, <1>7, <1>8, <1>9

LEMMA OthersSame ==
  ASSUME Base, NEW t, Others(t), closed' = closed, NEW u \in Threads, u # t,
         stack[u] # <<>> => (Top(u).waits \in ready' <=> Top(u).waits \in ready)
  PROVE  /\ SameView(u) /\ (Gone(u)' <=> Gone(u)) /\ Top(u)' = Top(u) /\ (Waits(u)' <=> Waits(u))
         /\ deque'[u] = deque[u] => (Parked(u)' <=> Parked(u))
<1>1. stack'[u] = stack[u] /\ \A pcs : At(u, pcs)' <=> At(u, pcs)
  BY OthersStay
<1>2. SameView(u) /\ Top(u)' = Top(u) /\ (Waits(u)' <=> Waits(u))
  BY <1>1, StackStays
<1>3. QED
  BY <1>1, <1>2 DEF Gone, Parked

(* A thread that is in a transaction where the thread of the peer is       *)
(* named is that thread's.                                                 *)
LEMMA NamedOnce ==
  ASSUME Base, Mirrored, NEW t \in Threads, stack[t] # <<>>, Top(t).waits \in Calls,
         NEW u \in Threads, u # t, Bound(u)
  PROVE  Partner(u) # Top(t).waits
<1>1. stack \in Stacks /\ Distinct /\ Fresh
  BY Typed DEF Base, Mirrored
<1>2. PICK n \in Nat : n = Len(stack[t]) /\ n \in 1..n /\ Top(t) = stack[t][n]
  <2>1. Len(stack[t]) \in Nat /\ Len(stack[t]) >= 1 /\ Top(t) = stack[t][Len(stack[t])]
    BY <1>1, TopIs
  <2>2. QED
    BY <2>1
<1>3. stack[u] # <<>> /\ (Off(u) = 0 \/ Off(u) = 1)
  BY BoundIs DEF Off
<1>4. 1 \in 1..Len(stack[u])
  <2>1. Len(stack[u]) \in Nat /\ Len(stack[u]) >= 1
    BY <1>3, DepthIs
  <2>2. QED
    BY <2>1
<1>5. CASE Off(u) = 0
  BY <1>1, <1>2, <1>4, <1>5, BoundIs, NoneIs DEF Distinct
<1>6. CASE Off(u) = 1
  BY <1>1, <1>4, <1>6, BoundIs, NoneIs, CallsApart DEF Fresh
<1>7. QED
  BY <1>3, <1>5, <1>6

LEMMA SendRequestMirrors ==
  ASSUME Base, Mirrored, NEW t \in Threads, SendRequest(t)
  PROVE  Mirrored'
<1>1. TypeOK /\ stack \in Stacks /\ Mails /\ Framed /\ Distinct /\ Placed /\ peer \in Peers /\ Fresh
  BY Typed DEF Base, Mirrored
<1>2. /\ stack[t] # <<>> /\ At(t, {"send"}) /\ Top(t).waits \in Calls /\ Top(t).data = None
      /\ Becomes(t, "loop", None) /\ stack' \in Stacks /\ Others(t)
  BY SendRequestIs DEF Becomes
<1>3. PICK s \in Calls : s = Top(t).waits /\ s # None
  BY <1>2, NoneIs
<1>4. PICK R \in Remotes : /\ R = IF remote[t] = Unbound THEN s ELSE remote[t]
                           /\ peer' = [peer EXCEPT ![R] = Append(peer[R], [seq |-> s, thread |-> t])]
  BY <1>3, SendRequestIs
<1>5. /\ UNCHANGED <<remote, deque, inbox, ready, nextCall, peerNext, closed>> /\ ~closed
      /\ occupation' = [occupation EXCEPT ![t] = occupation[t] + 1]
  BY DEF SendRequest, poolVars, resultVars
<1>6. PICK n \in Nat :
           /\ n >= 1 /\ n = Len(stack[t]) /\ n = Len(stack'[t]) /\ stack'[t] # <<>>
           /\ 1 \in 1..n /\ n \in 1..n /\ \A i \in 1..n : i = n \/ i \in 1..(n - 1)
           /\ Top(t) = stack[t][n] /\ Top(t)' = stack'[t][n]
           /\ stack'[t][n] = [pc |-> "loop", waits |-> Top(t).waits, data |-> None]
           /\ \A i \in 1..(n - 1) : stack'[t][i] = stack[t][i]
           /\ \A i \in 1..n : stack'[t][i].waits = stack[t][i].waits
           /\ Off(t)' = Off(t) /\ \A i : Place(t, i)' = Place(t, i)
           /\ Partner(t)' = Partner(t)
  BY <1>2, BecomesIs
<1>7. stack[t][n].waits = s /\ stack'[t][n].waits = s /\ stack'[t][n].data = None /\ stack'[t][n].pc = "loop"
  BY <1>3, <1>6
<1>8. s \notin ready /\ ~Waits(t) /\ ~At(t, {"handle"}) /\ ~Gone(t) /\ ~Gone(t)' /\ ~Parked(t)
  <2>1. stack[t][n].pc = "send"
    BY <1>2, <1>6 DEF At
  <2>2. s \notin ready
    BY <1>6, <1>7, <2>1 DEF Mirrored, ReadyTop
  <2>3. QED
    BY <1>2, <1>5, <2>2 DEF Waits, At, Gone, Parked
<1>9. Waits(t)' /\ ~At(t, {"handle"})'
  BY <1>5, <1>6, <1>7, <1>8 DEF Waits, At
<1>10. /\ Off(t) \in {0, 1} /\ Depth(t) \in Nat /\ Depth(t) = 2 * n - Off(t) - 2
       /\ Depth(t)' = Depth(t) + 1 /\ Bound(t)'
  <2>1. Off(t) \in {0, 1} /\ Depth(t) \in Nat /\ Depth(t) = 2 * n - Off(t) - 2
    BY <1>2, <1>6, <1>8, DepthIs
  <2>2. Depth(t)' = 2 * n - Off(t) - 1
    BY <1>6, <1>9 DEF Depth, Rest
  <2>3. QED
    BY <2>1, <2>2 DEF Bound
<1>11. /\ Depth(t) = 0 => n = 1 /\ Off(t) = 0 /\ R = s /\ remote[t] = Unbound
       /\ Bound(t) => R = Partner(t) /\ remote[t] = Partner(t) /\ n >= 2
       /\ Bound(t) \/ Depth(t) = 0
       /\ occupation[t] = Depth(t)
  <2>1. CountedOK(t) /\ Unbound \notin Remotes
    BY BoundAssumption DEF Mirrored, Counted, Unbound, Remotes, Calls, PeerCalls
  <2>2. /\ occupation[t] = Depth(t)
        /\ Depth(t) = 0 => remote[t] = Unbound
        /\ Depth(t) >= 1 => remote[t] = Partner(t) \/ (Depth(t) = 1 /\ Off(t) = 0 /\ remote[t] = Unbound)
    BY <1>8, <2>1 DEF CountedOK
  <2>3. /\ Depth(t) = 0 => n = 1 /\ Off(t) = 0
        /\ ~(Depth(t) = 1 /\ Off(t) = 0) /\ (Depth(t) >= 1 => n >= 2)
        /\ Depth(t) >= 1 \/ Depth(t) = 0
    <3>1. \A a \in Nat : \A o \in {0, 1} : \A d \in Nat : a >= 1 /\ d = 2 * a - o - 2 =>
            /\ d = 0 => a = 1 /\ o = 0
            /\ ~(d = 1 /\ o = 0) /\ (d >= 1 => a >= 2)
            /\ d >= 1 \/ d = 0
      OBVIOUS
    <3>2. n >= 1 /\ Off(t) \in {0, 1} /\ Depth(t) \in Nat /\ Depth(t) = 2 * n - Off(t) - 2
      BY <1>6, <1>10
    <3>3. QED
      BY <3>1, <3>2
  <2>4. Bound(t) => Partner(t) \in Remotes
    BY BoundIs
  <2>5. QED
    BY <1>4, <2>1, <2>2, <2>3, <2>4 DEF Bound
<1>12. Partner(t)' = R
  <2>1. CASE Bound(t)
    BY <1>6, <1>11, <2>1
  <2>2. CASE Depth(t) = 0
    <3>1. stack'[t][1].waits = s /\ R = s
      BY <1>7, <1>11, <2>2
    <3>2. QED
      BY <1>3, <3>1 DEF Partner
  <2>3. QED
    BY <1>11, <2>1, <2>2
<1>13. Sends' \subseteq Sends /\ s \in Sends /\ s \notin Sends'
  BY <1>1, <1>2, <1>3, SendsBecome
<1>14. PICK L \in Nat : L = Len(peer[R]) /\ peer[R] \in Seq(Item) /\ L = Depth(t)
  <2>1. peer[R] \in Seq(Item) /\ Len(peer[R]) \in Nat
    BY <1>1 DEF Peers
  <2>2. CASE Bound(t)
    <3>1. Mirrors(t, peer[R])
      BY <1>11, <2>2 DEF Mirrored, Agree
    <3>2. QED
      BY <1>8, <2>1, <3>1 DEF Mirrors
  <2>3. CASE Depth(t) = 0
    <3>1. peer[s] = <<>> /\ R = s
      BY <1>1, <1>11, <1>13, <2>3 DEF Fresh
    <3>2. QED
      BY <2>1, <2>3, <3>1
  <2>4. QED
    BY <1>11, <2>2, <2>3
<1>15. PICK e \in Item : e = [seq |-> s, thread |-> t]
  BY DEF Item, Remotes
<1>16. PICK items \in Seq(Item) : /\ items = peer'[R] /\ Len(items) = L + 1 /\ items[L + 1] = e
                                  /\ \A i \in 1..L : items[i] = peer[R][i]
  <2>1. peer'[R] = Append(peer[R], e)
    BY <1>1, <1>4, <1>15 DEF Peers
  <2>2. L = Len(peer[R]) /\ peer[R] \in Seq(Item)
    BY <1>14
  <2>3. PICK old \in Seq(Item) : old = peer[R]
    BY <2>2
  <2>4. /\ Append(old, e) \in Seq(Item) /\ Len(Append(old, e)) = Len(old) + 1
        /\ Append(old, e)[Len(old) + 1] = e /\ \A i \in 1..Len(old) : Append(old, e)[i] = old[i]
    BY AppendProperties
  <2>5. QED
    BY <2>1, <2>2, <2>3, <2>4
<1>17. \A r \in Remotes : r # R => peer'[r] = peer[r]
  BY <1>1, <1>4 DEF Peers
<1>18. ASSUME NEW u \in Threads, u # t
       PROVE  /\ SameView(u) /\ (Gone(u)' <=> Gone(u)) /\ (Parked(u)' <=> Parked(u))
              /\ occupation'[u] = occupation[u] /\ remote'[u] = remote[u]
              /\ Bound(u) => Partner(u) # R
  <2>1. SameView(u) /\ (Gone(u)' <=> Gone(u)) /\ (Parked(u)' <=> Parked(u))
    BY <1>2, <1>5, <1>18, OthersSame
  <2>2. occupation'[u] = occupation[u] /\ remote'[u] = remote[u]
    BY <1>1, <1>5, <1>18 DEF TypeOK
  <2>3. Bound(u) => Partner(u) # R
    <3>1. CASE Bound(t)
      BY <1>11, <1>18, <3>1 DEF Mirrored, Apart
    <3>2. CASE Depth(t) = 0
      BY <1>2, <1>3, <1>11, <1>18, <3>2, NamedOnce
    <3>3. QED
      BY <1>11, <3>1, <3>2
  <2>4. QED
    BY <2>1, <2>2, <2>3
<1>19. PICK g : Carried(g) /\ \A x \in Slots' : g[x] = x
  BY <1>5, MailStays
<1>20. Slots' = Slots /\ \A x : Mail(x)' = Mail(x)
  BY <1>5, MailStays
<1>21. ASSUME NEW x \in Slots, Live(Mail(x)), Mail(x).from = R
       PROVE  FALSE
  <2>1. PICK m \in Message : m = Mail(x)
    BY <1>1, MailType
  <2>2. Meant(m) /\ Live(m) /\ m.from = R
    BY <1>21, <2>1 DEF Mirrored, Letters
  <2>3. CASE m.to = Unbound
    <3>1. /\ peer[R] = <<[seq |-> m.seq, thread |-> None]>> /\ \A u \in Threads : Bound(u) => Partner(u) # R
      BY <2>2, <2>3 DEF Meant, Opens
    <3>2. L = 1
      BY <1>14, <3>1
    <3>3. Bound(t)
      <4>1. Depth(t) # 0
        BY <1>14, <3>2
      <4>2. QED
        BY <1>11, <4>1
    <3>4. Partner(t) = R
      BY <1>11, <3>3
    <3>5. QED
      BY <3>1, <3>3, <3>4
  <2>4. CASE m.to # Unbound
    <3>1. PICK v \in Threads : v = m.to
      BY <2>4, ToIs
    <3>2. Bound(v) /\ Waits(v) /\ Partner(v) = R
      BY <2>2, <2>4, <3>1 DEF Meant, Live, Continues
    <3>3. v = t
      BY <1>18, <3>2
    <3>4. QED
      BY <1>8, <3>2, <3>3
  <2>5. QED
    BY <2>3, <2>4
<1>22. CountedOK(t)'
  <2>1. occupation'[t] = Depth(t)'
    BY <1>1, <1>5, <1>10, <1>11 DEF TypeOK
  <2>2. remote'[t] = Partner(t)' \/ (Depth(t)' = 1 /\ Off(t)' = 0 /\ remote'[t] = Unbound)
    BY <1>5, <1>6, <1>10, <1>11, <1>12
  <2>3. QED
    BY <1>10, <2>1, <2>2 DEF CountedOK
<1>23. Mirrors(t, peer[R])'
  <2>1. ASSUME NEW i \in 1..n
        PROVE  Requested(t, items, i)' /\ Handles(t, items, i)'
    <3>1. CASE i = n
      <4>1. Place(t, n) = L + 1
        BY <1>6, <1>10, <1>14 DEF Place
      <4>2. items[L + 1] = [seq |-> stack'[t][n].waits, thread |-> t]
        BY <1>7, <1>15, <1>16
      <4>3. Requested(t, items, n)'
        BY <1>6, <4>1, <4>2 DEF Requested
      <4>4. Handles(t, items, n)'
        BY <1>7 DEF Handles
      <4>5. QED
        BY <3>1, <4>3, <4>4
    <3>2. CASE i \in 1..(n - 1)
      <4>1. Bound(t)
        <5>1. Depth(t) # 0
          BY <1>11, <3>2
        <5>2. QED
          BY <1>11, <5>1
      <4>2. Mirrors(t, peer[R])
        BY <1>11, <4>1 DEF Mirrored, Agree
      <4>3. Requested(t, peer[R], i) /\ Handles(t, peer[R], i)
        BY <1>6, <2>1, <4>2 DEF Mirrors
      <4>4. Off(t) \in {0, 1} /\ Place(t, i) \in Int /\ Place(t, i) >= 0 /\ Place(t, i) <= L
            /\ (Place(t, i) = 0 => Off(t) = 1 /\ i = 1)
        <5>1. \A a \in Nat : \A o \in {0, 1} : \A j \in 1..(a - 1) :
                /\ 2 * j - 1 - o \in Int /\ 2 * j - 1 - o >= 0 /\ 2 * j - 1 - o <= 2 * a - o - 2
                /\ 2 * j - 1 - o = 0 => o = 1 /\ j = 1
          OBVIOUS
        <5>2. Off(t) \in {0, 1} /\ L = 2 * n - Off(t) - 2
          BY <1>10, <1>14
        <5>3. QED
          BY <3>2, <5>1, <5>2 DEF Place
      <4>5. Requested(t, items, i)'
        <5> SUFFICES ASSUME stack[t][i].waits # None
                     PROVE  items[Place(t, i)] = [seq |-> stack[t][i].waits, thread |-> t]
          BY <1>6, <3>2 DEF Requested
        <5>1. Place(t, i) # 0
          BY <4>4 DEF Off
        <5>2. Place(t, i) \in 1..L
          BY <1>14, <4>4, <5>1
        <5>3. peer[R][Place(t, i)] = [seq |-> stack[t][i].waits, thread |-> t]
          BY <1>14, <4>3, <4>4 DEF Requested
        <5>4. QED
          BY <1>16, <5>2, <5>3
      <4>6. Handles(t, items, i)'
        <5> SUFFICES ASSUME stack[t][i].data # None
                     PROVE  /\ Place(t, i) + 1 <= L + 1
                            /\ items[Place(t, i) + 1] = [seq |-> stack[t][i].data.seq, thread |-> None]
                            /\ stack[t][i].data.from = Partner(t)
          BY <1>6, <1>16, <3>2 DEF Handles
        <5>1. /\ Place(t, i) + 1 <= L
              /\ peer[R][Place(t, i) + 1] = [seq |-> stack[t][i].data.seq, thread |-> None]
              /\ stack[t][i].data.from = Partner(t)
          BY <1>14, <4>3 DEF Handles
        <5>2. Place(t, i) + 1 \in 1..L /\ Place(t, i) + 1 <= L + 1
          BY <1>14, <4>4, <5>1
        <5>3. QED
          BY <1>16, <5>1, <5>2
      <4>7. QED
        BY <4>5, <4>6
    <3>3. QED
      BY <1>6, <3>1, <3>2
  <2>2. \A i \in 1..L : peer[R][i].thread \in {t, None}
    <3>1. CASE Bound(t)
      BY <1>11, <1>14, <3>1 DEF Mirrored, Agree, Mirrors
    <3>2. CASE Depth(t) = 0
      BY <1>14, <3>2
    <3>3. QED
      BY <1>11, <3>1, <3>2
  <2>3. \A i \in 1..Len(items) : items[i].thread \in {t, None}
    <3>1. \A i \in 1..(L + 1) : i \in 1..L \/ i = L + 1
      OBVIOUS
    <3>2. e.thread = t
      BY <1>15
    <3>3. QED
      BY <1>16, <2>2, <3>1, <3>2
  <2>4. Len(items) = Depth(t)'
    BY <1>10, <1>14, <1>16
  <2>5. Mirrors(t, items)'
    BY <1>6, <2>1, <2>3, <2>4 DEF Mirrors
  <2>6. QED
    BY <1>16, <2>5
<1>24. \A x \in Asks' : x[1] = R => BackedOK(x)'
  <2> SUFFICES ASSUME NEW x \in Asks', x[1] = R, Entry(x)'.seq \in Calls
               PROVE  BackedOK(x)'
    BY DEF BackedOK
  <2>1. /\ Depth(t)' = L + 1 /\ x[2] \in Nat /\ x[2] \in 1..(L + 1)
        /\ Entry(x)' = items[x[2]]
    BY <1>10, <1>14, <1>16 DEF Asks, Entry
  <2>2. x[2] = L + 1 \/ x[2] \in 1..L
    BY <2>1
  <2>3. CASE x[2] = L + 1
    <3>1. Entry(x)'.thread = t
      BY <1>15, <1>16, <2>1, <2>3
    <3>2. x[2] <= Depth(t)'
      BY <2>1
    <3>3. QED
      BY <1>10, <1>12, <3>1, <3>2 DEF BackedOK
  <2>4. CASE x[2] \in 1..L
    <3>1. x \in Asks /\ Entry(x) = Entry(x)'
      BY <1>14, <1>16, <2>1, <2>4 DEF Asks, Entry
    <3>2. AskKnown(x) /\ BackedOK(x) /\ Entry(x).seq \in Calls
      BY <1>1, <3>1 DEF Placed, Mirrored, Backed
    <3>3. PICK u \in Threads : u = Entry(x).thread
      BY <3>2, CallsApart DEF AskKnown
    <3>4. Gone(u) \/ (Bound(u) /\ Partner(u) = R)
      BY <3>2, <3>3 DEF BackedOK
    <3>5. CASE Gone(u)
      BY <1>8, <1>18, <3>1, <3>3, <3>5 DEF BackedOK
    <3>6. CASE u = t
      <4>1. x[2] <= Depth(t)' /\ Entry(x)'.thread = t
        BY <2>1, <3>1, <3>3, <3>6
      <4>2. QED
        BY <1>10, <1>12, <4>1 DEF BackedOK
    <3>7. QED
      BY <1>18, <3>4, <3>5, <3>6
  <2>5. QED
    BY <2>2, <2>3, <2>4
<1>25. ReadyTop'
  <2> SUFFICES ASSUME NEW u \in Threads, NEW i \in 1..Len(stack'[u]), stack'[u][i].waits \in ready
               PROVE  i = Len(stack'[u]) /\ stack'[u][i].pc = "loop"
    BY <1>5 DEF ReadyTop
  <2>1. CASE u = t
    <3>1. stack[t][i].waits \in ready /\ i \in 1..n
      BY <1>6, <2>1
    <3>2. i = n
      BY <1>6, <3>1 DEF Mirrored, ReadyTop
    <3>3. QED
      BY <1>7, <1>8, <3>1, <3>2
  <2>2. CASE u # t
    BY <1>2, <2>2 DEF Others, Mirrored, ReadyTop
  <2>3. QED
    BY <2>1, <2>2
<1>26. Delivered'
  <2> SUFFICES ASSUME NEW x \in Slots PROVE DeliveredOK(x)'
    BY <1>20 DEF Delivered
  <2>1. DeliveredOK(x) /\ Mail(x)' = Mail(x) /\ (x[1] # None => x[1] \in Threads)
    BY <1>20 DEF Mirrored, Delivered, Slots, Boxes
  <2>2. QED
    BY <1>8, <1>18, <2>1 DEF DeliveredOK
<1>27. Fresh'
  <2>1. s < nextCall
    <3>1. FrameOK(Top(t))
      BY <1>1, <1>2, TopOK
    <3>2. QED
      BY <1>3, <3>1 DEF FrameOK
  <2>2. R = s \/ peer[R] # <<>>
    <3>1. Depth(t) = 0 \/ L >= 1
      BY <1>14
    <3>2. peer[R] = <<>> => L = 0
      <4>1. L = Len(peer[R])
        BY <1>14
      <4>2. QED
        BY <4>1
    <3>3. QED
      BY <1>11, <1>14, <3>1, <3>2
  <2>3. \A r \in Calls : peer'[r] # <<>> => r < nextCall' /\ r \notin Sends'
    <3> SUFFICES ASSUME NEW r \in Calls, peer'[r] # <<>>
                 PROVE  r < nextCall /\ r \notin Sends'
      BY <1>5
    <3>1. r \in Remotes
      BY DEF Remotes
    <3>2. CASE r = s
      BY <1>13, <2>1, <3>2
    <3>3. CASE peer[r] # <<>>
      BY <1>1, <1>13, <3>3 DEF Fresh
    <3>4. QED
      BY <1>17, <2>2, <3>1, <3>2, <3>3
  <2>4. \A r \in PeerCalls : peer'[r] # <<>> => r < peerNext'
    <3> SUFFICES ASSUME NEW r \in PeerCalls, peer'[r] # <<>>
                 PROVE  r < peerNext
      BY <1>5
    <3>1. r \in Remotes /\ r # s
      BY CallsApart DEF Remotes
    <3>2. peer[r] # <<>>
      BY <1>17, <2>2, <3>1
    <3>3. QED
      BY <1>1, <3>2 DEF Fresh
  <2>5. ASSUME NEW u \in Threads, NEW i \in 1..Len(stack'[u]), stack'[u][i].data # None
        PROVE  stack'[u][i].data.seq \in PeerCalls /\ stack'[u][i].data.seq < peerNext'
    <3>1. i \in 1..Len(stack[u]) /\ stack'[u][i] = stack[u][i]
      <4>1. CASE u = t
        BY <1>6, <1>7, <2>5, <4>1
      <4>2. CASE u # t
        BY <1>2, <4>2 DEF Others
      <4>3. QED
        BY <4>1, <4>2
    <3>2. QED
      BY <1>1, <1>5, <2>5, <3>1 DEF Fresh
  <2>6. \A x \in Slots' : Mail(x)'.from \in PeerCalls => Mail(x)'.from < peerNext'
    BY <1>1, <1>5, <1>20 DEF Fresh
  <2>7. \A c \in ready' : c < nextCall'
    BY <1>1, <1>5 DEF Fresh
  <2>8. QED
    BY <2>3, <2>4, <2>5, <2>6, <2>7 DEF Fresh
<1>28. QED
  <2>1. Bound(t) => Partner(t) = R
    BY <1>11
  <2>2. \A x \in Slots' : Live(Mail(g[x])) => Mail(g[x]).from # R
    BY <1>19, <1>20, <1>21
  <2>3. QED
    BY <1>8, <1>12, <1>17, <1>18, <1>19, <1>22, <1>23, <1>24, <1>25, <1>26, <1>27, <2>1, <2>2, MoveMirrors

LEMMA SendReplyMirrors ==
  ASSUME Base, Mirrored, NEW t \in Threads, SendReply(t)
  PROVE  Mirrored'
<1>1. TypeOK /\ stack \in Stacks /\ Mails /\ Framed /\ Once /\ Placed /\ peer \in Peers /\ Fresh /\ Distinct
  BY Typed DEF Base, Mirrored, Placed
<1>2. /\ stack[t] # <<>> /\ At(t, {"handle"}) /\ Becomes(t, "loop", None) /\ stack' \in Stacks /\ Others(t)
  BY SendReplyIs DEF Becomes
<1>3. PICK n \in Nat :
           /\ n >= 1 /\ n = Len(stack[t]) /\ n = Len(stack'[t]) /\ stack'[t] # <<>>
           /\ 1 \in 1..n /\ n \in 1..n /\ \A i \in 1..n : i = n \/ i \in 1..(n - 1)
           /\ Top(t) = stack[t][n] /\ Top(t)' = stack'[t][n]
           /\ stack'[t][n] = [pc |-> "loop", waits |-> Top(t).waits, data |-> None]
           /\ \A i \in 1..(n - 1) : stack'[t][i] = stack[t][i]
           /\ \A i \in 1..n : stack'[t][i].waits = stack[t][i].waits
           /\ Off(t)' = Off(t) /\ \A i : Place(t, i)' = Place(t, i)
           /\ n >= 2 \/ Off(t) = 0 \/ None = Top(t).data => Partner(t)' = Partner(t)
  BY <1>2, BecomesIs
<1>4. /\ ~closed /\ UNCHANGED <<deque, inbox, ready, nextCall, peerNext, closed>>
      /\ occupation' = [occupation EXCEPT ![t] = occupation[t] - 1]
      /\ remote' = [remote EXCEPT ![t] = IF occupation[t] = 1 THEN Unbound ELSE remote[t]]
      /\ peer' = [peer EXCEPT ![remote[t]] = Without(peer[remote[t]], Top(t).data.seq)]
  BY DEF SendReply, Vacate, poolVars, resultVars
<1>5. stack'[t][n].data = None /\ stack'[t][n].pc = "loop" /\ stack[t][n].pc = "handle" /\ stack[t][n].data # None
  <2>1. stack[t][n].pc = "handle" /\ FrameOK(stack[t][n])
    BY <1>1, <1>2, <1>3 DEF At, Framed
  <2>2. QED
    BY <1>3, <2>1 DEF FrameOK
<1>6. stack[t][n].waits \notin ready /\ ~Waits(t) /\ ~Gone(t) /\ ~Gone(t)' /\ ~Parked(t)
  <2>1. stack[t][n].waits \notin ready
    BY <1>3, <1>5 DEF Mirrored, ReadyTop
  <2>2. QED
    BY <1>2, <1>4, <2>1 DEF Waits, At, Gone, Parked
<1>7. Waits(t)' /\ ~At(t, {"handle"})'
  BY <1>3, <1>4, <1>5, <1>6 DEF Waits, At
<1>8. PICK L \in Nat : L = Depth(t) /\ Off(t) \in {0, 1} /\ L = 2 * n - Off(t) /\ L >= 1 /\ Depth(t)' = L - 1
  <2>1. Off(t) \in {0, 1} /\ Depth(t) \in Nat /\ Depth(t) = 2 * n - Off(t)
    BY <1>2, <1>3, DepthIs
  <2>2. Depth(t)' = 2 * n - Off(t) - 1
    BY <1>3, <1>7 DEF Depth, Rest
  <2>3. QED
    BY <1>3, <2>1, <2>2
<1>9. PICK R \in Remotes : R = Partner(t) /\ R = remote[t] /\ Bound(t) /\ Mirrors(t, peer[R])
  <2>1. Bound(t) /\ CountedOK(t)
    BY <1>8 DEF Bound, Mirrored, Counted
  <2>2. ~(L = 1 /\ Off(t) = 0)
    BY <1>8
  <2>3. remote[t] = Partner(t)
    BY <1>6, <1>8, <2>1, <2>2 DEF CountedOK
  <2>4. QED
    BY <2>1, <2>3, BoundIs DEF Mirrored, Agree
<1>10. occupation[t] = L
  BY <1>6, <1>8 DEF Mirrored, Counted, CountedOK
<1>11. peer[R] \in Seq(Item) /\ L = Len(peer[R]) /\ L \in 1..L
  BY <1>1, <1>6, <1>8, <1>9 DEF Peers, Mirrors
<1>12. PICK q \in Remotes : q = Top(t).data.seq /\ peer[R][L] = [seq |-> q, thread |-> None]
  <2>1. Handles(t, peer[R], n)
    BY <1>3, <1>9 DEF Mirrors
  <2>2. Place(t, n) + 1 = L
    BY <1>8 DEF Place
  <2>3. peer[R][L] = [seq |-> Top(t).data.seq, thread |-> None]
    BY <1>3, <1>5, <2>1, <2>2 DEF Handles
  <2>4. peer[R][L] \in Item
    BY <1>11
  <2>5. QED
    BY <2>3, <2>4 DEF Item
<1>13. PICK items \in Seq(Item) : /\ items = peer'[R] /\ Len(items) = L - 1
                                  /\ \A i \in 1..(L - 1) : items[i] = peer[R][i]
  <2>1. peer'[R] = Without(peer[R], q)
    BY <1>1, <1>4, <1>9, <1>12 DEF Peers
  <2>2. PICK old \in Seq(Item) : old = peer[R] /\ Len(old) = L
    BY <1>11
  <2>3. old[L].seq = q
    BY <1>12, <2>2
  <2>4. PICK i \in 1..Len(old) : old[i].seq = q /\ Without(old, q) = RemoveAt(old, i)
    BY <1>11, <2>2, <2>3, WithoutIs
  <2>5. i = L
    <3>1. /\ <<R, i>> \in Asks /\ Entry(<<R, i>>) = old[i]
          /\ <<R, L>> \in Asks /\ Entry(<<R, L>>) = old[L]
      BY <1>1, <1>11, <2>2, <2>4, AskOf
    <3>2. <<R, i>> = <<R, L>>
      BY <1>1, <2>3, <2>4, <3>1 DEF Once
    <3>3. QED
      BY <3>2
  <2>6. /\ RemoveAt(old, L) \in Seq(Item) /\ Len(RemoveAt(old, L)) = Len(old) - 1
        /\ \A k \in 1..(Len(old) - 1) : RemoveAt(old, L)[k] = IF k < L THEN old[k] ELSE old[k + 1]
    BY <1>11, <2>2, RemoveAtIs
  <2>7. \A k \in 1..(L - 1) : k < L
    BY <1>8
  <2>8. QED
    BY <2>1, <2>2, <2>4, <2>5, <2>6, <2>7
<1>14. \A r \in Remotes : r # R => peer'[r] = peer[r]
  BY <1>1, <1>4, <1>9 DEF Peers
<1>15. Bound(t)' => Partner(t)' = R
  <2>1. CASE n >= 2 \/ Off(t) = 0
    BY <1>3, <1>9, <2>1
  <2>2. CASE ~(n >= 2 \/ Off(t) = 0)
    <3>1. Depth(t)' = 0
      BY <1>3, <1>8, <2>2
    <3>2. QED
      BY <3>1 DEF Bound
  <2>3. QED
    BY <2>1, <2>2
<1>16. Sends' \subseteq Sends
  BY <1>1, <1>2, SendsBecome
<1>17. ASSUME NEW u \in Threads, u # t
       PROVE  /\ SameView(u) /\ (Gone(u)' <=> Gone(u)) /\ (Parked(u)' <=> Parked(u))
              /\ occupation'[u] = occupation[u] /\ remote'[u] = remote[u]
              /\ Bound(u) => Partner(u) # R
  <2>1. SameView(u) /\ (Gone(u)' <=> Gone(u)) /\ (Parked(u)' <=> Parked(u))
    BY <1>2, <1>4, <1>17, OthersSame
  <2>2. occupation'[u] = occupation[u] /\ remote'[u] = remote[u]
    BY <1>1, <1>4, <1>17 DEF TypeOK
  <2>3. Bound(u) => Partner(u) # R
    BY <1>9, <1>17 DEF Mirrored, Apart
  <2>4. QED
    BY <2>1, <2>2, <2>3
<1>18. PICK g : Carried(g) /\ \A x \in Slots' : g[x] = x
  BY <1>4, MailStays
<1>19. Slots' = Slots /\ \A x : Mail(x)' = Mail(x)
  BY <1>4, MailStays
<1>20. ASSUME NEW x \in Slots, Live(Mail(x)), Mail(x).from = R
       PROVE  FALSE
  <2>1. PICK m \in Message : m = Mail(x)
    BY <1>1, MailType
  <2>2. Meant(m) /\ Live(m) /\ m.from = R
    BY <1>20, <2>1 DEF Mirrored, Letters
  <2>3. CASE m.to = Unbound
    BY <1>9, <2>2, <2>3 DEF Meant, Opens
  <2>4. CASE m.to # Unbound
    <3>1. PICK v \in Threads : v = m.to
      BY <2>4, ToIs
    <3>2. Bound(v) /\ Waits(v) /\ Partner(v) = R
      BY <2>2, <2>4, <3>1 DEF Meant, Live, Continues
    <3>3. v = t
      BY <1>17, <3>2
    <3>4. QED
      BY <1>6, <3>2, <3>3
  <2>5. QED
    BY <2>3, <2>4
<1>21. CountedOK(t)'
  <2>1. occupation'[t] = L - 1 /\ remote'[t] = IF L = 1 THEN Unbound ELSE R
    BY <1>1, <1>4, <1>9, <1>10 DEF TypeOK
  <2>2. (L - 1 = 0 => L = 1) /\ (L - 1 >= 1 => L # 1)
    BY <1>8
  <2>3. QED
    BY <1>8, <1>15, <2>1, <2>2 DEF CountedOK, Bound
<1>22. Bound(t)' => Mirrors(t, peer[R])'
  <2> SUFFICES ASSUME Bound(t)' PROVE Mirrors(t, peer[R])'
    OBVIOUS
  <2>1. ASSUME NEW i \in 1..n
        PROVE  Requested(t, items, i)' /\ Handles(t, items, i)'
    <3>1. Requested(t, peer[R], i) /\ Handles(t, peer[R], i)
      BY <1>3, <1>9, <2>1 DEF Mirrors
    <3>2. /\ Place(t, i) \in Int /\ Place(t, i) >= 0 /\ Place(t, i) <= L - 1
          /\ Place(t, i) = 0 => Off(t) = 1 /\ i = 1
          /\ i # n => Place(t, i) + 1 <= L - 1 /\ Place(t, i) + 1 >= 1
      <4>1. \A a \in Nat : \A o \in {0, 1} : \A j \in 1..a :
              /\ 2 * j - 1 - o \in Int /\ 2 * j - 1 - o >= 0 /\ 2 * j - 1 - o <= 2 * a - o - 1
              /\ 2 * j - 1 - o = 0 => o = 1 /\ j = 1
              /\ j # a => 2 * j - 1 - o + 1 <= 2 * a - o - 1 /\ 2 * j - 1 - o + 1 >= 1
        OBVIOUS
      <4>2. Off(t) \in {0, 1} /\ L = 2 * n - Off(t)
        BY <1>8
      <4>3. QED
        BY <2>1, <4>1, <4>2 DEF Place
    <3>3. Requested(t, items, i)'
      <4> SUFFICES ASSUME stack[t][i].waits # None
                   PROVE  items[Place(t, i)] = [seq |-> stack[t][i].waits, thread |-> t]
        BY <1>3 DEF Requested
      <4>1. Place(t, i) # 0
        BY <3>2 DEF Off
      <4>2. Place(t, i) \in 1..(L - 1) /\ Place(t, i) <= L
        BY <1>8, <3>2, <4>1
      <4>3. peer[R][Place(t, i)] = [seq |-> stack[t][i].waits, thread |-> t]
        BY <1>8, <1>11, <3>1, <4>2 DEF Requested
      <4>4. QED
        BY <1>13, <4>2, <4>3
    <3>4. Handles(t, items, i)'
      <4>1. CASE i = n
        BY <1>5, <4>1 DEF Handles
      <4>2. CASE i # n
        <5>1. stack'[t][i] = stack[t][i] /\ n >= 2
          <6>1. i \in 1..(n - 1)
            BY <1>3, <4>2
          <6>2. QED
            BY <1>3, <6>1
        <5>2. Partner(t)' = Partner(t) /\ Place(t, i)' = Place(t, i)
          BY <1>3, <5>1
        <5>3. stack[t][i].data # None =>
                /\ peer[R][Place(t, i) + 1] = [seq |-> stack[t][i].data.seq, thread |-> None]
                /\ stack[t][i].data.from = Partner(t)
          BY <3>1 DEF Handles
        <5>4. Place(t, i) + 1 \in 1..(L - 1) /\ Place(t, i) + 1 <= L - 1
          BY <1>8, <3>2, <4>2
        <5>5. items[Place(t, i) + 1] = peer[R][Place(t, i) + 1]
          BY <1>13, <5>4
        <5>6. QED
          BY <1>13, <5>1, <5>2, <5>3, <5>4, <5>5 DEF Handles
      <4>3. QED
        BY <4>1, <4>2
    <3>5. QED
      BY <3>3, <3>4
  <2>2. \A i \in 1..Len(items) : items[i].thread \in {t, None}
    <3>1. \A i \in 1..(L - 1) : i \in 1..L
      BY <1>8
    <3>2. QED
      BY <1>9, <1>11, <1>13, <3>1 DEF Mirrors
  <2>3. Len(items) = Depth(t)'
    BY <1>8, <1>13
  <2>4. Mirrors(t, items)'
    BY <1>3, <2>1, <2>2, <2>3 DEF Mirrors
  <2>5. QED
    BY <1>13, <2>4
<1>23. \A x \in Asks' : x[1] = R => BackedOK(x)'
  <2> SUFFICES ASSUME NEW x \in Asks', x[1] = R, Entry(x)'.seq \in Calls
               PROVE  BackedOK(x)'
    BY DEF BackedOK
  <2>1. x[2] \in Nat /\ x[2] \in 1..(L - 1) /\ Entry(x)' = items[x[2]]
    BY <1>13 DEF Asks, Entry
  <2>2. x[2] \in 1..L /\ Depth(t)' >= 1 /\ x[2] <= Depth(t)'
    BY <1>8, <2>1
  <2>3. x \in Asks /\ Entry(x) = Entry(x)'
    BY <1>11, <1>13, <2>1, <2>2 DEF Asks, Entry
  <2>4. AskKnown(x) /\ BackedOK(x) /\ Entry(x).seq \in Calls
    BY <1>1, <2>3 DEF Placed, Mirrored, Backed
  <2>5. PICK u \in Threads : u = Entry(x).thread
    BY <2>4, CallsApart DEF AskKnown
  <2>6. Gone(u) \/ (Bound(u) /\ Partner(u) = R)
    BY <2>4, <2>5 DEF BackedOK
  <2>7. CASE Gone(u)
    BY <1>6, <1>17, <2>3, <2>5, <2>7 DEF BackedOK
  <2>8. CASE u = t
    BY <1>15, <2>2, <2>3, <2>5, <2>8 DEF BackedOK, Bound
  <2>9. QED
    BY <1>17, <2>6, <2>7, <2>8
<1>24. ReadyTop'
  <2> SUFFICES ASSUME NEW u \in Threads, NEW i \in 1..Len(stack'[u]), stack'[u][i].waits \in ready
               PROVE  i = Len(stack'[u]) /\ stack'[u][i].pc = "loop"
    BY <1>4 DEF ReadyTop
  <2>1. CASE u = t
    <3>1. stack[t][i].waits \in ready /\ i \in 1..n
      BY <1>3, <2>1
    <3>2. i = n
      BY <1>3, <3>1 DEF Mirrored, ReadyTop
    <3>3. QED
      BY <1>6, <3>1, <3>2
  <2>2. CASE u # t
    BY <1>2, <2>2 DEF Others, Mirrored, ReadyTop
  <2>3. QED
    BY <2>1, <2>2
<1>25. Delivered'
  <2> SUFFICES ASSUME NEW x \in Slots PROVE DeliveredOK(x)'
    BY <1>19 DEF Delivered
  <2>1. DeliveredOK(x) /\ Mail(x)' = Mail(x) /\ (x[1] # None => x[1] \in Threads)
    BY <1>19 DEF Mirrored, Delivered, Slots, Boxes
  <2>2. QED
    BY <1>6, <1>17, <2>1 DEF DeliveredOK
<1>26. Fresh'
  <2>1. peer[R] # <<>> /\ Calls \subseteq Remotes /\ PeerCalls \subseteq Remotes
    BY <1>8, <1>11 DEF Remotes
  <2>2. \A r \in Remotes : peer'[r] # <<>> => peer[r] # <<>>
    BY <1>14, <2>1
  <2>3. ASSUME NEW u \in Threads, NEW i \in 1..Len(stack'[u]), stack'[u][i].data # None
        PROVE  stack'[u][i].data.seq \in PeerCalls /\ stack'[u][i].data.seq < peerNext'
    <3>1. i \in 1..Len(stack[u]) /\ stack'[u][i] = stack[u][i]
      <4>1. CASE u = t
        BY <1>3, <1>5, <2>3, <4>1
      <4>2. CASE u # t
        BY <1>2, <4>2 DEF Others
      <4>3. QED
        BY <4>1, <4>2
    <3>2. QED
      BY <1>1, <1>4, <2>3, <3>1 DEF Fresh
  <2>4. \A x \in Slots' : Mail(x)'.from \in PeerCalls => Mail(x)'.from < peerNext'
    BY <1>1, <1>4, <1>19 DEF Fresh
  <2>5. /\ \A r \in Calls : peer'[r] # <<>> => r < nextCall' /\ r \notin Sends'
        /\ \A r \in PeerCalls : peer'[r] # <<>> => r < peerNext'
    BY <1>1, <1>4, <1>16, <2>1, <2>2 DEF Fresh
  <2>6. \A c \in ready' : c < nextCall'
    BY <1>1, <1>4 DEF Fresh
  <2>7. QED
    BY <2>3, <2>4, <2>5, <2>6 DEF Fresh
<1>27. QED
  <2>1. \A x \in Slots' : Live(Mail(g[x])) => Mail(g[x]).from # R
    BY <1>18, <1>19, <1>20
  <2>2. Bound(t) => Partner(t) = R
    BY <1>9
  <2>3. QED
    BY <1>6, <1>14, <1>15, <1>17, <1>18, <1>21, <1>22, <1>23, <1>24, <1>25, <1>26, <2>1, <2>2, MoveMirrors

(* A thread dispatches the message z that has left its box: one for it, or *)
(* one for anyone, in no transaction.                                      *)
Idle(t) == Len(stack[t]) = 1 /\ Off(t) = 1 /\ Depth(t) = 0 /\ Waits(t)

LEMMA DispatchMirrors ==
  ASSUME Base, Mirrored, ~setup.timed, NEW t \in Threads, stack[t] # <<>>, ~At(t, {"send", "handle"}),
         UNCHANGED <<peer, nextCall, peerNext, closed>>,
         NEW z \in Slots, NEW m \in Message, m = Mail(z), Dispatch(t, m),
         m.to = t \/ (m.to = Unbound /\ Idle(t)),
         \A u \in Threads : u # t => deque'[u] = deque[u], Parked(t) => z = <<t, 1>>,
         NEW h, Carried(h), \A x \in Slots' : h[x][1] = x[1] /\ h[x] # z
  PROVE  Mirrored'
<1>1. TypeOK /\ stack \in Stacks /\ Mails /\ Framed /\ Distinct /\ Placed /\ peer \in Peers /\ Fresh /\ expired = {}
  BY Typed DEF Base, Mirrored
<1>2. ~At(t, {"handle"}) /\ ~At(t, {"send"}) /\ ~Gone(t) /\ Top(t).data = None
  <2>1. ~At(t, {"handle"}) /\ ~At(t, {"send"}) /\ FrameOK(Top(t))
    BY <1>1, TopOK DEF At
  <2>2. QED
    BY <2>1 DEF At, FrameOK, Gone
<1>3. /\ stack' \in Stacks
      /\ m.kind = "request" =>
           /\ Becomes(t, "handle", m)
           /\ remote' = [remote EXCEPT ![t] = m.from]
           /\ occupation' = [occupation EXCEPT ![t] = occupation[t] + 1]
           /\ ready' = ready
      /\ m.kind = "reply" =>
           /\ Becomes(t, "loop", None)
           /\ remote' = [remote EXCEPT ![t] = IF occupation[t] = 1 THEN Unbound ELSE m.from]
           /\ occupation' = [occupation EXCEPT ![t] = occupation[t] - 1]
           /\ ready' = ready \cup {m.seq}
  BY <1>1, <1>2, DispatchIs
<1>4. PICK pc \in {"handle", "loop"}, d \in Message \cup {None} :
           /\ Becomes(t, pc, d) /\ Others(t)
           /\ m.kind = "request" => pc = "handle" /\ d = m
           /\ m.kind = "reply" => pc = "loop" /\ d = None
  BY <1>3 DEF Message, Becomes
<1>5. PICK n \in Nat :
           /\ n >= 1 /\ n = Len(stack[t]) /\ n = Len(stack'[t]) /\ stack'[t] # <<>>
           /\ 1 \in 1..n /\ n \in 1..n /\ \A i \in 1..n : i = n \/ i \in 1..(n - 1)
           /\ Top(t) = stack[t][n] /\ Top(t)' = stack'[t][n]
           /\ stack'[t][n] = [pc |-> pc, waits |-> Top(t).waits, data |-> d]
           /\ \A i \in 1..(n - 1) : stack'[t][i] = stack[t][i]
           /\ \A i \in 1..n : stack'[t][i].waits = stack[t][i].waits
           /\ Off(t)' = Off(t) /\ \A i : Place(t, i)' = Place(t, i)
           /\ n >= 2 \/ Off(t) = 0 \/ d = Top(t).data => Partner(t)' = Partner(t)
  <2>1. Becomes(t, pc, d) /\ stack' \in Stacks
    BY <1>3, <1>4
  <2>2. QED
    BY <2>1, BecomesIs
<1>6. stack'[t][n].pc = pc /\ stack'[t][n].data = d /\ stack'[t][n].waits = stack[t][n].waits
  BY <1>5
<1>7. Meant(m) /\ Live(m) /\ (m.kind = "request" \/ m.kind = "reply")
  BY <1>2 DEF Mirrored, Letters, Live, Message
<1>8. Unbound \notin Threads
  BY BoundAssumption DEF Unbound
<1>9. PICK R \in Remotes : R = m.from
  BY DEF Message
<1>10. m.to = t => Continues(m) /\ Bound(t) /\ Waits(t) /\ Partner(t) = R
  BY <1>2, <1>7, <1>8, <1>9 DEF Meant, Continues
<1>11. m.to = Unbound =>
         /\ m.kind = "request" /\ m.seq = R /\ peer[R] = <<[seq |-> m.seq, thread |-> None]>>
         /\ \A u \in Threads : Bound(u) => Partner(u) # R
         /\ n = 1 /\ Off(t) = 1 /\ Depth(t) = 0 /\ Waits(t) /\ ~Bound(t)
  <2> SUFFICES ASSUME m.to = Unbound
               PROVE  /\ m.kind = "request" /\ m.seq = R /\ peer[R] = <<[seq |-> m.seq, thread |-> None]>>
                      /\ \A u \in Threads : Bound(u) => Partner(u) # R
                      /\ n = 1 /\ Off(t) = 1 /\ Depth(t) = 0 /\ Waits(t) /\ ~Bound(t)
    OBVIOUS
  <2>1. Opens(m)
    BY <1>7 DEF Meant
  <2>2. n = 1 /\ Off(t) = 1 /\ Depth(t) = 0 /\ Waits(t)
    BY <1>5, <1>8 DEF Idle
  <2>3. ~Bound(t)
    BY <2>2 DEF Bound
  <2>4. QED
    BY <1>9, <2>1, <2>2, <2>3 DEF Opens
<1>12. Waits(t) /\ stack[t][n].waits \notin ready
  BY <1>5, <1>10, <1>11 DEF Waits
<1>13. PICK D \in Nat : D = Depth(t) /\ Off(t) \in {0, 1} /\ D = 2 * n - Off(t) - 1 /\ (Bound(t) <=> D >= 1)
  BY <1>5, <1>12, DepthIs DEF Bound
<1>14. ~Gone(t)' /\ ~Parked(t)' /\ ~Waits(t)'
  <2>1. pc = "loop" => stack[t][n].waits \in ready'
    <3>1. pc = "loop" => m.kind = "reply" /\ m.to = t
      BY <1>4, <1>7, <1>11
    <3>2. pc = "loop" => m.seq = stack[t][n].waits
      BY <1>5, <1>10, <3>1 DEF Continues
    <3>3. QED
      BY <1>3, <3>1, <3>2
  <2>2. Top(t)'.pc = pc /\ Top(t)'.waits = stack[t][n].waits
    BY <1>5, <1>6
  <2>3. QED
    BY <1>5, <2>1, <2>2 DEF Gone, Parked, Waits, At
<1>15. PICK E \in Nat :
          /\ E = Depth(t)' /\ (Bound(t)' <=> E >= 1)
          /\ m.kind = "request" => E = D + 1
          /\ m.kind = "reply" => E = D - 1
  <2>1. Top(t)'.pc = pc
    BY <1>5, <1>6
  <2>2. Rest(t)' = IF m.kind = "request" THEN 0 ELSE 2
    BY <1>4, <1>5, <1>7, <1>14, <2>1 DEF Rest, At
  <2>3. Depth(t)' = 2 * n - Off(t) - (IF m.kind = "request" THEN 0 ELSE 2)
    BY <1>5, <2>2 DEF Depth
  <2>4. CASE m.kind = "request"
    <3>1. Depth(t)' = D + 1
      BY <1>13, <2>3, <2>4
    <3>2. QED
      BY <2>4, <3>1 DEF Bound
  <2>5. CASE m.kind = "reply"
    <3>1. D >= 1
      BY <1>7, <1>10, <1>11, <1>13, <2>5
    <3>2. Depth(t)' = D - 1
      BY <1>13, <2>3, <2>5
    <3>3. QED
      BY <2>5, <3>1, <3>2 DEF Bound
  <2>6. QED
    BY <1>7, <2>4, <2>5
<1>16. Bound(t)' => Partner(t)' = R
  <2>1. CASE m.to = t
    <3>1. n >= 2 \/ Off(t) = 0
      <4>1. \A a \in Nat : \A o \in {0, 1} : a >= 1 /\ 2 * a - o - 1 >= 1 => a >= 2 \/ o = 0
        OBVIOUS
      <4>2. 2 * n - Off(t) - 1 >= 1
        BY <1>10, <1>13, <2>1
      <4>3. QED
        BY <1>5, <1>13, <4>1, <4>2
    <3>2. QED
      BY <1>5, <1>10, <2>1, <3>1
  <2>2. CASE m.to = Unbound
    <3>1. stack'[t][1].data = m /\ stack'[t][1].waits = None
      BY <1>4, <1>5, <1>6, <1>11, <2>2 DEF Off
    <3>2. QED
      BY <1>11, <2>2, <3>1 DEF Partner
  <2>3. QED
    BY <2>1, <2>2
<1>17. PICK items \in Seq(Item) : items = peer[R] /\ items = peer'[R] /\ Len(items) \in Nat
  BY <1>1 DEF Peers
<1>18. /\ Len(items) = E
       /\ m.kind = "request" => items[E] = [seq |-> m.seq, thread |-> None]
  <2>1. CASE m.to = t
    BY <1>7, <1>9, <1>10, <1>13, <1>15, <1>17, <2>1 DEF Continues
  <2>2. CASE m.to = Unbound
    <3>1. E = 1 /\ items = <<[seq |-> m.seq, thread |-> None]>>
      BY <1>11, <1>13, <1>15, <1>17, <2>2
    <3>2. QED
      BY <3>1
  <2>3. QED
    BY <2>1, <2>2
<1>19. ASSUME NEW u \in Threads, u # t
       PROVE  /\ SameView(u) /\ (Gone(u)' <=> Gone(u)) /\ (Parked(u)' <=> Parked(u))
              /\ occupation'[u] = occupation[u] /\ remote'[u] = remote[u]
              /\ Bound(u) => Partner(u) # R
              /\ \A i \in 1..Len(stack[u]) : stack[u][i].waits \in ready' => stack[u][i].waits \in ready
  <2>1. ready \subseteq ready'
    BY <1>3, <1>7
  <2>2. \A i \in 1..Len(stack[u]) : stack[u][i].waits \in ready' => stack[u][i].waits \in ready
    <3> SUFFICES ASSUME NEW i \in 1..Len(stack[u]), m.kind = "reply", stack[u][i].waits = m.seq
                 PROVE  FALSE
      BY <1>3, <1>7
    <3>1. m.seq = stack[t][n].waits /\ m.to = t
      BY <1>5, <1>10, <1>11 DEF Continues
    <3>2. m.seq # None
      <4>1. MailKnown(z)
        BY <1>1 DEF Placed
      <4>2. QED
        BY <4>1, NoneIs DEF MailKnown
    <3>3. n \in 1..Len(stack[t]) /\ stack[u][i].waits # None /\ stack[u][i].waits = stack[t][n].waits
      BY <1>5, <3>1, <3>2
    <3>4. u = t
      BY <1>1, <3>3 DEF Distinct
    <3>5. QED
      BY <1>19, <3>4
  <2>3. stack[u] # <<>> => (Top(u).waits \in ready' <=> Top(u).waits \in ready)
    <3> SUFFICES ASSUME stack[u] # <<>>
                 PROVE  Top(u).waits \in ready' => Top(u).waits \in ready
      BY <2>1
    <3>1. Len(stack[u]) \in 1..Len(stack[u]) /\ Top(u) = stack[u][Len(stack[u])]
      <4>1. Len(stack[u]) \in Nat /\ Len(stack[u]) >= 1 /\ Top(u) = stack[u][Len(stack[u])]
        BY <1>1, TopIs
      <4>2. QED
        BY <4>1
    <3>2. QED
      BY <2>2, <3>1
  <2>4. SameView(u) /\ (Gone(u)' <=> Gone(u)) /\ (Parked(u)' <=> Parked(u))
    BY <1>4, <1>19, <2>3, OthersSame
  <2>5. occupation'[u] = occupation[u] /\ remote'[u] = remote[u]
    BY <1>1, <1>3, <1>7, <1>19 DEF TypeOK
  <2>6. Bound(u) => Partner(u) # R
    BY <1>10, <1>11, <1>19 DEF Mirrored, Apart
  <2>7. QED
    BY <2>2, <2>4, <2>5, <2>6
<1>20. ASSUME NEW x \in Slots', Live(Mail(h[x])), Mail(h[x]).from = R
       PROVE  FALSE
  <2>1. h[x] \in Slots /\ h[x] # z
    BY DEF Carried
  <2>2. QED
    BY <1>7, <1>9, <1>20, <2>1 DEF Mirrored, Letters
<1>21. CountedOK(t)'
  <2>1. occupation[t] = D
    BY <1>2, <1>13 DEF Mirrored, Counted, CountedOK
  <2>2. CASE m.kind = "request"
    <3>1. occupation'[t] = E /\ remote'[t] = R /\ E >= 1
      BY <1>1, <1>3, <1>9, <1>15, <2>1, <2>2 DEF TypeOK
    <3>2. QED
      BY <1>15, <1>16, <3>1 DEF CountedOK
  <2>3. CASE m.kind = "reply"
    <3>1. occupation'[t] = E /\ remote'[t] = IF D = 1 THEN Unbound ELSE R
      BY <1>1, <1>3, <1>9, <1>15, <2>1, <2>3 DEF TypeOK
    <3>2. (E = 0 => D = 1) /\ (E >= 1 => D # 1)
      BY <1>13, <1>15, <2>3
    <3>3. QED
      BY <1>15, <1>16, <3>1, <3>2 DEF CountedOK
  <2>4. QED
    BY <1>7, <2>2, <2>3
<1>22. Bound(t)' => Mirrors(t, peer[R])'
  <2> SUFFICES ASSUME Bound(t)' PROVE Mirrors(t, peer[R])'
    OBVIOUS
  <2>1. /\ \A i \in 1..n : /\ Place(t, i) <= D /\ (i = n => Place(t, i) + 1 = D + 1)
                           /\ (D = 0 => Off(t) = 1 /\ i = 1)
    <3>1. \A a \in Nat : \A o \in {0, 1} : \A j \in 1..a :
            /\ 2 * j - 1 - o <= 2 * a - o - 1 /\ (j = a => 2 * j - 1 - o + 1 = 2 * a - o - 1 + 1)
            /\ 2 * a - o - 1 = 0 => o = 1 /\ j = 1
      OBVIOUS
    <3>2. QED
      BY <1>13, <3>1 DEF Place
  <2>2. ASSUME NEW i \in 1..n
        PROVE  Requested(t, items, i)' /\ Handles(t, items, i)'
    <3>1. CASE m.to = t
      <4>1. Mirrors(t, items)
        BY <1>10, <1>17, <3>1 DEF Mirrored, Agree
      <4>2. Requested(t, items, i) /\ Handles(t, items, i)
        BY <1>5, <4>1 DEF Mirrors
      <4>3. Requested(t, items, i)'
        BY <1>5, <1>13, <2>1, <4>2 DEF Requested
      <4>4. Handles(t, items, i)'
        <5>1. CASE i = n /\ m.kind = "request"
          <6>1. stack'[t][n].data = m /\ m.from = Partner(t)'
            BY <1>4, <1>6, <1>9, <1>16, <5>1
          <6>2. Place(t, n)' + 1 = E
            BY <1>5, <1>15, <2>1, <5>1
          <6>3. E <= Len(items)
            BY <1>18
          <6>4. QED
            BY <1>18, <5>1, <6>1, <6>2, <6>3 DEF Handles
        <5>2. CASE i = n /\ m.kind = "reply"
          BY <1>4, <1>6, <5>2 DEF Handles
        <5>3. CASE i # n
          <6>1. stack'[t][i] = stack[t][i] /\ Place(t, i)' = Place(t, i) /\ Partner(t)' = Partner(t)
            BY <1>5, <1>10, <1>16, <3>1, <5>3
          <6>2. QED
            BY <4>2, <6>1 DEF Handles
        <5>4. QED
          BY <1>7, <5>1, <5>2, <5>3
      <4>5. QED
        BY <4>3, <4>4
    <3>2. CASE m.to = Unbound
      <4>1. i = n /\ n = 1 /\ Place(t, n)' + 1 = E /\ m.kind = "request"
        BY <1>5, <1>11, <1>15, <2>1, <3>2
      <4>2. stack'[t][n].waits = None
        BY <1>5, <1>6, <1>11, <3>2 DEF Off
      <4>3. stack'[t][n].data = m /\ m.from = Partner(t)'
        BY <1>4, <1>6, <1>9, <1>16, <4>1
      <4>4. Requested(t, items, n)'
        BY <4>2 DEF Requested
      <4>5. E <= Len(items)
        BY <1>18
      <4>6. Handles(t, items, n)'
        BY <1>18, <4>1, <4>3, <4>5 DEF Handles
      <4>7. QED
        BY <4>1, <4>4, <4>6
    <3>3. QED
      BY <3>1, <3>2
  <2>3. \A i \in 1..Len(items) : items[i].thread \in {t, None}
    <3>1. CASE m.to = t
      BY <1>10, <1>17, <3>1 DEF Mirrored, Agree, Mirrors
    <3>2. CASE m.to = Unbound
      <4>1. items = <<[seq |-> m.seq, thread |-> None]>>
        BY <1>11, <1>17, <3>2
      <4>2. QED
        BY <4>1
    <3>3. QED
      BY <3>1, <3>2
  <2>4. Mirrors(t, items)'
    BY <1>5, <1>15, <1>18, <2>2, <2>3 DEF Mirrors
  <2>5. QED
    BY <1>17, <2>4
<1>23. \A x \in Asks' : x[1] = R => BackedOK(x)'
  <2> SUFFICES ASSUME NEW x \in Asks', x[1] = R, Entry(x)'.seq \in Calls
               PROVE  BackedOK(x)'
    BY DEF BackedOK
  <2>1. x \in Asks /\ Entry(x) = Entry(x)' /\ x[2] \in Nat /\ x[2] \in 1..E
    BY <1>17, <1>18 DEF Asks, Entry
  <2>2. E >= 1 /\ x[2] <= E
    BY <2>1
  <2>3. AskKnown(x) /\ BackedOK(x) /\ Entry(x).seq \in Calls
    BY <1>1, <2>1 DEF Placed, Mirrored, Backed
  <2>4. PICK u \in Threads : u = Entry(x).thread
    BY <2>3, CallsApart DEF AskKnown
  <2>5. Gone(u) \/ (Bound(u) /\ Partner(u) = R)
    BY <2>3, <2>4 DEF BackedOK
  <2>6. CASE Gone(u)
    BY <1>2, <1>19, <2>1, <2>4, <2>6 DEF BackedOK
  <2>7. CASE u = t
    BY <1>15, <1>16, <2>1, <2>2, <2>4, <2>7 DEF BackedOK
  <2>8. QED
    BY <1>19, <2>5, <2>6, <2>7
<1>24. ReadyTop'
  <2> SUFFICES ASSUME NEW u \in Threads, NEW i \in 1..Len(stack'[u]), stack'[u][i].waits \in ready'
               PROVE  i = Len(stack'[u]) /\ stack'[u][i].pc = "loop"
    BY DEF ReadyTop
  <2>1. CASE u = t
    <3>1. i \in 1..n /\ stack[t][i].waits = stack'[t][i].waits
      BY <1>5, <2>1
    <3>2. CASE stack[t][i].waits \in ready
      <4>1. i = n
        BY <1>5, <3>1, <3>2 DEF Mirrored, ReadyTop
      <4>2. QED
        BY <1>12, <3>2, <4>1
    <3>3. CASE m.kind = "reply" /\ stack[t][i].waits = m.seq
      <4>1. m.seq = stack[t][n].waits /\ pc = "loop"
        BY <1>4, <1>5, <1>10, <1>11, <3>3 DEF Continues
      <4>2. m.seq # None
        <5>1. MailKnown(z)
          BY <1>1 DEF Placed
        <5>2. QED
          BY <3>3, <5>1, NoneIs DEF MailKnown
      <4>3. i = n
        <5>1. i \in 1..Len(stack[t]) /\ n \in 1..Len(stack[t])
          BY <1>5, <3>1
        <5>2. stack[t][i].waits # None /\ stack[t][i].waits = stack[t][n].waits
          BY <3>3, <4>1, <4>2
        <5>3. QED
          BY <1>1, <5>1, <5>2 DEF Distinct
      <4>4. QED
        BY <1>5, <1>6, <2>1, <4>1, <4>3
    <3>4. QED
      BY <1>3, <1>7, <2>1, <3>1, <3>2, <3>3
  <2>2. CASE u # t
    BY <1>4, <1>19, <2>2 DEF Others, Mirrored, ReadyTop
  <2>3. QED
    BY <2>1, <2>2
<1>25. Delivered'
  <2> SUFFICES ASSUME NEW x \in Slots', x[1] # None PROVE DeliveredOK(x)'
    BY DEF Delivered, DeliveredOK
  <2>1. h[x] \in Slots /\ Mail(x)' = Mail(h[x]) /\ h[x][1] = x[1] /\ h[x] # z
    BY DEF Carried
  <2>2. DeliveredOK(h[x]) /\ x[1] \in Threads /\ h[x] = <<x[1], h[x][2]>> /\ h[x][2] \in 1..Len(deque[x[1]])
    BY <2>1 DEF Mirrored, Delivered, Slots, Boxes, Box
  <2>3. CASE x[1] # t
    BY <1>19, <2>1, <2>2, <2>3 DEF DeliveredOK
  <2>4. CASE x[1] = t
    <3>1. ~Parked(t)
      <4> SUFFICES ASSUME Parked(t) PROVE FALSE
        OBVIOUS
      <4>1. Len(deque[t]) = 1
        BY DEF Parked
      <4>2. h[x][2] = 1
        BY <2>2, <2>4, <4>1
      <4>3. QED
        BY <2>1, <2>2, <2>4, <4>2
    <3>2. QED
      BY <2>1, <2>2, <2>4, <3>1 DEF DeliveredOK
  <2>5. QED
    BY <2>3, <2>4
<1>26. Fresh'
  <2>1. Sends' \subseteq Sends
    BY <1>1, <1>4, SendsBecome
  <2>2. m.kind = "request" => m.seq \in PeerCalls /\ m.seq < peerNext
    <3>1. MailKnown(z)
      BY <1>1 DEF Placed
    <3>2. QED
      BY <3>1 DEF MailKnown
  <2>3. ASSUME NEW u \in Threads, NEW i \in 1..Len(stack'[u]), stack'[u][i].data # None
        PROVE  stack'[u][i].data.seq \in PeerCalls /\ stack'[u][i].data.seq < peerNext'
    <3>1. CASE u = t /\ i = n
      <4>1. d = m /\ m.kind = "request"
        BY <1>4, <1>6, <1>7, <2>3, <3>1
      <4>2. QED
        BY <1>6, <2>2, <3>1, <4>1
    <3>2. CASE ~(u = t /\ i = n)
      <4>1. i \in 1..Len(stack[u]) /\ stack'[u][i] = stack[u][i]
        BY <1>4, <1>5, <3>2 DEF Others
      <4>2. QED
        BY <1>1, <2>3, <4>1 DEF Fresh
    <3>3. QED
      BY <3>1, <3>2
  <2>4. \A x \in Slots' : Mail(x)'.from \in PeerCalls => Mail(x)'.from < peerNext'
    BY <1>1 DEF Fresh, Carried
  <2>5. /\ \A r \in Calls : peer'[r] # <<>> => r < nextCall' /\ r \notin Sends'
        /\ \A r \in PeerCalls : peer'[r] # <<>> => r < peerNext'
    BY <1>1, <2>1 DEF Fresh
  <2>6. \A c \in ready' : c < nextCall'
    <3>1. m.kind = "reply" => m.seq < nextCall
      <4>1. MailKnown(z)
        BY <1>1 DEF Placed
      <4>2. QED
        BY <4>1 DEF MailKnown
    <3>2. QED
      BY <1>1, <1>3, <1>7, <3>1 DEF Fresh
  <2>7. QED
    BY <2>3, <2>4, <2>5, <2>6 DEF Fresh
<1>27. QED
  <2>1. Bound(t) => Partner(t) = R
    BY <1>10, <1>11
  <2>2. \A r \in Remotes : r # R => peer'[r] = peer[r]
    OBVIOUS
  <2>3. QED
    BY <1>2, <1>14, <1>16, <1>19, <1>20, <1>21, <1>22, <1>23, <1>24, <1>25, <1>26, <2>1, <2>2, MoveMirrors

-----------------------------------------------------------------------------
(* Steps of one thread that are in no transaction of its.                  *)
LEMMA QuietStep ==
  ASSUME Base, Mirrored, NEW t \in Threads, Others(t), stack' \in Stacks, closed => closed',
         UNCHANGED <<occupation, remote, peer, inbox, deque, ready, peerNext>>,
         nextCall' \in {nextCall, nextCall + 1}, Sends' \subseteq Sends \cup {nextCall},
         ~Parked(t), Gone(t) => Gone(t)', SameView(t) \/ (Gone(t)' /\ Depth(t)' = 0),
         \A i \in 1..Len(stack'[t]) :
           /\ stack'[t][i].waits \notin ready
           /\ stack'[t][i].data # None =>
                i \in 1..Len(stack[t]) /\ stack'[t][i].data = stack[t][i].data
  PROVE  Mirrored'
<1>1. Fresh /\ nextCall \in Nat /\ Calls \subseteq Nat /\ ready \subseteq Calls
  <2>1. Fresh /\ TypeOK
    BY DEF Base, Mirrored
  <2>2. Calls \subseteq Nat
    BY BoundAssumption DEF Calls
  <2>3. nextCall \in Nat /\ ready \subseteq Calls
    BY <2>1, <2>2, BoundAssumption DEF TypeOK
  <2>4. QED
    BY <2>1, <2>2, <2>3
<1>2. ASSUME NEW u \in Threads, u # t
      PROVE  SameView(u) /\ (Gone(u) => Gone(u)') /\ (Parked(u)' <=> Parked(u))
  <2>1. stack'[u] = stack[u] /\ \A pcs : At(u, pcs)' <=> At(u, pcs)
    BY <1>2, OthersStay
  <2>2. SameView(u) /\ Top(u)' = Top(u)
    BY <2>1, StackStays
  <2>3. QED
    BY <2>1, <2>2 DEF Gone, Parked
<1>3. PICK g : Carried(g)
  BY MailStays
<1>4. Slots' = Slots /\ \A x : Mail(x)' = Mail(x)
  BY MailStays
<1>5. ReadyTop'
  <2> SUFFICES ASSUME NEW u \in Threads, NEW i \in 1..Len(stack'[u]), stack'[u][i].waits \in ready
               PROVE  i = Len(stack'[u]) /\ stack'[u][i].pc = "loop"
    BY DEF ReadyTop
  <2>1. u # t
    OBVIOUS
  <2>2. QED
    BY <2>1 DEF Others, Mirrored, ReadyTop
<1>6. Delivered'
  <2> SUFFICES ASSUME NEW x \in Slots PROVE DeliveredOK(x)'
    BY <1>4 DEF Delivered
  <2>1. DeliveredOK(x) /\ Mail(x)' = Mail(x) /\ (x[1] # None => x[1] \in Threads)
    BY <1>4 DEF Mirrored, Delivered, Slots, Boxes
  <2>2. QED
    BY <1>2, <2>1 DEF DeliveredOK
<1>7. Fresh'
  <2>1. ASSUME NEW r \in Calls, peer[r] # <<>>
        PROVE  r < nextCall' /\ r \notin Sends'
    <3>1. r < nextCall /\ r \notin Sends /\ r \in Nat
      BY <1>1, <2>1 DEF Fresh
    <3>2. QED
      BY <1>1, <3>1
  <2>2. \A c \in ready : c < nextCall'
    <3>1. \A c \in ready : c \in Nat /\ c < nextCall
      BY <1>1 DEF Fresh
    <3>2. QED
      BY <1>1, <3>1
  <2>3. ASSUME NEW u \in Threads, NEW i \in 1..Len(stack'[u]), stack'[u][i].data # None
        PROVE  stack'[u][i].data.seq \in PeerCalls /\ stack'[u][i].data.seq < peerNext
    <3>1. i \in 1..Len(stack[u]) /\ stack'[u][i].data = stack[u][i].data
      BY <2>3 DEF Others
    <3>2. QED
      BY <1>1, <2>3, <3>1 DEF Fresh
  <2>4. \A x \in Slots' : Mail(x)'.from \in PeerCalls => Mail(x)'.from < peerNext
    BY <1>1, <1>4 DEF Fresh
  <2>5. \A r \in PeerCalls : peer[r] # <<>> => r < peerNext
    BY <1>1 DEF Fresh
  <2>6. QED
    BY <2>1, <2>2, <2>3, <2>4, <2>5 DEF Fresh
<1>8. QED
  BY <1>2, <1>3, <1>5, <1>6, <1>7, QuietMirrors

(* Who waits, and for what, when a thread serves.                          *)
LEMMA ServingWaits ==
  ASSUME Base, Mirrored, NEW t \in Threads, Serving(t) \/ At(t, {"pool"}) \/ At(t, {"recv"}), expired = {}
  PROVE  Waits(t)
<1>1. TypeOK /\ stack \in Stacks /\ None \notin ready
  BY Typed, NoneIs DEF Base, TypeOK
<1>2. stack[t] # <<>> /\ At(t, {"first", "loop", "pool", "recv", "closing"})
  BY DEF Serving, At
<1>3. CASE At(t, {"loop"}) /\ ~Over(t)
  BY <1>1, <1>2, <1>3 DEF Waits, Over
<1>4. CASE At(t, {"first", "pool", "recv"})
  <2>1. PICK n \in Nat : n = Len(stack[t]) /\ n \in 1..n /\ Top(t) = stack[t][n]
    <3>1. Len(stack[t]) \in Nat /\ Len(stack[t]) >= 1 /\ Top(t) = stack[t][Len(stack[t])]
      BY <1>1, <1>2, TopIs
    <3>2. QED
      BY <3>1
  <2>2. Top(t).pc # "loop"
    BY <1>4 DEF At
  <2>3. Top(t).waits \notin ready
    BY <2>1, <2>2 DEF Mirrored, ReadyTop
  <2>4. QED
    BY <1>2, <2>3 DEF Waits
<1>5. QED
  BY <1>3, <1>4 DEF Serving, At

(* A thread that waits, in no transaction: in the outermost activation,    *)
(* for nothing.                                                            *)
LEMMA IdleIs ==
  ASSUME Base, NEW t \in Threads, Waits(t)
  PROVE  /\ Depth(t) = 0 => Idle(t) /\ Top(t).waits = None
         /\ Len(stack[t]) = 1 /\ Top(t).waits = None => Idle(t)
<1>1. stack[t] # <<>>
  BY DEF Waits, At
<1>2. /\ Len(stack[t]) \in Nat /\ Len(stack[t]) >= 1 /\ Off(t) \in {0, 1}
      /\ Depth(t) = 2 * Len(stack[t]) - Off(t) - 1
      /\ Len(stack[t]) = 1 => (Off(t) = 1 <=> Top(t).waits = None)
  BY <1>1, DepthIs
<1>3. \A n \in Nat : \A o \in {0, 1} : n >= 1 =>
        /\ 2 * n - o - 1 = 0 => n = 1 /\ o = 1
        /\ n = 1 /\ o = 1 => 2 * n - o - 1 = 0
  OBVIOUS
<1>4. /\ Depth(t) = 0 => Len(stack[t]) = 1 /\ Off(t) = 1
      /\ Len(stack[t]) = 1 /\ Off(t) = 1 => Depth(t) = 0
  BY <1>2, <1>3
<1>5. QED
  BY <1>2, <1>4 DEF Idle

LEMMA ParkedIdle ==
  ASSUME Base, Mirrored, NEW t \in Threads, Parked(t)
  PROVE  Idle(t) /\ ~Gone(t) /\ ~Bound(t) /\ stack[t] # <<>>
<1>1. stack[t] # <<>> /\ ~Gone(t) /\ Len(stack[t]) = 1 /\ Top(t).waits = None /\ None \notin ready
  BY NoneIs DEF Parked, At, Gone, Base, TypeOK
<1>2. Waits(t)
  BY <1>1 DEF Parked, Waits, At
<1>3. Idle(t)
  BY <1>1, <1>2, IdleIs
<1>4. QED
  BY <1>1, <1>3 DEF Idle, Bound

(* Between two requests or transactions a thread goes from where it serves *)
(* to another place.                                                       *)
LEMMA WaitsMirrors ==
  ASSUME Base, Mirrored, NEW t \in Threads, Waits(t), ~Parked(t),
         NEW pc \in {"loop", "pool", "recv", "closing"}, Becomes(t, pc, None), stack' \in Stacks, closed => closed',
         UNCHANGED <<occupation, remote, peer, inbox, deque, ready, nextCall, peerNext>>
  PROVE  Mirrored'
<1>1. stack \in Stacks /\ Framed /\ Distinct
  BY Typed DEF Base
<1>2. SameView(t) /\ ~Gone(t)' /\ ~Gone(t) /\ Others(t)
  <2>1. SameView(t) /\ ~Gone(t)'
    BY WaitsStays
  <2>2. ~Gone(t) /\ Others(t)
    BY DEF Gone, Waits, At, Becomes
  <2>3. QED
    BY <2>1, <2>2
<1>3. PICK n \in Nat :
           /\ n = Len(stack[t]) /\ n = Len(stack'[t])
           /\ \A i \in 1..n : i = n \/ i \in 1..(n - 1)
           /\ Top(t) = stack[t][n]
           /\ stack'[t][n] = [pc |-> pc, waits |-> Top(t).waits, data |-> None]
           /\ \A i \in 1..(n - 1) : stack'[t][i] = stack[t][i]
           /\ \A i \in 1..n : stack'[t][i].waits = stack[t][i].waits
  BY BecomesIs
<1>4. Sends' \subseteq Sends
  BY <1>1, SendsBecome
<1>5. ASSUME NEW i \in 1..Len(stack'[t])
      PROVE  /\ stack'[t][i].waits \notin ready
             /\ stack'[t][i].data # None =>
                  i \in 1..Len(stack[t]) /\ stack'[t][i].data = stack[t][i].data
  <2>1. stack'[t][i].waits = stack[t][i].waits /\ i \in 1..Len(stack[t])
    BY <1>3
  <2>2. stack[t][i].waits \notin ready
    <3>1. CASE i = n
      BY <1>3, <3>1 DEF Waits
    <3>2. CASE i # n
      BY <1>3, <2>1, <3>2 DEF Mirrored, ReadyTop
    <3>3. QED
      BY <3>1, <3>2
  <2>3. stack'[t][i].data = None \/ stack'[t][i].data = stack[t][i].data
    <3>1. stack'[t][n].data = None
      BY <1>3
    <3>2. QED
      BY <1>3, <3>1
  <2>4. QED
    BY <2>1, <2>2, <2>3
<1>6. QED
  BY <1>2, <1>4, <1>5, QuietStep

-----------------------------------------------------------------------------
(* A thread takes a message from its box and dispatches it: one for it, or *)
(* one for anyone when it is in no transaction.                            *)
Takes(t) ==
  /\ stack[t] # <<>> /\ ~At(t, {"send", "handle"})
  /\ UNCHANGED <<peer, nextCall, peerNext, closed>>
  /\ \A u \in Threads : u # t => deque'[u] = deque[u]
  /\ \E z \in Slots, m \in Message : \E h :
       /\ m = Mail(z) /\ Dispatch(t, m)
       /\ m.to = t \/ (m.to = Unbound /\ Idle(t))
       /\ Parked(t) => z = <<t, 1>>
       /\ Carried(h) /\ \A x \in Slots' : h[x][1] = x[1] /\ h[x] # z

LEMMA TakesMirrors ==
  ASSUME Base, Mirrored, ~setup.timed, NEW t \in Threads, Takes(t)
  PROVE  Mirrored'
<1>1. /\ stack[t] # <<>> /\ ~At(t, {"send", "handle"})
      /\ UNCHANGED <<peer, nextCall, peerNext, closed>>
      /\ \A u \in Threads : u # t => deque'[u] = deque[u]
  BY DEF Takes
<1>2. PICK z \in Slots, m \in Message :
        /\ m = Mail(z) /\ Dispatch(t, m)
        /\ m.to = t \/ (m.to = Unbound /\ Idle(t))
        /\ Parked(t) => z = <<t, 1>>
        /\ \E h : Carried(h) /\ \A x \in Slots' : h[x][1] = x[1] /\ h[x] # z
  BY DEF Takes
<1>3. PICK h : Carried(h) /\ \A x \in Slots' : h[x][1] = x[1] /\ h[x] # z
  BY <1>2
<1>4. QED
  BY <1>1, <1>2, <1>3, DispatchMirrors

LEMMA TakesOwn ==
  ASSUME Base, Mirrored, ~setup.timed, NEW t \in Threads, ServeOwn(t) \/ PoolOwn(t)
  PROVE  Takes(t)
<1>1. stack[t] # <<>> /\ ~At(t, {"send", "handle"})
  BY DEF ServeOwn, PoolOwn, Serving, At
<1>2. /\ HasMessage(t) /\ TakeOwn(t)
      /\ UNCHANGED <<peer, inbox, nextCall, peerNext, closed>>
  BY DEF ServeOwn, PoolOwn, peerVars
<1>3. \A u \in Threads : u # t => deque'[u] = deque[u]
  BY <1>2, TakeOwnIs
<1>4. PICK z \in Slots : \E h :
         /\ z = <<t, 1>> /\ Mail(z) = Head(deque[t]) /\ Dispatch(t, Mail(z))
         /\ Mail(z).kind = "reply" => Mail(z).to = t
         /\ Carried(h) /\ \A x \in Slots' : h[x][1] = x[1] /\ h[x] # z
  BY <1>2, TakeOwnIs
<1>5. PICK m \in Message : m = Mail(z)
  BY Typed, MailType DEF Base
<1>6. m.to = t \/ (m.to = Unbound /\ Idle(t))
  <2>1. DeliveredOK(z) /\ z[1] = t /\ t # None
    BY <1>4, NoneIs DEF Mirrored, Delivered
  <2>2. m.to = t \/ (m.to = Unbound /\ Parked(t))
    BY <1>5, <2>1 DEF DeliveredOK
  <2>3. QED
    BY <2>2, ParkedIdle
<1>7. Dispatch(t, m)
  BY <1>4, <1>5
<1>8. QED
  BY <1>1, <1>2, <1>3, <1>4, <1>5, <1>6, <1>7 DEF Takes

(* The receiver takes what is for it, or for anyone while it is not        *)
(* occupied.                                                               *)
LEMMA TakesReceived ==
  ASSUME Base, Mirrored, ~setup.timed, NEW t \in Threads, ReceiveOwn(t)
  PROVE  Takes(t)
<1>1. TypeOK /\ At(t, {"recv"}) /\ inbox # <<>> /\ ~closed /\ expired = {}
  BY DEF ReceiveOwn, Base
<1>2. stack[t] # <<>> /\ ~At(t, {"send", "handle"}) /\ ~Parked(t) /\ ~Gone(t)
  BY <1>1 DEF At, Parked, Gone
<1>3. /\ inbox' = Tail(inbox)
      /\ UNCHANGED <<deque, peer, nextCall, peerNext, closed>>
  BY DEF ReceiveOwn, peerVars
<1>4. PICK h : Carried(h) /\ \A x \in Slots' : h[x][1] = x[1] /\ h[x] # <<None, 1>>
  BY <1>1, <1>3, InboxTaken
<1>5. <<None, 1>> \in Slots /\ Mail(<<None, 1>>) = Head(inbox)
  BY <1>1, <1>3, InboxTaken
<1>6. PICK m \in Message : m = Mail(<<None, 1>>) /\ m = Head(inbox)
  BY <1>1, <1>5, Typed, MailType
<1>7. Dispatch(t, m) /\ ~MeantElsewhere(t, m) /\ ~(m.to = Unbound /\ Occupied(t))
  BY <1>6 DEF ReceiveOwn
<1>8. m.to = t \/ (m.to = Unbound /\ Idle(t))
  <2>1. m.to = t \/ (m.to = Unbound /\ ~Occupied(t))
    BY <1>7 DEF MeantElsewhere
  <2>2. ASSUME ~Occupied(t)
        PROVE  Idle(t)
    <3>1. Depth(t) = 0
      BY <1>2, <2>2 DEF Occupied, Mirrored, Counted, CountedOK
    <3>2. Waits(t)
      BY <1>1, ServingWaits
    <3>3. QED
      BY <3>1, <3>2, IdleIs
  <2>3. QED
    BY <2>1, <2>2
<1>9. QED
  BY <1>2, <1>3, <1>4, <1>5, <1>6, <1>7, <1>8 DEF Takes

-----------------------------------------------------------------------------
(* Steps that move no thread, and those of one that waits.                 *)
LEMMA StillMirrors ==
  ASSUME Base, Mirrored,
         UNCHANGED <<stack, occupation, remote, peer, inbox, deque, ready, nextCall, peerNext, closed>>
  PROVE  Mirrored'
<1>1. ASSUME NEW u \in Threads
      PROVE  SameView(u) /\ (Gone(u) => Gone(u)') /\ (Parked(u)' <=> Parked(u))
  <2>1. \A pcs : At(u, pcs)' <=> At(u, pcs)
    BY DEF At, Top
  <2>2. SameView(u) /\ Top(u)' = Top(u)
    BY StackStays
  <2>3. QED
    BY <2>1, <2>2 DEF Gone, Parked
<1>2. PICK g : Carried(g)
  BY MailStays
<1>3. Slots' = Slots /\ \A x : Mail(x)' = Mail(x)
  BY MailStays
<1>4. ReadyTop'
  BY DEF Mirrored, ReadyTop
<1>5. Delivered'
  <2> SUFFICES ASSUME NEW x \in Slots PROVE DeliveredOK(x)'
    BY <1>3 DEF Delivered
  <2>1. DeliveredOK(x) /\ Mail(x)' = Mail(x) /\ (x[1] # None => x[1] \in Threads)
    BY <1>3 DEF Mirrored, Delivered, Slots, Boxes
  <2>2. QED
    BY <1>1, <2>1 DEF DeliveredOK
<1>6. Fresh'
  <2>1. Sends' = Sends
    BY DEF Sends
  <2>2. Fresh
    BY DEF Mirrored
  <2>3. QED
    BY <1>3, <2>1, <2>2 DEF Fresh
<1>7. QED
  BY <1>1, <1>2, <1>4, <1>5, <1>6, QuietMirrors

LEMMA NotParked ==
  ASSUME Base, NEW t \in Threads, ~HasMessage(t) \/ deque[t] = <<>> \/ ~At(t, {"first", "pool"})
  PROVE  ~Parked(t)
<1>1. CASE deque[t] = <<>>
  BY <1>1 DEF Parked
<1>2. CASE ~At(t, {"first", "pool"})
  BY <1>2 DEF Parked
<1>3. CASE ~HasMessage(t)
  BY <1>1, <1>3 DEF HasMessage, Base, EventsSet
<1>4. QED
  BY <1>1, <1>2, <1>3

LEMMA ServeMirrors ==
  ASSUME Base, Mirrored, ~setup.timed, NEW t \in Threads, EnterPool(t) \/ ReceiveAtOnce(t)
  PROVE  Mirrored'
<1>1. Waits(t) /\ stack[t] # <<>> /\ ~At(t, {"send", "handle"}) /\ ~Parked(t)
  <2>1. Serving(t) /\ ~HasMessage(t) /\ expired = {}
    BY DEF EnterPool, ReceiveAtOnce, Base
  <2>2. At(t, {"first", "loop"}) /\ stack[t] # <<>>
    BY <2>1, ServingAt
  <2>3. ~At(t, {"send", "handle"})
    BY <2>2 DEF At
  <2>4. QED
    BY <2>1, <2>2, <2>3, ServingWaits, NotParked
<1>2. UNCHANGED <<occupation, remote, peer, inbox, deque, ready, nextCall, peerNext, closed>>
  BY DEF EnterPool, ReceiveAtOnce, threadVars, resultVars, peerVars
<1>3. PICK pc \in {"pool", "recv"} : Goto(t, pc)
  BY DEF EnterPool, ReceiveAtOnce
<1>4. Becomes(t, pc, None) /\ stack' \in Stacks
  <2>1. pc \in Labels
    BY DEF Labels
  <2>2. QED
    BY <1>1, <1>3, <2>1, GoesTo
<1>5. QED
  BY <1>1, <1>2, <1>4, WaitsMirrors

LEMMA PoolReceivesMirrors ==
  ASSUME Base, Mirrored, ~setup.timed, NEW t \in Threads, PoolReceives(t)
  PROVE  Mirrored'
<1>1. UNCHANGED <<occupation, remote, peer, inbox, deque, ready, nextCall, peerNext, closed>>
  BY DEF PoolReceives, threadVars, resultVars, peerVars
<1>2. CASE UNCHANGED stack
  BY <1>1, <1>2, StillMirrors
<1>3. CASE Goto(t, "recv")
  <2>1. At(t, {"pool"}) /\ stack[t] # <<>> /\ ~At(t, {"send", "handle"}) /\ deque[t] = <<>> /\ expired = {}
    BY DEF PoolReceives, At, Base
  <2>2. Waits(t) /\ ~Parked(t)
    BY <2>1, ServingWaits, NotParked
  <2>3. Becomes(t, "recv", None) /\ stack' \in Stacks
    BY <1>3, <2>1, GoesTo DEF Labels
  <2>4. QED
    BY <1>1, <2>2, <2>3, WaitsMirrors
<1>4. QED
  BY <1>2, <1>3 DEF PoolReceives

(* The end of the connection.                                              *)
LEMMA UnwindMirrors ==
  ASSUME Base, Mirrored, NEW t \in Threads, Unwind(t), ~Parked(t), closed',
         UNCHANGED <<occupation, remote, peer, inbox, deque, ready, nextCall, peerNext>>
  PROVE  Mirrored'
<1>1. stack \in Stacks
  BY Typed DEF Base
<1>2. AllEnd(t) /\ stack' \in Stacks
  BY <1>1, UnwindEnds
<1>3. Gone(t)' /\ Depth(t)' = 0
  BY <1>2, AllEndGone
<1>4. Sends' \subseteq Sends
  BY <1>1, <1>2, SendsEnd
<1>5. Others(t) /\ Len(stack'[t]) = 0
  BY <1>2 DEF AllEnd
<1>6. ~(\E i \in 1..Len(stack'[t]) : TRUE)
  BY <1>5
<1>7. nextCall' \in {nextCall, nextCall + 1} /\ Sends' \subseteq Sends \cup {nextCall}
  BY <1>4
<1>8. QED
  BY <1>2, <1>3, <1>5, <1>6, <1>7, QuietStep

LEMMA SendFailsMirrors ==
  ASSUME Base, Mirrored, NEW t \in Threads, SendFails(t)
  PROVE  Mirrored'
<1>1. /\ Unwind(t) /\ closed' /\ At(t, {"send", "handle"})
      /\ UNCHANGED <<occupation, remote, peer, inbox, deque, ready, nextCall, peerNext>>
  BY DEF SendFails, threadVars, poolVars, resultVars, peerVars
<1>2. ~Parked(t)
  <2>1. ~At(t, {"first", "pool"})
    BY <1>1 DEF At
  <2>2. QED
    BY <2>1, NotParked
<1>3. QED
  BY <1>1, <1>2, UnwindMirrors

LEMMA ClosedMirrors ==
  ASSUME Base, Mirrored, NEW t \in Threads, Closed(t)
  PROVE  Mirrored'
<1>1. /\ Unwind(t) /\ At(t, {"closing"}) /\ stack[t] # <<>>
      /\ UNCHANGED <<occupation, remote, peer, inbox, deque, ready, nextCall, peerNext, closed>>
  BY DEF Closed, At, threadVars, resultVars, peerVars
<1>2. closed'
  <2>1. FrameOK(Top(t))
    BY <1>1, Typed, TopOK DEF Base
  <2>2. QED
    BY <1>1, <2>1 DEF FrameOK, At
<1>3. ~Parked(t)
  <2>1. ~At(t, {"first", "pool"})
    BY <1>1 DEF At
  <2>2. QED
    BY <2>1, NotParked
<1>4. QED
  BY <1>1, <1>2, <1>3, UnwindMirrors

LEMMA ReceiveEOFMirrors ==
  ASSUME Base, Mirrored, ~setup.timed, NEW t \in Threads, ReceiveEOF(t)
  PROVE  Mirrored'
<1>1. /\ At(t, {"recv"}) /\ closed' /\ expired = {} /\ stack[t] # <<>> /\ ~At(t, {"send", "handle"})
      /\ UNCHANGED <<occupation, remote, peer, inbox, deque, ready, nextCall, peerNext>>
  BY DEF ReceiveEOF, At, Base, threadVars, poolVars, resultVars, peerVars
<1>2. ~Parked(t)
  <2>1. ~At(t, {"first", "pool"})
    BY <1>1 DEF At
  <2>2. QED
    BY <2>1, NotParked
<1>3. CASE Unwind(t)
  BY <1>1, <1>2, <1>3, UnwindMirrors
<1>4. CASE Goto(t, "closing")
  <2>1. Waits(t)
    BY <1>1, ServingWaits
  <2>2. Becomes(t, "closing", None) /\ stack' \in Stacks
    BY <1>1, <1>4, GoesTo DEF Labels
  <2>3. QED
    BY <1>1, <1>2, <2>1, <2>2, WaitsMirrors
<1>5. QED
  BY <1>3, <1>4 DEF ReceiveEOF

(* Calls and returns.                                                      *)
LEMMA ReturnMirrors ==
  ASSUME Base, Mirrored, ~setup.timed, NEW t \in Threads, Return(t)
  PROVE  Mirrored'
<1>1. stack \in Stacks /\ Framed
  BY Typed DEF Base
<1>2. At(t, {"loop"}) /\ Ends(t) /\ stack' \in Stacks /\ Others(t)
  BY ReturnIs DEF Ends
<1>3. UNCHANGED <<occupation, remote, peer, inbox, deque, ready, nextCall, peerNext, closed>>
  BY DEF Return, threadVars, poolVars, resultVars, peerVars
<1>4. Top(t).waits = None \/ Top(t).waits \in ready
  <2>1. expired = {}
    BY DEF Base
  <2>2. QED
    BY <2>1 DEF Return, Over
<1>5. SameView(t) /\ ~Gone(t)
  BY <1>2, <1>3, <1>4, EndsStays
<1>6. Sends' \subseteq Sends
  BY <1>1, <1>2, SendsEnd
<1>7. nextCall' \in {nextCall, nextCall + 1} /\ Sends' \subseteq Sends \cup {nextCall}
  BY <1>3, <1>6
<1>8. ~Parked(t)
  <2>1. ~At(t, {"first", "pool"})
    BY <1>2 DEF At
  <2>2. QED
    BY <2>1, NotParked
<1>9. ASSUME NEW i \in 1..Len(stack'[t])
      PROVE  /\ stack'[t][i].waits \notin ready
             /\ stack'[t][i].data # None =>
                  i \in 1..Len(stack[t]) /\ stack'[t][i].data = stack[t][i].data
  <2>1. PICK n \in Nat : n = Len(stack[t])
    BY <1>1, <1>2, TopIs DEF Ends
  <2>2. i \in 1..(n - 1) /\ i \in 1..n /\ i # n
    BY <1>2, <2>1 DEF Ends
  <2>3. stack'[t][i] = stack[t][i]
    BY <1>2, <2>1, <2>2 DEF Ends
  <2>4. stack[t][i].waits \notin ready
    BY <2>1, <2>2 DEF Mirrored, ReadyTop
  <2>5. QED
    BY <2>1, <2>2, <2>3, <2>4
<1>10. QED
  BY <1>2, <1>3, <1>5, <1>7, <1>8, <1>9, QuietStep

LEMMA CallMirrors ==
  ASSUME Base, Mirrored, NEW t \in Threads, ClientCalls(t) \/ HandlerCalls(t)
  PROVE  Mirrored'
<1>1. stack \in Stacks /\ Framed /\ Fresh
  BY Typed DEF Base, Mirrored
<1>2. Call(t) /\ (stack[t] = <<>> \/ At(t, {"handle"}))
  BY DEF ClientCalls, HandlerCalls
<1>3. /\ UNCHANGED <<occupation, remote, peer, inbox, deque, ready, peerNext, closed>>
      /\ nextCall' = nextCall + 1
  BY <1>2 DEF Call, threadVars, poolVars, resultVars, peerVars
<1>4. PICK s \in Calls : s = nextCall /\ Begins(t, NewFrame(s, "send")) /\ stack' \in Stacks
  BY <1>2, CallIs
<1>5. SameView(t) /\ (Gone(t)' <=> Gone(t)) /\ Others(t)
  <2>1. SameView(t) /\ (Gone(t)' <=> Gone(t))
    BY <1>2, <1>3, <1>4, BeginsStays
  <2>2. QED
    BY <1>4, <2>1 DEF Begins
<1>6. Sends' \subseteq Sends \cup {nextCall}
  <2>1. NewFrame(s, "send").pc = "send" /\ NewFrame(s, "send").waits = s
    BY DEF NewFrame
  <2>2. QED
    BY <1>1, <1>4, <2>1, SendsBegin
<1>7. ~Parked(t)
  BY <1>2 DEF Parked, At
<1>8. ASSUME NEW i \in 1..Len(stack'[t])
      PROVE  /\ stack'[t][i].waits \notin ready
             /\ stack'[t][i].data # None =>
                  i \in 1..Len(stack[t]) /\ stack'[t][i].data = stack[t][i].data
  <2>1. PICK n \in Nat : n = Len(stack[t])
    BY <1>1 DEF Stacks
  <2>2. i \in 1..n \/ i = n + 1
    BY <1>4, <2>1 DEF Begins
  <2>3. CASE i \in 1..n
    <3>1. stack'[t][i] = stack[t][i]
      BY <1>4, <2>1, <2>3 DEF Begins
    <3>2. stack[t][i].pc = "handle"
      <4>1. At(t, {"handle"}) /\ stack[t] # <<>>
        BY <1>2, <2>1, <2>3 DEF At
      <4>2. stack[t][n].pc = "handle"
        BY <1>1, <2>1, <4>1, TopIs DEF At
      <4>3. i = n \/ i \in 1..(n - 1)
        BY <2>3
      <4>4. QED
        BY <1>1, <2>1, <4>2, <4>3 DEF Framed
    <3>3. stack[t][i].waits \notin ready
      BY <2>1, <2>3, <3>2 DEF Mirrored, ReadyTop
    <3>4. QED
      BY <2>1, <2>3, <3>1, <3>3
  <2>4. CASE i = n + 1
    <3>1. stack'[t][i].waits = s /\ stack'[t][i].data = None
      BY <1>4, <2>1, <2>4 DEF Begins, NewFrame
    <3>2. s \notin ready
      <4>1. s \in Nat /\ ~(s < s)
        BY BoundAssumption DEF Calls
      <4>2. QED
        BY <1>1, <1>4, <4>1 DEF Fresh
    <3>3. QED
      BY <3>1, <3>2
  <2>5. QED
    BY <2>2, <2>3, <2>4
<1>9. nextCall' \in {nextCall, nextCall + 1} /\ (closed => closed')
  BY <1>3
<1>10. QED
  BY <1>3, <1>4, <1>5, <1>6, <1>7, <1>8, <1>9, QuietStep

-----------------------------------------------------------------------------
(* The receiver hands the first message of the channel to u.               *)
LEMMA HandMirrors ==
  ASSUME Base, Mirrored, NEW u \in Threads, inbox # <<>>, inbox' = Tail(inbox), Hand(u, Head(inbox)),
         UNCHANGED <<occupation, remote, peer, ready, nextCall, peerNext, closed>>,
         UNCHANGED stack \/ (stack[u] = <<>> /\ Begins(u, NewFrame(None, "first")) /\ stack' \in Stacks),
         SameView(u), Gone(u) => Gone(u)', ~Parked(u),
         Head(inbox).to = u \/ (Head(inbox).to = Unbound /\ Parked(u)')
  PROVE  Mirrored'
<1>1. TypeOK /\ Mails /\ stack \in Stacks /\ Fresh /\ Others(u)
  BY Typed DEF Base, Mirrored, Others, Begins
<1>2. deque' = [deque EXCEPT ![u] = Append(deque[u], Head(inbox))] /\ \A v \in Threads : v # u => deque'[v] = deque[v]
  BY <1>1 DEF Hand, Mails
<1>3. PICK g : /\ Carried(g)
               /\ \A x \in Slots' : IF g[x] = <<None, 1>> THEN x = <<u, Len(deque[u]) + 1>>
                                                          ELSE g[x][1] = x[1]
  BY <1>1, <1>2, MailMoved
<1>4. <<None, 1>> \in Slots /\ Mail(<<None, 1>>) = Head(inbox)
  BY <1>1, <1>2, MailMoved
<1>5. ASSUME NEW v \in Threads, v # u
      PROVE  SameView(v) /\ (Gone(v)' <=> Gone(v)) /\ (Parked(v)' <=> Parked(v))
  BY <1>1, <1>2, <1>5, OthersSame
<1>6. ASSUME NEW v \in Threads, NEW i \in 1..Len(stack'[v])
      PROVE  \/ i \in 1..Len(stack[v]) /\ stack'[v][i] = stack[v][i] /\ Len(stack'[v]) = Len(stack[v])
             \/ stack'[v][i].waits = None /\ stack'[v][i].data = None
  <2>1. CASE v # u \/ UNCHANGED stack
    BY <1>1, <2>1 DEF Others
  <2>2. CASE v = u /\ stack[u] = <<>> /\ Begins(u, NewFrame(None, "first"))
    <3>1. i = 1 /\ stack'[u][1] = NewFrame(None, "first")
      BY <2>2 DEF Begins
    <3>2. QED
      BY <2>2, <3>1 DEF NewFrame
  <2>3. QED
    BY <2>1, <2>2
<1>7. ReadyTop'
  <2>1. None \notin ready
    BY <1>1, NoneIs DEF TypeOK
  <2>2. QED
    BY <1>6, <2>1 DEF Mirrored, ReadyTop
<1>8. Delivered'
  <2> SUFFICES ASSUME NEW x \in Slots', x[1] # None PROVE DeliveredOK(x)'
    BY DEF Delivered, DeliveredOK
  <2>1. g[x] \in Slots /\ Mail(x)' = Mail(g[x])
    BY <1>3 DEF Carried
  <2>2. CASE g[x] = <<None, 1>>
    <3>1. x[1] = u
      BY <1>3, <2>2
    <3>2. QED
      BY <1>4, <2>1, <2>2, <3>1 DEF DeliveredOK
  <2>3. CASE g[x] # <<None, 1>>
    <3>1. g[x][1] = x[1]
      BY <1>3, <2>3
    <3>2. DeliveredOK(g[x]) /\ x[1] \in Threads
      BY <2>1, <3>1 DEF Mirrored, Delivered, Slots, Boxes
    <3>3. Mail(g[x]).to = x[1] \/ (Mail(g[x]).to = Unbound /\ Parked(x[1]) /\ x[1] # u)
      BY <3>1, <3>2 DEF DeliveredOK
    <3>4. QED
      BY <1>5, <2>1, <3>2, <3>3 DEF DeliveredOK
  <2>4. QED
    BY <2>2, <2>3
<1>9. Fresh'
  <2>1. Sends' \subseteq Sends
    <3>1. CASE UNCHANGED stack
      BY <3>1 DEF Sends
    <3>2. CASE Begins(u, NewFrame(None, "first"))
      <4>1. NewFrame(None, "first").pc # "send"
        BY DEF NewFrame
      <4>2. QED
        BY <1>1, <3>2, <4>1, SendsBegin
    <3>3. QED
      BY <3>1, <3>2
  <2>2. ASSUME NEW v \in Threads, NEW i \in 1..Len(stack'[v]), stack'[v][i].data # None
        PROVE  stack'[v][i].data.seq \in PeerCalls /\ stack'[v][i].data.seq < peerNext
    <3>1. i \in 1..Len(stack[v]) /\ stack'[v][i] = stack[v][i]
      BY <1>6, <2>2
    <3>2. QED
      BY <1>1, <2>2, <3>1 DEF Fresh
  <2>3. \A x \in Slots' : Mail(x)'.from \in PeerCalls => Mail(x)'.from < peerNext
    BY <1>1, <1>3 DEF Fresh, Carried
  <2>4. QED
    BY <1>1, <2>1, <2>2, <2>3 DEF Fresh
<1>10. \A v \in Threads : SameView(v) /\ (Gone(v) => Gone(v)')
  BY <1>5
<1>11. QED
  BY <1>3, <1>7, <1>8, <1>9, <1>10, QuietMirrors

LEMMA HandOnMirrors ==
  ASSUME Base, Mirrored, NEW t \in Threads, HandOn(t)
  PROVE  Mirrored'
<1>1. TypeOK /\ Mails
  BY Typed DEF Base
<1>2. PICK m : m = Head(inbox)
  OBVIOUS
<1>3. /\ inbox # <<>> /\ inbox' = Tail(inbox) /\ MeantElsewhere(t, m) /\ Hand(m.to, m)
      /\ UNCHANGED <<stack, occupation, remote, peer, ready, nextCall, peerNext, closed>>
  BY <1>2 DEF HandOn, threadVars, resultVars, peerVars
<1>4. <<None, 1>> \in Slots /\ Mail(<<None, 1>>) = m
  <2>1. 1 \in 1..Len(Box(None)) /\ None \in Boxes /\ Box(None)[1] = m
    BY <1>1, <1>2, <1>3 DEF Box, Boxes, Mails
  <2>2. QED
    BY <1>1, <2>1, SlotOf
<1>5. m \in Message /\ Meant(m)
  BY <1>1, <1>4, MailType DEF Mirrored, Letters
<1>6. PICK u \in Threads : u = m.to /\ m.to # Unbound
  BY <1>3, <1>5, ToIs DEF MeantElsewhere
<1>7. ~Parked(u)
  <2> SUFFICES ASSUME Parked(u) PROVE FALSE
    OBVIOUS
  <2>1. ~Gone(u) /\ ~Bound(u)
    BY ParkedIdle
  <2>2. QED
    BY <1>5, <1>6, <2>1 DEF Meant, Continues
<1>8. SameView(u) /\ (Gone(u) => Gone(u)')
  <2>1. \A pcs : At(u, pcs)' <=> At(u, pcs)
    BY <1>3 DEF At, Top
  <2>2. SameView(u)
    BY <1>3, StackStays
  <2>3. QED
    BY <1>3, <2>1, <2>2 DEF Gone
<1>9. Hand(u, Head(inbox)) /\ Head(inbox).to = u
  BY <1>2, <1>3, <1>6
<1>10. QED
  BY <1>3, <1>7, <1>8, <1>9, HandMirrors

LEMMA HandToFreeMirrors ==
  ASSUME Base, Mirrored, ~setup.timed, NEW t \in Threads, HandToFree(t)
  PROVE  Mirrored'
<1>1. TypeOK /\ Mails /\ stack \in Stacks /\ pool \in Seq(Threads) /\ expired = {} /\ EventsSet /\ PoolExact
  BY Typed DEF Base, TypeOK
<1>2. /\ inbox # <<>> /\ inbox' = Tail(inbox) /\ Head(inbox).to = Unbound /\ ~closed
      /\ UNCHANGED <<occupation, remote, peer, ready, nextCall, peerNext, closed>>
  BY DEF HandToFree, threadVars, resultVars, peerVars
<1>3. ASSUME NEW u \in Threads, deque[u] = <<>>, Hand(u, Head(inbox))
      PROVE  Len(deque'[u]) = 1
  BY <1>1, <1>3 DEF Hand, Mails
<1>4. ASSUME NEW u \in Threads, Free(u), At(u, {"pool"}), Hand(u, Head(inbox)), UNCHANGED stack
      PROVE  Mirrored'
  <2>1. deque[u] = <<>> /\ ~Parked(u)
    BY <1>1, <1>4 DEF Free, EventsSet, Parked
  <2>2. Waits(u) /\ ~Gone(u)
    BY <1>1, <1>2, <1>4, ServingWaits DEF Gone
  <2>3. Depth(u) = 0
    BY <1>4, <2>2 DEF Free, Occupied, Mirrored, Counted, CountedOK
  <2>4. Idle(u) /\ Top(u).waits = None
    BY <2>2, <2>3, IdleIs
  <2>5. /\ (\A pcs : At(u, pcs)' <=> At(u, pcs)) /\ Top(u)' = Top(u)
    BY <1>4 DEF At, Top
  <2>6. Parked(u)'
    <3>1. Len(deque'[u]) = 1 /\ Len(stack'[u]) = 1 /\ At(u, {"pool"})' /\ Top(u)'.waits = None
      BY <1>3, <1>4, <2>1, <2>4, <2>5 DEF Idle
    <3>2. At(u, {"first", "pool"})'
      BY <3>1 DEF At
    <3>3. QED
      BY <3>1, <3>2 DEF Parked
  <2>7. SameView(u) /\ (Gone(u) => Gone(u)')
    BY <1>2, <1>4, <2>2, StackStays
  <2>8. QED
    BY <1>2, <1>4, <2>1, <2>6, <2>7, HandMirrors
<1>5. ASSUME NEW u \in Threads, ServeTemporary(u, Head(inbox))
      PROVE  Mirrored'
  <2>1. /\ Begins(u, NewFrame(None, "first")) /\ stack' \in Stacks
        /\ Hand(u, Head(inbox)) /\ stack[u] = <<>>
    BY <1>1, <1>5, TemporaryBegins
  <2>2. ~Parked(u) /\ ~Bound(u) /\ Depth(u) = 0
    BY <2>1 DEF Parked, At, Bound, Depth
  <2>3. deque[u] = <<>>
    <3> SUFFICES ASSUME deque[u] # <<>> PROVE FALSE
      OBVIOUS
    <3>1. PICK x \in Slots : x[1] = u
      <4>1. 1 \in 1..Len(Box(u)) /\ u \in Boxes
        BY <1>1, NoneIs DEF Box, Boxes, Mails
      <4>2. QED
        BY <1>1, <4>1, SlotOf
    <3>2. PICK m \in Message : m = Mail(x)
      BY <1>1, MailType
    <3>3. DeliveredOK(x) /\ Meant(m) /\ u # None /\ u # Unbound
      BY <3>2, NoneIs, BoundAssumption DEF Mirrored, Delivered, Letters, Unbound
    <3>4. m.to = u
      BY <2>2, <3>1, <3>2, <3>3 DEF DeliveredOK
    <3>5. ~Gone(u)
      BY <1>2 DEF Gone
    <3>6. QED
      BY <2>2, <3>3, <3>4, <3>5 DEF Meant, Continues
  <2>4. Top(u)' = NewFrame(None, "first") /\ (\A pcs : At(u, pcs)' <=> "first" \in pcs)
    BY <1>1, <2>1, BeginsTop DEF NewFrame
  <2>5. stack'[u] # <<>> /\ Len(stack'[u]) = 1 /\ stack'[u][1] = NewFrame(None, "first")
    BY <2>1 DEF Begins
  <2>6. Waits(u)'
    <3>1. None \notin ready
      BY <1>1, NoneIs DEF TypeOK
    <3>2. QED
      BY <1>2, <2>4, <3>1 DEF Waits, NewFrame
  <2>7. Depth(u)' = 0
    <3>1. Off(u)' = 1 /\ Rest(u)' = 1
      BY <2>4, <2>5, <2>6 DEF Off, Rest, NewFrame
    <3>2. QED
      BY <2>5, <3>1 DEF Depth
  <2>8. SameView(u) /\ (Gone(u) => Gone(u)')
    BY <1>2, <2>2, <2>7 DEF SameView, Gone
  <2>9. Parked(u)'
    <3>1. Len(deque'[u]) = 1
      BY <1>3, <2>1, <2>3
    <3>2. QED
      BY <2>4, <2>5, <3>1 DEF Parked, NewFrame
  <2>10. QED
    BY <1>2, <2>1, <2>2, <2>8, <2>9, HandMirrors
<1>6. CASE UNCHANGED stack /\ \E i \in 1..Len(pool) : Free(pool[i]) /\ Hand(pool[i], Head(inbox))
  <2>1. PICK i \in 1..Len(pool) : Free(pool[i]) /\ Hand(pool[i], Head(inbox))
    BY <1>6
  <2>2. pool[i] \in Threads /\ At(pool[i], {"pool"})
    BY <1>1 DEF PoolExact
  <2>3. QED
    BY <1>4, <1>6, <2>1, <2>2
<1>7. CASE \E u \in Temps : ServeTemporary(u, Head(inbox))
  BY <1>5, <1>7, BoundAssumption
<1>8. QED
  BY <1>1, <1>6, <1>7, HandToFreeIs

-----------------------------------------------------------------------------
(* The invariant of all steps where no request times out.                  *)
LEMMA SetupStays ==
  ASSUME Next
  PROVE  UNCHANGED setup
<1>1. ASSUME NEW t \in Threads, ClientCalls(t) \/ HandlerCalls(t)
      PROVE  UNCHANGED setup
  BY <1>1 DEF ClientCalls, HandlerCalls, Call
<1>2. ASSUME NEW t \in Threads, Step(t)
      PROVE  UNCHANGED setup
  BY <1>2 DEF Step, SendRequest, SendReply, SendFails, Return, ServeOwn, EnterPool, ReceiveAtOnce, PoolOwn,
     PoolReceives, PoolTimeout, ReceiveOwn, HandOn, HandToFree, ReceiveTimeout, ReceiveEOF, Closed
<1>3. ASSUME NEW r \in Remotes, Answer(r) \/ PeerCallsBack(r)
      PROVE  UNCHANGED setup
  BY <1>3 DEF Answer, PeerCallsBack, PeerRequest, Deliver
<1>4. PeerStarts \/ PeerCloses \/ (\E s \in Calls : Expire(s)) => UNCHANGED setup
  BY DEF PeerStarts, PeerRequest, Deliver, PeerCloses, Expire
<1>5. QED
  BY <1>1, <1>2, <1>3, <1>4 DEF Next

LEMMA NothingExpires ==
  ASSUME Base, ~setup.timed
  PROVE  /\ \A t \in Threads : ~PoolTimeout(t) /\ ~ReceiveTimeout(t)
         /\ \A s \in Calls : ~Expire(s)
<1>1. expired = {}
  BY DEF Base
<1>2. QED
  BY <1>1 DEF PoolTimeout, ReceiveTimeout, Expire

LEMMA StepMirrors ==
  ASSUME Base, Mirrored, ~setup.timed, NEW t \in Threads, Step(t)
  PROVE  Mirrored'
<1>1. ~PoolTimeout(t) /\ ~ReceiveTimeout(t)
  BY NothingExpires
<1>2. CASE ServeOwn(t) \/ PoolOwn(t)
  BY <1>2, TakesOwn, TakesMirrors
<1>3. CASE ReceiveOwn(t)
  BY <1>3, TakesReceived, TakesMirrors
<1>4. CASE SendRequest(t) \/ SendReply(t) \/ SendFails(t) \/ Return(t)
  BY <1>4, SendRequestMirrors, SendReplyMirrors, SendFailsMirrors, ReturnMirrors
<1>5. CASE EnterPool(t) \/ ReceiveAtOnce(t) \/ PoolReceives(t)
  BY <1>5, ServeMirrors, PoolReceivesMirrors
<1>6. CASE HandOn(t) \/ HandToFree(t) \/ ReceiveEOF(t) \/ Closed(t)
  BY <1>6, HandOnMirrors, HandToFreeMirrors, ReceiveEOFMirrors, ClosedMirrors
<1>7. QED
  BY <1>1, <1>2, <1>3, <1>4, <1>5, <1>6 DEF Step

LEMMA MirroredSteps ==
  ASSUME Base, Mirrored, ~setup.timed, [Next]_vars
  PROVE  Mirrored'
<1>1. CASE UNCHANGED vars \/ PeerCloses
  <2>1. UNCHANGED <<stack, occupation, remote, peer, inbox, deque, ready, nextCall, peerNext, closed>>
    BY <1>1 DEF vars, PeerCloses, threadVars, poolVars, resultVars, peerVars
  <2>2. QED
    BY <2>1, StillMirrors
<1>2. CASE \E t \in Threads : ClientCalls(t) \/ HandlerCalls(t) \/ Step(t)
  BY <1>2, CallMirrors, StepMirrors
<1>3. CASE \E r \in Remotes : Answer(r)
  BY <1>3, AnswerMirrors
<1>4. CASE PeerStarts \/ \E r \in Remotes : PeerCallsBack(r)
  BY <1>4, PeerCallMirrors
<1>5. CASE \E s \in Calls : Expire(s)
  BY <1>5, NothingExpires
<1>6. QED
  BY <1>1, <1>2, <1>3, <1>4, <1>5 DEF Next

LEMMA MirroredStarts ==
  ASSUME Init
  PROVE  Mirrored
<1>1. Base
  BY BaseStarts
<1>2. /\ stack = [t \in Threads |-> IF t \in setup.loopers THEN <<NewFrame(None, "loop")>> ELSE <<>>]
      /\ occupation = [t \in Threads |-> 0] /\ remote = [t \in Threads |-> Unbound]
      /\ deque = [t \in Threads |-> <<>>] /\ inbox = <<>> /\ ready = {}
      /\ peer = [r \in Remotes |-> <<>>]
  BY DEF Init, NewThreads
<1>3. Asks = {}
  BY <1>2 DEF Asks
<1>4. Slots = {}
  BY <1>2 DEF Slots, Boxes, Box
<1>5. ASSUME NEW t \in Threads
      PROVE  /\ Depth(t) = 0 /\ ~Bound(t)
             /\ \A i \in 1..Len(stack[t]) : stack[t][i].data = None
  <2>1. CASE stack[t] = <<>>
    BY <2>1 DEF Depth, Bound
  <2>2. CASE stack[t] = <<NewFrame(None, "loop")>>
    <3>1. Len(stack[t]) = 1 /\ stack[t][1] = NewFrame(None, "loop") /\ stack[t] # <<>>
      BY <2>2
    <3>2. Top(t) = NewFrame(None, "loop")
      BY <3>1 DEF Top, Last
    <3>3. NewFrame(None, "loop").pc = "loop" /\ NewFrame(None, "loop").waits = None /\ NewFrame(None, "loop").data = None
      BY DEF NewFrame
    <3>4. Waits(t) /\ ~At(t, {"handle"})
      BY <1>2, <3>1, <3>2, <3>3 DEF Waits, At
    <3>5. Off(t) = 1 /\ Rest(t) = 1
      BY <3>1, <3>3, <3>4 DEF Off, Rest
    <3>6. Depth(t) = 0
      BY <3>1, <3>5 DEF Depth
    <3>7. \A i \in 1..Len(stack[t]) : i = 1
      BY <3>1
    <3>8. QED
      BY <3>1, <3>3, <3>6, <3>7 DEF Bound
  <2>3. QED
    BY <1>2, <2>1, <2>2
<1>6. ReadyTop /\ Counted
  BY <1>2, <1>5 DEF ReadyTop, Counted, CountedOK
<1>7. Agree /\ Apart /\ Backed /\ Letters /\ Delivered
  BY <1>3, <1>4, <1>5 DEF Agree, Apart, Backed, Letters, Delivered
<1>8. Fresh
  <2>1. \A r \in Calls \cup PeerCalls : peer[r] = <<>>
    BY <1>2 DEF Remotes
  <2>2. QED
    BY <1>2, <1>4, <1>5, <2>1 DEF Fresh
<1>9. QED
  BY <1>6, <1>7, <1>8 DEF Mirrored

-----------------------------------------------------------------------------
(* What a thread handles is its own: kept by a step that begins no handler,*)
(* and by a thread that takes a message.                                   *)
Sound == Base /\ (~setup.timed => Mirrored)

Own(t, i) ==
  LET m == stack[t][i].data IN
  m # None => IF m.to = Unbound THEN i = 1 /\ stack[t][i].waits = None ELSE m.to = t

Owned == \A t \in Threads : \A i \in 1..Len(stack[t]) : Own(t, i)

(* In a step no thread begins a handler.                                   *)
NoneBegins ==
  \A u \in Threads : \A i \in 1..Len(stack'[u]) :
    \/ stack'[u][i].data = None
    \/ /\ i \in 1..Len(stack[u]) /\ stack'[u][i].waits = stack[u][i].waits
       /\ stack'[u][i].data = stack[u][i].data

LEMMA OwnedStays ==
  ASSUME Owned, NoneBegins
  PROVE  Owned'
BY DEF Owned, NoneBegins, Own

LEMMA MovesBeginNone ==
  ASSUME Base, NEW t \in Threads,
         \/ UNCHANGED stack \/ Ends(t) \/ AllEnd(t)
         \/ \E f : Begins(t, f) /\ f.data = None
         \/ stack' \in Stacks /\ \E pc : Becomes(t, pc, None)
  PROVE  NoneBegins
<1>1. stack \in Stacks
  BY Typed DEF Base
<1>2. PICK n \in Nat : n = Len(stack[t])
  BY <1>1 DEF Stacks
<1>3. CASE UNCHANGED stack
  BY <1>3 DEF NoneBegins
<1>4. CASE AllEnd(t)
  BY <1>4 DEF NoneBegins, AllEnd, Others
<1>5. CASE Ends(t)
  <2>1. \A i \in 1..(n - 1) : i \in 1..n
    OBVIOUS
  <2>2. QED
    BY <1>2, <1>5, <2>1 DEF NoneBegins, Ends, Others
<1>6. ASSUME NEW f, Begins(t, f), f.data = None
      PROVE  NoneBegins
  <2>1. \A i \in 1..(n + 1) : i = n + 1 \/ i \in 1..n
    OBVIOUS
  <2>2. QED
    BY <1>2, <1>6, <2>1 DEF NoneBegins, Begins, Others
<1>7. ASSUME stack' \in Stacks, NEW pc, Becomes(t, pc, None)
      PROVE  NoneBegins
  <2>1. \A i \in 1..n : i = n \/ i \in 1..(n - 1)
    OBVIOUS
  <2>2. stack'[t][n].data = None
    BY <1>2, <1>7 DEF Becomes
  <2>3. QED
    BY <1>2, <1>7, <2>1, <2>2 DEF NoneBegins, Becomes, Others
<1>8. QED
  BY <1>3, <1>4, <1>5, <1>6, <1>7

LEMMA TakesOwned ==
  ASSUME Base, Owned, NEW t \in Threads, Takes(t)
  PROVE  Owned'
<1>1. TypeOK /\ stack \in Stacks /\ Framed /\ stack[t] # <<>> /\ ~At(t, {"send", "handle"})
  BY Typed DEF Base, Takes
<1>2. PICK m \in Message : Dispatch(t, m) /\ (m.to = t \/ (m.to = Unbound /\ Idle(t)))
  BY DEF Takes
<1>3. Top(t).data = None
  <2>1. FrameOK(Top(t)) /\ Top(t).pc # "handle"
    BY <1>1, TopOK DEF At
  <2>2. QED
    BY <2>1 DEF FrameOK
<1>4. /\ stack' \in Stacks
      /\ m.kind = "request" => Becomes(t, "handle", m)
      /\ m.kind = "reply" => Becomes(t, "loop", None)
  BY <1>1, <1>2, <1>3, DispatchIs
<1>5. CASE m.kind = "reply"
  BY <1>4, <1>5, MovesBeginNone, OwnedStays
<1>6. CASE m.kind = "request"
  <2>1. Becomes(t, "handle", m)
    BY <1>4, <1>6
  <2>2. PICK n \in Nat :
           /\ n = Len(stack[t]) /\ n = Len(stack'[t])
           /\ \A i \in 1..n : i = n \/ i \in 1..(n - 1)
           /\ Top(t) = stack[t][n]
           /\ stack'[t][n] = [pc |-> "handle", waits |-> Top(t).waits, data |-> m]
           /\ \A i \in 1..(n - 1) : stack'[t][i] = stack[t][i]
    BY <1>4, <2>1, BecomesIs
  <2>3. stack'[t][n].data = m /\ stack'[t][n].waits = stack[t][n].waits
    BY <2>2
  <2>4. m.to = Unbound => n = 1 /\ stack[t][n].waits = None
    <3>1. m.to = Unbound => Idle(t)
      BY <1>2, BoundAssumption DEF Unbound
    <3>2. Idle(t) => n = 1 /\ Off(t) = 1
      BY <2>2 DEF Idle
    <3>3. Off(t) = 1 => stack[t][1].waits = None
      BY DEF Off
    <3>4. QED
      BY <3>1, <3>2, <3>3
  <2>5. Own(t, n)'
    BY <1>2, <2>3, <2>4 DEF Own
  <2>6. ASSUME NEW u \in Threads, NEW i \in 1..Len(stack'[u])
        PROVE  Own(u, i)'
    <3>1. CASE u = t /\ i = n
      BY <2>5, <3>1
    <3>2. CASE ~(u = t /\ i = n)
      <4>1. i \in 1..Len(stack[u]) /\ stack'[u][i] = stack[u][i]
        BY <2>1, <2>2, <3>2 DEF Becomes, Others
      <4>2. QED
        BY <4>1 DEF Owned, Own
    <3>3. QED
      BY <3>1, <3>2
  <2>7. QED
    BY <2>6 DEF Owned
<1>7. QED
  BY <1>5, <1>6 DEF Message

LEMMA StepOwned ==
  ASSUME Sound, ~setup.timed, Owned, NEW t \in Threads, Step(t)
  PROVE  Owned'
<1>1. Base /\ Mirrored /\ TypeOK /\ stack \in Stacks /\ Framed
  BY Typed DEF Sound, Base
<1>2. ~PoolTimeout(t) /\ ~ReceiveTimeout(t)
  BY <1>1, NothingExpires
<1>3. CASE ServeOwn(t) \/ PoolOwn(t) \/ ReceiveOwn(t)
  BY <1>1, <1>3, TakesOwn, TakesReceived, TakesOwned
<1>4. CASE SendRequest(t) \/ SendReply(t)
  <2>1. Becomes(t, "loop", None) /\ stack' \in Stacks
    BY <1>1, <1>4, SendRequestIs, SendReplyIs
  <2>2. QED
    BY <1>1, <2>1, MovesBeginNone, OwnedStays
<1>5. CASE SendFails(t) \/ Return(t) \/ Closed(t)
  <2>1. AllEnd(t) \/ Ends(t)
    BY <1>1, <1>5, UnwindEnds, ReturnIs DEF SendFails, Closed
  <2>2. QED
    BY <1>1, <2>1, MovesBeginNone, OwnedStays
<1>6. CASE EnterPool(t) \/ ReceiveAtOnce(t) \/ PoolReceives(t) \/ ReceiveEOF(t)
  <2>1. UNCHANGED stack \/ Unwind(t) \/ \E pc \in Labels : Goto(t, pc)
    BY <1>6 DEF EnterPool, ReceiveAtOnce, PoolReceives, ReceiveEOF, Labels
  <2>2. stack[t] # <<>> /\ ~At(t, {"send", "handle"})
    BY <1>6 DEF EnterPool, ReceiveAtOnce, PoolReceives, ReceiveEOF, Serving, At
  <2>3. CASE UNCHANGED stack \/ Unwind(t)
    <3>1. UNCHANGED stack \/ AllEnd(t)
      BY <1>1, <2>3, UnwindEnds
    <3>2. QED
      BY <1>1, <3>1, MovesBeginNone, OwnedStays
  <2>4. CASE \E pc \in Labels : Goto(t, pc)
    <3>1. PICK pc \in Labels : Goto(t, pc)
      BY <2>4
    <3>2. Becomes(t, pc, None) /\ stack' \in Stacks
      BY <1>1, <2>2, <3>1, GoesTo
    <3>3. QED
      BY <1>1, <3>2, MovesBeginNone, OwnedStays
  <2>5. QED
    BY <2>1, <2>3, <2>4
<1>7. CASE HandOn(t)
  <2>1. UNCHANGED stack
    BY <1>7 DEF HandOn
  <2>2. QED
    BY <1>1, <2>1, MovesBeginNone, OwnedStays
<1>8. CASE HandToFree(t)
  <2>1. UNCHANGED stack \/ \E u \in Temps : ServeTemporary(u, Head(inbox))
    BY <1>1, <1>8, HandToFreeIs DEF TypeOK
  <2>2. CASE UNCHANGED stack
    BY <1>1, <2>2, MovesBeginNone, OwnedStays
  <2>3. ASSUME NEW u \in Threads, ServeTemporary(u, Head(inbox))
        PROVE  Owned'
    <3>1. Begins(u, NewFrame(None, "first")) /\ NewFrame(None, "first").data = None
      BY <1>1, <2>3, TemporaryBegins DEF NewFrame
    <3>2. QED
      BY <1>1, <3>1, MovesBeginNone, OwnedStays
  <2>4. QED
    BY <2>1, <2>2, <2>3, BoundAssumption
<1>9. QED
  BY <1>2, <1>3, <1>4, <1>5, <1>6, <1>7, <1>8 DEF Step

LEMMA OwnedSteps ==
  ASSUME Sound, ~setup.timed, Owned, [Next]_vars
  PROVE  Owned'
<1>1. Base /\ Mirrored /\ TypeOK
  BY DEF Sound, Base
<1>2. CASE \E t \in Threads : Step(t)
  BY <1>2, StepOwned
<1>3. ASSUME NEW t \in Threads, ClientCalls(t) \/ HandlerCalls(t)
      PROVE  Owned'
  <2>1. Begins(t, NewFrame(nextCall, "send")) /\ NewFrame(nextCall, "send").data = None
    BY <1>1, <1>3, CallIs DEF ClientCalls, HandlerCalls, NewFrame
  <2>2. QED
    BY <1>1, <2>1, MovesBeginNone, OwnedStays
<1>4. CASE UNCHANGED stack
  BY <1>4 DEF Owned, Own
<1>5. ASSUME NEW r \in Remotes, Answer(r) \/ PeerCallsBack(r)
      PROVE  UNCHANGED stack
  BY <1>5 DEF Answer, PeerCallsBack, PeerRequest, Deliver
<1>6. PeerStarts \/ PeerCloses \/ (\E s \in Calls : Expire(s)) \/ UNCHANGED vars => UNCHANGED stack
  BY DEF PeerStarts, PeerRequest, Deliver, PeerCloses, Expire, vars
<1>7. QED
  BY <1>2, <1>3, <1>4, <1>5, <1>6 DEF Next

(* Where a handler ends, the thread it goes to is at its request.          *)
LEMMA HandlerFits ==
  ASSUME Base, Mirrored, NEW t \in Threads, At(t, {"handle"})
  PROVE  /\ remote[t] = Top(t).data.from
         /\ peer[remote[t]] # <<>> /\ Last(peer[remote[t]]).seq = Top(t).data.seq
<1>1. stack \in Stacks /\ Framed /\ peer \in Peers /\ stack[t] # <<>>
  BY Typed DEF Base, At
<1>2. PICK n \in Nat : n = Len(stack[t]) /\ n >= 1 /\ Top(t) = stack[t][n]
  BY <1>1, TopIs
<1>3. Top(t).data # None
  BY <1>1, TopOK DEF At, FrameOK
<1>4. ~Gone(t) /\ ~Waits(t)
  BY <1>1 DEF Gone, Waits, At
<1>5. PICK L \in Nat : L = Depth(t) /\ Off(t) \in {0, 1} /\ L = 2 * n - Off(t) /\ L >= 1
  <2>1. Off(t) \in {0, 1} /\ Depth(t) \in Nat /\ Depth(t) = 2 * n - Off(t)
    BY <1>1, <1>2, DepthIs
  <2>2. QED
    BY <1>2, <2>1
<1>6. PICK R \in Remotes : R = Partner(t) /\ R = remote[t] /\ Mirrors(t, peer[R])
  <2>1. Bound(t) /\ CountedOK(t)
    BY <1>5 DEF Bound, Mirrored, Counted
  <2>2. ~(L = 1 /\ Off(t) = 0)
    BY <1>5
  <2>3. remote[t] = Partner(t)
    BY <1>4, <1>5, <2>1, <2>2 DEF CountedOK
  <2>4. QED
    BY <2>1, <2>3, BoundIs DEF Mirrored, Agree
<1>7. PICK items \in Seq(Item) : items = peer[R] /\ Len(items) = L
  BY <1>1, <1>4, <1>5, <1>6 DEF Peers, Mirrors
<1>8. Handles(t, items, n) /\ Place(t, n) + 1 = L
  <2>1. n \in 1..Len(stack[t])
    BY <1>2
  <2>2. QED
    BY <1>5, <1>6, <1>7, <2>1 DEF Mirrors, Place
<1>9. items[L] = [seq |-> Top(t).data.seq, thread |-> None] /\ Top(t).data.from = R
  BY <1>2, <1>3, <1>6, <1>8 DEF Handles
<1>10. items # <<>> /\ Last(items) = items[L]
  BY <1>5, <1>7 DEF Last
<1>11. QED
  BY <1>6, <1>7, <1>9, <1>10

-----------------------------------------------------------------------------
LEMMA SoundHolds == Spec => []Sound
<1>1. Init => Sound
  BY BaseStarts, MirroredStarts DEF Sound
<1>2. Sound /\ [Next]_vars => Sound'
  <2> SUFFICES ASSUME Sound, [Next]_vars PROVE Sound'
    OBVIOUS
  <2>1. Base'
    BY BaseSteps DEF Sound
  <2>2. setup' = setup
    BY SetupStays DEF vars
  <2>3. QED
    BY <2>1, <2>2, MirroredSteps DEF Sound
<1>3. QED
  BY <1>1, <1>2, PTL DEF Spec

(* Affinity: whatever the threads, the calls and the setup, as long as no  *)
(* request times out, a thread handles only what a thread of the peer      *)
(* sends that works for it, and in no transaction what is for anyone.      *)
THEOREM AffinityHolds == Spec => []Affinity
<1>1. Affinity <=> (~setup.timed => Owned)
  BY DEF Affinity, Owned, Own
<1>2. Init => (~setup.timed => Owned)
  <2> SUFFICES ASSUME Init, NEW t \in Threads, NEW i \in 1..Len(stack[t])
               PROVE  stack[t][i].data = None
    BY DEF Owned, Own
  <2>1. stack[t] = <<>> \/ stack[t] = <<NewFrame(None, "loop")>>
    BY DEF Init
  <2>2. NewFrame(None, "loop").data = None
    BY DEF NewFrame
  <2> HIDE DEF NewFrame
  <2>3. i = 1 /\ stack[t][i] = NewFrame(None, "loop")
    <3>1. CASE stack[t] = <<>>
      BY <3>1
    <3>2. CASE stack[t] = <<NewFrame(None, "loop")>>
      BY <3>2
    <3>3. QED
      BY <2>1, <3>1, <3>2
  <2>4. QED
    BY <2>2, <2>3
<1>3. Sound /\ (~setup.timed => Owned) /\ [Next]_vars => (~setup.timed => Owned)'
  <2>1. [Next]_vars => setup' = setup
    BY SetupStays DEF vars
  <2>2. QED
    BY <2>1, OwnedSteps
<1>4. QED
  BY <1>1, <1>2, <1>3, SoundHolds, PTL DEF Spec

(* RepliesReturn: and a handler ends bound to the thread of the peer that  *)
(* waits for its answer.                                                   *)
THEOREM AnswersFit == Spec => []RepliesReturn
<1>1. Sound => RepliesReturn
  <2> SUFFICES ASSUME Sound, ~setup.timed, NEW t \in Threads, At(t, {"handle"})
               PROVE  /\ remote[t] = Top(t).data.from
                      /\ peer[remote[t]] # <<>> /\ Last(peer[remote[t]]).seq = Top(t).data.seq
    BY DEF RepliesReturn
  <2>1. QED
    BY HandlerFits DEF Sound
<1>2. QED
  BY <1>1, SoundHolds, PTL

=============================================================================
