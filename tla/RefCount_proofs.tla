--------------------------- MODULE RefCount_proofs ---------------------------
(***************************************************************************)
(* Proofs about RefCount: the owner's count is exact with one thread at    *)
(* the holder, is never too low with several, and no request finds the     *)
(* object missing while requests are served in order.                      *)
(***************************************************************************)
EXTENDS RefCount, FiniteSetTheorems, SequenceTheorems, TLAPS

-----------------------------------------------------------------------------
(* What Total sums up.  The references of one x are a row of f[x] pairs.   *)

LEMMA Row ==
  ASSUME NEW x, NEW n \in Nat
  PROVE  IsFiniteSet({x} \X (1..n)) /\ Cardinality({x} \X (1..n)) = n
<1>1. IsFiniteSet({x}) /\ Cardinality({x}) = 1
  BY FS_Singleton
<1>2. IsFiniteSet(1..n) /\ Cardinality(1..n) = n
  <2>1. 1 \in Int /\ n \in Int
    OBVIOUS
  <2>2. /\ IsFiniteSet(1..n)
        /\ Cardinality(1..n) = IF 1 > n THEN 0 ELSE n-1+1
    BY <2>1, FS_Interval, Zenon
  <2>3. QED
    BY <2>2
<1>3. /\ IsFiniteSet({x} \X (1..n))
      /\ Cardinality({x} \X (1..n)) = Cardinality({x}) * Cardinality(1..n)
  BY <1>1, <1>2, FS_Product, Zenon
<1>4. QED
  BY <1>1, <1>2, <1>3

LEMMA InReferences ==
  ASSUME NEW S, NEW f \in [S -> Nat]
  PROVE  References(f) = {r \in S \X Nat : r[2] \in 1..f[r[1]]}
BY DEF References

LEMMA TotalType ==
  ASSUME NEW S, IsFiniteSet(S), NEW f \in [S -> Nat]
  PROVE  IsFiniteSet(References(f)) /\ Total(f) \in Nat
<1> DEFINE rows == [x \in S |-> {x} \X (1..f[x])]
           Rows == {{x} \X (1..f[x]) : x \in S}
<1>1. rows \in Surjection(S, Rows)
  BY DEF Surjection
<1>2. IsFiniteSet(Rows)
  <2> HIDE DEF rows, Rows
  <2> QED
    BY <1>1, FS_Surjection, Zenon
<1>3. \A T \in Rows : IsFiniteSet(T)
  <2>1. \A x \in S : IsFiniteSet({x} \X (1..f[x]))
    <3>1. \A x \in S : f[x] \in Nat
      OBVIOUS
    <3>2. QED
      BY <3>1, Row, Zenon
  <2>2. QED
    BY <2>1, Zenon
<1>4. IsFiniteSet(UNION Rows)
  BY <1>2, <1>3, FS_UNION
<1>5. References(f) = UNION Rows
  BY DEF References
<1>6. QED
  BY <1>4, <1>5, FS_CardinalityType DEF Total

(* The references of all others than x.                                    *)
Others(f, x) == {r \in References(f) : r[1] # x}

LEMMA TotalRest ==
  ASSUME NEW S, IsFiniteSet(S), NEW f \in [S -> Nat], NEW x \in S
  PROVE  /\ IsFiniteSet(Others(f, x))
         /\ Cardinality(Others(f, x)) \in Nat
         /\ Total(f) = Cardinality(Others(f, x)) + f[x]
<1> DEFINE row == {x} \X (1..f[x])
<1>1. IsFiniteSet(References(f))
  BY TotalType
<1>2. Others(f, x) \in SUBSET References(f)
  BY DEF Others
<1>3. IsFiniteSet(Others(f, x)) /\ Cardinality(Others(f, x)) \in Nat
  BY <1>1, <1>2, FS_Subset, FS_CardinalityType
<1>4. IsFiniteSet(row) /\ Cardinality(row) = f[x]
  BY Row
<1>5. References(f) = Others(f, x) \cup row
  BY InReferences DEF Others
<1>6. Others(f, x) \cap row = {}
  BY DEF Others
<1>7. Cardinality(Others(f, x) \cap row) = 0
  BY <1>6, FS_EmptySet, Zenon
<1>8. QED
  <2> HIDE DEF row
  <2>1. Cardinality(Others(f, x) \cup row)
          = Cardinality(Others(f, x)) + Cardinality(row) - Cardinality(Others(f, x) \cap row)
    BY <1>3, <1>4, FS_Union, Zenon
  <2>2. QED
    BY <1>3, <1>4, <1>5, <1>7, <2>1 DEF Total

LEMMA TotalExcept ==
  ASSUME NEW S, IsFiniteSet(S), NEW f \in [S -> Nat], NEW x \in S, NEW n \in Nat
  PROVE  /\ f[x] <= Total(f)
         /\ Total([f EXCEPT ![x] = n]) = Total(f) - f[x] + n
<1> DEFINE g == [f EXCEPT ![x] = n]
<1>1. g \in [S -> Nat] /\ g[x] = n
  OBVIOUS
<1>2. Others(g, x) = Others(f, x)
  <2>1. References(f) = {r \in S \X Nat : r[2] \in 1..f[r[1]]}
    BY InReferences, Zenon
  <2>2. References(g) = {r \in S \X Nat : r[2] \in 1..g[r[1]]}
    BY <1>1, InReferences, Zenon
  <2>3. \A y \in S : y # x => g[y] = f[y]
    OBVIOUS
  <2> HIDE DEF g
  <2>4. QED
    BY <2>1, <2>2, <2>3 DEF Others
<1>3. /\ Cardinality(Others(f, x)) \in Nat
      /\ Total(f) = Cardinality(Others(f, x)) + f[x]
  BY TotalRest
<1>4. Total(g) = Cardinality(Others(g, x)) + g[x]
  BY <1>1, TotalRest
<1>5. QED
  BY <1>1, <1>2, <1>3, <1>4

LEMMA TotalMonotone ==
  ASSUME NEW S, IsFiniteSet(S), NEW f \in [S -> Nat], NEW g \in [S -> Nat],
         \A x \in S : f[x] <= g[x]
  PROVE  Total(f) <= Total(g)
<1>1. References(f) \in SUBSET References(g)
  BY InReferences
<1>2. QED
  BY <1>1, TotalType, FS_Subset DEF Total

LEMMA TotalNone ==
  ASSUME NEW S, NEW f \in [S -> Nat], \A x \in S : f[x] = 0
  PROVE  Total(f) = 0
<1>1. References(f) = {}
  BY InReferences
<1>2. QED
  BY <1>1, FS_EmptySet DEF Total

(* The counts of the messages in a queue.                                  *)
Counts(q) == [i \in DOMAIN q |-> q[i].count]

LEMMA CountsType ==
  ASSUME NEW q \in Seq(Message)
  PROVE  /\ DOMAIN Counts(q) = 1..Len(q)
         /\ IsFiniteSet(1..Len(q))
         /\ Counts(q) \in [1..Len(q) -> Nat]
         /\ Total(Counts(q)) \in Nat
<1>1. Len(q) \in Nat /\ DOMAIN q = 1..Len(q)
  OBVIOUS
<1>2. IsFiniteSet(1..Len(q))
  <2>1. 1 \in Int /\ Len(q) \in Int
    BY <1>1
  <2>2. QED
    BY <2>1, FS_Interval, Zenon
<1>3. \A i \in 1..Len(q) : q[i].count \in Nat
  BY DEF Message
<1>4. Counts(q) \in [1..Len(q) -> Nat] /\ DOMAIN Counts(q) = 1..Len(q)
  BY <1>1, <1>3 DEF Counts
<1>5. QED
  BY <1>2, <1>4, TotalType, Zenon

LEMMA TotalAppend ==
  ASSUME NEW q \in Seq(Message), NEW m \in Message
  PROVE  Total(Counts(Append(q, m))) = Total(Counts(q)) + m.count
<1> DEFINE e == Append(q, m)
           n == Len(e)
<1>1. e \in Seq(Message) /\ n = Len(q) + 1 /\ n \in Nat /\ Len(q) \in Nat
  OBVIOUS
<1>2. \A i \in 1..n : i # n => i \in 1..Len(q) /\ e[i] = q[i]
  OBVIOUS
<1>3. e[n] = m /\ m.count \in Nat
  BY DEF Message
<1>4. /\ Counts(e) \in [1..n -> Nat] /\ DOMAIN Counts(e) = 1..n /\ IsFiniteSet(1..n)
      /\ Counts(q) \in [1..Len(q) -> Nat]
  BY <1>1, CountsType
<1> HIDE DEF e
<1>5. Counts(e)[n] = m.count /\ \A i \in 1..Len(q) : Counts(e)[i] = Counts(q)[i]
  BY <1>1, <1>2, <1>3, <1>4 DEF Counts
<1>6. Others(Counts(e), n) = References(Counts(q))
  <2>1. References(Counts(e)) = {r \in (1..n) \X Nat : r[2] \in 1..Counts(e)[r[1]]}
    BY <1>4, InReferences, Zenon
  <2>2. References(Counts(q)) = {r \in (1..Len(q)) \X Nat : r[2] \in 1..Counts(q)[r[1]]}
    BY <1>4, InReferences, Zenon
  <2>3. QED
    BY <1>1, <1>5, <2>1, <2>2 DEF Others
<1>7. Total(Counts(e)) = Cardinality(Others(Counts(e), n)) + Counts(e)[n]
  <2>1. n \in 1..n
    BY <1>1
  <2>2. QED
    BY <1>4, <2>1, TotalRest, Zenon
<1>8. QED
  BY <1>5, <1>6, <1>7 DEF Total, e

LEMMA TotalTail ==
  ASSUME NEW q \in Seq(Message), q # <<>>
  PROVE  /\ Head(q) \in Message /\ Tail(q) \in Seq(Message)
         /\ Total(Counts(q)) = Head(q).count + Total(Counts(Tail(q)))
<1> DEFINE t == Tail(q)
           n == Len(q)
<1>1. /\ t \in Seq(Message) /\ Head(q) \in Message /\ Head(q) = q[1]
      /\ n \in Nat /\ n >= 1 /\ Len(t) = n - 1 /\ Len(t) \in Nat
  OBVIOUS
<1>2. \A i \in 1..(n - 1) : i + 1 \in 1..n /\ t[i] = q[i + 1]
  OBVIOUS
<1>3. /\ Counts(q) \in [1..n -> Nat] /\ DOMAIN Counts(q) = 1..n /\ IsFiniteSet(1..n)
      /\ Counts(t) \in [1..(n - 1) -> Nat] /\ DOMAIN Counts(t) = 1..(n - 1)
      /\ IsFiniteSet(1..(n - 1))
  BY <1>1, CountsType
<1> HIDE DEF t
<1>4. Counts(q)[1] = Head(q).count /\ \A i \in 1..(n - 1) : Counts(t)[i] = Counts(q)[i + 1]
  BY <1>1, <1>2, <1>3 DEF Counts
<1> DEFINE later == References(Counts(t))
           rest == Others(Counts(q), 1)
           shift == [r \in later |-> <<r[1] + 1, r[2]>>]
<1>5. later = {r \in (1..(n - 1)) \X Nat : r[2] \in 1..Counts(t)[r[1]]}
  BY <1>3, InReferences, Zenon
<1>6. rest = {r \in (1..n) \X Nat : r[2] \in 1..Counts(q)[r[1]] /\ r[1] # 1}
  <2>1. References(Counts(q)) = {r \in (1..n) \X Nat : r[2] \in 1..Counts(q)[r[1]]}
    BY <1>3, InReferences, Zenon
  <2>2. QED
    BY <2>1 DEF Others
<1>7. shift \in Bijection(later, rest)
  <2>1. \A r \in later : <<r[1] + 1, r[2]>> \in rest
    BY <1>1, <1>4, <1>5, <1>6, SMTT(30)
  <2>2. \A r, w \in later : <<r[1] + 1, r[2]>> = <<w[1] + 1, w[2]>> => r = w
    BY <1>5
  <2>3. \A w \in rest : \E r \in later : <<r[1] + 1, r[2]>> = w
    <3>1. SUFFICES ASSUME NEW w \in rest PROVE \E r \in later : <<r[1] + 1, r[2]>> = w
      OBVIOUS
    <3>2. w[1] \in 2..n /\ w[2] \in Nat /\ w = <<w[1], w[2]>> /\ w[2] \in 1..Counts(q)[w[1]]
      BY <1>1, <1>6
    <3>3. w[1] - 1 \in 1..(n - 1) /\ (w[1] - 1) + 1 = w[1]
      BY <1>1, <3>2
    <3>4. Counts(t)[w[1] - 1] = Counts(q)[w[1]]
      BY <1>4, <3>3
    <3>5. <<w[1] - 1, w[2]>> \in later
      BY <1>5, <3>2, <3>3, <3>4
    <3>6. QED
      BY <3>2, <3>3, <3>5
  <2> HIDE DEF later, rest
  <2>4. QED
    BY <2>1, <2>2, <2>3 DEF Bijection, Injection, Surjection, IsInjective
<1>8. Cardinality(rest) = Cardinality(later)
  <2>1. IsFiniteSet(later) /\ ExistsBijection(later, rest)
    BY <1>3, <1>7, TotalType DEF ExistsBijection
  <2> HIDE DEF later, rest
  <2>2. QED
    BY <2>1, FS_Bijection, Zenon
<1>9. Total(Counts(q)) = Cardinality(rest) + Counts(q)[1] /\ Cardinality(rest) \in Nat
  <2>1. 1 \in 1..n
    BY <1>1
  <2>2. QED
    BY <1>3, <2>1, TotalRest, Zenon
<1>10. Counts(q)[1] \in Nat
  BY <1>1, <1>3
<1>11. QED
  BY <1>1, <1>4, <1>8, <1>9, <1>10 DEF Total, t

-----------------------------------------------------------------------------
(* What a thread holds at each point, and what makes the numbers positive. *)
Wellformed ==
  /\ boxed + toHolder <= boxes
  /\ \A s \in Servers :
       IF spc[s] = "idle" THEN smsg[s] = None
       ELSE /\ smsg[s] \in Message /\ s \in setup.servers
            /\ spc[s] = "decref" => smsg[s].kind = "del"
            /\ smsg[s].kind = "del" => smsg[s].count >= 1
  /\ \A i \in 1..Len(toOwner) : toOwner[i].kind = "del" => toOwner[i].count >= 1
  /\ \A u \in Unboxers :
       IF upc[u] \in {"read", "write", "store"}
       THEN uproxy[u] \in Proxies /\ state[uproxy[u]] # "unborn"
       ELSE uproxy[u] = None
  /\ \A p \in Proxies : state[p] # "unborn" => refcount[p] >= 1
  /\ \A p \in Proxies : state[p] \in {"dying", "sent"} => finalized[p]

(* With one thread at the holder, one activation of _unbox at most is      *)
(* outside its wait for HANDLE_INSPECT, none while a proxy is finalized;   *)
(* a proxy that is referenced is alive and its __del__ has not run, and    *)
(* the count that an activation has read is still the proxy's.             *)
Busy(u) == upc[u] \notin {"idle", "inspect", "answered"}

OneThread ==
  /\ \A u, v \in Unboxers : Busy(u) /\ Busy(v) => u = v
  /\ \A u \in Unboxers, p \in Proxies : Busy(u) => state[p] \notin {"dying", "sent", "cleared"}
  /\ \A u \in Unboxers : uproxy[u] # None => state[uproxy[u]] = "live"
  /\ \A u \in Unboxers : upc[u] = "write" => uread[u] = refcount[uproxy[u]]
  /\ \A p \in Proxies : held[p] => state[p] = "live"
  /\ \A p \in Proxies : state[p] \in {"unborn", "live"} => ~finalized[p]

LEMMA SetupType ==
  ASSUME setup \in Setups
  PROVE  /\ setup.single \in BOOLEAN /\ setup.servers \subseteq Servers
         /\ setup.boxes \in Nat /\ setup.uses \in Nat
<1>1. Cardinality(Proxies) \in Nat
  BY RefCountAssumption, FS_CardinalityType, Zenon
<1>2. QED
  BY <1>1, RefCountAssumption

LEMMA ShapesInit == Init => TypeOK /\ Wellformed
<1> SUFFICES ASSUME Init PROVE TypeOK /\ Wellformed
  OBVIOUS
<1>1. TypeOK
  BY SetupType DEF Init, TypeOK, States
<1>2. Wellformed
  BY DEF Init, Wellformed
<1>3. QED
  BY <1>1, <1>2

LEMMA ShapesNext == TypeOK /\ Wellformed /\ [Next]_vars => TypeOK' /\ Wellformed'
<1> SUFFICES ASSUME TypeOK, Wellformed, [Next]_vars
             PROVE  TypeOK' /\ Wellformed'
  OBVIOUS
<1> USE DEF ownerVars, unboxVars, proxyVars, serverVars
<1>0. setup \in Setups /\ setup.boxes \in Nat /\ setup.uses \in Nat
  BY SetupType DEF TypeOK
<1>1. CASE Box
  <2>1. TypeOK'
    <3>1. slot' \in Nat \cup {Absent}
      BY <1>1 DEF Box, Added, TypeOK
    <3>2. boxed' \in 0..setup.boxes /\ boxes' \in 0..setup.boxes
      BY <1>0, <1>1 DEF Box, TypeOK, Wellformed
    <3>3. QED
      BY <1>1, <3>1, <3>2 DEF Box, TypeOK
  <2>2. Wellformed'
    BY <1>0, <1>1 DEF Box, TypeOK, Wellformed
  <2>3. QED
    BY <2>1, <2>2
<1>2. CASE SendBoxed
  <2>1. TypeOK'
    BY <1>0, <1>2, SMTT(30) DEF SendBoxed, TypeOK, Wellformed
  <2>2. Wellformed'
    BY <1>0, <1>2 DEF SendBoxed, TypeOK, Wellformed
  <2>3. QED
    BY <2>1, <2>2
<1>3. ASSUME NEW u \in Unboxers, Unboxing(u) PROVE TypeOK' /\ Wellformed'
  <2>1. CASE StartUnbox(u)
    <3>1. TypeOK'
      BY <1>0, <2>1, SMTT(30) DEF StartUnbox, TypeOK
    <3>2. Wellformed'
      BY <1>0, <2>1 DEF StartUnbox, TypeOK, Wellformed
    <3>3. QED
      BY <3>1, <3>2
  <2>2. CASE Lookup(u)
    <3>1. TypeOK'
      BY <2>2 DEF Lookup, TypeOK
    <3>2. Wellformed'
      BY <2>2 DEF Lookup, Reachable, TypeOK, Wellformed
    <3>3. QED
      BY <3>1, <3>2
  <2>3. CASE ReadCount(u)
    <3>1. uproxy[u] \in Proxies
      BY <2>3 DEF ReadCount, Wellformed
    <3>2. TypeOK'
      BY <2>3, <3>1 DEF ReadCount, TypeOK
    <3>3. Wellformed'
      BY <2>3 DEF ReadCount, TypeOK, Wellformed
    <3>4. QED
      BY <3>2, <3>3
  <2>4. CASE WriteCount(u)
    <3>1. uproxy[u] \in Proxies
      BY <2>4 DEF WriteCount, Wellformed
    <3>2. TypeOK'
      BY <2>4, <3>1 DEF WriteCount, Return, TypeOK
    <3>3. Wellformed'
      BY <2>4, <3>1 DEF WriteCount, Return, TypeOK, Wellformed
    <3>4. QED
      BY <3>2, <3>3
  <2>5. CASE Inspect(u)
    <3>1. TypeOK'
      BY <2>5 DEF Inspect, TypeOK
    <3>2. Wellformed'
      BY <2>5 DEF Inspect, TypeOK, Wellformed
    <3>3. QED
      BY <3>1, <3>2
  <2>6. CASE Create(u)
    <3>1. TypeOK'
      BY <2>6 DEF Create, TypeOK, States
    <3>2. Wellformed'
      BY <2>6 DEF Create, TypeOK, Wellformed
    <3>3. QED
      BY <3>1, <3>2
  <2>7. CASE Store(u)
    <3>1. uproxy[u] \in Proxies
      BY <2>7 DEF Store, Wellformed
    <3>2. TypeOK'
      BY <2>7, <3>1 DEF Store, Return, TypeOK
    <3>3. Wellformed'
      BY <2>7, <3>1 DEF Store, Return, TypeOK, Wellformed
    <3>4. QED
      BY <3>2, <3>3
  <2>8. QED
    BY <1>3, <2>1, <2>2, <2>3, <2>4, <2>5, <2>6, <2>7 DEF Unboxing
<1>4. ASSUME NEW p \in Proxies, Use(p) \/ Drop(p) \/ Collecting(p)
      PROVE  TypeOK' /\ Wellformed'
  <2>1. CASE Use(p)
    <3>1. [kind |-> "use", count |-> 0] \in Message
      BY DEF Message
    <3>2. TypeOK'
      BY <1>0, <2>1, <3>1, SMTT(30) DEF Use, TypeOK
    <3>3. Wellformed'
      BY <2>1 DEF Use, TypeOK, Wellformed
    <3>4. QED
      BY <3>2, <3>3
  <2>2. CASE Drop(p)
    BY <2>2 DEF Drop, TypeOK, Wellformed
  <2>3. CASE SendDel(p)
    <3>1. refcount[p] \in Nat /\ refcount[p] >= 1
      BY <2>3 DEF SendDel, TypeOK, Wellformed
    <3>2. [kind |-> "del", count |-> refcount[p]] \in Message
      BY <3>1 DEF Message
    <3>3. TypeOK'
      BY <2>3, <3>2 DEF SendDel, DelCount, TypeOK, States
    <3>4. Wellformed'
      BY <2>3, <3>1 DEF SendDel, DelCount, TypeOK, Wellformed
    <3>5. QED
      BY <3>3, <3>4
  <2>4. CASE Finalize(p) \/ Resurrect(p) \/ Free(p) \/ Remover(p)
    <3>1. TypeOK'
      BY <2>4, ZenonT(40) DEF Finalize, Resurrect, Free, Remover, TypeOK, States
    <3>2. Wellformed'
      <4>1. CASE Finalize(p)
        BY <4>1 DEF Finalize, TypeOK, Wellformed
      <4>2. CASE Resurrect(p)
        BY <4>2 DEF Resurrect, TypeOK, Wellformed
      <4>3. CASE Free(p)
        BY <4>3 DEF Free, TypeOK, Wellformed
      <4>4. CASE Remover(p)
        BY <4>4 DEF Remover, TypeOK, Wellformed
      <4>5. QED
        BY <2>4, <4>1, <4>2, <4>3, <4>4
    <3>3. QED
      BY <3>1, <3>2
  <2>5. QED
    BY <1>4, <2>1, <2>2, <2>3, <2>4 DEF Collecting
<1>5. ASSUME NEW s \in Servers, Serving(s) PROVE TypeOK' /\ Wellformed'
  <2>1. CASE ReceiveRequest(s)
    <3>1. /\ Head(toOwner) \in Message /\ Tail(toOwner) \in Seq(Message)
          /\ Head(toOwner) = toOwner[1] /\ Len(toOwner) \in Nat /\ Len(toOwner) >= 1
          /\ Len(Tail(toOwner)) = Len(toOwner) - 1
          /\ \A i \in 1..(Len(toOwner) - 1) :
               i + 1 \in 1..Len(toOwner) /\ Tail(toOwner)[i] = toOwner[i + 1]
      BY <2>1 DEF ReceiveRequest, TypeOK
    <3>2. TypeOK'
      BY <2>1, <3>1 DEF ReceiveRequest, TypeOK
    <3>3. Wellformed'
      BY <2>1, <3>1 DEF ReceiveRequest, TypeOK, Wellformed
    <3>4. QED
      BY <3>2, <3>3
  <2>2. CASE UnboxLocal(s)
    <3>1. smsg[s] \in Message /\ smsg[s].kind \in {"use", "del"}
      BY <2>2 DEF UnboxLocal, Wellformed, Message
    <3>2. TypeOK'
      BY <2>2, <3>1 DEF UnboxLocal, TypeOK
    <3>3. Wellformed'
      BY <2>2, <3>1 DEF UnboxLocal, TypeOK, Wellformed
    <3>4. QED
      BY <3>2, <3>3
  <2>3. CASE HandleDel(s)
    <3>1. smsg[s] \in Message /\ smsg[s].count \in Nat
      BY <2>3 DEF HandleDel, Wellformed, Message
    <3>2. slot' \in Nat \cup {Absent}
      BY <2>3, <3>1, RefCountAssumption DEF HandleDel, Decreased, TypeOK
    <3>3. failed' \subseteq {"use", "del", "inspect"}
      BY <2>3 DEF HandleDel, TypeOK
    <3>4. TypeOK'
      BY <2>3, <3>2, <3>3 DEF HandleDel, TypeOK
    <3>5. Wellformed'
      BY <2>3 DEF HandleDel, TypeOK, Wellformed
    <3>6. QED
      BY <3>4, <3>5
  <2>4. QED
    BY <1>5, <2>1, <2>2, <2>3 DEF Serving
<1>6. CASE UNCHANGED vars
  BY <1>6 DEF vars, TypeOK, Wellformed
<1>7. QED
  BY <1>1, <1>2, <1>3, <1>4, <1>5, <1>6 DEF Next

-----------------------------------------------------------------------------
(* How each step moves references.                                         *)
Unfinished == {"lookup", "read", "write", "inspect", "answered"}

LEMMA InUnboxMoves ==
  ASSUME TypeOK, NEW u \in Unboxers, \A w \in Unboxers : w # u => upc'[w] = upc[w]
  PROVE  /\ InUnbox \in Nat
         /\ upc[u] \in Unfinished => InUnbox >= 1
         /\ upc[u] \in Unfinished /\ upc'[u] \in Unfinished => InUnbox' = InUnbox
         /\ upc[u] \in Unfinished /\ upc'[u] \notin Unfinished => InUnbox' = InUnbox - 1
         /\ upc[u] \notin Unfinished /\ upc'[u] \in Unfinished => InUnbox' = InUnbox + 1
         /\ upc[u] \notin Unfinished /\ upc'[u] \notin Unfinished => InUnbox' = InUnbox
<1> DEFINE A == {w \in Unboxers : upc[w] \in Unfinished}
           B == A \ {u}
           C == {w \in Unboxers : upc'[w] \in Unfinished}
<1>1. InUnbox = Cardinality(A) /\ InUnbox' = Cardinality(C)
  BY DEF InUnbox, Unfinished
<1>2. IsFiniteSet(A)
  <2>1. A \in SUBSET Unboxers
    OBVIOUS
  <2>2. QED
    BY <2>1, RefCountAssumption, FS_Subset, Zenon
<1>3. upc'[u] \in Unfinished => C = B \cup {u}
  OBVIOUS
<1>4. upc'[u] \notin Unfinished => C = B
  OBVIOUS
<1>5. u \notin B /\ (u \in A <=> upc[u] \in Unfinished)
  OBVIOUS
<1> HIDE DEF A, B, C
<1>6. Cardinality(A) \in Nat
  BY <1>2, FS_CardinalityType, Zenon
<1>7. /\ IsFiniteSet(B)
      /\ Cardinality(B) = IF u \in A THEN Cardinality(A) - 1 ELSE Cardinality(A)
  BY <1>2, FS_RemoveElement, Zenon DEF B
<1>8. Cardinality(B) \in Nat
  BY <1>7, FS_CardinalityType, Zenon
<1>9. Cardinality(B \cup {u}) = Cardinality(B) + 1
  <2>1. Cardinality(B \cup {u}) = IF u \in B THEN Cardinality(B) ELSE Cardinality(B) + 1
    BY <1>7, FS_AddElement, Zenon
  <2>2. QED
    BY <1>5, <2>1
<1>10. Cardinality(A) = Cardinality(B) + (IF u \in A THEN 1 ELSE 0)
  BY <1>6, <1>7
<1>11. InUnbox = Cardinality(B) + (IF upc[u] \in Unfinished THEN 1 ELSE 0)
  BY <1>1, <1>5, <1>10
<1>12. InUnbox' = Cardinality(B) + (IF upc'[u] \in Unfinished THEN 1 ELSE 0)
  BY <1>1, <1>3, <1>4, <1>8, <1>9
<1>13. QED
  BY <1>8, <1>11, <1>12

Load(m) == IF m = None THEN 0 ELSE m.count

LEMMA InServiceMoves ==
  ASSUME TypeOK, NEW s \in Servers, smsg'[s] \in Message \cup {None},
         \A t \in Servers : t # s => smsg'[t] = smsg[t]
  PROVE  /\ InService \in Nat /\ Load(smsg[s]) \in Nat /\ Load(smsg'[s]) \in Nat
         /\ Load(smsg[s]) <= InService
         /\ InService' = InService - Load(smsg[s]) + Load(smsg'[s])
<1> DEFINE f == [t \in Servers |-> Load(smsg[t])]
           g == [t \in Servers |-> Load(smsg'[t])]
<1>1. \A n \in Message \cup {None} : Load(n) \in Nat
  BY DEF Load, Message
<1>2. f \in [Servers -> Nat] /\ f[s] = Load(smsg[s]) /\ f[s] \in Nat
      /\ Load(smsg'[s]) \in Nat
  BY <1>1 DEF TypeOK
<1>3. g = [f EXCEPT ![s] = Load(smsg'[s])]
  OBVIOUS
<1>4. InService = Total(f) /\ InService' = Total(g)
  BY DEF InService, Load
<1> HIDE DEF f, g
<1>5. /\ f[s] <= Total(f)
      /\ Total([f EXCEPT ![s] = Load(smsg'[s])]) = Total(f) - f[s] + Load(smsg'[s])
  <2>1. IsFiniteSet(Servers)
    BY RefCountAssumption
  <2>2. f \in [Servers -> Nat] /\ Load(smsg'[s]) \in Nat
    BY <1>2
  <2>3. QED
    BY <2>1, <2>2, TotalExcept
<1>6. Total(f) \in Nat
  BY <1>2, RefCountAssumption, TotalType, Zenon
<1>7. QED
  BY <1>2, <1>3, <1>4, <1>5, <1>6

LEMMA QueuedIs == Queued = Total(Counts(toOwner)) /\ Queued' = Total(Counts(toOwner'))
BY DEF Queued, Counts

LEMMA BooksType ==
  ASSUME TypeOK
  PROVE  /\ Counted \in Nat /\ boxed \in Nat /\ toHolder \in Nat
         /\ InUnbox \in Nat /\ Queued \in Nat /\ InService \in Nat
<1>1. Counted \in Nat /\ boxed \in Nat /\ toHolder \in Nat
  BY SetupType DEF TypeOK, Counted
<1>2. InUnbox \in Nat
  <2> DEFINE A == {w \in Unboxers : upc[w] \in Unfinished}
  <2>1. A \in SUBSET Unboxers /\ InUnbox = Cardinality(A)
    BY DEF InUnbox, Unfinished
  <2> HIDE DEF A
  <2>2. IsFiniteSet(A)
    BY <2>1, RefCountAssumption, FS_Subset, Zenon
  <2>3. QED
    BY <2>1, <2>2, FS_CardinalityType, Zenon
<1>3. Queued \in Nat
  BY QueuedIs, CountsType DEF TypeOK
<1>4. InService \in Nat
  <2> DEFINE f == [t \in Servers |-> Load(smsg[t])]
  <2>1. f \in [Servers -> Nat]
    BY DEF TypeOK, Load, Message
  <2>2. InService = Total(f)
    BY DEF InService, Load
  <2> HIDE DEF f
  <2>3. QED
    BY <2>1, <2>2, RefCountAssumption, TotalType, Zenon
<1>5. QED
  BY <1>1, <1>2, <1>3, <1>4

OnTheWay == boxed + toHolder + InUnbox + InDels

LEMMA Unmoved ==
  /\ UNCHANGED slot => Counted' = Counted
  /\ UNCHANGED upc => InUnbox' = InUnbox
  /\ UNCHANGED toOwner => Queued' = Queued
  /\ UNCHANGED smsg => InService' = InService
BY DEF Counted, InUnbox, Queued, InService

LEMMA OwnerMoves ==
  ASSUME TypeOK, Wellformed, Box \/ SendBoxed
  PROVE  \E n \in {0, 1} : Counted' = Counted + n /\ OnTheWay' = OnTheWay + n
<1> USE DEF unboxVars, serverVars
<1>1. InUnbox' = InUnbox /\ Queued' = Queued /\ InService' = InService
  BY Unmoved DEF Box, SendBoxed
<1>2. CASE Box
  <2>1. Counted' = Counted + 1
    BY <1>2, RefCountAssumption DEF Box, Added, Counted, TypeOK
  <2>2. OnTheWay' = OnTheWay + 1
    BY <1>1, <1>2, BooksType DEF Box, OnTheWay, InDels
  <2>3. QED
    BY <2>1, <2>2
<1>3. CASE SendBoxed
  <2>1. Counted' = Counted
    BY <1>3, Unmoved DEF SendBoxed
  <2>2. OnTheWay' = OnTheWay
    BY <1>1, <1>3, BooksType DEF SendBoxed, OnTheWay, InDels
  <2>3. Counted \in Nat /\ OnTheWay \in Nat
    BY BooksType DEF OnTheWay, InDels
  <2>4. QED
    BY <2>1, <2>2, <2>3
<1>4. QED
  BY <1>2, <1>3

LEMMA UnboxMoves ==
  ASSUME TypeOK, NEW u \in Unboxers, Unboxing(u)
  PROVE  /\ Counted' = Counted
         /\ StartUnbox(u) \/ Lookup(u) \/ ReadCount(u) \/ Store(u) => OnTheWay' = OnTheWay
         /\ WriteCount(u) \/ Create(u) => OnTheWay' = OnTheWay - 1
         /\ Inspect(u) => OnTheWay' = OnTheWay - (IF slot = Absent THEN 1 ELSE 0)
         /\ Inspect(u) => OnTheWay >= 1
<1> USE DEF ownerVars, unboxVars, serverVars
<1>1. /\ boxed' = boxed /\ Counted' = Counted
      /\ Queued' = Queued /\ InService' = InService
  BY Unmoved DEF Unboxing, StartUnbox, Lookup, ReadCount, WriteCount, Inspect, Create, Store
<1>2. /\ InUnbox \in Nat /\ boxed \in Nat /\ toHolder \in Nat
      /\ Queued \in Nat /\ InService \in Nat
  BY BooksType
<1>3. StartUnbox(u) => InUnbox' = InUnbox + 1 /\ toHolder' = toHolder - 1
  BY <1>2, InUnboxMoves DEF StartUnbox, Unfinished, TypeOK
<1>4. Lookup(u) \/ ReadCount(u) => InUnbox' = InUnbox /\ toHolder' = toHolder
  <2>1. Lookup(u) => \E v \in {"read", "inspect"} : upc' = [upc EXCEPT ![u] = v]
    BY DEF Lookup
  <2>2. Lookup(u) => InUnbox' = InUnbox
    BY <1>2, <2>1, InUnboxMoves DEF Lookup, Unfinished, TypeOK
  <2>3. ReadCount(u) => InUnbox' = InUnbox
    BY <1>2, InUnboxMoves DEF ReadCount, Unfinished, TypeOK
  <2>4. QED
    BY <2>2, <2>3 DEF Lookup, ReadCount
<1>5. WriteCount(u) \/ Create(u) => InUnbox' = InUnbox - 1 /\ toHolder' = toHolder
  <2>1. WriteCount(u) => InUnbox' = InUnbox - 1
    BY <1>2, InUnboxMoves DEF WriteCount, Return, Unfinished, TypeOK
  <2>2. Create(u) => InUnbox' = InUnbox - 1
    BY <1>2, InUnboxMoves DEF Create, Unfinished, TypeOK
  <2>3. QED
    BY <2>1, <2>2 DEF WriteCount, Create
<1>6. Store(u) => InUnbox' = InUnbox /\ toHolder' = toHolder
  <2>1. Store(u) => InUnbox' = InUnbox
    BY <1>2, InUnboxMoves DEF Store, Return, Unfinished, TypeOK
  <2>2. QED
    BY <2>1 DEF Store
<1>7. Inspect(u) => /\ InUnbox' = InUnbox - (IF slot = Absent THEN 1 ELSE 0)
                    /\ toHolder' = toHolder /\ InUnbox >= 1
  <2>1. CASE slot = Absent
    <3>1. Inspect(u) => upc' = [upc EXCEPT ![u] = "idle"] /\ upc[u] = "inspect"
      BY <2>1 DEF Inspect
    <3>2. QED
      BY <1>2, <2>1, <3>1, InUnboxMoves DEF Inspect, Unfinished, TypeOK
  <2>2. CASE slot # Absent
    <3>1. Inspect(u) => upc' = [upc EXCEPT ![u] = "answered"] /\ upc[u] = "inspect"
      BY <2>2 DEF Inspect
    <3>2. QED
      BY <1>2, <2>2, <3>1, InUnboxMoves DEF Inspect, Unfinished, TypeOK
  <2>3. QED
    BY <2>1, <2>2
<1>8. QED
  BY <1>1, <1>2, <1>3, <1>4, <1>5, <1>6, <1>7 DEF OnTheWay, InDels

LEMMA HolderMoves ==
  ASSUME TypeOK, Wellformed, NEW p \in Proxies, Use(p) \/ Drop(p) \/ Collecting(p)
  PROVE  /\ Counted' = Counted
         /\ OnTheWay' = OnTheWay + (IF SendDel(p) THEN refcount[p] ELSE 0)
<1> USE DEF ownerVars, unboxVars, serverVars
<1>1. /\ boxed' = boxed /\ toHolder' = toHolder /\ Counted' = Counted
      /\ InUnbox' = InUnbox /\ InService' = InService
  BY Unmoved DEF Use, Drop, Collecting, Finalize, SendDel, Resurrect, Free, Remover
<1>2. /\ InUnbox \in Nat /\ boxed \in Nat /\ toHolder \in Nat
      /\ Queued \in Nat /\ InService \in Nat /\ toOwner \in Seq(Message)
      /\ refcount[p] \in Nat
  BY BooksType DEF TypeOK
<1>3. ASSUME Use(p) PROVE Queued' = Queued /\ ~SendDel(p)
  <2>1. [kind |-> "use", count |-> 0] \in Message
    BY DEF Message
  <2>2. Queued' = Queued + 0
    BY <1>2, <1>3, <2>1, QueuedIs, TotalAppend DEF Use
  <2>3. UNCHANGED proxyVars
    BY <1>3 DEF Use
  <2>4. QED
    BY <1>2, <2>2, <2>3 DEF SendDel, TypeOK, proxyVars
<1>4. ASSUME SendDel(p) PROVE Queued' = Queued + refcount[p]
  <2>1. [kind |-> "del", count |-> refcount[p]] \in Message
    BY <1>2 DEF Message
  <2>2. QED
    BY <1>2, <1>4, <2>1, QueuedIs, TotalAppend DEF SendDel, DelCount
<1>5. ASSUME Drop(p) \/ Finalize(p) \/ Resurrect(p) \/ Free(p) \/ Remover(p)
      PROVE  Queued' = Queued /\ ~SendDel(p)
  <2>1. UNCHANGED toOwner
    BY <1>5 DEF Drop, Finalize, Resurrect, Free, Remover
  <2>2. Len(toOwner) \in Nat /\ \A m : Len(Append(toOwner, m)) = Len(toOwner) + 1
    BY <1>2
  <2>3. QED
    BY <2>1, <2>2, Unmoved DEF SendDel
<1>6. QED
  BY <1>1, <1>2, <1>3, <1>4, <1>5 DEF Collecting, OnTheWay, InDels

LEMMA ServerMoves ==
  ASSUME TypeOK, Wellformed, NEW s \in Servers, Serving(s)
  PROVE  /\ smsg[s] = None \/ (smsg[s] \in Message /\ smsg[s].count <= OnTheWay)
         /\ OnTheWay \in Nat
         /\ ReceiveRequest(s) => Counted' = Counted /\ OnTheWay' = OnTheWay
         /\ UnboxLocal(s) =>
              /\ Counted' = Counted
              /\ OnTheWay' = IF slot = Absent THEN OnTheWay - smsg[s].count ELSE OnTheWay
         /\ HandleDel(s) => /\ smsg[s].count <= Counted => Counted' = Counted - smsg[s].count
                            /\ OnTheWay' = OnTheWay - smsg[s].count
<1> USE DEF ownerVars, unboxVars
<1>1. boxed' = boxed /\ toHolder' = toHolder /\ InUnbox' = InUnbox
  BY Unmoved DEF Serving, ReceiveRequest, UnboxLocal, HandleDel
<1>2. /\ Counted \in Nat /\ InUnbox \in Nat /\ boxed \in Nat /\ toHolder \in Nat
      /\ Queued \in Nat /\ InService \in Nat /\ toOwner \in Seq(Message)
  BY BooksType DEF TypeOK
<1>3. /\ smsg[s] = None \/ smsg[s] \in Message
      /\ smsg[s] \in Message => smsg[s] # None /\ smsg[s].count \in Nat
      /\ smsg[s] # None => smsg[s].count <= InService
  <2>1. smsg[s] = None \/ (smsg[s] \in Message /\ smsg[s].count \in Nat)
    BY DEF TypeOK, Message
  <2>2. smsg = [smsg EXCEPT ![s] = smsg[s]]
    BY DEF TypeOK
  <2>3. Total([t \in Servers |-> Load(smsg[t])]) = InService
    BY DEF InService, Load
  <2> DEFINE f == [t \in Servers |-> Load(smsg[t])]
  <2>4. f \in [Servers -> Nat] /\ f[s] = Load(smsg[s])
    BY DEF TypeOK, Load, Message
  <2> HIDE DEF f
  <2>5. IsFiniteSet(Servers)
    BY RefCountAssumption
  <2>6. f[s] <= Total(f)
    BY <2>4, <2>5, TotalExcept
  <2>7. QED
    BY <2>1, <2>3, <2>4, <2>6, RefCountAssumption DEF f, Load
<1>4. ReceiveRequest(s) => Counted' = Counted /\ Queued' + InService' = Queued + InService
  <2> SUFFICES ASSUME ReceiveRequest(s)
               PROVE  Counted' = Counted /\ Queued' + InService' = Queued + InService
    OBVIOUS
  <2>1. /\ Head(toOwner) \in Message /\ Queued = Head(toOwner).count + Queued'
    BY <1>2, QueuedIs, TotalTail DEF ReceiveRequest
  <2>2. Load(smsg[s]) = 0 /\ Load(Head(toOwner)) = Head(toOwner).count
    BY <2>1, RefCountAssumption DEF ReceiveRequest, Wellformed, Load
  <2>3. InService' = InService - Load(smsg[s]) + Load(Head(toOwner))
    <3>1. smsg'[s] = Head(toOwner) /\ \A t \in Servers : t # s => smsg'[t] = smsg[t]
      BY DEF ReceiveRequest, TypeOK
    <3>2. QED
      BY <2>1, <3>1, InServiceMoves
  <2>4. Tail(toOwner) \in Seq(Message) /\ toOwner' = Tail(toOwner)
    BY <1>2 DEF ReceiveRequest
  <2>5. Queued' \in Nat /\ Head(toOwner).count \in Nat
    <3>1. Total(Counts(Tail(toOwner))) \in Nat
      BY <2>4, CountsType, Zenon
    <3>2. Head(toOwner).count \in Nat
      BY <2>1 DEF Message
    <3>3. QED
      BY <2>4, <3>1, <3>2, QueuedIs
  <2>6. QED
    BY <1>2, <2>1, <2>2, <2>3, <2>5, Unmoved, SMTT(30) DEF ReceiveRequest
<1>5. ASSUME UnboxLocal(s)
      PROVE  /\ Counted' = Counted /\ Queued' = Queued
             /\ InService' = IF slot = Absent THEN InService - smsg[s].count ELSE InService
  <2>1. smsg[s] \in Message /\ Load(smsg[s]) = smsg[s].count
    BY <1>5, RefCountAssumption DEF UnboxLocal, Wellformed, Load
  <2>2. CASE slot # Absent /\ smsg[s].kind = "del"
    <3>1. smsg' = smsg
      BY <1>5, <2>2 DEF UnboxLocal, TypeOK
    <3>2. QED
      BY <1>5, <2>2, <3>1, Unmoved DEF UnboxLocal
  <2>3. CASE ~(slot # Absent /\ smsg[s].kind = "del")
    <3>1. smsg' = [smsg EXCEPT ![s] = None]
      BY <1>5, <2>3 DEF UnboxLocal
    <3>2. InService' = InService - smsg[s].count + 0
      <4>1. smsg'[s] = None /\ \A t \in Servers : t # s => smsg'[t] = smsg[t]
        BY <3>1 DEF TypeOK
      <4>2. Load(smsg'[s]) = 0
        BY <4>1 DEF Load
      <4>3. QED
        BY <2>1, <4>1, <4>2, InServiceMoves
    <3>3. slot # Absent => smsg[s].count = 0
      BY <2>1, <2>3 DEF Message
    <3>4. QED
      BY <1>2, <1>3, <1>5, <2>1, <3>2, <3>3, Unmoved DEF UnboxLocal
  <2>4. QED
    BY <2>2, <2>3
<1>6. ASSUME HandleDel(s)
      PROVE  /\ smsg[s].count <= Counted => Counted' = Counted - smsg[s].count
             /\ Queued' = Queued /\ InService' = InService - smsg[s].count
  <2>1. smsg[s] \in Message /\ Load(smsg[s]) = smsg[s].count /\ smsg[s].count \in Nat
    BY <1>6, RefCountAssumption DEF HandleDel, Wellformed, Load, Message
  <2>2. InService' = InService - smsg[s].count + 0
    <3>1. smsg'[s] = None /\ \A t \in Servers : t # s => smsg'[t] = smsg[t]
      BY <1>6 DEF HandleDel, TypeOK
    <3>2. Load(smsg'[s]) = 0
      BY <3>1 DEF Load
    <3>3. QED
      BY <2>1, <3>1, <3>2, InServiceMoves
  <2>3. ASSUME smsg[s].count <= Counted PROVE Counted' = Counted - smsg[s].count
    <3>1. CASE slot = Absent
      BY <1>6, <2>1, <2>3, <3>1 DEF HandleDel, Counted
    <3>2. CASE slot # Absent /\ slot < smsg[s].count
      <4>1. slot \in Nat /\ slot' = Absent
        BY <1>6, <3>2 DEF HandleDel, Decreased, TypeOK
      <4>2. QED
        BY <2>1, <2>3, <3>2, <4>1 DEF Counted
    <3>3. CASE slot # Absent /\ ~(slot < smsg[s].count)
      <4>1. slot \in Nat /\ slot' = slot - smsg[s].count
        BY <1>6, <3>3 DEF HandleDel, Decreased, TypeOK
      <4>2. slot' \in Nat /\ slot' # Absent
        BY <2>1, <3>3, <4>1, RefCountAssumption
      <4>3. QED
        BY <2>1, <3>3, <4>1, <4>2 DEF Counted
    <3>4. QED
      BY <3>1, <3>2, <3>3
  <2>4. QED
    BY <1>2, <1>6, <2>1, <2>2, <2>3, Unmoved DEF HandleDel
<1>7. OnTheWay \in Nat /\ InService <= OnTheWay
  BY <1>2 DEF OnTheWay, InDels
<1>8. smsg[s] = None \/ (smsg[s] \in Message /\ smsg[s].count <= OnTheWay)
  BY <1>2, <1>3, <1>7
<1>9. ReceiveRequest(s) => OnTheWay' = OnTheWay
  BY <1>1, <1>4, <1>2 DEF OnTheWay, InDels
<1>10. ASSUME UnboxLocal(s)
       PROVE  OnTheWay' = IF slot = Absent THEN OnTheWay - smsg[s].count ELSE OnTheWay
  <2>1. smsg[s].count \in Nat
    BY <1>3, <1>10 DEF UnboxLocal, Wellformed
  <2>2. /\ Queued' = Queued
        /\ InService' = IF slot = Absent THEN InService - smsg[s].count ELSE InService
    BY <1>5, <1>10
  <2>3. QED
    BY <1>1, <1>2, <2>1, <2>2 DEF OnTheWay, InDels
<1>11. ASSUME HandleDel(s) PROVE OnTheWay' = OnTheWay - smsg[s].count
  <2>1. smsg[s].count \in Nat
    BY <1>3, <1>11 DEF HandleDel, Wellformed
  <2>2. Queued' = Queued /\ InService' = InService - smsg[s].count
    BY <1>6, <1>11
  <2>3. QED
    BY <1>1, <1>2, <2>1, <2>2 DEF OnTheWay, InDels
<1>12. QED
  BY <1>4, <1>5, <1>6, <1>7, <1>8, <1>9, <1>10, <1>11

-----------------------------------------------------------------------------
(* With several threads increments of ____refcount__ are lost, and counts  *)
(* read before may be written later.  The references that a proxy has ever *)
(* been given are a bound of both.                                         *)
Backed(given) == [p \in Proxies |-> IF Unfinalized(p) THEN given[p] ELSE 0]

Bounded(given) ==
  /\ \A p \in Proxies : refcount[p] <= given[p]
  /\ \A u \in Unboxers : upc[u] = "write" => uread[u] <= given[uproxy[u]]
  /\ Counted >= OnTheWay + Total(Backed(given))

Covered == \E given \in [Proxies -> Nat] : Bounded(given)

LEMMA BackedMoves ==
  ASSUME NEW given \in [Proxies -> Nat], NEW after \in [Proxies -> Nat], NEW p \in Proxies,
         \A q \in Proxies : q # p => after[q] = given[q] /\ Unfinalized(q)' = Unfinalized(q)
  PROVE  /\ Total(Backed(given)) \in Nat /\ Total(Backed(after))' \in Nat
         /\ Unfinalized(p) => given[p] <= Total(Backed(given))
         /\ Total(Backed(after))' = Total(Backed(given))
              - (IF Unfinalized(p) THEN given[p] ELSE 0)
              + (IF Unfinalized(p)' THEN after[p] ELSE 0)
<1> DEFINE f == Backed(given)
           g == Backed(after)'
           n == IF Unfinalized(p)' THEN after[p] ELSE 0
<1>1. f \in [Proxies -> Nat] /\ f[p] = IF Unfinalized(p) THEN given[p] ELSE 0
  BY DEF Backed
<1>2. n \in Nat /\ given[p] \in Nat
  OBVIOUS
<1>3. g \in [Proxies -> Nat]
  BY DEF Backed
<1>4. g = [f EXCEPT ![p] = n]
  BY DEF Backed
<1> HIDE DEF f, g, n
<1>5. IsFiniteSet(Proxies)
  BY RefCountAssumption
<1>6. f[p] <= Total(f) /\ Total(g) = Total(f) - f[p] + n
  BY <1>1, <1>2, <1>4, <1>5, TotalExcept
<1>7. Total(f) \in Nat /\ Total(g) \in Nat
  BY <1>1, <1>3, <1>5, TotalType, Zenon
<1>8. QED
  BY <1>1, <1>2, <1>6, <1>7 DEF f, g, n

LEMMA BackedUnmoved ==
  ASSUME NEW given \in [Proxies -> Nat],
         \A q \in Proxies : Unfinalized(q)' = Unfinalized(q)
  PROVE  /\ Total(Backed(given)) \in Nat
         /\ Total(Backed(given))' = Total(Backed(given))
<1>1. Backed(given) \in [Proxies -> Nat] /\ Backed(given)' = Backed(given)
  BY DEF Backed
<1>2. Total(Backed(given))' = Total(Backed(given))
  BY <1>1
<1>3. QED
  BY <1>1, <1>2, RefCountAssumption, TotalType

LEMMA CoveredInit == Init => Covered
<1> SUFFICES ASSUME Init PROVE Covered
  OBVIOUS
<1> DEFINE given == [p \in Proxies |-> 0]
<1>1. given \in [Proxies -> Nat]
  OBVIOUS
<1>2. Counted = 0
  BY DEF Init, Counted
<1>3. InUnbox = 0
  <2>1. {u \in Unboxers : upc[u] \in {"lookup", "read", "write", "inspect", "answered"}} = {}
    BY DEF Init
  <2>2. QED
    BY <2>1, FS_EmptySet DEF InUnbox
<1>4. Queued = 0
  <2>1. References(Counts(toOwner)) = {}
    BY DEF Init, References, Counts
  <2>2. QED
    BY <2>1, QueuedIs, FS_EmptySet DEF Total
<1>5. InService = 0
  <2> DEFINE f == [s \in Servers |-> IF smsg[s] = None THEN 0 ELSE smsg[s].count]
  <2>1. f \in [Servers -> Nat] /\ \A s \in Servers : f[s] = 0
    BY DEF Init
  <2> HIDE DEF f
  <2>2. Total(f) = 0
    BY <2>1, TotalNone, Zenon
  <2>3. QED
    BY <2>2 DEF InService, f
<1>6. Total(Backed(given)) = 0
  <2>1. Backed(given) \in [Proxies -> Nat] /\ \A p \in Proxies : Backed(given)[p] = 0
    BY DEF Backed
  <2> HIDE DEF given
  <2>2. QED
    BY <2>1, TotalNone, Zenon
<1>7. Bounded(given)
  BY <1>2, <1>3, <1>4, <1>5, <1>6 DEF Init, Bounded, OnTheWay, InDels
<1>8. QED
  BY <1>1, <1>7 DEF Covered

LEMMA CoveredNext ==
  TypeOK /\ Wellformed /\ Covered /\ [Next]_vars => Covered'
<1> SUFFICES ASSUME TypeOK, Wellformed, Covered, [Next]_vars
             PROVE  Covered'
  OBVIOUS
<1> USE DEF ownerVars, unboxVars, proxyVars, serverVars
<1>1. PICK given \in [Proxies -> Nat] : Bounded(given)
  BY DEF Covered
<1>2. /\ Counted \in Nat /\ OnTheWay \in Nat
  BY BooksType DEF OnTheWay, InDels
<1>3. SUFFICES \E after \in [Proxies -> Nat] : Bounded(after)'
  BY DEF Covered
<1>4. CASE Box \/ SendBoxed
  <2>1. /\ UNCHANGED <<state, finalized, refcount, upc, uread, uproxy>>
    BY <1>4 DEF Box, SendBoxed
  <2>2. /\ Total(Backed(given)) \in Nat /\ Total(Backed(given))' = Total(Backed(given))
    BY <2>1, BackedUnmoved DEF Unfinalized
  <2>3. \E n \in {0, 1} : Counted' = Counted + n /\ OnTheWay' = OnTheWay + n
    BY <1>4, OwnerMoves
  <2>4. Bounded(given)'
    BY <1>1, <1>2, <2>1, <2>2, <2>3 DEF Bounded
  <2>5. QED
    BY <2>4
<1>5. ASSUME NEW u \in Unboxers, StartUnbox(u) \/ Lookup(u) \/ Store(u) \/ ReadCount(u) \/ Inspect(u)
      PROVE  Bounded(given)'
  <2>1. UNCHANGED <<state, finalized, refcount>>
    BY <1>5 DEF StartUnbox, Lookup, Store, Return, ReadCount, Inspect
  <2>2. /\ Total(Backed(given)) \in Nat /\ Total(Backed(given))' = Total(Backed(given))
    BY <2>1, BackedUnmoved DEF Unfinalized
  <2>3. Counted' = Counted /\ OnTheWay' <= OnTheWay
    BY <1>2, <1>5, UnboxMoves DEF Unboxing
  <2>4. \A w \in Unboxers : upc'[w] = "write" => uread'[w] <= given[uproxy'[w]]
    <3>1. CASE ReadCount(u)
      <4>1. uproxy[u] \in Proxies
        BY <3>1 DEF ReadCount, Wellformed
      <4>2. QED
        BY <1>1, <3>1, <4>1 DEF ReadCount, Bounded, TypeOK
    <3>2. CASE StartUnbox(u)
      BY <1>1, <3>2 DEF StartUnbox, Bounded, TypeOK
    <3>3. CASE Lookup(u)
      BY <1>1, <3>3 DEF Lookup, Bounded, TypeOK
    <3>4. CASE Store(u)
      BY <1>1, <3>4 DEF Store, Return, Bounded, TypeOK
    <3>5. CASE Inspect(u)
      BY <1>1, <3>5 DEF Inspect, Bounded, TypeOK
    <3>6. QED
      BY <1>5, <3>1, <3>2, <3>3, <3>4, <3>5
  <2>5. OnTheWay' \in Nat \/ OnTheWay' \in Int
    BY <1>2, <1>5, UnboxMoves DEF Unboxing
  <2>6. QED
    BY <1>1, <1>2, <2>1, <2>2, <2>3, <2>4, <2>5 DEF Bounded
<1>6. ASSUME NEW u \in Unboxers, WriteCount(u)
      PROVE  \E after \in [Proxies -> Nat] : Bounded(after)'
  <2>0. PICK p \in Proxies : p = uproxy[u]
    BY <1>6 DEF WriteCount, Wellformed
  <2> DEFINE after == [given EXCEPT ![p] = given[p] + 1]
  <2>1. /\ upc[u] = "write" /\ uread[u] <= given[p] /\ uread[u] \in Nat
        /\ given[p] \in Nat
    BY <1>1, <1>6, <2>0 DEF WriteCount, Bounded, TypeOK
  <2>2. /\ after \in [Proxies -> Nat] /\ after[p] = given[p] + 1
        /\ \A q \in Proxies : q # p => after[q] = given[q]
        /\ \A q \in Proxies : given[q] <= after[q]
    BY <2>1
  <2> HIDE DEF after
  <2>3. UNCHANGED <<state, finalized>>
    BY <1>6 DEF WriteCount
  <2>4. Counted' = Counted /\ OnTheWay' = OnTheWay - 1
    BY <1>6, UnboxMoves DEF Unboxing
  <2>5. /\ Total(Backed(given)) \in Nat /\ Total(Backed(after))' \in Nat
        /\ Total(Backed(after))' <= Total(Backed(given)) + 1
    <3>1. \A q \in Proxies : Unfinalized(q)' = Unfinalized(q)
      BY <2>3 DEF Unfinalized
    <3>2. Total(Backed(after))' = Total(Backed(given))
              - (IF Unfinalized(p) THEN given[p] ELSE 0)
              + (IF Unfinalized(p)' THEN after[p] ELSE 0)
          /\ Total(Backed(given)) \in Nat /\ Total(Backed(after))' \in Nat
      BY <2>1, <2>2, <3>1, BackedMoves
    <3>3. QED
      BY <2>1, <2>2, <3>1, <3>2
  <2>6. \A q \in Proxies : refcount'[q] <= after[q]
    <3>1. refcount'[p] = uread[u] + 1 /\ \A q \in Proxies : q # p => refcount'[q] = refcount[q]
      BY <1>6, <2>0 DEF WriteCount, TypeOK
    <3>2. QED
      BY <1>1, <2>1, <2>2, <3>1 DEF Bounded
  <2>7. \A w \in Unboxers : upc'[w] = "write" => uread'[w] <= after[uproxy'[w]]
    <3>1. SUFFICES ASSUME NEW w \in Unboxers, upc'[w] = "write"
                   PROVE  uread'[w] <= after[uproxy'[w]]
      OBVIOUS
    <3>2. w # u /\ upc[w] = "write" /\ uread'[w] = uread[w] /\ uproxy'[w] = uproxy[w]
      BY <1>6, <3>1 DEF WriteCount, Return, TypeOK
    <3>3. uproxy[w] \in Proxies /\ uread[w] <= given[uproxy[w]] /\ uread[w] \in Nat
      BY <1>1, <3>2 DEF Wellformed, Bounded, TypeOK
    <3>4. QED
      BY <2>2, <3>2, <3>3
  <2>8. Counted' >= OnTheWay' + Total(Backed(after))'
    BY <1>1, <1>2, <2>4, <2>5 DEF Bounded
  <2>9. QED
    BY <2>2, <2>6, <2>7, <2>8 DEF Bounded
<1>7. ASSUME NEW u \in Unboxers, Create(u)
      PROVE  \E after \in [Proxies -> Nat] : Bounded(after)'
  <2>1. PICK p \in Proxies : /\ state[p] = "unborn"
                             /\ state' = [state EXCEPT ![p] = "live"]
                             /\ refcount' = [refcount EXCEPT ![p] = 1]
                             /\ uproxy' = [uproxy EXCEPT ![u] = p]
    BY <1>7 DEF Create
  <2> DEFINE after == [given EXCEPT ![p] = 1]
  <2>2. /\ after \in [Proxies -> Nat] /\ after[p] = 1
        /\ \A q \in Proxies : q # p => after[q] = given[q]
    OBVIOUS
  <2> HIDE DEF after
  <2>3. Counted' = Counted /\ OnTheWay' = OnTheWay - 1
    BY <1>7, UnboxMoves DEF Unboxing
  <2>4. /\ Total(Backed(given)) \in Nat /\ Total(Backed(after))' \in Nat
        /\ Total(Backed(after))' <= Total(Backed(given)) + 1
    <3>1. /\ \A q \in Proxies : q # p => Unfinalized(q)' = Unfinalized(q)
          /\ ~Unfinalized(p)
      BY <1>7, <2>1 DEF Create, Unfinalized, TypeOK
    <3>2. Total(Backed(after))' = Total(Backed(given))
              - (IF Unfinalized(p) THEN given[p] ELSE 0)
              + (IF Unfinalized(p)' THEN after[p] ELSE 0)
          /\ Total(Backed(given)) \in Nat /\ Total(Backed(after))' \in Nat
      BY <2>2, <3>1, BackedMoves
    <3>3. QED
      BY <2>2, <3>1, <3>2
  <2>5. \A q \in Proxies : refcount'[q] <= after[q]
    <3>1. refcount'[p] = 1 /\ \A q \in Proxies : q # p => refcount'[q] = refcount[q]
      BY <2>1 DEF TypeOK
    <3>2. QED
      BY <1>1, <2>2, <3>1 DEF Bounded
  <2>6. \A w \in Unboxers : upc'[w] = "write" => uread'[w] <= after[uproxy'[w]]
    <3>1. SUFFICES ASSUME NEW w \in Unboxers, upc'[w] = "write"
                   PROVE  uread'[w] <= after[uproxy'[w]]
      OBVIOUS
    <3>2. w # u /\ upc[w] = "write" /\ uread'[w] = uread[w] /\ uproxy'[w] = uproxy[w]
      BY <1>7, <2>1, <3>1 DEF Create, TypeOK
    <3>3. /\ uproxy[w] \in Proxies /\ uproxy[w] # p
          /\ uread[w] <= given[uproxy[w]]
      BY <1>1, <2>1, <3>2 DEF Wellformed, Bounded, TypeOK
    <3>4. QED
      BY <2>2, <3>2, <3>3
  <2>7. Counted' >= OnTheWay' + Total(Backed(after))'
    BY <1>1, <1>2, <2>3, <2>4 DEF Bounded
  <2>8. QED
    BY <2>2, <2>5, <2>6, <2>7 DEF Bounded
<1>8. ASSUME NEW p \in Proxies, Use(p) \/ Drop(p) \/ Collecting(p)
      PROVE  Bounded(given)'
  <2>1. UNCHANGED <<refcount, upc, uread, uproxy>>
    BY <1>8 DEF Use, Drop, Collecting, Finalize, SendDel, Resurrect, Free, Remover
  <2>2. /\ Counted' = Counted
        /\ OnTheWay' = OnTheWay + (IF SendDel(p) THEN refcount[p] ELSE 0)
    BY <1>8, HolderMoves
  <2>3. refcount[p] \in Nat /\ given[p] \in Nat /\ refcount[p] <= given[p]
    BY <1>1 DEF Bounded, TypeOK
  <2>4. \A q \in Proxies : q # p => Unfinalized(q)' = Unfinalized(q)
    BY <1>8 DEF Use, Drop, Collecting, Finalize, SendDel, Resurrect, Free, Remover,
                Unfinalized, TypeOK
  <2>5. /\ Total(Backed(given)) \in Nat /\ Total(Backed(given))' \in Nat
        /\ Total(Backed(given))' = Total(Backed(given))
              - (IF Unfinalized(p) THEN given[p] ELSE 0)
              + (IF Unfinalized(p)' THEN given[p] ELSE 0)
    BY <2>4, BackedMoves
  <2>6. CASE SendDel(p)
    <3>1. Unfinalized(p) /\ ~Unfinalized(p)'
      BY <2>6 DEF SendDel, Unfinalized, TypeOK
    <3>2. Counted' >= OnTheWay' + Total(Backed(given))'
      BY <1>1, <1>2, <2>2, <2>3, <2>5, <2>6, <3>1 DEF Bounded
    <3>3. QED
      BY <1>1, <2>1, <3>2 DEF Bounded
  <2>7. CASE ~SendDel(p)
    <3>1. Unfinalized(p)' = Unfinalized(p)
      <4>1. CASE Use(p) \/ Drop(p)
        BY <4>1 DEF Use, Drop, Unfinalized
      <4>2. CASE Finalize(p)
        BY <4>2 DEF Finalize, Unfinalized, TypeOK
      <4>3. CASE Resurrect(p) \/ Free(p) \/ Remover(p)
        BY <4>3 DEF Resurrect, Free, Remover, Unfinalized, TypeOK, Wellformed
      <4>4. QED
        BY <1>8, <2>7, <4>1, <4>2, <4>3 DEF Collecting
    <3>2. Counted' >= OnTheWay' + Total(Backed(given))'
      BY <1>1, <1>2, <2>2, <2>3, <2>5, <2>7, <3>1 DEF Bounded
    <3>3. QED
      BY <1>1, <2>1, <3>2 DEF Bounded
  <2>8. QED
    BY <2>6, <2>7
<1>9. ASSUME NEW s \in Servers, Serving(s)
      PROVE  Bounded(given)'
  <2>1. UNCHANGED <<refcount, upc, uread, uproxy, state, finalized>>
    BY <1>9 DEF Serving, ReceiveRequest, UnboxLocal, HandleDel
  <2>2. /\ Total(Backed(given)) \in Nat /\ Total(Backed(given))' = Total(Backed(given))
    BY <2>1, BackedUnmoved DEF Unfinalized
  <2>3. Counted' >= OnTheWay' + Total(Backed(given))'
    <3>1. CASE ReceiveRequest(s)
      BY <1>1, <1>9, <2>2, <3>1, ServerMoves DEF Bounded
    <3>2. CASE UnboxLocal(s)
      <4>1. smsg[s] \in Message /\ smsg[s].count \in Nat
        BY <3>2 DEF UnboxLocal, Wellformed, Message
      <4>2. QED
        BY <1>1, <1>2, <1>9, <2>2, <3>2, <4>1, ServerMoves DEF Bounded
    <3>3. CASE HandleDel(s)
      <4>1. smsg[s] \in Message /\ smsg[s].count \in Nat /\ smsg[s] # None
        BY <3>3, RefCountAssumption DEF HandleDel, Wellformed, Message
      <4>2. smsg[s].count <= OnTheWay
        BY <1>9, <4>1, ServerMoves
      <4>3. smsg[s].count <= Counted
        BY <1>1, <1>2, <2>2, <4>1, <4>2 DEF Bounded
      <4>4. Counted' = Counted - smsg[s].count /\ OnTheWay' = OnTheWay - smsg[s].count
        BY <1>9, <3>3, <4>3, ServerMoves
      <4>5. QED
        BY <1>1, <1>2, <2>2, <4>1, <4>4 DEF Bounded
    <3>4. QED
      BY <1>9, <3>1, <3>2, <3>3 DEF Serving
  <2>4. QED
    BY <1>1, <2>1, <2>3 DEF Bounded
<1>10. CASE UNCHANGED vars
  <2>1. UNCHANGED <<refcount, upc, uread, uproxy, state, finalized>>
        /\ UNCHANGED <<slot, boxed, toHolder, toOwner, smsg>>
    BY <1>10 DEF vars
  <2>2. Total(Backed(given))' = Total(Backed(given))
    BY <2>1, BackedUnmoved DEF Unfinalized
  <2>3. Counted' = Counted /\ OnTheWay' = OnTheWay
    BY <2>1, Unmoved DEF OnTheWay, InDels
  <2>4. QED
    BY <1>1, <2>1, <2>2, <2>3 DEF Bounded
<1>11. QED
  <2>1. ASSUME NEW u \in Unboxers, Unboxing(u)
        PROVE  \E after \in [Proxies -> Nat] : Bounded(after)'
    BY <1>5, <1>6, <1>7, <2>1 DEF Unboxing
  <2>2. QED
    BY <1>4, <1>8, <1>9, <1>10, <2>1 DEF Next

(* However the holder's threads interleave, the owner's count covers every *)
(* reference that is on its way or in a proxy not yet finalized.           *)
THEOREM CountCovers == Spec => []NeverTooLow
<1> DEFINE IInv == TypeOK /\ Wellformed /\ Covered
<1>1. Init => IInv
  BY ShapesInit, CoveredInit
<1>2. IInv /\ [Next]_vars => IInv'
  BY ShapesNext, CoveredNext
<1>3. IInv => NeverTooLow
  <2> SUFFICES ASSUME IInv PROVE NeverTooLow
    OBVIOUS
  <2>1. PICK given \in [Proxies -> Nat] : Bounded(given)
    BY DEF Covered
  <2> DEFINE f == [p \in Proxies |-> IF Unfinalized(p) THEN refcount[p] ELSE 0]
  <2>2. f \in [Proxies -> Nat] /\ Backed(given) \in [Proxies -> Nat]
    BY DEF Backed, TypeOK
  <2>3. \A p \in Proxies : f[p] <= Backed(given)[p]
    BY <2>1 DEF Backed, Bounded, TypeOK
  <2> HIDE DEF f
  <2>4. IsFiniteSet(Proxies)
    BY RefCountAssumption
  <2>5. /\ Total(f) <= Total(Backed(given))
        /\ Total(f) \in Nat /\ Total(Backed(given)) \in Nat
    BY <2>2, <2>3, <2>4, TotalMonotone, TotalType, Zenon
  <2>6. Counted \in Nat /\ OnTheWay \in Nat
    BY BooksType DEF OnTheWay, InDels
  <2>7. Counted >= OnTheWay + Total(f)
    BY <2>1, <2>5, <2>6 DEF Bounded
  <2>8. QED
    BY <2>7 DEF NeverTooLow, OnTheWay, f
<1>4. QED
  BY <1>1, <1>2, <1>3, PTL DEF Spec

-----------------------------------------------------------------------------
(* One thread at the holder.                                               *)
LEMMA OneThreadNext ==
  ASSUME TypeOK, Wellformed, setup.single, OneThread, [Next]_vars
  PROVE  OneThread'
<1> USE DEF ownerVars, unboxVars, proxyVars, serverVars
<1>1. ASSUME NEW u \in Unboxers, Unboxing(u) PROVE OneThread'
  <2>1. CASE StartUnbox(u)
    BY <2>1 DEF StartUnbox, ThreadFree, OneThread, Busy, TypeOK
  <2>2. CASE Lookup(u)
    BY <2>2 DEF Lookup, Reachable, OneThread, Busy, TypeOK
  <2>3. CASE ReadCount(u)
    BY <2>3 DEF ReadCount, OneThread, Busy, TypeOK
  <2>4. CASE WriteCount(u)
    <3>1. uproxy[u] \in Proxies /\ Busy(u) /\ state[uproxy[u]] = "live"
      BY <2>4, RefCountAssumption DEF WriteCount, Wellformed, OneThread, Busy
    <3>2. \A w \in Unboxers : w # u => ~Busy(w) /\ ~Busy(w)'
      BY <2>4, <3>1, ZenonT(40) DEF WriteCount, Return, OneThread, Busy, TypeOK
    <3>3. ~Busy(u)'
      BY <2>4 DEF WriteCount, Return, Busy, TypeOK
    <3>4. \A w \in Unboxers : w # u => uproxy'[w] = uproxy[w]
      BY <2>4 DEF WriteCount, Return, TypeOK
    <3>5. uproxy'[u] = None /\ state' = state /\ finalized' = finalized
      BY <2>4 DEF WriteCount, Return, TypeOK
    <3>6. \A w \in Unboxers : uproxy'[w] # None => state'[uproxy'[w]] = "live"
      BY <3>4, <3>5 DEF OneThread
    <3>7. \A w \in Unboxers : upc'[w] # "write"
      BY <3>2, <3>3 DEF Busy
    <3>8. \A p \in Proxies : held'[p] => state'[p] = "live"
      BY <2>4, <3>1 DEF WriteCount, Return, OneThread, TypeOK
    <3>9. QED
      BY <3>2, <3>3, <3>5, <3>6, <3>7, <3>8 DEF OneThread
  <2>5. CASE Inspect(u)
    BY <2>5 DEF Inspect, OneThread, Busy, TypeOK
  <2>6. CASE Create(u)
    <3>1. PICK p \in Proxies : /\ state[p] = "unborn"
                               /\ state' = [state EXCEPT ![p] = "live"]
                               /\ refcount' = [refcount EXCEPT ![p] = 1]
                               /\ uproxy' = [uproxy EXCEPT ![u] = p]
      BY <2>6 DEF Create
    <3>2. \A w \in Unboxers : ~Busy(w) /\ (w # u => ~Busy(w)') /\ upc'[w] # "write"
      BY <2>6 DEF Create, ThreadFree, Busy, TypeOK
    <3>3. \A q \in Proxies : state'[q] \notin {"dying", "sent", "cleared"}
      BY <2>6, <3>1 DEF Create, ThreadFree, TypeOK
    <3>4. \A w \in Unboxers : uproxy'[w] # None => state'[uproxy'[w]] = "live"
      BY <3>1 DEF OneThread, TypeOK
    <3>5. \A q \in Proxies : /\ held'[q] => state'[q] = "live"
                             /\ state'[q] \in {"unborn", "live"} => ~finalized'[q]
      BY <2>6, <3>1 DEF Create, OneThread, TypeOK
    <3>6. QED
      BY <3>2, <3>3, <3>4, <3>5 DEF OneThread
  <2>7. CASE Store(u)
    <3>1. uproxy[u] \in Proxies /\ Busy(u) /\ state[uproxy[u]] = "live"
      BY <2>7, RefCountAssumption DEF Store, Wellformed, OneThread, Busy
    <3>2. QED
      BY <2>7, <3>1 DEF Store, Return, OneThread, Busy, TypeOK
  <2>8. QED
    BY <1>1, <2>1, <2>2, <2>3, <2>4, <2>5, <2>6, <2>7 DEF Unboxing
<1>2. ASSUME NEW p \in Proxies, Use(p) \/ Drop(p) \/ Collecting(p) PROVE OneThread'
  <2>1. CASE Use(p)
    BY <2>1 DEF Use, OneThread, Busy
  <2>2. CASE Drop(p)
    BY <2>2 DEF Drop, OneThread, Busy, TypeOK
  <2>3. CASE Finalize(p)
    BY <2>3 DEF Finalize, ThreadFree, Referenced, OneThread, Busy, TypeOK
  <2>4. CASE SendDel(p)
    BY <2>4 DEF SendDel, OneThread, Busy, TypeOK
  <2>5. CASE Resurrect(p)
    BY <2>5, RefCountAssumption DEF Resurrect, Referenced, OneThread, Busy, TypeOK
  <2>6. CASE Free(p)
    <3>1. state[p] = "sent"
      BY <2>6 DEF Free, OneThread
    <3>2. QED
      BY <2>6, <3>1 DEF Free, Referenced, OneThread, Busy, TypeOK
  <2>7. CASE Remover(p)
    BY <2>7 DEF Remover, OneThread, Busy, TypeOK
  <2>8. QED
    BY <1>2, <2>1, <2>2, <2>3, <2>4, <2>5, <2>6, <2>7 DEF Collecting
<1>3. CASE Box \/ SendBoxed
  BY <1>3 DEF Box, SendBoxed, OneThread, Busy
<1>4. ASSUME NEW s \in Servers, Serving(s) PROVE OneThread'
  BY <1>4 DEF Serving, ReceiveRequest, UnboxLocal, HandleDel, OneThread, Busy
<1>5. CASE UNCHANGED vars
  BY <1>5 DEF vars, OneThread, Busy
<1>6. QED
  BY <1>1, <1>2, <1>3, <1>4, <1>5 DEF Next

(* The owner's count is what is on its way and what the proxies count.     *)
Carried(p) == IF state[p] \in {"live", "dying"} THEN refcount[p] ELSE 0

Exact == Counted = OnTheWay + InProxies

LEMMA InProxiesMoves ==
  ASSUME TypeOK, NEW p \in Proxies, TypeOK',
         \A q \in Proxies : q # p => Carried(q)' = Carried(q)
  PROVE  /\ InProxies \in Nat /\ InProxies' \in Nat
         /\ Carried(p) \in Nat /\ Carried(p)' \in Nat
         /\ Carried(p) <= InProxies
         /\ InProxies' = InProxies - Carried(p) + Carried(p)'
<1> DEFINE f == [q \in Proxies |-> Carried(q)]
           g == [q \in Proxies |-> Carried(q)']
           n == Carried(p)'
<1>1. f \in [Proxies -> Nat] /\ f[p] = Carried(p) /\ f[p] \in Nat
  BY DEF Carried, TypeOK
<1>2. g \in [Proxies -> Nat] /\ n \in Nat
  BY DEF Carried, TypeOK
<1>3. g = [f EXCEPT ![p] = n]
  OBVIOUS
<1>4. InProxies = Total(f) /\ InProxies' = Total(g)
  BY DEF InProxies, Carried
<1> HIDE DEF f, g, n
<1>5. IsFiniteSet(Proxies)
  BY RefCountAssumption
<1>6. f[p] <= Total(f) /\ Total([f EXCEPT ![p] = n]) = Total(f) - f[p] + n
  BY <1>1, <1>2, <1>5, TotalExcept
<1>7. Total(f) \in Nat /\ Total(g) \in Nat
  BY <1>1, <1>2, <1>5, TotalType, Zenon
<1>8. QED
  BY <1>1, <1>2, <1>3, <1>4, <1>6, <1>7 DEF n

LEMMA InProxiesUnmoved ==
  ASSUME UNCHANGED <<state, refcount>>
  PROVE  InProxies' = InProxies
BY DEF InProxies

LEMMA InProxiesType ==
  ASSUME TypeOK
  PROVE  /\ InProxies \in Nat
         /\ \A p \in Proxies : Carried(p) \in Nat /\ Carried(p) <= InProxies
<1> DEFINE f == [q \in Proxies |-> Carried(q)]
<1>1. f \in [Proxies -> Nat] /\ \A p \in Proxies : f[p] = Carried(p)
  BY DEF Carried, TypeOK
<1>2. InProxies = Total(f)
  BY DEF InProxies, Carried
<1> HIDE DEF f
<1>3. IsFiniteSet(Proxies)
  BY RefCountAssumption
<1>4. Total(f) \in Nat
  BY <1>1, <1>3, TotalType, Zenon
<1>5. \A p \in Proxies : f[p] <= Total(f)
  BY <1>1, <1>3, TotalExcept
<1>6. QED
  BY <1>1, <1>2, <1>4, <1>5

LEMMA ExactNext ==
  ASSUME TypeOK, Wellformed, setup.single, OneThread, Exact, [Next]_vars
  PROVE  Exact'
<1> USE DEF ownerVars, unboxVars, proxyVars, serverVars
<1>1. TypeOK'
  BY ShapesNext
<1>2. /\ Counted \in Nat /\ OnTheWay \in Nat /\ InProxies \in Nat
      /\ Counted = OnTheWay + InProxies
  BY BooksType, InProxiesType DEF OnTheWay, InDels, Exact
<1>3. CASE Box \/ SendBoxed
  <2>1. InProxies' = InProxies
    BY <1>3, InProxiesUnmoved DEF Box, SendBoxed
  <2>2. \E n \in {0, 1} : Counted' = Counted + n /\ OnTheWay' = OnTheWay + n
    BY <1>3, OwnerMoves
  <2>3. QED
    BY <1>2, <2>1, <2>2 DEF Exact
<1>4. ASSUME NEW u \in Unboxers, Unboxing(u) PROVE Exact'
  <2>1. CASE StartUnbox(u) \/ Lookup(u) \/ ReadCount(u) \/ Store(u)
    <3>1. InProxies' = InProxies
      BY <2>1, InProxiesUnmoved DEF StartUnbox, Lookup, ReadCount, Store
    <3>2. QED
      BY <1>2, <1>4, <2>1, <3>1, UnboxMoves DEF Exact
  <2>2. CASE Inspect(u)
    <3>1. InProxies' = InProxies
      BY <2>2, InProxiesUnmoved DEF Inspect
    <3>2. slot # Absent
      BY <1>2, <1>4, <2>2, UnboxMoves DEF Counted
    <3>3. QED
      BY <1>2, <1>4, <2>2, <3>1, <3>2, UnboxMoves DEF Exact
  <2>3. CASE WriteCount(u)
    <3>1. PICK p \in Proxies : p = uproxy[u]
      BY <2>3 DEF WriteCount, Wellformed
    <3>2. state[p] = "live" /\ uread[u] = refcount[p] /\ refcount[p] \in Nat
      BY <2>3, <3>1, RefCountAssumption DEF WriteCount, OneThread, TypeOK
    <3>3. state' = state /\ refcount' = [refcount EXCEPT ![p] = refcount[p] + 1]
      BY <2>3, <3>1, <3>2 DEF WriteCount
    <3>4. /\ \A q \in Proxies : q # p => Carried(q)' = Carried(q)
          /\ Carried(p) = refcount[p] /\ Carried(p)' = refcount[p] + 1
      BY <3>2, <3>3 DEF Carried, TypeOK
    <3>5. InProxies' = InProxies + 1
      BY <1>1, <1>2, <3>2, <3>4, InProxiesMoves
    <3>6. QED
      BY <1>2, <1>4, <2>3, <3>5, UnboxMoves DEF Exact
  <2>4. CASE Create(u)
    <3>1. PICK p \in Proxies : /\ state[p] = "unborn"
                               /\ state' = [state EXCEPT ![p] = "live"]
                               /\ refcount' = [refcount EXCEPT ![p] = 1]
      BY <2>4 DEF Create
    <3>2. /\ \A q \in Proxies : q # p => Carried(q)' = Carried(q)
          /\ Carried(p) = 0 /\ Carried(p)' = 1
      BY <3>1 DEF Carried, TypeOK
    <3>3. InProxies' = InProxies + 1
      BY <1>1, <1>2, <3>2, InProxiesMoves
    <3>4. QED
      BY <1>2, <1>4, <2>4, <3>3, UnboxMoves DEF Exact
  <2>5. QED
    BY <1>4, <2>1, <2>2, <2>3, <2>4 DEF Unboxing
<1>5. ASSUME NEW p \in Proxies, Use(p) \/ Drop(p) \/ Collecting(p) PROVE Exact'
  <2>1. /\ Counted' = Counted
        /\ OnTheWay' = OnTheWay + (IF SendDel(p) THEN refcount[p] ELSE 0)
    BY <1>5, HolderMoves
  <2>2. CASE SendDel(p)
    <3>1. /\ \A q \in Proxies : q # p => Carried(q)' = Carried(q)
          /\ Carried(p) = refcount[p] /\ Carried(p)' = 0 /\ refcount[p] \in Nat
      BY <2>2 DEF SendDel, Carried, TypeOK
    <3>2. InProxies' = InProxies - refcount[p]
      BY <1>1, <1>2, <3>1, InProxiesMoves
    <3>3. QED
      BY <1>2, <2>1, <2>2, <3>1, <3>2 DEF Exact
  <2>3. CASE ~SendDel(p)
    <3>1. \A q \in Proxies : Carried(q)' = Carried(q)
      <4>1. CASE Use(p) \/ Drop(p)
        BY <4>1 DEF Use, Drop, Carried
      <4>2. CASE Finalize(p)
        BY <4>2 DEF Finalize, Carried, TypeOK
      <4>3. CASE Resurrect(p)
        BY <4>3, RefCountAssumption DEF Resurrect, Referenced, OneThread, TypeOK
      <4>4. CASE Free(p)
        BY <4>4 DEF Free, OneThread, Carried, TypeOK
      <4>5. CASE Remover(p)
        BY <4>5 DEF Remover, Carried, TypeOK
      <4>6. QED
        BY <1>5, <2>3, <4>1, <4>2, <4>3, <4>4, <4>5 DEF Collecting
    <3>2. InProxies' = InProxies
      BY <1>1, <1>2, <3>1, InProxiesMoves
    <3>3. QED
      BY <1>2, <2>1, <2>3, <3>2 DEF Exact
  <2>4. QED
    BY <2>2, <2>3
<1>6. ASSUME NEW s \in Servers, Serving(s) PROVE Exact'
  <2>1. InProxies' = InProxies
    BY <1>6, InProxiesUnmoved DEF Serving, ReceiveRequest, UnboxLocal, HandleDel
  <2>2. CASE ReceiveRequest(s)
    BY <1>2, <1>6, <2>1, <2>2, ServerMoves DEF Exact
  <2>3. ASSUME UnboxLocal(s) \/ HandleDel(s)
        PROVE  /\ smsg[s] \in Message /\ smsg[s].count \in Nat
               /\ smsg[s].count <= OnTheWay
    BY <1>6, <2>3, RefCountAssumption, ServerMoves DEF UnboxLocal, HandleDel, Wellformed, Message
  <2>4. CASE UnboxLocal(s)
    <3>1. slot = Absent => smsg[s].count = 0
      BY <1>2, <2>3, <2>4 DEF Counted
    <3>2. QED
      BY <1>2, <1>6, <2>1, <2>4, <3>1, ServerMoves DEF Exact
  <2>5. CASE HandleDel(s)
    <3>1. smsg[s].count <= Counted
      BY <1>2, <2>3, <2>5
    <3>2. Counted' = Counted - smsg[s].count /\ OnTheWay' = OnTheWay - smsg[s].count
      BY <1>6, <2>5, <3>1, ServerMoves
    <3>3. QED
      BY <1>2, <2>1, <2>3, <2>5, <3>2 DEF Exact
  <2>6. QED
    BY <1>6, <2>2, <2>4, <2>5 DEF Serving
<1>7. CASE UNCHANGED vars
  <2>1. UNCHANGED <<refcount, state>> /\ UNCHANGED <<slot, boxed, toHolder, upc, toOwner, smsg>>
    BY <1>7 DEF vars
  <2>2. Counted' = Counted /\ OnTheWay' = OnTheWay /\ InProxies' = InProxies
    BY <2>1, Unmoved, InProxiesUnmoved DEF OnTheWay, InDels
  <2>3. QED
    BY <2>2 DEF Exact
<1>8. QED
  BY <1>3, <1>4, <1>5, <1>6, <1>7 DEF Next

LEMMA SetupStays == [Next]_vars => setup' = setup
BY DEF Next, Box, SendBoxed, Unboxing, StartUnbox, Lookup, ReadCount, WriteCount, Inspect,
       Create, Store, Use, Drop, Collecting, Finalize, SendDel, Resurrect, Free, Remover,
       Serving, ReceiveRequest, UnboxLocal, HandleDel, vars, ownerVars

LEMMA ExactInit == Init => OneThread /\ Exact
<1> SUFFICES ASSUME Init PROVE OneThread /\ Exact
  OBVIOUS
<1>1. OneThread
  BY DEF Init, OneThread, Busy
<1>2. PICK given \in [Proxies -> Nat] : Bounded(given)
  BY CoveredInit DEF Covered
<1>3. TypeOK
  BY ShapesInit
<1>4. Total(Backed(given)) \in Nat
  <2>1. Backed(given) \in [Proxies -> Nat]
    BY DEF Backed
  <2>2. IsFiniteSet(Proxies)
    BY RefCountAssumption
  <2>3. QED
    BY <2>1, <2>2, TotalType, Zenon
<1>5. Counted = 0 /\ OnTheWay = 0
  <2>1. OnTheWay \in Nat
    BY <1>3, BooksType DEF OnTheWay, InDels
  <2>2. Counted = 0
    BY DEF Init, Counted
  <2>3. QED
    BY <1>2, <1>4, <2>1, <2>2 DEF Bounded
<1>6. InProxies = 0
  <2> DEFINE f == [p \in Proxies |-> IF state[p] \in {"live", "dying"} THEN refcount[p] ELSE 0]
  <2>1. f \in [Proxies -> Nat] /\ \A p \in Proxies : f[p] = 0
    BY DEF Init
  <2> HIDE DEF f
  <2>2. Total(f) = 0
    BY <2>1, TotalNone, Zenon
  <2>3. QED
    BY <2>2 DEF InProxies, f
<1>7. QED
  BY <1>1, <1>5, <1>6 DEF Exact

(* With one thread at the holder the owner's count is exact.               *)
THEOREM LedgerBalanced == Spec => []Inv
<1> DEFINE IInv == TypeOK /\ Wellformed /\ (setup.single => OneThread /\ Exact)
<1>1. Init => IInv
  BY ShapesInit, ExactInit
<1>2. IInv /\ [Next]_vars => IInv'
  BY ShapesNext, SetupStays, OneThreadNext, ExactNext
<1>3. IInv => Inv
  <2> SUFFICES ASSUME IInv, setup.single
               PROVE  Counted = boxed + toHolder + InUnbox + InProxies + InDels
    BY DEF Inv, Ledger
  <2>1. /\ boxed \in Nat /\ toHolder \in Nat
        /\ InUnbox \in Nat /\ Queued \in Nat /\ InService \in Nat /\ InProxies \in Nat
    BY BooksType, InProxiesType
  <2>2. QED
    BY <2>1 DEF Exact, OnTheWay, InDels
<1>4. QED
  BY <1>1, <1>2, <1>3, PTL DEF Spec

-----------------------------------------------------------------------------
(* A use of the object on its way is covered by a proxy that has not sent  *)
(* HANDLE_DEL or by a HANDLE_DEL behind it.                                *)
InHand == \E p \in Proxies : state[p] \in {"live", "dying"}

DelAfter(i) == \E j \in 1..Len(toOwner) : i < j /\ toOwner[j].kind = "del"

InOrder ==
  Cardinality(setup.servers) = 1 =>
    /\ \A i \in 1..Len(toOwner) : toOwner[i].kind = "use" => InHand \/ DelAfter(i)
    /\ \A s \in Servers :
         smsg[s] # None /\ smsg[s].kind = "use" => InHand \/ DelAfter(0)
    /\ failed = {}

LEMMA NotMissing ==
  ASSUME TypeOK, Wellformed, Exact, InHand \/ DelAfter(0)
  PROVE  slot # Absent
<1>1. /\ Counted \in Nat /\ boxed \in Nat /\ toHolder \in Nat /\ InUnbox \in Nat
      /\ Queued \in Nat /\ InService \in Nat /\ InProxies \in Nat
      /\ Counted = boxed + toHolder + InUnbox + (Queued + InService) + InProxies
  BY BooksType, InProxiesType DEF Exact, OnTheWay, InDels
<1>2. CASE InHand
  <2>1. PICK p \in Proxies : state[p] \in {"live", "dying"}
    BY <1>2 DEF InHand
  <2>2. refcount[p] \in Nat /\ refcount[p] >= 1 /\ Carried(p) = refcount[p]
    BY <2>1 DEF Wellformed, Carried, TypeOK
  <2>3. InProxies >= 1
    BY <1>1, <2>2, InProxiesType
  <2>4. QED
    BY <1>1, <2>3 DEF Counted
<1>3. CASE DelAfter(0)
  <2>1. PICK j \in 1..Len(toOwner) : toOwner[j].kind = "del"
    BY <1>3 DEF DelAfter
  <2>2. toOwner \in Seq(Message)
    BY DEF TypeOK
  <2> DEFINE f == Counts(toOwner)
  <2>3. f \in [1..Len(toOwner) -> Nat] /\ IsFiniteSet(1..Len(toOwner))
    BY <2>2, CountsType
  <2>4. f[j] >= 1
    BY <2>1, <2>2 DEF Counts, Wellformed
  <2> HIDE DEF f
  <2>5. f[j] <= Total(f)
    BY <2>3, TotalExcept
  <2>6. Queued >= 1
    BY <1>1, <2>3, <2>4, <2>5, QueuedIs, SMTT(30) DEF f
  <2>7. QED
    BY <1>1, <2>6 DEF Counted
<1>4. QED
  BY <1>2, <1>3

LEMMA InOrderNext ==
  ASSUME TypeOK, Wellformed, setup.single, OneThread, Exact, InOrder, [Next]_vars
  PROVE  InOrder'
<1> USE DEF ownerVars, unboxVars, proxyVars, serverVars
<1>0. SUFFICES ASSUME Cardinality(setup.servers) = 1
               PROVE  InOrder'
  BY SetupStays DEF InOrder
<1>1. /\ \A i \in 1..Len(toOwner) : toOwner[i].kind = "use" => InHand \/ DelAfter(i)
      /\ \A s \in Servers :
           smsg[s] # None /\ smsg[s].kind = "use" => InHand \/ DelAfter(0)
      /\ failed = {}
  BY <1>0 DEF InOrder
<1>2. toOwner \in Seq(Message) /\ Len(toOwner) \in Nat
  BY DEF TypeOK
<1>3. ASSUME InHand => InHand', UNCHANGED <<toOwner, smsg, failed>>
      PROVE  InOrder'
  BY <1>1, <1>3 DEF InOrder, DelAfter
<1>4. CASE Box \/ SendBoxed
  BY <1>3, <1>4 DEF Box, SendBoxed, InHand
<1>5. ASSUME NEW u \in Unboxers, Unboxing(u) PROVE InOrder'
  <2>1. InHand => InHand'
    BY <1>5 DEF Unboxing, StartUnbox, Lookup, ReadCount, WriteCount, Inspect, Create, Store,
                InHand, TypeOK
  <2>2. failed' = failed
    <3>1. CASE Inspect(u)
      <4>1. OnTheWay >= 1
        BY <1>5, <3>1, UnboxMoves
      <4>2. slot # Absent
        BY <4>1, InProxiesType, BooksType DEF Exact, OnTheWay, InDels, Counted
      <4>3. QED
        BY <3>1, <4>2 DEF Inspect
    <3>2. QED
      BY <1>5, <3>1 DEF Unboxing, StartUnbox, Lookup, ReadCount, WriteCount, Create, Store
  <2>3. QED
    BY <1>3, <1>5, <2>1, <2>2
       DEF Unboxing, StartUnbox, Lookup, ReadCount, WriteCount, Inspect, Create, Store
<1>6. ASSUME NEW p \in Proxies, Use(p) \/ Drop(p) \/ Collecting(p) PROVE InOrder'
  <2>1. CASE Use(p)
    <3>1. InHand'
      BY <2>1 DEF Use, OneThread, InHand
    <3>2. QED
      BY <1>1, <2>1, <3>1 DEF Use, InOrder
  <2>2. CASE SendDel(p)
    <3>1. /\ Len(toOwner') = Len(toOwner) + 1
          /\ toOwner'[Len(toOwner) + 1].kind = "del"
          /\ \A i \in 1..Len(toOwner') :
               i # Len(toOwner) + 1 => i \in 1..Len(toOwner) /\ toOwner'[i] = toOwner[i]
      BY <1>2, <2>2 DEF SendDel
    <3>2. \A i \in 0..Len(toOwner) : DelAfter(i)'
      BY <1>2, <3>1 DEF DelAfter
    <3>3. UNCHANGED <<smsg, failed>>
      BY <2>2 DEF SendDel
    <3>4. QED
      BY <1>1, <1>2, <3>1, <3>2, <3>3 DEF InOrder
  <2>3. CASE Drop(p) \/ Finalize(p) \/ Resurrect(p) \/ Free(p) \/ Remover(p)
    <3>1. InHand => InHand'
      <4>1. CASE Drop(p)
        BY <4>1 DEF Drop, InHand
      <4>2. CASE Finalize(p)
        BY <4>2 DEF Finalize, InHand, TypeOK
      <4>3. CASE Resurrect(p)
        BY <4>3 DEF Resurrect, InHand, TypeOK
      <4>4. CASE Free(p)
        BY <4>4 DEF Free, OneThread, InHand, TypeOK
      <4>5. CASE Remover(p)
        BY <4>5 DEF Remover, InHand, TypeOK
      <4>6. QED
        BY <2>3, <4>1, <4>2, <4>3, <4>4, <4>5
    <3>2. QED
      BY <1>3, <2>3, <3>1 DEF Drop, Finalize, Resurrect, Free, Remover
  <2>4. QED
    BY <1>6, <2>1, <2>2, <2>3 DEF Collecting
<1>7. ASSUME NEW s \in Servers, Serving(s) PROVE InOrder'
  <2>0. InHand' <=> InHand
    BY <1>7 DEF Serving, ReceiveRequest, UnboxLocal, HandleDel, InHand
  <2>1. CASE ReceiveRequest(s)
    <3>1. /\ Len(toOwner') = Len(toOwner) - 1 /\ Len(toOwner) >= 1
          /\ Head(toOwner) = toOwner[1] /\ 1 \in 1..Len(toOwner)
          /\ \A i \in 1..Len(toOwner') : i + 1 \in 1..Len(toOwner) /\ toOwner'[i] = toOwner[i + 1]
      BY <1>2, <2>1 DEF ReceiveRequest
    <3>2. ASSUME NEW i \in Nat, DelAfter(i + 1) PROVE DelAfter(i)'
      <4>1. PICK j \in 1..Len(toOwner) : i + 1 < j /\ toOwner[j].kind = "del"
        BY <3>2 DEF DelAfter
      <4>2. j - 1 \in 1..Len(toOwner') /\ i < j - 1 /\ (j - 1) + 1 = j
        BY <1>2, <3>1, <4>1
      <4>3. toOwner'[j - 1].kind = "del"
        BY <3>1, <4>1, <4>2
      <4>4. QED
        BY <4>2, <4>3 DEF DelAfter
    <3>3. ASSUME NEW i \in 1..Len(toOwner'), toOwner'[i].kind = "use"
          PROVE  InHand' \/ DelAfter(i)'
      BY <1>1, <1>2, <2>0, <3>1, <3>2, <3>3
    <3>4. ASSUME NEW t \in Servers, smsg'[t] # None, smsg'[t].kind = "use"
          PROVE  InHand' \/ DelAfter(0)'
      <4>1. s \in setup.servers /\ (t # s => smsg[t] # None)
        BY <2>1, <3>4 DEF ReceiveRequest, TypeOK
      <4>2. t # s => t \in setup.servers
        BY <4>1 DEF Wellformed
      <4>3. IsFiniteSet(setup.servers)
        <5>1. setup.servers \in SUBSET Servers /\ IsFiniteSet(Servers)
          BY SetupType, RefCountAssumption DEF TypeOK
        <5>2. QED
          BY <5>1, FS_Subset, Zenon
      <4>4. PICK x : setup.servers = {x}
        BY <1>0, <4>3, FS_Singleton, Zenon
      <4>5. t = s
        BY <4>1, <4>2, <4>4
      <4>6. toOwner[1].kind = "use"
        BY <2>1, <3>1, <3>4, <4>5 DEF ReceiveRequest, TypeOK
      <4>7. InHand \/ DelAfter(0 + 1)
        BY <1>1, <3>1, <4>6
      <4>8. QED
        BY <2>0, <3>2, <4>7
    <3>5. failed' = failed
      BY <2>1 DEF ReceiveRequest
    <3>6. QED
      BY <1>1, <3>3, <3>4, <3>5 DEF InOrder
  <2>2. CASE UnboxLocal(s)
    <3>1. smsg[s] \in Message /\ smsg[s] # None /\ smsg[s].kind \in {"use", "del"}
      BY <2>2, RefCountAssumption DEF UnboxLocal, Wellformed, Message
    <3>2. slot # Absent
      <4>1. CASE smsg[s].kind = "use"
        BY <1>1, <3>1, <4>1, NotMissing
      <4>2. CASE smsg[s].kind = "del"
        <5>1. smsg[s].count \in Nat /\ smsg[s].count >= 1 /\ smsg[s].count <= OnTheWay
          BY <1>7, <2>2, <3>1, <4>2, ServerMoves DEF UnboxLocal, Wellformed, Message
        <5>2. OnTheWay \in Nat /\ InProxies \in Nat /\ Counted = OnTheWay + InProxies
          BY BooksType, InProxiesType DEF Exact, OnTheWay, InDels
        <5>3. QED
          BY <5>1, <5>2 DEF Counted
      <4>3. QED
        BY <3>1, <4>1, <4>2
    <3>3. failed' = failed /\ toOwner' = toOwner
      BY <2>2, <3>2 DEF UnboxLocal
    <3>4. \A t \in Servers : smsg'[t] # None => smsg'[t] = smsg[t]
      BY <2>2 DEF UnboxLocal, TypeOK
    <3>5. QED
      BY <1>1, <2>0, <3>3, <3>4 DEF InOrder, DelAfter
  <2>3. CASE HandleDel(s)
    <3>1. smsg[s] \in Message /\ smsg[s] # None /\ smsg[s].kind = "del"
      BY <2>3, RefCountAssumption DEF HandleDel, Wellformed
    <3>2. smsg[s].count \in Nat /\ smsg[s].count >= 1 /\ smsg[s].count <= OnTheWay
      BY <1>7, <2>3, <3>1, ServerMoves DEF HandleDel, Wellformed, Message
    <3>3. OnTheWay \in Nat /\ InProxies \in Nat /\ Counted = OnTheWay + InProxies
      BY BooksType, InProxiesType DEF Exact, OnTheWay, InDels
    <3>4. slot # Absent
      BY <3>2, <3>3 DEF Counted
    <3>5. failed' = failed /\ toOwner' = toOwner
      BY <2>3, <3>4 DEF HandleDel
    <3>6. \A t \in Servers : smsg'[t] # None => smsg'[t] = smsg[t]
      BY <2>3 DEF HandleDel, TypeOK
    <3>7. QED
      BY <1>1, <2>0, <3>5, <3>6 DEF InOrder, DelAfter
  <2>4. QED
    BY <1>7, <2>1, <2>2, <2>3 DEF Serving
<1>8. CASE UNCHANGED vars
  BY <1>3, <1>8 DEF vars, InHand
<1>9. QED
  BY <1>4, <1>5, <1>6, <1>7, <1>8 DEF Next

(* As long as requests are served in the order in which they were sent, a  *)
(* request about the object finds it in _local_objects.                    *)
THEOREM NothingMissing == Spec => []NoKeyError
<1> DEFINE IInv == TypeOK /\ Wellformed /\ (setup.single => OneThread /\ Exact /\ InOrder)
<1>1. Init => IInv
  <2>1. Init => InOrder
    BY DEF Init, InOrder
  <2>2. QED
    BY <2>1, ShapesInit, ExactInit
<1>2. IInv /\ [Next]_vars => IInv'
  BY ShapesNext, SetupStays, OneThreadNext, ExactNext, InOrderNext
<1>3. IInv => NoKeyError
  BY DEF InOrder, NoKeyError
<1>4. QED
  BY <1>1, <1>2, <1>3, PTL DEF Spec

=============================================================================
