--------------------------- MODULE Registry_proofs ---------------------------
(***************************************************************************)
(* Proofs about Registry, for any servers, names, timeouts and lifetimes.  *)
(***************************************************************************)
EXTENDS Registry, SequenceTheorems, TLAPS

(* A REGISTER on its way left its server no longer ago than its age tells, *)
(* and an entry is no older than its server's last REGISTER, but for the   *)
(* time a request may spend on its way.  Only a REGISTER is answered.      *)
InTransit == net \cup {backlog[i] : i \in DOMAIN backlog}

RequestsFresh ==
  \A m \in InTransit :
    /\ m.live => m.cmd = "REGISTER"
    /\ m.cmd = "REGISTER" => m.src \in Servers /\ sinceSent[m.src] <= m.age

ServicesFresh ==
  \A n \in Names, a \in Addrs :
    services[n][a] # Gone => a \in Servers /\ sinceSent[a] <= services[n][a] + Lifetime

RegistryInv == TypeOK /\ CallbacksAgree /\ RequestsFresh /\ ServicesFresh

(* What the type invariant says of a request on its way.                   *)
LEMMA TransitTypes ==
  ASSUME TypeOK, NEW m \in InTransit
  PROVE  /\ m \in Requests
         /\ m.cmd \in {"REGISTER", "UNREGISTER"} /\ m.src \in Addrs /\ m.live \in BOOLEAN
         /\ m.age \in Nat /\ m.age <= Lifetime
<1>1. m \in Requests
  <2>1. ASSUME NEW i \in DOMAIN backlog PROVE backlog[i] \in Requests
    BY <2>1, ElementOfSeq DEF TypeOK
  <2>2. QED
    BY <2>1 DEF InTransit, TypeOK
<1>2. QED
  BY <1>1, RegistryAssumption DEF Requests

(* What is true of the requests on their way in one state is true of those *)
(* of a state with no others.                                              *)
LEMMA Fewer ==
  ASSUME TypeOK, RequestsFresh, sinceSent' = sinceSent,
         net' \subseteq net, backlog' \in Seq(Requests),
         \A i \in DOMAIN backlog' : \E j \in DOMAIN backlog : backlog'[i] = backlog[j]
  PROVE  RequestsFresh'
  BY DEF RequestsFresh, InTransit

(* The steps of the sockets.                                               *)
LEMMA PostTypes ==
  ASSUME TypeOK, NEW m \in Requests, Post(m)
  PROVE  net' \in SUBSET Requests /\ backlog' \in Seq(Requests)
<1>1. net \in SUBSET Requests /\ backlog \in Seq(Requests)
  BY DEF TypeOK
<1>2. /\ net' = net \cup {m} \/ net' = net
      /\ backlog' = Append(backlog, m) \/ backlog' = backlog
  BY DEF Post
<1>3. Append(backlog, m) \in Seq(Requests)
  BY <1>1
<1>4. QED
  BY <1>1, <1>2, <1>3

LEMMA PostAdds ==
  ASSUME TypeOK, NEW m \in Requests, Post(m)
  PROVE  InTransit' \subseteq InTransit \cup {m}
<1>1. CASE UNCHANGED backlog
  BY <1>1 DEF Post, InTransit
<1>2. CASE backlog' = Append(backlog, m) /\ net' = net
  <2>1. ASSUME NEW i \in DOMAIN backlog'
        PROVE  backlog'[i] = m \/ (i \in DOMAIN backlog /\ backlog'[i] = backlog[i])
    BY <1>2, <2>1 DEF TypeOK
  <2>2. QED
    BY <1>2, <2>1 DEF InTransit
<1>3. QED
  BY <1>1, <1>2 DEF Post

LEMMA Posted ==
  ASSUME TypeOK, RequestsFresh, NEW c \in {"REGISTER", "UNREGISTER"}, NEW a \in Addrs,
         Post(Request(c, a)), c = "REGISTER" => a \in Servers /\ sinceSent' = [sinceSent EXCEPT ![a] = 0],
         c = "UNREGISTER" => sinceSent' = sinceSent
  PROVE  /\ net' \in SUBSET Requests /\ backlog' \in Seq(Requests)
         /\ RequestsFresh'
<1>1. Request(c, a) \in Requests
  BY RegistryAssumption DEF Request, Requests
<1>2. ASSUME NEW m \in InTransit'
      PROVE  /\ m.live => m.cmd = "REGISTER"
             /\ m.cmd = "REGISTER" => m.src \in Servers /\ sinceSent'[m.src] <= m.age
  <2>1. CASE m = Request(c, a)
    <3>1. m.cmd = c /\ m.src = a /\ m.live = (c = "REGISTER") /\ m.age = 0
      BY <2>1 DEF Request
    <3>2. c = "REGISTER" => sinceSent'[a] = 0
      BY DEF TypeOK
    <3>3. (c = "REGISTER") <=> m.live
      BY <3>1
    <3>4. QED
      BY <3>1, <3>2, <3>3
  <2>2. CASE m \in InTransit
    <3>1. m.age \in Nat
      BY <2>2, TransitTypes
    <3>2. /\ m.live => m.cmd = "REGISTER"
          /\ m.cmd = "REGISTER" => m.src \in Servers /\ sinceSent[m.src] <= m.age
      BY <2>2 DEF RequestsFresh
    <3>3. ASSUME m.cmd = "REGISTER"
          PROVE  sinceSent'[m.src] \in {0, sinceSent[m.src]}
      BY <3>2, <3>3 DEF TypeOK
    <3>4. QED
      BY <3>1, <3>2, <3>3
  <2>3. QED
    BY <1>1, <1>2, <2>1, <2>2, PostAdds
<1>3. QED
  BY <1>1, <1>2, PostTypes DEF RequestsFresh

LEMMA SocketClosed ==
  ASSUME TypeOK, RequestsFresh, NEW a \in Servers, CloseSocket(a), sinceSent' = sinceSent
  PROVE  /\ net' \in SUBSET Requests /\ backlog' \in Seq(Requests) /\ acked' \in SUBSET Servers
         /\ RequestsFresh'
<1>1. ASSUME NEW m \in Requests
      PROVE  /\ Orphaned(m, a) \in Requests
             /\ Orphaned(m, a).cmd = m.cmd /\ Orphaned(m, a).src = m.src
             /\ Orphaned(m, a).age = m.age /\ (Orphaned(m, a).live => m.live)
  BY DEF Orphaned, Requests
<1>2. net' \in SUBSET Requests
  BY <1>1 DEF CloseSocket, TypeOK
<1>3. /\ DOMAIN backlog' = DOMAIN backlog
      /\ \A i \in DOMAIN backlog : backlog'[i] = Orphaned(backlog[i], a)
  BY DEF CloseSocket
<1>4. backlog' \in Seq(Requests)
  <2>1. \A i \in DOMAIN backlog : Orphaned(backlog[i], a) \in Requests
    BY <1>1 DEF TypeOK
  <2>2. DOMAIN backlog = 1..Len(backlog) /\ Len(backlog) \in Nat
    BY DEF TypeOK
  <2>3. QED
    BY <2>1, <2>2, IsASeq DEF CloseSocket
<1>5. \A m \in InTransit' : \E o \in InTransit : o \in Requests /\ m = Orphaned(o, a)
  <2>1. ASSUME NEW m \in net'
        PROVE  \E o \in InTransit : o \in Requests /\ m = Orphaned(o, a)
    <3>1. PICK o \in net : m = Orphaned(o, a)
      BY <2>1 DEF CloseSocket
    <3>2. QED
      BY <3>1 DEF InTransit, TypeOK
  <2>2. ASSUME NEW i \in DOMAIN backlog'
        PROVE  \E o \in InTransit : o \in Requests /\ backlog'[i] = Orphaned(o, a)
    <3>1. i \in DOMAIN backlog /\ backlog'[i] = Orphaned(backlog[i], a)
      BY <1>3, <2>2
    <3>2. backlog[i] \in InTransit
      BY <3>1 DEF InTransit
    <3>3. QED
      BY <3>1, <3>2, TransitTypes
  <2>3. QED
    BY <2>1, <2>2 DEF InTransit
<1>6. RequestsFresh'
  <2> SUFFICES ASSUME NEW m \in InTransit'
               PROVE  /\ m.live => m.cmd = "REGISTER"
                      /\ m.cmd = "REGISTER" => m.src \in Servers /\ sinceSent'[m.src] <= m.age
    BY DEF RequestsFresh
  <2>1. PICK o \in InTransit : o \in Requests /\ m = Orphaned(o, a)
    BY <1>5
  <2>2. QED
    BY <1>1, <2>1 DEF RequestsFresh
<1>7. acked' \in SUBSET Servers
  BY DEF CloseSocket, TypeOK
<1>8. QED
  BY <1>2, <1>4, <1>6, <1>7
-----------------------------------------------------------------------------
(* The part of the invariant that every action must think of.              *)
LEMMA Unserved ==
  ASSUME RegistryInv, services' = services, announced' = announced,
         sinceSent' = sinceSent
  PROVE  CallbacksAgree' /\ ServicesFresh'
  BY DEF RegistryInv, CallbacksAgree, ServicesFresh

(* The registry serves a request.                                          *)
LEMMA Served ==
  ASSUME RegistryInv, NEW m \in InTransit, Serve(m)
  PROVE  /\ services' \in [Names -> [Addrs -> (0..Stale) \cup {Gone}]]
         /\ announced' \in SUBSET (Names \X Addrs) /\ acked' \in SUBSET Servers
         /\ registry' \in {"work", "stopping", "down"}
         /\ CallbacksAgree' /\ ServicesFresh'
<1> USE DEF RegistryInv
<1>0. /\ m \in Requests /\ m.cmd \in {"REGISTER", "UNREGISTER"} /\ m.src \in Addrs
      /\ m.age \in Nat /\ m.age <= Lifetime
  BY TransitTypes
<1>1. m.cmd = "REGISTER" => m.src \in Servers /\ sinceSent[m.src] <= Lifetime
  <2>1. m.cmd = "REGISTER" => m.src \in Servers /\ sinceSent[m.src] <= m.age
    BY DEF RequestsFresh
  <2>2. m.src \in Servers => sinceSent[m.src] \in Nat
    BY RegistryAssumption DEF TypeOK, LongAgo
  <2>3. QED
    BY <1>0, <2>1, <2>2, RegistryAssumption
<1>2. sinceSent' = sinceSent
  BY DEF Serve, serverVars
<1>3. /\ services \in [Names -> [Addrs -> (0..Stale) \cup {Gone}]]
      /\ announced \in SUBSET (Names \X Addrs)
      /\ \A n \in Names, a \in Addrs : <<n, a>> \in announced <=> services[n][a] # Gone
  BY DEF TypeOK, CallbacksAgree
<1>4. 0 \in 0..Stale /\ 0 # Gone
  BY RegistryAssumption DEF Stale
<1>5. acked' \in SUBSET Servers
  BY <1>1 DEF Serve, RequestsFresh, TypeOK
<1>6. registry' \in {"work", "stopping", "down"}
  BY DEF Serve, EndOfRound, TypeOK
<1>7. CASE m.cmd = "REGISTER"
  <2>1. Aliases[m.src] \subseteq Names
    BY <1>1, <1>7, RegistryAssumption
  <2>2. services' = Added(m) /\ announced' = CalledBack(m)
    BY <1>7 DEF Serve
  <2>3. \A n \in Names, a \in Addrs :
          services'[n][a] = IF n \in Aliases[m.src] /\ a = m.src THEN 0 ELSE services[n][a]
    BY <1>0, <1>3, <2>2 DEF Added
  <2>4. services' \in [Names -> [Addrs -> (0..Stale) \cup {Gone}]]
    BY <1>0, <1>3, <1>4, <2>2 DEF Added
  <2>5. announced' \in SUBSET (Names \X Addrs)
    BY <1>0, <1>3, <1>7, <2>1, <2>2 DEF CalledBack
  <2>6. \A n \in Names, a \in Addrs : <<n, a>> \in announced' <=> services'[n][a] # Gone
    <3> SUFFICES ASSUME NEW n \in Names, NEW a \in Addrs
                 PROVE  <<n, a>> \in announced' <=> services'[n][a] # Gone
      OBVIOUS
    <3> DEFINE New == {x \in Aliases[m.src] : services[x][m.src] = Gone}
    <3>1. announced' = announced \cup {<<x, m.src>> : x \in New}
      BY <1>7, <2>2 DEF CalledBack
    <3>2. <<n, a>> \in {<<x, m.src>> : x \in New} <=> a = m.src /\ n \in New
      OBVIOUS
    <3>3. <<n, a>> \in announced <=> services[n][a] # Gone
      BY <1>3
    <3>4. services'[n][a] = IF n \in Aliases[m.src] /\ a = m.src THEN 0 ELSE services[n][a]
      BY <2>3
    <3>5. n \in New <=> n \in Aliases[m.src] /\ services[n][m.src] = Gone
      OBVIOUS
    <3> HIDE DEF New
    <3>6. QED
      BY <1>4, <3>1, <3>2, <3>3, <3>4, <3>5
  <2>7. ServicesFresh'
    BY <1>1, <1>2, <1>7, <2>3, RegistryAssumption DEF ServicesFresh
  <2>8. QED
    BY <1>5, <1>6, <2>4, <2>5, <2>6, <2>7 DEF CallbacksAgree
<1>8. CASE m.cmd = "UNREGISTER"
  <2>2. services' = Removed(m) /\ announced' = CalledBack(m)
    BY <1>8 DEF Serve
  <2>3. \A n \in Names, a \in Addrs :
          services'[n][a] = IF a = m.src THEN Gone ELSE services[n][a]
    BY <1>0, <1>3, <2>2 DEF Removed
  <2>4. services' \in [Names -> [Addrs -> (0..Stale) \cup {Gone}]]
    BY <1>0, <1>3, <2>2 DEF Removed
  <2>5. announced' = announced \ {<<n, m.src>> : n \in {x \in Names : Listed(services, x) # {}}}
    BY <1>8, <2>2 DEF CalledBack
  <2>6. \A n \in Names, a \in Addrs : <<n, a>> \in announced' <=> services'[n][a] # Gone
    <3> SUFFICES ASSUME NEW n \in Names, NEW a \in Addrs
                 PROVE  <<n, a>> \in announced' <=> services'[n][a] # Gone
      OBVIOUS
    <3> DEFINE Known == {x \in Names : Listed(services, x) # {}}
    <3>1. <<n, a>> \in {<<x, m.src>> : x \in Known} <=> a = m.src /\ n \in Known
      OBVIOUS
    <3>2. <<n, a>> \in announced <=> services[n][a] # Gone
      BY <1>3
    <3>3. services[n][a] # Gone => n \in Known
      BY DEF Listed
    <3>4. services'[n][a] = IF a = m.src THEN Gone ELSE services[n][a]
      BY <2>3
    <3>5. announced' = announced \ {<<x, m.src>> : x \in Known}
      BY <2>5
    <3> HIDE DEF Known
    <3>6. QED
      BY <3>1, <3>2, <3>3, <3>4, <3>5
  <2>7. ServicesFresh'
    BY <1>2, <2>3 DEF ServicesFresh
  <2>8. QED
    BY <1>3, <1>5, <1>6, <2>4, <2>5, <2>6, <2>7 DEF CallbacksAgree
<1>9. QED
  BY <1>0, <1>7, <1>8

(* A query prunes.                                                         *)
LEMMA Queried ==
  ASSUME RegistryInv, NEW n \in Names, CmdQuery(n)
  PROVE  RegistryInv'
<1> USE DEF RegistryInv
<1>1. /\ services \in [Names -> [Addrs -> (0..Stale) \cup {Gone}]]
      /\ announced \in SUBSET (Names \X Addrs)
      /\ \A x \in Names, a \in Addrs : <<x, a>> \in announced <=> services[x][a] # Gone
  BY DEF TypeOK, CallbacksAgree
<1>2. \A x \in Names, a \in Addrs :
        services'[x][a] = IF x = n /\ IsStale(n, a) THEN Gone ELSE services[x][a]
  BY <1>1 DEF CmdQuery, Pruned
<1>3. services' \in [Names -> [Addrs -> (0..Stale) \cup {Gone}]]
  BY <1>1 DEF CmdQuery, Pruned
<1>4. CallbacksAgree'
  <2>1. announced' = announced \ {<<n, a>> : a \in {b \in Addrs : IsStale(n, b)}}
    BY DEF CmdQuery, PrunedCallbacks
  <2>2. ASSUME NEW x \in Names, NEW a \in Addrs
        PROVE  <<x, a>> \in announced' <=> services'[x][a] # Gone
    <3> DEFINE Old == {b \in Addrs : IsStale(n, b)}
    <3>1. <<x, a>> \in {<<n, b>> : b \in Old} <=> x = n /\ a \in Old
      OBVIOUS
    <3>2. a \in Old <=> IsStale(n, a)
      OBVIOUS
    <3>3. /\ services'[x][a] = IF x = n /\ IsStale(n, a) THEN Gone ELSE services[x][a]
          /\ <<x, a>> \in announced <=> services[x][a] # Gone
      BY <1>1, <1>2
    <3> HIDE DEF Old
    <3>4. QED
      BY <2>1, <3>1, <3>2, <3>3
  <2>3. announced' \in SUBSET (Names \X Addrs)
    BY <1>1, <2>1
  <2>4. QED
    BY <2>2, <2>3 DEF CallbacksAgree
<1>5. ServicesFresh'
  BY <1>2 DEF ServicesFresh, CmdQuery, serverVars
<1>6. net' = net /\ backlog' \in {backlog, <<>>} /\ sinceSent' = sinceSent
  BY DEF CmdQuery, serverVars
<1>7. RequestsFresh'
  <2>1. backlog' \in Seq(Requests)
    <3>1. backlog \in Seq(Requests) /\ <<>> \in Seq(Requests)
      BY EmptySeq DEF TypeOK
    <3>2. QED
      BY <1>6, <3>1
  <2>2. \A i \in DOMAIN backlog' : \E j \in DOMAIN backlog : backlog'[i] = backlog[j]
    BY <1>6
  <2>3. QED
    BY <1>6, <2>1, <2>2, Fewer
<1>8. found' \in [cmd : {"QUERY", "LIST"}, val : SUBSET (Addrs \cup Names \cup {Nothing})]
  BY DEF CmdQuery, Discovered, Listed
<1>9. TypeOK'
  BY <1>3, <1>4, <1>6, <1>8 DEF TypeOK, CallbacksAgree, CmdQuery, EndOfRound, serverVars
<1>10. QED
  BY <1>4, <1>5, <1>7, <1>9

(* Time passes.                                                            *)
LEMMA Ticked ==
  ASSUME RegistryInv, Tick
  PROVE  RegistryInv'
<1> USE DEF RegistryInv
<1>0. /\ Stale \in Nat /\ LongAgo \in Nat /\ LongAgo = Stale + Lifetime
      /\ Lifetime \in Nat /\ Interval \in Nat /\ Gone \notin Nat
  BY RegistryAssumption DEF Stale, LongAgo
<1>1. /\ services \in [Names -> [Addrs -> (0..Stale) \cup {Gone}]]
      /\ sinceSent \in [Servers -> 0..LongAgo] /\ tnext \in [Servers -> 0..Interval]
      /\ net \in SUBSET Requests /\ backlog \in Seq(Requests)
  BY DEF TypeOK
<1>2. ASSUME NEW n \in Names, NEW a \in Addrs
      PROVE  /\ services[n][a] = Gone => services'[n][a] = Gone
             /\ services[n][a] # Gone => /\ services[n][a] \in 0..Stale
                                          /\ services'[n][a] = Increase(services[n][a], Stale)
                                          /\ services'[n][a] \in 0..Stale
  <2>1. services'[n][a] = IF services[n][a] = Gone THEN Gone ELSE Increase(services[n][a], Stale)
    BY DEF Tick
  <2>2. services[n][a] \in (0..Stale) \cup {Gone}
    BY <1>1
  <2>3. QED
    BY <1>0, <2>1, <2>2 DEF Increase
<1>3. ASSUME NEW s \in Servers
      PROVE  /\ sinceSent[s] \in 0..LongAgo
             /\ sinceSent'[s] = Increase(sinceSent[s], LongAgo) /\ sinceSent'[s] \in 0..LongAgo
             /\ tnext'[s] \in 0..Interval
  <2>1. sinceSent'[s] = Increase(sinceSent[s], LongAgo) /\ tnext'[s] = Decrease(tnext[s])
    BY DEF Tick
  <2>2. sinceSent[s] \in 0..LongAgo /\ tnext[s] \in 0..Interval
    BY <1>1
  <2>3. QED
    BY <1>0, <2>1, <2>2 DEF Increase, Decrease
<1>4. services' \in [Names -> [Addrs -> (0..Stale) \cup {Gone}]]
  <2>1. \A n \in Names, a \in Addrs :
          (IF services[n][a] = Gone THEN Gone ELSE Increase(services[n][a], Stale))
            \in (0..Stale) \cup {Gone}
    BY <1>0, <1>1 DEF Increase
  <2>2. QED
    BY <2>1 DEF Tick
<1>5. sinceSent' \in [Servers -> 0..LongAgo] /\ tnext' \in [Servers -> 0..Interval]
  <2>1. \A s \in Servers : Increase(sinceSent[s], LongAgo) \in 0..LongAgo
    BY <1>0, <1>1 DEF Increase
  <2>2. \A s \in Servers : Decrease(tnext[s]) \in 0..Interval
    BY <1>0, <1>1 DEF Decrease
  <2>3. QED
    BY <2>1, <2>2 DEF Tick
<1>6. ASSUME NEW m \in Requests, m.age < Lifetime
      PROVE  /\ Older(m) \in Requests /\ Older(m).cmd = m.cmd /\ Older(m).src = m.src
             /\ Older(m).live = m.live /\ Older(m).age = m.age + 1
  BY <1>0, <1>6 DEF Older, Requests
<1>7. /\ DOMAIN backlog' = DOMAIN backlog
      /\ \A i \in DOMAIN backlog : /\ backlog[i] \in Requests /\ backlog[i].age < Lifetime
                                     /\ backlog'[i] = Older(backlog[i])
  BY <1>1, ElementOfSeq DEF Tick
<1>8. backlog' \in Seq(Requests)
  <2>1. \A i \in 1..Len(backlog) : Older(backlog[i]) \in Requests
    BY <1>1, <1>6, <1>7
  <2>2. Len(backlog) \in Nat /\ DOMAIN backlog = 1..Len(backlog)
    BY <1>1
  <2>3. QED
    BY <2>1, <2>2, IsASeq DEF Tick
<1>9. net' \in SUBSET Requests
  BY <1>1, <1>6 DEF Tick
<1>10. \A m \in InTransit' : \E o \in InTransit : o \in Requests /\ o.age < Lifetime /\ m = Older(o)
  <2>1. ASSUME NEW m \in net'
        PROVE  \E o \in InTransit : o \in Requests /\ o.age < Lifetime /\ m = Older(o)
    <3>1. PICK o \in net : o.age < Lifetime /\ m = Older(o)
      BY <2>1 DEF Tick
    <3>2. QED
      BY <1>1, <3>1 DEF InTransit
  <2>2. ASSUME NEW i \in DOMAIN backlog'
        PROVE  \E o \in InTransit : o \in Requests /\ o.age < Lifetime /\ backlog'[i] = Older(o)
    <3>1. i \in DOMAIN backlog /\ backlog[i] \in InTransit
      BY <1>7, <2>2 DEF InTransit
    <3>2. QED
      BY <1>7, <3>1
  <2>3. QED
    BY <2>1, <2>2 DEF InTransit
<1>11. RequestsFresh'
  <2> SUFFICES ASSUME NEW m \in InTransit'
               PROVE  /\ m.live => m.cmd = "REGISTER"
                      /\ m.cmd = "REGISTER" => m.src \in Servers /\ sinceSent'[m.src] <= m.age
    BY DEF RequestsFresh
  <2>1. PICK o \in InTransit : o \in Requests /\ o.age < Lifetime /\ m = Older(o)
    BY <1>10
  <2>2. /\ m.cmd = o.cmd /\ m.src = o.src /\ m.live = o.live /\ m.age = o.age + 1
        /\ o.age \in Nat
    BY <1>6, <2>1, TransitTypes
  <2>3. /\ o.live => o.cmd = "REGISTER"
        /\ o.cmd = "REGISTER" => o.src \in Servers /\ sinceSent[o.src] <= o.age
    BY DEF RequestsFresh
  <2>4. ASSUME o.src \in Servers
        PROVE  sinceSent[o.src] \in Nat /\ sinceSent'[o.src] <= sinceSent[o.src] + 1
    BY <1>0, <1>3, <2>4 DEF Increase
  <2>5. ASSUME o.src \in Servers PROVE sinceSent'[o.src] \in Nat
    BY <1>0, <1>3, <2>5
  <2>6. QED
    BY <2>2, <2>3, <2>4, <2>5
<1>12. ServicesFresh'
  <2> SUFFICES ASSUME NEW n \in Names, NEW a \in Addrs, services'[n][a] # Gone
               PROVE  a \in Servers /\ sinceSent'[a] <= services'[n][a] + Lifetime
    BY DEF ServicesFresh
  <2>1. /\ services[n][a] \in 0..Stale /\ services'[n][a] = Increase(services[n][a], Stale)
        /\ a \in Servers /\ sinceSent[a] <= services[n][a] + Lifetime
    BY <1>2 DEF ServicesFresh
  <2>2. sinceSent[a] \in 0..LongAgo /\ sinceSent'[a] = Increase(sinceSent[a], LongAgo)
    BY <1>3, <2>1
  <2>3. QED
    BY <1>0, <2>1, <2>2 DEF Increase
<1>13. CallbacksAgree'
  <2>1. \A n \in Names, a \in Addrs : services'[n][a] # Gone <=> services[n][a] # Gone
    BY <1>0, <1>2
  <2>2. QED
    BY <2>1 DEF CallbacksAgree, Tick
<1>14. TypeOK'
  BY <1>4, <1>5, <1>8, <1>9 DEF TypeOK, Tick
<1>15. QED
  BY <1>11, <1>12, <1>13, <1>14

-----------------------------------------------------------------------------
LEMMA RegistryInit == Init => RegistryInv
<1> SUFFICES ASSUME Init PROVE RegistryInv
  OBVIOUS
<1>1. /\ 0 \in 0..Interval /\ LongAgo \in 0..LongAgo /\ <<>> \in Seq(Requests)
  BY RegistryAssumption, EmptySeq DEF LongAgo
<1>2. services = [n \in Names |-> [a \in Addrs |-> Gone]]
  BY DEF Init, NoServices
<1>3. TypeOK
  BY <1>1, <1>2 DEF Init, TypeOK
<1>4. \A n \in Names, a \in Addrs : services[n][a] = Gone
  BY <1>2
<1>5. CallbacksAgree /\ ServicesFresh
  BY <1>4 DEF Init, CallbacksAgree, ServicesFresh
<1>6. RequestsFresh
  BY DEF Init, RequestsFresh, InTransit
<1>7. QED
  BY <1>3, <1>5, <1>6 DEF RegistryInv

(* The registry's own steps.                                               *)
LEMMA RegistrySteps ==
  ASSUME RegistryInv,
         \/ \E m \in net : ServeDatagram(m)
         \/ ServeConnection
         \/ RegistryClose \/ RegistryEnds \/ RegistryStart
         \/ \E f \in Servers \cup {Nothing} : CmdList(f)
  PROVE  RegistryInv'
<1> USE DEF RegistryInv
<1>0. net \in SUBSET Requests /\ backlog \in Seq(Requests) /\ <<>> \in Seq(Requests)
  BY EmptySeq DEF TypeOK
<1>1. ASSUME NEW m \in net, ServeDatagram(m) PROVE RegistryInv'
  <2>1. m \in InTransit /\ Serve(m)
    BY <1>1 DEF InTransit, ServeDatagram
  <2>2. net' \subseteq net /\ backlog' = backlog /\ sinceSent' = sinceSent
    BY <1>1, <2>1 DEF ServeDatagram, Serve, serverVars
  <2>3. RequestsFresh'
    BY <1>0, <2>2, Fewer
  <2>4. TypeOK'
    BY <1>0, <2>1, <2>2, Served DEF TypeOK, Serve, serverVars
  <2>5. QED
    BY <2>1, <2>3, <2>4, Served
<1>2. CASE ServeConnection
  <2>1. /\ backlog # <<>> /\ Len(backlog) \in Nat \ {0} /\ DOMAIN backlog = 1..Len(backlog)
        /\ Head(backlog) = backlog[1]
    BY <1>0, <1>2, HeadTailProperties, EmptySeq DEF ServeConnection
  <2>2. Head(backlog) \in InTransit /\ Serve(Head(backlog))
    BY <1>2, <2>1 DEF InTransit, ServeConnection
  <2>3. /\ net' = net /\ sinceSent' = sinceSent
        /\ backlog' = <<>> \/ backlog' = Tail(backlog)
    BY <1>2, <2>2 DEF ServeConnection, Serve, serverVars
  <2>4. /\ Tail(backlog) \in Seq(Requests)
        /\ \A i \in DOMAIN Tail(backlog) : i + 1 \in DOMAIN backlog /\ Tail(backlog)[i] = backlog[i + 1]
    BY <1>0, <2>1
  <2>5. backlog' \in Seq(Requests)
    BY <1>0, <2>3, <2>4
  <2>6. \A i \in DOMAIN backlog' : \E j \in DOMAIN backlog : backlog'[i] = backlog[j]
    BY <2>3, <2>4
  <2>7. RequestsFresh'
    BY <2>3, <2>5, <2>6, Fewer
  <2>8. TypeOK'
    BY <1>0, <2>2, <2>3, <2>5, Served DEF TypeOK, Serve, serverVars
  <2>9. QED
    BY <2>2, <2>7, <2>8, Served
<1>3. CASE RegistryClose \/ RegistryEnds \/ \E f \in Servers \cup {Nothing} : CmdList(f)
  <2>1. /\ services' = services /\ announced' = announced /\ sinceSent' = sinceSent
        /\ net' = net
        /\ backlog' = backlog \/ backlog' = <<>>
    BY <1>3 DEF RegistryClose, RegistryEnds, CmdList, netVars, serverVars
  <2>2. RequestsFresh'
    <3>1. backlog' \in Seq(Requests)
      BY <1>0, <2>1
    <3>2. \A i \in DOMAIN backlog' : \E j \in DOMAIN backlog : backlog'[i] = backlog[j]
      BY <2>1
    <3>3. QED
      BY <2>1, <3>1, <3>2, Fewer
  <2>3. TypeOK'
    <3>1. CASE RegistryClose \/ RegistryEnds
      BY <1>0, <3>1 DEF TypeOK, RegistryClose, RegistryEnds, netVars, serverVars
    <3>2. ASSUME NEW f \in Servers \cup {Nothing}, CmdList(f) PROVE TypeOK'
      <4>1. found' \in [cmd : {"QUERY", "LIST"}, val : SUBSET (Addrs \cup Names \cup {Nothing})]
        BY <3>2 DEF CmdList, ListedFor
      <4>2. QED
        BY <1>0, <2>1, <3>2, <4>1 DEF TypeOK, CmdList, EndOfRound, netVars, serverVars
    <3>3. QED
      BY <1>3, <3>1, <3>2
  <2>4. QED
    BY <2>1, <2>2, <2>3, Unserved
<1>4. CASE RegistryStart
  <2>1. services' = [n \in Names |-> [a \in Addrs |-> Gone]] /\ announced' = {}
    BY <1>4 DEF RegistryStart, NoServices
  <2>2. \A n \in Names, a \in Addrs : services'[n][a] = Gone
    BY <2>1
  <2>3. CallbacksAgree' /\ ServicesFresh'
    BY <2>1, <2>2 DEF CallbacksAgree, ServicesFresh
  <2>4. RequestsFresh' /\ TypeOK'
    BY <1>4, <2>1 DEF RegistryStart, netVars, serverVars, RequestsFresh, InTransit, TypeOK
  <2>5. QED
    BY <2>3, <2>4
<1>5. QED
  BY <1>1, <1>2, <1>3, <1>4

(* The steps of a server and of its registering thread.                    *)
LEMMA ServerSteps ==
  ASSUME RegistryInv, NEW s \in Servers,
         BgStep(s) \/ ServerClose(s) \/ ServerUnregister(s) \/ ServerStart(s)
  PROVE  RegistryInv'
<1> USE DEF RegistryInv
<1>0. 0 \in 0..Interval /\ Interval \in 0..Interval /\ 0 \in 0..LongAgo /\ s \in Addrs
  BY RegistryAssumption DEF LongAgo, Addrs
<1>1. services' = services /\ announced' = announced
  BY DEF BgStep, BgDue, BgRegister, BgAcknowledged, BgNotAcknowledged, BgEnds, ServerClose,
         ServerUnregister, ServerStart, registryVars
<1>2. CASE BgDue(s) \/ BgEnds(s) \/ ServerClose(s) \/ ServerStart(s)
  <2>1. sinceSent' = sinceSent /\ net' = net /\ backlog' = backlog
    BY <1>2 DEF BgDue, BgEnds, ServerClose, ServerStart, netVars
  <2>2. RequestsFresh'
    <3>1. backlog' \in Seq(Requests) /\ \A i \in DOMAIN backlog' : i \in DOMAIN backlog
      BY <2>1 DEF TypeOK
    <3>2. QED
      BY <2>1, <3>1, Fewer
  <2>3. TypeOK'
    <3>1. CASE BgDue(s)
      BY <1>0, <1>1, <2>1, <3>1 DEF TypeOK, BgDue, registryVars
    <3>2. CASE BgEnds(s)
      BY <1>1, <2>1, <3>2 DEF TypeOK, BgEnds, registryVars
    <3>3. CASE ServerClose(s)
      BY <1>1, <2>1, <3>3 DEF TypeOK, ServerClose, registryVars
    <3>4. CASE ServerStart(s)
      BY <1>0, <1>1, <2>1, <3>4 DEF TypeOK, ServerStart, registryVars
    <3>5. QED
      BY <1>2, <3>1, <3>2, <3>3, <3>4
  <2>4. QED
    BY <1>1, <2>1, <2>2, <2>3, Unserved
<1>3. CASE BgAcknowledged(s) \/ BgNotAcknowledged(s)
  <2>1. CloseSocket(s) /\ sinceSent' = sinceSent
    BY <1>3 DEF BgAcknowledged, BgNotAcknowledged
  <2>2. /\ net' \in SUBSET Requests /\ backlog' \in Seq(Requests) /\ acked' \in SUBSET Servers
        /\ RequestsFresh'
    BY <2>1, SocketClosed
  <2>3. pc' \in [Servers -> {"loop", "register", "wait", "finished"}]
    BY <1>3 DEF BgAcknowledged, BgNotAcknowledged, AfterAck, TypeOK
  <2>4. tnext' \in [Servers -> 0..Interval]
    BY <1>0, <1>3 DEF BgAcknowledged, BgNotAcknowledged, TypeOK
  <2>5. TypeOK'
    BY <1>1, <1>3, <2>1, <2>2, <2>3, <2>4
       DEF TypeOK, BgAcknowledged, BgNotAcknowledged, registryVars
  <2>6. QED
    BY <1>1, <2>1, <2>2, <2>5, Unserved
<1>4. CASE BgRegister(s)
  <2>1. /\ Post(Request("REGISTER", s)) /\ sinceSent' = [sinceSent EXCEPT ![s] = 0]
        /\ pc' = [pc EXCEPT ![s] = "wait"]
    BY <1>4 DEF BgRegister
  <2>2. net' \in SUBSET Requests /\ backlog' \in Seq(Requests) /\ RequestsFresh'
    BY <1>0, <2>1, Posted
  <2>3. sinceSent' \in [Servers -> 0..LongAgo]
    BY <1>0, <2>1 DEF TypeOK
  <2>4. TypeOK'
    BY <1>1, <1>4, <2>1, <2>2, <2>3 DEF TypeOK, BgRegister, registryVars
  <2>5. ServicesFresh'
    <3> SUFFICES ASSUME NEW n \in Names, NEW a \in Addrs, services[n][a] # Gone
                 PROVE  a \in Servers /\ sinceSent'[a] <= services[n][a] + Lifetime
      BY <1>1 DEF ServicesFresh
    <3>1. a \in Servers /\ sinceSent[a] <= services[n][a] + Lifetime
      BY DEF ServicesFresh
    <3>2. services[n][a] \in Nat
      BY RegistryAssumption DEF TypeOK, Stale
    <3>3. sinceSent'[a] = IF a = s THEN 0 ELSE sinceSent[a]
      BY <2>1, <3>1 DEF TypeOK
    <3>4. QED
      BY <3>1, <3>2, <3>3, RegistryAssumption
  <2>6. CallbacksAgree'
    BY <1>1 DEF CallbacksAgree
  <2>7. QED
    BY <2>2, <2>4, <2>5, <2>6
<1>5. CASE ServerUnregister(s)
  <2>1. sinceSent' = sinceSent
    BY <1>5 DEF ServerUnregister
  <2>2. net' \in SUBSET Requests /\ backlog' \in Seq(Requests) /\ RequestsFresh'
    <3>1. ASSUME NEW a \in UnregisteredFrom(s), Post(Request("UNREGISTER", a))
          PROVE  net' \in SUBSET Requests /\ backlog' \in Seq(Requests) /\ RequestsFresh'
      <4>1. a \in Addrs
        BY <1>0 DEF UnregisteredFrom, Addrs
      <4>2. QED
        BY <2>1, <3>1, <4>1, Posted
    <3>2. CASE UNCHANGED netVars
      BY <2>1, <3>2 DEF netVars, RequestsFresh, InTransit, TypeOK
    <3>3. QED
      BY <1>5, <3>1, <3>2 DEF ServerUnregister
  <2>3. TypeOK'
    BY <1>1, <1>5, <2>1, <2>2 DEF TypeOK, ServerUnregister, registryVars
  <2>4. QED
    BY <1>1, <2>1, <2>2, <2>3, Unserved
<1>6. QED
  BY <1>2, <1>3, <1>4, <1>5 DEF BgStep

LEMMA RegistryNext == RegistryInv /\ [Next]_vars => RegistryInv'
<1> SUFFICES ASSUME RegistryInv, [Next]_vars PROVE RegistryInv'
  OBVIOUS
<1>1. CASE UNCHANGED vars
  BY <1>1 DEF vars, RegistryInv, TypeOK, CallbacksAgree, RequestsFresh, ServicesFresh, InTransit
<1>2. QED
  BY <1>1, RegistrySteps, ServerSteps, Queried, Ticked DEF Next

(* A subclass that keeps its own listing with on_service_added and         *)
(* on_service_removed has the registry's entries at any time: whatever is  *)
(* registered, unregistered or pruned, by however many servers, and        *)
(* whatever the network does with their requests.                          *)
THEOREM ListingsAgree == Spec => []Inv
<1>1. RegistryInv => Inv
  BY DEF RegistryInv, Inv
<1>2. QED
  BY <1>1, RegistryInit, RegistryNext, PTL DEF Spec

(* No query answers with a server that has sent no REGISTER for longer     *)
(* than the pruning timeout and a request's way, so that one which closed  *)
(* or died is not handed out for long, whatever became of its UNREGISTER.  *)
THEOREM AnswersFresh == Spec => FreshAnswers
<1>1. RegistryInv /\ [Next]_vars =>
        [\A n \in Names : CmdQuery(n) =>
           \A a \in found'.val : a \in Servers /\ sinceSent[a] <= PruningTimeout + Lifetime]_vars
  <2> SUFFICES ASSUME RegistryInv, NEW n \in Names, CmdQuery(n), NEW a \in found'.val
               PROVE  a \in Servers /\ sinceSent[a] <= PruningTimeout + Lifetime
    OBVIOUS
  <2>1. a \in Addrs /\ Pruned(n)[n][a] # Gone
    BY DEF CmdQuery, Discovered, Listed
  <2>2. services \in [Names -> [Addrs -> (0..Stale) \cup {Gone}]] /\ sinceSent \in [Servers -> 0..LongAgo]
    BY DEF RegistryInv, TypeOK
  <2>3. Pruned(n)[n][a] = IF IsStale(n, a) THEN Gone ELSE services[n][a]
    BY <2>1, <2>2 DEF Pruned
  <2>4. services[n][a] # Gone /\ services[n][a] \in Nat /\ services[n][a] <= PruningTimeout
    BY <2>1, <2>2, <2>3, RegistryAssumption DEF IsStale, Stale
  <2>5. a \in Servers /\ sinceSent[a] <= services[n][a] + Lifetime
    BY <2>1, <2>4 DEF RegistryInv, ServicesFresh
  <2>6. sinceSent[a] \in Nat
    BY <2>2, <2>5, RegistryAssumption DEF LongAgo
  <2>7. QED
    BY <2>4, <2>5, <2>6, RegistryAssumption
<1>2. QED
  BY <1>1, RegistryInit, RegistryNext, PTL DEF Spec, FreshAnswers
=============================================================================
