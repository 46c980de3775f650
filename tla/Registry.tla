------------------------------ MODULE Registry ------------------------------
(***************************************************************************)
(* The registry and the servers that register with it: RegistryServer with *)
(* its UDP and TCP transports, the registrars (RegistryClient), and the    *)
(* part of a Server that announces it, the thread _bg_register and         *)
(* close().  Time passes in ticks.  What the code compares with the clock  *)
(* is kept as an age or a time to go, so runs have no end.                 *)
(*                                                                         *)
(* Datagrams are lost, repeated and reordered, and arrive within Lifetime  *)
(* ticks.  TCP requests arrive in the order of their connections.  Every   *)
(* call of a registrar opens a new socket: a request whose caller has      *)
(* given up is `live` no more, and nobody reads the answer to it.  Queries *)
(* may come at any time, from anyone: a lookup is the step in which the    *)
(* registry serves it, and a discover that times out is no step.           *)
(***************************************************************************)
EXTENDS Naturals, Sequences, FiniteSets

CONSTANTS
  Servers,          \* servers, and the address each one registers from
  Names,            \* service names, in upper case
  Aliases,          \* the names each server offers
  Multihomed,       \* servers whose UNREGISTER may leave from another address
  Elsewhere,        \* that address
  AllowListing,
  PruningTimeout,
  Interval,         \* REREGISTER_INTERVAL
  Lifetime,         \* ticks a request may spend on its way
  MaxNet,           \* bound: requests on their way at a time
  Gone, Nothing     \* no entry in `services`; None

ASSUME RegistryAssumption ==
  /\ Aliases \in [Servers -> SUBSET Names]
  /\ Multihomed \subseteq Servers
  /\ Elsewhere \notin Servers
  /\ AllowListing \in BOOLEAN
  /\ PruningTimeout \in Nat /\ Interval \in Nat /\ Lifetime \in Nat /\ MaxNet \in Nat
  /\ Gone \notin Nat

VARIABLES
  transport,   \* "udp" or "tcp"
  registry,    \* the registry: in its loop, told to stop, or not running
  services,    \* services[name][addr]: the age of the time stamp, or Gone
  announced,   \* what a subclass keeps up to date in on_service_added/_removed
  net,         \* datagrams on their way
  backlog,     \* TCP connections the registry has not accepted
  acked,       \* servers whose registrar has received the OK it waits for
  server,      \* a Server: active, in close(), closed
  pc,          \* where its _bg_register thread stands
  tnext,       \* ticks until that thread registers again
  sinceSent,   \* history: ticks since the server's last REGISTER left
  found        \* the last answer to discover or list

vars == <<transport, registry, services, announced, net, backlog, acked, server,
          pc, tnext, sinceSent, found>>

registryVars == <<registry, services, announced>>
serverVars   == <<server, pc, tnext, sinceSent>>
netVars      == <<net, backlog>>

Addrs   == Servers \cup {Elsewhere}
Stale   == PruningTimeout + 1
LongAgo == PruningTimeout + Lifetime + 1

Requests ==
  [cmd : {"REGISTER", "UNREGISTER"}, src : Addrs, live : BOOLEAN, age : 0..Lifetime]

TypeOK ==
  /\ transport \in {"udp", "tcp"}
  /\ registry \in {"work", "stopping", "down"}
  /\ services \in [Names -> [Addrs -> (0..Stale) \cup {Gone}]]
  /\ announced \in SUBSET (Names \X Addrs)
  /\ net \in SUBSET Requests
  /\ backlog \in Seq(Requests)
  /\ acked \in SUBSET Servers
  /\ server \in [Servers -> {"active", "closing", "closed"}]
  /\ pc \in [Servers -> {"loop", "register", "wait", "finished"}]
  /\ tnext \in [Servers -> 0..Interval]
  /\ sinceSent \in [Servers -> 0..LongAgo]
  /\ found \in [cmd : {"QUERY", "LIST"}, val : SUBSET (Addrs \cup Names \cup {Nothing})]

NoServices == [n \in Names |-> [a \in Addrs |-> Gone]]

Init ==
  /\ transport \in {"udp", "tcp"}
  /\ registry = "work"
  /\ services = NoServices
  /\ announced = {}
  /\ net = {}
  /\ backlog = <<>>
  /\ acked = {}
  /\ server = [s \in Servers |-> "active"]
  /\ pc = [s \in Servers |-> "loop"]
  /\ tnext = [s \in Servers |-> 0]
  /\ sinceSent = [s \in Servers |-> LongAgo]
  /\ found = [cmd |-> "QUERY", val |-> {}]

-----------------------------------------------------------------------------
(* The network.                                                            *)

Request(c, from) == [cmd |-> c, src |-> from, live |-> c = "REGISTER", age |-> 0]

(* sendto; or connect and send, which a registry that is down refuses.     *)
(* A datagram that is lost never enters `net`.                             *)
Post(m) ==
  \/ /\ transport = "udp"
     /\ net' = net \cup {m}
     /\ Cardinality(net') <= MaxNet
     /\ UNCHANGED backlog
  \/ /\ transport = "udp"
     /\ UNCHANGED <<net, backlog>>
  \/ /\ transport = "tcp"
     /\ registry # "down"
     /\ Len(backlog) < MaxNet
     /\ backlog' = Append(backlog, m)
     /\ UNCHANGED net

Refused == transport = "tcp" /\ registry = "down"

Orphaned(m, a) == IF m.src = a THEN [m EXCEPT !.live = FALSE] ELSE m

(* closing(sock): nothing answers to the requests sent from it any more.   *)
CloseSocket(a) ==
  /\ net' = {Orphaned(m, a) : m \in net}
  /\ backlog' = [i \in DOMAIN backlog |-> Orphaned(backlog[i], a)]
  /\ acked' = acked \ {a}

-----------------------------------------------------------------------------
(* RegistryServer.  The operators map `services` to `services`.            *)

Listed(sv, n) == {a \in Addrs : sv[n][a] # Gone}

(* _add_service for every name of the request.                             *)
Added(m) ==
  [n \in Names |->
     IF n \in Aliases[m.src] THEN [services[n] EXCEPT ![m.src] = 0] ELSE services[n]]

(* cmd_unregister: from every name the registry knows, offered or not.     *)
Removed(m) == [n \in Names |-> [services[n] EXCEPT ![m.src] = Gone]]

NeverStale(n, a) == FALSE

(* cmd_query drops what has not been registered for PruningTimeout.        *)
IsStale(n, a) == services[n][a] # Gone /\ services[n][a] > PruningTimeout

Pruned(n) ==
  [services EXCEPT ![n] = [a \in Addrs |-> IF IsStale(n, a) THEN Gone ELSE @[a]]]

(* The callbacks: on_service_added for an address that is new under a      *)
(* name; on_service_removed for each pruned one and, on UNREGISTER, for    *)
(* every name there is, also those the address was never listed under.     *)
CalledBack(m) ==
  IF m.cmd = "REGISTER"
    THEN announced \cup {<<n, m.src>> : n \in {x \in Aliases[m.src] : services[x][m.src] = Gone}}
    ELSE announced \ {<<n, m.src>> : n \in {x \in Names : Listed(services, x) # {}}}

PrunedSilently(n) == announced

PrunedCallbacks(n) == announced \ {<<n, a>> : a \in {b \in Addrs : IsStale(n, b)}}

(* One round of _work.  A registry that was told to stop while it waited   *)
(* in _recv serves what it receives there and ends.                        *)
EndOfRound == registry' = IF registry = "stopping" THEN "down" ELSE registry

Serve(m) ==
  /\ registry # "down"
  /\ services' = IF m.cmd = "REGISTER" THEN Added(m) ELSE Removed(m)
  /\ announced' = CalledBack(m)
  /\ EndOfRound
  /\ \/ m.live /\ acked' = acked \cup {m.src}
     \/ (transport = "udp" \/ ~m.live) /\ UNCHANGED acked
  /\ UNCHANGED <<transport, serverVars, found>>

ServeDatagram(m) ==
  /\ m \in net
  /\ Serve(m)
  /\ net' \in {net, net \ {m}}
  /\ UNCHANGED backlog

ServeConnection ==
  /\ backlog # <<>>
  /\ Serve(Head(backlog))
  /\ backlog' = IF registry = "stopping" THEN <<>> ELSE Tail(backlog)
  /\ UNCHANGED net

(* discover and list return what the registry sends back.                  *)
Discovered(n) == [cmd |-> "QUERY", val |-> Listed(Pruned(n), n)]

ListedFor(filter) ==
  [cmd |-> "LIST",
   val |-> IF ~AllowListing THEN {Nothing}
           ELSE {n \in Names : Listed(services, n) \cap
                                (IF filter = Nothing THEN Addrs ELSE {filter}) # {}}]

CmdQuery(n) ==
  /\ registry # "down"
  /\ services' = Pruned(n)
  /\ announced' = PrunedCallbacks(n)
  /\ found' = Discovered(n)
  /\ EndOfRound
  /\ backlog' = IF registry = "stopping" THEN <<>> ELSE backlog
  /\ UNCHANGED <<transport, net, acked, serverVars>>

(* By host, or with no filter: every name there is.  A name whose entries  *)
(* are all stale is listed until somebody queries it.                      *)
CmdList(filter) ==
  /\ registry # "down"
  /\ found' = ListedFor(filter)
  /\ EndOfRound
  /\ backlog' = IF registry = "stopping" THEN <<>> ELSE backlog
  /\ UNCHANGED <<transport, services, announced, net, acked, serverVars>>

RegistryClose ==
  /\ registry = "work"
  /\ registry' = "stopping"
  /\ UNCHANGED <<transport, services, announced, netVars, acked, serverVars, found>>

(* _recv times out after close(): the loop ends and the socket closes.     *)
RegistryEnds ==
  /\ registry = "stopping"
  /\ registry' = "down"
  /\ backlog' = <<>>
  /\ UNCHANGED <<transport, services, announced, net, acked, serverVars, found>>

(* A new RegistryServer knows nothing of the old one's services.           *)
RegistryStart ==
  /\ registry = "down"
  /\ registry' = "work"
  /\ services' = NoServices
  /\ announced' = {}
  /\ UNCHANGED <<transport, netVars, acked, serverVars, found>>

-----------------------------------------------------------------------------
(* Server._bg_register and Server.close.                                   *)

DueAlways(s) == tnext[s] = 0

Due(s) == server[s] = "active" /\ tnext[s] = 0

BgDue(s) ==
  /\ pc[s] = "loop"
  /\ Due(s)
  /\ pc' = [pc EXCEPT ![s] = "register"]
  /\ tnext' = [tnext EXCEPT ![s] = Interval]
  /\ UNCHANGED <<transport, registryVars, netVars, acked, server, sinceSent, found>>

(* registrar.register: nothing looks at `active` between the loop's test   *)
(* and the send, so REGISTER may follow the UNREGISTER of close().         *)
BgRegister(s) ==
  /\ pc[s] = "register"
  /\ Post(Request("REGISTER", s))
  /\ sinceSent' = [sinceSent EXCEPT ![s] = 0]
  /\ pc' = [pc EXCEPT ![s] = "wait"]
  /\ UNCHANGED <<transport, registryVars, acked, server, tnext, found>>

AfterAckOnce == "finished"

AfterAck == "loop"

BgAcknowledged(s) ==
  /\ pc[s] = "wait"
  /\ s \in acked
  /\ CloseSocket(s)
  /\ pc' = [pc EXCEPT ![s] = AfterAck]
  /\ UNCHANGED <<transport, registryVars, server, tnext, sinceSent, found>>

(* register returns False on a timeout or a refused connection: the thread *)
(* tries again at its next look at the clock.                              *)
BgNotAcknowledged(s) ==
  /\ pc[s] = "wait" \/ (pc[s] = "register" /\ Refused)
  /\ CloseSocket(s)
  /\ pc' = [pc EXCEPT ![s] = "loop"]
  /\ tnext' = [tnext EXCEPT ![s] = 0]
  /\ UNCHANGED <<transport, registryVars, server, sinceSent, found>>

BgEnds(s) ==
  /\ pc[s] = "loop"
  /\ server[s] # "active"
  /\ pc' = [pc EXCEPT ![s] = "finished"]
  /\ UNCHANGED <<transport, registryVars, netVars, acked, server, tnext, sinceSent, found>>

ServerClose(s) ==
  /\ server[s] = "active"
  /\ server' = [server EXCEPT ![s] = "closing"]
  /\ UNCHANGED <<transport, registryVars, netVars, acked, pc, tnext, sinceSent, found>>

UnregisteredFrom(s) == IF s \in Multihomed THEN {s, Elsewhere} ELSE {s}

(* registrar.unregister does not bind its socket to the server's interface *)
(* and does not wait for an answer.                                        *)
ServerUnregister(s) ==
  /\ server[s] = "closing"
  /\ \/ \E a \in UnregisteredFrom(s) : Post(Request("UNREGISTER", a))
     \/ Refused /\ UNCHANGED netVars
  /\ server' = [server EXCEPT ![s] = "closed"]
  /\ UNCHANGED <<transport, registryVars, acked, pc, tnext, sinceSent, found>>

(* A new Server on the same port.                                          *)
ServerStart(s) ==
  /\ server[s] = "closed"
  /\ pc[s] = "finished"
  /\ server' = [server EXCEPT ![s] = "active"]
  /\ pc' = [pc EXCEPT ![s] = "loop"]
  /\ tnext' = [tnext EXCEPT ![s] = 0]
  /\ UNCHANGED <<transport, registryVars, netVars, acked, sinceSent, found>>

Older(m) == [m EXCEPT !.age = @ + 1]

Decrease(n) == IF n = 0 THEN 0 ELSE n - 1

Increase(n, max) == IF n < max THEN n + 1 ELSE max

(* A datagram that is not there within Lifetime does not come.  The        *)
(* registry accepts a connection within Lifetime.                          *)
Tick ==
  /\ \A i \in DOMAIN backlog : backlog[i].age < Lifetime
  /\ net' = {Older(m) : m \in {x \in net : x.age < Lifetime}}
  /\ backlog' = [i \in DOMAIN backlog |-> Older(backlog[i])]
  /\ services' = [n \in Names |-> [a \in Addrs |->
                    IF services[n][a] = Gone THEN Gone ELSE Increase(services[n][a], Stale)]]
  /\ tnext' = [s \in Servers |-> Decrease(tnext[s])]
  /\ sinceSent' = [s \in Servers |-> Increase(sinceSent[s], LongAgo)]
  /\ UNCHANGED <<transport, registry, announced, acked, server, pc, found>>

BgStep(s) == BgDue(s) \/ BgRegister(s) \/ BgAcknowledged(s) \/ BgNotAcknowledged(s) \/ BgEnds(s)

Next ==
  \/ \E m \in net : ServeDatagram(m)
  \/ ServeConnection
  \/ RegistryClose
  \/ RegistryEnds
  \/ RegistryStart
  \/ \E s \in Servers : BgStep(s) \/ ServerClose(s) \/ ServerUnregister(s) \/ ServerStart(s)
  \/ \E n \in Names : CmdQuery(n)
  \/ \E f \in Servers \cup {Nothing} : CmdList(f)
  \/ Tick

Spec == Init /\ [][Next]_vars

ServeRegisterOf(s) ==
  \E m \in net : m.cmd = "REGISTER" /\ m.src = s /\ ServeDatagram(m)

(* Time goes on, a registering thread runs, a registry that is running     *)
(* accepts connections, and the network does not lose every REGISTER.      *)
FairSpec ==
  /\ Spec
  /\ WF_vars(Tick)
  /\ WF_vars(ServeConnection)
  /\ \A s \in Servers :
       /\ WF_vars(BgStep(s))
       /\ SF_vars(BgRegister(s) /\ net' # net)
       /\ SF_vars(ServeRegisterOf(s))

-----------------------------------------------------------------------------
(* discover never returns a server that has sent no REGISTER for longer    *)
(* than the pruning timeout and a request's way: a server that closed, or  *)
(* died, is not handed out for long, whatever became of its UNREGISTER.    *)
FreshAnswers ==
  [][\A n \in Names : CmdQuery(n) =>
       \A a \in found'.val : a \in Servers /\ sinceSent[a] <= PruningTimeout + Lifetime]_vars

(* A subclass that adds in on_service_added and discards in                *)
(* on_service_removed has exactly the registry's entries at any time.      *)
CallbacksAgree == announced = {e \in Names \X Addrs : services[e[1]][e[2]] # Gone}

(* The type invariant, and CallbacksAgree.                                  *)
Inv == TypeOK /\ CallbacksAgree

(* A server that stays active while the registry runs is listed again and  *)
(* again under all its names: a lost REGISTER, a lost answer, a restart of *)
(* the registry and the late UNREGISTER of the server's predecessor on the *)
(* same port are all made good.                                            *)
Works(s) == server[s] = "active" /\ registry = "work"

ActiveListed ==
  \A s \in Servers : <>[]Works(s) => []<>(\A n \in Aliases[s] : services[n][s] # Gone)

(* A server that is closed for good is out of every answer in the end,     *)
(* also when REGISTER overtakes UNREGISTER or UNREGISTER is lost.          *)
ClosedForgotten ==
  \A s \in Servers :
    <>[](server[s] = "closed") => <>[][\A n \in Names : CmdQuery(n) => s \notin found'.val]_vars
=============================================================================
