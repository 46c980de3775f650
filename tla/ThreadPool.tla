----------------------------- MODULE ThreadPool -----------------------------
(***************************************************************************)
(* ThreadPoolServer: the main thread accepts, a polling thread watches the *)
(* inactive connections, and workers serve batches of requests of the      *)
(* active ones.  Connections go from hand to hand as file descriptors: an  *)
(* fd is registered with the poll object, in the polling thread's result,  *)
(* in the active queue, or with a worker.  The number of a closed socket   *)
(* is used again for the next one.                                         *)
(***************************************************************************)
EXTENDS Server

CONSTANTS
  Workers,
  Loads,         \* bound: a pool's workers, its clients, and whether it is ever closed
  BatchSize,     \* requestBatchSize
  Fds,           \* file descriptors the operating system has for sockets
  MaxRequests    \* bound: requests of one client that wait unserved

ASSUME PoolAssumption ==
  /\ None \notin Socks /\ IsFiniteSet(Workers) /\ MaxRequests \in Nat
  /\ Loads \subseteq (SUBSET Workers) \X (SUBSET Socks) \X BOOLEAN
  /\ Fds \subseteq Nat \ {0}
  /\ BatchSize \in Nat \ {0}

VARIABLES
  fdOf,        \* the file descriptor of an accepted socket; 0 before
  conns,       \* fd_to_conn
  polled,      \* fds registered with the poll object
  queue,       \* _active_connection_queue; 0 is the None of close()
  ppc, result, \* the polling thread, and what poll() returned to it
  wpc, wfd,    \* where each worker stands, and its fd; absent: not in `workers`
  wconn,       \* the connection whose poll() the worker called last
  batch,       \* requests left in a worker's batch
  requests,    \* requests a client has sent and nobody has served
  foreign      \* history: a worker's drop has closed another connection than its own

pollVars   == <<polled, ppc, result>>
workerVars == <<wpc, wfd, wconn, batch, foreign>>
poolVars   == <<fdOf, conns, queue, requests, pollVars, workerVars>>

vars == <<serverVars, poolVars>>

TypeOK ==
  /\ ServerTypeOK
  /\ fdOf \in [Socks -> Fds \cup {0}]
  /\ conns \in [Fds -> Socks \cup {None}]
  /\ polled \subseteq Fds
  /\ queue \in Seq(Fds \cup {0})
  /\ ppc \in {"absent", "poll", "end"}
  /\ result \subseteq Fds \X {"r", "h"}
  /\ wpc \in [Workers -> {"new", "top", "get", "serve", "poll", "drop", "end", "absent"}]
  /\ wfd \in [Workers -> Fds \cup {0}]
  /\ wconn \in [Workers -> Socks \cup {None}]
  /\ batch \in [Workers -> 0..BatchSize]
  /\ requests \in [Socks -> 0..MaxRequests]
  /\ foreign \in BOOLEAN

Init ==
  /\ ServerInit
  /\ fdOf = [s \in Socks |-> 0]
  /\ conns = [f \in Fds |-> None]
  /\ polled = {}
  /\ queue = <<>>
  /\ ppc = "absent"
  /\ result = {}
  /\ IF kind = "pool"
       THEN \E load \in Loads :
              /\ wpc = [w \in Workers |-> IF w \in load[1] THEN "new" ELSE "absent"]
              /\ sock = [s \in Socks |-> IF s \in load[2] THEN "out" ELSE "shut"]
              /\ kpc = [k \in {Main, User} |-> IF load[3] THEN "idle" ELSE "never"]
       ELSE /\ wpc = [w \in Workers |-> "absent"]
            /\ sock = [s \in Socks |-> "out"]
            /\ kpc = [k \in {Main, User} |-> "idle"]
  /\ wfd = [w \in Workers |-> 0]
  /\ wconn = [w \in Workers |-> None]
  /\ batch = [w \in Workers |-> 0]
  /\ requests = [s \in Socks |-> 0]
  /\ foreign = FALSE

-----------------------------------------------------------------------------
(* The rest of ThreadPoolServer._listen.  What a worker does before the    *)
(* last thread is there it could as well do after.                         *)
StartPool ==
  /\ Starting("spawn")
  /\ apc' = "loop"
  /\ wpc' = [w \in Workers |-> IF wpc[w] = "new" THEN "top" ELSE wpc[w]]
  /\ ppc' = "poll"
  /\ UNCHANGED <<active, listener, fdOf, conns, polled, result, queue, requests,
                 wfd, wconn, batch, foreign>>

-----------------------------------------------------------------------------
(* A client sends a request.                                               *)
SendRequest(s) ==
  /\ kind = "pool"
  /\ sock[s] = "open"
  /\ requests[s] < MaxRequests
  /\ requests' = [requests EXCEPT ![s] = @ + 1]
  /\ UNCHANGED <<serverVars, fdOf, conns, queue, pollVars, workerVars>>

-----------------------------------------------------------------------------
(* accept() and _accept_method in the main thread.                         *)

(* accept() gets the lowest number that is free.                           *)
FreeFds == Fds \ {fdOf[s] : s \in {x \in Socks : Open(x)}}

AcceptedWithFd(s) ==
  /\ Accepted(s)
  /\ \E f \in FreeFds :
       /\ \A g \in FreeFds : f <= g
       /\ fdOf' = [fdOf EXCEPT ![s] = f]
  /\ UNCHANGED <<conns, queue, requests, pollVars, workerVars>>

Dispatching(label, next) ==
  /\ kind = "pool"
  /\ apc = label
  /\ apc' = next
  /\ asock' = IF next = "loop" THEN None ELSE asock
  /\ UNCHANGED <<kind, active, closed, listener, kpc, kset, thread, late>>

(* Authentication or _connect fails: the socket is closed; `clients` keeps *)
(* it until the next clear().                                              *)
BuildFails ==
  /\ Dispatching("dispatch", "loop")
  /\ sock' = [sock EXCEPT ![asock] = "shut"]
  /\ UNCHANGED <<clients, poolVars>>

MapConnection ==
  /\ Dispatching("dispatch", "register")
  /\ conns' = [conns EXCEPT ![fdOf[asock]] = asock]
  /\ UNCHANGED <<clients, sock, fdOf, queue, requests, pollVars, workerVars>>

RegisterConnection ==
  /\ Dispatching("register", "clear")
  /\ polled' = polled \cup {fdOf[asock]}
  /\ UNCHANGED <<clients, sock, fdOf, conns, queue, requests, ppc, result, workerVars>>

(* self.clients.clear(): close() has no client left to shut.               *)
ClearClients ==
  /\ Dispatching("clear", "loop")
  /\ clients' = {}
  /\ UNCHANGED <<sock, poolVars>>

-----------------------------------------------------------------------------
(* The polling thread.                                                     *)

Holder(f) == {s \in Socks : Open(s) /\ fdOf[s] = f}

(* The events of a registered fd: "r" for data or the end of it, "h" for   *)
(* an error, a reset, or a number no open socket has.                      *)
Events(f) ==
  (IF \E s \in Holder(f) : requests[s] > 0 \/ sock[s] = "eof" THEN {"r"} ELSE {})
    \cup (IF \A s \in Holder(f) : sock[s] = "eof" THEN {"h"} ELSE {})

Poll ==
  /\ ppc = "poll"
  /\ active
  /\ result = {}
  /\ \E choice \in [polled -> {"r", "h", "-"}] :
       /\ \A f \in polled : IF Events(f) = {} THEN choice[f] = "-" ELSE choice[f] \in Events(f)
       /\ result' = {<<f, choice[f]>> : f \in {x \in polled : choice[x] # "-"}}
  /\ UNCHANGED <<serverVars, fdOf, conns, queue, requests, polled, ppc, workerVars>>

(* conn.close() of the connection in fd_to_conn, whichever that is.        *)
CloseConn(c) == sock' = IF c = None THEN sock ELSE [sock EXCEPT ![c] = "shut"]

KeepRegistered(f) == polled

Unregister(f) == polled \ {f}

HandlePollResult(f, evt) ==
  /\ <<f, evt>> \in result
  /\ result' = result \ {<<f, evt>>}
  /\ polled' = Unregister(f)
  /\ IF evt = "h"
       THEN /\ CloseConn(conns[f])
            /\ conns' = [conns EXCEPT ![f] = None]
            /\ UNCHANGED queue
       ELSE /\ queue' = Append(queue, f)
            /\ UNCHANGED <<conns, sock>>
  /\ UNCHANGED <<kind, active, closed, listener, clients, apc, asock, kpc, kset, thread, late,
                 fdOf, requests, ppc, workerVars>>

PollingEnds ==
  /\ ppc = "poll"
  /\ ~active
  /\ result = {}
  /\ ppc' = "end"
  /\ UNCHANGED <<serverVars, fdOf, conns, queue, requests, polled, result, workerVars>>

-----------------------------------------------------------------------------
(* The workers.                                                            *)

WGoto(w, label) == wpc' = [wpc EXCEPT ![w] = label]

(* Back to the loop, the fd forgotten.                                     *)
WLeave(w) ==
  /\ WGoto(w, "top")
  /\ wfd' = [wfd EXCEPT ![w] = 0]
  /\ wconn' = [wconn EXCEPT ![w] = None]
  /\ batch' = [batch EXCEPT ![w] = 0]

LoopTop(w) ==
  /\ wpc[w] = "top"
  /\ WGoto(w, IF active THEN "get" ELSE "end")
  /\ UNCHANGED <<serverVars, fdOf, conns, queue, requests, pollVars, wfd, wconn, batch, foreign>>

FullBatch == BatchSize

GetFd(w) ==
  /\ wpc[w] = "get"
  /\ queue # <<>>
  /\ queue' = Tail(queue)
  /\ wfd' = [wfd EXCEPT ![w] = Head(queue)]
  /\ batch' = [batch EXCEPT ![w] = IF Head(queue) = 0 THEN 0 ELSE FullBatch]
  /\ WGoto(w, IF Head(queue) = 0 THEN "top" ELSE "serve")
  /\ UNCHANGED <<serverVars, fdOf, conns, requests, pollVars, wconn, foreign>>

PutInFront(w) == <<wfd[w]>> \o queue

PutBack(w) == Append(queue, wfd[w])

(* The batch is used up, or fd_to_conn has no such fd (KeyError): the fd   *)
(* goes back into the active queue.                                        *)
BatchEnds(w) ==
  /\ wpc[w] = "serve"
  /\ batch[w] = 0 \/ conns[wfd[w]] = None
  /\ queue' = PutBack(w)
  /\ WLeave(w)
  /\ UNCHANGED <<serverVars, fdOf, conns, requests, pollVars, foreign>>

StartPoll(w) ==
  /\ wpc[w] = "serve"
  /\ batch[w] > 0
  /\ conns[wfd[w]] # None
  /\ wconn' = [wconn EXCEPT ![w] = conns[wfd[w]]]
  /\ WGoto(w, "poll")
  /\ UNCHANGED <<serverVars, fdOf, conns, queue, requests, pollVars, wfd, batch, foreign>>

(* poll() serves one request, which may raise: then the fd goes back into  *)
(* the queue in doubt.                                                     *)
PollServes(w) ==
  /\ wpc[w] = "poll"
  /\ Open(wconn[w])
  /\ requests[wconn[w]] > 0
  /\ requests' = [requests EXCEPT ![wconn[w]] = @ - 1]
  /\ \/ /\ batch' = [batch EXCEPT ![w] = @ - 1]
        /\ wconn' = [wconn EXCEPT ![w] = None]
        /\ WGoto(w, "serve")
        /\ UNCHANGED <<queue, wfd>>
     \/ WLeave(w) /\ queue' = PutBack(w)
  /\ UNCHANGED <<serverVars, fdOf, conns, pollVars, foreign>>

PollFindsNothing(w) ==
  /\ wpc[w] = "poll"
  /\ sock[wconn[w]] = "open"
  /\ requests[wconn[w]] = 0
  /\ polled' = polled \cup {wfd[w]}
  /\ WLeave(w)
  /\ UNCHANGED <<serverVars, fdOf, conns, queue, requests, ppc, result, foreign>>

(* EOF: serve() closes the connection, which frees the fd, and raises      *)
(* EOFError; only then does the worker drop what fd_to_conn has.           *)
PollEOF(w) ==
  /\ wpc[w] = "poll"
  /\ ~Open(wconn[w]) \/ (sock[wconn[w]] = "eof" /\ requests[wconn[w]] = 0)
  /\ CloseConn(wconn[w])
  /\ WGoto(w, "drop")
  /\ UNCHANGED <<kind, active, closed, listener, clients, apc, asock, kpc, kset, thread, late,
                 fdOf, conns, queue, requests, pollVars, wfd, wconn, batch, foreign>>

DropConnection(w) ==
  /\ wpc[w] = "drop"
  /\ CloseConn(conns[wfd[w]])
  /\ conns' = [conns EXCEPT ![wfd[w]] = None]
  /\ foreign' = (foreign \/ conns[wfd[w]] \notin {None, wconn[w]})
  /\ WLeave(w)
  /\ UNCHANGED <<kind, active, closed, listener, clients, apc, asock, kpc, kset, thread, late,
                 fdOf, queue, requests, pollVars>>

-----------------------------------------------------------------------------
(* ThreadPoolServer.close after Server.close: join the polling thread, put *)
(* one None per worker, join the workers.                                  *)

PillsNone == 0

Pills == Cardinality({w \in Workers : wpc[w] # "absent"})

ClosePool(k) ==
  /\ kind = "pool"
  /\ kpc[k] = "pool"
  /\ ppc = "end"
  /\ queue' = queue \o [i \in 1..Pills |-> 0]
  /\ CloseGoto(k, "join")
  /\ UNCHANGED <<kind, active, closed, listener, clients, apc, asock, kset, sock, thread, late,
                 fdOf, conns, requests, pollVars, workerVars>>

(* A close() before there is a polling thread raises AttributeError.       *)
NoPollingThread(k) ==
  /\ kind = "pool"
  /\ kpc[k] = "pool"
  /\ ppc = "absent"
  /\ CloseGoto(k, "done")
  /\ UNCHANGED <<kind, active, closed, listener, clients, apc, asock, kset, sock, thread, late,
                 poolVars>>

JoinWorkers(k) ==
  /\ kpc[k] = "join"
  /\ \A w \in Workers : wpc[w] \in {"end", "absent"}
  /\ CloseGoto(k, "done")
  /\ apc' = IF k = Main THEN "end" ELSE apc
  /\ UNCHANGED <<kind, active, closed, listener, clients, asock, kset, sock, thread, late, poolVars>>

-----------------------------------------------------------------------------
PollStep == Poll \/ PollingEnds \/ \E f \in Fds, evt \in {"r", "h"} : HandlePollResult(f, evt)

WorkerStep(w) ==
  \/ LoopTop(w) \/ GetFd(w) \/ BatchEnds(w) \/ StartPoll(w)
  \/ PollServes(w) \/ PollFindsNothing(w) \/ PollEOF(w) \/ DropConnection(w)

MainPoolStep == StartPool \/ BuildFails \/ MapConnection \/ RegisterConnection \/ ClearClients

Main_ ==
  \/ MainStep /\ UNCHANGED poolVars
  \/ MainPoolStep
  \/ \E s \in Socks : AcceptedWithFd(s)

Closing(k) ==
  \/ CloseStep(k) /\ UNCHANGED poolVars
  \/ ClosePool(k)
  \/ NoPollingThread(k)
  \/ JoinWorkers(k)

Next ==
  \/ \E s \in Socks : (Connect(s) \/ Hangup(s) \/ ThreadStep(s)) /\ UNCHANGED poolVars
  \/ \E s \in Socks : SendRequest(s)
  \/ (CloseBegins(User) \/ Interrupt) /\ UNCHANGED poolVars
  \/ Main_
  \/ \E k \in {Main, User} : Closing(k)
  \/ PollStep
  \/ \E w \in Workers : WorkerStep(w)

Spec == Init /\ [][Next]_vars

(* Every thread of the server runs on; a client need not do anything.      *)
FairSpec ==
  /\ Spec
  /\ WF_vars(Main_)
  /\ WF_vars(PollStep)
  /\ \A k \in {Main, User} : WF_vars(Closing(k))
  /\ \A w \in Workers : WF_vars(WorkerStep(w))
  /\ \A s \in Socks : WF_vars(ThreadStep(s) /\ UNCHANGED poolVars)

-----------------------------------------------------------------------------
(* A connection in fd_to_conn is in one place: registered with the poll    *)
(* object, in the active queue, or with one worker.  So no two workers     *)
(* serve it at the same time, and none is forgotten.  This lasts until a   *)
(* worker, after the connection it was serving has closed and its number   *)
(* has gone to a new client, drops that one instead (`foreign`).           *)
Handles(w, f) ==
  /\ wfd[w] = f
  /\ \/ wpc[w] \in {"serve", "poll"}
     \/ wpc[w] = "drop" /\ wconn[w] = conns[f]

Places(f) ==
  (IF f \in polled THEN {<<"polled", f>>} ELSE {})
    \cup {<<"queue", i>> : i \in {j \in DOMAIN queue : queue[j] = f}}
    \cup {<<"worker", w>> : w \in {v \in Workers : Handles(v, f)}}
    \cup (IF apc = "register" /\ fdOf[asock] = f THEN {<<"main", f>>} ELSE {})

OnePlace ==
  ~foreign => \A f \in Fds : conns[f] # None => Cardinality(Places(f)) = 1

(* The type invariant, and OnePlace.                                        *)
Inv == TypeOK /\ OnePlace

(* A request is served, or its connection closed, unless the server stops: *)
(* a connection with more than a batch of requests goes to the end of the  *)
(* queue, and no other waits for it forever.                               *)
RequestServed ==
  \A s \in Socks :
    requests[s] = MaxRequests ~> requests[s] < MaxRequests \/ sock[s] = "shut" \/ ~active

(* close() comes back to whoever calls it, with every thread of the pool   *)
(* gone, and start() comes back too, unless a one-shot server serves a     *)
(* client that close() has missed.  A close() during _listen is lost when  *)
(* `active` is set after it: a pool's polling thread then runs on.         *)
CloseReturnsAtLast ==
  /\ kpc[User] \notin {"idle", "never"} ~> kpc[User] = "done" \/ (active /\ kind = "pool")
  /\ closed ~> apc = "end" \/ late # {} \/ (active /\ kind = "pool")

(* Once close() is over, nobody serves a client that was in `clients` when *)
(* close() looked at them.  A client accepted meanwhile may come too late. *)
(* Those of a forking server's children and of a thread pool are never in  *)
(* `clients` for long, and close() does not end their connections.         *)
ClientsServedNoMore ==
  kind \in {"threaded", "oneshot"} =>
    (closed ~> \A s \in Socks \ late : thread[s] \in {"none", "ended"})
=============================================================================
