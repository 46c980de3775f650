-------------------------- MODULE ThreadPool_proofs --------------------------
(***************************************************************************)
(* Proofs about ThreadPool: a connection in fd_to_conn is in one place.    *)
(***************************************************************************)
EXTENDS ThreadPool, FiniteSetTheorems, TLAPS

(* The places of f, each by itself: the poll object, the queue, a worker,  *)
(* the main thread.                                                        *)
Queued(f) == {i \in DOMAIN queue : queue[i] = f}

Held(f) == {w \in Workers : Handles(w, f)}

Registering(f) == apc = "register" /\ fdOf[asock] = f

Nowhere(f) == f \notin polled /\ Queued(f) = {} /\ Held(f) = {} /\ ~Registering(f)

Alone(f) ==
  \/ f \in polled /\ Queued(f) = {} /\ Held(f) = {} /\ ~Registering(f)
  \/ f \notin polled /\ (\E i \in Queued(f) : Queued(f) = {i}) /\ Held(f) = {} /\ ~Registering(f)
  \/ f \notin polled /\ Queued(f) = {} /\ (\E w \in Held(f) : Held(f) = {w}) /\ ~Registering(f)
  \/ f \notin polled /\ Queued(f) = {} /\ Held(f) = {} /\ Registering(f)

(* Only a pool has connections in fd_to_conn, and it gives none a thread.  *)
KindOK ==
  /\ kind = "pool" => \A s \in Socks : thread[s] = "none"
  /\ kind # "pool" => apc # "register" /\ \A f \in Fds : conns[f] = None

(* A close() that shuts clients has closed the listener; that of the main  *)
(* thread comes after its loop.                                            *)
CloseOK ==
  /\ \A k \in {Main, User} : kpc[k] \in {"copy", "shut", "mark"} => listener = "closed"
  /\ kpc[Main] \notin {"never", "idle", "done"} => apc = "close"

(* A socket that a worker serves or fd_to_conn has was accepted, and one   *)
(* that is being accepted is new.                                          *)
Gone(s) == sock[s] \notin {"out", "waiting"}

Pending == apc \in {"accepted", "add", "dispatch"}

AcceptOK ==
  /\ Pending \/ apc \in {"register", "clear"} => asock \in Socks /\ fdOf[asock] \in Fds /\ Gone(asock)
  /\ Pending => /\ \A f \in Fds : conns[f] # asock
                /\ \A w \in Workers : wconn[w] # asock
                /\ kind = "pool" => Open(asock) \/ listener = "closed"
  /\ \A f \in Fds : conns[f] # None => fdOf[conns[f]] = f /\ Gone(conns[f])
  /\ \A w \in Workers : wconn[w] # None => Gone(wconn[w])

WorkerOK ==
  \A w \in Workers :
    /\ wpc[w] \in {"serve", "poll", "drop"} => wfd[w] \in Fds
    /\ wpc[w] = "poll" => batch[w] > 0
    /\ wpc[w] \in {"poll", "drop"} => wconn[w] # None

ResultOK ==
  /\ \A r \in result : r[1] \in polled
  /\ \A q, r \in result : q[1] = r[1] => q = r

(* Until a worker drops another connection than its own: the number of a   *)
(* connection in fd_to_conn is in use, or a worker is about to drop it, or *)
(* nobody connects any more.                                               *)
Dropping(f) == \E w \in Workers : wpc[w] = "drop" /\ wfd[w] = f /\ wconn[w] = conns[f]

InUse(f) == conns[f] # None => Open(conns[f]) \/ listener = "closed" \/ Dropping(f)

InPlace(f) == IF conns[f] = None THEN Nowhere(f) ELSE Alone(f)

Settled ==
  /\ \A f \in Fds : InPlace(f) /\ InUse(f)
  /\ \A w \in Workers : wpc[w] = "poll" => wconn[w] = conns[wfd[w]]
  /\ Pending /\ conns[fdOf[asock]] # None => Dropping(fdOf[asock])

PoolInv ==
  /\ TypeOK /\ KindOK /\ CloseOK /\ AcceptOK /\ WorkerOK /\ ResultOK
  /\ ~foreign => Settled

(* The steps that are the server's own, and those of the pool.             *)
ServerOwn ==
  /\ \/ \E s \in Socks : Connect(s) \/ Hangup(s) \/ ThreadStep(s)
     \/ MainStep \/ Interrupt
     \/ \E k \in {Main, User} : CloseStep(k) \/ CloseBegins(k)
  /\ UNCHANGED poolVars

PoolOwn ==
  \/ MainPoolStep \/ PollStep
  \/ \E s \in Socks : SendRequest(s) \/ AcceptedWithFd(s)
  \/ \E k \in {Main, User} : ClosePool(k) \/ NoPollingThread(k) \/ JoinWorkers(k)
  \/ \E w \in Workers : WorkerStep(w)

(* Every step is one or the other.                                         *)
LEMMA Steps == Next => ServerOwn \/ PoolOwn
BY DEF Next, Main_, Closing, ServerOwn, PoolOwn

-----------------------------------------------------------------------------
(* The types.                                                              *)
LEMMA ServerTypes ==
  ASSUME TypeOK, AcceptOK, ServerOwn
  PROVE  TypeOK'
<1>1. ServerTypeOK'
  <2>1. ASSUME NEW s \in Socks, Connect(s) \/ Hangup(s) \/ ThreadStep(s)
        PROVE  ServerTypeOK'
    <3>1. CASE Connect(s)
      BY <3>1 DEF TypeOK, ServerTypeOK, Connect
    <3>2. CASE Hangup(s)
      BY <3>2 DEF TypeOK, ServerTypeOK, Hangup
    <3>3. CASE Authenticate(s)
      BY <3>3 DEF TypeOK, ServerTypeOK, Authenticate
    <3>4. CASE ServeEnds(s)
      BY <3>4 DEF TypeOK, ServerTypeOK, ServeEnds
    <3>5. CASE ClientDone(s)
      BY <3>5 DEF TypeOK, ServerTypeOK, ClientDone
    <3>6. QED
      BY <2>1, <3>1, <3>2, <3>3, <3>4, <3>5 DEF ThreadStep
  <2>2. CASE Activate
    <3>1. apc' \in {"spawn", "listen", "loop"} /\ active' = TRUE
      BY <2>2 DEF Activate
    <3>2. QED
      BY <2>2, <3>1 DEF TypeOK, ServerTypeOK, Activate, Starting
  <2>3. CASE Listen
    BY <2>3 DEF TypeOK, ServerTypeOK, Listen, Starting
  <2>4. CASE AcceptEnds
    BY <2>4 DEF TypeOK, ServerTypeOK, AcceptEnds, AcceptLoop
  <2>5. CASE Interrupt
    BY <2>5 DEF TypeOK, ServerTypeOK, Interrupt, AcceptLoop
  <2>6. CASE CheckActive
    BY <2>6 DEF TypeOK, ServerTypeOK, CheckActive
  <2>7. CASE AddClient
    <3>1. clients' \subseteq Socks /\ late' \subseteq Socks
      <4>1. Pending
        BY <2>7 DEF AddClient, Pending
      <4>2. QED
        BY <2>7, <4>1 DEF TypeOK, ServerTypeOK, AcceptOK, AddClient
    <3>2. QED
      BY <2>7, <3>1 DEF TypeOK, ServerTypeOK, AddClient
  <2>8. CASE Spawn
    BY <2>8 DEF TypeOK, ServerTypeOK, Spawn, Dispatch
  <2>9. CASE Fork
    BY <2>9 DEF TypeOK, ServerTypeOK, Fork, Dispatch
  <2>10. ASSUME NEW k \in {Main, User}, CloseStep(k) \/ CloseBegins(k)
        PROVE  ServerTypeOK'
    <3>1. CASE CloseListener(k)
      BY <3>1 DEF TypeOK, ServerTypeOK, CloseListener, CloseGoto
    <3>2. CASE CopyClients(k)
      BY <3>2 DEF TypeOK, ServerTypeOK, CopyClients, CloseGoto, Remaining
    <3>3. CASE ShutOne(k)
      BY <3>3 DEF TypeOK, ServerTypeOK, ShutOne
    <3>4. CASE ClientsShut(k)
      BY <3>4 DEF TypeOK, ServerTypeOK, ClientsShut, CloseGoto
    <3>5. CASE MarkClosed(k)
      BY <3>5 DEF TypeOK, ServerTypeOK, MarkClosed, CloseGoto
    <3>6. CASE CloseReturns(k)
      BY <3>6 DEF TypeOK, ServerTypeOK, CloseReturns, CloseGoto
    <3>7. CASE CloseBegins(k)
      <4>1. active' \in BOOLEAN /\ closed' \in BOOLEAN
        BY <3>7 DEF TypeOK, ServerTypeOK, CloseBegins
      <4>2. kpc' \in [{Main, User} -> {"never", "idle", "listener", "copy", "shut", "mark", "pool",
                                      "join", "done"}]
        BY <3>7 DEF TypeOK, ServerTypeOK, CloseBegins, CloseGoto
      <4>3. QED
        BY <3>7, <4>1, <4>2 DEF TypeOK, ServerTypeOK, CloseBegins
    <3>8. QED
      BY <2>10, <3>1, <3>2, <3>3, <3>4, <3>5, <3>6, <3>7 DEF CloseStep
  <2>11. QED
    BY <2>1, <2>2, <2>3, <2>4, <2>5, <2>6, <2>7, <2>8, <2>9, <2>10 DEF ServerOwn, MainStep
<1>2. QED
  BY <1>1 DEF ServerOwn, TypeOK, poolVars, pollVars, workerVars


(* close() puts as many None in the queue as there are workers.            *)
LEMMA PillsNat ==
  ASSUME TypeOK
  PROVE  Pills \in Nat
BY PoolAssumption, FS_Subset, FS_CardinalityType DEF Pills

(* The steps of the pool keep the types.                                   *)
LEMMA PoolTypes ==
  ASSUME PoolInv, PoolOwn
  PROVE  TypeOK'
<1> USE DEF PoolInv, TypeOK, serverVars, pollVars, workerVars
<1>1. ASSUME NEW s \in Socks, SendRequest(s)
      PROVE  TypeOK'
  BY <1>1, PoolAssumption DEF ServerTypeOK, SendRequest
<1>2. ASSUME NEW s \in Socks, AcceptedWithFd(s)
      PROVE  TypeOK'
  <2>1. ServerTypeOK'
    BY <1>2 DEF ServerTypeOK, AcceptedWithFd, Accepted, AcceptLoop
  <2>2. fdOf' \in [Socks -> Fds \cup {0}]
    BY <1>2 DEF AcceptedWithFd, FreeFds
  <2>3. QED
    BY <1>2, <2>1, <2>2 DEF AcceptedWithFd
<1>3. CASE StartPool
  <2>1. ServerTypeOK'
    BY <1>3 DEF ServerTypeOK, StartPool, Starting
  <2>2. QED
    BY <1>3, <2>1 DEF StartPool
<1>4. CASE BuildFails
  <2>1. ServerTypeOK'
    BY <1>4 DEF ServerTypeOK, BuildFails, Dispatching
  <2>2. QED
    BY <1>4, <2>1 DEF BuildFails, poolVars
<1>5. CASE MapConnection
  <2>1. ServerTypeOK'
    BY <1>5 DEF ServerTypeOK, MapConnection, Dispatching
  <2>2. asock \in Socks
    BY <1>5 DEF AcceptOK, Pending, MapConnection, Dispatching
  <2>3. QED
    BY <1>5, <2>1, <2>2 DEF MapConnection
<1>6. CASE RegisterConnection
  <2>1. ServerTypeOK'
    BY <1>6 DEF ServerTypeOK, RegisterConnection, Dispatching
  <2>2. fdOf[asock] \in Fds
    BY <1>6 DEF AcceptOK, RegisterConnection, Dispatching
  <2>3. QED
    BY <1>6, <2>1, <2>2 DEF RegisterConnection
<1>7. CASE ClearClients
  <2>1. ServerTypeOK'
    BY <1>7 DEF ServerTypeOK, ClearClients, Dispatching
  <2>2. QED
    BY <1>7, <2>1 DEF ClearClients, poolVars
<1>8. CASE Poll
  <2>1. result' \subseteq Fds \X {"r", "h"}
    <3>1. PICK choice \in [polled -> {"r", "h", "-"}] :
            result' = {<<f, choice[f]>> : f \in {x \in polled : choice[x] # "-"}}
      BY <1>8 DEF Poll
    <3>2. QED
      BY <3>1
  <2>2. QED
    BY <1>8, <2>1 DEF ServerTypeOK, Poll
<1>9. CASE PollingEnds
  BY <1>9 DEF ServerTypeOK, PollingEnds
<1>10. ASSUME NEW f \in Fds, NEW evt \in {"r", "h"}, HandlePollResult(f, evt)
       PROVE  TypeOK'
  <2>1. sock' \in [Socks -> {"out", "waiting", "open", "eof", "shut"}]
    BY <1>10 DEF ServerTypeOK, HandlePollResult, CloseConn
  <2>2. ServerTypeOK'
    BY <1>10, <2>1 DEF ServerTypeOK, HandlePollResult
  <2>3. queue' \in Seq(Fds \cup {0}) /\ conns' \in [Fds -> Socks \cup {None}]
    <3>1. CASE evt = "h"
      BY <1>10, <3>1 DEF HandlePollResult
    <3>2. CASE evt # "h"
      <4>1. queue' = Append(queue, f) /\ conns' = conns
        BY <1>10, <3>2 DEF HandlePollResult
      <4>2. QED
        BY <4>1
    <3>3. QED
      BY <3>1, <3>2
  <2>4. QED
    BY <1>10, <2>2, <2>3 DEF HandlePollResult, Unregister
<1>11. ASSUME NEW k \in {Main, User}, ClosePool(k)
       PROVE  TypeOK'
  <2>1. ServerTypeOK'
    BY <1>11 DEF ServerTypeOK, ClosePool, CloseGoto
  <2>2. queue' \in Seq(Fds \cup {0})
    <3>1. [i \in 1..Pills |-> 0] \in Seq(Fds \cup {0})
      BY PillsNat
    <3>2. QED
      BY <1>11, <3>1 DEF ClosePool
  <2>3. QED
    BY <1>11, <2>1, <2>2 DEF ClosePool
<1>12. ASSUME NEW k \in {Main, User}, NoPollingThread(k) \/ JoinWorkers(k)
       PROVE  TypeOK'
  <2>1. CASE NoPollingThread(k)
    <3>1. ServerTypeOK'
      BY <2>1 DEF ServerTypeOK, NoPollingThread, CloseGoto
    <3>2. QED
      BY <2>1, <3>1 DEF NoPollingThread, poolVars
  <2>2. CASE JoinWorkers(k)
    <3>1. ServerTypeOK'
      BY <2>2 DEF ServerTypeOK, JoinWorkers, CloseGoto
    <3>2. QED
      BY <2>2, <3>1 DEF JoinWorkers, poolVars
  <2>3. QED
    BY <1>12, <2>1, <2>2
<1>13. ASSUME NEW w \in Workers, WorkerStep(w)
       PROVE  TypeOK'
  <2>1. CASE LoopTop(w)
    BY <2>1 DEF ServerTypeOK, LoopTop, WGoto
  <2>2. CASE GetFd(w)
    <3>1. queue' \in Seq(Fds \cup {0}) /\ Head(queue) \in Fds \cup {0}
      BY <2>2 DEF GetFd
    <3>2. wpc' \in [Workers -> {"new", "top", "get", "serve", "poll", "drop", "end", "absent"}]
      BY <2>2 DEF GetFd, WGoto
    <3>3. batch' \in [Workers -> 0..BatchSize]
      BY <2>2, PoolAssumption DEF GetFd, FullBatch
    <3>4. QED
      BY <2>2, <3>1, <3>2, <3>3 DEF ServerTypeOK, GetFd
  <2>3. ASSUME WLeave(w)
        PROVE  /\ wpc' \in [Workers -> {"new", "top", "get", "serve", "poll", "drop", "end", "absent"}]
               /\ wfd' \in [Workers -> Fds \cup {0}]
               /\ wconn' \in [Workers -> Socks \cup {None}]
               /\ batch' \in [Workers -> 0..BatchSize]
    BY <2>3, PoolAssumption DEF WLeave, WGoto
  <2>4. PutBack(w) \in Seq(Fds \cup {0})
    BY DEF PutBack
  <2>5. CASE BatchEnds(w)
    BY <2>3, <2>4, <2>5 DEF ServerTypeOK, BatchEnds
  <2>6. CASE StartPoll(w)
    BY <2>6 DEF ServerTypeOK, StartPoll, WorkerOK, WGoto
  <2>7. CASE PollServes(w)
    <3>1. requests' \in [Socks -> 0..MaxRequests]
      BY <2>7, PoolAssumption DEF PollServes, WorkerOK
    <3>2. CASE WLeave(w) /\ queue' = PutBack(w)
      BY <2>3, <2>4, <2>7, <3>1, <3>2 DEF ServerTypeOK, PollServes
    <3>3. CASE batch' = [batch EXCEPT ![w] = @ - 1] /\ wconn' = [wconn EXCEPT ![w] = None]
               /\ WGoto(w, "serve") /\ UNCHANGED <<queue, wfd>>
      <4>1. batch' \in [Workers -> 0..BatchSize]
        BY <2>7, <3>3, PoolAssumption DEF PollServes, WorkerOK
      <4>2. QED
        BY <2>7, <3>1, <3>3, <4>1 DEF ServerTypeOK, PollServes, WGoto
    <3>4. QED
      BY <2>7, <3>2, <3>3 DEF PollServes
  <2>8. CASE PollFindsNothing(w)
    BY <2>3, <2>8 DEF ServerTypeOK, PollFindsNothing, WorkerOK
  <2>9. CASE PollEOF(w)
    <3>1. sock' \in [Socks -> {"out", "waiting", "open", "eof", "shut"}]
      BY <2>9 DEF ServerTypeOK, PollEOF, CloseConn
    <3>2. QED
      BY <2>9, <3>1 DEF ServerTypeOK, PollEOF, WGoto
  <2>10. CASE DropConnection(w)
    <3>1. sock' \in [Socks -> {"out", "waiting", "open", "eof", "shut"}]
      BY <2>10 DEF ServerTypeOK, DropConnection, CloseConn
    <3>2. conns' \in [Fds -> Socks \cup {None}] /\ foreign' \in BOOLEAN
      BY <2>10 DEF DropConnection
    <3>3. QED
      BY <2>3, <2>10, <3>1, <3>2 DEF ServerTypeOK, DropConnection
  <2>11. QED
    BY <1>13, <2>1, <2>2, <2>5, <2>6, <2>7, <2>8, <2>9, <2>10 DEF WorkerStep
<1>14. QED
  BY <1>1, <1>2, <1>3, <1>4, <1>5, <1>6, <1>7, <1>8, <1>9, <1>10, <1>11, <1>12, <1>13
     DEF PoolOwn, MainPoolStep, PollStep


-----------------------------------------------------------------------------
(* What the server's own steps leave to the pool: a closed listener stays  *)
(* closed, and as long as it is not, no client of a pool is shut but one   *)
(* that is dropped as soon as it is accepted.                              *)
ServerFrame ==
  /\ kind' = kind
  /\ kind = "pool" => thread' = thread
  /\ listener = "closed" => listener' = "closed"
  /\ \A s \in Socks : Gone(s) => Gone(s)'
  /\ kind = "pool" => \A s \in Socks :
       Open(s) => Open(s)' \/ listener' = "closed" \/ (apc = "accepted" /\ s = asock /\ ~Pending')
  /\ Pending' => Pending /\ asock' = asock
  /\ apc = "register" <=> apc' = "register"
  /\ apc' \in {"register", "clear"} => apc' = apc /\ asock' = asock

(* Every one of the server's own steps leaves that.                        *)
LEMMA ServerFrames ==
  ASSUME PoolInv, ServerOwn
  PROVE  ServerFrame
<1> USE DEF PoolInv, TypeOK, ServerTypeOK, ServerFrame, Gone, Open, Pending
<1>1. ASSUME NEW s \in Socks, Connect(s) \/ Hangup(s) \/ ThreadStep(s)
      PROVE  ServerFrame
  <2>1. CASE Connect(s)
    BY <2>1 DEF Connect
  <2>2. CASE Hangup(s)
    BY <2>2 DEF Hangup
  <2>3. CASE Authenticate(s)
    BY <2>3 DEF Authenticate, KindOK
  <2>4. CASE ServeEnds(s)
    BY <2>4 DEF ServeEnds, KindOK
  <2>5. CASE ClientDone(s)
    BY <2>5 DEF ClientDone, KindOK
  <2>6. QED
    BY <1>1, <2>1, <2>2, <2>3, <2>4, <2>5 DEF ThreadStep
<1>2. CASE Listen
  BY <1>2 DEF Listen, Starting
<1>3. CASE Activate
  BY <1>3 DEF Activate, Starting
<1>4. CASE AcceptEnds
  BY <1>4 DEF AcceptEnds, AcceptLoop
<1>5. CASE Interrupt
  BY <1>5 DEF Interrupt, AcceptLoop
<1>6. CASE CheckActive
  BY <1>6 DEF CheckActive, AcceptOK
<1>7. CASE AddClient
  BY <1>7 DEF AddClient
<1>8. CASE Spawn
  BY <1>8 DEF Spawn, Dispatch
<1>9. CASE Fork
  BY <1>9 DEF Fork, Dispatch
<1>10. ASSUME NEW k \in {Main, User}, CloseStep(k) \/ CloseBegins(k)
      PROVE  ServerFrame
  <2>1. CASE CloseListener(k)
    BY <2>1 DEF CloseListener
  <2>2. CASE CopyClients(k)
    BY <2>2 DEF CopyClients
  <2>3. CASE ShutOne(k)
    BY <2>3 DEF ShutOne, CloseOK
  <2>4. CASE ClientsShut(k)
    BY <2>4 DEF ClientsShut
  <2>5. CASE MarkClosed(k)
    BY <2>5 DEF MarkClosed
  <2>6. CASE CloseReturns(k)
    BY <2>6 DEF CloseReturns, CloseOK
  <2>7. CASE CloseBegins(k)
    BY <2>7 DEF CloseBegins
  <2>8. QED
    BY <1>10, <2>1, <2>2, <2>3, <2>4, <2>5, <2>6, <2>7 DEF CloseStep
<1>11. QED
  BY <1>1, <1>2, <1>3, <1>4, <1>5, <1>6, <1>7, <1>8, <1>9, <1>10 DEF ServerOwn, MainStep


(* The server's own steps leave the order of close().                      *)
LEMMA ServerClose ==
  ASSUME PoolInv, ServerOwn
  PROVE  CloseOK'
<1> USE DEF PoolInv, TypeOK, ServerTypeOK, CloseOK, CloseGoto, Main, User
<1>1. ASSUME NEW s \in Socks, Connect(s) \/ Hangup(s) \/ ThreadStep(s)
      PROVE  CloseOK'
  <2>1. CASE Connect(s)
    BY <2>1 DEF Connect
  <2>2. CASE Hangup(s)
    BY <2>2 DEF Hangup
  <2>3. CASE Authenticate(s)
    BY <2>3 DEF Authenticate
  <2>4. CASE ServeEnds(s)
    BY <2>4 DEF ServeEnds
  <2>5. CASE ClientDone(s)
    BY <2>5 DEF ClientDone, KindOK
  <2>6. QED
    BY <1>1, <2>1, <2>2, <2>3, <2>4, <2>5 DEF ThreadStep
<1>2. CASE Listen
  BY <1>2 DEF Listen, Starting
<1>3. CASE Activate
  BY <1>3 DEF Activate, Starting
<1>4. CASE AcceptEnds
  BY <1>4 DEF AcceptEnds, AcceptLoop
<1>5. CASE Interrupt
  BY <1>5 DEF Interrupt, AcceptLoop
<1>6. CASE CheckActive
  BY <1>6 DEF CheckActive
<1>7. CASE AddClient
  BY <1>7 DEF AddClient
<1>8. CASE Spawn
  BY <1>8 DEF Spawn, Dispatch
<1>9. CASE Fork
  BY <1>9 DEF Fork, Dispatch
<1>10. ASSUME NEW k \in {Main, User}, CloseStep(k) \/ CloseBegins(k)
      PROVE  CloseOK'
  <2>1. CASE CloseListener(k)
    BY <2>1 DEF CloseListener
  <2>2. CASE CopyClients(k)
    BY <2>2 DEF CopyClients
  <2>3. CASE ShutOne(k)
    BY <2>3 DEF ShutOne
  <2>4. CASE ClientsShut(k)
    BY <2>4 DEF ClientsShut
  <2>5. CASE MarkClosed(k)
    BY <2>5 DEF MarkClosed
  <2>6. CASE CloseReturns(k)
    BY <2>6 DEF CloseReturns
  <2>7. CASE CloseBegins(k)
    BY <2>7 DEF CloseBegins
  <2>8. QED
    BY <1>10, <2>1, <2>2, <2>3, <2>4, <2>5, <2>6, <2>7 DEF CloseStep
<1>11. QED
  BY <1>1, <1>2, <1>3, <1>4, <1>5, <1>6, <1>7, <1>8, <1>9, <1>10 DEF ServerOwn, MainStep

(* A step that does not move f.                                            *)
LEMMA Elsewhere ==
  ASSUME NEW f \in Fds, InPlace(f), conns'[f] = conns[f],
         f \in polled' <=> f \in polled, Queued(f)' = Queued(f), Held(f)' = Held(f),
         Registering(f)' <=> Registering(f)
  PROVE  InPlace(f)'
BY DEF InPlace, Nowhere, Alone

(* They leave connections where they are, and nothing they shut is in use  *)
(* in a pool whose listener is open.                                       *)
LEMMA ServerParts ==
  ASSUME PoolInv, ServerOwn
  PROVE  KindOK' /\ AcceptOK' /\ WorkerOK' /\ ResultOK' /\ (~foreign' => Settled')
<1>1. ServerFrame /\ UNCHANGED <<fdOf, conns, polled, queue, result, wpc, wfd, wconn, batch, foreign>>
  BY ServerFrames DEF ServerOwn, poolVars, pollVars, workerVars
<1> USE DEF PoolInv, TypeOK, ServerTypeOK
<1>2. KindOK'
  BY <1>1 DEF ServerFrame, KindOK
<1>3. AcceptOK'
  <2>1. \A f \in Fds : conns[f] # None => fdOf[conns[f]] = f /\ Gone(conns[f])'
    BY <1>1 DEF AcceptOK, ServerFrame
  <2>2. \A w \in Workers : wconn[w] # None => Gone(wconn[w])'
    BY <1>1 DEF AcceptOK, ServerFrame
  <2>3. Pending' /\ kind = "pool" => Open(asock)' \/ listener' = "closed"
    BY <1>1 DEF AcceptOK, ServerFrame, Open
  <2>4. Pending' \/ apc' \in {"register", "clear"} =>
          asock' = asock /\ asock \in Socks /\ fdOf[asock] \in Fds /\ Gone(asock)'
    BY <1>1 DEF AcceptOK, ServerFrame, Gone
  <2>5. QED
    BY <1>1, <2>1, <2>2, <2>3, <2>4 DEF AcceptOK, ServerFrame, Gone
<1>4. WorkerOK' /\ ResultOK'
  BY <1>1 DEF WorkerOK, ResultOK
<1>5. ASSUME ~foreign'
      PROVE  Settled'
  <2>1. Settled
    BY <1>1, <1>5
  <2>2. ASSUME NEW f \in Fds
        PROVE  InPlace(f)'
    <3>1. Registering(f)' <=> Registering(f)
      BY <1>1 DEF ServerFrame, Registering
    <3>2. Queued(f)' = Queued(f) /\ Held(f)' = Held(f)
      BY <1>1 DEF Queued, Held, Handles
    <3>3. QED
      BY <1>1, <2>1, <3>1, <3>2, Elsewhere DEF Settled
  <2>3. ASSUME NEW f \in Fds
        PROVE  InUse(f)'
    <3>1. Dropping(f)' <=> Dropping(f)
      BY <1>1 DEF Dropping
    <3>2. QED
      BY <1>1, <2>1, <3>1 DEF Settled, InUse, ServerFrame, KindOK, AcceptOK, Pending, Open
  <2>4. Pending' /\ conns[fdOf[asock]] # None => Dropping(fdOf[asock])'
    BY <1>1, <2>1 DEF Settled, ServerFrame, Dropping
  <2>5. QED
    BY <1>1, <2>1, <2>2, <2>3, <2>4 DEF Settled, ServerFrame, Dropping
<1>6. QED
  BY <1>2, <1>3, <1>4, <1>5


-----------------------------------------------------------------------------
(* What the pool's steps leave.                                            *)
LEMMA PoolKind ==
  ASSUME PoolInv, PoolOwn
  PROVE  KindOK' /\ CloseOK'
<1> USE DEF PoolInv, TypeOK, ServerTypeOK, poolVars, serverVars, pollVars, workerVars, KindOK, CloseOK, Main, User
<1>1. ASSUME NEW s \in Socks, SendRequest(s) \/ AcceptedWithFd(s)
        PROVE  KindOK' /\ CloseOK'
  <2>1. CASE SendRequest(s)
    BY <2>1 DEF SendRequest
  <2>2. CASE AcceptedWithFd(s)
    BY <2>2 DEF AcceptedWithFd, Accepted, AcceptLoop
  <2>3. QED
    BY <1>1, <2>1, <2>2
<1>2. CASE StartPool
  BY <1>2 DEF StartPool, Starting
<1>3. CASE BuildFails
  BY <1>3 DEF BuildFails, Dispatching
<1>4. CASE MapConnection
  BY <1>4 DEF MapConnection, Dispatching
<1>5. CASE RegisterConnection
  BY <1>5 DEF RegisterConnection, Dispatching
<1>6. CASE ClearClients
  BY <1>6 DEF ClearClients, Dispatching
<1>7. CASE Poll
  BY <1>7 DEF Poll
<1>8. CASE PollingEnds
  BY <1>8 DEF PollingEnds
<1>9. ASSUME NEW f \in Fds, NEW evt \in {"r", "h"}, HandlePollResult(f, evt)
        PROVE  KindOK' /\ CloseOK'
  BY <1>9 DEF HandlePollResult, CloseConn, Unregister
<1>10. ASSUME NEW k \in {Main, User}, ClosePool(k) \/ NoPollingThread(k) \/ JoinWorkers(k)
         PROVE  KindOK' /\ CloseOK'
  <2>1. CASE ClosePool(k)
    BY <2>1 DEF ClosePool, CloseGoto
  <2>2. CASE NoPollingThread(k)
    BY <2>2 DEF NoPollingThread, CloseGoto
  <2>3. CASE JoinWorkers(k)
    BY <2>3 DEF JoinWorkers, CloseGoto
  <2>4. QED
    BY <1>10, <2>1, <2>2, <2>3
<1>11. ASSUME NEW w \in Workers, WorkerStep(w)
         PROVE  KindOK' /\ CloseOK'
  <2>1. CASE LoopTop(w)
    BY <2>1 DEF LoopTop, WGoto
  <2>2. CASE GetFd(w)
    BY <2>2 DEF GetFd, WGoto
  <2>3. CASE BatchEnds(w)
    BY <2>3 DEF BatchEnds, WLeave, WGoto
  <2>4. CASE StartPoll(w)
    BY <2>4 DEF StartPoll, WGoto
  <2>5. CASE PollServes(w)
    BY <2>5 DEF PollServes, WLeave, WGoto
  <2>6. CASE PollFindsNothing(w)
    BY <2>6 DEF PollFindsNothing, WLeave, WGoto
  <2>7. CASE PollEOF(w)
    BY <2>7 DEF PollEOF, CloseConn, WGoto
  <2>8. CASE DropConnection(w)
    BY <2>8 DEF DropConnection, CloseConn, WLeave, WGoto
  <2>9. QED
    BY <1>11, <2>1, <2>2, <2>3, <2>4, <2>5, <2>6, <2>7, <2>8 DEF WorkerStep
<1>12. QED
  BY <1>1, <1>2, <1>3, <1>4, <1>5, <1>6, <1>7, <1>8, <1>9, <1>10, <1>11 DEF PoolOwn, MainPoolStep, PollStep

(* A worker has its fd, its connection and its batch where it needs them.  *)
LEMMA PoolWorkers ==
  ASSUME PoolInv, PoolOwn
  PROVE  WorkerOK'
<1> USE DEF PoolInv, TypeOK, ServerTypeOK, poolVars, serverVars, pollVars, workerVars, WorkerOK
<1>1. ASSUME NEW s \in Socks, SendRequest(s) \/ AcceptedWithFd(s)
        PROVE  WorkerOK'
  <2>1. CASE SendRequest(s)
    BY <2>1 DEF SendRequest
  <2>2. CASE AcceptedWithFd(s)
    BY <2>2 DEF AcceptedWithFd, Accepted, AcceptLoop
  <2>3. QED
    BY <1>1, <2>1, <2>2
<1>2. CASE StartPool
  BY <1>2 DEF StartPool, Starting
<1>3. CASE BuildFails
  BY <1>3 DEF BuildFails, Dispatching
<1>4. CASE MapConnection
  BY <1>4 DEF MapConnection, Dispatching
<1>5. CASE RegisterConnection
  BY <1>5 DEF RegisterConnection, Dispatching
<1>6. CASE ClearClients
  BY <1>6 DEF ClearClients, Dispatching
<1>7. CASE Poll
  BY <1>7 DEF Poll
<1>8. CASE PollingEnds
  BY <1>8 DEF PollingEnds
<1>9. ASSUME NEW f \in Fds, NEW evt \in {"r", "h"}, HandlePollResult(f, evt)
        PROVE  WorkerOK'
  BY <1>9 DEF HandlePollResult, CloseConn, Unregister
<1>10. ASSUME NEW k \in {Main, User}, ClosePool(k) \/ NoPollingThread(k) \/ JoinWorkers(k)
         PROVE  WorkerOK'
  <2>1. CASE ClosePool(k)
    BY <2>1 DEF ClosePool, CloseGoto
  <2>2. CASE NoPollingThread(k)
    BY <2>2 DEF NoPollingThread, CloseGoto
  <2>3. CASE JoinWorkers(k)
    BY <2>3 DEF JoinWorkers, CloseGoto
  <2>4. QED
    BY <1>10, <2>1, <2>2, <2>3
<1>11. ASSUME NEW w \in Workers, WorkerStep(w)
         PROVE  WorkerOK'
  <2>1. CASE LoopTop(w)
    BY <2>1 DEF LoopTop, WGoto
  <2>2. CASE GetFd(w)
    <3>1. Head(queue) \in Fds \cup {0}
      BY <2>2 DEF GetFd
    <3>2. QED
      BY <2>2, <3>1 DEF GetFd, WGoto
  <2>3. CASE BatchEnds(w)
    BY <2>3 DEF BatchEnds, WLeave, WGoto
  <2>4. CASE StartPoll(w)
    BY <2>4, PoolAssumption DEF StartPoll, WGoto
  <2>5. CASE PollServes(w)
    <3>1. wpc' = [wpc EXCEPT ![w] = "serve"] \/ wpc' = [wpc EXCEPT ![w] = "top"]
      BY <2>5 DEF PollServes, WLeave, WGoto
    <3>2. \A v \in Workers \ {w} : wpc'[v] = wpc[v] /\ wfd'[v] = wfd[v] /\ wconn'[v] = wconn[v] /\ batch'[v] = batch[v]
      BY <2>5 DEF PollServes, WLeave, WGoto
    <3>3. wpc'[w] = "serve" => wfd'[w] = wfd[w]
      BY <2>5 DEF PollServes, WLeave, WGoto
    <3>4. wpc[w] = "poll" /\ (wpc'[w] = "serve" \/ wpc'[w] = "top")
      BY <2>5, <3>1 DEF PollServes
    <3>5. WorkerOK
      OBVIOUS
    <3> HIDE DEF PoolInv, TypeOK, ServerTypeOK
    <3>6. QED
      BY <3>2, <3>3, <3>4, <3>5
  <2>6. CASE PollFindsNothing(w)
    BY <2>6 DEF PollFindsNothing, WLeave, WGoto
  <2>7. CASE PollEOF(w)
    BY <2>7 DEF PollEOF, CloseConn, WGoto
  <2>8. CASE DropConnection(w)
    BY <2>8 DEF DropConnection, CloseConn, WLeave, WGoto
  <2>9. QED
    BY <1>11, <2>1, <2>2, <2>3, <2>4, <2>5, <2>6, <2>7, <2>8 DEF WorkerStep
<1>12. QED
  BY <1>1, <1>2, <1>3, <1>4, <1>5, <1>6, <1>7, <1>8, <1>9, <1>10, <1>11 DEF PoolOwn, MainPoolStep, PollStep

(* What poll() has returned stays registered until it is handled.          *)
LEMMA PoolResult ==
  ASSUME PoolInv, PoolOwn
  PROVE  ResultOK'
<1> USE DEF PoolInv, TypeOK, ServerTypeOK, poolVars, serverVars, pollVars, workerVars, ResultOK
<1>1. ASSUME NEW s \in Socks, SendRequest(s) \/ AcceptedWithFd(s)
        PROVE  ResultOK'
  <2>1. CASE SendRequest(s)
    BY <2>1 DEF SendRequest
  <2>2. CASE AcceptedWithFd(s)
    BY <2>2 DEF AcceptedWithFd, Accepted, AcceptLoop
  <2>3. QED
    BY <1>1, <2>1, <2>2
<1>2. CASE StartPool
  BY <1>2 DEF StartPool, Starting
<1>3. CASE BuildFails
  BY <1>3 DEF BuildFails, Dispatching
<1>4. CASE MapConnection
  BY <1>4 DEF MapConnection, Dispatching
<1>5. CASE RegisterConnection
  BY <1>5 DEF RegisterConnection, Dispatching
<1>6. CASE ClearClients
  BY <1>6 DEF ClearClients, Dispatching
<1>7. CASE Poll
  <2>1. PICK choice \in [polled -> {"r", "h", "-"}] :
         result' = {<<f, choice[f]>> : f \in {x \in polled : choice[x] # "-"}}
    BY <1>7 DEF Poll
  <2>2. polled' = polled
    BY <1>7 DEF Poll
  <2>3. \A r \in result' : r[1] \in polled /\ r = <<r[1], choice[r[1]]>>
    BY <2>1
  <2>4. ASSUME NEW q \in result', NEW r \in result', q[1] = r[1]
        PROVE  q = r
    <3>1. q = <<q[1], choice[q[1]]>> /\ r = <<r[1], choice[r[1]]>>
      BY <2>3
    <3> HIDE DEF PoolInv, TypeOK
    <3>2. QED
      BY <2>4, <3>1
  <2>5. QED
    BY <2>2, <2>3, <2>4
<1>8. CASE PollingEnds
  BY <1>8 DEF PollingEnds
<1>9. ASSUME NEW f \in Fds, NEW evt \in {"r", "h"}, HandlePollResult(f, evt)
        PROVE  ResultOK'
  <2>1. result' = result \ {<<f, evt>>} /\ polled' = polled \ {f} /\ <<f, evt>> \in result
    BY <1>9 DEF HandlePollResult, Unregister
  <2>2. \A r \in result : r[1] = f => r = <<f, evt>>
    BY <2>1
  <2>3. QED
    BY <2>1, <2>2
<1>10. ASSUME NEW k \in {Main, User}, ClosePool(k) \/ NoPollingThread(k) \/ JoinWorkers(k)
         PROVE  ResultOK'
  <2>1. CASE ClosePool(k)
    BY <2>1 DEF ClosePool, CloseGoto
  <2>2. CASE NoPollingThread(k)
    BY <2>2 DEF NoPollingThread, CloseGoto
  <2>3. CASE JoinWorkers(k)
    BY <2>3 DEF JoinWorkers, CloseGoto
  <2>4. QED
    BY <1>10, <2>1, <2>2, <2>3
<1>11. ASSUME NEW w \in Workers, WorkerStep(w)
         PROVE  ResultOK'
  <2>1. CASE LoopTop(w)
    BY <2>1 DEF LoopTop, WGoto
  <2>2. CASE GetFd(w)
    BY <2>2 DEF GetFd, WGoto
  <2>3. CASE BatchEnds(w)
    BY <2>3 DEF BatchEnds, WLeave, WGoto
  <2>4. CASE StartPoll(w)
    BY <2>4 DEF StartPoll, WGoto
  <2>5. CASE PollServes(w)
    BY <2>5 DEF PollServes, WLeave, WGoto
  <2>6. CASE PollFindsNothing(w)
    BY <2>6 DEF PollFindsNothing, WLeave, WGoto
  <2>7. CASE PollEOF(w)
    BY <2>7 DEF PollEOF, CloseConn, WGoto
  <2>8. CASE DropConnection(w)
    BY <2>8 DEF DropConnection, CloseConn, WLeave, WGoto
  <2>9. QED
    BY <1>11, <2>1, <2>2, <2>3, <2>4, <2>5, <2>6, <2>7, <2>8 DEF WorkerStep
<1>12. QED
  BY <1>1, <1>2, <1>3, <1>4, <1>5, <1>6, <1>7, <1>8, <1>9, <1>10, <1>11 DEF PoolOwn, MainPoolStep, PollStep


(* A connection that is mapped or served was accepted and keeps its fd;    *)
(* one being accepted is neither.                                          *)
LEMMA PoolAccept ==
  ASSUME PoolInv, PoolOwn
  PROVE  AcceptOK'
<1> USE DEF PoolInv, TypeOK, ServerTypeOK, poolVars, serverVars, pollVars, workerVars
(* A step that takes connections from the maps, and shuts no other.        *)
<1>20. ASSUME UNCHANGED <<kind, listener, apc, asock, fdOf>>,
             \A f \in Fds : conns'[f] \in {None, conns[f]},
             \A v \in Workers : \/ wconn'[v] \in {None, wconn[v]}
                                \/ \E f \in Fds : wconn'[v] = conns[f],
             \A s \in Socks : \/ sock'[s] = sock[s]
                              \/ /\ sock'[s] = "shut"
                                 /\ \/ \E f \in Fds : conns[f] = s
                                    \/ \E v \in Workers : wconn[v] = s
      PROVE  AcceptOK'
  <2>1. \A s \in Socks : Gone(s) => Gone(s)'
    BY <1>20 DEF Gone
  <2>6. /\ \A f \in Fds : conns[f] # None => conns[f] \in Socks /\ fdOf[conns[f]] = f /\ Gone(conns[f])
        /\ \A v \in Workers : wconn[v] # None => wconn[v] \in Socks /\ Gone(wconn[v])
    BY DEF AcceptOK
  <2>7. Pending => /\ asock \in Socks
                   /\ \A f \in Fds : conns[f] # asock
                   /\ \A v \in Workers : wconn[v] # asock
                   /\ kind = "pool" => Open(asock) \/ listener = "closed"
    BY DEF AcceptOK
  <2> HIDE DEF PoolInv, TypeOK, ServerTypeOK
  <2>2. \A f \in Fds : conns'[f] # None => fdOf[conns'[f]] = f /\ Gone(conns[f])'
    <3>1. \A f \in Fds : conns'[f] # None => conns'[f] = conns[f] /\ conns[f] \in Socks
      BY <1>20, <2>6
    <3>2. QED
      BY <2>1, <2>6, <3>1 DEF Gone
  <2>3. \A v \in Workers : wconn'[v] # None => Gone(wconn[v])'
    <3>1. ASSUME NEW v \in Workers, wconn'[v] # None
          PROVE  wconn'[v] \in Socks /\ Gone(wconn'[v])
      BY <1>20, <2>6, <3>1
    <3>2. QED
      BY <2>1, <3>1 DEF Gone
  <2>4. Pending => /\ \A f \in Fds : conns'[f] # asock
                   /\ \A v \in Workers : wconn'[v] # asock
                   /\ kind = "pool" => Open(asock)' \/ listener = "closed"
    <3>1. Pending => /\ \A f \in Fds : conns'[f] # asock
                     /\ \A v \in Workers : wconn'[v] # asock
      BY <1>20, <2>7, PoolAssumption
    <3>2. Pending => sock'[asock] = sock[asock]
      BY <1>20, <2>7
    <3>3. QED
      BY <1>20, <2>7, <3>1, <3>2 DEF Open
  <2>8. AcceptOK
    BY DEF PoolInv
  <2>5. QED
    BY <1>20, <2>1, <2>2, <2>3, <2>4, <2>8 DEF AcceptOK, Pending, Gone, Open
<1>1. ASSUME NEW s \in Socks, SendRequest(s) \/ AcceptedWithFd(s)
        PROVE  AcceptOK'
  <2>1. CASE SendRequest(s)
    BY <2>1 DEF SendRequest, AcceptOK, Pending, Gone, Open
  <2>2. CASE AcceptedWithFd(s)
    <3>1. ~Gone(s) /\ asock' = s /\ sock' = [sock EXCEPT ![s] = "open"] /\ apc' = "accepted"
      BY <2>2 DEF AcceptedWithFd, Accepted, AcceptLoop, Gone
    <3>2. PICK n \in Fds : fdOf' = [fdOf EXCEPT ![s] = n]
      BY <2>2 DEF AcceptedWithFd, FreeFds
    <3>3. /\ \A f \in Fds : conns[f] # s
         /\ \A w \in Workers : wconn[w] # s
      BY <3>1, PoolAssumption DEF AcceptOK
    <3>4. UNCHANGED <<conns, wconn, kind, listener>>
      BY <2>2 DEF AcceptedWithFd, Accepted, AcceptLoop
    <3>5. QED
      BY <3>1, <3>2, <3>3, <3>4 DEF AcceptOK, Pending, Gone, Open
  <2>3. QED
    BY <1>1, <2>1, <2>2
<1>2. CASE StartPool
  BY <1>2 DEF StartPool, Starting, AcceptOK, Pending, Gone, Open
<1>3. CASE BuildFails
  BY <1>3 DEF BuildFails, Dispatching, AcceptOK, Pending, Gone, Open
<1>4. CASE MapConnection
  BY <1>4 DEF MapConnection, Dispatching, AcceptOK, Pending, Gone, Open
<1>5. CASE RegisterConnection
  BY <1>5 DEF RegisterConnection, Dispatching, AcceptOK, Pending, Gone, Open
<1>6. CASE ClearClients
  BY <1>6 DEF ClearClients, Dispatching, AcceptOK, Pending, Gone, Open
<1>7. CASE Poll
  BY <1>7 DEF Poll, AcceptOK, Pending, Gone, Open
<1>8. CASE PollingEnds
  BY <1>8 DEF PollingEnds, AcceptOK, Pending, Gone, Open
<1>9. ASSUME NEW f \in Fds, NEW evt \in {"r", "h"}, HandlePollResult(f, evt)
        PROVE  AcceptOK'
  BY <1>9, <1>20, PoolAssumption DEF HandlePollResult, CloseConn, Unregister, WorkerOK
<1>10. ASSUME NEW k \in {Main, User}, ClosePool(k) \/ NoPollingThread(k) \/ JoinWorkers(k)
         PROVE  AcceptOK'
  <2>1. CASE ClosePool(k)
    BY <2>1 DEF ClosePool, CloseGoto, AcceptOK, Pending, Gone, Open
  <2>2. CASE NoPollingThread(k)
    BY <2>2 DEF NoPollingThread, CloseGoto, AcceptOK, Pending, Gone, Open
  <2>3. CASE JoinWorkers(k)
    BY <2>3 DEF JoinWorkers, CloseGoto, AcceptOK, Pending, Gone, Open
  <2>4. QED
    BY <1>10, <2>1, <2>2, <2>3
<1>11. ASSUME NEW w \in Workers, WorkerStep(w)
         PROVE  AcceptOK'
  <2>1. CASE LoopTop(w)
    BY <2>1, <1>20, PoolAssumption DEF LoopTop, WGoto, WorkerOK
  <2>2. CASE GetFd(w)
    BY <2>2, <1>20, PoolAssumption DEF GetFd, WGoto, WorkerOK
  <2>3. CASE BatchEnds(w)
    BY <2>3, <1>20, PoolAssumption DEF BatchEnds, WLeave, WGoto, WorkerOK
  <2>4. CASE StartPoll(w)
    BY <2>4, <1>20, PoolAssumption DEF StartPoll, WGoto, WorkerOK
  <2>5. CASE PollServes(w)
    <3>1. \A v \in Workers : wconn'[v] \in {None, wconn[v]}
      BY <2>5 DEF PollServes, WLeave, WGoto
    <3>2. UNCHANGED <<kind, listener, apc, asock, fdOf, conns, sock>>
      BY <2>5 DEF PollServes, WLeave, WGoto
    <3>3. QED
      BY <1>20, <3>1, <3>2
  <2>6. CASE PollFindsNothing(w)
    BY <2>6, <1>20, PoolAssumption DEF PollFindsNothing, WLeave, WGoto, WorkerOK
  <2>7. CASE PollEOF(w)
    BY <2>7, <1>20, PoolAssumption DEF PollEOF, CloseConn, WGoto, WorkerOK
  <2>8. CASE DropConnection(w)
    BY <2>8, <1>20, PoolAssumption DEF DropConnection, CloseConn, WLeave, WGoto, WorkerOK
  <2>9. QED
    BY <1>11, <2>1, <2>2, <2>3, <2>4, <2>5, <2>6, <2>7, <2>8 DEF WorkerStep
<1>12. QED
  BY <1>1, <1>2, <1>3, <1>4, <1>5, <1>6, <1>7, <1>8, <1>9, <1>10, <1>11 DEF PoolOwn, MainPoolStep, PollStep


-----------------------------------------------------------------------------
(* A connection moves from one place to the next.                          *)
LEMMA OnlyDropsAreForeign ==
  ASSUME PoolInv, PoolOwn
  PROVE  foreign => foreign'
<1> USE DEF poolVars, workerVars
<1>1. ASSUME NEW s \in Socks, SendRequest(s) \/ AcceptedWithFd(s)
        PROVE  foreign => foreign'
  <2>1. CASE SendRequest(s)
    BY <2>1 DEF SendRequest
  <2>2. CASE AcceptedWithFd(s)
    BY <2>2 DEF AcceptedWithFd
  <2>3. QED
    BY <1>1, <2>1, <2>2
<1>2. CASE StartPool
  BY <1>2 DEF StartPool
<1>3. CASE BuildFails
  BY <1>3 DEF BuildFails
<1>4. CASE MapConnection
  BY <1>4 DEF MapConnection
<1>5. CASE RegisterConnection
  BY <1>5 DEF RegisterConnection
<1>6. CASE ClearClients
  BY <1>6 DEF ClearClients
<1>7. CASE Poll
  BY <1>7 DEF Poll
<1>8. CASE PollingEnds
  BY <1>8 DEF PollingEnds
<1>9. ASSUME NEW f \in Fds, NEW evt \in {"r", "h"}, HandlePollResult(f, evt)
        PROVE  foreign => foreign'
  BY <1>9 DEF HandlePollResult
<1>10. ASSUME NEW k \in {Main, User}, ClosePool(k) \/ NoPollingThread(k) \/ JoinWorkers(k)
         PROVE  foreign => foreign'
  <2>1. CASE ClosePool(k)
    BY <2>1 DEF ClosePool
  <2>2. CASE NoPollingThread(k)
    BY <2>2 DEF NoPollingThread
  <2>3. CASE JoinWorkers(k)
    BY <2>3 DEF JoinWorkers
  <2>4. QED
    BY <1>10, <2>1, <2>2, <2>3
<1>11. ASSUME NEW w \in Workers, WorkerStep(w)
         PROVE  foreign => foreign'
  <2>1. CASE LoopTop(w)
    BY <2>1 DEF LoopTop
  <2>2. CASE GetFd(w)
    BY <2>2 DEF GetFd
  <2>3. CASE BatchEnds(w)
    BY <2>3 DEF BatchEnds
  <2>4. CASE StartPoll(w)
    BY <2>4 DEF StartPoll
  <2>5. CASE PollServes(w)
    BY <2>5 DEF PollServes
  <2>6. CASE PollFindsNothing(w)
    BY <2>6 DEF PollFindsNothing
  <2>7. CASE PollEOF(w)
    BY <2>7 DEF PollEOF
  <2>8. CASE DropConnection(w)
    BY <2>8 DEF DropConnection
  <2>9. QED
    BY <1>11, <2>1, <2>2, <2>3, <2>4, <2>5, <2>6, <2>7, <2>8 DEF WorkerStep
<1>12. QED
  BY <1>1, <1>2, <1>3, <1>4, <1>5, <1>6, <1>7, <1>8, <1>9, <1>10, <1>11 DEF PoolOwn, MainPoolStep, PollStep

(* Where f is settled.                                                     *)
LEMMA Where ==
  ASSUME NEW f \in Fds, InPlace(f)
  PROVE  /\ f \in polled =>
              conns[f] # None /\ Queued(f) = {} /\ Held(f) = {} /\ ~Registering(f)
         /\ \A i \in Queued(f) :
              conns[f] # None /\ f \notin polled /\ Queued(f) = {i} /\ Held(f) = {} /\ ~Registering(f)
         /\ \A w \in Held(f) :
              conns[f] # None /\ f \notin polled /\ Queued(f) = {} /\ Held(f) = {w} /\ ~Registering(f)
         /\ Registering(f) =>
              conns[f] # None /\ f \notin polled /\ Queued(f) = {} /\ Held(f) = {}
BY DEF InPlace, Nowhere, Alone

(* A fd is put at the end of the queue, and taken from its front.          *)
LEMMA Appended ==
  ASSUME TypeOK, NEW g \in Fds, queue' = Append(queue, g)
  PROVE  /\ \A f \in Fds \ {g} : Queued(f)' = Queued(f)
         /\ Queued(g) = {} => Queued(g)' = {Len(queue) + 1}
<1>1. /\ Len(queue) \in Nat /\ DOMAIN queue = 1..Len(queue) /\ DOMAIN queue' = 1..(Len(queue) + 1)
      /\ \A i \in 1..Len(queue) : queue'[i] = queue[i]
      /\ queue'[Len(queue) + 1] = g
  BY DEF TypeOK
<1>2. QED
  BY <1>1 DEF Queued

(* Of the fd in front of the queue nothing is left, the rest moves up.     *)
LEMMA TakenFromFront ==
  ASSUME TypeOK, queue # <<>>, queue' = Tail(queue)
  PROVE  /\ \A f \in Fds : Queued(f)' = {i - 1 : i \in Queued(f) \ {1}}
         /\ 1 \in Queued(Head(queue))
         /\ \A f \in Fds : f # Head(queue) => 1 \notin Queued(f)
<1>1. /\ Len(queue) \in Nat \ {0} /\ DOMAIN queue = 1..Len(queue) /\ DOMAIN queue' = 1..(Len(queue) - 1)
      /\ \A i \in 1..(Len(queue) - 1) : queue'[i] = queue[i + 1]
      /\ queue[1] = Head(queue)
  BY DEF TypeOK
<1>2. ASSUME NEW f \in Fds
      PROVE  Queued(f)' = {i - 1 : i \in Queued(f) \ {1}}
  <2>1. \A j \in Queued(f)' : j + 1 \in Queued(f) \ {1} /\ j = (j + 1) - 1
    BY <1>1 DEF Queued
  <2>2. \A i \in Queued(f) \ {1} : i - 1 \in Queued(f)'
    BY <1>1 DEF Queued
  <2>3. QED
    BY <2>1, <2>2
<1>3. QED
  BY <1>1, <1>2 DEF Queued

(* A worker hands on its fd.                                               *)
LEMMA WorkerLeaves ==
  ASSUME PoolInv, Settled, UNCHANGED conns, NEW w \in Workers, NEW g \in Fds,
         WLeave(w), wpc[w] \in {"serve", "poll"}, wfd[w] = g
  PROVE  /\ w \in Held(g) /\ Held(g)' = {}
         /\ \A f \in Fds \ {g} : Held(f)' = Held(f)
<1>1. /\ wpc'[w] = "top" /\ wfd'[w] = 0
      /\ \A v \in Workers \ {w} : wpc'[v] = wpc[v] /\ wfd'[v] = wfd[v] /\ wconn'[v] = wconn[v]
  BY DEF PoolInv, TypeOK, WLeave, WGoto
<1>2. w \in Held(g)
  BY DEF Held, Handles
<1>3. Held(g) = {w}
  BY <1>2, Where DEF Settled
<1>4. \A f \in Fds : Held(f)' = Held(f) \ {w}
  BY <1>1, PoolAssumption DEF Held, Handles
<1>5. ASSUME NEW f \in Fds \ {g}
      PROVE  Held(f)' = Held(f)
  <2>1. Held(f)' = Held(f) \ {w} /\ w \notin Held(f)
    BY <1>4 DEF Held, Handles
  <2>2. QED
    BY <2>1
<1>6. QED
  BY <1>2, <1>3, <1>4, <1>5

(* The None of close() moves no connection.                                *)
LEMMA PillsQueued ==
  ASSUME TypeOK, queue' = queue \o [i \in 1..Pills |-> 0]
  PROVE  \A f \in Fds : Queued(f)' = Queued(f)
<1>1. Len(queue) \in Nat /\ Pills \in Nat
  BY PillsNat DEF TypeOK
<1>2. /\ DOMAIN queue = 1..Len(queue) /\ DOMAIN queue' = 1..(Len(queue) + Pills)
      /\ \A i \in 1..Len(queue) : queue'[i] = queue[i]
      /\ \A i \in (Len(queue) + 1)..(Len(queue) + Pills) : queue'[i] = 0
  <2>1. [i \in 1..Pills |-> 0] \in Seq({0}) /\ Len([i \in 1..Pills |-> 0]) = Pills
    BY <1>1
  <2>2. QED
    BY <1>1, <2>1 DEF TypeOK
<1>3. 0 \notin Fds
  BY PoolAssumption
<1>4. QED
  BY <1>1, <1>2, <1>3 DEF Queued

(* Every step of the pool takes a connection from one place to the next.   *)
LEMMA PoolPlaces ==
  ASSUME PoolInv, Settled, ~foreign', PoolOwn
  PROVE  \A f \in Fds : InPlace(f)'
<1> USE DEF poolVars, serverVars, pollVars, workerVars
<1>30. \A f \in Fds : InPlace(f)
  BY DEF Settled
<1>31. TypeOK /\ ServerTypeOK /\ AcceptOK /\ WorkerOK /\ ResultOK
  BY DEF PoolInv, TypeOK
<1>1. ASSUME NEW s \in Socks, SendRequest(s) \/ AcceptedWithFd(s)
        PROVE  \A f \in Fds : InPlace(f)'
  <2>1. CASE SendRequest(s)
    <3>1. ASSUME NEW f \in Fds
          PROVE  InPlace(f)'
      <4>1. f \in polled' <=> f \in polled
        BY <2>1 DEF SendRequest
      <4>2. Queued(f)' = Queued(f)
        BY <2>1, <1>31 DEF SendRequest, Queued
      <4>3. Held(f)' = Held(f) /\ conns' = conns
        BY <2>1, <1>31 DEF SendRequest, Held, Handles, TypeOK, WorkerOK
      <4>4. Registering(f)' <=> Registering(f)
        BY <2>1, <1>31 DEF SendRequest, Registering, AcceptOK
      <4>5. QED
        BY <1>30, <4>1, <4>2, <4>3, <4>4, Elsewhere
    <3>2. QED
      BY <3>1
  <2>2. CASE AcceptedWithFd(s)
    <3>1. ASSUME NEW f \in Fds
          PROVE  InPlace(f)'
      <4>1. f \in polled' <=> f \in polled
        BY <2>2 DEF AcceptedWithFd, Accepted, AcceptLoop
      <4>2. Queued(f)' = Queued(f)
        BY <2>2, <1>31 DEF AcceptedWithFd, Accepted, AcceptLoop, Queued
      <4>3. Held(f)' = Held(f) /\ conns' = conns
        BY <2>2, <1>31 DEF AcceptedWithFd, Accepted, AcceptLoop, Held, Handles, TypeOK, WorkerOK
      <4>4. Registering(f)' <=> Registering(f)
        BY <2>2, <1>31 DEF AcceptedWithFd, Accepted, AcceptLoop, Registering, AcceptOK
      <4>5. QED
        BY <1>30, <4>1, <4>2, <4>3, <4>4, Elsewhere
    <3>2. QED
      BY <3>1
  <2>3. QED
    BY <1>1, <2>1, <2>2
<1>2. CASE StartPool
  <2>1. ASSUME NEW f \in Fds
        PROVE  InPlace(f)'
    <3>1. f \in polled' <=> f \in polled
      BY <1>2 DEF StartPool, Starting
    <3>2. Queued(f)' = Queued(f)
      BY <1>2, <1>31 DEF StartPool, Starting, Queued
    <3>3. Held(f)' = Held(f) /\ conns' = conns
      BY <1>2, <1>31 DEF StartPool, Starting, Held, Handles, TypeOK, WorkerOK
    <3>4. Registering(f)' <=> Registering(f)
      BY <1>2, <1>31 DEF StartPool, Starting, Registering, AcceptOK
    <3>5. QED
      BY <1>30, <3>1, <3>2, <3>3, <3>4, Elsewhere
  <2>2. QED
    BY <2>1
<1>3. CASE BuildFails
  <2>1. ASSUME NEW f \in Fds
        PROVE  InPlace(f)'
    <3>1. f \in polled' <=> f \in polled
      BY <1>3 DEF BuildFails, Dispatching
    <3>2. Queued(f)' = Queued(f)
      BY <1>3, <1>31 DEF BuildFails, Dispatching, Queued
    <3>3. Held(f)' = Held(f) /\ conns' = conns
      BY <1>3, <1>31 DEF BuildFails, Dispatching, Held, Handles, TypeOK, WorkerOK
    <3>4. Registering(f)' <=> Registering(f)
      BY <1>3, <1>31 DEF BuildFails, Dispatching, Registering, AcceptOK
    <3>5. QED
      BY <1>30, <3>1, <3>2, <3>3, <3>4, Elsewhere
  <2>2. QED
    BY <2>1
<1>4. CASE MapConnection
  <2>1. PICK g \in Fds : g = fdOf[asock]
    BY <1>4, <1>31 DEF MapConnection, Dispatching, AcceptOK, Pending
  <2>2. /\ conns' = [conns EXCEPT ![g] = asock] /\ apc' = "register" /\ asock \in Socks
       /\ UNCHANGED <<polled, queue, fdOf, asock, wpc, wfd, wconn>>
       /\ ~\E f \in Fds : Registering(f)
    BY <1>4, <1>31, <2>1 DEF MapConnection, Dispatching, AcceptOK, Pending, Registering
  <2>3. ASSUME NEW f \in Fds \ {g}
       PROVE  InPlace(f)'
    <3>1. Queued(f)' = Queued(f) /\ conns'[f] = conns[f]
      BY <1>31, <2>2 DEF Queued, TypeOK
    <3>2. Held(f)' = Held(f)
      BY <2>2, <3>1 DEF Held, Handles
    <3>3. ~Registering(f)' /\ ~Registering(f)
      BY <2>1, <2>2 DEF Registering
    <3>4. QED
      BY <1>30, <2>2, <3>1, <3>2, <3>3, Elsewhere
  <2>4. InPlace(g)'
    <3>1. \/ conns[g] = None /\ Nowhere(g)
          \/ \E w \in Workers : w \in Held(g) /\ wpc[w] = "drop"
      BY <1>4, <1>30, <2>1 DEF MapConnection, Dispatching, Settled, InPlace, Pending, Dropping, Held, Handles
    <3>2. g \notin polled /\ Queued(g) = {} /\ \A w \in Workers : wfd[w] = g => wpc[w] \notin {"serve", "poll"}
      BY <1>30, <3>1, Where DEF Nowhere, Held, Handles
    <3>3. Held(g)' = {}
      <4>1. conns'[g] = asock /\ \A w \in Workers : wconn[w] # asock
        BY <1>4, <1>31, <2>2 DEF TypeOK, AcceptOK, Pending, MapConnection, Dispatching
      <4>2. QED
        BY <2>2, <3>2, <4>1 DEF Held, Handles
    <3>4. Registering(g)' /\ Queued(g)' = {} /\ conns'[g] # None
      BY <1>31, <2>1, <2>2, <3>2, PoolAssumption DEF Registering, Queued, TypeOK
    <3>5. QED
      BY <2>2, <3>2, <3>3, <3>4 DEF InPlace, Alone
  <2>5. QED
    BY <2>3, <2>4
<1>5. CASE RegisterConnection
  <2>1. PICK g \in Fds : g = fdOf[asock]
    BY <1>5, <1>31 DEF RegisterConnection, Dispatching, AcceptOK
  <2>2. /\ apc = "register" /\ apc' = "clear" /\ polled' = polled \cup {g}
       /\ UNCHANGED <<queue, conns, wpc, wfd, wconn>>
    BY <1>5, <2>1 DEF RegisterConnection, Dispatching
  <2>3. ASSUME NEW f \in Fds
       PROVE  Queued(f)' = Queued(f) /\ Held(f)' = Held(f) /\ ~Registering(f)' /\ (Registering(f) <=> f = g)
    BY <2>1, <2>2 DEF Queued, Held, Handles, Registering
  <2>4. ASSUME NEW f \in Fds \ {g}
       PROVE  InPlace(f)'
    BY <1>30, <2>2, <2>3, Elsewhere
  <2>5. InPlace(g)'
    <3>1. conns[g] # None /\ Queued(g) = {} /\ Held(g) = {}
      BY <1>30, <2>3, Where
    <3>2. QED
      BY <2>2, <2>3, <3>1 DEF InPlace, Alone
  <2>6. QED
    BY <2>4, <2>5
<1>6. CASE ClearClients
  <2>1. ASSUME NEW f \in Fds
        PROVE  InPlace(f)'
    <3>1. f \in polled' <=> f \in polled
      BY <1>6 DEF ClearClients, Dispatching
    <3>2. Queued(f)' = Queued(f)
      BY <1>6, <1>31 DEF ClearClients, Dispatching, Queued
    <3>3. Held(f)' = Held(f) /\ conns' = conns
      BY <1>6, <1>31 DEF ClearClients, Dispatching, Held, Handles, TypeOK, WorkerOK
    <3>4. Registering(f)' <=> Registering(f)
      BY <1>6, <1>31 DEF ClearClients, Dispatching, Registering, AcceptOK
    <3>5. QED
      BY <1>30, <3>1, <3>2, <3>3, <3>4, Elsewhere
  <2>2. QED
    BY <2>1
<1>7. CASE Poll
  <2>1. ASSUME NEW f \in Fds
        PROVE  InPlace(f)'
    <3>1. f \in polled' <=> f \in polled
      BY <1>7 DEF Poll
    <3>2. Queued(f)' = Queued(f)
      BY <1>7, <1>31 DEF Poll, Queued
    <3>3. Held(f)' = Held(f) /\ conns' = conns
      BY <1>7, <1>31 DEF Poll, Held, Handles, TypeOK, WorkerOK
    <3>4. Registering(f)' <=> Registering(f)
      BY <1>7, <1>31 DEF Poll, Registering, AcceptOK
    <3>5. QED
      BY <1>30, <3>1, <3>2, <3>3, <3>4, Elsewhere
  <2>2. QED
    BY <2>1
<1>8. CASE PollingEnds
  <2>1. ASSUME NEW f \in Fds
        PROVE  InPlace(f)'
    <3>1. f \in polled' <=> f \in polled
      BY <1>8 DEF PollingEnds
    <3>2. Queued(f)' = Queued(f)
      BY <1>8, <1>31 DEF PollingEnds, Queued
    <3>3. Held(f)' = Held(f) /\ conns' = conns
      BY <1>8, <1>31 DEF PollingEnds, Held, Handles, TypeOK, WorkerOK
    <3>4. Registering(f)' <=> Registering(f)
      BY <1>8, <1>31 DEF PollingEnds, Registering, AcceptOK
    <3>5. QED
      BY <1>30, <3>1, <3>2, <3>3, <3>4, Elsewhere
  <2>2. QED
    BY <2>1
<1>9. ASSUME NEW f \in Fds, NEW evt \in {"r", "h"}, HandlePollResult(f, evt)
        PROVE  \A g \in Fds : InPlace(g)'
  <2>1. /\ f \in polled /\ polled' = polled \ {f}
       /\ UNCHANGED <<wpc, wfd, wconn, apc, asock, fdOf>>
    BY <1>9, <1>31 DEF HandlePollResult, Unregister, ResultOK
  <2>2. conns[f] # None /\ Queued(f) = {} /\ Held(f) = {} /\ ~Registering(f)
    BY <1>30, <2>1, Where
  <2>3. \A g \in Fds : Registering(g)' <=> Registering(g)
    BY <2>1 DEF Registering
  <2>4. CASE evt = "h"
    <3>1. conns' = [conns EXCEPT ![f] = None] /\ UNCHANGED queue
      BY <1>9, <2>4 DEF HandlePollResult
    <3>2. ASSUME NEW g \in Fds \ {f}
          PROVE  InPlace(g)'
      <4>1. conns'[g] = conns[g] /\ Queued(g)' = Queued(g)
        BY <1>31, <3>1 DEF TypeOK, Queued
      <4>2. Held(g)' = Held(g)
        BY <2>1, <4>1 DEF Held, Handles
      <4>3. QED
        BY <1>30, <2>1, <2>3, <4>1, <4>2, Elsewhere
    <3>3. InPlace(f)'
      <4>1. conns'[f] = None /\ Queued(f)' = {}
        BY <1>31, <2>2, <3>1 DEF TypeOK, Queued
      <4>2. Held(f)' = {}
        BY <1>31, <2>1, <2>2, <4>1 DEF Held, Handles, WorkerOK
      <4>3. QED
        BY <2>1, <2>2, <2>3, <4>1, <4>2 DEF InPlace, Nowhere
    <3>4. QED
      BY <3>2, <3>3
  <2>5. CASE evt # "h"
    <3>1. queue' = Append(queue, f) /\ UNCHANGED conns
      BY <1>9, <2>5 DEF HandlePollResult
    <3>2. /\ \A g \in Fds \ {f} : Queued(g)' = Queued(g)
          /\ Queued(f)' = {Len(queue) + 1}
      BY <1>31, <2>2, <3>1, Appended
    <3>3. \A g \in Fds : Held(g)' = Held(g)
      BY <2>1, <3>1 DEF Held, Handles
    <3>4. ASSUME NEW g \in Fds \ {f}
          PROVE  InPlace(g)'
      BY <1>30, <2>1, <2>3, <3>1, <3>2, <3>3, Elsewhere
    <3>5. InPlace(f)'
      BY <2>1, <2>2, <2>3, <3>1, <3>2, <3>3 DEF InPlace, Alone
    <3>6. QED
      BY <3>4, <3>5
  <2>6. QED
    BY <2>4, <2>5
<1>10. ASSUME NEW k \in {Main, User}, ClosePool(k) \/ NoPollingThread(k) \/ JoinWorkers(k)
         PROVE  \A f \in Fds : InPlace(f)'
  <2>1. CASE ClosePool(k)
    <3>1. ASSUME NEW f \in Fds
          PROVE  InPlace(f)'
      <4>1. f \in polled' <=> f \in polled
        BY <2>1 DEF ClosePool, CloseGoto
      <4>2. Queued(f)' = Queued(f)
        BY <2>1, <1>31, PillsQueued DEF ClosePool, CloseGoto
      <4>3. Held(f)' = Held(f) /\ conns' = conns
        BY <2>1, <1>31 DEF ClosePool, CloseGoto, Held, Handles, TypeOK, WorkerOK
      <4>4. Registering(f)' <=> Registering(f)
        BY <2>1, <1>31 DEF ClosePool, CloseGoto, Registering, AcceptOK
      <4>5. QED
        BY <1>30, <4>1, <4>2, <4>3, <4>4, Elsewhere
    <3>2. QED
      BY <3>1
  <2>2. CASE NoPollingThread(k)
    <3>1. ASSUME NEW f \in Fds
          PROVE  InPlace(f)'
      <4>1. f \in polled' <=> f \in polled
        BY <2>2 DEF NoPollingThread, CloseGoto
      <4>2. Queued(f)' = Queued(f)
        BY <2>2, <1>31 DEF NoPollingThread, CloseGoto, Queued
      <4>3. Held(f)' = Held(f) /\ conns' = conns
        BY <2>2, <1>31 DEF NoPollingThread, CloseGoto, Held, Handles, TypeOK, WorkerOK
      <4>4. Registering(f)' <=> Registering(f)
        BY <2>2, <1>31 DEF NoPollingThread, CloseGoto, Registering, AcceptOK
      <4>5. QED
        BY <1>30, <4>1, <4>2, <4>3, <4>4, Elsewhere
    <3>2. QED
      BY <3>1
  <2>3. CASE JoinWorkers(k)
    <3>1. ASSUME NEW f \in Fds
          PROVE  InPlace(f)'
      <4>1. f \in polled' <=> f \in polled
        BY <2>3 DEF JoinWorkers, CloseGoto
      <4>2. Queued(f)' = Queued(f)
        BY <2>3, <1>31 DEF JoinWorkers, CloseGoto, Queued
      <4>3. Held(f)' = Held(f) /\ conns' = conns
        BY <2>3, <1>31 DEF JoinWorkers, CloseGoto, Held, Handles, TypeOK, WorkerOK
      <4>4. Registering(f)' <=> Registering(f)
        BY <2>3 DEF JoinWorkers, CloseGoto, Registering, PoolInv, CloseOK
      <4>5. QED
        BY <1>30, <4>1, <4>2, <4>3, <4>4, Elsewhere
    <3>2. QED
      BY <3>1
  <2>4. QED
    BY <1>10, <2>1, <2>2, <2>3
<1>11. ASSUME NEW w \in Workers, WorkerStep(w)
         PROVE  \A f \in Fds : InPlace(f)'
  <2>1. CASE LoopTop(w)
    <3>1. ASSUME NEW f \in Fds
          PROVE  InPlace(f)'
      <4>1. f \in polled' <=> f \in polled
        BY <2>1 DEF LoopTop, WGoto
      <4>2. Queued(f)' = Queued(f)
        BY <2>1, <1>31 DEF LoopTop, WGoto, Queued
      <4>3. Held(f)' = Held(f) /\ conns' = conns
        BY <2>1, <1>31 DEF LoopTop, WGoto, Held, Handles, TypeOK, WorkerOK
      <4>4. Registering(f)' <=> Registering(f)
        BY <2>1, <1>31 DEF LoopTop, WGoto, Registering, AcceptOK
      <4>5. QED
        BY <1>30, <4>1, <4>2, <4>3, <4>4, Elsewhere
    <3>2. QED
      BY <3>1
  <2>2. CASE GetFd(w)
    <3>1. queue # <<>> /\ queue' = Tail(queue) /\ UNCHANGED <<polled, conns, wconn, apc, asock, fdOf>>
      BY <2>2 DEF GetFd
    <3>2. \A f \in Fds : Registering(f)' <=> Registering(f)
      BY <3>1 DEF Registering
    <3>3. ASSUME NEW f \in Fds, f # Head(queue)
          PROVE  InPlace(f)'
      <4>1. /\ Queued(f)' = {i - 1 : i \in Queued(f)}
            /\ \A i \in Queued(f) : Queued(f) = {i}
        <5>1. Queued(f)' = {i - 1 : i \in Queued(f) \ {1}} /\ 1 \notin Queued(f)
          BY <1>31, <3>1, <3>3, TakenFromFront
        <5>2. Queued(f) \ {1} = Queued(f)
          BY <5>1
        <5>3. QED
          BY <1>30, <5>1, <5>2, Where
      <4>2. Held(f)' = Held(f)
        BY <2>2, <1>31, <3>3 DEF GetFd, WGoto, Held, Handles, TypeOK
      <4>3. CASE Queued(f) = {}
        <5>1. Queued(f)' = Queued(f)
          BY <4>1, <4>3
        <5>2. QED
          BY <1>30, <3>1, <3>2, <4>2, <5>1, Elsewhere
      <4>4. ASSUME NEW i \in Queued(f)
            PROVE  InPlace(f)'
        <5>1. conns[f] # None /\ f \notin polled /\ Queued(f) = {i} /\ Held(f) = {} /\ ~Registering(f)
          BY <1>30, <4>4, Where
        <5>2. Queued(f)' = {i - 1}
          BY <4>1, <5>1
        <5>3. QED
          BY <3>1, <3>2, <4>2, <5>1, <5>2 DEF InPlace, Alone
      <4>5. QED
        BY <4>3, <4>4
    <3>4. ASSUME NEW g \in Fds, g = Head(queue)
          PROVE  InPlace(g)'
      <4>1. /\ conns[g] # None /\ g \notin polled /\ Queued(g) = {1} /\ Held(g) = {} /\ ~Registering(g)
        BY <1>30, <1>31, <3>1, <3>4, TakenFromFront, Where
      <4>2. Queued(g)' = {}
        <5>1. Queued(g)' = {i - 1 : i \in Queued(g) \ {1}}
          BY <1>31, <3>1, TakenFromFront
        <5>2. QED
          BY <4>1, <5>1
      <4>3. g # 0
        BY PoolAssumption
      <4>4. wpc' = [wpc EXCEPT ![w] = "serve"] /\ wfd' = [wfd EXCEPT ![w] = g]
        BY <2>2, <3>4, <4>3 DEF GetFd, WGoto
      <4>5. \A v \in Workers : Handles(v, g)' <=> v = w \/ Handles(v, g)
        BY <2>2, <1>31, <3>1, <4>4 DEF Handles, TypeOK, GetFd
      <4>6. Held(g)' = {w}
        BY <4>1, <4>5 DEF Held
      <4>7. QED
        BY <3>1, <3>2, <4>1, <4>2, <4>6 DEF InPlace, Alone
    <3>5. QED
      BY <3>3, <3>4
  <2>3. CASE BatchEnds(w)
    <3>1. PICK g \in Fds : g = wfd[w]
      BY <2>3, <1>31 DEF BatchEnds, WorkerOK
    <3>2. /\ WLeave(w) /\ wpc[w] \in {"serve", "poll"} /\ queue' = Append(queue, g)
          /\ UNCHANGED <<polled, conns, apc, asock, fdOf>>
      BY <2>3, <3>1 DEF BatchEnds, PutBack
    <3>3. w \in Held(g) /\ Held(g)' = {} /\ \A f \in Fds \ {g} : Held(f)' = Held(f)
      BY <3>1, <3>2, WorkerLeaves
    <3>4. conns[g] # None /\ g \notin polled /\ Queued(g) = {} /\ ~Registering(g)
      BY <1>30, <3>3, Where
    <3>5. \A f \in Fds : Registering(f)' <=> Registering(f)
      BY <3>2 DEF Registering
    <3>6. /\ \A f \in Fds \ {g} : Queued(f)' = Queued(f)
          /\ Queued(g)' = {Len(queue) + 1}
      BY <1>31, <3>2, <3>4, Appended
    <3>7. ASSUME NEW f \in Fds \ {g}
          PROVE  InPlace(f)'
      BY <1>30, <3>2, <3>3, <3>5, <3>6, Elsewhere
    <3>8. InPlace(g)'
      BY <3>2, <3>3, <3>4, <3>5, <3>6 DEF InPlace, Alone
    <3>9. QED
      BY <3>7, <3>8
  <2>4. CASE StartPoll(w)
    <3>1. ASSUME NEW f \in Fds
          PROVE  InPlace(f)'
      <4>1. f \in polled' <=> f \in polled
        BY <2>4 DEF StartPoll, WGoto
      <4>2. Queued(f)' = Queued(f)
        BY <2>4, <1>31 DEF StartPoll, WGoto, Queued
      <4>3. Held(f)' = Held(f) /\ conns' = conns
        BY <2>4, <1>31 DEF StartPoll, WGoto, Held, Handles, TypeOK, WorkerOK
      <4>4. Registering(f)' <=> Registering(f)
        BY <2>4, <1>31 DEF StartPoll, WGoto, Registering, AcceptOK
      <4>5. QED
        BY <1>30, <4>1, <4>2, <4>3, <4>4, Elsewhere
    <3>2. QED
      BY <3>1
  <2>5. CASE PollServes(w)
    <3>1. PICK g \in Fds : g = wfd[w]
      BY <2>5, <1>31 DEF PollServes, WorkerOK
    <3>2. CASE WLeave(w) /\ queue' = PutBack(w)
      <4>1. /\ WLeave(w) /\ wpc[w] \in {"serve", "poll"} /\ queue' = Append(queue, g)
            /\ UNCHANGED <<polled, conns, apc, asock, fdOf>>
        BY <2>5, <3>2, <3>1 DEF PollServes, PutBack
      <4>2. w \in Held(g) /\ Held(g)' = {} /\ \A f \in Fds \ {g} : Held(f)' = Held(f)
        BY <4>1, <3>1, WorkerLeaves
      <4>3. conns[g] # None /\ g \notin polled /\ Queued(g) = {} /\ ~Registering(g)
        BY <1>30, <4>2, Where
      <4>4. \A f \in Fds : Registering(f)' <=> Registering(f)
        BY <4>1 DEF Registering
      <4>5. /\ \A f \in Fds \ {g} : Queued(f)' = Queued(f)
            /\ Queued(g)' = {Len(queue) + 1}
        BY <1>31, <4>1, <4>3, Appended
      <4>6. ASSUME NEW f \in Fds \ {g}
            PROVE  InPlace(f)'
        BY <1>30, <4>1, <4>2, <4>4, <4>5, Elsewhere
      <4>7. InPlace(g)'
        BY <4>1, <4>2, <4>3, <4>4, <4>5 DEF InPlace, Alone
      <4>8. QED
        BY <4>6, <4>7
    <3>3. CASE /\ wconn' = [wconn EXCEPT ![w] = None]
                /\ WGoto(w, "serve") /\ UNCHANGED <<queue, wfd>>
      <4>1. ASSUME NEW f \in Fds
            PROVE  Held(f)' = Held(f)
        BY <2>5, <1>31, <3>3 DEF PollServes, WGoto, Held, Handles, TypeOK
      <4>2. ASSUME NEW f \in Fds
            PROVE  Queued(f)' = Queued(f) /\ (Registering(f)' <=> Registering(f))
        BY <2>5, <3>3 DEF PollServes, Queued, Registering
      <4>3. QED
        BY <2>5, <1>30, <4>1, <4>2, Elsewhere DEF PollServes
    <3>4. QED
      BY <2>5, <3>2, <3>3 DEF PollServes
  <2>6. CASE PollFindsNothing(w)
    <3>1. PICK g \in Fds : g = wfd[w]
      BY <2>6, <1>31 DEF PollFindsNothing, WorkerOK
    <3>2. /\ WLeave(w) /\ wpc[w] \in {"serve", "poll"} /\ polled' = polled \cup {g}
          /\ UNCHANGED <<queue, conns, apc, asock, fdOf>>
      BY <2>6, <3>1 DEF PollFindsNothing, PutBack
    <3>3. w \in Held(g) /\ Held(g)' = {} /\ \A f \in Fds \ {g} : Held(f)' = Held(f)
      BY <3>1, <3>2, WorkerLeaves
    <3>4. conns[g] # None /\ g \notin polled /\ Queued(g) = {} /\ ~Registering(g)
      BY <1>30, <3>3, Where
    <3>5. \A f \in Fds : Registering(f)' <=> Registering(f)
      BY <3>2 DEF Registering
    <3>6. \A f \in Fds : Queued(f)' = Queued(f)
      BY <3>2 DEF Queued
    <3>7. ASSUME NEW f \in Fds \ {g}
          PROVE  InPlace(f)'
      BY <1>30, <3>2, <3>3, <3>5, <3>6, Elsewhere
    <3>8. InPlace(g)'
      BY <3>2, <3>3, <3>4, <3>5, <3>6 DEF InPlace, Alone
    <3>9. QED
      BY <3>7, <3>8
  <2>7. CASE PollEOF(w)
    <3>1. ASSUME NEW f \in Fds
          PROVE  InPlace(f)'
      <4>1. f \in polled' <=> f \in polled
        BY <2>7 DEF PollEOF, CloseConn, WGoto
      <4>2. Queued(f)' = Queued(f)
        BY <2>7, <1>31 DEF PollEOF, CloseConn, WGoto, Queued
      <4>3. Held(f)' = Held(f) /\ conns' = conns
        BY <2>7, <1>31 DEF PollEOF, CloseConn, WGoto, Held, Handles, TypeOK, Settled
      <4>4. Registering(f)' <=> Registering(f)
        BY <2>7, <1>31 DEF PollEOF, CloseConn, WGoto, Registering, AcceptOK
      <4>5. QED
        BY <1>30, <4>1, <4>2, <4>3, <4>4, Elsewhere
    <3>2. QED
      BY <3>1
  <2>8. CASE DropConnection(w)
    <3>1. PICK g \in Fds : g = wfd[w]
      BY <2>8, <1>31 DEF DropConnection, WorkerOK
    <3>2. /\ WLeave(w) /\ wpc[w] = "drop" /\ conns' = [conns EXCEPT ![g] = None]
          /\ conns[g] \in {None, wconn[w]}
          /\ UNCHANGED <<queue, polled, apc, asock, fdOf>>
      BY <2>8, <3>1 DEF DropConnection
    <3>3. /\ wpc'[w] = "top" /\ wfd'[w] = 0
          /\ \A v \in Workers \ {w} : wpc'[v] = wpc[v] /\ wfd'[v] = wfd[v] /\ wconn'[v] = wconn[v]
      BY <1>31, <3>2 DEF TypeOK, WLeave, WGoto
    <3>4. ASSUME NEW f \in Fds
          PROVE  Queued(f)' = Queued(f) /\ (Registering(f)' <=> Registering(f))
      BY <3>2 DEF Queued, Registering
    <3>5. ASSUME NEW f \in Fds \ {g}
          PROVE  InPlace(f)'
      <4>1. conns'[f] = conns[f]
        BY <1>31, <3>2 DEF TypeOK
      <4>2. Held(f)' = Held(f)
        BY <3>1, <3>3, <4>1, PoolAssumption DEF Held, Handles
      <4>3. QED
        BY <1>30, <3>2, <3>4, <4>1, <4>2, Elsewhere
    <3>6. InPlace(g)'
      <4>1. g \notin polled /\ Queued(g) = {} /\ ~Registering(g) /\ Held(g) \subseteq {w}
        <5>1. CASE conns[g] = None
          BY <1>30, <5>1 DEF InPlace, Nowhere
        <5>2. CASE conns[g] = wconn[w]
          <6>1. w \in Held(g)
            BY <3>1, <3>2, <5>2 DEF Held, Handles
          <6>2. QED
            BY <1>30, <6>1, Where
        <5>3. QED
          BY <3>2, <5>1, <5>2
      <4>2. conns'[g] = None
        BY <1>31, <3>2 DEF TypeOK
      <4>3. Held(g)' = {}
        <5>1. \A v \in Workers : ~Handles(v, g)'
          BY <1>31, <3>3, <4>1, <4>2, PoolAssumption DEF Held, Handles, WorkerOK
        <5>2. QED
          BY <5>1 DEF Held
      <4>4. QED
        BY <3>2, <3>4, <4>1, <4>2, <4>3 DEF InPlace, Nowhere
    <3>7. QED
      BY <3>5, <3>6
  <2>9. QED
    BY <1>11, <2>1, <2>2, <2>3, <2>4, <2>5, <2>6, <2>7, <2>8 DEF WorkerStep
<1>12. QED
  BY <1>1, <1>2, <1>3, <1>4, <1>5, <1>6, <1>7, <1>8, <1>9, <1>10, <1>11 DEF PoolOwn, MainPoolStep, PollStep


(* A mapped connection is open until a worker is about to drop it.         *)
LEMMA PoolInUse ==
  ASSUME PoolInv, Settled, ~foreign', PoolOwn
  PROVE  \A f \in Fds : InUse(f)'
<1> USE DEF poolVars, serverVars, pollVars, workerVars
<1>30. \A f \in Fds : InPlace(f) /\ InUse(f)
  BY DEF Settled
<1>31. TypeOK /\ ServerTypeOK /\ AcceptOK /\ WorkerOK /\ ResultOK
  BY DEF PoolInv, TypeOK
<1>32. ASSUME NEW g \in Fds, conns'[g] = conns[g], UNCHANGED listener,
              conns[g] # None /\ Open(conns[g]) => sock'[conns[g]] \in {"open", "eof"},
              Dropping(g) => Dropping(g)'
       PROVE  InUse(g)'
  BY <1>30, <1>32 DEF InUse, Open
<1>33. /\ \A f, g \in Fds : f # g /\ conns[f] # None => conns[f] # conns[g]
       /\ \A f \in Fds : conns[f] # None => conns[f] \in Socks /\ Gone(conns[f])
       /\ Pending => \A f \in Fds : conns[f] # asock
  BY <1>31 DEF AcceptOK, TypeOK
<1>34. ASSUME UNCHANGED <<listener, conns, sock>>,
              \A v \in Workers : wpc[v] = "drop" => wpc'[v] = "drop" /\ wfd'[v] = wfd[v] /\ wconn'[v] = wconn[v]
       PROVE  \A f \in Fds : InUse(f)'
  <2>1. \A f \in Fds : Dropping(f) => Dropping(f)'
    BY <1>34 DEF Dropping
  <2>2. QED
    BY <1>32, <1>34, <2>1 DEF Open
<1>1. ASSUME NEW s \in Socks, SendRequest(s) \/ AcceptedWithFd(s)
        PROVE  \A f \in Fds : InUse(f)'
  <2>1. CASE SendRequest(s)
    <3>1. UNCHANGED <<listener, conns, sock>>
      BY <2>1 DEF SendRequest
    <3>2. \A v \in Workers : wpc[v] = "drop" => wpc'[v] = "drop" /\ wfd'[v] = wfd[v] /\ wconn'[v] = wconn[v]
      BY <2>1, <1>31 DEF SendRequest, TypeOK
    <3>3. QED
      BY <1>34, <3>1, <3>2
  <2>2. CASE AcceptedWithFd(s)
    <3>1. UNCHANGED <<listener, conns, wpc, wfd, wconn>> /\ sock[s] = "waiting" /\ sock' = [sock EXCEPT ![s] = "open"]
      BY <2>2 DEF AcceptedWithFd, Accepted, AcceptLoop
    <3>2. \A f \in Fds : conns[f] # None => sock'[conns[f]] = sock[conns[f]]
      BY <1>31, <1>33, <3>1 DEF Gone, ServerTypeOK
    <3>3. \A f \in Fds : Dropping(f) => Dropping(f)'
      BY <3>1 DEF Dropping
    <3>4. QED
      BY <1>32, <3>1, <3>2, <3>3 DEF Open
  <2>3. QED
    BY <1>1, <2>1, <2>2
<1>2. CASE StartPool
  <2>1. UNCHANGED <<listener, conns, sock, wfd, wconn>>
    BY <1>2 DEF StartPool, Starting
  <2>2. \A v \in Workers : wpc[v] = "drop" => wpc'[v] = "drop"
    BY <1>2 DEF StartPool, Starting
  <2>3. \A f \in Fds : Dropping(f) => Dropping(f)'
    BY <2>1, <2>2 DEF Dropping
  <2>4. QED
    BY <1>32, <2>1, <2>3 DEF Open
<1>3. CASE BuildFails
  <2>1. UNCHANGED <<listener, conns, wpc, wfd, wconn>> /\ Pending /\ sock' = [sock EXCEPT ![asock] = "shut"]
    BY <1>3 DEF BuildFails, Dispatching, Pending
  <2>2. \A f \in Fds : conns[f] # None => sock'[conns[f]] = sock[conns[f]]
    BY <1>31, <1>33, <2>1 DEF ServerTypeOK
  <2>3. \A f \in Fds : Dropping(f) => Dropping(f)'
    BY <2>1 DEF Dropping
  <2>4. QED
    BY <1>32, <2>1, <2>2, <2>3 DEF Open
<1>4. CASE MapConnection
  <2>1. /\ UNCHANGED <<listener, sock, wpc, wfd, wconn, asock>> /\ Pending /\ kind = "pool"
       /\ conns' = [conns EXCEPT ![fdOf[asock]] = asock]
    BY <1>4 DEF MapConnection, Dispatching, Pending
  <2>2. fdOf[asock] \in Fds /\ (Open(asock) \/ listener = "closed")
    BY <1>31, <2>1 DEF AcceptOK
  <2>3. ASSUME NEW f \in Fds
       PROVE  InUse(f)'
    <3>1. CASE f = fdOf[asock]
      BY <1>31, <2>1, <2>2, <3>1 DEF InUse, Open, TypeOK
    <3>2. CASE f # fdOf[asock]
      <4>1. conns'[f] = conns[f]
        BY <1>31, <2>1, <3>2 DEF TypeOK
      <4>2. Dropping(f) => Dropping(f)'
        BY <2>1, <4>1 DEF Dropping
      <4>3. QED
        BY <1>32, <2>1, <4>1, <4>2 DEF Open
    <3>3. QED
    
      BY <3>1, <3>2
  <2>4. QED
    BY <2>3
<1>5. CASE RegisterConnection
  <2>1. UNCHANGED <<listener, conns, sock>>
    BY <1>5 DEF RegisterConnection, Dispatching
  <2>2. \A v \in Workers : wpc[v] = "drop" => wpc'[v] = "drop" /\ wfd'[v] = wfd[v] /\ wconn'[v] = wconn[v]
    BY <1>5, <1>31 DEF RegisterConnection, Dispatching, TypeOK
  <2>3. QED
    BY <1>34, <2>1, <2>2
<1>6. CASE ClearClients
  <2>1. UNCHANGED <<listener, conns, sock>>
    BY <1>6 DEF ClearClients, Dispatching
  <2>2. \A v \in Workers : wpc[v] = "drop" => wpc'[v] = "drop" /\ wfd'[v] = wfd[v] /\ wconn'[v] = wconn[v]
    BY <1>6, <1>31 DEF ClearClients, Dispatching, TypeOK
  <2>3. QED
    BY <1>34, <2>1, <2>2
<1>7. CASE Poll
  <2>1. UNCHANGED <<listener, conns, sock>>
    BY <1>7 DEF Poll
  <2>2. \A v \in Workers : wpc[v] = "drop" => wpc'[v] = "drop" /\ wfd'[v] = wfd[v] /\ wconn'[v] = wconn[v]
    BY <1>7, <1>31 DEF Poll, TypeOK
  <2>3. QED
    BY <1>34, <2>1, <2>2
<1>8. CASE PollingEnds
  <2>1. UNCHANGED <<listener, conns, sock>>
    BY <1>8 DEF PollingEnds
  <2>2. \A v \in Workers : wpc[v] = "drop" => wpc'[v] = "drop" /\ wfd'[v] = wfd[v] /\ wconn'[v] = wconn[v]
    BY <1>8, <1>31 DEF PollingEnds, TypeOK
  <2>3. QED
    BY <1>34, <2>1, <2>2
<1>9. ASSUME NEW f \in Fds, NEW evt \in {"r", "h"}, HandlePollResult(f, evt)
        PROVE  \A g \in Fds : InUse(g)'
  <2>1. UNCHANGED <<listener, wpc, wfd, wconn>>
    BY <1>9 DEF HandlePollResult, CloseConn, Unregister
  <2>2. /\ \A g \in Fds \ {f} : conns'[g] = conns[g]
        /\ conns'[f] = None \/ UNCHANGED <<conns, sock>>
    BY <1>9, <1>31 DEF HandlePollResult, CloseConn, Unregister, TypeOK
  <2>3. \A g \in Fds \ {f} : conns[g] # None => sock'[conns[g]] = sock[conns[g]]
    BY <1>9, <1>31, <1>33 DEF HandlePollResult, CloseConn, Unregister, ServerTypeOK
  <2>4. \A g \in Fds \ {f} : InUse(g)'
    <3>1. \A g \in Fds \ {f} : Dropping(g) => Dropping(g)'
      BY <2>1, <2>2 DEF Dropping
    <3>2. QED
    
      BY <1>32, <2>1, <2>2, <2>3, <3>1 DEF Open
  <2>5. InUse(f)'
    <3>1. CASE conns'[f] = None
      BY <3>1 DEF InUse
    <3>2. CASE UNCHANGED <<conns, sock>>
      <4>1. Dropping(f) => Dropping(f)'
        BY <2>1, <3>2 DEF Dropping
      <4>2. QED
        BY <1>32, <2>1, <3>2, <4>1 DEF Open
    <3>3. QED
    
      BY <2>2, <3>1, <3>2
  <2>6. QED
    BY <2>4, <2>5
<1>10. ASSUME NEW k \in {Main, User}, ClosePool(k) \/ NoPollingThread(k) \/ JoinWorkers(k)
         PROVE  \A f \in Fds : InUse(f)'
  <2>1. CASE ClosePool(k)
    <3>1. UNCHANGED <<listener, conns, sock>>
      BY <2>1 DEF ClosePool, CloseGoto
    <3>2. \A v \in Workers : wpc[v] = "drop" => wpc'[v] = "drop" /\ wfd'[v] = wfd[v] /\ wconn'[v] = wconn[v]
      BY <2>1, <1>31 DEF ClosePool, CloseGoto, TypeOK
    <3>3. QED
      BY <1>34, <3>1, <3>2
  <2>2. CASE NoPollingThread(k)
    <3>1. UNCHANGED <<listener, conns, sock>>
      BY <2>2 DEF NoPollingThread, CloseGoto
    <3>2. \A v \in Workers : wpc[v] = "drop" => wpc'[v] = "drop" /\ wfd'[v] = wfd[v] /\ wconn'[v] = wconn[v]
      BY <2>2, <1>31 DEF NoPollingThread, CloseGoto, TypeOK
    <3>3. QED
      BY <1>34, <3>1, <3>2
  <2>3. CASE JoinWorkers(k)
    <3>1. UNCHANGED <<listener, conns, sock>>
      BY <2>3 DEF JoinWorkers, CloseGoto
    <3>2. \A v \in Workers : wpc[v] = "drop" => wpc'[v] = "drop" /\ wfd'[v] = wfd[v] /\ wconn'[v] = wconn[v]
      BY <2>3, <1>31 DEF JoinWorkers, CloseGoto, TypeOK
    <3>3. QED
      BY <1>34, <3>1, <3>2
  <2>4. QED
    BY <1>10, <2>1, <2>2, <2>3
<1>11. ASSUME NEW w \in Workers, WorkerStep(w)
         PROVE  \A f \in Fds : InUse(f)'
  <2>1. CASE LoopTop(w)
    <3>1. UNCHANGED <<listener, conns, sock>>
      BY <2>1 DEF LoopTop, WGoto
    <3>2. \A v \in Workers : wpc[v] = "drop" => wpc'[v] = "drop" /\ wfd'[v] = wfd[v] /\ wconn'[v] = wconn[v]
      BY <2>1, <1>31 DEF LoopTop, WGoto, TypeOK
    <3>3. QED
      BY <1>34, <3>1, <3>2
  <2>2. CASE GetFd(w)
    <3>1. UNCHANGED <<listener, conns, sock>>
      BY <2>2 DEF GetFd, WGoto
    <3>2. \A v \in Workers : wpc[v] = "drop" => wpc'[v] = "drop" /\ wfd'[v] = wfd[v] /\ wconn'[v] = wconn[v]
      BY <2>2, <1>31 DEF GetFd, WGoto, TypeOK
    <3>3. QED
      BY <1>34, <3>1, <3>2
  <2>3. CASE BatchEnds(w)
    <3>1. UNCHANGED <<listener, conns, sock>>
      BY <2>3 DEF BatchEnds, WLeave, WGoto
    <3>2. \A v \in Workers : wpc[v] = "drop" => wpc'[v] = "drop" /\ wfd'[v] = wfd[v] /\ wconn'[v] = wconn[v]
      BY <2>3, <1>31 DEF BatchEnds, WLeave, WGoto, TypeOK
    <3>3. QED
      BY <1>34, <3>1, <3>2
  <2>4. CASE StartPoll(w)
    <3>1. UNCHANGED <<listener, conns, sock>>
      BY <2>4 DEF StartPoll, WGoto
    <3>2. \A v \in Workers : wpc[v] = "drop" => wpc'[v] = "drop" /\ wfd'[v] = wfd[v] /\ wconn'[v] = wconn[v]
      BY <2>4, <1>31 DEF StartPoll, WGoto, TypeOK
    <3>3. QED
      BY <1>34, <3>1, <3>2
  <2>5. CASE PollServes(w)
    <3>1. UNCHANGED <<listener, conns, sock>>
      BY <2>5 DEF PollServes, WLeave, WGoto
    <3>2. \A v \in Workers : wpc[v] = "drop" => wpc'[v] = "drop" /\ wfd'[v] = wfd[v] /\ wconn'[v] = wconn[v]
      BY <2>5, <1>31 DEF PollServes, WLeave, WGoto, TypeOK
    <3>3. QED
      BY <1>34, <3>1, <3>2
  <2>6. CASE PollFindsNothing(w)
    <3>1. UNCHANGED <<listener, conns, sock>>
      BY <2>6 DEF PollFindsNothing, WLeave, WGoto
    <3>2. \A v \in Workers : wpc[v] = "drop" => wpc'[v] = "drop" /\ wfd'[v] = wfd[v] /\ wconn'[v] = wconn[v]
      BY <2>6, <1>31 DEF PollFindsNothing, WLeave, WGoto, TypeOK
    <3>3. QED
      BY <1>34, <3>1, <3>2
  <2>7. CASE PollEOF(w)
    <3>1. PICK g \in Fds : g = wfd[w]
      BY <2>7, <1>31 DEF PollEOF, WorkerOK
    <3>2. /\ UNCHANGED <<listener, conns, wfd, wconn>> /\ wpc' = [wpc EXCEPT ![w] = "drop"]
         /\ wconn[w] = conns[g]
      BY <2>7, <3>1 DEF PollEOF, CloseConn, WGoto, Settled
    <3>3. \A f \in Fds \ {g} : conns[f] # None => sock'[conns[f]] = sock[conns[f]]
      BY <2>7, <1>31, <1>33, <3>2 DEF PollEOF, CloseConn, WGoto, ServerTypeOK
    <3>4. \A f \in Fds : Dropping(f) => Dropping(f)'
      BY <1>31, <3>2 DEF Dropping, TypeOK
    <3>5. Dropping(g)'
      BY <1>31, <3>1, <3>2 DEF Dropping, TypeOK
    <3>6. InUse(g)'
      BY <3>5 DEF InUse
    <3>7. QED
      BY <1>32, <3>2, <3>3, <3>4, <3>6 DEF Open
  <2>8. CASE DropConnection(w)
    <3>1. PICK g \in Fds : g = wfd[w]
      BY <2>8, <1>31 DEF DropConnection, WorkerOK
    <3>2. /\ UNCHANGED listener /\ WLeave(w) /\ conns' = [conns EXCEPT ![g] = None]
         /\ CloseConn(conns[g])
      BY <2>8, <3>1 DEF DropConnection
    <3>3. \A f \in Fds \ {g} : conns'[f] = conns[f] /\ (conns[f] # None => sock'[conns[f]] = sock[conns[f]])
      BY <1>31, <1>33, <3>2 DEF CloseConn, TypeOK, ServerTypeOK
    <3>4. \A v \in Workers \ {w} : wpc'[v] = wpc[v] /\ wfd'[v] = wfd[v] /\ wconn'[v] = wconn[v]
      BY <1>31, <3>2 DEF WLeave, WGoto, TypeOK
    <3>5. \A f \in Fds \ {g} : Dropping(f) => Dropping(f)'
      BY <3>1, <3>3, <3>4 DEF Dropping
    <3>6. InUse(g)'
      BY <1>31, <3>2 DEF InUse, TypeOK
    <3>7. QED
      BY <1>32, <3>2, <3>3, <3>5, <3>6 DEF Open
  <2>9. QED
    BY <1>11, <2>1, <2>2, <2>3, <2>4, <2>5, <2>6, <2>7, <2>8 DEF WorkerStep
<1>12. QED
  BY <1>1, <1>2, <1>3, <1>4, <1>5, <1>6, <1>7, <1>8, <1>9, <1>10, <1>11 DEF PoolOwn, MainPoolStep, PollStep

(* A worker in poll() serves what fd_to_conn has for its fd.               *)
LEMMA PoolPolls ==
  ASSUME PoolInv, Settled, ~foreign', PoolOwn
  PROVE  \A w \in Workers : (wpc[w] = "poll" => wconn[w] = conns[wfd[w]])'
<1> USE DEF poolVars, serverVars, pollVars, workerVars
<1>30. \A f \in Fds : InPlace(f) /\ InUse(f)
  BY DEF Settled
<1>31. TypeOK /\ ServerTypeOK /\ AcceptOK /\ WorkerOK /\ ResultOK
  BY DEF PoolInv, TypeOK
<1>32. \A v \in Workers : wpc[v] = "poll" => wconn[v] = conns[wfd[v]] /\ wfd[v] \in Fds /\ v \in Held(wfd[v])
  BY <1>31 DEF Settled, WorkerOK, Held, Handles
<1>1. ASSUME NEW s \in Socks, SendRequest(s) \/ AcceptedWithFd(s)
        PROVE  \A v \in Workers : (wpc[v] = "poll" => wconn[v] = conns[wfd[v]])'
  <2>1. CASE SendRequest(s)
    BY <2>1, <1>31, <1>32 DEF SendRequest, TypeOK
  <2>2. CASE AcceptedWithFd(s)
    BY <2>2, <1>31, <1>32 DEF AcceptedWithFd, Accepted, AcceptLoop, TypeOK
  <2>3. QED
    BY <1>1, <2>1, <2>2
<1>2. CASE StartPool
  BY <1>2, <1>31, <1>32 DEF StartPool, Starting, TypeOK
<1>3. CASE BuildFails
  BY <1>3, <1>31, <1>32 DEF BuildFails, Dispatching, TypeOK
<1>4. CASE MapConnection
  <2>1. PICK g \in Fds : g = fdOf[asock]
    BY <1>4, <1>31 DEF MapConnection, Dispatching, AcceptOK, Pending
  <2>2. conns' = [conns EXCEPT ![g] = asock] /\ UNCHANGED <<wpc, wfd, wconn>>
    BY <1>4, <2>1 DEF MapConnection, Dispatching
  <2>3. \A v \in Workers : wpc[v] = "poll" => wfd[v] # g
    <3>1. conns[g] # None => \E w \in Workers : w \in Held(g) /\ wpc[w] = "drop"
      BY <1>4, <2>1 DEF MapConnection, Dispatching, Settled, Pending, Dropping, Held, Handles
    <3>2. ASSUME NEW v \in Held(g), wpc[v] = "poll"
          PROVE  FALSE
      BY <1>30, <3>1, <3>2, Where
    <3>3. QED
      BY <1>32, <3>2
  <2>4. QED
    BY <1>31, <1>32, <2>2, <2>3 DEF TypeOK
<1>5. CASE RegisterConnection
  BY <1>5, <1>31, <1>32 DEF RegisterConnection, Dispatching, TypeOK
<1>6. CASE ClearClients
  BY <1>6, <1>31, <1>32 DEF ClearClients, Dispatching, TypeOK
<1>7. CASE Poll
  BY <1>7, <1>31, <1>32 DEF Poll, TypeOK
<1>8. CASE PollingEnds
  BY <1>8, <1>31, <1>32 DEF PollingEnds, TypeOK
<1>9. ASSUME NEW f \in Fds, NEW evt \in {"r", "h"}, HandlePollResult(f, evt)
        PROVE  \A v \in Workers : (wpc[v] = "poll" => wconn[v] = conns[wfd[v]])'
  <2>1. f \in polled /\ UNCHANGED <<wpc, wfd, wconn>>
    BY <1>9, <1>31 DEF HandlePollResult, ResultOK
  <2>2. \A v \in Workers : wpc[v] = "poll" => wfd[v] # f
    BY <1>30, <1>32, <2>1, Where
  <2>3. \A g \in Fds \ {f} : conns'[g] = conns[g]
    BY <1>9, <1>31 DEF HandlePollResult, TypeOK
  <2>4. QED
    BY <1>32, <2>1, <2>2, <2>3
<1>10. ASSUME NEW k \in {Main, User}, ClosePool(k) \/ NoPollingThread(k) \/ JoinWorkers(k)
         PROVE  \A v \in Workers : (wpc[v] = "poll" => wconn[v] = conns[wfd[v]])'
  <2>1. CASE ClosePool(k)
    BY <2>1, <1>31, <1>32 DEF ClosePool, CloseGoto, TypeOK
  <2>2. CASE NoPollingThread(k)
    BY <2>2, <1>31, <1>32 DEF NoPollingThread, CloseGoto, TypeOK
  <2>3. CASE JoinWorkers(k)
    BY <2>3, <1>31, <1>32 DEF JoinWorkers, CloseGoto, TypeOK
  <2>4. QED
    BY <1>10, <2>1, <2>2, <2>3
<1>11. ASSUME NEW w \in Workers, WorkerStep(w)
         PROVE  \A v \in Workers : (wpc[v] = "poll" => wconn[v] = conns[wfd[v]])'
  <2>1. CASE LoopTop(w)
    BY <2>1, <1>31, <1>32 DEF LoopTop, WGoto, TypeOK
  <2>2. CASE GetFd(w)
    BY <2>2, <1>31, <1>32 DEF GetFd, WGoto, TypeOK
  <2>3. CASE BatchEnds(w)
    BY <2>3, <1>31, <1>32 DEF BatchEnds, WLeave, WGoto, TypeOK
  <2>4. CASE StartPoll(w)
    BY <2>4, <1>31, <1>32 DEF StartPoll, WGoto, TypeOK
  <2>5. CASE PollServes(w)
    BY <2>5, <1>31, <1>32 DEF PollServes, WLeave, WGoto, TypeOK
  <2>6. CASE PollFindsNothing(w)
    BY <2>6, <1>31, <1>32 DEF PollFindsNothing, WLeave, WGoto, TypeOK
  <2>7. CASE PollEOF(w)
    BY <2>7, <1>31, <1>32 DEF PollEOF, CloseConn, WGoto, TypeOK
  <2>8. CASE DropConnection(w)
    <3>1. PICK g \in Fds : g = wfd[w]
      BY <2>8, <1>31 DEF DropConnection, WorkerOK
    <3>2. /\ WLeave(w) /\ wpc[w] = "drop" /\ conns' = [conns EXCEPT ![g] = None]
          /\ conns[g] \in {None, wconn[w]}
      BY <2>8, <3>1 DEF DropConnection
    <3>3. \A v \in Workers : wpc[v] = "poll" => wfd[v] # g
      <4>1. ASSUME NEW v \in Workers, wpc[v] = "poll", wfd[v] = g
            PROVE  FALSE
        <5>1. v \in Held(g)
          BY <1>32, <4>1
        <5>2. conns[g] # None /\ Held(g) = {v}
          BY <1>30, <5>1, Where
        <5>3. w \in Held(g)
          BY <3>1, <3>2, <5>2 DEF Held, Handles
        <5>4. QED
          BY <3>2, <4>1, <5>2, <5>3
      <4>2. QED
        BY <4>1
    <3>4. /\ wpc'[w] = "top"
          /\ \A v \in Workers \ {w} : wpc'[v] = wpc[v] /\ wfd'[v] = wfd[v] /\ wconn'[v] = wconn[v]
      BY <1>31, <3>2 DEF TypeOK, WLeave, WGoto
    <3>5. \A f \in Fds \ {g} : conns'[f] = conns[f]
      BY <1>31, <3>2 DEF TypeOK
    <3>6. QED
      BY <1>32, <3>3, <3>4, <3>5
  <2>9. QED
    BY <1>11, <2>1, <2>2, <2>3, <2>4, <2>5, <2>6, <2>7, <2>8 DEF WorkerStep
<1>12. QED
  BY <1>1, <1>2, <1>3, <1>4, <1>5, <1>6, <1>7, <1>8, <1>9, <1>10, <1>11 DEF PoolOwn, MainPoolStep, PollStep

(* A new socket has the number of a mapped connection only if a worker is  *)
(* about to drop that one.                                                 *)
LEMMA PoolPending ==
  ASSUME PoolInv, Settled, ~foreign', PoolOwn
  PROVE  Pending' /\ conns'[fdOf'[asock']] # None => Dropping(fdOf[asock])'
<1> USE DEF poolVars, serverVars, pollVars, workerVars
<1>30. \A f \in Fds : InPlace(f) /\ InUse(f)
  BY DEF Settled
<1>31. TypeOK /\ ServerTypeOK /\ AcceptOK /\ WorkerOK /\ ResultOK
  BY DEF PoolInv, TypeOK
<1>1. ASSUME NEW s \in Socks, SendRequest(s) \/ AcceptedWithFd(s)
        PROVE  Pending' /\ conns'[fdOf'[asock']] # None => Dropping(fdOf[asock])'
  <2>1. CASE SendRequest(s)
    BY <2>1, <1>31 DEF SendRequest, Settled, Dropping, Pending, AcceptOK, TypeOK
  <2>2. CASE AcceptedWithFd(s)
    <3>1. /\ sock[s] = "waiting" /\ listener = "listening" /\ asock' = s
          /\ UNCHANGED <<conns, wpc, wfd, wconn>>
      BY <2>2 DEF AcceptedWithFd, Accepted, AcceptLoop
    <3>2. PICK n \in FreeFds : fdOf' = [fdOf EXCEPT ![s] = n]
      BY <2>2 DEF AcceptedWithFd
    <3>3. n \in Fds /\ fdOf'[s] = n
      BY <1>31, <3>2 DEF FreeFds, TypeOK
    <3>4. conns[n] # None => ~Open(conns[n])
      BY <1>31, <3>2, <3>3 DEF FreeFds, AcceptOK, TypeOK
    <3>5. conns[n] # None => Dropping(n)
      BY <1>30, <3>1, <3>3, <3>4 DEF InUse
    <3>6. Dropping(n) => Dropping(fdOf[asock])'
      BY <3>1, <3>3 DEF Dropping
    <3>7. QED
      BY <3>1, <3>3, <3>5, <3>6
  <2>3. QED
    BY <1>1, <2>1, <2>2
<1>2. CASE StartPool
  BY <1>2, <1>31 DEF StartPool, Starting, Settled, Dropping, Pending, AcceptOK, TypeOK
<1>3. CASE BuildFails
  BY <1>3, <1>31 DEF BuildFails, Dispatching, Settled, Dropping, Pending, AcceptOK, TypeOK
<1>4. CASE MapConnection
  BY <1>4, <1>31 DEF MapConnection, Dispatching, Settled, Dropping, Pending, AcceptOK, TypeOK
<1>5. CASE RegisterConnection
  BY <1>5, <1>31 DEF RegisterConnection, Dispatching, Settled, Dropping, Pending, AcceptOK, TypeOK
<1>6. CASE ClearClients
  BY <1>6, <1>31 DEF ClearClients, Dispatching, Settled, Dropping, Pending, AcceptOK, TypeOK
<1>7. CASE Poll
  BY <1>7, <1>31 DEF Poll, Settled, Dropping, Pending, AcceptOK, TypeOK
<1>8. CASE PollingEnds
  BY <1>8, <1>31 DEF PollingEnds, Settled, Dropping, Pending, AcceptOK, TypeOK
<1>9. ASSUME NEW f \in Fds, NEW evt \in {"r", "h"}, HandlePollResult(f, evt)
        PROVE  Pending' /\ conns'[fdOf'[asock']] # None => Dropping(fdOf[asock])'
  BY <1>9, <1>31 DEF HandlePollResult, CloseConn, Unregister, Settled, Dropping, Pending, AcceptOK, TypeOK
<1>10. ASSUME NEW k \in {Main, User}, ClosePool(k) \/ NoPollingThread(k) \/ JoinWorkers(k)
         PROVE  Pending' /\ conns'[fdOf'[asock']] # None => Dropping(fdOf[asock])'
  <2>1. CASE ClosePool(k)
    BY <2>1, <1>31 DEF ClosePool, CloseGoto, Settled, Dropping, Pending, AcceptOK, TypeOK
  <2>2. CASE NoPollingThread(k)
    BY <2>2, <1>31 DEF NoPollingThread, CloseGoto, Settled, Dropping, Pending, AcceptOK, TypeOK
  <2>3. CASE JoinWorkers(k)
    BY <2>3, <1>31 DEF JoinWorkers, CloseGoto, Settled, Dropping, Pending, AcceptOK, TypeOK
  <2>4. QED
    BY <1>10, <2>1, <2>2, <2>3
<1>11. ASSUME NEW w \in Workers, WorkerStep(w)
         PROVE  Pending' /\ conns'[fdOf'[asock']] # None => Dropping(fdOf[asock])'
  <2>1. CASE LoopTop(w)
    BY <2>1, <1>31 DEF LoopTop, WGoto, Settled, Dropping, Pending, AcceptOK, TypeOK
  <2>2. CASE GetFd(w)
    BY <2>2, <1>31 DEF GetFd, WGoto, Settled, Dropping, Pending, AcceptOK, TypeOK
  <2>3. CASE BatchEnds(w)
    BY <2>3, <1>31 DEF BatchEnds, WLeave, WGoto, Settled, Dropping, Pending, AcceptOK, TypeOK
  <2>4. CASE StartPoll(w)
    BY <2>4, <1>31 DEF StartPoll, WGoto, Settled, Dropping, Pending, AcceptOK, TypeOK
  <2>5. CASE PollServes(w)
    BY <2>5, <1>31 DEF PollServes, WLeave, WGoto, Settled, Dropping, Pending, AcceptOK, TypeOK
  <2>6. CASE PollFindsNothing(w)
    BY <2>6, <1>31 DEF PollFindsNothing, WLeave, WGoto, Settled, Dropping, Pending, AcceptOK, TypeOK
  <2>7. CASE PollEOF(w)
    BY <2>7, <1>31 DEF PollEOF, CloseConn, WGoto, Settled, Dropping, Pending, AcceptOK, TypeOK
  <2>8. CASE DropConnection(w)
    BY <2>8, <1>31 DEF DropConnection, CloseConn, WLeave, WGoto, Settled, Dropping, Pending, AcceptOK, TypeOK
  <2>9. QED
    BY <1>11, <2>1, <2>2, <2>3, <2>4, <2>5, <2>6, <2>7, <2>8 DEF WorkerStep
<1>12. QED
  BY <1>1, <1>2, <1>3, <1>4, <1>5, <1>6, <1>7, <1>8, <1>9, <1>10, <1>11 DEF PoolOwn, MainPoolStep, PollStep

-----------------------------------------------------------------------------
(* The initial states.                                                     *)
LEMMA PoolInvInit == Init => PoolInv
<1> SUFFICES ASSUME Init
             PROVE  PoolInv
  OBVIOUS
<1> USE DEF Init, ServerInit
<1>1. /\ wpc \in [Workers -> {"new", "absent"}]
      /\ sock \in [Socks -> {"out", "shut"}]
      /\ kpc \in [{Main, User} -> {"never", "idle"}]
  <2>1. CASE kind = "pool"
    <3>1. PICK load \in Loads :
            /\ wpc = [w \in Workers |-> IF w \in load[1] THEN "new" ELSE "absent"]
            /\ sock = [s \in Socks |-> IF s \in load[2] THEN "out" ELSE "shut"]
            /\ kpc = [k \in {Main, User} |-> IF load[3] THEN "idle" ELSE "never"]
      BY <2>1
    <3>2. QED
      BY <3>1
  <2>2. QED
    BY <2>1
<1>2. TypeOK
  <2>1. ServerTypeOK
    <3>1. kpc \in [{Main, User} -> {"never", "idle", "listener", "copy", "shut", "mark", "pool",
                                    "join", "done"}]
      BY <1>1
    <3>2. sock \in [Socks -> {"out", "waiting", "open", "eof", "shut"}]
      BY <1>1
    <3>3. QED
      BY <3>1, <3>2 DEF ServerTypeOK
  <2>2. wpc \in [Workers -> {"new", "top", "get", "serve", "poll", "drop", "end", "absent"}]
    BY <1>1
  <2>3. /\ batch \in [Workers -> 0..BatchSize]
        /\ requests \in [Socks -> 0..MaxRequests]
        /\ queue \in Seq(Fds \cup {0})
    BY PoolAssumption
  <2>4. QED
    BY <2>1, <2>2, <2>3 DEF TypeOK
<1>3. KindOK /\ CloseOK
  BY <1>1 DEF KindOK, CloseOK, Main, User
<1>4. AcceptOK /\ WorkerOK /\ ResultOK
  BY <1>1, <1>2 DEF AcceptOK, WorkerOK, ResultOK, Pending, TypeOK
<1>5. Settled
  <2>1. ASSUME NEW f \in Fds
        PROVE  Nowhere(f)
    <3>1. Queued(f) = {}
      BY DEF Queued
    <3>2. Held(f) = {}
      BY <1>1 DEF Held, Handles
    <3>3. QED
      BY <3>1, <3>2 DEF Nowhere, Registering
  <2>2. QED
    BY <1>1, <2>1 DEF Settled, InPlace, InUse, Pending
<1>6. QED
  BY <1>2, <1>3, <1>4, <1>5 DEF PoolInv

(* Every step.                                                             *)
LEMMA PoolInvNext == PoolInv /\ [Next]_vars => PoolInv'
<1>1. ASSUME PoolInv, ServerOwn
      PROVE  PoolInv'
  <2>1. TypeOK'
    BY <1>1, ServerTypes DEF PoolInv
  <2>2. QED
    BY <1>1, <2>1, ServerClose, ServerParts DEF PoolInv
<1>2. ASSUME PoolInv, PoolOwn
      PROVE  PoolInv'
  <2>1. TypeOK' /\ KindOK' /\ CloseOK' /\ AcceptOK' /\ WorkerOK' /\ ResultOK'
    BY <1>2, PoolTypes, PoolKind, PoolAccept, PoolWorkers, PoolResult
  <2>2. ASSUME ~foreign'
        PROVE  Settled'
    <3>1. Settled
      BY <1>2, <2>2, OnlyDropsAreForeign DEF PoolInv, TypeOK
    <3>2. QED
      BY <1>2, <2>2, <3>1, PoolPlaces, PoolInUse, PoolPolls, PoolPending DEF Settled
  <2>3. QED
    BY <2>1, <2>2 DEF PoolInv
<1>3. ASSUME PoolInv, UNCHANGED vars
      PROVE  PoolInv'
  <2>1. UNCHANGED <<serverVars, fdOf, conns, queue, requests, polled, ppc, result, wpc, wfd, wconn, batch, foreign>>
    BY <1>3 DEF vars, poolVars, pollVars, workerVars
  <2> USE DEF serverVars
  <2>2. TypeOK'
    BY <1>3, <2>1 DEF PoolInv, TypeOK, ServerTypeOK
  <2>3. KindOK' /\ CloseOK' /\ AcceptOK' /\ WorkerOK' /\ ResultOK'
    BY <1>3, <2>1 DEF PoolInv, KindOK, CloseOK, AcceptOK, WorkerOK, ResultOK, Pending, Gone, Open
  <2>4. Settled => Settled'
    BY <2>1 DEF Settled, InPlace, InUse, Nowhere, Alone, Queued, Held, Handles, Registering, Dropping, Pending, Open
  <2>5. QED
    BY <1>3, <2>1, <2>2, <2>3, <2>4 DEF PoolInv
<1>4. QED
  BY <1>1, <1>2, <1>3, Steps

(* Who is alone is in one place.                                           *)
LEMMA AloneIsOnePlace ==
  ASSUME NEW f \in Fds, Alone(f)
  PROVE  Cardinality(Places(f)) = 1
<1>1. \E x : Places(f) = {x}
  <2>1. Places(f) = (IF f \in polled THEN {<<"polled", f>>} ELSE {})
                      \cup {<<"queue", i>> : i \in Queued(f)}
                      \cup {<<"worker", w>> : w \in Held(f)}
                      \cup (IF Registering(f) THEN {<<"main", f>>} ELSE {})
    BY DEF Places, Queued, Held, Registering
  <2>2. CASE f \in polled
    BY <2>1, <2>2 DEF Alone
  <2>3. ASSUME NEW i \in Queued(f)
        PROVE  Places(f) = {<<"queue", i>>}
    BY <2>1, <2>3 DEF Alone
  <2>4. ASSUME NEW w \in Held(f)
        PROVE  Places(f) = {<<"worker", w>>}
    BY <2>1, <2>4 DEF Alone
  <2>5. CASE Registering(f)
    BY <2>1, <2>5 DEF Alone
  <2>6. QED
    BY <2>2, <2>3, <2>4, <2>5 DEF Alone
<1>2. QED
  BY <1>1, FS_Singleton

(* The type invariant of the pool, and OnePlace: whatever the numbers of   *)
(* workers, clients and requests are, a connection in fd_to_conn is        *)
(* registered with the poll object, in the active queue, or with one       *)
(* worker, until a worker drops one that is not its own.                   *)
THEOREM OnePlaceHolds == Spec => []Inv
<1>1. PoolInv => Inv
  BY AloneIsOnePlace DEF PoolInv, Settled, InPlace, Inv, OnePlace
<1>2. QED
  BY <1>1, PoolInvInit, PoolInvNext, PTL DEF Spec


=============================================================================
