------------------------------- MODULE Server -------------------------------
(***************************************************************************)
(* The life of a Server: start() accepts clients in its own thread, until  *)
(* close(), which the end of start() calls too and any other thread may    *)
(* call meanwhile, shuts the listener and the clients.  What a server does *)
(* with an accepted client depends on its class: OneShotServer serves it   *)
(* and closes, ThreadedServer and GeventServer give it a thread,           *)
(* ForkingServer a child process.  ThreadPool has the last class.          *)
(***************************************************************************)
EXTENDS Naturals, Sequences, FiniteSets

CONSTANTS
  Kinds,     \* the classes to consider
  Socks,     \* clients, and the sockets accept() returns for them
  None

Main == "main"     \* the thread in start()
User == "user"     \* another thread, which may call close()

VARIABLES
  kind,       \* the server's class
  active, closed,
  listener,   \* the listening socket: bound, listening, closed
  clients,    \* the set `clients`
  apc, asock, \* where accept() stands in the main thread, and its socket
  kpc, kset,  \* where each call of close() stands, the clients it still has
  sock,       \* a client's socket: not connected, waiting to be accepted, open,
              \* open with the peer gone, shut down by the server
  thread,     \* where the thread or process that serves the client stands
  late        \* history: clients added after a close() had looked at `clients`

serverVars == <<kind, active, closed, listener, clients, apc, asock, kpc, kset,
                sock, thread, late>>

Open(s) == sock[s] \in {"open", "eof"}

ServerTypeOK ==
  /\ kind \in Kinds
  /\ {active, closed} \subseteq BOOLEAN
  /\ listener \in {"bound", "listening", "closed"}
  /\ clients \subseteq Socks
  /\ apc \in {"listen", "activate", "spawn", "loop", "accepted", "add", "dispatch", "register", "clear", "serving", "close", "end"}
  /\ asock \in Socks \cup {None}
  /\ kpc \in [{Main, User} -> {"never", "idle", "listener", "copy", "shut", "mark", "pool",
                               "join", "done"}]
  /\ kset \in [{Main, User} -> SUBSET Socks]
  /\ sock \in [Socks -> {"out", "waiting", "open", "eof", "shut"}]
  /\ thread \in [Socks -> {"none", "authenticate", "serve", "finally", "ended"}]
  /\ late \subseteq Socks

ServerInit ==
  /\ kind \in Kinds
  /\ active = FALSE /\ closed = FALSE /\ listener = "bound"
  /\ clients = {}
  /\ apc = "listen" /\ asock = None
  /\ kset = [k \in {Main, User} |-> {}]
  /\ thread = [s \in Socks |-> "none"]
  /\ late = {}

-----------------------------------------------------------------------------
(* The clients.                                                            *)

Connect(s) ==
  /\ sock[s] = "out"
  /\ listener = "listening"
  /\ sock' = [sock EXCEPT ![s] = "waiting"]
  /\ UNCHANGED <<kind, active, closed, listener, clients, apc, asock, kpc, kset, thread, late>>

Hangup(s) ==
  /\ sock[s] = "open"
  /\ sock' = [sock EXCEPT ![s] = "eof"]
  /\ UNCHANGED <<kind, active, closed, listener, clients, apc, asock, kpc, kset, thread, late>>

-----------------------------------------------------------------------------
(* start() begins with _listen, which _start_in_thread may have run before *)
(* it.  A close() that comes first has closed the listener, and listen()   *)
(* raises out of start(); one that comes in between is forgotten when      *)
(* `active` is set.                                                        *)

Starting(label) ==
  /\ apc = label
  /\ UNCHANGED <<kind, closed, clients, asock, kpc, kset, sock, thread, late>>

Listen ==
  /\ Starting("listen")
  /\ UNCHANGED active
  /\ \/ active /\ apc' = "loop" /\ UNCHANGED listener
     \/ ~active /\ listener # "closed" /\ listener' = "listening" /\ apc' = "activate"
     \/ ~active /\ listener = "closed" /\ apc' = "end" /\ UNCHANGED listener

Activate ==
  /\ Starting("activate")
  /\ active' = TRUE
  /\ apc' \in IF kind = "pool" THEN {"spawn"} ELSE {"listen", "loop"}
  /\ UNCHANGED listener

-----------------------------------------------------------------------------
(* Server.accept, called by start() as long as the server is active.       *)

AcceptLoop(label) ==
  /\ apc = "loop"
  /\ apc' = label
  /\ UNCHANGED <<kind, active, closed, listener, clients, kpc, kset, thread, late>>

(* listener.accept() returned a socket.                                    *)
Accepted(s) ==
  /\ sock[s] = "waiting"
  /\ listener = "listening"
  /\ AcceptLoop("accepted")
  /\ asock' = s
  /\ sock' = [sock EXCEPT ![s] = "open"]

(* The loop sees that `active` is gone, or accept() of the closed listener *)
(* raises EOFError; either way start() goes on to its `finally`.           *)
AcceptEnds ==
  /\ ~active \/ listener = "closed"
  /\ AcceptLoop("close")
  /\ kpc[Main] = "idle"
  /\ UNCHANGED <<asock, sock>>

(* KeyboardInterrupt: start() goes on to its `finally` while the server is *)
(* as active as before.                                                    *)
Interrupt ==
  /\ AcceptLoop("close")
  /\ kpc[Main] = "idle"
  /\ UNCHANGED <<asock, sock>>

(* A socket accepted too late is dropped, and closed with its last         *)
(* reference.                                                              *)
CheckActive ==
  /\ apc = "accepted"
  /\ IF active
       THEN apc' = "add" /\ UNCHANGED <<asock, sock>>
       ELSE apc' = "loop" /\ asock' = None /\ sock' = [sock EXCEPT ![asock] = "shut"]
  /\ UNCHANGED <<kind, active, closed, listener, clients, kpc, kset, thread, late>>

(* self.clients.add(sock): a close() may have gone through them by now.    *)
AddClient ==
  /\ apc = "add"
  /\ clients' = clients \cup {asock}
  /\ late' = IF closed \/ \E k \in {Main, User} : kpc[k] \in {"shut", "mark", "pool", "join"}
               THEN late \cup {asock} ELSE late
  /\ apc' = "dispatch"
  /\ UNCHANGED <<kind, active, closed, listener, asock, kpc, kset, sock, thread>>

(* _accept_method: a thread of its own, or the main thread itself.         *)
Dispatch(next) ==
  /\ apc = "dispatch"
  /\ thread' = [thread EXCEPT ![asock] = "authenticate"]
  /\ apc' = next
  /\ asock' = None
  /\ UNCHANGED <<kind, active, closed, listener, kpc, kset, sock, late>>

Spawn ==
  /\ kind \in {"threaded", "oneshot"}
  /\ Dispatch(IF kind = "oneshot" THEN "serving" ELSE "loop")
  /\ UNCHANGED clients

(* The parent of a forked child closes its own copy of the socket, which   *)
(* leaves the child's connection as it is.                                 *)
Fork ==
  /\ kind = "forking"
  /\ Dispatch("loop")
  /\ clients' = clients \ {asock}

(* _authenticate_and_serve_client: the authenticator may refuse.           *)
Authenticate(s) ==
  /\ thread[s] = "authenticate"
  /\ \E next \in {"serve", "finally"} : thread' = [thread EXCEPT ![s] = next]
  /\ UNCHANGED <<kind, active, closed, listener, clients, apc, asock, kpc, kset, sock, late>>

(* serve_all ends with an EOFError.                                        *)
ServeEnds(s) ==
  /\ thread[s] = "serve"
  /\ sock[s] # "open"
  /\ thread' = [thread EXCEPT ![s] = "finally"]
  /\ UNCHANGED <<kind, active, closed, listener, clients, apc, asock, kpc, kset, sock, late>>

(* The `finally` of the serving thread; a one-shot server closes next.     *)
ClientDone(s) ==
  /\ thread[s] = "finally"
  /\ thread' = [thread EXCEPT ![s] = "ended"]
  /\ sock' = [sock EXCEPT ![s] = "shut"]
  /\ clients' = IF kind = "forking" THEN clients ELSE clients \ {s}
  /\ apc' = IF kind = "oneshot" THEN "close" ELSE apc
  /\ UNCHANGED <<kind, active, closed, listener, asock, kpc, kset, late>>

-----------------------------------------------------------------------------
(* Server.close.  Each call goes through the same steps; the flag _closed  *)
(* that makes a further call return at once is set by the last of them.    *)

CloseGoto(k, label) == kpc' = [kpc EXCEPT ![k] = label]

CloseBegins(k) ==
  /\ kpc[k] = "idle"
  /\ k = Main => apc = "close"
  /\ IF closed
       THEN CloseGoto(k, "pool") /\ UNCHANGED active
       ELSE CloseGoto(k, "listener") /\ active' = FALSE
  /\ UNCHANGED <<kind, closed, listener, clients, apc, asock, kset, sock, thread, late>>

(* A client still waiting in the listener's backlog is reset.              *)
CloseListener(k) ==
  /\ kpc[k] = "listener"
  /\ listener' = "closed"
  /\ sock' = [s \in Socks |-> IF sock[s] = "waiting" THEN "shut" ELSE sock[s]]
  /\ CloseGoto(k, "copy")
  /\ UNCHANGED <<kind, active, closed, clients, apc, asock, kset, thread, late>>

RemainingCleared == {}

Remaining == clients

CopyClients(k) ==
  /\ kpc[k] = "copy"
  /\ kset' = [kset EXCEPT ![k] = Remaining]
  /\ CloseGoto(k, "shut")
  /\ UNCHANGED <<kind, active, closed, listener, clients, apc, asock, sock, thread, late>>

(* shutdown() of a socket that is not connected any more is ignored.       *)
ShutOne(k) ==
  /\ kpc[k] = "shut"
  /\ \E s \in kset[k] :
       /\ sock' = [sock EXCEPT ![s] = "shut"]
       /\ kset' = [kset EXCEPT ![k] = @ \ {s}]
  /\ UNCHANGED <<kind, active, closed, listener, clients, apc, asock, kpc, thread, late>>

ClientsShut(k) ==
  /\ kpc[k] = "shut"
  /\ kset[k] = {}
  /\ clients' = {}
  /\ CloseGoto(k, "mark")
  /\ UNCHANGED <<kind, active, closed, listener, apc, asock, kset, sock, thread, late>>

MarkClosed(k) ==
  /\ kpc[k] = "mark"
  /\ closed' = TRUE
  /\ CloseGoto(k, "pool")
  /\ UNCHANGED <<kind, active, listener, clients, apc, asock, kset, sock, thread, late>>

(* close() of the other classes ends here; start() returns with its own.   *)
CloseReturns(k) ==
  /\ kpc[k] = "pool"
  /\ kind # "pool"
  /\ CloseGoto(k, "done")
  /\ apc' = IF k = Main THEN "end" ELSE apc
  /\ UNCHANGED <<kind, active, closed, listener, clients, asock, kset, sock, thread, late>>

CloseStep(k) ==
  \/ CloseListener(k) \/ CopyClients(k) \/ ShutOne(k) \/ ClientsShut(k) \/ MarkClosed(k)
  \/ CloseReturns(k) \/ (k = Main /\ CloseBegins(k))

MainStep == Listen \/ Activate \/ AcceptEnds \/ CheckActive \/ AddClient \/ Spawn \/ Fork

ThreadStep(s) == Authenticate(s) \/ ServeEnds(s) \/ ClientDone(s)

ServerNext ==
  \/ \E s \in Socks : Connect(s) \/ Hangup(s) \/ Accepted(s) \/ ThreadStep(s)
  \/ MainStep
  \/ CloseBegins(User) \/ Interrupt
  \/ \E k \in {Main, User} : CloseStep(k)
=============================================================================
