------------------------------- MODULE Serve -------------------------------
(***************************************************************************)
(* One side of a Connection whose threads share the receiving end:         *)
(* Connection.serve, Connection._dispatch and AsyncResult.wait.  A thread  *)
(* is a client, which makes synchronous requests, or it serves: a looper   *)
(* calls serve(None) for ever (serve_threaded), a poller calls poll_all    *)
(* once, and the background thread is that of a BgServingThread.  A thread *)
(* is a stack of serve activations: handling a request may make a nested   *)
(* synchronous request, and unboxing a reply that carries an unknown       *)
(* reference makes one (HANDLE_INSPECT) while the thread keeps the receive *)
(* lock.                                                                   *)
(*                                                                         *)
(* The peer is the environment: it answers requests in any order, sends    *)
(* requests of its own and may disconnect.  Channels are FIFO, which is    *)
(* what SendQueue implements.                                              *)
(***************************************************************************)
EXTENDS Naturals, Sequences, FiniteSets

CONSTANTS
  Threads,
  MaxCalls,           \* bound: requests this side makes, nested ones included
  MaxInspects,        \* bound: requests HANDLE_INSPECT this side makes
  InspectKinds,       \* how the peer answers a HANDLE_INSPECT
  Setups,             \* how the side is used
  None

Seqs == 1..(MaxCalls + MaxInspects)

(* A setup says what the threads do, whether a BgServingThread has been    *)
(* started, whether requests have a sync_request_timeout, and what the peer*)
(* does: how many requests of its own it makes, how many of its replies    *)
(* carry an unknown reference, how it answers, and whether it may          *)
(* disconnect.                                                             *)
ASSUME ServeAssumption ==
  /\ None \notin Threads \cup Seqs
  /\ MaxCalls \in Nat /\ MaxInspects \in Nat
  /\ InspectKinds \subseteq {"reply", "exception"}
  /\ Setups \subseteq [clients : SUBSET Threads, loopers : SUBSET Threads,
                      pollers : SUBSET Threads, background : SUBSET Threads,
                      timed : BOOLEAN, requests : Nat, refs : 0..MaxInspects,
                      kinds : SUBSET {"reply", "exception"}, mayClose : BOOLEAN]

VARIABLES
  setup,      \* one of Setups, chosen at the start
  stack,      \* the serve activations of each thread, innermost last
  holder,     \* _recvlock, an RLock: its owner ...
  depth,      \* ... and how often the owner has acquired it
  inbox,      \* messages on their way from the peer
  asked,      \* what the peer knows of each request of ours
  callbacks,  \* _request_callbacks
  result,     \* of each AsyncResult: "none" until _is_ready
  expired,    \* the AsyncResults whose _ttl has run out
  nextSeq,    \* _seqcounter; HANDLE_INSPECT requests ...
  nextInspect,\* ... are numbered after all the others, to bound them apart
  open,       \* the stream has not been closed at this side
  eof,        \* the peer has disconnected
  closed,     \* _closed
  requested,  \* requests the peer has made
  refs,       \* replies with an unknown reference the peer has sent
  bg          \* the BgServingThread

vars == <<setup, stack, holder, depth, inbox, asked, callbacks, result, expired, nextSeq, nextInspect,
          open, eof, closed, requested, refs, bg>>

Clients == setup.clients
Serving == setup.loopers \cup setup.pollers \cup setup.background

lockVars == <<holder, depth>>
seqVars  == <<nextSeq, nextInspect>>
peerVars == <<asked, eof, requested, refs>>
connVars == <<open, closed, setup, bg>>

Message ==
  [kind : {"reply", "exception"}, seq : Seqs, ref : BOOLEAN]
    \cup [kind : {"request"}, seq : {None}, ref : {FALSE}]

(* A wait loop is at its head before the first serve and after one that    *)
(* returned True or False.                                                 *)
Heads == {"head", "true", "false"}

Labels == Heads \cup
  {"send",       \* _async_request has registered the callback
   "enter",      \* found the result not ready, calls serve
   "check",      \* serve: lock not acquired, inside `with _recv_event`
   "sleep",      \* ... and still waiting
   "asleep",     \* in _recv_event.wait
   "woken",      \* notified
   "got",        \* lock acquired
   "unlucky",    \* lock released again, about to notify
   "poll",       \* in channel.poll and channel.recv
   "unbox",      \* _dispatch of a reply, lock held
   "callback",   \* about to call _seq_request_callback
   "unlock",     \* reply dispatched, lock held
   "handle",     \* in _dispatch_request
   "eof",        \* recv raised EOFError, lock released, about to close
   "notify"}     \* in the finally clause

Frame == [waits : Seqs \cup {None}, pc : Labels, data : Message \cup {None},
          raising : BOOLEAN]

TypeOK ==
  /\ setup \in Setups
  /\ stack \in [Threads -> Seq(Frame)]
  /\ holder \in Threads \cup {None}
  /\ depth \in Nat
  /\ inbox \in Seq(Message)
  /\ asked \in [Seqs -> {"no", "yes", "answered"}]
  /\ callbacks \subseteq Seqs
  /\ result \in [Seqs -> {"none", "reply", "exception"}]
  /\ expired \subseteq Seqs
  /\ nextSeq \in 1..(MaxCalls + 1)
  /\ nextInspect \in (MaxCalls + 1)..(MaxCalls + MaxInspects + 1)
  /\ {open, eof, closed} \subseteq BOOLEAN
  /\ requested \in 0..setup.requests
  /\ refs \in 0..setup.refs
  /\ bg \in [active : BOOLEAN, told : BOOLEAN, stop : {"no", "joining", "stopped", "refused"}]

NewFrame(s, pc) == [waits |-> s, pc |-> pc, data |-> None, raising |-> FALSE]

Init ==
  /\ setup \in Setups
  /\ stack = [t \in Threads |-> IF t \in Serving
                               THEN <<NewFrame(None, "head")>> ELSE <<>>]
  /\ holder = None
  /\ depth = 0
  /\ inbox = <<>>
  /\ asked = [s \in Seqs |-> "no"]
  /\ callbacks = {}
  /\ result = [s \in Seqs |-> "none"]
  /\ expired = {}
  /\ nextSeq = 1
  /\ nextInspect = MaxCalls + 1
  /\ open = TRUE
  /\ eof = FALSE
  /\ closed = FALSE
  /\ requested = 0
  /\ refs = 0
  /\ bg = [active |-> TRUE, told |-> FALSE, stop |-> "no"]

-----------------------------------------------------------------------------
(* Before some operators stands a variant, named for what it gets wrong,   *)
(* that a slip in the code would make of it.  The properties tell the two  *)
(* apart.                                                                  *)

Top(t)     == stack[t][Len(stack[t])]
At(t, pcs) == stack[t] # <<>> /\ Top(t).pc \in pcs

(* The innermost frame of t becomes f, or goes to label pc.                *)
Become(t, f) == stack' = [stack EXCEPT ![t][Len(stack[t])] = f]
Goto(t, pc)  == Become(t, [Top(t) EXCEPT !.pc = pc])

Ready(s) == result[s] # "none"

WaitingForResult(t) ==
  LET s == Top(t).waits IN ~(s # None /\ Ready(s))

(* AsyncResult._waiting, and serve's default `lambda: True`.               *)
Waiting(t) ==
  LET s == Top(t).waits IN ~(s # None /\ (Ready(s) \/ s \in expired))

(* The lock of _recv_event is held from a failed acquire to the wait.      *)
CondFree == \A t \in Threads : ~At(t, {"check", "sleep"})

(* RLock.acquire(False) and RLock.release().                               *)
MayAcquire(t) == holder \in {None, t}

Acquire(t) ==
  /\ holder' = t
  /\ depth' = depth + 1

Unlock(t) ==
  /\ depth' = depth - 1
  /\ holder' = IF depth = 1 THEN None ELSE t

(* The innermost activation of t is left; raised tells whether by an       *)
(* exception.  A handler's exception is caught and sent, so only a stream  *)
(* that is closed by now passes one on; what unboxing raises is not caught *)
(* and skips both the callback and the release.                            *)
AfterHandler(f) == [f EXCEPT !.pc = "notify", !.raising = ~open]

AfterUnbox(f, raised) ==
  IF raised THEN [f EXCEPT !.pc = "notify", !.raising = TRUE]
            ELSE [f EXCEPT !.pc = "callback"]

Left(t, raised) ==
  LET n == Len(stack[t]) - 1
      f == stack[t][n]
  IN  IF n = 0 THEN <<>>
      ELSE Append(SubSeq(stack[t], 1, n - 1),
                  IF f.pc = "handle" THEN AfterHandler(f) ELSE AfterUnbox(f, raised))

Leave(t, raised) == stack' = [stack EXCEPT ![t] = Left(t, raised)]

-----------------------------------------------------------------------------
(* async_request: the callback is registered before the message is sent.   *)
Register(t, s) ==
  /\ callbacks' = callbacks \cup {s}
  /\ stack' = [stack EXCEPT ![t] = Append(@, NewFrame(s, "send"))]
  /\ UNCHANGED <<lockVars, inbox, result, expired, connVars, peerVars>>

RegisterCall(t) ==
  /\ nextSeq <= MaxCalls
  /\ nextSeq' = nextSeq + 1
  /\ Register(t, nextSeq)
  /\ UNCHANGED nextInspect

Call(t) ==
  /\ t \in Clients /\ stack[t] = <<>>
  /\ RegisterCall(t)

(* On a closed stream _send raises EOFError and the callback is withdrawn. *)
SendRequest(t) ==
  LET s == Top(t).waits IN
  /\ At(t, {"send"})
  /\ IF open
       THEN /\ asked' = [asked EXCEPT ![s] = "yes"]
            /\ Goto(t, "head")
            /\ UNCHANGED callbacks
       ELSE /\ callbacks' = callbacks \ {s}
            /\ Leave(t, TRUE)
            /\ UNCHANGED asked
  /\ UNCHANGED <<lockVars, inbox, result, expired, seqVars, connVars, eof, requested, refs>>

(* AsyncResult.wait leaves its loop: value returns the object or raises    *)
(* the exception or AsyncResultTimeout.                                    *)
WaitReturns(t) ==
  /\ At(t, Heads)
  /\ ~Waiting(t)
  /\ Leave(t, result[Top(t).waits] # "reply")
  /\ UNCHANGED <<lockVars, inbox, callbacks, result, expired, seqVars, connVars, peerVars>>

(* The loop of _bg_server ends once it is stopped, that of poll_all, whose *)
(* timeout is 0 unless told otherwise, after one serve.                    *)
LoopOverUnstopped(t) == t \in setup.pollers /\ Top(t).pc # "head"

LoopOver(t) ==
  \/ t \in setup.background /\ ~bg.active
  \/ t \in setup.pollers /\ Top(t).pc # "head"

LoopEnds(t) ==
  /\ At(t, Heads) /\ Top(t).waits = None
  /\ LoopOver(t)
  /\ Leave(t, FALSE)
  /\ UNCHANGED <<lockVars, inbox, callbacks, result, expired, seqVars, connVars, peerVars>>

CallServe(t) ==
  /\ At(t, Heads)
  /\ Waiting(t)
  /\ Top(t).waits = None => ~LoopOver(t)
  /\ Become(t, [Top(t) EXCEPT !.data = None, !.pc = "enter"])
  /\ UNCHANGED <<lockVars, inbox, callbacks, result, expired, seqVars, connVars, peerVars>>

(* serve: with _recv_event, try to get the receive lock.                   *)
ServeEnter(t) ==
  /\ At(t, {"enter"})
  /\ CondFree
  /\ Goto(t, IF MayAcquire(t) THEN "got" ELSE "check")
  /\ IF MayAcquire(t) THEN Acquire(t) ELSE UNCHANGED lockVars
  /\ UNCHANGED <<inbox, callbacks, result, expired, seqVars, connVars, peerVars>>

(* poll_all serves without waiting for the lock.                           *)
WaitsForLock(t) == Top(t).waits # None \/ t \notin setup.pollers

CheckWaiting(t) ==
  /\ At(t, {"check"})
  /\ Goto(t, IF WaitsForLock(t) /\ Waiting(t) THEN "sleep" ELSE "false")
  /\ UNCHANGED <<lockVars, inbox, callbacks, result, expired, seqVars, connVars, peerVars>>

CondWait(t) ==
  /\ At(t, {"sleep"})
  /\ Goto(t, "asleep")
  /\ UNCHANGED <<lockVars, inbox, callbacks, result, expired, seqVars, connVars, peerVars>>

(* Condition.wait returns True when notified, once it has its lock back.   *)
Wake(t) ==
  /\ At(t, {"woken"})
  /\ CondFree
  /\ Goto(t, "true")
  /\ UNCHANGED <<lockVars, inbox, callbacks, result, expired, seqVars, connVars, peerVars>>

(* The time of a serve may be over: that of a request's wait once it has   *)
(* expired, that of a poll or of a serve(0.0) at once.                     *)
Impatient(t) == Top(t).waits = None /\ t \in setup.pollers \cup setup.background

WakeTimeout(t) ==
  /\ At(t, {"asleep"})
  /\ Top(t).waits \in expired \/ Impatient(t)
  /\ CondFree
  /\ Goto(t, "false")
  /\ UNCHANGED <<lockVars, inbox, callbacks, result, expired, seqVars, connVars, peerVars>>

(* The result may have arrived while the thread was getting the lock.      *)
AfterAcquireSilent(t) == IF Waiting(t) THEN "poll" ELSE "false"

AfterAcquire(t) == IF Waiting(t) THEN "poll" ELSE "unlucky"

GiveUpLockForgotten(t) == UNCHANGED lockVars

GiveUpLock(t) == IF Waiting(t) THEN UNCHANGED lockVars ELSE Unlock(t)

Recheck(t) ==
  /\ At(t, {"got"})
  /\ Goto(t, AfterAcquire(t))
  /\ GiveUpLock(t)
  /\ UNCHANGED <<inbox, callbacks, result, expired, seqVars, connVars, peerVars>>

(* channel.recv, and the start of _dispatch: the lock is released at once  *)
(* for a request and for an exception, and kept for a reply.               *)
KeepsLockNever(m) == FALSE

KeepsLock(m) == m.kind = "reply"

FirstLabel(m) ==
  IF m.kind = "request" THEN "handle" ELSE IF m.kind = "reply" THEN "unbox" ELSE "callback"

Receive(t) ==
  /\ At(t, {"poll"})
  /\ open /\ inbox # <<>>
  /\ Become(t, [Top(t) EXCEPT !.data = Head(inbox), !.pc = FirstLabel(Head(inbox))])
  /\ inbox' = Tail(inbox)
  /\ IF KeepsLock(Head(inbox)) THEN UNCHANGED lockVars ELSE Unlock(t)
  /\ UNCHANGED <<callbacks, result, expired, seqVars, connVars, peerVars>>

(* poll(timeout) comes back empty.                                         *)
PollTimeout(t) ==
  /\ At(t, {"poll"})
  /\ Top(t).waits \in expired \/ (Impatient(t) /\ open /\ ~eof /\ inbox = <<>>)
  /\ Unlock(t)
  /\ Goto(t, "notify")
  /\ UNCHANGED <<inbox, callbacks, result, expired, seqVars, connVars, peerVars>>

(* recv at the end of the stream closes it and raises, and so does poll on *)
(* a stream that is closed already.                                        *)
ReceiveEOF(t) ==
  /\ At(t, {"poll"})
  /\ open => eof /\ inbox = <<>>
  /\ open' = FALSE
  /\ Unlock(t)
  /\ Goto(t, "eof")
  /\ UNCHANGED <<inbox, callbacks, result, expired, seqVars, closed, setup, bg, peerVars>>

(* close(): HANDLE_CLOSE cannot be sent any more; _cleanup forgets the     *)
(* callbacks and releases the receive lock once if this thread has it.     *)
CloseAfterEOF(t) ==
  /\ At(t, {"eof"})
  /\ Become(t, [Top(t) EXCEPT !.pc = "notify", !.raising = TRUE])
  /\ closed' = TRUE
  /\ callbacks' = IF closed THEN callbacks ELSE {}
  /\ IF ~closed /\ holder = t THEN Unlock(t) ELSE UNCHANGED lockVars
  /\ UNCHANGED <<inbox, result, expired, seqVars, open, setup, bg, peerVars>>

(* _unbox of a reply by value, or with an unknown reference.               *)
UnboxValue(t) ==
  /\ At(t, {"unbox"})
  /\ ~Top(t).data.ref
  /\ Goto(t, "callback")
  /\ UNCHANGED <<lockVars, inbox, callbacks, result, expired, seqVars, connVars, peerVars>>

UnboxReference(t) ==
  /\ At(t, {"unbox"})
  /\ Top(t).data.ref
  /\ nextInspect <= MaxCalls + MaxInspects
  /\ nextInspect' = nextInspect + 1
  /\ Register(t, nextInspect)
  /\ UNCHANGED nextSeq

(* _seq_request_callback, and AsyncResult.__call__: a late result is       *)
(* dropped.                                                                *)
Callback(t) ==
  LET m == Top(t).data
      accepted == m.seq \in callbacks /\ m.seq \notin expired
  IN
  /\ At(t, {"callback"})
  /\ callbacks' = callbacks \ {m.seq}
  /\ result' = IF accepted THEN [result EXCEPT ![m.seq] = m.kind] ELSE result
  /\ Goto(t, IF KeepsLock(m) THEN "unlock" ELSE "notify")
  /\ UNCHANGED <<lockVars, inbox, expired, seqVars, connVars, peerVars>>

ReleaseAfterReply(t) ==
  /\ At(t, {"unlock"})
  /\ Unlock(t)
  /\ Goto(t, "notify")
  /\ UNCHANGED <<inbox, callbacks, result, expired, seqVars, connVars, peerVars>>

(* _dispatch_request: the handler ends and its answer is sent, or it makes *)
(* a synchronous request of its own first.                                 *)
HandlerEnds(t) ==
  /\ At(t, {"handle"})
  /\ Become(t, AfterHandler(Top(t)))
  /\ UNCHANGED <<lockVars, inbox, callbacks, result, expired, seqVars, connVars, peerVars>>

HandlerCalls(t) ==
  /\ At(t, {"handle"})
  /\ RegisterCall(t)

(* notify_all, then serve returns or passes the exception on; the unlucky  *)
(* thread has notified and returns False.                                  *)
Notified(u) ==
  IF At(u, {"asleep"}) THEN [stack[u] EXCEPT ![Len(stack[u])].pc = "woken"] ELSE stack[u]

(* What leaves the serve of _bg_server: it is over, and says so unless it  *)
(* has been stopped.                                                       *)
Raised(t) ==
  IF t \in setup.background /\ Len(stack[t]) = 1 /\ Top(t).raising
    THEN [bg EXCEPT !.active = FALSE, !.told = bg.active] ELSE bg

Notify(t) ==
  LET f    == Top(t)
      pc   == IF f.pc = "notify" /\ f.data # None THEN "true" ELSE "false"
      left == IF f.raising THEN Left(t, TRUE)
                           ELSE [stack[t] EXCEPT ![Len(stack[t])].pc = pc]
  IN
  /\ At(t, {"notify", "unlucky"})
  /\ CondFree
  /\ stack' = [u \in Threads |-> IF u = t THEN left ELSE Notified(u)]
  /\ bg' = Raised(t)
  /\ UNCHANGED <<lockVars, inbox, callbacks, result, expired, seqVars, open, closed, setup, peerVars>>

(* BgServingThread.stop: it joins the thread, or fails its assertion if    *)
(* the thread has ended by itself.                                         *)
Stop ==
  /\ setup.background # {} /\ bg.stop = "no"
  /\ bg' = [bg EXCEPT !.active = FALSE, !.stop = IF bg.active THEN "joining" ELSE "refused"]
  /\ UNCHANGED <<setup, stack, lockVars, inbox, callbacks, result, expired, seqVars, open, closed, peerVars>>

Joined ==
  /\ bg.stop = "joining" /\ \A t \in setup.background : stack[t] = <<>>
  /\ bg' = [bg EXCEPT !.stop = "stopped"]
  /\ UNCHANGED <<setup, stack, lockVars, inbox, callbacks, result, expired, seqVars, open, closed, peerVars>>

Step(t) ==
  \/ SendRequest(t)
  \/ WaitReturns(t)
  \/ CallServe(t)
  \/ LoopEnds(t)
  \/ ServeEnter(t)
  \/ CheckWaiting(t)
  \/ CondWait(t)
  \/ Wake(t)
  \/ WakeTimeout(t)
  \/ Recheck(t)
  \/ Receive(t)
  \/ PollTimeout(t)
  \/ ReceiveEOF(t)
  \/ CloseAfterEOF(t)
  \/ UnboxValue(t)
  \/ UnboxReference(t)
  \/ Callback(t)
  \/ ReleaseAfterReply(t)
  \/ HandlerEnds(t)
  \/ HandlerCalls(t)
  \/ Notify(t)

-----------------------------------------------------------------------------
(* The peer, and time.                                                     *)
Deliver(m) ==
  /\ ~eof
  /\ inbox' = Append(inbox, m)
  /\ UNCHANGED <<stack, lockVars, callbacks, result, expired, seqVars, connVars, eof>>

Answer(s) ==
  \E kind \in (IF s > MaxCalls THEN InspectKinds ELSE setup.kinds), ref \in BOOLEAN :
    /\ asked[s] = "yes"
    /\ ref => kind = "reply" /\ s <= MaxCalls /\ refs < setup.refs
    /\ asked' = [asked EXCEPT ![s] = "answered"]
    /\ refs' = IF ref THEN refs + 1 ELSE refs
    /\ Deliver([kind |-> kind, seq |-> s, ref |-> ref])
    /\ UNCHANGED requested

PeerRequest ==
  /\ requested < setup.requests
  /\ requested' = requested + 1
  /\ Deliver([kind |-> "request", seq |-> None, ref |-> FALSE])
  /\ UNCHANGED <<asked, refs>>

PeerCloses ==
  /\ setup.mayClose /\ ~eof
  /\ eof' = TRUE
  /\ UNCHANGED <<stack, lockVars, inbox, asked, callbacks, result, expired, seqVars,
                 connVars, requested, refs>>

(* The timeout of a request runs out while some thread waits for it.       *)
Expire(s) ==
  /\ setup.timed
  /\ asked[s] # "no" /\ s \notin expired
  /\ \E t \in Threads : \E i \in 1..Len(stack[t]) : stack[t][i].waits = s
  /\ expired' = expired \cup {s}
  /\ UNCHANGED <<stack, lockVars, inbox, callbacks, result, seqVars, connVars, peerVars>>

Next ==
  \/ \E t \in Threads : Call(t)
  \/ \E t \in Threads : Step(t)
  \/ Stop \/ Joined
  \/ \E s \in Seqs : Answer(s) \/ Expire(s)
  \/ PeerRequest
  \/ PeerCloses

Spec == Init /\ [][Next]_vars

(* Threads run and handlers end.  Time passes where requests have a        *)
(* timeout; where they have none the peer answers what it is asked.  There *)
(* are finitely many requests, so one condition is enough for all of them. *)
Passes == \E s \in Seqs : IF setup.timed THEN Expire(s) ELSE Answer(s)

FairSpec ==
  /\ Spec
  /\ \A t \in Threads : WF_vars(Step(t))
  /\ WF_vars(Passes)
  /\ WF_vars(Joined)

-----------------------------------------------------------------------------
(* The activations of t that have acquired the receive lock and not yet    *)
(* released it.                                                            *)
Holding(t) ==
  {i \in 1..Len(stack[t]) :
     \/ stack[t][i].pc \in {"got", "poll", "unbox", "unlock"}
     \/ stack[t][i].pc = "callback" /\ KeepsLock(stack[t][i].data)}

(* A HANDLE_INSPECT has raised or timed out, and with it the unboxing of a *)
(* reply: nobody releases the receive lock for that reply (protocol.py:421).*)
InspectFailed ==
  \E s \in Seqs : s > MaxCalls /\ (result[s] = "exception" \/ s \in expired)

(* On an open connection the receive lock is held exactly by the           *)
(* activations that are receiving or dispatching a reply: none is released *)
(* early, and none is left behind by a thread that has moved on, unless a  *)
(* HANDLE_INSPECT has failed.                                              *)
LockBalanced ==
  ~closed /\ ~InspectFailed =>
    \A t \in Threads : Cardinality(Holding(t)) = IF holder = t THEN depth ELSE 0

(* The type invariant, and the lock.                                       *)
Inv == TypeOK /\ LockBalanced

(* No thread blocks in poll for a reply that has arrived already: between  *)
(* its check under the lock and its poll no other thread can complete it.  *)
(* Answers that are exceptions do not have this, see ServeLostException.   *)
NoPollForReadyResult ==
  \A t \in Threads :
    At(t, {"poll"}) /\ Top(t).waits # None => result[Top(t).waits] # "reply"

(* The receive lock has been left behind: its owner has acquired it more   *)
(* often than it has activations to release it.  A HANDLE_INSPECT that     *)
(* fails does that, and so does the end of the stream inside of two nested *)
(* unboxings, because _cleanup releases the lock once.                     *)
LeftBehind == holder # None /\ Cardinality(Holding(holder)) < depth

(* A thread asleep on _recv_event has another one, not asleep itself, that *)
(* will notify, unless the receive lock has been left behind.              *)
WillNotify == {"got", "unlucky", "poll", "unbox", "callback", "unlock", "handle", "eof",
               "notify"}

NoLostWakeup ==
  (\E t \in Threads : At(t, {"asleep"})) /\ ~LeftBehind =>
     \E u \in Threads : /\ ~At(u, {"asleep"})
                        /\ \E i \in 1..Len(stack[u]) : stack[u][i].pc \in WillNotify

(* Every synchronous request returns, with its result or an exception.     *)
CallsReturn ==
  \A t \in Threads : (t \in Clients /\ stack[t] # <<>>) ~> (stack[t] = <<>>)

(* BackgroundEnds: stop() returns, whatever the thread is doing when it is *)
(* called; and the end of the connection comes to the callback, unless     *)
(* stop() is called first.                                                 *)
BackgroundEnds ==
  /\ (bg.stop = "joining") ~> (bg.stop = "stopped")
  /\ (eof /\ setup.background # {}) ~> (bg.told \/ bg.stop # "no")
=============================================================================
