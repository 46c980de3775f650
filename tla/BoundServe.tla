------------------------------ MODULE BoundServe ------------------------------
(***************************************************************************)
(* One side of a Connection with bind_threads: _serve_bound, _dispatch and *)
(* _send with thread identities, _serve_temporary.  Every message carries  *)
(* the thread that sends it and the thread it is for, if its sender is     *)
(* bound to one; the thread that receives hands it on.                     *)
(*                                                                         *)
(* A thread is a client, which makes synchronous requests, a looper        *)
(* (serve_all), or one of the executor's, which runs _serve_temporary.     *)
(* The peer is the environment and binds its threads by the same rules: a  *)
(* thread of the peer handles a request of ours, or makes requests of its  *)
(* own, also while it handles one, and then to the thread that sent it.    *)
(***************************************************************************)
EXTENDS Naturals, Sequences, FiniteSets, SequencesExt

CONSTANTS
  Threads, Temps,   \* all threads, and those of the executor
  MaxCalls,         \* bound: requests this side makes
  MaxPeerCalls,     \* bound: requests the peer makes
  Setups,           \* how the side is used
  None

Calls     == 1..MaxCalls
PeerCalls == (MaxCalls + 1)..(MaxCalls + MaxPeerCalls)

Unbound == 0

(* A thread of the peer is named after the call that made it start.        *)
Remotes == Calls \cup PeerCalls

Message == [kind : {"request", "reply"}, seq : Remotes, from : Remotes,
            to : Threads \cup {Unbound}]

ASSUME BoundAssumption ==
  /\ MaxCalls \in Nat /\ MaxPeerCalls \in Nat
  /\ Temps \subseteq Threads /\ Threads \cap Nat = {}
  /\ None \notin Threads \cup Nat \cup Message
  /\ Setups \subseteq [clients : SUBSET (Threads \ Temps), loopers : SUBSET (Threads \ Temps),
                      calls : 0..MaxCalls, peerCalls : 0..MaxPeerCalls,
                      timed : BOOLEAN, mayClose : BOOLEAN]

VARIABLES
  setup,      \* one of Setups, chosen at the start
  stack,      \* the activations of each thread, innermost last
  occupation, \* _occupation_count of each thread
  remote,     \* _remote_thread_id
  event,      \* the threads whose _event is set
  deque,      \* _deque
  pool,       \* _thread_pool
  receiving,  \* _receiving
  inbox,      \* messages on their way from the peer
  ready,      \* our requests whose AsyncResult is ready
  expired,    \* ... and whose _ttl has run out
  nextCall,   \* the next request of ours ...
  peerNext,   \* ... and of the peer
  peer,       \* what each thread of the peer is at, innermost last
  eof,        \* the peer has disconnected
  closed      \* _closed, and the channel with it

threadVars == <<occupation, remote>>
poolVars   == <<event, deque, pool, receiving>>
resultVars == <<ready, expired>>
peerVars   == <<peerNext, peer, eof>>
vars == <<setup, stack, threadVars, poolVars, inbox, resultVars, nextCall, peerVars, closed>>

(* An activation: a request that waits, or the handler of one.             *)
Labels == {"send", "first", "loop", "pool", "recv", "closing", "handle"}

Frame == [pc : Labels, waits : Calls \cup {None}, data : Message \cup {None}]

TypeOK ==
  /\ setup \in Setups
  /\ stack \in [Threads -> Seq(Frame)]
  /\ occupation \in [Threads -> Nat]
  /\ remote \in [Threads -> Remotes \cup {Unbound}]
  /\ event \subseteq Threads
  /\ deque \in [Threads -> Seq(Message)]
  /\ pool \in Seq(Threads)
  /\ {receiving, eof, closed} \subseteq BOOLEAN
  /\ inbox \in Seq(Message)
  /\ ready \subseteq Calls /\ expired \subseteq Calls
  /\ nextCall \in 1..(MaxCalls + 1)
  /\ peerNext \in (MaxCalls + 1)..(MaxCalls + MaxPeerCalls + 1)
  /\ peer \in [Remotes -> Seq([seq : Remotes, thread : Threads \cup {None}])]

NewFrame(s, pc) == [pc |-> pc, waits |-> s, data |-> None]

(* A thread as _get_thread finds or makes it.                              *)
NewThreads ==
  /\ occupation = [t \in Threads |-> 0]
  /\ remote = [t \in Threads |-> Unbound]
  /\ event = {}
  /\ deque = [t \in Threads |-> <<>>]

Init ==
  /\ setup \in Setups
  /\ stack = [t \in Threads |-> IF t \in setup.loopers THEN <<NewFrame(None, "loop")>> ELSE <<>>]
  /\ NewThreads
  /\ pool = <<>> /\ receiving = FALSE
  /\ inbox = <<>>
  /\ ready = {} /\ expired = {}
  /\ nextCall = 1 /\ peerNext = MaxCalls + 1
  /\ peer = [r \in Remotes |-> <<>>]
  /\ eof = FALSE /\ closed = FALSE

-----------------------------------------------------------------------------
(* Before some operators stands a variant, named for what it gets wrong,   *)
(* that a slip in the code would make of it.                               *)
Top(t)     == Last(stack[t])
At(t, pcs) == stack[t] # <<>> /\ Top(t).pc \in pcs

With(t, f)   == [stack EXCEPT ![t][Len(stack[t])] = f]
Goto(t, pc)  == stack' = With(t, [Top(t) EXCEPT !.pc = pc])
Push(t, f)   == stack' = [stack EXCEPT ![t] = Append(@, f)]
Unwind(t)    == stack' = [stack EXCEPT ![t] = <<>>]

(* One transaction less: a thread with none left is not bound any more.    *)
VacateUnbound(t, bound) ==
  /\ occupation' = [occupation EXCEPT ![t] = @ - 1]
  /\ remote' = [remote EXCEPT ![t] = Unbound]

Vacate(t, bound) ==
  /\ occupation' = [occupation EXCEPT ![t] = @ - 1]
  /\ remote' = [remote EXCEPT ![t] = IF occupation[t] = 1 THEN Unbound ELSE bound]

(* _dispatch by t of a message from a thread of the peer: t is bound to it *)
(* now; a request starts its handler, a reply completes its AsyncResult,   *)
(* unless that has expired.                                                *)
Dispatch(t, m) ==
  IF m.kind = "request"
    THEN /\ remote' = [remote EXCEPT ![t] = m.from]
         /\ occupation' = [occupation EXCEPT ![t] = @ + 1]
         /\ stack' = With(t, [Top(t) EXCEPT !.pc = "handle", !.data = m])
         /\ UNCHANGED ready
    ELSE /\ Vacate(t, m.from)
         /\ Goto(t, "loop")
         /\ ready' = IF m.seq \in expired THEN ready ELSE ready \cup {m.seq}

(* What is first in the deque of t; the event is cleared with the last.    *)
TakeOwn(t) ==
  /\ Dispatch(t, Head(deque[t]))
  /\ deque' = [deque EXCEPT ![t] = Tail(@)]
  /\ event' = IF Len(deque[t]) = 1 THEN event \ {t} ELSE event

(* The next thread of the pool to receive: the first whose event is not    *)
(* set.  A thread that timed out has stayed in the pool.                   *)
NobodyWoken == event

Woken ==
  LET i == SelectInSeq(pool, LAMBDA u : u \notin event) IN
  IF i = 0 THEN event ELSE event \cup {pool[i]}

-----------------------------------------------------------------------------
(* A synchronous request: the sender is occupied by it.  The peer hands it *)
(* to the thread it is bound to, or to a new one.                          *)
Call(t) ==
  /\ nextCall <= setup.calls
  /\ nextCall' = nextCall + 1
  /\ Push(t, NewFrame(nextCall, "send"))
  /\ UNCHANGED <<setup, threadVars, poolVars, inbox, resultVars, peerVars, closed>>

ClientCalls(t) == t \in setup.clients /\ stack[t] = <<>> /\ Call(t)

HandlerCalls(t) == At(t, {"handle"}) /\ Call(t)

SendRequest(t) ==
  LET s == Top(t).waits
      r == IF remote[t] = Unbound THEN s ELSE remote[t]
  IN
  /\ At(t, {"send"}) /\ ~closed
  /\ occupation' = [occupation EXCEPT ![t] = @ + 1]
  /\ peer' = [peer EXCEPT ![r] = Append(@, [seq |-> s, thread |-> t])]
  /\ Goto(t, "loop")
  /\ UNCHANGED <<setup, remote, poolVars, inbox, resultVars, nextCall, peerNext, eof, closed>>

(* What a thread of the peer is at once it has the answer to q.            *)
Without(items, q) == RemoveFirstMatch(items, LAMBDA item : item.seq = q)

(* The handler ends and its answer goes to the thread t is bound to, which *)
(* should be waiting for it.                                               *)
SendReply(t) ==
  LET r == remote[t]
      q == Top(t).data.seq
  IN
  /\ At(t, {"handle"}) /\ ~closed
  /\ Vacate(t, r)
  /\ peer' = [peer EXCEPT ![r] = Without(@, q)]
  /\ stack' = With(t, [Top(t) EXCEPT !.pc = "loop", !.data = None])
  /\ UNCHANGED <<setup, poolVars, inbox, resultVars, nextCall, peerNext, eof, closed>>

(* On a closed channel both raise EOFError, out of every activation.       *)
SendFails(t) ==
  /\ At(t, {"send", "handle"}) /\ closed
  /\ Unwind(t)
  /\ UNCHANGED <<setup, threadVars, poolVars, inbox, resultVars, nextCall, peerVars, closed>>

(* AsyncResult.wait ends, or _serve_temporary does.                        *)
Over(t) ==
  IF Top(t).waits # None THEN Top(t).waits \in ready \cup expired
                         ELSE t \in Temps /\ occupation[t] = 0

Return(t) ==
  /\ At(t, {"loop"}) /\ Over(t)
  /\ stack' = [stack EXCEPT ![t] = Front(@)]
  /\ UNCHANGED <<setup, threadVars, poolVars, inbox, resultVars, nextCall, peerVars, closed>>

-----------------------------------------------------------------------------
(* _serve_bound: a message of its own, else the pool, else the channel.    *)
HasMessage(t) == t \in event /\ deque[t] # <<>>

Serving(t) == At(t, {"first"}) \/ (At(t, {"loop"}) /\ ~Over(t))

ServeOwn(t) ==
  /\ Serving(t) /\ HasMessage(t)
  /\ TakeOwn(t)
  /\ UNCHANGED <<setup, pool, receiving, inbox, expired, nextCall, peerVars, closed>>

EnterPool(t) ==
  /\ Serving(t) /\ ~HasMessage(t) /\ receiving
  /\ pool' = Append(pool, t)
  /\ Goto(t, "pool")
  /\ UNCHANGED <<setup, threadVars, event, deque, receiving, inbox, resultVars, nextCall, peerVars,
                 closed>>

ReceiveAtOnce(t) ==
  /\ Serving(t) /\ ~HasMessage(t) /\ ~receiving
  /\ receiving' = TRUE
  /\ Goto(t, "recv")
  /\ UNCHANGED <<setup, threadVars, event, deque, pool, inbox, resultVars, nextCall, peerVars, closed>>

(* In the pool, with the event set: the same choice again.                 *)
PoolOwn(t) ==
  /\ At(t, {"pool"}) /\ HasMessage(t)
  /\ TakeOwn(t)
  /\ pool' = RemoveFirst(pool, t)
  /\ UNCHANGED <<setup, receiving, inbox, expired, nextCall, peerVars, closed>>

PoolReceives(t) ==
  /\ At(t, {"pool"}) /\ t \in event /\ deque[t] = <<>>
  /\ event' = event \ {t}
  /\ receiving' = TRUE
  /\ IF receiving THEN UNCHANGED <<stack, pool>>
                  ELSE Goto(t, "recv") /\ pool' = RemoveFirst(pool, t)
  /\ UNCHANGED <<setup, threadVars, deque, inbox, resultVars, nextCall, peerVars, closed>>

PoolTimeout(t) ==
  /\ At(t, {"pool"}) /\ t \notin event /\ Top(t).waits \in expired
  /\ Goto(t, "loop")
  /\ UNCHANGED <<setup, threadVars, poolVars, inbox, resultVars, nextCall, peerVars, closed>>

-----------------------------------------------------------------------------
(* The receiver and the next message.                                      *)
OccupiedIgnored(t) == FALSE

Occupied(t) == occupation[t] # 0

MeantElsewhere(t, m) == m.to \notin {Unbound, t}

(* For itself: another thread receives from now on.                        *)
ReceiveOwn(t) ==
  LET m == Head(inbox) IN
  /\ At(t, {"recv"}) /\ inbox # <<>> /\ ~closed
  /\ ~MeantElsewhere(t, m) /\ ~(m.to = Unbound /\ Occupied(t))
  /\ inbox' = Tail(inbox)
  /\ receiving' = FALSE
  /\ event' = Woken
  /\ Dispatch(t, m)
  /\ UNCHANGED <<setup, deque, pool, expired, nextCall, peerVars, closed>>

(* For another thread, which may not be serving now.                       *)
Hand(u, m) ==
  /\ deque' = [deque EXCEPT ![u] = Append(@, m)]
  /\ event' = event \cup {u}

HandOn(t) ==
  LET m == Head(inbox) IN
  /\ At(t, {"recv"}) /\ inbox # <<>> /\ ~closed
  /\ MeantElsewhere(t, m)
  /\ inbox' = Tail(inbox)
  /\ Hand(m.to, m)
  /\ UNCHANGED <<setup, stack, threadVars, pool, receiving, resultVars, nextCall, peerVars, closed>>

(* A thread of the executor starts with a message.                         *)
ServeTemporary(u, m) ==
  /\ stack[u] = <<>>
  /\ stack' = [stack EXCEPT ![u] = <<NewFrame(None, "first")>>]
  /\ Hand(u, m)

(* For any thread that is not occupied: one of the pool, or one of the     *)
(* executor, which runs _serve_temporary.                                  *)
FreeOrNot(u) == TRUE

Free(u) == ~Occupied(u) /\ u \notin event

HandToFree(t) ==
  LET m == Head(inbox)
      i == SelectInSeq(pool, Free)
  IN
  /\ At(t, {"recv"}) /\ inbox # <<>> /\ ~closed
  /\ m.to = Unbound /\ Occupied(t)
  /\ inbox' = Tail(inbox)
  /\ IF i # 0
       THEN Hand(pool[i], m) /\ UNCHANGED stack
       ELSE \E u \in Temps : ServeTemporary(u, m)
  /\ UNCHANGED <<setup, threadVars, pool, receiving, resultVars, nextCall, peerVars, closed>>

ReceiveTimeout(t) ==
  /\ At(t, {"recv"}) /\ Top(t).waits \in expired
  /\ receiving' = FALSE
  /\ event' = Woken
  /\ Goto(t, "loop")
  /\ UNCHANGED <<setup, threadVars, deque, pool, inbox, resultVars, nextCall, peerVars, closed>>

(* The end of the stream: close() waits for the executor's threads, once;  *)
(* one of these cannot wait for itself and leaves with a RuntimeError,     *)
(* without a word to the pool.                                             *)
ReceiveEOF(t) ==
  /\ At(t, {"recv"}) /\ (closed \/ (eof /\ inbox = <<>>))
  /\ closed' = TRUE
  /\ IF t \in Temps /\ ~closed THEN Unwind(t) ELSE Goto(t, "closing")
  /\ UNCHANGED <<setup, threadVars, poolVars, inbox, resultVars, nextCall, peerVars>>

ExecutorShutDown == \A u \in Temps : stack[u] = <<>>

(* ... then the first of the pool is to see it too.                        *)
Closed(t) ==
  /\ At(t, {"closing"})
  /\ ExecutorShutDown
  /\ receiving' = FALSE
  /\ event' = IF pool = <<>> THEN event ELSE event \cup {Head(pool)}
  /\ Unwind(t)
  /\ UNCHANGED <<setup, threadVars, deque, pool, inbox, resultVars, nextCall, peerVars, closed>>

Step(t) ==
  \/ SendRequest(t)
  \/ SendReply(t)
  \/ SendFails(t)
  \/ Return(t)
  \/ ServeOwn(t)
  \/ EnterPool(t)
  \/ ReceiveAtOnce(t)
  \/ PoolOwn(t)
  \/ PoolReceives(t)
  \/ PoolTimeout(t)
  \/ ReceiveOwn(t)
  \/ HandOn(t)
  \/ HandToFree(t)
  \/ ReceiveTimeout(t)
  \/ ReceiveEOF(t)
  \/ Closed(t)

-----------------------------------------------------------------------------
(* The peer: a thread answers the request it is at, or makes one of its    *)
(* own to the thread it works for; a new thread's is for anyone.           *)
Deliver(m) ==
  /\ ~eof
  /\ inbox' = Append(inbox, m)
  /\ UNCHANGED <<setup, stack, threadVars, poolVars, resultVars, nextCall, eof, closed>>

Answer(r) ==
  /\ peer[r] # <<>> /\ Last(peer[r]).seq \in Calls
  /\ peer' = [peer EXCEPT ![r] = Front(@)]
  /\ Deliver([kind |-> "reply", seq |-> Last(peer[r]).seq, from |-> r,
              to |-> Last(peer[r]).thread])
  /\ UNCHANGED peerNext

PeerRequest(r, to) ==
  /\ peerNext <= MaxCalls + setup.peerCalls
  /\ peerNext' = peerNext + 1
  /\ peer' = [peer EXCEPT ![r] = Append(@, [seq |-> peerNext, thread |-> None])]
  /\ Deliver([kind |-> "request", seq |-> peerNext, from |-> r, to |-> to])

PeerStarts == PeerRequest(peerNext, Unbound)

PeerCallsBack(r) ==
  /\ peer[r] # <<>> /\ Last(peer[r]).seq \in Calls
  /\ PeerRequest(r, Last(peer[r]).thread)

PeerCloses ==
  /\ setup.mayClose /\ ~eof
  /\ eof' = TRUE
  /\ UNCHANGED <<setup, stack, threadVars, poolVars, inbox, resultVars, nextCall, peerNext, peer, closed>>

Expire(s) ==
  /\ setup.timed
  /\ s \notin ready \cup expired
  /\ \E t \in Threads : \E i \in 1..Len(stack[t]) : stack[t][i].waits = s
  /\ expired' = expired \cup {s}
  /\ UNCHANGED <<setup, stack, threadVars, poolVars, inbox, ready, nextCall, peerVars, closed>>

Next ==
  \/ \E t \in Threads : ClientCalls(t) \/ HandlerCalls(t) \/ Step(t)
  \/ \E r \in Remotes : Answer(r) \/ PeerCallsBack(r)
  \/ PeerStarts
  \/ PeerCloses
  \/ \E s \in Calls : Expire(s)

Spec == Init /\ [][Next]_vars

(* Threads run and handlers end.  Time passes where requests have a        *)
(* timeout; where they have none the peer answers what it is asked.        *)
Passes ==
  IF setup.timed THEN \E s \in Calls : Expire(s) ELSE \E r \in Remotes : Answer(r)

FairSpec ==
  /\ Spec
  /\ \A t \in Threads : WF_vars(Step(t))
  /\ WF_vars(Passes)

-----------------------------------------------------------------------------
(* At most one thread receives at a time, and the flag says whether one    *)
(* does.  While threads sleep in the pool one receives or has been told    *)
(* to.  A request that times out breaks the latter, because its thread     *)
(* stays in the pool and may be told instead; and so does a thread of the  *)
(* executor that sees the end of the stream.                               *)
Receivers == {t \in Threads : At(t, {"recv", "closing"})}

OneReceiver ==
  /\ Cardinality(Receivers) <= 1
  /\ Receivers # {} => receiving
  /\ receiving => Receivers # {} \/ closed
  /\ ~setup.timed /\ ~closed /\ ~receiving /\ (\E t \in Threads : At(t, {"pool"})) =>
       \E t \in event : At(t, {"pool"})

(* The type invariant, and OneReceiver.                                     *)
Inv == TypeOK /\ OneReceiver

(* Affinity: a request of a peer's thread that works for one of ours is    *)
(* handled by that very thread, inside its transaction; one that works for *)
(* nobody is handled by a thread that is in no transaction.  Where requests*)
(* time out neither is sure, nor what follows: a thread that times out     *)
(* stays in the pool, where it may be given a message that is for anyone   *)
(* and find it in the middle of its next request; and the late answer of   *)
(* another thread of the peer binds it to that one inside a handler.       *)
Affinity ==
  ~setup.timed => \A t \in Threads : \A i \in 1..Len(stack[t]) :
    LET m == stack[t][i].data IN
    m # None => IF m.to = Unbound THEN i = 1 /\ stack[t][i].waits = None ELSE m.to = t

(* RepliesReturn: when a handler ends, its thread is bound to the thread   *)
(* of the peer that waits for just this answer.                            *)
RepliesReturn ==
  ~setup.timed => \A t \in Threads :
    At(t, {"handle"}) =>
      LET r == remote[t] IN
      /\ r = Top(t).data.from
      /\ peer[r] # <<>> /\ Last(peer[r]).seq = Top(t).data.seq

(* Every synchronous request returns, by its answer, its timeout or the    *)
(* end of the connection, unless the thread that sees the end waits in     *)
(* close() for a thread of the executor, which may never end: one whose    *)
(* nested request timed out counts as occupied for ever and serves on.     *)
CloseWaits ==
  (\E t \in Threads : At(t, {"closing"})) /\ ~ExecutorShutDown

CallsReturn ==
  \A t \in Threads \ Temps : (t \in setup.clients /\ stack[t] # <<>>) ~> (stack[t] = <<>> \/ CloseWaits)

(* PeerServed: every request of the peer is answered in the end, as long   *)
(* as a thread is in serve_all and no request times out (a thread that     *)
(* times out stays in the pool, and may be told to receive).               *)
PeerServed ==
  \A q \in PeerCalls :
    (setup.loopers # {} /\ ~setup.timed /\ \E i \in 1..Len(inbox) : inbox[i].seq = q)
      ~> (closed \/ \A r \in Remotes : \A i \in 1..Len(peer[r]) : peer[r][i].seq # q)
=============================================================================
