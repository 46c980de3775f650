---------------------------- MODULE AsyncResult ----------------------------
(***************************************************************************)
(* One request and its AsyncResult: the thread that makes the request      *)
(* (async_request), whoever serves the connection and delivers the answer  *)
(* (_seq_request_callback, __call__), threads that wait for the result, or *)
(* only look whether it is an error, and threads that add callbacks, while *)
(* the request expires and the connection may end.  Sequence numbers are   *)
(* unique, so requests do not meet and one is enough.  How a waiter serves *)
(* is in module Serve.                                                     *)
(***************************************************************************)
EXTENDS Naturals, Sequences, FiniteSets

CONSTANTS
  Waiters,      \* threads that take the value once ...
  Askers,       \* ... or ask for error instead
  Adders,       \* threads that add a callback each
  Faulty,       \* those whose callback raises
  Expires,      \* the request has a timeout
  Answers,      \* what the peer may answer: <<is_exc, obj>>
  None

ASSUME AsyncAssumption ==
  /\ Faulty \subseteq Adders /\ Askers \subseteq Waiters
  /\ Expires \in BOOLEAN
  /\ None \notin Answers \cup {a[2] : a \in Answers}

VARIABLES
  registered,   \* the result is in _request_callbacks
  ends,         \* "open", "closed" (channel), "cleared" (_cleanup done)
  message,      \* the request, then its answer: "none", "request", "answer", "taken"
  answer,       \* what the peer has answered
  rpc,          \* the thread that makes the request
  dpc,          \* the thread that delivers the answer ...
  next,         \* ... and how many callbacks it has run
  isReady, isExc, obj, callbacks, ttl,    \* the AsyncResult
  wpc, outcome, \* the waiters, and what value or error gave them
  apc, invoked  \* the adders, and how often their callbacks ran

resultVars  == <<isReady, isExc, obj, callbacks, ttl>>
requestVars == <<registered, ends, message, answer, rpc>>
vars == <<requestVars, dpc, next, resultVars, wpc, outcome, apc, invoked>>

Excs == {a[1] : a \in Answers} \cup {None}
Objs == {a[2] : a \in Answers} \cup {None}

Outcomes ==
  {<<"none">>, <<"timeout">>, <<"eof">>, <<"raised">>, <<"pending">>}
    \cup {<<"value", e, o>> : e \in Excs, o \in Objs} \cup {<<"error", e>> : e \in Excs}

TypeOK ==
  /\ registered \in BOOLEAN
  /\ ends \in {"open", "closed", "cleared"}
  /\ message \in {"none", "request", "answer", "taken"}
  /\ answer \in Answers \cup {None}
  /\ rpc \in {"register", "send", "pop", "expiry", "returned", "raised"}
  /\ dpc \in {"idle", "unbox", "check", "failed", "exc", "obj", "ready", "call", "delete", "done"}
  /\ next \in 0..Len(callbacks)
  /\ isReady \in BOOLEAN
  /\ isExc \in Excs
  /\ obj \in Objs
  /\ callbacks \in Seq(Adders)
  /\ ttl \in {"unlimited", "running", "over"}
  /\ wpc \in [Waiters -> {"idle", "check", "recheck", "serve", "final", "done",
                          "ready", "expired", "poll", "reread", "error"}]
  /\ outcome \in [Waiters -> Outcomes]
  /\ apc \in [Adders -> {"idle", "test", "call", "append", "done"}]
  /\ invoked \in [Adders -> Nat]

Init ==
  /\ registered = FALSE /\ ends = "open" /\ message = "none" /\ answer = None
  /\ rpc = "register" /\ dpc = "idle" /\ next = 0
  /\ isReady = FALSE /\ isExc = None /\ obj = None
  /\ callbacks = <<>> /\ ttl = "unlimited"
  /\ wpc = [w \in Waiters |-> "idle"]
  /\ outcome = [w \in Waiters |-> <<"none">>]
  /\ apc = [a \in Adders |-> "idle"]
  /\ invoked = [a \in Adders |-> 0]

-----------------------------------------------------------------------------
(* Before some operators stands a variant that a slip in the code would    *)
(* make of it, named for what it gets wrong.                               *)

(* The order in which __call__ fills in the result.                        *)
ReadyEarly == [exc |-> "ready", ready |-> "obj", obj |-> "call"]

FillOrder == [exc |-> "obj", obj |-> "ready", ready |-> "call"]

(* add_callback tests _is_ready, then calls or appends.                    *)
AfterTest == IF isReady THEN "call" ELSE "append"

AfterAppendRetest == "test"

AfterAppend == "done"

(* A failed _send takes the callback out again.                            *)
PoppedNot == registered

Popped == FALSE

(* _waiting() tests _is_ready twice, the second time in expired.           *)
AfterRecheckUnlimited == "serve"

AfterRecheck == IF ~isReady /\ ttl = "over" THEN "final" ELSE "serve"

(* __call__ drops an answer that comes after the expiry.                   *)
AfterExpired == IF ttl = "over" THEN "done" ELSE "exc"

(* The callbacks run one by one; one that raises ends the loop.            *)
NextFrom(n) == IF callbacks[n] \in Faulty THEN "done" ELSE "call"

-----------------------------------------------------------------------------
(* async_request: register, send, set the expiry.  _send may return, on a  *)
(* closed channel too, because another call holds _sendlock; that call     *)
(* then fails to write the message.  And it may raise, whether or not the  *)
(* request has been or will be written.                                    *)
Register ==
  /\ rpc = "register"
  /\ registered' = TRUE
  /\ rpc' = "send"
  /\ UNCHANGED <<ends, message, answer, dpc, next, resultVars, wpc, outcome, apc, invoked>>

SendRequest ==
  /\ rpc = "send"
  /\ message' = IF ends = "open" THEN "request" ELSE "none"
  /\ rpc' = "expiry"
  /\ UNCHANGED <<registered, ends, answer, dpc, next, resultVars, wpc, outcome, apc, invoked>>

SendFails ==
  /\ rpc = "send"
  /\ message' \in IF ends = "open" THEN {"none", "request"} ELSE {"none"}
  /\ rpc' = "pop"
  /\ UNCHANGED <<registered, ends, answer, dpc, next, resultVars, wpc, outcome, apc, invoked>>

Pop ==
  /\ rpc = "pop"
  /\ registered' = Popped
  /\ rpc' = "raised"
  /\ UNCHANGED <<ends, message, answer, dpc, next, resultVars, wpc, outcome, apc, invoked>>

SetExpiry ==
  /\ rpc = "expiry"
  /\ ttl' = IF Expires THEN "running" ELSE ttl
  /\ rpc' = "returned"
  /\ UNCHANGED <<registered, ends, message, answer, dpc, next, isReady, isExc, obj, callbacks,
                 wpc, outcome, apc, invoked>>

(* Time passes; the peer answers; the connection ends.                     *)
Expire ==
  /\ ttl = "running"
  /\ ttl' = "over"
  /\ UNCHANGED <<requestVars, dpc, next, isReady, isExc, obj, callbacks, wpc, outcome, apc, invoked>>

Answer ==
  /\ message = "request" /\ ends = "open"
  /\ message' = "answer"
  /\ answer' \in Answers
  /\ UNCHANGED <<registered, ends, rpc, dpc, next, resultVars, wpc, outcome, apc, invoked>>

CloseChannel ==
  /\ ends = "open"
  /\ ends' = "closed"
  /\ UNCHANGED <<registered, message, answer, rpc, dpc, next, resultVars, wpc, outcome, apc, invoked>>

ClearCallbacks ==
  /\ ends = "closed"
  /\ ends' = "cleared"
  /\ registered' = FALSE
  /\ UNCHANGED <<message, answer, rpc, dpc, next, resultVars, wpc, outcome, apc, invoked>>

-----------------------------------------------------------------------------
(* The answer is received and unboxed, and its callback popped; an answer  *)
(* without one is ignored.                                                 *)
Receive ==
  /\ message = "answer" /\ ends = "open"
  /\ message' = "taken"
  /\ dpc' = "unbox"
  /\ UNCHANGED <<registered, ends, answer, rpc, next, resultVars, wpc, outcome, apc, invoked>>

Unbox ==
  /\ dpc = "unbox"
  /\ dpc' = "check"
  /\ UNCHANGED <<requestVars, next, resultVars, wpc, outcome, apc, invoked>>

(* To unbox a reference may take a HANDLE_INSPECT, which may fail.  The    *)
(* reply is then lost, and whoever served gets the exception, be it the    *)
(* thread that waits for this very reply.                                  *)
UnboxFails ==
  /\ dpc = "unbox" /\ answer[1] = FALSE
  /\ dpc' = "failed"
  /\ \/ UNCHANGED <<wpc, outcome>>
     \/ \E w \in Waiters :
          /\ wpc[w] \in {"serve", "poll"}
          /\ wpc' = [wpc EXCEPT ![w] = "done"]
          /\ outcome' = [outcome EXCEPT ![w] = <<"raised">>]
  /\ UNCHANGED <<requestVars, next, resultVars, apc, invoked>>

PopCallback ==
  /\ dpc = "check"
  /\ registered' = FALSE
  /\ dpc' = IF registered THEN AfterExpired ELSE "done"
  /\ UNCHANGED <<ends, message, answer, rpc, next, resultVars, wpc, outcome, apc, invoked>>

(* __call__ fills in the result ...                                        *)
Fill ==
  /\ dpc \in DOMAIN FillOrder
  /\ isExc' = IF dpc = "exc" THEN answer[1] ELSE isExc
  /\ obj' = IF dpc = "obj" THEN answer[2] ELSE obj
  /\ isReady' = IF dpc = "ready" THEN TRUE ELSE isReady
  /\ dpc' = FillOrder[dpc]
  /\ UNCHANGED <<requestVars, next, callbacks, ttl, wpc, outcome, apc, invoked>>

(* ... and runs the callbacks, also those appended meanwhile, ...          *)
RunCallback ==
  /\ dpc = "call" /\ next < Len(callbacks)
  /\ invoked' = [invoked EXCEPT ![callbacks[next + 1]] = @ + 1]
  /\ next' = next + 1
  /\ dpc' = NextFrom(next + 1)
  /\ UNCHANGED <<requestVars, resultVars, wpc, outcome, apc>>

LastCallback ==
  /\ dpc = "call" /\ next = Len(callbacks)
  /\ dpc' = "delete"
  /\ UNCHANGED <<requestVars, next, resultVars, wpc, outcome, apc, invoked>>

(* ... then empties the list.                                              *)
DeleteCallbacks ==
  /\ dpc = "delete"
  /\ callbacks' = <<>>
  /\ next' = 0
  /\ dpc' = "done"
  /\ UNCHANGED <<requestVars, isReady, isExc, obj, ttl, wpc, outcome, apc, invoked>>

-----------------------------------------------------------------------------
(* wait and value, once async_request has returned the result.             *)
StartWait(w) ==
  /\ w \notin Askers /\ wpc[w] = "idle" /\ rpc = "returned"
  /\ wpc' = [wpc EXCEPT ![w] = "check"]
  /\ UNCHANGED <<requestVars, dpc, next, resultVars, outcome, apc, invoked>>

Check(w) ==
  /\ wpc[w] = "check"
  /\ wpc' = [wpc EXCEPT ![w] = IF isReady THEN "final" ELSE "recheck"]
  /\ UNCHANGED <<requestVars, dpc, next, resultVars, outcome, apc, invoked>>

Recheck(w) ==
  /\ wpc[w] = "recheck"
  /\ wpc' = [wpc EXCEPT ![w] = AfterRecheck]
  /\ UNCHANGED <<requestVars, dpc, next, resultVars, outcome, apc, invoked>>

ServeReturns(w) ==
  /\ wpc[w] = "serve"
  /\ wpc' = [wpc EXCEPT ![w] = "check"]
  /\ UNCHANGED <<requestVars, dpc, next, resultVars, outcome, apc, invoked>>

ServeRaises(w) ==
  /\ wpc[w] = "serve" /\ ends # "open" /\ ~isReady
  /\ wpc' = [wpc EXCEPT ![w] = "done"]
  /\ outcome' = [outcome EXCEPT ![w] = <<"eof">>]
  /\ UNCHANGED <<requestVars, dpc, next, resultVars, apc, invoked>>

Value == <<"value", isExc, obj>>

Final(w) ==
  /\ wpc[w] = "final"
  /\ wpc' = [wpc EXCEPT ![w] = "done"]
  /\ outcome' = [outcome EXCEPT ![w] = IF isReady THEN Value ELSE <<"timeout">>]
  /\ UNCHANGED <<requestVars, dpc, next, resultVars, apc, invoked>>

Waiting(w) == Check(w) \/ Recheck(w) \/ ServeReturns(w) \/ ServeRaises(w) \/ Final(w)

(* error, which asks for ready first: that looks again after a poll_all,   *)
(* unless the request has expired.                                         *)
StartError(w) ==
  /\ w \in Askers /\ wpc[w] = "idle" /\ rpc = "returned"
  /\ wpc' = [wpc EXCEPT ![w] = "ready"]
  /\ UNCHANGED <<requestVars, dpc, next, resultVars, outcome, apc, invoked>>

TestExpired(w) ==
  /\ wpc[w] = "expired"
  /\ ~(~isReady /\ ttl = "over")
  /\ wpc' = [wpc EXCEPT ![w] = "poll"]
  /\ UNCHANGED <<requestVars, dpc, next, resultVars, outcome, apc, invoked>>

PollReturns(w) ==
  /\ wpc[w] = "poll"
  /\ wpc' = [wpc EXCEPT ![w] = "reread"]
  /\ UNCHANGED <<requestVars, dpc, next, resultVars, outcome, apc, invoked>>

TestResult(w) ==
  /\ wpc[w] \in {"ready", "reread"}
  /\ wpc[w] = "ready" \/ isReady
  /\ wpc' = [wpc EXCEPT ![w] = IF isReady THEN "error" ELSE "expired"]
  /\ UNCHANGED <<requestVars, dpc, next, resultVars, outcome, apc, invoked>>

NotReady(w) ==
  /\ ~isReady
  /\ wpc[w] = "reread" \/ (wpc[w] = "expired" /\ ttl = "over")
  /\ wpc' = [wpc EXCEPT ![w] = "done"]
  /\ outcome' = [outcome EXCEPT ![w] = <<"pending">>]
  /\ UNCHANGED <<requestVars, dpc, next, resultVars, apc, invoked>>

Error(w) ==
  /\ wpc[w] = "error"
  /\ wpc' = [wpc EXCEPT ![w] = "done"]
  /\ outcome' = [outcome EXCEPT ![w] = <<"error", isExc>>]
  /\ UNCHANGED <<requestVars, dpc, next, resultVars, apc, invoked>>

Asking(w) == TestExpired(w) \/ PollReturns(w) \/ TestResult(w) \/ NotReady(w) \/ Error(w)

(* add_callback.                                                           *)
StartAdd(a) ==
  /\ apc[a] = "idle" /\ rpc = "returned"
  /\ apc' = [apc EXCEPT ![a] = "test"]
  /\ UNCHANGED <<requestVars, dpc, next, resultVars, wpc, outcome, invoked>>

TestReady(a) ==
  /\ apc[a] = "test"
  /\ apc' = [apc EXCEPT ![a] = AfterTest]
  /\ UNCHANGED <<requestVars, dpc, next, resultVars, wpc, outcome, invoked>>

CallNow(a) ==
  /\ apc[a] = "call"
  /\ invoked' = [invoked EXCEPT ![a] = @ + 1]
  /\ apc' = [apc EXCEPT ![a] = "done"]
  /\ UNCHANGED <<requestVars, dpc, next, resultVars, wpc, outcome>>

AppendCallback(a) ==
  /\ apc[a] = "append"
  /\ callbacks' = Append(callbacks, a)
  /\ apc' = [apc EXCEPT ![a] = AfterAppend]
  /\ UNCHANGED <<requestVars, dpc, next, isReady, isExc, obj, ttl, wpc, outcome, invoked>>

Adding(a) == TestReady(a) \/ CallNow(a) \/ AppendCallback(a)

Requesting == Register \/ SendRequest \/ SendFails \/ Pop \/ SetExpiry

Delivering ==
  \/ Receive
  \/ Unbox
  \/ UnboxFails
  \/ PopCallback
  \/ Fill
  \/ RunCallback
  \/ LastCallback
  \/ DeleteCallbacks

Next ==
  \/ Requesting
  \/ Expire
  \/ Answer
  \/ CloseChannel
  \/ ClearCallbacks
  \/ Delivering
  \/ \E w \in Waiters : StartWait(w) \/ Waiting(w) \/ StartError(w) \/ Asking(w)
  \/ \E a \in Adders : StartAdd(a) \/ Adding(a)

Spec == Init /\ [][Next]_vars

(* Threads run and time passes.  Nothing makes the peer answer.            *)
FairSpec ==
  /\ Spec
  /\ WF_vars(Requesting) /\ WF_vars(Delivering) /\ WF_vars(Expire)
  /\ \A w \in Waiters : WF_vars(Waiting(w) \/ Asking(w))
  /\ \A a \in Adders : WF_vars(Adding(a))

-----------------------------------------------------------------------------
(* ValueIsTheAnswer: whoever gets a value gets the answer of the peer, all *)
(* of it, and error says of a result that is ready whether the answer is   *)
(* an exception, however the reads fall between the writes of __call__.    *)
ValueIsTheAnswer ==
  \A w \in Waiters :
    /\ outcome[w][1] = "value" => answer # None /\ outcome[w] = <<"value", answer[1], answer[2]>>
    /\ outcome[w][1] = "error" => answer # None /\ outcome[w] = <<"error", answer[1]>>

(* CallbackAtMostOnce: no callback runs twice, whether it is added before, *)
(* while or after the answer is delivered.                                 *)
CallbackAtMostOnce == \A a \in Adders : invoked[a] <= 1

(* The type invariant, and CallbackAtMostOnce.                              *)
Inv == TypeOK /\ CallbackAtMostOnce

(* NoStaleCallback: a result stays in _request_callbacks only as long as   *)
(* its answer can still come: not after _send has raised, not after the    *)
(* answer has been delivered, not after _cleanup.  Two entries stay, and   *)
(* no others: of a reply that could not be unboxed, until _cleanup, and of *)
(* a request made while or after the connection ends that _send has left   *)
(* to another call, which cannot write it.                                 *)
NoStaleCallback ==
  registered /\ rpc \in {"returned", "raised"} =>
    /\ rpc = "returned"
    /\ IF message = "none"
         THEN ends # "open"
         ELSE /\ ends # "cleared"
              /\ message \in {"request", "answer"} \/ dpc \in {"unbox", "check", "failed"}

(* WaitEnds: wait() with an expiry comes to an end, answer or not, closed  *)
(* connection or not, and so does error.                                   *)
WaitEnds == \A w \in Waiters : (wpc[w] # "idle") ~> (wpc[w] = "done")
=============================================================================
