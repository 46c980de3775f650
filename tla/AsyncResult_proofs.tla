-------------------------- MODULE AsyncResult_proofs --------------------------
(***************************************************************************)
(* Proofs about AsyncResult, for any number of waiters and adders.         *)
(***************************************************************************)
EXTENDS AsyncResult, TLAPS

(* The answer is fixed before it is received, it is received once, and     *)
(* __call__ copies one half of it after the other; the result is not ready *)
(* before both are there, what has been copied stays, and error looks at a *)
(* result that is ready.                                                   *)
AnswerInv ==
  /\ rpc \in {"register", "send"} => message = "none"
  /\ message \in {"answer", "taken"} <=> answer # None
  /\ dpc # "idle" => message = "taken"
  /\ dpc \in {"obj", "ready", "call", "delete"} => isExc = answer[1]
  /\ dpc \in {"ready", "call", "delete"} => obj = answer[2]
  /\ isReady => message = "taken" /\ isExc = answer[1] /\ obj = answer[2]
  /\ DOMAIN outcome = Waiters /\ isReady \in BOOLEAN
  /\ DOMAIN wpc = Waiters
  /\ \A w \in Waiters : wpc[w] = "error" => isReady
  /\ ValueIsTheAnswer

(* No answer at the start.                                                 *)
LEMMA AnswerInit == Init => AnswerInv
<1> SUFFICES ASSUME Init PROVE AnswerInv
  OBVIOUS
<1>1. ASSUME NEW w \in Waiters PROVE outcome[w][1] \notin {"value", "error"}
  <2>1. outcome[w] = <<"none">>
    BY DEF Init
  <2>2. QED
    BY <2>1
<1>2. QED
  BY <1>1 DEF Init, AnswerInv, ValueIsTheAnswer

(* Every step preserves the invariant.                                     *)
LEMMA AnswerNext == AnswerInv /\ [Next]_vars => AnswerInv'
<1> SUFFICES ASSUME AnswerInv, [Next]_vars
             PROVE  AnswerInv'
  OBVIOUS
<1> USE DEF AnswerInv, ValueIsTheAnswer
<1>1. CASE Requesting
  BY <1>1 DEF Requesting, Register, SendRequest, SendFails, Pop, SetExpiry, resultVars
<1>2. CASE Expire \/ CloseChannel \/ ClearCallbacks
  BY <1>2 DEF Expire, CloseChannel, ClearCallbacks, requestVars, resultVars
<1>3. CASE Answer
  BY <1>3, AsyncAssumption DEF Answer, resultVars
<1>4. CASE Receive \/ Unbox \/ PopCallback
  BY <1>4 DEF Receive, Unbox, PopCallback, AfterExpired, requestVars, resultVars
<1>14. CASE UnboxFails
  <2>1. /\ dpc = "unbox" /\ dpc' = "failed"
        /\ UNCHANGED <<requestVars, next, resultVars, apc, invoked>>
    BY <1>14 DEF UnboxFails
  <2>2. CASE UNCHANGED <<wpc, outcome>>
    BY <2>1, <2>2 DEF requestVars, resultVars
  <2>3. ASSUME NEW w \in Waiters,
               wpc' = [wpc EXCEPT ![w] = "done"],
               outcome' = [outcome EXCEPT ![w] = <<"raised">>]
        PROVE  AnswerInv'
    <3>1. outcome'[w][1] \notin {"value", "error"}
      BY <2>3
    <3>2. \A v \in Waiters : v # w => outcome'[v] = outcome[v] /\ wpc'[v] = wpc[v]
      BY <2>3
    <3>3. QED
      BY <2>1, <2>3, <3>1, <3>2 DEF requestVars, resultVars
  <2>4. QED
    BY <1>14, <2>2, <2>3 DEF UnboxFails
<1>5. CASE Fill
  <2>1. dpc \in {"exc", "obj", "ready"}
    BY <1>5 DEF Fill, FillOrder
  <2>2. /\ FillOrder["exc"] = "obj"
        /\ FillOrder["obj"] = "ready"
        /\ FillOrder["ready"] = "call"
    BY DEF FillOrder
  <2>3. /\ isExc' = IF dpc = "exc" THEN answer[1] ELSE isExc
        /\ obj' = IF dpc = "obj" THEN answer[2] ELSE obj
        /\ isReady' = IF dpc = "ready" THEN TRUE ELSE isReady
        /\ dpc' = FillOrder[dpc]
        /\ message' = message /\ answer' = answer /\ rpc' = rpc /\ outcome' = outcome
        /\ wpc' = wpc
    BY <1>5 DEF Fill, requestVars
  <2>4. CASE dpc = "exc"
    BY <2>2, <2>3, <2>4
  <2>5. CASE dpc = "obj"
    BY <2>2, <2>3, <2>5
  <2>6. CASE dpc = "ready"
    BY <2>2, <2>3, <2>6
  <2>7. QED
    BY <2>1, <2>4, <2>5, <2>6
<1>6. CASE RunCallback \/ LastCallback \/ DeleteCallbacks
  BY <1>6 DEF RunCallback, LastCallback, DeleteCallbacks, NextFrom, requestVars, resultVars
<1>7. ASSUME NEW w \in Waiters, StartWait(w) \/ Check(w) \/ Recheck(w) \/ ServeReturns(w)
      PROVE  AnswerInv'
  <2>1. /\ UNCHANGED <<requestVars, dpc, next, resultVars, outcome, apc, invoked>>
        /\ \E label \in {"check", "final", "recheck", "serve"} : wpc' = [wpc EXCEPT ![w] = label]
    BY <1>7 DEF StartWait, Check, Recheck, ServeReturns, AfterRecheck
  <2>2. QED
    BY <2>1 DEF requestVars, resultVars
<1>8. ASSUME NEW w \in Waiters, ServeRaises(w) \/ Final(w)
      PROVE  AnswerInv'
  BY <1>8 DEF ServeRaises, Final, Value, requestVars, resultVars
<1>12. ASSUME NEW w \in Waiters, StartError(w) \/ TestExpired(w) \/ PollReturns(w) \/ TestResult(w)
       PROVE  AnswerInv'
  BY <1>12 DEF StartError, TestExpired, PollReturns, TestResult, requestVars, resultVars
<1>13. ASSUME NEW w \in Waiters, NotReady(w) \/ Error(w)
       PROVE  AnswerInv'
  <2>1. /\ UNCHANGED <<requestVars, dpc, next, resultVars, apc, invoked>>
        /\ wpc' = [wpc EXCEPT ![w] = "done"]
        /\ \/ outcome' = [outcome EXCEPT ![w] = <<"pending">>]
           \/ outcome' = [outcome EXCEPT ![w] = <<"error", isExc>>] /\ isReady
    BY <1>13 DEF NotReady, Error
  <2>2. ASSUME NEW v \in Waiters, v # w PROVE outcome'[v] = outcome[v] /\ wpc'[v] = wpc[v]
    BY <2>1, <2>2
  <2>3. \/ outcome'[w] = <<"pending">>
        \/ outcome'[w] = <<"error", isExc>> /\ isReady
    BY <2>1
  <2>4. CASE outcome'[w] = <<"pending">>
    <3>1. outcome'[w][1] \notin {"value", "error"}
      BY <2>4
    <3>2. QED
      BY <2>1, <2>2, <3>1 DEF requestVars, resultVars
  <2>5. CASE outcome'[w] = <<"error", isExc>> /\ isReady
    <3>1. outcome'[w][1] = "error"
      BY <2>5
    <3>2. QED
      BY <2>1, <2>2, <2>5, <3>1 DEF requestVars, resultVars
  <2>6. QED
    BY <2>3, <2>4, <2>5
<1>9. ASSUME NEW a \in Adders, StartAdd(a) \/ Adding(a)
      PROVE  AnswerInv'
  BY <1>9 DEF StartAdd, Adding, TestReady, CallNow, AppendCallback, requestVars, resultVars
<1>10. CASE UNCHANGED vars
  BY <1>10 DEF vars, requestVars, resultVars
<1>11. QED
  BY <1>1, <1>2, <1>3, <1>4, <1>5, <1>6, <1>7, <1>8, <1>9, <1>10, <1>12, <1>13, <1>14
     DEF Next, Delivering, Waiting, Asking

(* Whoever gets a value from wait() and value gets the whole answer of the *)
(* peer, whatever the number of threads that wait and add callbacks.       *)
THEOREM WholeAnswers == Spec => []ValueIsTheAnswer
<1>1. AnswerInv => ValueIsTheAnswer
  BY DEF AnswerInv
<1>2. QED
  BY <1>1, AnswerInit, AnswerNext, PTL DEF Spec

(* A callback that has still to be added has not run; one that is in the   *)
(* list is there once, and has not run before its turn.                    *)
CallbackInv ==
  /\ TypeOK
  /\ \A a \in Adders : apc[a] \in {"idle", "test", "call", "append"} =>
       invoked[a] = 0 /\ \A i \in 1..Len(callbacks) : callbacks[i] # a
  /\ \A i, j \in 1..Len(callbacks) : callbacks[i] = callbacks[j] => i = j
  /\ \A i \in 1..Len(callbacks) : i > next => invoked[callbacks[i]] = 0
  /\ CallbackAtMostOnce

(* No callbacks at the start.                                              *)
LEMMA CallbackInit == Init => CallbackInv
<1> SUFFICES ASSUME Init PROVE CallbackInv
  OBVIOUS
<1>1. TypeOK
  <2>1. callbacks \in Seq(Adders) /\ next \in 0..Len(callbacks)
    BY DEF Init
  <2>2. outcome \in [Waiters -> Outcomes] /\ isExc \in Excs /\ obj \in Objs
    BY DEF Init, Outcomes, Excs, Objs
  <2>3. /\ wpc \in [Waiters -> {"idle", "check", "recheck", "serve", "final", "done",
                              "ready", "expired", "poll", "reread", "error"}]
        /\ apc \in [Adders -> {"idle", "test", "call", "append", "done"}]
        /\ invoked \in [Adders -> Nat]
    BY DEF Init
  <2>4. QED
    BY <2>1, <2>2, <2>3 DEF Init, TypeOK
<1>2. QED
  BY <1>1 DEF Init, CallbackInv, CallbackAtMostOnce

(* A step that leaves the list, the adders and the counts alone preserves  *)
(* the invariant.                                                          *)
LEMMA CallbackQuiet ==
  ASSUME CallbackInv, TypeOK', UNCHANGED <<callbacks, next, apc, invoked>>
  PROVE  CallbackInv'
BY DEF CallbackInv, CallbackAtMostOnce

(* The steps of a request change the table, the message and who holds it: *)
(* with those five typed and the rest as it was, all is.                   *)
LEMMA TypesOfRequest ==
  ASSUME TypeOK, registered' \in BOOLEAN, ends' \in {"open", "closed", "cleared"},
         message' \in {"none", "request", "answer", "taken"},
         rpc' \in {"register", "send", "pop", "expiry", "returned", "raised"},
         dpc' \in {"idle", "unbox", "check", "failed", "exc", "obj", "ready", "call", "delete", "done"},
         UNCHANGED <<answer, next, resultVars, wpc, outcome, apc, invoked>>
  PROVE  TypeOK'
<1>1. isReady' \in BOOLEAN
  BY Zenon DEF TypeOK, resultVars
<1>2. UNCHANGED <<answer, next, isReady, isExc, obj, callbacks, ttl, wpc, outcome, apc, invoked>>
  BY DEF resultVars
<1>3. /\ next' \in 0..Len(callbacks') /\ callbacks' \in Seq(Adders)
      /\ answer' \in Answers \cup {None} /\ isExc' \in Excs /\ obj' \in Objs
      /\ ttl' \in {"unlimited", "running", "over"}
  BY <1>2 DEF TypeOK
<1>4. /\ wpc' \in [Waiters -> {"idle", "check", "recheck", "serve", "final", "done",
                               "ready", "expired", "poll", "reread", "error"}]
      /\ outcome' \in [Waiters -> Outcomes]
      /\ apc' \in [Adders -> {"idle", "test", "call", "append", "done"}]
      /\ invoked' \in [Adders -> Nat]
  BY <1>2, Zenon DEF TypeOK
<1>5. QED
  BY <1>1, <1>3, <1>4, Zenon DEF TypeOK

(* The variables keep their types: what is filled in is an answer.         *)
LEMMA TypesNext == AnswerInv /\ TypeOK /\ [Next]_vars => TypeOK'
<1> SUFFICES ASSUME AnswerInv, TypeOK, [Next]_vars
             PROVE  TypeOK'
  OBVIOUS
<1> USE DEF requestVars, resultVars
<1>1. CASE Requesting
  <2>1. CASE Register \/ SendRequest
    <3>1. registered' \in BOOLEAN
      BY <2>1, Zenon DEF Register, SendRequest, TypeOK
    <3>2. /\ ends' \in {"open", "closed", "cleared"}
          /\ message' \in {"none", "request", "answer", "taken"}
          /\ rpc' \in {"register", "send", "pop", "expiry", "returned", "raised"}
          /\ dpc' \in {"idle", "unbox", "check", "failed", "exc", "obj", "ready", "call", "delete", "done"}
      BY <2>1 DEF Register, SendRequest, TypeOK
    <3>3. UNCHANGED <<answer, next, resultVars, wpc, outcome, apc, invoked>>
      BY <2>1 DEF Register, SendRequest
    <3>4. QED
      BY <3>1, <3>2, <3>3, TypesOfRequest
  <2>2. CASE SendFails
    BY <2>2 DEF SendFails, TypeOK
  <2>3. CASE Pop
    <3>1. registered' \in BOOLEAN
      BY <2>3, Zenon DEF Pop, Popped, TypeOK
    <3>2. /\ ends' \in {"open", "closed", "cleared"}
          /\ message' \in {"none", "request", "answer", "taken"}
          /\ rpc' \in {"register", "send", "pop", "expiry", "returned", "raised"}
          /\ dpc' \in {"idle", "unbox", "check", "failed", "exc", "obj", "ready", "call", "delete", "done"}
      BY <2>3 DEF Pop, Popped, TypeOK
    <3>3. UNCHANGED <<answer, next, resultVars, wpc, outcome, apc, invoked>>
      BY <2>3 DEF Pop, Popped
    <3>4. QED
      BY <3>1, <3>2, <3>3, TypesOfRequest
  <2>4. CASE SetExpiry
    BY <2>4 DEF SetExpiry, TypeOK
  <2>5. QED
    BY <1>1, <2>1, <2>2, <2>3, <2>4 DEF Requesting
<1>2. CASE Expire
  BY <1>2 DEF Expire, TypeOK
<1>3. CASE CloseChannel
  BY <1>3 DEF CloseChannel, TypeOK
<1>4. CASE ClearCallbacks
  <2>1. registered' \in BOOLEAN
    BY <1>4, Zenon DEF ClearCallbacks, TypeOK
  <2>2. /\ ends' \in {"open", "closed", "cleared"}
        /\ message' \in {"none", "request", "answer", "taken"}
        /\ rpc' \in {"register", "send", "pop", "expiry", "returned", "raised"}
        /\ dpc' \in {"idle", "unbox", "check", "failed", "exc", "obj", "ready", "call", "delete", "done"}
    BY <1>4 DEF ClearCallbacks, TypeOK
  <2>3. UNCHANGED <<answer, next, resultVars, wpc, outcome, apc, invoked>>
    BY <1>4 DEF ClearCallbacks
  <2>4. QED
    BY <2>1, <2>2, <2>3, TypesOfRequest
<1>5. CASE Answer
  BY <1>5 DEF Answer, TypeOK
<1>6. CASE Receive \/ Unbox \/ PopCallback
  <2>1. registered' \in BOOLEAN
    BY <1>6, Zenon DEF Receive, Unbox, PopCallback, TypeOK
  <2>2. /\ ends' \in {"open", "closed", "cleared"}
        /\ message' \in {"none", "request", "answer", "taken"}
        /\ rpc' \in {"register", "send", "pop", "expiry", "returned", "raised"}
        /\ dpc' \in {"idle", "unbox", "check", "failed", "exc", "obj", "ready", "call", "delete", "done"}
    BY <1>6 DEF Receive, Unbox, PopCallback, AfterExpired, TypeOK
  <2>3. UNCHANGED <<answer, next, resultVars, wpc, outcome, apc, invoked>>
    BY <1>6 DEF Receive, Unbox, PopCallback
  <2>4. QED
    BY <2>1, <2>2, <2>3, TypesOfRequest
<1>18. CASE UnboxFails
  <2>1. /\ UNCHANGED <<requestVars, next, resultVars, apc, invoked>> /\ dpc' = "failed"
        /\ \/ UNCHANGED <<wpc, outcome>>
           \/ \E w \in Waiters : /\ wpc' = [wpc EXCEPT ![w] = "done"]
                                 /\ outcome' = [outcome EXCEPT ![w] = <<"raised">>]
    BY <1>18 DEF UnboxFails
  <2>2. <<"raised">> \in Outcomes
    BY DEF Outcomes
  <2>3. wpc' \in [Waiters -> {"idle", "check", "recheck", "serve", "final", "done",
                             "ready", "expired", "poll", "reread", "error"}]
        /\ outcome' \in [Waiters -> Outcomes]
    BY <2>1, <2>2 DEF TypeOK
  <2>4. QED
    BY <2>1, <2>3 DEF TypeOK
<1>7. CASE Fill
  <2>1. dpc \in {"exc", "obj", "ready"} /\ dpc' \in {"obj", "ready", "call"}
    BY <1>7 DEF Fill, FillOrder
  <2>2. answer \in Answers
    BY <2>1 DEF AnswerInv, TypeOK
  <2>3. answer[1] \in Excs /\ answer[2] \in Objs
    BY <2>2 DEF Excs, Objs
  <2>4. isExc' \in Excs /\ obj' \in Objs /\ isReady' \in BOOLEAN
    BY <1>7, <2>3 DEF Fill, TypeOK
  <2>5. UNCHANGED <<requestVars, next, callbacks, ttl, wpc, outcome, apc, invoked>>
    BY <1>7 DEF Fill
  <2>6. QED
    BY <2>1, <2>4, <2>5 DEF TypeOK
<1>8. CASE RunCallback
  <2>1. /\ UNCHANGED <<requestVars, resultVars, wpc, outcome, apc>>
        /\ next' \in 0..Len(callbacks) /\ dpc' \in {"done", "call"}
        /\ callbacks[next + 1] \in Adders
    BY <1>8 DEF RunCallback, NextFrom, TypeOK
  <2>2. invoked' \in [Adders -> Nat]
    BY <1>8, <2>1 DEF RunCallback, TypeOK
  <2>3. QED
    BY <2>1, <2>2 DEF TypeOK
<1>9. CASE LastCallback \/ DeleteCallbacks
  <2>1. CASE LastCallback
    BY <2>1 DEF LastCallback, TypeOK
  <2>2. CASE DeleteCallbacks
    <3>1. callbacks' \in Seq(Adders) /\ next' \in 0..Len(callbacks')
      BY <2>2 DEF DeleteCallbacks
    <3>2. QED
      BY <2>2, <3>1 DEF DeleteCallbacks, TypeOK
  <2>3. QED
    BY <1>9, <2>1, <2>2
<1>10. ASSUME NEW w \in Waiters, StartWait(w) \/ Check(w) \/ Recheck(w) \/ ServeReturns(w)
       PROVE  TypeOK'
  <2>1. /\ UNCHANGED <<requestVars, dpc, next, resultVars, outcome, apc, invoked>>
        /\ \E label \in {"check", "final", "recheck", "serve"} : wpc' = [wpc EXCEPT ![w] = label]
    BY <1>10 DEF StartWait, Check, Recheck, AfterRecheck, ServeReturns
  <2>2. QED
    BY <2>1 DEF TypeOK
<1>11. ASSUME NEW w \in Waiters, StartError(w) \/ TestExpired(w) \/ PollReturns(w)
       PROVE  TypeOK'
  <2>1. /\ UNCHANGED <<requestVars, dpc, next, resultVars, outcome, apc, invoked>>
        /\ \E label \in {"ready", "poll", "reread"} : wpc' = [wpc EXCEPT ![w] = label]
    BY <1>11 DEF StartError, TestExpired, PollReturns
  <2>2. QED
    BY <2>1 DEF TypeOK
<1>12. ASSUME NEW w \in Waiters, TestResult(w)
       PROVE  TypeOK'
  BY <1>12 DEF TestResult, TypeOK
<1>13. ASSUME NEW w \in Waiters, ServeRaises(w) \/ Final(w) \/ NotReady(w) \/ Error(w)
       PROVE  TypeOK'
  <2>1. {Value, <<"error", isExc>>, <<"timeout">>, <<"eof">>, <<"pending">>} \subseteq Outcomes
    BY DEF Value, Outcomes, TypeOK
  <2>2. /\ UNCHANGED <<requestVars, dpc, next, resultVars, apc, invoked>>
        /\ wpc' = [wpc EXCEPT ![w] = "done"]
        /\ \E o \in Outcomes : outcome' = [outcome EXCEPT ![w] = o]
    BY <1>13, <2>1 DEF ServeRaises, Final, NotReady, Error
  <2>3. QED
    BY <2>2 DEF TypeOK
<1>14. ASSUME NEW a \in Adders, StartAdd(a) \/ TestReady(a) \/ CallNow(a)
       PROVE  TypeOK'
  <2>1. /\ UNCHANGED <<requestVars, dpc, next, resultVars, wpc, outcome>>
        /\ \E label \in {"test", "call", "append", "done"} : apc' = [apc EXCEPT ![a] = label]
        /\ invoked' \in {invoked, [invoked EXCEPT ![a] = @ + 1]}
    BY <1>14 DEF StartAdd, TestReady, AfterTest, CallNow
  <2>2. invoked' \in [Adders -> Nat]
    BY <2>1 DEF TypeOK
  <2>3. apc' \in [Adders -> {"idle", "test", "call", "append", "done"}]
    BY <2>1 DEF TypeOK
  <2>4. QED
    BY <2>1, <2>2, <2>3 DEF TypeOK
<1>15. ASSUME NEW a \in Adders, AppendCallback(a)
       PROVE  TypeOK'
  <2>1. callbacks' \in Seq(Adders) /\ next' = next /\ Len(callbacks') = Len(callbacks) + 1
    BY <1>15 DEF AppendCallback, TypeOK
  <2>2. next' \in 0..Len(callbacks')
    BY <2>1 DEF TypeOK
  <2>3. QED
    BY <1>15, <2>1, <2>2 DEF AppendCallback, AfterAppend, TypeOK
<1>16. CASE UNCHANGED vars
  BY <1>16 DEF vars, TypeOK
<1>17. QED
  BY <1>1, <1>2, <1>3, <1>4, <1>5, <1>6, <1>7, <1>8, <1>9, <1>10, <1>11, <1>12, <1>13, <1>14,
     <1>15, <1>16, <1>18
     DEF Next, Delivering, Waiting, Asking, Adding

(* Every step preserves the invariant: only the actions that touch the     *)
(* list or run a callback concern it.                                      *)
LEMMA CallbackNext == AnswerInv /\ CallbackInv /\ [Next]_vars => CallbackInv'
<1> SUFFICES ASSUME AnswerInv, CallbackInv, [Next]_vars
             PROVE  CallbackInv'
  OBVIOUS
<1>0. TypeOK'
  BY TypesNext DEF CallbackInv
<1>1. CASE Requesting \/ Expire \/ Answer \/ CloseChannel \/ ClearCallbacks
  <2>1. UNCHANGED <<callbacks, next, apc, invoked>>
    BY <1>1 DEF Requesting, Register, SendRequest, SendFails, Pop, SetExpiry, Expire, Answer,
                CloseChannel, ClearCallbacks, resultVars
  <2>2. QED
    BY <1>0, <2>1, CallbackQuiet
<1>2. CASE Receive \/ Unbox \/ UnboxFails \/ PopCallback \/ Fill \/ LastCallback
  <2>1. UNCHANGED <<callbacks, next, apc, invoked>>
    BY <1>2 DEF Receive, Unbox, UnboxFails, PopCallback, Fill, LastCallback, resultVars
  <2>2. QED
    BY <1>0, <2>1, CallbackQuiet
<1>3. ASSUME NEW w \in Waiters, StartWait(w) \/ Waiting(w) \/ StartError(w) \/ Asking(w)
      PROVE  CallbackInv'
  <2>1. UNCHANGED <<callbacks, next, apc, invoked>>
    BY <1>3 DEF StartWait, Waiting, Check, Recheck, ServeReturns, ServeRaises, Final, StartError,
                Asking, TestExpired, PollReturns, TestResult, NotReady, Error, resultVars
  <2>2. QED
    BY <1>0, <2>1, CallbackQuiet
<1> USE DEF CallbackInv, CallbackAtMostOnce
<1>4. CASE RunCallback
  BY <1>0, <1>4 DEF RunCallback, resultVars, TypeOK
<1>5. CASE DeleteCallbacks
  BY <1>0, <1>5 DEF DeleteCallbacks, TypeOK
<1>6. ASSUME NEW a \in Adders, StartAdd(a) \/ TestReady(a)
      PROVE  CallbackInv'
  <2>1. /\ UNCHANGED <<callbacks, next, invoked>>
        /\ apc[a] \in {"idle", "test"}
        /\ \A b \in Adders : b # a => apc'[b] = apc[b]
    BY <1>6 DEF StartAdd, TestReady, resultVars, TypeOK
  <2>2. QED
    BY <1>0, <2>1
<1>7. ASSUME NEW a \in Adders, CallNow(a)
      PROVE  CallbackInv'
  <2>1. /\ UNCHANGED <<callbacks, next>>
        /\ apc[a] = "call" /\ invoked[a] = 0 /\ apc'[a] = "done" /\ invoked'[a] = 1
        /\ \A b \in Adders : b # a => apc'[b] = apc[b] /\ invoked'[b] = invoked[b]
    BY <1>7 DEF CallNow, resultVars, TypeOK
  <2>2. \A i \in 1..Len(callbacks) : callbacks[i] \in Adders /\ callbacks[i] # a
    BY <2>1 DEF TypeOK
  <2>3. QED
    BY <1>0, <2>1, <2>2
<1>8. ASSUME NEW a \in Adders, AppendCallback(a)
      PROVE  CallbackInv'
  <2>1. /\ UNCHANGED <<next, invoked>>
        /\ apc[a] = "append" /\ invoked[a] = 0 /\ apc'[a] = "done"
        /\ \A b \in Adders : b # a => apc'[b] = apc[b]
        /\ callbacks' = Append(callbacks, a)
    BY <1>8 DEF AppendCallback, AfterAppend, TypeOK
  <2>2. /\ Len(callbacks') = Len(callbacks) + 1
        /\ callbacks'[Len(callbacks) + 1] = a
        /\ \A i \in 1..Len(callbacks) : callbacks'[i] = callbacks[i] /\ callbacks[i] # a
    BY <2>1 DEF TypeOK
  <2>3. next \in 0..Len(callbacks) /\ Len(callbacks) \in Nat
    BY DEF TypeOK
  <2>4. QED
    BY <1>0, <2>1, <2>2, <2>3
<1>9. CASE UNCHANGED vars
  BY <1>0, <1>9, CallbackQuiet DEF vars, resultVars
<1>10. QED
  BY <1>1, <1>2, <1>3, <1>4, <1>5, <1>6, <1>7, <1>8, <1>9 DEF Next, Delivering, Adding

(* No callback runs twice, however many threads add callbacks before,      *)
(* while or after the answer is delivered, and the variables keep their    *)
(* types.                                                                  *)
THEOREM CallbacksOnce == Spec => []Inv
<1>1. CallbackInv => Inv
  BY DEF CallbackInv, Inv
<1>2. QED
  BY <1>1, AnswerInit, AnswerNext, CallbackInit, CallbackNext, PTL DEF Spec

(***************************************************************************)
(* What stays in _request_callbacks.                                       *)
(***************************************************************************)

(* Once _send has returned, a registered result waits for an answer that   *)
(* is still to come, is being looked up or could not be unboxed, or its    *)
(* request was never written; once _send has raised there is none.         *)
RegisteredInv ==
  /\ rpc = "raised" => ~registered
  /\ registered /\ rpc \in {"expiry", "returned"} =>
       IF message = "none"
         THEN ends # "open"
         ELSE /\ ends # "cleared"
              /\ message \in {"request", "answer"} \/ dpc \in {"unbox", "check", "failed"}

(* Every step preserves it.                                                *)
LEMMA RegisteredNext == RegisteredInv /\ [Next]_vars => RegisteredInv'
<1> SUFFICES ASSUME RegisteredInv, [Next]_vars
             PROVE  RegisteredInv'
  OBVIOUS
<1> USE DEF RegisteredInv
<1>1. CASE Requesting
  BY <1>1 DEF Requesting, Register, SendRequest, SendFails, Pop, Popped, SetExpiry, resultVars
<1>2. CASE Expire \/ CloseChannel \/ ClearCallbacks
  BY <1>2 DEF Expire, CloseChannel, ClearCallbacks, requestVars
<1>3. CASE Answer
  BY <1>3 DEF Answer
<1>4. CASE Receive \/ Unbox \/ UnboxFails \/ PopCallback
  BY <1>4 DEF Receive, Unbox, UnboxFails, PopCallback, requestVars
<1>5. CASE Fill
  BY <1>5 DEF Fill, FillOrder, requestVars
<1>6. CASE RunCallback \/ LastCallback \/ DeleteCallbacks
  BY <1>6 DEF RunCallback, LastCallback, DeleteCallbacks, requestVars
<1>7. CASE \E w \in Waiters : StartWait(w) \/ Waiting(w) \/ StartError(w) \/ Asking(w)
  BY <1>7 DEF StartWait, Waiting, Check, Recheck, ServeReturns, ServeRaises, Final, StartError,
              Asking, TestExpired, PollReturns, TestResult, NotReady, Error, requestVars
<1>8. CASE \E a \in Adders : StartAdd(a) \/ Adding(a)
  BY <1>8 DEF StartAdd, Adding, TestReady, CallNow, AppendCallback, requestVars
<1>9. CASE UNCHANGED vars
  BY <1>9 DEF vars, requestVars
<1>10. QED
  BY <1>1, <1>2, <1>3, <1>4, <1>5, <1>6, <1>7, <1>8, <1>9 DEF Next, Delivering

(* Nothing stays in _request_callbacks when _send has raised               *)
(* (_async_request, protocol.py:755), when the answer has been delivered   *)
(* or when _cleanup has cleared the table, but for two kinds of entries:   *)
(* those of replies that could not be unboxed (421 is before the pop at    *)
(* 422), and those of requests made while or after the connection ends     *)
(* whose _send has returned for another call held _sendlock (292-298).     *)
THEOREM NothingStale == Spec => []NoStaleCallback
<1>1. Init => RegisteredInv
  BY DEF Init, RegisteredInv
<1>2. RegisteredInv => NoStaleCallback
  BY DEF RegisteredInv, NoStaleCallback
<1>3. QED
  BY <1>1, <1>2, RegisteredNext, PTL DEF Spec
=============================================================================
