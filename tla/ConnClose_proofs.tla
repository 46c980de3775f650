--------------------------- MODULE ConnClose_proofs ---------------------------
(***************************************************************************)
(* Proofs about ConnClose, for any number of threads at each side.         *)
(***************************************************************************)
EXTENDS ConnClose, FiniteSetTheorems, TLAPS

(* Where a thread stands that has still to close the channel or to clear   *)
(* the side, once the side is marked as closed.                            *)
Before == {"request", "wait", "dispatch", "channel", "disconnect", "clear"}

(* What a thread inside _cleanup has already done.                         *)
Done(t) ==
  LET s == Side(t) IN
  /\ pc[t] = "dispatch" => nested[t]
  /\ pc[t] = "done" => closed[s]
  /\ pc[t] \in {"disconnect", "clear", "handlers", "unlock"} => closed[s] /\ ~open[s]
  /\ pc[t] = "clear" => disconnects[s] >= 1
  /\ pc[t] = "handlers" => ~root[s]

(* What is not released yet has a thread that will release it.             *)
Kept(s) ==
  /\ closed[s] /\ (open[s] \/ root[s]) => \E t \in Here(s) : pc[t] \in Before
  /\ ~root[s] /\ handlers[s] => \E t \in Here(s) : pc[t] = "handlers"
  /\ ~root[s] => disconnects[s] >= 1 /\ ~open[s]
  /\ ~handlers[s] => ~root[s]

CloseInv ==
  /\ TypeOK
  /\ \A t \in Threads : Done(t)
  /\ \A s \in Sides : Kept(s)

(* Every thread belongs to one side.                                       *)
LEMMA SidesOfThreads ==
  /\ \A t \in Threads : Side(t) \in Sides /\ t \in Here(Side(t))
  /\ \A s \in Sides : \A t \in Here(s) : t \in Threads /\ Side(t) = s
  /\ \A s \in Sides : Here(s) # {} /\ Peer(s) \in Sides
BY CloseAssumption DEF Threads, Side, Sides, Here, Peer

(* Before anybody closes, nothing is released and nobody is late.          *)
LEMMA CloseInit == Init => CloseInv
<1> SUFFICES ASSUME Init PROVE CloseInv
  OBVIOUS
<1>1. TypeOK
  BY DEF Init, TypeOK
<1>2. ASSUME NEW t \in Threads PROVE Done(t)
  BY <1>2, SidesOfThreads DEF Init, Done
<1>3. ASSUME NEW s \in Sides PROVE Kept(s)
  BY <1>3 DEF Init, Kept
<1>4. QED
  BY <1>1, <1>2, <1>3 DEF CloseInv

USE DEF Cleanup, AfterRequest, RootCleared, WhenCalled

(* Every step preserves the invariant.                                     *)
LEMMA CloseNext == CloseInv /\ [Next]_vars => CloseInv'
<1> SUFFICES ASSUME CloseInv, [Next]_vars
             PROVE  CloseInv'
  OBVIOUS
<1> USE SidesOfThreads DEF CloseInv, TypeOK, Done, Kept, Before, Goto, sideVars
<1>1. ASSUME NEW t \in Threads, Call(t)
      PROVE  CloseInv'
  BY <1>1 DEF Call
<1>2. ASSUME NEW t \in Threads, Mark(t)
      PROVE  CloseInv'
  BY <1>2 DEF Mark
<1>3. ASSUME NEW t \in Threads, SendRequest(t)
      PROVE  CloseInv'
  BY <1>3 DEF SendRequest
<1>4. ASSUME NEW t \in Threads, RequestFails(t)
      PROVE  CloseInv'
  BY <1>4 DEF RequestFails
<1>5. ASSUME NEW t \in Threads, TimeOut(t)
      PROVE  CloseInv'
  BY <1>5 DEF TimeOut
<1>6. ASSUME NEW t \in Threads, TakeRequest(t)
      PROVE  CloseInv'
  BY <1>6 DEF TakeRequest
<1>7. ASSUME NEW t \in Threads, HandleClose(t)
      PROVE  CloseInv'
  <2>1. CASE handlers[Side(t)]
    BY <1>7, <2>1, SMTT(30) DEF HandleClose
  <2>2. CASE ~handlers[Side(t)]
    <3>1. Fail(t) /\ ~root[Side(t)] /\ ~open[Side(t)]
      BY <1>7, <2>2 DEF HandleClose
    <3>2. closed' = closed /\ open' = open /\ root' = root /\ handlers' = handlers
            /\ disconnects' = disconnects /\ requests' = requests /\ closing' = closing
            /\ raised' \subseteq Threads
      BY <3>1 DEF Fail, Leave
    <3>3. /\ nested' = [nested EXCEPT ![t] = FALSE]
          /\ pc' = [pc EXCEPT ![t] = pc'[t]]
          /\ pc'[t] \in {"done", "channel", "mark"}
          /\ pc'[t] = "done" => closed[Side(t)]
      BY <1>7, <3>1 DEF HandleClose, Fail, Leave
    <3>4. QED
      BY <2>2, <3>1, <3>2, <3>3, SMTT(30)
  <2>3. QED
    BY <2>1, <2>2
<1>8. ASSUME NEW t \in Threads, SeeEOF(t)
      PROVE  CloseInv'
  BY <1>8 DEF SeeEOF
<1>9. ASSUME NEW t \in Threads, CloseChannel(t)
      PROVE  CloseInv'
  BY <1>9 DEF CloseChannel
<1>10. ASSUME NEW t \in Threads, OnDisconnect(t)
      PROVE  CloseInv'
  <2>1. CASE root[Side(t)]
    <3>1. /\ closed' = closed /\ open' = open /\ root' = root /\ handlers' = handlers
          /\ requests' = requests /\ closing' = closing /\ nested' = nested /\ raised' = raised
          /\ disconnects' = [disconnects EXCEPT ![Side(t)] = @ + 1]
          /\ pc' = [pc EXCEPT ![t] = "clear"] /\ pc[t] = "disconnect"
      BY <1>10, <2>1 DEF OnDisconnect
    <3>2. /\ disconnects' \in [Sides -> Nat]
          /\ disconnects'[Side(t)] >= 1
          /\ \A s \in Sides : disconnects[s] >= 1 => disconnects'[s] >= 1
      BY <3>1
    <3>3. TypeOK'
      BY <3>1, <3>2
    <3>4. ASSUME NEW u \in Threads PROVE Done(u)'
      BY <3>1, <3>2, <3>4
    <3>5. ASSUME NEW s \in Sides PROVE Kept(s)'
      BY <3>1, <3>2, <3>5
    <3>6. QED
      BY <3>3, <3>4, <3>5
  <2>2. CASE ~root[Side(t)]
    <3>1. Fail(t) /\ ~root[Side(t)] /\ ~open[Side(t)]
      BY <1>10, <2>2 DEF OnDisconnect
    <3>2. closed' = closed /\ open' = open /\ root' = root /\ handlers' = handlers
            /\ disconnects' = disconnects /\ requests' = requests /\ closing' = closing
            /\ raised' \subseteq Threads
      BY <3>1 DEF Fail, Leave
    <3>3. /\ nested' = [nested EXCEPT ![t] = FALSE]
          /\ pc' = [pc EXCEPT ![t] = pc'[t]]
          /\ pc'[t] \in {"done", "channel", "mark"}
          /\ pc'[t] = "done" => closed[Side(t)]
      BY <1>10, <3>1 DEF OnDisconnect, Fail, Leave
    <3>4. TypeOK'
      BY <2>2, <3>1, <3>2, <3>3
    <3>5. (\A u \in Threads : Done(u)') /\ (\A s \in Sides : Kept(s)')
      <4>1. pc[t] = "disconnect"
        BY <1>10 DEF OnDisconnect
      <4>2. QED
        BY <2>2, <3>1, <3>2, <3>3, <4>1
    <3>6. QED
      BY <3>4, <3>5
  <2>3. QED
    BY <2>1, <2>2
<1>11. ASSUME NEW t \in Threads, Clear(t)
      PROVE  CloseInv'
  BY <1>11 DEF Clear
<1>12. ASSUME NEW t \in Threads, DelHandlers(t)
      PROVE  CloseInv'
  <2>1. CASE handlers[Side(t)]
    <3>1. TypeOK'
      BY <1>12, <2>1 DEF DelHandlers
    <3>2. ASSUME NEW u \in Threads PROVE Done(u)'
      BY <1>12, <2>1, <3>2 DEF DelHandlers
    <3>3. ASSUME NEW s \in Sides PROVE Kept(s)'
      <4>1. \A u \in Here(s) : pc[u] \in Before => pc'[u] \in Before
        BY <1>12, <2>1, <3>3 DEF DelHandlers
      <4>2. \A u \in Here(s) : s # Side(t) => pc'[u] = pc[u]
        BY <1>12, <2>1, <3>3 DEF DelHandlers
      <4>3. CASE s = Side(t)
        BY <1>12, <2>1, <4>1, <4>3 DEF DelHandlers
      <4>4. CASE s # Side(t)
        BY <1>12, <2>1, <4>2, <4>4 DEF DelHandlers
      <4>5. QED
        BY <4>3, <4>4
    <3>4. QED
      BY <3>1, <3>2, <3>3
  <2>2. CASE ~handlers[Side(t)]
    <3>1. Fail(t) /\ ~root[Side(t)] /\ ~open[Side(t)]
      BY <1>12, <2>2 DEF DelHandlers
    <3>2. closed' = closed /\ open' = open /\ root' = root /\ handlers' = handlers
            /\ disconnects' = disconnects /\ requests' = requests /\ closing' = closing
            /\ raised' \subseteq Threads
      BY <3>1 DEF Fail, Leave
    <3>3. /\ nested' = [nested EXCEPT ![t] = FALSE]
          /\ pc' = [pc EXCEPT ![t] = pc'[t]]
          /\ pc'[t] \in {"done", "channel", "mark"}
          /\ pc'[t] = "done" => closed[Side(t)]
      BY <1>12, <3>1 DEF DelHandlers, Fail, Leave
    <3>4. QED
      BY <2>2, <3>1, <3>2, <3>3, SMTT(30)
  <2>3. QED
    BY <2>1, <2>2
<1>13. ASSUME NEW t \in Threads, Unlock(t)
      PROVE  CloseInv'
  BY <1>13 DEF Unlock, Leave
<1>14. CASE UNCHANGED vars
  BY <1>14 DEF vars
<1>15. QED
  BY <1>1, <1>2, <1>3, <1>4, <1>5, <1>6, <1>7, <1>8, <1>9, <1>10, <1>11, <1>12, <1>13, <1>14
     DEF Next, Ending

(* The invariant holds throughout.                                         *)
LEMMA CloseInvariant == Spec => []CloseInv
BY CloseInit, CloseNext, PTL DEF Spec

(* The variables keep their types: a request that is served was made.      *)
THEOREM TypeCorrect == Spec => []TypeOK
<1>1. CloseInv => TypeOK
  BY DEF CloseInv
<1>2. QED
  BY <1>1, CloseInvariant, PTL

(* However many threads run _cleanup at a side, and however they           *)
(* interleave, the last one to leave finds everything released and the     *)
(* service told: an AttributeError of one is raised only because another   *)
(* has done its work or is about to.                                       *)
THEOREM EverythingReleased == Spec => []AllReleased
<1>1. CloseInv => AllReleased
  <2> SUFFICES ASSUME CloseInv, NEW s \in Sides, \A t \in Here(s) : pc[t] = "done"
               PROVE  Released(s) /\ disconnects[s] >= 1
    BY DEF AllReleased
  <2>1. closed[s]
    BY SidesOfThreads DEF CloseInv, Done
  <2>2. ~open[s] /\ ~root[s]
    BY <2>1 DEF CloseInv, TypeOK, Kept, Before
  <2>3. ~handlers[s]
    BY <2>2 DEF CloseInv, TypeOK, Kept
  <2>4. QED
    BY <2>1, <2>2, <2>3 DEF CloseInv, Kept, Released
<1>2. QED
  BY <1>1, CloseInvariant, PTL

(* on_disconnect is never called before the side's channel is closed.      *)
THEOREM ToldAfterClose == Spec => DisconnectedAfterClose
<1>1. CloseInv /\ [Next]_vars =>
        [\A s \in Sides : disconnects'[s] # disconnects[s] => closed[s] /\ ~open[s]]_vars
  <2> SUFFICES ASSUME CloseInv, Next, NEW s \in Sides, disconnects'[s] # disconnects[s]
               PROVE  closed[s] /\ ~open[s]
    OBVIOUS
  <2>1. PICK t \in Threads : OnDisconnect(t)
    BY DEF Next, Ending, Call, Mark, SendRequest, RequestFails, TimeOut, TakeRequest,
           HandleClose, SeeEOF, CloseChannel, Clear, DelHandlers, Unlock, Fail, sideVars
  <2>2. s = Side(t)
    BY <2>1 DEF CloseInv, TypeOK, OnDisconnect, Fail, sideVars
  <2>3. QED
    BY <2>1, <2>2 DEF CloseInv, Done, OnDisconnect
<1>2. QED
  BY <1>1, CloseInvariant, PTL DEF Spec, DisconnectedAfterClose

-----------------------------------------------------------------------------
(* A side with one thread that has told its service and not yet cleared    *)
(* its root is about to clear it.                                          *)
OnceInv ==
  \A s \in Sides, t \in Threads :
    Here(s) = {t} => /\ disconnects[s] \in {0, 1}
                     /\ disconnects[s] = 1 /\ root[s] => pc[t] = "clear"

(* Every step of the one thread of a side preserves this; the threads of   *)
(* the other side do not touch it.                                         *)
LEMMA OnceNext == CloseInv /\ OnceInv /\ [Next]_vars => OnceInv'
<1> SUFFICES ASSUME CloseInv, OnceInv, [Next]_vars,
                    NEW s \in Sides, NEW u \in Threads, Here(s) = {u}
             PROVE  (/\ disconnects[s] \in {0, 1}
                     /\ disconnects[s] = 1 /\ root[s] => pc[u] = "clear")'
  BY DEF OnceInv, Here
<1>0. /\ disconnects[s] \in {0, 1}
      /\ disconnects[s] = 1 /\ root[s] => pc[u] = "clear"
  BY DEF OnceInv
<1>a. \A t \in Threads : t # u => Side(t) # s
  BY SidesOfThreads
<1> USE DEF CloseInv, TypeOK, Goto, sideVars
<1>1. ASSUME NEW t \in Threads, t # u, Call(t) \/ TimeOut(t) \/ Ending(t)
      PROVE  disconnects'[s] = disconnects[s] /\ root'[s] = root[s] /\ pc'[u] = pc[u]
  <2>1. CASE Call(t) \/ TimeOut(t)
    BY <1>1, <2>1 DEF Call, TimeOut
  <2>2. CASE HandleClose(t) \/ OnDisconnect(t) \/ DelHandlers(t)
    BY <1>1, <1>a, <2>2 DEF HandleClose, OnDisconnect, DelHandlers, Fail, Leave
  <2>3. CASE Clear(t) \/ CloseChannel(t) \/ Unlock(t)
    BY <1>1, <1>a, <2>3 DEF Clear, CloseChannel, Unlock, Leave
  <2>4. CASE Mark(t) \/ SendRequest(t) \/ RequestFails(t) \/ TakeRequest(t) \/ SeeEOF(t)
    BY <1>1, <2>4 DEF Mark, SendRequest, RequestFails, TakeRequest, SeeEOF
  <2>5. QED
    BY <1>1, <2>1, <2>2, <2>3, <2>4 DEF Ending
<1>2. CASE OnDisconnect(u)
  <2>1. CASE root[s]
    <3>1. disconnects[s] = 0
      BY <1>0, <1>2, <2>1 DEF OnDisconnect
    <3>2. QED
      BY <1>2, <2>1, <3>1, SidesOfThreads DEF OnDisconnect
  <2>2. CASE ~root[s]
    BY <1>0, <1>2, <2>2, SidesOfThreads DEF OnDisconnect, Fail
  <2>3. QED
    BY <2>1, <2>2
<1>3. CASE Clear(u)
  BY <1>0, <1>3, SidesOfThreads DEF Clear
<1>4. CASE HandleClose(u) \/ DelHandlers(u) \/ CloseChannel(u) \/ Unlock(u)
  BY <1>0, <1>4, SidesOfThreads DEF HandleClose, DelHandlers, CloseChannel, Unlock, Fail, Leave
<1>5. CASE \/ Call(u) \/ TimeOut(u) \/ Mark(u) \/ SendRequest(u) \/ RequestFails(u)
           \/ TakeRequest(u) \/ SeeEOF(u)
  BY <1>0, <1>5 DEF Call, TimeOut, Mark, SendRequest, RequestFails, TakeRequest, SeeEOF
<1>6. CASE UNCHANGED vars
  BY <1>0, <1>6 DEF vars
<1>7. QED
  BY <1>0, <1>1, <1>2, <1>3, <1>4, <1>5, <1>6 DEF Next, Ending

(* A side with one thread tells its service of the end of the connection   *)
(* at most once, although its _cleanup may run twice: the second run finds *)
(* no root any more.                                                       *)
THEOREM ToldOnce == Spec => []DisconnectedOnce
<1>1. Init => OnceInv
  BY DEF Init, OnceInv
<1>2. OnceInv => DisconnectedOnce
  <2> SUFFICES ASSUME OnceInv, NEW s \in Sides, Cardinality(Here(s)) = 1
               PROVE  disconnects[s] <= 1
    BY DEF DisconnectedOnce
  <2>1. IsFiniteSet(Here(s))
    BY CloseAssumption, FS_Subset DEF Here, Threads
  <2>2. PICK t : Here(s) = {t}
    BY <2>1, FS_Singleton
  <2>3. t \in Threads
    BY <2>2, SidesOfThreads
  <2>4. QED
    BY <2>2, <2>3 DEF OnceInv
<1>3. QED
  BY <1>1, <1>2, CloseInvariant, OnceNext, PTL DEF Spec
=============================================================================
