----------------------------- MODULE ConnClose -----------------------------
(***************************************************************************)
(* The end of a connection: Connection.close, _handle_close and _cleanup,  *)
(* run by several threads at both sides.  A thread either calls close()    *)
(* once, at any moment, or serves (serve_all) until the connection ends.   *)
(*                                                                         *)
(* The handler of HANDLE_CLOSE closes the channel on which its answer      *)
(* would go, so a HANDLE_CLOSE is never answered: the side that sent it    *)
(* sees the end of the stream, or its request times out.  While it waits   *)
(* it serves, and so may have to handle the peer's HANDLE_CLOSE inside     *)
(* its own close().  What happens to the receive lock meanwhile is in      *)
(* module Serve.                                                           *)
(***************************************************************************)
EXTENDS Naturals, FiniteSets

CONSTANTS
  Left, Right,  \* threads of the two sides
  Timeouts      \* sync_request_timeout may run out

Threads == Left \cup Right

ASSUME CloseAssumption ==
  /\ Timeouts \in BOOLEAN
  /\ IsFiniteSet(Threads) /\ Left # {} /\ Right # {}
  /\ Left \cap Right = {}

Sides   == {"left", "right"}
Side(t) == IF t \in Left THEN "left" ELSE "right"
Peer(s) == IF s = "left" THEN "right" ELSE "left"
Here(s) == IF s = "left" THEN Left ELSE Right

VARIABLES
  closed,       \* _closed of each side
  open,         \* its channel is open
  root,         \* its _local_root is not None yet
  handlers,     \* its _HANDLERS is not deleted yet
  disconnects,  \* how often its on_disconnect has been called
  requests,     \* HANDLE_CLOSE requests on their way to it
  pc,
  closing,      \* the thread's own close() is past its check of _closed
  nested,       \* the thread runs _cleanup for the peer's HANDLE_CLOSE
  raised        \* threads that got an AttributeError out of close()

sideVars == <<closed, open, root, handlers, disconnects, requests>>
vars     == <<sideVars, pc, closing, nested, raised>>

TypeOK ==
  /\ closed \in [Sides -> BOOLEAN]
  /\ open \in [Sides -> BOOLEAN]
  /\ root \in [Sides -> BOOLEAN]
  /\ handlers \in [Sides -> BOOLEAN]
  /\ disconnects \in [Sides -> Nat]
  /\ requests \in [Sides -> Nat]
  /\ pc \in [Threads -> {"idle", "serve", "mark", "request", "wait", "dispatch",
                         "channel", "disconnect", "clear", "handlers", "unlock", "done"}]
  /\ closing \in [Threads -> BOOLEAN]
  /\ nested \in [Threads -> BOOLEAN]
  /\ raised \subseteq Threads

Init ==
  /\ closed = [s \in Sides |-> FALSE]
  /\ open = [s \in Sides |-> TRUE]
  /\ root = [s \in Sides |-> TRUE]
  /\ handlers = [s \in Sides |-> TRUE]
  /\ disconnects = [s \in Sides |-> 0]
  /\ requests = [s \in Sides |-> 0]
  /\ pc \in [Threads -> {"idle", "serve"}]
  /\ closing = [t \in Threads |-> FALSE]
  /\ nested = [t \in Threads |-> FALSE]
  /\ raised = {}

-----------------------------------------------------------------------------
Goto(t, place) == pc' = [pc EXCEPT ![t] = place]

(* Before some operators stands a variant that a slip in the code would    *)
(* make of it, named for what it gets wrong.                               *)

(* A second close() of the side does nothing.                              *)
WhenCalled(s) == IF closed[s] THEN "done" ELSE "mark"

(* _cleanup begins by closing the channel.                                 *)
CleanupKeepsChannel == "disconnect"

Cleanup == "channel"

(* An exception of sync_request(HANDLE_CLOSE) is swallowed and _cleanup    *)
(* runs all the same.                                                      *)
AfterRequestEscapes == "done"

AfterRequest == Cleanup

(* _cleanup sets _local_root to None.                                      *)
RootKept == TRUE

RootCleared == FALSE

(* What is left to do for a thread that leaves _cleanup: the answer to a   *)
(* HANDLE_CLOSE raises EOFError, which ends the thread's own wait and goes *)
(* on to its own _cleanup, or ends its serve_all, which calls close().     *)
Leave(t) ==
  /\ nested' = [nested EXCEPT ![t] = FALSE]
  /\ Goto(t, IF ~nested[t] THEN "done"
             ELSE IF closing[t] THEN AfterRequest ELSE WhenCalled(Side(t)))
  /\ UNCHANGED closing

(* An AttributeError in _cleanup is swallowed as an answer that cannot be  *)
(* sent, or comes out of close().                                          *)
Fail(t) ==
  /\ Leave(t)
  /\ raised' = IF nested[t] THEN raised ELSE raised \cup {t}
  /\ UNCHANGED sideVars

-----------------------------------------------------------------------------
(* close(): _closed is tested, then set; the peer is told.                 *)
Call(t) ==
  /\ pc[t] = "idle"
  /\ Goto(t, WhenCalled(Side(t)))
  /\ UNCHANGED <<sideVars, closing, nested, raised>>

Mark(t) ==
  /\ pc[t] = "mark"
  /\ closed' = [closed EXCEPT ![Side(t)] = TRUE]
  /\ closing' = [closing EXCEPT ![t] = TRUE]
  /\ Goto(t, "request")
  /\ UNCHANGED <<open, root, handlers, disconnects, requests, nested, raised>>

SendRequest(t) ==
  /\ pc[t] = "request" /\ open[Side(t)]
  /\ requests' = [requests EXCEPT ![Peer(Side(t))] = @ + 1]
  /\ Goto(t, "wait")
  /\ UNCHANGED <<closed, open, root, handlers, disconnects, closing, nested, raised>>

(* A write to a closed stream raises EOFError, and one that the peer has   *)
(* closed may: SocketStream.write closes the stream then.                  *)
RequestFails(t) ==
  LET s == Side(t) IN
  /\ pc[t] = "request" /\ (~open[s] \/ ~open[Peer(s)])
  /\ open' = [open EXCEPT ![s] = FALSE]
  /\ Goto(t, AfterRequest)
  /\ UNCHANGED <<closed, root, handlers, disconnects, requests, closing, nested, raised>>

TimeOut(t) ==
  /\ Timeouts
  /\ pc[t] = "wait"
  /\ Goto(t, AfterRequest)
  /\ UNCHANGED <<sideVars, closing, nested, raised>>

-----------------------------------------------------------------------------
(* A thread that serves, or waits in close(), takes a HANDLE_CLOSE ...     *)
TakeRequest(t) ==
  LET s == Side(t) IN
  /\ pc[t] \in {"serve", "wait"} /\ open[s] /\ requests[s] > 0
  /\ requests' = [requests EXCEPT ![s] = @ - 1]
  /\ nested' = [nested EXCEPT ![t] = TRUE]
  /\ Goto(t, "dispatch")
  /\ UNCHANGED <<closed, open, root, handlers, disconnects, closing, raised>>

(* ... and looks up its handler.                                           *)
HandleClose(t) ==
  /\ pc[t] = "dispatch"
  /\ IF handlers[Side(t)]
       THEN Goto(t, Cleanup) /\ UNCHANGED <<sideVars, closing, nested, raised>>
       ELSE Fail(t)

(* It sees the end of the stream: its own side has closed the channel, or  *)
(* the peer has (what the peer had sent before may be lost in a reset).    *)
(* serve() calls close(), which returns at once inside another close().    *)
SeeEOF(t) ==
  LET s == Side(t) IN
  /\ pc[t] \in {"serve", "wait"} /\ (~open[s] \/ ~open[Peer(s)])
  /\ open' = [open EXCEPT ![s] = FALSE]
  /\ Goto(t, IF pc[t] = "wait" THEN AfterRequest ELSE WhenCalled(s))
  /\ UNCHANGED <<closed, root, handlers, disconnects, requests, closing, nested, raised>>

-----------------------------------------------------------------------------
(* _cleanup.                                                               *)
CloseChannel(t) ==
  LET s == Side(t) IN
  /\ pc[t] = "channel"
  /\ closed' = [closed EXCEPT ![s] = TRUE]
  /\ open' = [open EXCEPT ![s] = FALSE]
  /\ Goto(t, "disconnect")
  /\ UNCHANGED <<root, handlers, disconnects, requests, closing, nested, raised>>

OnDisconnect(t) ==
  LET s == Side(t) IN
  /\ pc[t] = "disconnect"
  /\ IF root[s]
       THEN /\ disconnects' = [disconnects EXCEPT ![s] = @ + 1]
            /\ Goto(t, "clear")
            /\ UNCHANGED <<closed, open, root, handlers, requests, closing, nested, raised>>
       ELSE Fail(t)

Clear(t) ==
  /\ pc[t] = "clear"
  /\ root' = [root EXCEPT ![Side(t)] = RootCleared]
  /\ Goto(t, "handlers")
  /\ UNCHANGED <<closed, open, handlers, disconnects, requests, closing, nested, raised>>

DelHandlers(t) ==
  LET s == Side(t) IN
  /\ pc[t] = "handlers"
  /\ IF handlers[s]
       THEN /\ handlers' = [handlers EXCEPT ![s] = FALSE]
            /\ Goto(t, "unlock")
            /\ UNCHANGED <<closed, open, root, disconnects, requests, closing, nested, raised>>
       ELSE Fail(t)

Unlock(t) ==
  /\ pc[t] = "unlock"
  /\ Leave(t)
  /\ UNCHANGED <<sideVars, raised>>

Ending(t) ==
  \/ Mark(t)
  \/ SendRequest(t)
  \/ RequestFails(t)
  \/ TakeRequest(t)
  \/ HandleClose(t)
  \/ SeeEOF(t)
  \/ CloseChannel(t)
  \/ OnDisconnect(t)
  \/ Clear(t)
  \/ DelHandlers(t)
  \/ Unlock(t)

Next == \E t \in Threads : Call(t) \/ TimeOut(t) \/ Ending(t)

Spec == Init /\ [][Next]_vars

(* Threads run; nobody has to call close(), and no timeout has to help.    *)
FairSpec == Spec /\ \A t \in Threads : WF_vars(Ending(t))

-----------------------------------------------------------------------------
Released(s) == closed[s] /\ ~open[s] /\ ~root[s] /\ ~handlers[s]

(* AllReleased: with several threads at a side, whichever of them run      *)
(* _cleanup and however they interleave, the last one to leave finds the   *)
(* side released, and its service told so: the side is closed, its channel *)
(* too, and everything that refers to remote or local objects is dropped.  *)
(* (For a side with one thread this is the docstring of close, "releasing  *)
(* all held resources".)                                                   *)
AllReleased ==
  \A s \in Sides :
    (\A t \in Here(s) : pc[t] = "done") => (Released(s) /\ disconnects[s] >= 1)

(* CloseRaisesNothing: a peer that closes, a lost connection or an         *)
(* expired request come out of close() as no exception.                    *)
CloseRaisesNothing == raised = {}

(* DisconnectedOnce: at a side with one thread the service hears of the    *)
(* end of the connection once, even if both sides close at the same time.  *)
DisconnectedOnce ==
  \A s \in Sides : Cardinality(Here(s)) = 1 => disconnects[s] <= 1

(* DisconnectedAfterClose: on_disconnect is called when the connection has *)
(* already terminated (service.py:65), never before the channel is closed. *)
DisconnectedAfterClose ==
  [][\A s \in Sides : disconnects'[s] # disconnects[s] => closed[s] /\ ~open[s]]_vars

(* CloseEnds: a close() that has begun ends, without any timeout, as long  *)
(* as the peer has a thread that serves or closes too; and a side that     *)
(* serves learns of it and is released as well.                            *)
CloseEnds ==
  \A s \in Sides :
    (closed[s] /\ \E t \in Here(Peer(s)) : pc[t] # "idle")
      ~> (Released("left") /\ Released("right"))
=============================================================================
