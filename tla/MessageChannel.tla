--------------------------- MODULE MessageChannel ---------------------------
(***************************************************************************)
(* What Connection._send and Channel.send promise together: messages are   *)
(* handed over by any number of callers, and the peer reads every message  *)
(* once, whole, in the order of the handing over, until the channel goes   *)
(* down.  Whatever was not transmitted by then is gone.                    *)
(***************************************************************************)
EXTENDS Sequences

CONSTANT Message

VARIABLES
  up,        \* the channel has not been closed
  pending,   \* handed over, not yet transmitted
  sent       \* transmitted, as the peer reads them

vars == <<up, pending, sent>>

Init ==
  /\ up = TRUE
  /\ pending = <<>>
  /\ sent = <<>>

Submit(m) ==
  /\ up
  /\ pending' = Append(pending, m)
  /\ UNCHANGED <<up, sent>>

Transmit ==
  /\ up
  /\ pending # <<>>
  /\ sent' = Append(sent, Head(pending))
  /\ pending' = Tail(pending)
  /\ UNCHANGED up

GoDown ==
  /\ up
  /\ up' = FALSE
  /\ pending' = <<>>
  /\ UNCHANGED sent

Next ==
  \/ \E m \in Message : Submit(m)
  \/ Transmit
  \/ GoDown

Spec == Init /\ [][Next]_vars

(* A message handed over is transmitted unless the channel goes down:      *)
(* transmission, once possible, cannot be put off for ever.                *)
FairSpec == Spec /\ WF_vars(Transmit)
=============================================================================
