----------------------------- MODULE MCBoundServe -----------------------------
EXTENDS BoundServe

CONSTANTS a, b, l

(* Two clients whose peer answers and calls back; the same with a looper;  *)
(* and two clients with timeouts, whose peer does as it likes.             *)
Called == [clients |-> {a, b}, loopers |-> {}, calls |-> 2, peerCalls |-> 2,
           timed |-> FALSE, mayClose |-> FALSE]

Looped == [clients |-> {a, b}, loopers |-> {l}, calls |-> 2, peerCalls |-> 1,
           timed |-> FALSE, mayClose |-> FALSE]

TimedOut == [clients |-> {a, b}, loopers |-> {}, calls |-> 2, peerCalls |-> 1,
             timed |-> TRUE, mayClose |-> TRUE]

MCSetups == {Called, Looped, TimedOut}
=============================================================================
