------------------------------- MODULE MCServe -------------------------------
EXTENDS Serve

CONSTANTS a, b, l

(* Two clients with timeouts, whose peer answers by replies and exceptions,*)
(* late or not at all, and may disconnect.                                 *)
TimedOut ==
  [clients |-> {a, b}, loopers |-> {}, pollers |-> {}, background |-> {}, timed |-> TRUE,
   requests |-> 0, refs |-> 0, kinds |-> {"reply", "exception"}, mayClose |-> TRUE]

(* A looper and two clients without timeouts, whose peer answers by replies*)
(* one of which carries an unknown reference.                              *)
Untimed ==
  [TimedOut EXCEPT !.loopers = {l}, !.timed = FALSE, !.refs = 1, !.kinds = {"reply"},
                   !.mayClose = FALSE]

(* A client without timeouts beside a thread that polls, and one beside a  *)
(* background thread.  The peer makes a request of its own, whose handler  *)
(* may call back, and may disconnect.                                      *)
Polled ==
  [TimedOut EXCEPT !.clients = {a}, !.pollers = {b}, !.timed = FALSE, !.requests = 1,
                   !.kinds = {"reply"}]

Background == [Polled EXCEPT !.pollers = {}, !.background = {l}]

MCSetups == {TimedOut, Untimed, Polled, Background}

(* Two clients without timeouts whose peer answers by exceptions too.      *)
Exceptions == {[TimedOut EXCEPT !.timed = FALSE, !.mayClose = FALSE]}
=============================================================================
