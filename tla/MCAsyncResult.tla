-------------------------- MODULE MCAsyncResult ---------------------------
(* Instances of AsyncResult for TLC: a reply or an exception may come.     *)
EXTENDS AsyncResult, TLC

CONSTANTS value, exception

MCAnswers == {<<FALSE, value>>, <<TRUE, exception>>}
=============================================================================
