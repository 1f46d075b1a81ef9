-------------------------- MODULE MCWorkerControl --------------------------
(* Instances of WorkerControl for TLC.                                     *)
EXTENDS WorkerControl

CONSTANTS q1, q2

OneRequest == {q1}
TwoRequests == {q1, q2}
=============================================================================
