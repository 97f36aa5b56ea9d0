---------------------------- MODULE MCSupervision ----------------------------
(* Constants for model checking Supervision. *)
EXTENDS Supervision

TwoWorkers == <<"vad", "stt">>
OneWorker == <<"vad">>
SttOnly == {"stt"}
NoneKillable == {}
=============================================================================
