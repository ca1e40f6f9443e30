------------------------------ MODULE MCTuiRun ------------------------------
(* Two evaluations of two progress lines, a stderr pipe of one line, a notice *)
(* of one tick, one run of another client.                                   *)
EXTENDS TuiRun
=============================================================================
