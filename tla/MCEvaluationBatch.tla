------------------------- MODULE MCEvaluationBatch -------------------------
(***************************************************************************)
(* Three live benchmarks, two at a time, on one session.                    *)
(***************************************************************************)
EXTENDS EvaluationBatch

MCRun == 1..3
MCClientError == {"timeout"}
=============================================================================
