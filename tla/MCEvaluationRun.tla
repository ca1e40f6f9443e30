-------------------------- MODULE MCEvaluationRun --------------------------
(***************************************************************************)
(* A dry run and a live run in one process, and a client that reads.        *)
(***************************************************************************)
EXTENDS RunReaders

MCClientError == {"timeout"}

=============================================================================
