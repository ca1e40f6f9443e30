--------------------------- MODULE MCExternalRuns ---------------------------
(***************************************************************************)
(* Two clients report an event of the same number, two finish the run       *)
(* differently, two import transcripts of the same new agent, one of them   *)
(* without events; requests fail twice and are repeated once.               *)
(***************************************************************************)
EXTENDS ExternalRuns

MCApiRun == <<"api", 0>>
MCSequence(e) == 0
MCFinish(f) == IF f = "f1" THEN [status |-> "completed", category |-> "none"]
               ELSE [status |-> "failed", category |-> "timeout"]
MCTarget(i) == "codex:codex-cli"
MCTranscript(i) ==
  IF i = "i1"
    THEN [events |-> <<"user_prompt", "tool_call">>, success |-> TRUE,
          status |-> "completed", category |-> "none"]
    ELSE [events |-> <<>>, success |-> FALSE, status |-> "failed", category |-> "timeout"]
=============================================================================
