---------------------------- MODULE MCLocalData ----------------------------
(***************************************************************************)
(* The local data of one machine: the catalogue of benchmarks, a transcript *)
(* and the metrics of one evaluation.  The three share no state, so in a    *)
(* behaviour only one of them, the focus, is at work; and so are either the *)
(* creators and readers with one installer, or two installers that race.    *)
(***************************************************************************)
EXTENDS Catalogue, Transcripts, Metrics

CONSTANTS x, y,   \* ids
          i1, i2  \* installers

VARIABLE focus

MCPackage == {"p", "q"}
MCMembers(s) == IF s = "p" THEN {<<"generic", x>>} ELSE {<<"generic", x>>, <<"coding", y>>}
MCShipped == {<<"generic", y>>}

MCEvent(type, call, ok, known, retry, tokens) ==
  [type |-> type, call |-> call, success |-> ok, valid |-> known, retry |-> retry,
   tokens |-> tokens]

MCRecordedEvent ==
  {MCEvent("tool_call", c, ok, known, ~ok, 0) : c \in {"read", "run"}, ok \in BOOLEAN,
                                                known \in BOOLEAN}
  \cup {MCEvent(t, "none", FALSE, TRUE, FALSE, 2) :
          t \in {"llm_call", "error", "timeout_error", "safety_violation"}}

localVars == <<catalogueVars, transcriptVars, metricsVars, focus>>

LocalInit ==
  /\ CatalogueInit /\ TranscriptInit /\ MetricsInit
  /\ focus \in {"catalogue", "installers", "transcript", "metrics"}
  /\ success => focus = "metrics"

LocalNext ==
  /\ UNCHANGED focus
  /\ \/ /\ focus = "catalogue"
        /\ CatalogueNext /\ place'[i2] = "new"
        /\ UNCHANGED <<transcriptVars, metricsVars>>
     \/ /\ focus = "installers"
        /\ SampleNext
        /\ UNCHANGED <<userVars, readerVars, transcriptVars, metricsVars>>
     \/ /\ focus = "transcript"
        /\ TranscriptNext
        /\ UNCHANGED <<catalogueVars, metricsVars>>
     \/ /\ focus = "metrics"
        /\ MetricsNext
        /\ UNCHANGED <<catalogueVars, transcriptVars>>

LocalSpec == LocalInit /\ [][LocalNext]_localVars
=============================================================================
