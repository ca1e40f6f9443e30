------------------------------ MODULE TuiViews ------------------------------
(***************************************************************************)
(* What the terminal UI shows of the database and of the benchmarks: the    *)
(* pages, selections and refreshes of nextState, refreshBackendState and    *)
(* applyBenchmarkFilter (apps/cli/main.go).  appState is the record s;      *)
(* indexes and offsets start at 0 as in the source.  A menu row is chosen   *)
(* nondeterministically instead of with the arrow keys.                     *)
(***************************************************************************)
EXTENDS Integers, Sequences, FiniteSets, SequencesExt

CONSTANTS MaxRows,      \* bound: rows of the runs table
          InitialRows,  \* rows there when the UI starts
          Events(_),    \* how many events a run has
          PageSizes,    \* what pageSize returns for the terminal's heights
          MaxOffset,    \* bound: traceOffset, which paging in turns through a
                        \* long run and a short one makes grow for ever
          Catalogue,    \* the benchmarks, in the order of the cache
          Family(_)     \* the family of a benchmark

ASSUME ViewBounds ==
  \* with a row the trace screen always has a detail, and the progress of an
  \* evaluation that failed is never paged through
  /\ MaxRows \in Nat /\ InitialRows \in 1..MaxRows
  /\ \A r \in 1..MaxRows : Events(r) \in Nat
  /\ PageSizes \subseteq Nat \ {0}
  /\ MaxOffset \in Nat

VARIABLES s,      \* appState
          table,  \* the runs of the database, newest first
          size,   \* pageSize of the terminal's present height
          refused \* updates holds the error of a run started without a benchmark

vars == <<s, table, size, refused>>

NoDetail == [run |-> 0, offset |-> 0, count |-> 0, total |-> 0]
Larger(a, b) == IF a > b THEN a ELSE b
Smaller(a, b) == IF a < b THEN a ELSE b

\* A page of a list; list_runs takes a negative offset for 0.
Page(seq, offset, n) ==
  LET from == Larger(0, offset) IN SubSeq(seq, from + 1, Smaller(from + n, Len(seq)))

------------------------------------------------------------------------------
(* Refreshing                                                               *)

ShowsRuns(screen) == screen \in {"runs", "detail", "trace"}

\* Mutant of ClampIndex: the index is left as it is.
KeepIndex(index, n) == index

\* An index into a list of n rows, the last one when it is past the end.
ClampIndex(index, n) == IF index >= n THEN Larger(0, n - 1) ELSE index

\* client.listRuns
ListRuns(t) ==
  LET runs == Page(table, t.runOffset, size)
  IN  [t EXCEPT !.runs = runs, !.runTotal = Len(table),
                !.runIndex = ClampIndex(@, Len(runs))]

\* client.showRun.  An index past the end would be a panic of the source: it
\* leaves t as it is, for SelectedRunExists to refuse.
ShowRun(t) ==
  IF t.runIndex >= Len(t.runs) THEN t ELSE
  LET run == t.runs[t.runIndex + 1]
      total == Events(run)
      count == Larger(0, Smaller(size, total - t.traceOffset))
  IN  [t EXCEPT !.detail = [run |-> run, offset |-> t.traceOffset, count |-> count, total |-> total],
                !.traceIndex = ClampIndex(@, total)]

\* applyBenchmarkFilter
FilterBenchmarks(t) ==
  LET matched == SelectSeq(Catalogue, LAMBDA b : t.family \in {"all", Family(b)})
      total == Len(matched)
      offset == IF t.benchmarkOffset >= total THEN Larger(0, total - size) ELSE t.benchmarkOffset
      shown == Page(matched, offset, size)
  IN  [t EXCEPT !.benchmarkTotal = total, !.benchmarkOffset = offset, !.benchmarks = shown,
                !.newEvalIndex = ClampIndex(@, Len(shown))]

\* setBackendError
BackendError(t) == [t EXCEPT !.screen = "error"]

\* refreshBackendState: every call may fail.
Refreshed(t) ==
  CASE t.screen = "runs" -> {ListRuns(t), BackendError(t)}
    [] t.screen \in {"detail", "trace"} ->
         {ShowRun(ListRuns(t)), BackendError(ListRuns(t)), BackendError(t)}
    [] t.screen = "newEval" ->
         {FilterBenchmarks([t EXCEPT !.cacheLoaded = TRUE])}
           \cup (IF t.cacheLoaded THEN {} ELSE {BackendError(t)})
    [] OTHER -> {t}

\* Mutant of NeedsRefresh: another page of the same trace is not asked for.
NeedsRefreshOnOpening(t) ==
  \/ t.screen # s.screen
  \/ t.runOffset # s.runOffset
  \/ t.screen = "newEval" /\ <<t.benchmarkOffset, t.family>> # <<s.benchmarkOffset, s.family>>

\* needsBackendRefresh and needsBenchmarkViewRefresh
NeedsRefresh(t) ==
  \/ t.screen # s.screen
  \/ t.runOffset # s.runOffset
  \/ t.traceOffset # s.traceOffset
  \/ t.screen = "newEval" /\ <<t.benchmarkOffset, t.family>> # <<s.benchmarkOffset, s.family>>

\* What a key makes of appState, refreshed when it asks for data.
Show(t) ==
  /\ s' \in IF NeedsRefresh(t) THEN Refreshed(t) ELSE {t}
  /\ UNCHANGED <<table, size, refused>>

------------------------------------------------------------------------------
(* Keys that change the screen                                              *)

Init ==
  /\ s = [screen |-> "home", runIndex |-> 0, runOffset |-> 0, runs |-> <<>>, runTotal |-> 0,
          traceIndex |-> 2, traceOffset |-> 0, detail |-> NoDetail,
          newEvalIndex |-> 0, benchmarkOffset |-> 0, benchmarks |-> <<>>, benchmarkTotal |-> 0,
          family |-> "all", cacheLoaded |-> FALSE]
  /\ table = [i \in 1..InitialRows |-> InitialRows + 1 - i]
  /\ size \in PageSizes
  /\ refused = FALSE

PressDigit ==
  /\ s.screen = "home"
  /\ \/ Show([s EXCEPT !.screen = "newEval"])
     \/ Show([s EXCEPT !.screen = "runs"])
     \/ Show([s EXCEPT !.screen = "trace", !.traceIndex = 2])

PressEnter ==
  \/ s.screen = "runs" /\ Show([s EXCEPT !.screen = "detail"])
  \/ s.screen = "newEval" /\ s.benchmarks # <<>> /\ Show([s EXCEPT !.screen = "confirm"])
  \/ s.screen = "detail" /\ \E to \in {"trace", "runs"} : Show([s EXCEPT !.screen = to])
  \/ s.screen = "confirm" /\ Show([s EXCEPT !.screen = "newEval"])
  \/ s.screen = "error" /\ \E to \in {"runs", "confirm"} : Show([s EXCEPT !.screen = to])

PressB ==
  /\ s.screen # "home"
  /\ Show([s EXCEPT !.screen = IF @ \in {"runs", "newEval"} THEN "home" ELSE "runs"])

PressD == Show([s EXCEPT !.screen = "detail"])

PressT == Show([s EXCEPT !.screen = "trace", !.traceIndex = 0, !.traceOffset = 0])

\* r: the cache is dropped on the list of candidates; on the error screen the
\* migration is tried again.
PressR ==
  /\ s' \in CASE s.screen = "newEval" -> Refreshed([s EXCEPT !.cacheLoaded = FALSE])
              [] s.screen = "error" -> {s, [s EXCEPT !.screen = "home"]}
              [] OTHER -> Refreshed(s)
  /\ UNCHANGED <<table, size, refused>>

NextFamily == [all |-> "generic", generic |-> "coding", coding |-> "all"]

PressF ==
  /\ s.screen = "newEval"
  /\ Show([s EXCEPT !.family = NextFamily[@], !.benchmarkOffset = 0, !.newEvalIndex = 0])

------------------------------------------------------------------------------
(* Keys that move the selection                                             *)

Back(offset) == Larger(0, offset - size)

UpRuns ==
  /\ s.screen = "runs"
  /\ \/ s.runIndex > 0 /\ Show([s EXCEPT !.runIndex = @ - 1])
     \/ s.runIndex = 0 /\ s.runOffset > 0
        /\ Show([s EXCEPT !.runOffset = Back(@), !.runIndex = size - 1])

\* Mutant of NextRuns: a page of the present size is skipped, not what is shown.
NextRunsBySize == [s EXCEPT !.runOffset = @ + size, !.runIndex = 0]

NextRuns == [s EXCEPT !.runOffset = @ + Len(s.runs), !.runIndex = 0]
MoreRuns == s.runOffset + Len(s.runs) < s.runTotal

DownRuns ==
  /\ s.screen = "runs"
  /\ \/ s.runIndex < Len(s.runs) - 1 /\ Show([s EXCEPT !.runIndex = @ + 1])
     \/ s.runIndex >= Len(s.runs) - 1 /\ MoreRuns /\ Show(NextRuns)

UpBenchmarks ==
  /\ s.screen = "newEval"
  /\ \/ s.newEvalIndex > 0 /\ Show([s EXCEPT !.newEvalIndex = @ - 1])
     \/ s.newEvalIndex = 0 /\ s.benchmarkOffset > 0
        /\ Show([s EXCEPT !.benchmarkOffset = Back(@), !.newEvalIndex = size - 1])

NextBenchmarks == [s EXCEPT !.benchmarkOffset = @ + Len(s.benchmarks), !.newEvalIndex = 0]
MoreBenchmarks == s.benchmarkOffset + Len(s.benchmarks) < s.benchmarkTotal

DownBenchmarks ==
  /\ s.screen = "newEval"
  /\ \/ s.newEvalIndex < Len(s.benchmarks) - 1 /\ Show([s EXCEPT !.newEvalIndex = @ + 1])
     \/ s.newEvalIndex >= Len(s.benchmarks) - 1 /\ MoreBenchmarks /\ Show(NextBenchmarks)

\* The detail is not asked for again unless the offset moves.
UpTrace ==
  /\ s.screen = "trace" /\ s.traceIndex > 0
  /\ LET index == s.traceIndex - 1 IN
     Show([s EXCEPT !.traceIndex = index,
                    !.traceOffset = IF index < @ THEN Back(@) ELSE @])

DownTrace ==
  /\ s.screen = "trace" /\ s.traceIndex < s.detail.total - 1
  /\ s.traceOffset + size <= MaxOffset
  /\ LET index == s.traceIndex + 1 IN
     Show([s EXCEPT !.traceIndex = index,
                    !.traceOffset = IF index >= @ + size THEN @ + size ELSE @])

PageUp ==
  \/ s.screen = "runs"
     /\ Show([s EXCEPT !.runOffset = Back(@), !.runIndex = 0])
  \/ s.screen = "trace"
     /\ LET offset == Back(s.traceOffset) IN
        Show([s EXCEPT !.traceOffset = offset, !.traceIndex = offset])
  \/ s.screen = "newEval"
     /\ Show([s EXCEPT !.benchmarkOffset = Back(@), !.newEvalIndex = 0])

PageDown ==
  \/ s.screen = "runs" /\ MoreRuns /\ Show(NextRuns)
  \/ s.screen = "trace" /\ s.traceIndex + 1 < s.detail.total /\ s.traceOffset + size <= MaxOffset
     /\ LET offset == s.traceOffset + size IN
        Show([s EXCEPT !.traceOffset = offset, !.traceIndex = offset])
  \/ s.screen = "newEval" /\ MoreBenchmarks /\ Show(NextBenchmarks)

------------------------------------------------------------------------------
(* A run started from the confirmation, and the world outside               *)

NewRow == <<Len(table) + 1>> \o table

\* What Enter or y on the confirmation starts; its updates replace those of an
\* earlier start, whose error nobody reads any more.
Starts ==
  /\ s.screen = "confirm" /\ s.benchmarks # <<>>
  /\ refused' = FALSE

\* The run is recorded and the newest row is shown; either call of the refresh
\* may fail.
RunEnds ==
  /\ Starts
  /\ Len(table) < MaxRows
  /\ table' = NewRow
  /\ LET ended == [s EXCEPT !.screen = "detail", !.detail = NoDetail, !.runOffset = 0,
                            !.runIndex = 0, !.traceIndex = 0, !.traceOffset = 0]
         listed == [ended EXCEPT !.runs = Page(table', 0, size), !.runTotal = Len(table')]
     IN  s' \in {ShowRun(listed), BackendError(listed), BackendError(ended)}
  /\ UNCHANGED size

\* The trace followed `seen` lines of progress before the run failed.
RunFails ==
  /\ Starts
  /\ \E seen \in 0..(size + 1) :
       s' = BackendError([s EXCEPT !.detail = NoDetail, !.traceIndex = Larger(0, seen - 1),
                                   !.traceOffset = Larger(0, seen - size)])
  /\ UNCHANGED <<table, size>>

\* returnToBenchmarkList does not refresh.
RunCancelled ==
  /\ Starts
  /\ s' = [s EXCEPT !.screen = "newEval", !.detail = NoDetail, !.traceIndex = 0, !.traceOffset = 0]
  /\ UNCHANGED <<table, size>>

\* No candidate was loaded.  nextState has moved to the detail screen, which a
\* started run does not refresh; until the error is read the keys work on.
RunUnselected ==
  /\ s.screen = "confirm" /\ s.benchmarks = <<>>
  /\ s' = [s EXCEPT !.screen = "detail"]
  /\ refused' = TRUE
  /\ UNCHANGED <<table, size>>

\* The event loop reads the error, on whatever screen the keys have led to.
RefusalRead ==
  /\ refused
  /\ s' = BackendError(s)
  /\ refused' = FALSE
  /\ UNCHANGED <<table, size>>

\* Another client records a run.
OtherRecords ==
  /\ Len(table) < MaxRows
  /\ table' = NewRow
  /\ UNCHANGED <<s, size, refused>>

Resize == size' \in PageSizes \ {size} /\ UNCHANGED <<s, table, refused>>

Next ==
  \/ PressDigit \/ PressEnter \/ PressB \/ PressD \/ PressT \/ PressR \/ PressF
  \/ UpRuns \/ DownRuns \/ UpBenchmarks \/ DownBenchmarks \/ UpTrace \/ DownTrace
  \/ PageUp \/ PageDown
  \/ RunEnds \/ RunFails \/ RunCancelled \/ RunUnselected \/ RefusalRead
  \/ OtherRecords \/ Resize

Spec == Init /\ [][Next]_vars

------------------------------------------------------------------------------
(* Properties                                                               *)

\* The detail screen that a run without a benchmark opened: what it shows is what
\* was there before, until its error is read.
Unread == refused /\ s.screen = "detail"

\* Screens and indexes.
ViewTypeOK ==
  /\ s.screen \in {"home", "newEval", "confirm", "runs", "detail", "trace", "error"}
  /\ {s.runIndex, s.runOffset, s.traceIndex, s.traceOffset, s.newEvalIndex, s.benchmarkOffset}
       \subseteq Nat

\* The loaded pages: each row once and in the table's order, never more events than
\* the run has.
PagesInOrder ==
  /\ \A i, j \in DOMAIN s.runs : i < j => s.runs[i] > s.runs[j]
  /\ s.detail.count <= s.detail.total

\* refreshBackendState reads runs[runIndex] without a check of its own: through
\* page changes, failing refreshes, resizes and runs that others record, the index
\* stays inside the page on every screen that a refresh reads it for.  Only the
\* detail screen of a refused run may keep the index of a failed refresh.
SelectedRunExists ==
  s.runs # <<>> /\ ShowsRuns(s.screen) => Unread \/ s.runIndex < Len(s.runs)

\* The detail or the page of events on the screen is that of the selected run,
\* from the offset in the header: no key leaves an earlier run's data there, but
\* for a run that was refused, until its error is read.
ShownDetailIsSelected ==
  s.screen \in {"detail", "trace"} /\ s.runs # <<>> =>
    \/ Unread
    \/ s.detail.run = s.runs[s.runIndex + 1] /\ s.detail.offset = s.traceOffset

\* tests/integration/MANUAL_PHASE4_TUI_SCALE.md: the next page of results begins
\* after the last row shown, also when the terminal was resized in between.
NextPageFollows ==
  [][s.screen = "runs" /\ s'.screen = "runs" /\ s'.runOffset > s.runOffset /\ s'.runs # <<>>
     /\ s.runs = Page(table, s.runOffset, Len(s.runs))
       => s'.runs[1] = table[s.runOffset + Len(s.runs) + 1]]_vars

\* tests/unit/MANUAL_PHASE4_TUI_MOCKUP.md: the selection never leaves the list.
\* renderBackendConfirm and startBackendRunAsync index benchmarks with it.
SelectedBenchmarkExists ==
  s.benchmarks # <<>> /\ s.screen \in {"newEval", "confirm"} => s.newEvalIndex < Len(s.benchmarks)
=============================================================================
