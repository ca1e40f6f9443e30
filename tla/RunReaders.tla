----------------------------- MODULE RunReaders -----------------------------
(***************************************************************************)
(* The clients that look at runs while others evaluate: the GET endpoints   *)
(* of apps/api/main.py, the reading tools of apps/mcp/server.py, the        *)
(* commands of scripts/tui_backend.py and the CSV export.  Each request has *)
(* a session of its own and makes several SELECTs; under READ COMMITTED     *)
(* every SELECT sees the commits made before it, so what a request puts     *)
(* together comes from several moments.                                     *)
(*                                                                          *)
(* Readers do not affect each other: one client makes one request, or pages *)
(* through the list of runs as the TUI does, each page a request.           *)
(***************************************************************************)
EXTENDS EvaluationRun

CONSTANT PageSize  \* rows on a page of the list

ASSUME ReadersAssumption == PageSize \in Nat \ {0}

VARIABLES startedAt,  \* the column: when a run was started, 0 for not yet
          plan,       \* the SELECTs of the client's request
          pos,        \* how many of them were made
          got,        \* the rows put together from them
          walk        \* the client's way through the list of runs

readerVars == <<plan, pos, got, walk>>
allVars == <<vars, startedAt, readerVars>>

Blank == [r \in Run |-> NoRow]

ReadersInit ==
  /\ Init
  /\ startedAt = [r \in Run |-> 0]
  /\ plan = <<>> /\ pos = 0 /\ got = Blank
  /\ walk = [at |-> 0, offset |-> 0, rows |-> 0, total |-> 0,
             shown |-> {}, existing |-> {}]

\* One SELECT: a part of the rows of some runs.
Select(part, runs) == [part |-> part, runs |-> runs]

\* The columns of a row that stand for what a part is read from.
ColumnsOf(part) ==
  CASE part \in {"run", "runs"} -> {"status", "category", "cost"}
    [] part = "metrics" -> {"steps"}
    [] part = "evaluations" -> {"evaluation"}
    [] part \in {"events", "page"} -> {"events"}

\* selectinload asks for the related rows of those runs only that it has found.
Related(part) == part \in {"metrics", "evaluations", "events"}

------------------------------------------------------------------------------
(* What is asked for                                                        *)

\* RunRepository.get_run
GetRun(r) == <<Select("run", {r}), Select("events", {r}), Select("metrics", {r}),
               Select("evaluations", {r})>>

\* Mutant of GetDetails: the page of events is fetched before the run.
GetDetailsEventsFirst(r) ==
  <<Select("page", {r}), Select("run", {r}), Select("metrics", {r}),
    Select("evaluations", {r})>>

\* RunRepository.get_run_details
GetDetails(r) == <<Select("run", {r}), Select("metrics", {r}), Select("evaluations", {r}),
                   Select("page", {r})>>

\* Every entry point below is a program of its own.  RunRepository.reconstruct_history
History(r) == GetRun(r)

\* GET /runs/{id}, and the MCP tool get_run: the first 100 events of it.
ApiDetails(r) == GetDetails(r)
McpDetails(r) == GetDetails(r)

\* GET /runs/{id}/trace checks for the run, then lists its events; so does the
\* MCP tool get_trace and, keeping those with an error, get_errors.
ApiTrace(r) == GetRun(r) \o <<Select("page", {r})>>
McpTrace(r) == GetRun(r) \o <<Select("page", {r})>>

\* The command trace, GET /runs/{id}/metrics: a part of the details.
BackendTrace(r) == GetDetails(r)
ApiMetrics(r) == GetDetails(r)

\* Two runs are compared by their details, the left one first.
ApiCompare(left, right) == GetDetails(left) \o GetDetails(right)
McpCompare(left, right) == GetDetails(left) \o GetDetails(right)
BackendCompare(left, right) == GetDetails(left) \o GetDetails(right)

\* export_runs_to_csv, of all runs.
Export == <<Select("runs", Run), Select("metrics", Run), Select("evaluations", Run)>>

Request ==
  {Export}
  \cup (UNION {{ApiDetails(r), McpDetails(r), History(r), ApiTrace(r), McpTrace(r),
                BackendTrace(r), ApiMetrics(r)} : r \in Run})
  \cup (UNION {{ApiCompare(r, o), McpCompare(r, o), BackendCompare(r, o)} :
                r \in Run, o \in Run})

Idle == plan = <<>> /\ walk.at = 0

Ask ==
  /\ Idle
  /\ plan' \in Request
  /\ UNCHANGED <<vars, startedAt, pos, got, walk>>

\* A run asked for by its id is not there: ValueError, answered "not found".
NotFound ==
  LET s == plan[pos + 1] IN s.part = "run" /\ \A r \in s.runs : db[r] = NoRow

Copy(part, from, to) ==
  [c \in DOMAIN to |-> IF c \in ColumnsOf(part) THEN from[c] ELSE to[c]]

Read ==
  /\ pos < Len(plan)
  /\ \/ /\ NotFound
        /\ pos' = Len(plan) /\ got' = Blank
     \/ /\ ~NotFound
        /\ pos' = pos + 1
        /\ got' = LET s == plan[pos + 1] IN
             [r \in Run |->
                IF r \in s.runs /\ (Related(s.part) => got[r] # NoRow)
                  THEN Copy(s.part, db[r], got[r]) ELSE got[r]]
  /\ UNCHANGED <<vars, startedAt, plan, walk>>

------------------------------------------------------------------------------
(* Paging through the list                                                  *)

Listed == {r \in Run : db[r] # NoRow}

\* ORDER BY started_at DESC: the place of a run is the number of listed runs that
\* were started after it; two runs started in one microsecond are left out.
Later(r) == {o \in Listed : startedAt[o] > startedAt[r]}
Place(r) == Cardinality(Later(r))

BeginWalk ==
  /\ Idle
  /\ walk' = [walk EXCEPT !.at = 1, !.existing = Listed]
  /\ UNCHANGED <<vars, startedAt, plan, pos, got>>

\* RunRepository.list_runs, with the offset and a page for the limit.
ListRuns(offset) == {r \in Listed : Place(r) \in offset..(offset + PageSize - 1)}

\* Mutant of ListStatements: the total is counted first.
CountFirst == <<"count_runs", "list_runs">>

\* What list-runs and GET /runs ask for.
ListStatements == <<"list_runs", "count_runs">>

ListSelect ==
  /\ walk.at \in DOMAIN ListStatements
  /\ walk' = [(IF ListStatements[walk.at] = "list_runs"
                 THEN [walk EXCEPT !.rows = Cardinality(ListRuns(walk.offset)),
                                   !.shown = @ \cup ListRuns(walk.offset)]
                 ELSE [walk EXCEPT !.total = Cardinality(Listed)]) EXCEPT !.at = @ + 1]
  /\ UNCHANGED <<vars, startedAt, plan, pos, got>>

PageShown == walk.at = Len(ListStatements) + 1
WalkEnded == walk.at = Len(ListStatements) + 2

\* The last row of the page is passed: the next page, if there is one.
NextPage ==
  /\ PageShown
  /\ walk' = IF walk.offset + walk.rows < walk.total
               THEN [walk EXCEPT !.at = 1, !.offset = @ + walk.rows]
               ELSE [walk EXCEPT !.at = @ + 1]
  /\ UNCHANGED <<vars, startedAt, plan, pos, got>>

------------------------------------------------------------------------------

\* create_run sets started_at, to a later time than that of every run before.
Now == Cardinality({r \in Run : startedAt[r] > 0}) + 1

\* A step of an evaluation.
Evaluation ==
  /\ Next
  /\ startedAt' = [r \in Run |-> IF pending[r] = NoRow /\ pending'[r] # NoRow
                                   THEN Now ELSE startedAt[r]]
  /\ UNCHANGED readerVars

ReadersNext ==
  Evaluation \/ Ask \/ Read \/ BeginWalk \/ ListSelect \/ NextPage

ReadersSpec == ReadersInit /\ [][ReadersNext]_allVars

FairReadersSpec == ReadersSpec /\ \A r \in Run : WF_vars(stage[r] # "new" /\ Node(r))

------------------------------------------------------------------------------
(* Properties                                                               *)

\* Although its SELECTs see the table at different moments, what a request shows
\* of a run it calls completed or failed is what is stored of it: no metric, no
\* verdict and no event of it is missing.
FinalReadIsWhole ==
  pos = Len(plan) =>
    \A r \in Run : got[r].status \in {"completed", "failed"} =>
      \A i \in DOMAIN plan : r \in plan[i].runs =>
        \A c \in ColumnsOf(plan[i].part) : got[r][c] = db[r][c]

\* A user who pages through the list to its end has seen every run that was there
\* when he began, although runs are committed meanwhile, in front of the page or
\* behind it (a run is listed by its start and not by its commit).
WalkSkipsNothing == WalkEnded => walk.existing \subseteq walk.shown
=============================================================================
