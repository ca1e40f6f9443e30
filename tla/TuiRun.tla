------------------------------- MODULE TuiRun -------------------------------
(***************************************************************************)
(* One evaluation started from the terminal UI: the event loop of           *)
(* runTerminal (apps/cli/main.go), the goroutine startBackendRunAsync       *)
(* starts, backendClient.execute with the scanner of the child's stderr     *)
(* (apps/cli/backend.go), and the child process (scripts/tui_backend.py),   *)
(* first a local python and then, whatever made that fail, docker compose.  *)
(* A docker child is the docker CLI, which the TUI can kill, and the engine *)
(* in its container, which it cannot.                                       *)
(* The updates channel is unbuffered: a send is one step with its receive.  *)
(***************************************************************************)
EXTENDS Integers, Sequences, FiniteSets

CONSTANTS MaxRuns,   \* bound: evaluations started
          Lines,     \* progress lines a child prints
          PipeSize,  \* lines the stderr pipe holds
          Notice,    \* cancellationNoticeDuration, in ticks
          MaxOthers  \* bound: runs another client records (SharedSpec only)

ASSUME TuiBounds ==
  /\ MaxRuns \in Nat /\ Lines \in Nat \ {0} /\ PipeSize \in Nat \ {0}
  /\ Notice \in Nat /\ MaxOthers \in Nat

Run == 1..MaxRuns
NoRun == 0   \* also the owner of another client's rows

VARIABLES screen,      \* what the user sees
          running, cancelling, finished, notice, \* appState of the same names
          progress,    \* the lines on the trace screen
          detail,      \* whose row the detail screen shows
          updates,     \* the run whose channel the loop reads, NoRun for nil
          cancelled,   \* the runs whose context is cancelled
          worker,      \* where the goroutine of a run is
          scanner,     \* where its scanProgress is
          child,       \* its child process; printed counts while it is alive
          left,        \* the engine a killed docker CLI has left in its container
          pipe,        \* the lines in the child's stderr
          rows,        \* the runs table in the order of started_at; answered is
                       \* history: execute returned what the row's child printed
          told         \* what the loop took from the run's channel

loop == <<screen, running, cancelling, finished, notice, progress, detail, updates, told>>
vars == <<loop, cancelled, worker, scanner, child, left, pipe, rows>>

NoChild == [kind |-> "none", state |-> "none", printed |-> 0, row |-> 0]
ErrorLine == 0
Screen == {"list", "confirm", "trace", "detail", "error"}

\* The process of a run is alive.
Alive(r) == child[r].state \in {"started", "created", "committed"}

\* Somebody works on the evaluation.
Executing(r) == Alive(r) \/ left[r] # "none"

Init ==
  /\ screen = "list"
  /\ running = FALSE /\ cancelling = FALSE /\ finished = FALSE /\ notice = 0
  /\ progress = <<>> /\ detail = NoRun /\ updates = NoRun
  /\ cancelled = {}
  /\ worker = [r \in Run |-> "new"]
  /\ scanner = [r \in Run |-> "off"]
  /\ child = [r \in Run |-> NoChild]
  /\ left = [r \in Run |-> "none"]
  /\ pipe = [r \in Run |-> <<>>]
  /\ rows = <<>>
  /\ told = [r \in Run |-> "nothing"]

Goto(r, place) == worker' = [worker EXCEPT ![r] = place]

------------------------------------------------------------------------------
(* The child process                                                        *)

Spawn(r, kind) ==
  /\ child' = [child EXCEPT ![r] = [NoChild EXCEPT !.kind = kind, !.state = "started"]]
  /\ pipe' = [pipe EXCEPT ![r] = <<>>]
  /\ scanner' = [scanner EXCEPT ![r] = "reading"]

Write(r, n) ==
  /\ Len(pipe[r]) < PipeSize
  /\ pipe' = [pipe EXCEPT ![r] = Append(@, [run |-> r, kind |-> child[r].kind, line |-> n])]

\* create_run sets started_at; the row is not committed yet.
AddRow(r) ==
  rows' = Append(rows, [run |-> r, kind |-> child[r].kind, committed |-> FALSE,
                        answered |-> FALSE])

StoreRow(r) == rows' = [rows EXCEPT ![child[r].row].committed = TRUE]

CreateRow(r) ==
  /\ child[r].state = "started"
  /\ AddRow(r)
  /\ child' = [child EXCEPT ![r].state = "created", ![r].row = Len(rows')]
  /\ UNCHANGED <<loop, cancelled, worker, scanner, left, pipe>>

PrintProgress(r) ==
  /\ child[r].state = "created"
  /\ child[r].printed < Lines
  /\ Write(r, child[r].printed + 1)
  /\ child' = [child EXCEPT ![r].printed = @ + 1]
  /\ UNCHANGED <<loop, cancelled, worker, scanner, left, rows>>

CommitRow(r) ==
  /\ child[r].state = "created"
  /\ child[r].printed = Lines
  /\ child' = [child EXCEPT ![r].state = "committed"]
  /\ StoreRow(r)
  /\ UNCHANGED <<loop, cancelled, worker, scanner, left, pipe>>

\* The result is on stdout and the exit status is 0.
Exit(r) ==
  /\ child[r].state = "committed"
  /\ child' = [child EXCEPT ![r].state = "exited"]
  /\ UNCHANGED <<loop, cancelled, worker, scanner, left, pipe, rows>>

\* main's except: anything raised, before the commit or after it, is printed as
\* an error line and the exit status is 1.
Fail(r) ==
  /\ Alive(r)
  /\ Write(r, ErrorLine)
  /\ child' = [child EXCEPT ![r].state = "failed", ![r].printed = 0]
  /\ UNCHANGED <<loop, cancelled, worker, scanner, left, rows>>

\* What goes on in the container when the docker CLI is killed: nothing only if
\* the engine has not been started there, or has committed already.
LeftBehind(r) ==
  CASE child[r].kind = "docker" /\ child[r].state = "started" -> {"none", "started"}
    [] child[r].kind = "docker" /\ child[r].state = "created" -> {"created"}
    [] OTHER -> {"none"}

\* CommandContext kills the process of a cancelled context, at any point: the local
\* python, or the docker CLI.
Kill(r) ==
  /\ r \in cancelled
  /\ Alive(r)
  /\ child' = [child EXCEPT ![r].state = "failed", ![r].printed = 0]
  /\ \E state \in LeftBehind(r) : left' = [left EXCEPT ![r] = state]
  /\ UNCHANGED <<loop, cancelled, worker, scanner, pipe, rows>>

Child(r) ==
  \/ CreateRow(r) \/ PrintProgress(r) \/ CommitRow(r) \/ Exit(r)
  \/ Fail(r) \/ Kill(r)

\* An engine whose docker CLI is gone goes on; nobody reads what it prints.
EngineCreates(r) ==
  /\ left[r] = "started"
  /\ AddRow(r)
  /\ child' = [child EXCEPT ![r].row = Len(rows')]
  /\ left' = [left EXCEPT ![r] = "created"]
  /\ UNCHANGED <<loop, cancelled, worker, scanner, pipe>>

EngineCommits(r) ==
  /\ left[r] = "created"
  /\ StoreRow(r)
  /\ left' = [left EXCEPT ![r] = "none"]
  /\ UNCHANGED <<loop, cancelled, worker, scanner, child, pipe>>

EngineFails(r) ==
  /\ left[r] # "none"
  /\ left' = [left EXCEPT ![r] = "none"]
  /\ UNCHANGED <<loop, cancelled, worker, scanner, child, pipe, rows>>

Engine(r) == EngineCreates(r) \/ EngineCommits(r) \/ EngineFails(r)

\* Another client of the database starts a run later than every row and has it
\* committed at once; one that starts earlier is never the newest.
OtherRecords ==
  /\ Cardinality({i \in DOMAIN rows : rows[i].run = NoRun}) < MaxOthers
  /\ rows' = Append(rows, [run |-> NoRun, kind |-> "other", committed |-> TRUE, answered |-> FALSE])
  /\ UNCHANGED <<loop, cancelled, worker, scanner, child, left, pipe>>

------------------------------------------------------------------------------
(* scanProgress                                                             *)

\* The line stays at the head of pipe[r] until it is delivered or dropped.
ScanLine(r) ==
  /\ scanner[r] = "reading"
  /\ pipe[r] # <<>>
  /\ scanner' = [scanner EXCEPT ![r] = "sending"]
  /\ UNCHANGED <<loop, cancelled, worker, child, left, pipe, rows>>

\* Mutant of GivesUp: the send does not wait for the loop.
GivesUpAtOnce(r) == TRUE

\* onProgress stops waiting for the loop when the context is cancelled.
GivesUp(r) == r \in cancelled

DropLine(r) ==
  /\ scanner[r] = "sending"
  /\ GivesUp(r)
  /\ scanner' = [scanner EXCEPT ![r] = "reading"]
  /\ pipe' = [pipe EXCEPT ![r] = Tail(@)]
  /\ UNCHANGED <<loop, cancelled, worker, child, left, rows>>

\* The end of the file, or the pipe that Wait has closed.
ScanEnd(r) ==
  /\ scanner[r] = "reading"
  /\ pipe[r] = <<>> /\ ~Alive(r)
  /\ scanner' = [scanner EXCEPT ![r] = "done"]
  /\ UNCHANGED <<loop, cancelled, worker, child, left, pipe, rows>>

Scanner(r) == ScanLine(r) \/ DropLine(r) \/ ScanEnd(r)

------------------------------------------------------------------------------
(* The goroutine: client.run and backendClient.execute                      *)

StartLocal(r) ==
  /\ worker[r] = "start"
  /\ r \notin cancelled
  /\ Spawn(r, "local")
  /\ Goto(r, "local")
  /\ UNCHANGED <<loop, cancelled, left, rows>>

\* No script, no python, or a context that is cancelled already.
LocalUnavailable(r) ==
  /\ worker[r] = "start"
  /\ Goto(r, "fallback")
  /\ UNCHANGED <<loop, cancelled, scanner, child, left, pipe, rows>>

StartDocker(r) ==
  /\ worker[r] = "fallback"
  /\ r \notin cancelled
  /\ Spawn(r, "docker")
  /\ Goto(r, "docker")
  /\ UNCHANGED <<loop, cancelled, left, rows>>

DockerUnavailable(r) ==
  /\ worker[r] = "fallback"
  /\ Goto(r, "fails")
  /\ UNCHANGED <<loop, cancelled, scanner, child, left, pipe, rows>>

\* ReadAll returns when the child's stdout ends; Wait then closes the stderr
\* pipe: what the scanner has not read of it by then is lost.
Wait(r) ==
  /\ worker[r] \in {"local", "docker"}
  /\ ~Alive(r)
  /\ \E kept \in (IF scanner[r] = "sending" THEN 1 ELSE 0)..Len(pipe[r]) :
       pipe' = [pipe EXCEPT ![r] = SubSeq(@, 1, kept)]
  /\ Goto(r, IF worker[r] = "local" THEN "localDrain" ELSE "dockerDrain")
  /\ UNCHANGED <<loop, cancelled, scanner, child, left, rows>>

\* Mutant of Succeeded: the exit status is not looked at.
SucceededUnread(r) == child[r].state \in {"exited", "failed"}

Succeeded(r) == child[r].state = "exited"

\* `<-diagnostics` and waitErr = nil: execute returns the output, which run decodes
\* or not (json.Unmarshal).
TakeAnswer(r) ==
  /\ Succeeded(r)
  /\ rows' = [rows EXCEPT ![child[r].row].answered = TRUE]
  /\ \E end \in {"succeeds", "fails"} : Goto(r, end)

\* readErr or waitErr, whatever the child has committed: a status, or output that
\* could not be read, or a kill that was too late to matter.
GiveUpChild(r) ==
  /\ Goto(r, IF worker[r] = "localDrain" THEN "fallback" ELSE "fails")
  /\ UNCHANGED rows

Drain(r) ==
  /\ worker[r] \in {"localDrain", "dockerDrain"}
  /\ scanner[r] = "done"
  /\ TakeAnswer(r) \/ GiveUpChild(r)
  /\ UNCHANGED <<loop, cancelled, scanner, child, left, pipe>>

Close(r) ==
  /\ worker[r] = "closing"
  /\ Goto(r, "closed")
  /\ UNCHANGED <<loop, cancelled, scanner, child, left, pipe, rows>>

Worker(r) ==
  \/ StartLocal(r) \/ LocalUnavailable(r) \/ StartDocker(r) \/ DockerUnavailable(r)
  \/ Wait(r) \/ Drain(r) \/ Close(r)

------------------------------------------------------------------------------
(* The event loop                                                           *)

\* Keys that move between screens (nextState); none has an effect while running.
\* "list" stands for every screen but those of a run.
Navigate ==
  /\ ~running
  /\ screen' = IF screen = "list" THEN "confirm" ELSE "list"
  /\ UNCHANGED <<running, cancelling, finished, notice, progress, detail, updates, told,
                 cancelled, worker, scanner, child, left, pipe, rows>>

ClearCancellation == cancelling' = FALSE /\ finished' = FALSE /\ notice' = 0

NextRun(r) == worker[r] = "new" /\ \A s \in 1..(r - 1) : worker[s] # "new"

StartRun(r) ==
  /\ ~running /\ screen = "confirm" /\ NextRun(r)
  /\ progress' = <<>> /\ detail' = NoRun /\ screen' = "trace"
  /\ running' = TRUE /\ ClearCancellation
  /\ updates' = r
  /\ Goto(r, "start")
  /\ UNCHANGED <<told, cancelled, scanner, child, left, pipe, rows>>

\* No candidate was loaded: only the error is sent, and the detail screen shows
\* until it is received.
StartUnselected(r) ==
  /\ ~running /\ screen = "confirm" /\ NextRun(r)
  /\ screen' = "detail"
  /\ updates' = r
  /\ Goto(r, "fails")
  /\ UNCHANGED <<running, cancelling, finished, notice, progress, detail, told,
                 cancelled, scanner, child, left, pipe, rows>>

PressB ==
  /\ running /\ ~cancelling
  /\ cancelling' = TRUE
  /\ notice' = Notice
  /\ cancelled' = cancelled \cup {updates}
  /\ UNCHANGED <<screen, running, finished, progress, detail, updates, told,
                 worker, scanner, child, left, pipe, rows>>

\* Mutant of Listening: the channel is left alone during a cancellation.
ListeningUnlessCancelling(r) == updates = r /\ ~cancelling

Listening(r) == updates = r

ReceiveProgress(r) ==
  /\ Listening(r)
  /\ scanner[r] = "sending"
  /\ scanner' = [scanner EXCEPT ![r] = "reading"]
  /\ pipe' = [pipe EXCEPT ![r] = Tail(@)]
  /\ progress' = IF cancelling THEN progress ELSE Append(progress, Head(pipe[r]))
  /\ UNCHANGED <<screen, running, cancelling, finished, notice, detail, updates, told,
                 cancelled, worker, child, left, rows>>

Newest ==
  LET done == {i \in DOMAIN rows : rows[i].committed}
  IN  IF done = {} THEN detail ELSE rows[CHOOSE i \in done : \A j \in done : j <= i].run

Tell(r, what) == told' = [told EXCEPT ![r] = what]

\* The outcome of a cancelled run is received and forgotten.
ReceiveDropped(r) ==
  /\ cancelling
  /\ finished' = TRUE
  /\ Tell(r, "dropped")
  /\ UNCHANGED <<screen, running, detail>>

\* The detail screen shows runs[0], the newest of the committed rows, whoever
\* committed it; a failing refresh shows the error screen.
ReceiveResult(r) ==
  /\ ~cancelling
  /\ worker[r] = "succeeds"
  /\ running' = FALSE
  /\ Tell(r, "result")
  /\ \/ screen' = "detail" /\ detail' = Newest
     \/ screen' = "error" /\ UNCHANGED detail
  /\ UNCHANGED finished

ReceiveError(r) ==
  /\ ~cancelling
  /\ worker[r] = "fails"
  /\ running' = FALSE
  /\ Tell(r, "error")
  /\ screen' = "error"
  /\ UNCHANGED <<detail, finished>>

ReceiveEnd(r) ==
  /\ Listening(r)
  /\ worker[r] \in {"succeeds", "fails"}
  /\ Goto(r, "closing")
  /\ ReceiveDropped(r) \/ ReceiveResult(r) \/ ReceiveError(r)
  /\ UNCHANGED <<cancelling, notice, progress, updates, cancelled, scanner, child, left, pipe, rows>>

ReceiveClosed(r) ==
  /\ Listening(r)
  /\ worker[r] = "closed"
  /\ updates' = NoRun
  /\ finished' = (finished \/ cancelling)
  /\ UNCHANGED <<screen, running, cancelling, notice, progress, detail, told,
                 cancelled, worker, scanner, child, left, pipe, rows>>

Tick ==
  /\ notice > 0
  /\ notice' = notice - 1
  /\ UNCHANGED <<screen, running, cancelling, finished, progress, detail, updates, told,
                 cancelled, worker, scanner, child, left, pipe, rows>>

\* Mutant of ReadyToExit: the child's end is not waited for.
ReadyAfterNotice == cancelling /\ notice = 0

\* Mutant of ReadyToExit: the notice is not waited for.
ReadyWhenFinished == cancelling /\ finished

\* cancellationReadyToExit
ReadyToExit == cancelling /\ finished /\ notice = 0

\* returnToBenchmarkList, at the head of the loop or on cancellationTimer.
Return ==
  /\ ReadyToExit
  /\ running' = FALSE /\ ClearCancellation
  /\ progress' = <<>> /\ detail' = NoRun /\ screen' = "list"
  /\ UNCHANGED <<updates, told, cancelled, worker, scanner, child, left, pipe, rows>>

Receive(r) == ReceiveProgress(r) \/ ReceiveEnd(r) \/ ReceiveClosed(r)

Next ==
  \/ \E r \in Run :
       \/ Child(r) \/ Engine(r) \/ Scanner(r) \/ Worker(r)
       \/ StartRun(r) \/ StartUnselected(r) \/ Receive(r)
  \/ Navigate \/ PressB \/ Tick \/ Return

Spec == Init /\ [][Next]_vars

\* The same while no engine is left in a container.
UndisturbedSpec == Init /\ [][Next /\ UNCHANGED left]_vars

\* The same beside another client of the database.
SharedSpec == Init /\ [][Next \/ OtherRecords]_vars

\* A child ends by itself or is killed, the scheduler runs every goroutine, the
\* loop's select takes what is ready, time passes.
FairSpec ==
  /\ Spec
  /\ \A r \in Run :
       WF_vars(Child(r)) /\ WF_vars(Scanner(r)) /\ WF_vars(Worker(r)) /\ WF_vars(Receive(r))
  /\ WF_vars(Tick) /\ WF_vars(Return)

------------------------------------------------------------------------------
(* Properties                                                               *)

\* The values of the variables; a cancellation exists only while running.
TuiTypeOK ==
  /\ screen \in Screen
  /\ {running, cancelling, finished} \subseteq BOOLEAN
  /\ notice \in 0..Notice
  /\ detail \in Run \cup {NoRun} /\ updates \in Run \cup {NoRun}
  /\ cancelled \subseteq Run
  /\ \A r \in Run : Len(pipe[r]) <= PipeSize
  /\ cancelling => running
  /\ finished => cancelling

\* runTerminal ignores every key but b while an evaluation runs, so that it can
\* offer the other screens knowing what is left executing: when it is not running,
\* no child process is alive and no scanner holds a line.  What may be at work then
\* is the engine of a docker run that was cancelled, and nothing else.
IdleMeansNoChild ==
  ~running =>
    \A r \in Run :
      /\ ~Alive(r) /\ scanner[r] \in {"off", "done"}
      /\ Executing(r) => r \in cancelled /\ child[r].kind = "docker"

\* returnToBenchmarkList runs only when the notice has been shown long enough
\* (cancelNoticeUntil) and the goroutine has answered.
CancelSeenThrough ==
  [][cancelling /\ ~cancelling' =>
       notice = 0 /\ screen' = "list" /\ \A r \in cancelled : worker[r] \in {"closing", "closed"}]_vars

\* The trace of a running evaluation is the beginning of what the local child
\* printed and then of what the docker child printed, in that order: every line
\* follows the line before it of its child, none is missing or twice there, and
\* none is of an earlier run.
ProgressHasNoGap ==
  LET of(kind) == {i \in DOMAIN progress : progress[i].kind = kind /\ progress[i].line # ErrorLine}
  IN  /\ \A kind \in {"local", "docker"} : \A i \in of(kind) :
           /\ progress[i].line > 1 =>
                \E j \in of(kind) : j < i /\ progress[j].line = progress[i].line - 1
           /\ \A j \in of(kind) : j < i => progress[j].line < progress[i].line
      /\ \A i, j \in DOMAIN progress :
           i < j => ~(progress[i].kind = "docker" /\ progress[j].kind = "local")
      /\ running => \A i \in DOMAIN progress : \A r \in Run :
                       r > progress[i].run => worker[r] = "new"

\* What the loop is told agrees with the runs table: the output that execute
\* returned is of a committed run, a result is such an output, and when a result or
\* an error is told nobody works on the evaluation any more; only a cancelled run's
\* outcome is dropped.  An evaluation has committed two runs at most, the second by
\* docker, and then what is told is not the first one's.
ToldTheTruth ==
  \A r \in Run :
    LET own == {i \in DOMAIN rows : rows[i].run = r}
        stored == {i \in own : rows[i].committed}
        answered == {i \in own : rows[i].answered} IN
    /\ answered \subseteq stored
    /\ told[r] = "result" => answered # {}
    /\ told[r] \in {"result", "error"} => ~Executing(r)
    /\ told[r] = "dropped" => r \in cancelled
    /\ \A i, j \in stored : i < j =>
         rows[i].kind = "local" /\ rows[j].kind = "docker" /\ i \notin answered

\* The guards of what can happen to an evaluation without the user: its child runs,
\* its scanner reads or is received from, its goroutine goes on or is received from.
CanGoOn(r) ==
  \/ child[r].state \in {"started", "committed"}
  \/ child[r].state = "created" /\ child[r].printed = Lines
  \/ child[r].state = "created" /\ child[r].printed < Lines /\ Len(pipe[r]) < PipeSize
  \/ scanner[r] = "reading" /\ (pipe[r] # <<>> \/ ~Alive(r))
  \/ scanner[r] = "sending" /\ updates = r
  \/ worker[r] \in {"start", "fallback", "closing"}
  \/ worker[r] \in {"local", "docker"} /\ ~Alive(r)
  \/ worker[r] \in {"localDrain", "dockerDrain"} /\ scanner[r] = "done"
  \/ worker[r] \in {"succeeds", "fails"} /\ updates = r

\* The loop, the goroutine, the scanner and the child never wait for each other in a
\* circle: neither a child blocked on a full pipe, nor `<-diagnostics`, nor a send on
\* the unbuffered channel, nor a cancellation waits for something that waits for it.
NeverStuck ==
  running => notice > 0 \/ ReadyToExit \/ (updates \in Run /\ CanGoOn(updates))

\* Every evaluation ends for the user: the loop leaves the running state.
RunEnds == running ~> ~running

\* tests/e2e/MANUAL_PHASE4_BACKEND_TUI_UX.md: the screen that follows a run is
\* the detail of that run.
ResultShownIsTheRun ==
  [][\A r \in Run : told[r] = "nothing" /\ told'[r] = "result" /\ screen' = "detail"
       => detail' = r]_vars
=============================================================================
