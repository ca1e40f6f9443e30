--------------------------- MODULE TuiRun_proofs ---------------------------
(***************************************************************************)
(* TLAPS proofs about TuiRun, for any number of evaluations, progress lines *)
(* and ticks, any size of the pipe, and beside another client that records  *)
(* runs too.  The event loop never looks at the child, the scanner or the   *)
(* goroutine; the invariant says what running, finished and the channel it  *)
(* listens to let it conclude about them.                                   *)
(***************************************************************************)
EXTENDS TuiRun, SequenceTheorems, WellFoundedInduction, TLAPS

\* Where a goroutine is between its start and the end it reports.
Active == {"start", "local", "localDrain", "fallback", "docker", "dockerDrain", "succeeds"}
Ended == {"closing", "closed"}
Places == Active \cup Ended \cup {"new", "fails"}

ChildType ==
  [kind : {"none", "local", "docker"}, printed : Nat, row : Nat,
   state : {"none", "started", "created", "committed", "exited", "failed"}]
RowType ==
  [run : Run \cup {NoRun}, kind : {"none", "local", "docker", "other"},
   committed : BOOLEAN, answered : BOOLEAN]

HasRow(r) == child[r].state \in {"created", "committed", "exited"} \/ left[r] = "created"

TuiTypes ==
  /\ running \in BOOLEAN /\ cancelling \in BOOLEAN /\ finished \in BOOLEAN
  /\ updates \in Run \cup {NoRun} /\ cancelled \subseteq Run
  /\ worker \in [Run -> Places]
  /\ scanner \in [Run -> {"off", "reading", "sending", "done"}]
  /\ child \in [Run -> ChildType]
  /\ left \in [Run -> {"none", "started", "created"}]
  /\ rows \in Seq(RowType)
  /\ \A r \in Run : HasRow(r) => child[r].row \in 1..Len(rows)
  /\ told \in [Run -> {"nothing", "result", "error", "dropped"}]

\* A child and its scanner are at work only under their goroutine, the goroutine only
\* while the loop runs and listens to it.
UnderTheLoop ==
  \A r \in Run :
    /\ Alive(r) => worker[r] \in {"local", "docker"}
    /\ scanner[r] \in {"reading", "sending"} =>
         worker[r] \in {"local", "docker", "localDrain", "dockerDrain"}
    /\ worker[r] \in Active => running /\ ~finished /\ updates = r

\* While it runs and has not finished, the loop listens to a goroutine that has not
\* ended; when it has finished, to one that has or to none.
LoopListens ==
  /\ finished => cancelling
  /\ cancelling => running
  /\ running /\ ~finished => updates \in Run /\ worker[updates] \in Active \cup {"fails"}
  /\ finished /\ updates \in Run => worker[updates] \in Ended

\* A run is cancelled while the loop listens to it, and stays so until it has ended.
CancelKnown ==
  /\ cancelling /\ ~finished => updates \in cancelled
  /\ \A r \in cancelled :
       worker[r] \in Ended \/ (r = updates /\ running /\ cancelling /\ ~finished)
  /\ \A r \in Run : told[r] = "dropped" => r \in cancelled
  /\ \A r \in Run : told[r] \in {"result", "error"} => r \notin cancelled /\ worker[r] \in Ended

\* The local child comes first, and docker is asked once.
KindOfWorker ==
  \A r \in Run :
    /\ worker[r] \in {"new", "start"} => child[r].kind = "none"
    /\ worker[r] \in {"local", "localDrain"} => child[r].kind = "local"
    /\ worker[r] = "fallback" => child[r].kind \in {"none", "local"}
    /\ worker[r] \in {"docker", "dockerDrain"} => child[r].kind = "docker"

\* What goes on in a container is a cancelled run's, whose docker CLI was killed.
LeftAlone ==
  \A r \in Run : left[r] # "none" =>
    /\ r \in cancelled
    /\ child[r].kind = "docker" /\ child[r].state = "failed"
    /\ worker[r] \in {"docker", "dockerDrain", "fails", "closing", "closed"}

LoopIInv ==
  TuiTypes /\ UnderTheLoop /\ LoopListens /\ CancelKnown /\ KindOfWorker /\ LeftAlone

LEMMA LoopStarts == Init => LoopIInv
<1> SUFFICES ASSUME Init PROVE LoopIInv
  OBVIOUS
<1>1. \A r \in Run : child[r] = NoChild /\ worker[r] = "new" /\ scanner[r] = "off"
                       /\ told[r] = "nothing" /\ left[r] = "none"
  BY DEF Init
<1>2. child \in [Run -> ChildType]
  BY DEF Init, NoChild, ChildType
<1>3. TuiTypes
  <2>1. \A r \in Run : ~HasRow(r)
    BY <1>1 DEF HasRow, NoChild
  <2>2. rows \in Seq(RowType)
    BY DEF Init
  <2>3. worker \in [Run -> Places]
    BY DEF Init, Places
  <2> QED BY <1>2, <2>1, <2>2, <2>3 DEF Init, TuiTypes
<1>4. UnderTheLoop
  BY <1>1 DEF UnderTheLoop, Alive, NoChild, Active
<1>5. LoopListens /\ CancelKnown
  BY <1>1 DEF Init, LoopListens, CancelKnown, NoRun, Run
<1>6. KindOfWorker /\ LeftAlone
  BY <1>1 DEF KindOfWorker, LeftAlone, NoChild
<1> QED BY <1>3, <1>4, <1>5, <1>6 DEF LoopIInv

\* A row more at the end of the table.
LEMMA RowAdded ==
  ASSUME rows \in Seq(RowType), NEW new \in RowType, rows' = Append(rows, new)
  PROVE  /\ rows' \in Seq(RowType) /\ Len(rows) \in Nat /\ Len(rows') = Len(rows) + 1
         /\ DOMAIN rows = 1..Len(rows) /\ DOMAIN rows' = 1..(Len(rows) + 1)
         /\ \A i \in DOMAIN rows : rows'[i] = rows[i]
         /\ rows'[Len(rows) + 1] = new
OBVIOUS

\* A row is overwritten by one of the same evaluation.
OneRow(n) ==
  /\ rows' \in Seq(RowType) /\ Len(rows) \in Nat /\ Len(rows') = Len(rows)
  /\ DOMAIN rows = 1..Len(rows) /\ DOMAIN rows' = 1..Len(rows)
  /\ \A i \in DOMAIN rows : i # n => rows'[i] = rows[i]
  /\ rows'[n].run = rows[n].run /\ rows'[n].kind = rows[n].kind

LEMMA RowChanged ==
  ASSUME rows \in Seq(RowType), NEW n \in 1..Len(rows), NEW x \in RowType,
         x.run = rows[n].run, x.kind = rows[n].kind, rows' = [rows EXCEPT ![n] = x]
  PROVE  OneRow(n) /\ rows'[n] = x
<1>1. rows' \in Seq(RowType) /\ Len(rows') = Len(rows) /\ Len(rows) \in Nat
  BY ExceptSeq
<1> QED BY <1>1 DEF OneRow

LEMMA RowStored ==
  ASSUME rows \in Seq(RowType), NEW n \in 1..Len(rows), rows' = [rows EXCEPT ![n].committed = TRUE]
  PROVE  OneRow(n) /\ rows'[n].committed /\ rows'[n].answered = rows[n].answered
<1> DEFINE x == [rows[n] EXCEPT !.committed = TRUE]
<1>1. /\ x \in RowType /\ x.run = rows[n].run /\ x.kind = rows[n].kind
      /\ x.committed /\ x.answered = rows[n].answered
  <2>1. rows[n] \in RowType
    OBVIOUS
  <2> QED BY <2>1 DEF RowType
<1>2. rows' = [rows EXCEPT ![n] = x]
  OBVIOUS
<1> HIDE DEF x
<1>3. OneRow(n) /\ rows'[n] = x
  BY <1>1, <1>2, RowChanged
<1> QED BY <1>1, <1>3

LEMMA RowAnswered ==
  ASSUME rows \in Seq(RowType), NEW n \in 1..Len(rows), rows' = [rows EXCEPT ![n].answered = TRUE]
  PROVE  OneRow(n) /\ rows'[n].answered /\ rows'[n].committed = rows[n].committed
<1> DEFINE x == [rows[n] EXCEPT !.answered = TRUE]
<1>1. /\ x \in RowType /\ x.run = rows[n].run /\ x.kind = rows[n].kind
      /\ x.answered /\ x.committed = rows[n].committed
  <2>1. rows[n] \in RowType
    OBVIOUS
  <2> QED BY <2>1 DEF RowType
<1>2. rows' = [rows EXCEPT ![n] = x]
  OBVIOUS
<1> HIDE DEF x
<1>3. OneRow(n) /\ rows'[n] = x
  BY <1>1, <1>2, RowChanged
<1> QED BY <1>1, <1>3

\* What a kill leaves is the engine of a docker run, as far as it has come.
LEMMA KillLeaves ==
  ASSUME LoopIInv, NEW r \in Run, Kill(r)
  PROVE  /\ left' \in [Run -> {"none", "started", "created"}]
         /\ \A s \in Run : s # r => left'[s] = left[s]
         /\ left'[r] # "none" => child[r].kind = "docker" /\ left'[r] = child[r].state
         /\ child'[r].state = "failed" /\ child'[r].kind = child[r].kind
         /\ child'[r].row = child[r].row
         /\ \A s \in Run : s # r => child'[s] = child[s]
<1>1. left \in [Run -> {"none", "started", "created"}] /\ child \in [Run -> ChildType]
  BY DEF LoopIInv, TuiTypes
<1>2. PICK state \in LeftBehind(r) : left' = [left EXCEPT ![r] = state]
  BY DEF Kill
<1>3. state \in {"none", "started", "created"} /\ (state # "none" => child[r].kind = "docker" /\ state = child[r].state)
  <2>1. CASE child[r].kind = "docker" /\ child[r].state = "started"
    BY <1>2, <2>1 DEF LeftBehind
  <2>2. CASE child[r].kind = "docker" /\ child[r].state = "created"
    BY <1>2, <2>2 DEF LeftBehind
  <2>3. CASE ~(child[r].kind = "docker" /\ child[r].state \in {"started", "created"})
    BY <1>2, <2>3 DEF LeftBehind
  <2> QED BY <2>1, <2>2, <2>3
<1>4. child' = [child EXCEPT ![r] = [child[r] EXCEPT !.state = "failed", !.printed = 0]]
  BY <1>1 DEF Kill
<1>5. /\ child'[r].state = "failed" /\ child'[r].kind = child[r].kind
      /\ child'[r].row = child[r].row
      /\ \A s \in Run : s # r => child'[s] = child[s]
  BY <1>1, <1>4 DEF ChildType
<1> QED BY <1>1, <1>2, <1>3, <1>5

\* What the child does.
LEMMA ChildKeeps ==
  ASSUME LoopIInv, NEW r \in Run, Child(r)
  PROVE  LoopIInv'
<1> USE DEF LoopIInv
<1>1. /\ rows \in Seq(RowType) /\ child \in [Run -> ChildType] /\ Run \subseteq Nat
      /\ left \in [Run -> {"none", "started", "created"}] /\ Len(rows) \in Nat
  BY TuiBounds DEF TuiTypes, Run
<1>2. UNCHANGED <<loop, cancelled, worker, scanner>>
  BY DEF Child, CreateRow, PrintProgress, CommitRow, Exit, Fail, Kill
<1>3. child' \in [Run -> ChildType]
  <2>1. CASE CreateRow(r)
    <3>1. Len(rows') \in Nat
      BY <1>1, <2>1 DEF CreateRow, AddRow, RowType
    <3>2. [child[r] EXCEPT !.state = "created", !.row = Len(rows')] \in ChildType
      BY <1>1, <3>1 DEF ChildType
    <3>3. child' = [child EXCEPT ![r] =
                      [child[r] EXCEPT !.state = "created", !.row = Len(rows')]]
      BY <1>1, <2>1 DEF CreateRow
    <3> QED BY <1>1, <3>2, <3>3
  <2>2. CASE PrintProgress(r)
    <3>1. child[r] \in ChildType /\ child[r].printed + 1 \in Nat
      BY <1>1 DEF ChildType
    <3>2. [child[r] EXCEPT !.printed = child[r].printed + 1] \in ChildType
      BY <3>1 DEF ChildType
    <3>3. child' = [child EXCEPT ![r] = [child[r] EXCEPT !.printed = child[r].printed + 1]]
      BY <1>1, <2>2 DEF PrintProgress
    <3> QED BY <1>1, <3>2, <3>3
  <2>3. CASE CommitRow(r)
    <3>1. child' = [child EXCEPT ![r] = [child[r] EXCEPT !.state = "committed"]]
      BY <1>1, <2>3 DEF CommitRow
    <3> QED BY <1>1, <3>1 DEF ChildType
  <2>4. CASE Exit(r)
    <3>1. child' = [child EXCEPT ![r] = [child[r] EXCEPT !.state = "exited"]]
      BY <1>1, <2>4 DEF Exit
    <3> QED BY <1>1, <3>1 DEF ChildType
  <2>5. CASE Fail(r) \/ Kill(r)
    <3>1. child' = [child EXCEPT ![r] = [child[r] EXCEPT !.state = "failed", !.printed = 0]]
      BY <1>1, <2>5 DEF Fail, Kill
    <3> QED BY <1>1, <3>1 DEF ChildType
  <2> QED BY <2>1, <2>2, <2>3, <2>4, <2>5 DEF Child
<1>4. /\ \A s \in Run : s # r => child'[s] = child[s]
      /\ Alive(r) /\ child'[r].kind = child[r].kind /\ left[r] = "none"
  <2>1. Alive(r) /\ left[r] = "none"
    <3>1. Alive(r)
      BY DEF Child, CreateRow, PrintProgress, CommitRow, Exit, Fail, Kill, Alive
    <3> QED BY <3>1 DEF LeftAlone, Alive
  <2>2. CASE CreateRow(r) \/ PrintProgress(r)
    BY <1>1, <2>1, <2>2 DEF CreateRow, PrintProgress, ChildType
  <2>3. CASE CommitRow(r) \/ Exit(r) \/ Fail(r) \/ Kill(r)
    BY <1>1, <2>1, <2>3 DEF CommitRow, Exit, Fail, Kill, ChildType
  <2> QED BY <2>1, <2>2, <2>3 DEF Child
<1>5. /\ \A s \in Run : s # r => left'[s] = left[s]
      /\ \/ left' = left
         \/ /\ Kill(r) /\ child[r].kind = "docker" /\ child'[r].state = "failed"
            /\ left'[r] = "created" => child[r].state = "created"
            /\ left' \in [Run -> {"none", "started", "created"}]
  <2>1. CASE Kill(r) /\ left'[r] = "none"
    BY <1>1, <1>4, <2>1, KillLeaves
  <2>2. CASE Kill(r) /\ left'[r] # "none"
    BY <1>1, <2>2, KillLeaves DEF ChildType
  <2>3. CASE CreateRow(r) \/ PrintProgress(r) \/ CommitRow(r) \/ Exit(r) \/ Fail(r)
    BY <2>3 DEF CreateRow, PrintProgress, CommitRow, Exit, Fail
  <2> QED BY <2>1, <2>2, <2>3 DEF Child
<1>6. /\ rows' \in Seq(RowType) /\ Len(rows') \in Nat /\ Len(rows') >= Len(rows)
      /\ HasRow(r)' => child'[r].row \in 1..Len(rows')
  <2>1. CASE CreateRow(r)
    <3> DEFINE new == [run |-> r, kind |-> child[r].kind, committed |-> FALSE, answered |-> FALSE]
    <3>1. new \in RowType /\ rows' = Append(rows, new)
      <4>1. child[r].kind \in {"none", "local", "docker"}
        BY <1>1 DEF ChildType
      <4> QED BY <2>1, <4>1 DEF RowType, CreateRow, AddRow
    <3> HIDE DEF new
    <3>2. rows' \in Seq(RowType) /\ Len(rows') = Len(rows) + 1
      BY <1>1, <3>1, RowAdded
    <3>3. child'[r].row = Len(rows')
      BY <1>1, <2>1 DEF CreateRow, ChildType
    <3> QED BY <1>1, <3>2, <3>3
  <2>2. CASE CommitRow(r)
    <3> DEFINE i == child[r].row
    <3>1. i \in 1..Len(rows) /\ child'[r].row = i
      BY <1>1, <2>2 DEF CommitRow, HasRow, TuiTypes, ChildType
    <3>2. rows' = [rows EXCEPT ![i].committed = TRUE]
      BY <2>2 DEF CommitRow, StoreRow
    <3> HIDE DEF i
    <3>3. rows' \in Seq(RowType) /\ Len(rows') = Len(rows)
      BY <1>1, <3>1, <3>2, RowStored DEF OneRow
    <3> QED BY <1>1, <3>1, <3>3
  <2>3. CASE PrintProgress(r) \/ Exit(r) \/ Fail(r)
    <3>1. /\ rows' = rows
          /\ HasRow(r)' => HasRow(r) /\ child'[r].row = child[r].row
      BY <1>1, <2>3 DEF PrintProgress, Exit, Fail, HasRow, ChildType
    <3> QED BY <1>1, <3>1 DEF TuiTypes
  <2>4. CASE Kill(r)
    <3>1. /\ rows' = rows /\ child'[r].row = child[r].row /\ child'[r].state = "failed"
      BY <1>1, <2>4 DEF Kill, ChildType
    <3>2. HasRow(r)' => HasRow(r)
      BY <1>4, <1>5, <3>1 DEF HasRow
    <3> QED BY <1>1, <3>1, <3>2 DEF TuiTypes
  <2> QED BY <2>1, <2>2, <2>3, <2>4 DEF Child
<1>7. TuiTypes'
  <2>1. ASSUME NEW s \in Run, s # r, HasRow(s)'
        PROVE  child'[s].row \in 1..Len(rows')
    <3>1. HasRow(s) /\ child'[s] = child[s]
      BY <1>4, <1>5, <2>1 DEF HasRow
    <3>2. child[s].row \in 1..Len(rows)
      BY <3>1 DEF TuiTypes
    <3> QED BY <1>1, <1>6, <3>1, <3>2
  <2>2. \A s \in Run : HasRow(s)' => child'[s].row \in 1..Len(rows')
    BY <1>6, <2>1
  <2>3. left' \in [Run -> {"none", "started", "created"}]
    BY <1>1, <1>5
  <2> QED BY <1>2, <1>3, <1>6, <2>2, <2>3 DEF TuiTypes, loop
<1>8. \A s \in Run : Alive(s)' => Alive(s)
  BY <1>4 DEF Alive
<1>9. KindOfWorker'
  BY <1>2, <1>4 DEF KindOfWorker
<1>10. LeftAlone'
  <2>1. ASSUME NEW s \in Run, left'[s] # "none"
        PROVE  /\ s \in cancelled' /\ child'[s].kind = "docker" /\ child'[s].state = "failed"
               /\ worker'[s] \in {"docker", "dockerDrain", "fails", "closing", "closed"}
    <3>1. CASE s # r
      BY <1>2, <1>4, <1>5, <2>1, <3>1 DEF LeftAlone
    <3>2. CASE s = r
      <4>1. Kill(r) /\ child[r].kind = "docker" /\ child'[r].state = "failed"
        BY <1>4, <1>5, <2>1, <3>2
      <4>2. r \in cancelled /\ worker[r] = "docker"
        BY <1>4, <4>1 DEF Kill, UnderTheLoop, KindOfWorker
      <4> QED BY <1>2, <1>4, <3>2, <4>1, <4>2
    <3> QED BY <3>1, <3>2
  <2> QED BY <2>1 DEF LeftAlone
<1> QED BY <1>2, <1>7, <1>8, <1>9, <1>10 DEF UnderTheLoop, LoopListens, CancelKnown, loop

\* What an engine does that its docker CLI has left, and another client.
LEMMA OthersKeep ==
  ASSUME LoopIInv, (\E r \in Run : Engine(r)) \/ OtherRecords
  PROVE  LoopIInv'
<1> USE DEF LoopIInv
<1>1. /\ rows \in Seq(RowType) /\ child \in [Run -> ChildType] /\ Len(rows) \in Nat
      /\ left \in [Run -> {"none", "started", "created"}]
  BY DEF TuiTypes
<1>2. UNCHANGED <<loop, cancelled, worker, scanner>>
  BY DEF Engine, EngineCreates, EngineCommits, EngineFails, OtherRecords
<1>3. /\ \A s \in Run : child'[s].kind = child[s].kind /\ child'[s].state = child[s].state
      /\ \A s \in Run : left'[s] # "none" => left[s] # "none"
      /\ TuiTypes'
  <2>1. CASE OtherRecords
    <3> DEFINE new == [run |-> NoRun, kind |-> "other", committed |-> TRUE, answered |-> FALSE]
    <3>1. child' = child /\ left' = left /\ rows' = Append(rows, new) /\ new \in RowType
      BY <2>1 DEF OtherRecords, RowType
    <3> HIDE DEF new
    <3>2. rows' \in Seq(RowType) /\ Len(rows') = Len(rows) + 1
      BY <1>1, <3>1, RowAdded
    <3> QED BY <1>1, <1>2, <3>1, <3>2 DEF TuiTypes, HasRow, loop
  <2>2. ASSUME NEW r \in Run, EngineCreates(r)
        PROVE  /\ \A s \in Run : child'[s].kind = child[s].kind /\ child'[s].state = child[s].state
               /\ \A s \in Run : left'[s] # "none" => left[s] # "none"
               /\ TuiTypes'
    <3> DEFINE new == [run |-> r, kind |-> child[r].kind, committed |-> FALSE, answered |-> FALSE]
    <3>1. new \in RowType /\ rows' = Append(rows, new)
      <4>1. child[r].kind \in {"none", "local", "docker"}
        BY <1>1 DEF ChildType
      <4> QED BY <2>2, <4>1 DEF RowType, EngineCreates, AddRow
    <3> HIDE DEF new
    <3>2. rows' \in Seq(RowType) /\ Len(rows') = Len(rows) + 1 /\ Len(rows') \in Nat
      BY <1>1, <3>1, RowAdded
    <3>3. /\ child' = [child EXCEPT ![r].row = Len(rows')]
          /\ left' = [left EXCEPT ![r] = "created"] /\ left[r] = "started"
      BY <2>2 DEF EngineCreates
    <3>4. /\ child' \in [Run -> ChildType] /\ child'[r].row = Len(rows')
          /\ \A s \in Run : s # r => child'[s] = child[s]
          /\ \A s \in Run : child'[s].kind = child[s].kind /\ child'[s].state = child[s].state
      BY <1>1, <3>2, <3>3 DEF ChildType
    <3>5. /\ left' \in [Run -> {"none", "started", "created"}]
          /\ \A s \in Run : s # r => left'[s] = left[s]
      BY <1>1, <3>3
    <3>6. \A s \in Run : HasRow(s)' => child'[s].row \in 1..Len(rows')
      BY <1>1, <3>2, <3>4, <3>5 DEF TuiTypes, HasRow
    <3>7. TuiTypes'
      BY <1>2, <3>2, <3>4, <3>5, <3>6 DEF TuiTypes, loop
    <3> QED BY <3>3, <3>4, <3>5, <3>7
  <2>3. ASSUME NEW r \in Run, EngineCommits(r) \/ EngineFails(r)
        PROVE  /\ \A s \in Run : child'[s].kind = child[s].kind /\ child'[s].state = child[s].state
               /\ \A s \in Run : left'[s] # "none" => left[s] # "none"
               /\ TuiTypes'
    <3>1. child' = child /\ left' = [left EXCEPT ![r] = "none"]
      BY <2>3 DEF EngineCommits, EngineFails
    <3>2. rows' \in Seq(RowType) /\ Len(rows') = Len(rows)
      <4>1. CASE EngineCommits(r)
        <5> DEFINE n == child[r].row
        <5>1. n \in 1..Len(rows) /\ rows' = [rows EXCEPT ![n].committed = TRUE]
          BY <4>1 DEF EngineCommits, StoreRow, TuiTypes, HasRow
        <5> HIDE DEF n
        <5> QED BY <1>1, <5>1, RowStored DEF OneRow
      <4>2. CASE EngineFails(r)
        BY <1>1, <4>2 DEF EngineFails
      <4> QED BY <2>3, <4>1, <4>2
    <3>3. TuiTypes'
      BY <1>1, <1>2, <3>1, <3>2 DEF TuiTypes, HasRow, loop
    <3> QED BY <1>1, <3>1, <3>3
  <2> QED BY <2>1, <2>2, <2>3 DEF Engine
<1> QED BY <1>2, <1>3
   DEF UnderTheLoop, LoopListens, CancelKnown, KindOfWorker, LeftAlone, Alive, loop

\* What the scanner and the goroutine do.
LEMMA WorkerKeeps ==
  ASSUME LoopIInv, NEW r \in Run, Scanner(r) \/ Worker(r)
  PROVE  LoopIInv'
<1> USE DEF LoopIInv
<1>1. /\ worker \in [Run -> Places] /\ child \in [Run -> ChildType]
      /\ scanner \in [Run -> {"off", "reading", "sending", "done"}]
      /\ UNCHANGED <<loop, cancelled, left>>
      /\ rows \in Seq(RowType) /\ Len(rows) \in Nat
  BY DEF TuiTypes, Scanner, ScanLine, DropLine, ScanEnd, Worker, StartLocal, LocalUnavailable,
     StartDocker, DockerUnavailable, Wait, Drain, Close
<1>2. CASE Scanner(r)
  <2>1. /\ worker' = worker /\ child' = child /\ rows' = rows
        /\ scanner[r] \in {"reading", "sending"}
        /\ \E place \in {"reading", "sending", "done"} : scanner' = [scanner EXCEPT ![r] = place]
    BY <1>2 DEF Scanner, ScanLine, DropLine, ScanEnd
  <2>2. TuiTypes'
    BY <1>1, <2>1 DEF TuiTypes, HasRow, loop
  <2> QED BY <1>1, <2>1, <2>2 DEF UnderTheLoop, LoopListens, CancelKnown, KindOfWorker, LeftAlone,
             Alive, loop
<1>3. CASE StartLocal(r) \/ StartDocker(r)
  <2>1. PICK kind \in {"local", "docker"} :
          /\ worker[r] = IF kind = "local" THEN "start" ELSE "fallback"
          /\ worker' = [worker EXCEPT ![r] = kind]
          /\ scanner' = [scanner EXCEPT ![r] = "reading"] /\ rows' = rows
          /\ \E c \in ChildType : c.state = "started" /\ c.kind = kind /\ child' = [child EXCEPT ![r] = c]
    BY <1>3 DEF StartLocal, StartDocker, Goto, Spawn, NoChild, ChildType
  <2>2. worker[r] \in {"start", "fallback"} /\ left[r] = "none"
    BY <2>1 DEF LeftAlone
  <2>3. TuiTypes'
    BY <1>1, <2>1, <2>2 DEF TuiTypes, Places, Active, HasRow, loop
  <2>4. UnderTheLoop' /\ LoopListens' /\ CancelKnown'
    BY <1>1, <2>1, <2>2
       DEF UnderTheLoop, LoopListens, CancelKnown, Alive, Active, Ended, Places, loop
  <2>5. KindOfWorker' /\ LeftAlone'
    BY <1>1, <2>1, <2>2 DEF KindOfWorker, LeftAlone
  <2> QED BY <2>3, <2>4, <2>5
<1>4. CASE LocalUnavailable(r) \/ DockerUnavailable(r) \/ Wait(r) \/ Drain(r)
  <2>1. /\ child' = child /\ scanner' = scanner
        /\ worker[r] \in Active \ {"succeeds"} /\ ~Alive(r)
        /\ \E place \in {"fallback", "localDrain", "dockerDrain", "succeeds", "fails"} :
             /\ worker' = [worker EXCEPT ![r] = place]
             /\ scanner[r] \in {"reading", "sending"} => place \in {"localDrain", "dockerDrain"}
             /\ place = "fallback" => worker[r] \in {"start", "localDrain"}
             /\ place = "localDrain" => worker[r] = "local"
             /\ place = "dockerDrain" => worker[r] = "docker"
             /\ place = "succeeds" => child[r].state = "exited"
    <3>1. CASE LocalUnavailable(r) \/ DockerUnavailable(r)
      BY <3>1 DEF LocalUnavailable, DockerUnavailable, Goto, Active, UnderTheLoop
    <3>2. CASE Wait(r)
      BY <3>2 DEF Wait, Goto, Active
    <3>3. CASE Drain(r)
      BY <3>3 DEF Drain, TakeAnswer, Succeeded, GiveUpChild, Goto, Active, UnderTheLoop
    <3> QED BY <1>4, <3>1, <3>2, <3>3
  <2>2. rows' \in Seq(RowType) /\ Len(rows') = Len(rows)
    <3>1. CASE rows' = rows
      BY <1>1, <3>1
    <3>2. CASE Drain(r) /\ TakeAnswer(r)
      <4> DEFINE n == child[r].row
      <4>1. n \in 1..Len(rows) /\ rows' = [rows EXCEPT ![n].answered = TRUE]
        BY <3>2 DEF TakeAnswer, Succeeded, TuiTypes, HasRow
      <4> HIDE DEF n
      <4> QED BY <1>1, <4>1, RowAnswered DEF OneRow
    <3> QED BY <1>4, <3>1, <3>2 DEF LocalUnavailable, DockerUnavailable, Wait, Drain, GiveUpChild
  <2>3. TuiTypes'
    BY <1>1, <2>1, <2>2 DEF TuiTypes, Places, Active, HasRow, loop
  <2>4. UnderTheLoop' /\ LoopListens' /\ CancelKnown'
    BY <1>1, <2>1 DEF UnderTheLoop, LoopListens, CancelKnown, Alive, Active, Ended, Places, loop
  <2>5. KindOfWorker' /\ LeftAlone'
    BY <1>1, <2>1 DEF KindOfWorker, LeftAlone
  <2> QED BY <2>3, <2>4, <2>5
<1>5. CASE Close(r)
  <2>1. /\ child' = child /\ scanner' = scanner /\ rows' = rows
        /\ worker[r] = "closing" /\ worker' = [worker EXCEPT ![r] = "closed"]
    BY <1>5 DEF Close, Goto
  <2>2. TuiTypes'
    BY <1>1, <2>1 DEF TuiTypes, Places, Ended, HasRow, loop
  <2>3. UnderTheLoop' /\ LoopListens' /\ CancelKnown' /\ KindOfWorker' /\ LeftAlone'
    BY <1>1, <2>1
       DEF UnderTheLoop, LoopListens, CancelKnown, KindOfWorker, LeftAlone, Alive, Active,
       Ended, Places, loop
  <2> QED BY <2>2, <2>3
<1> QED BY <1>2, <1>3, <1>4, <1>5 DEF Worker

\* What the loop does with a goroutine: it starts it, or receives from it.
LEMMA ReceiveKeeps ==
  ASSUME LoopIInv, NEW r \in Run, StartRun(r) \/ StartUnselected(r) \/ Receive(r)
  PROVE  LoopIInv'
<1> USE DEF LoopIInv
<1>1. /\ worker \in [Run -> Places] /\ child' = child /\ r # NoRun
      /\ scanner \in [Run -> {"off", "reading", "sending", "done"}]
      /\ rows' = rows /\ cancelled' = cancelled /\ \A s \in Run : Alive(s)' = Alive(s)
      /\ left' = left
  <2>1. child' = child /\ rows' = rows /\ cancelled' = cancelled /\ left' = left
    BY DEF StartRun, StartUnselected, Receive, ReceiveProgress, ReceiveEnd, ReceiveClosed
  <2> QED BY <2>1 DEF TuiTypes, Alive, Run, NoRun
<1>2. CASE StartRun(r) \/ StartUnselected(r)
  <2>1. /\ ~running /\ ~cancelling /\ ~finished /\ worker[r] = "new"
        /\ updates' = r /\ told' = told /\ scanner' = scanner
        /\ cancelling' = FALSE /\ finished' = FALSE
        /\ \/ worker' = [worker EXCEPT ![r] = "start"] /\ running' = TRUE
           \/ worker' = [worker EXCEPT ![r] = "fails"] /\ running' = FALSE
    BY <1>2 DEF StartRun, StartUnselected, NextRun, Goto, ClearCancellation, LoopListens,
       TuiTypes
  <2>2. TuiTypes'
    BY <1>1, <2>1 DEF TuiTypes, Places, Active, HasRow
  <2>3. /\ \A s \in Run : s # r => worker'[s] = worker[s]
        /\ (worker'[r] = "start" /\ running') \/ (worker'[r] = "fails" /\ ~running')
    <3>1. CASE worker' = [worker EXCEPT ![r] = "start"] /\ running' = TRUE
      BY <1>1, <3>1
    <3>2. CASE worker' = [worker EXCEPT ![r] = "fails"] /\ running' = FALSE
      BY <1>1, <3>2
    <3> QED BY <2>1, <3>1, <3>2
  <2>4. UnderTheLoop'
    BY <1>1, <2>1, <2>3 DEF UnderTheLoop, Active
  <2>5. LoopListens'
    BY <1>1, <2>1, <2>3 DEF LoopListens, Active
  <2>6. CancelKnown'
    BY <1>1, <2>1, <2>3 DEF CancelKnown, Ended, TuiTypes
  <2>7. KindOfWorker' /\ LeftAlone'
    BY <1>1, <2>1, <2>3 DEF KindOfWorker, LeftAlone
  <2> QED BY <2>2, <2>4, <2>5, <2>6, <2>7
<1>3. CASE ReceiveProgress(r)
  <2>1. /\ scanner[r] = "sending" /\ scanner' = [scanner EXCEPT ![r] = "reading"]
        /\ UNCHANGED <<running, cancelling, finished, updates, told, worker>>
    BY <1>3 DEF ReceiveProgress
  <2>2. TuiTypes'
    BY <1>1, <2>1 DEF TuiTypes, HasRow
  <2> QED BY <1>1, <2>1, <2>2 DEF UnderTheLoop, LoopListens, CancelKnown, KindOfWorker, LeftAlone
<1>4. CASE ReceiveEnd(r)
  <2>1. /\ updates = r /\ worker[r] \in {"succeeds", "fails"}
        /\ worker' = [worker EXCEPT ![r] = "closing"] /\ scanner' = scanner
        /\ cancelling' = cancelling /\ updates' = updates
        /\ \/ /\ cancelling /\ finished' = TRUE /\ running' = running
              /\ told' = [told EXCEPT ![r] = "dropped"]
           \/ /\ ~cancelling /\ finished' = finished /\ running' = FALSE
              /\ \E what \in {"result", "error"} : told' = [told EXCEPT ![r] = what]
    BY <1>4 DEF ReceiveEnd, Listening, Goto, ReceiveDropped, ReceiveResult, ReceiveError, Tell
  <2>2. (cancelling => r \in cancelled) /\ (r \in cancelled => cancelling)
    BY <1>1, <2>1 DEF UnderTheLoop, LoopListens, CancelKnown, Active, Ended
  <2>3. TuiTypes'
    BY <1>1, <2>1 DEF TuiTypes, Places, Ended, HasRow
  <2>4. UnderTheLoop' /\ LoopListens'
    BY <1>1, <2>1 DEF UnderTheLoop, LoopListens, Active, Ended, Places
  <2>5. CancelKnown'
    BY <1>1, <2>1, <2>2 DEF CancelKnown, LoopListens, Ended, Places, TuiTypes
  <2>6. KindOfWorker' /\ LeftAlone'
    BY <1>1, <2>1 DEF KindOfWorker, LeftAlone
  <2> QED BY <2>3, <2>4, <2>5, <2>6
<1>5. CASE ReceiveClosed(r)
  <2>1. /\ updates = r /\ worker[r] = "closed" /\ updates' = NoRun
        /\ UNCHANGED <<running, cancelling, told, worker, scanner>>
        /\ finished' = (finished \/ cancelling)
    BY <1>5 DEF ReceiveClosed, Listening
  <2>2. finished \/ ~running
    BY <2>1 DEF LoopListens, Active, TuiTypes
  <2>3. TuiTypes'
    BY <1>1, <2>1 DEF TuiTypes, HasRow
  <2>4. UnderTheLoop' /\ LoopListens' /\ CancelKnown' /\ KindOfWorker' /\ LeftAlone'
    BY <1>1, <2>1, <2>2 DEF UnderTheLoop, LoopListens, CancelKnown, KindOfWorker, LeftAlone, Active,
       Ended, Run, NoRun, TuiTypes
  <2> QED BY <2>3, <2>4
<1> QED BY <1>2, <1>3, <1>4, <1>5 DEF Receive

\* What the user and the clock do to the loop.
LEMMA KeysKeep ==
  ASSUME LoopIInv, Navigate \/ PressB \/ Tick \/ Return
  PROVE  LoopIInv'
<1> USE DEF LoopIInv
<1>1. UNCHANGED <<worker, scanner, child, left, rows, updates, told>>
  BY DEF Navigate, PressB, Tick, Return
<1>2. CASE Navigate \/ Tick
  BY <1>1, <1>2 DEF Navigate, Tick, TuiTypes, UnderTheLoop, LoopListens, CancelKnown,
     KindOfWorker, LeftAlone, Alive, HasRow
<1>3. CASE PressB
  <2>1. /\ running /\ ~cancelling /\ ~finished /\ cancelling' /\ cancelling' \in BOOLEAN
        /\ cancelled' = cancelled \cup {updates} /\ updates \in Run
        /\ worker[updates] \notin Ended
        /\ UNCHANGED <<running, finished>>
    BY <1>3 DEF PressB, LoopListens, TuiTypes, Active, Ended
  <2> QED BY <1>1, <2>1 DEF TuiTypes, UnderTheLoop, LoopListens, CancelKnown,
     KindOfWorker, LeftAlone, Alive, HasRow
<1>4. CASE Return
  <2>1. /\ cancelling /\ finished /\ running' = FALSE /\ cancelling' = FALSE
        /\ finished' = FALSE /\ cancelled' = cancelled
    BY <1>4 DEF Return, ReadyToExit, ClearCancellation
  <2> QED BY <1>1, <2>1 DEF TuiTypes, UnderTheLoop, LoopListens, CancelKnown,
     KindOfWorker, LeftAlone, Alive, HasRow
<1> QED BY <1>2, <1>3, <1>4

LEMMA LoopKept ==
  ASSUME LoopIInv, [Next \/ OtherRecords]_vars
  PROVE  LoopIInv'
<1>1. CASE UNCHANGED vars
  BY <1>1 DEF vars, loop, LoopIInv, TuiTypes, UnderTheLoop, LoopListens, CancelKnown,
     KindOfWorker, LeftAlone, Alive, HasRow
<1> QED BY <1>1, ChildKeeps, OthersKeep, WorkerKeeps, ReceiveKeeps, KeysKeep DEF Next

------------------------------------------------------------------------------
(* What the loop is told                                                    *)

\* Whose row a child works on, and which row is answered: the committed one of a child
\* that has exited, when its goroutine is through.
RowsTell ==
  \A r \in Run :
    /\ HasRow(r) => rows[child[r].row].run = r
    /\ child[r].state \in {"committed", "exited"} => rows[child[r].row].committed
    /\ \A i \in DOMAIN rows : rows[i].run = r /\ rows[i].answered =>
         /\ rows[i].committed /\ child[r].state = "exited" /\ i = child[r].row
         /\ worker[r] \in {"succeeds", "fails", "closing", "closed"}
    /\ worker[r] = "succeeds" \/ told[r] = "result" =>
         child[r].state = "exited" /\ rows[child[r].row].answered

\* An evaluation has a row for each of its children at most, the local child's first.
KindOfRows ==
  \A r \in Run :
    /\ \A i \in DOMAIN rows : rows[i].run = r =>
         /\ rows[i].kind \in {"local", "docker"} /\ child[r].kind # "none"
         /\ rows[i].kind = "docker" => child[r].kind = "docker"
         /\ rows[i].kind = child[r].kind =>
              i = child[r].row /\ child[r].state # "started" /\ left[r] # "started"
    /\ \A i, j \in DOMAIN rows : i < j /\ rows[i].run = r /\ rows[j].run = r =>
         rows[i].kind = "local" /\ rows[j].kind = "docker"

RowsIInv == RowsTell /\ KindOfRows

LEMMA RowsStart == Init => RowsIInv
BY DEF Init, RowsIInv, RowsTell, KindOfRows, HasRow, NoChild

\* Nothing of the table, of a child or of an engine changes.
LEMMA RowsAlone ==
  ASSUME RowsIInv, UNCHANGED <<rows, child>>,
         \A s \in Run : left'[s] = left[s] \/ left'[s] = "none",
         \A s \in Run : worker[s] \in {"succeeds", "fails", "closing", "closed"} =>
           worker'[s] \in {"succeeds", "fails", "closing", "closed"},
         \A s \in Run : worker'[s] = "succeeds" \/ told'[s] = "result" =>
           worker[s] = "succeeds" \/ told[s] = "result"
  PROVE  RowsIInv'
<1>1. RowsTell'
  BY DEF RowsIInv, RowsTell, HasRow
<1>2. KindOfRows'
  BY DEF RowsIInv, KindOfRows
<1> QED BY <1>1, <1>2 DEF RowsIInv

\* Another client's rows are of no run of this one.
LEMMA OtherKeepsRows ==
  ASSUME LoopIInv, RowsIInv, OtherRecords
  PROVE  RowsIInv'
<1> DEFINE new == [run |-> NoRun, kind |-> "other", committed |-> TRUE, answered |-> FALSE]
<1>1. /\ rows \in Seq(RowType) /\ NoRun \notin Run
      /\ \A r \in Run : HasRow(r) => child[r].row \in 1..Len(rows)
  BY DEF LoopIInv, TuiTypes, NoRun, Run
<1>2. rows' = Append(rows, new) /\ UNCHANGED <<child, worker, told, left>>
  BY DEF OtherRecords, loop
<1>3. new \in RowType /\ new.run = NoRun
  BY DEF RowType
<1> HIDE DEF new
<1>4. /\ DOMAIN rows' = 1..(Len(rows) + 1) /\ DOMAIN rows = 1..Len(rows) /\ Len(rows) \in Nat
      /\ \A i \in DOMAIN rows : rows'[i] = rows[i]
      /\ \A i \in DOMAIN rows' : rows'[i].run \in Run => i \in DOMAIN rows
  BY <1>1, <1>2, <1>3, RowAdded
<1>5. RowsTell'
  <2>1. \A r \in Run : child[r].state \in {"committed", "exited"} => HasRow(r)
    BY DEF HasRow
  <2>2. \A r \in Run : worker[r] = "succeeds" \/ told[r] = "result" => HasRow(r)
    BY <2>1 DEF RowsIInv, RowsTell
  <2> QED BY <1>1, <1>2, <1>4, <2>1, <2>2 DEF RowsIInv, RowsTell, HasRow
<1>6. KindOfRows'
  BY <1>1, <1>2, <1>4 DEF RowsIInv, KindOfRows
<1> QED BY <1>5, <1>6 DEF RowsIInv

\* The row that is added is the first of its kind.
LEMMA NewRowKeepsRows ==
  ASSUME LoopIInv, RowsIInv, NEW r \in Run, CreateRow(r) \/ EngineCreates(r)
  PROVE  RowsIInv'
<1> DEFINE new == [run |-> r, kind |-> child[r].kind, committed |-> FALSE, answered |-> FALSE]
<1>1. /\ rows \in Seq(RowType) /\ child \in [Run -> ChildType]
      /\ left \in [Run -> {"none", "started", "created"}] /\ UNCHANGED <<worker, told>>
      /\ \A s \in Run : HasRow(s) => child[s].row \in 1..Len(rows)
  BY DEF LoopIInv, TuiTypes, CreateRow, EngineCreates, loop
<1>2. rows' = Append(rows, new) /\ new \in RowType
  <2>1. child[r].kind \in {"none", "local", "docker"}
    BY <1>1 DEF ChildType
  <2> QED BY <2>1 DEF CreateRow, EngineCreates, AddRow, RowType
<1>3. /\ new.run = r /\ new.kind = child[r].kind /\ ~new.committed /\ ~new.answered
  OBVIOUS
<1> HIDE DEF new
<1>4. /\ DOMAIN rows' = 1..(Len(rows) + 1) /\ DOMAIN rows = 1..Len(rows) /\ Len(rows) \in Nat
      /\ Len(rows') = Len(rows) + 1
      /\ \A i \in DOMAIN rows : rows'[i] = rows[i]
      /\ rows'[Len(rows) + 1] = new
  BY <1>1, <1>2, RowAdded
<1>5. /\ \A s \in Run : s # r => child'[s] = child[s] /\ left'[s] = left[s]
      /\ child'[r].kind = child[r].kind /\ child'[r].row = Len(rows) + 1
      /\ child'[r].state \in {"created", "failed"} /\ left'[r] # "started"
      /\ child[r].kind \in {"local", "docker"}
      /\ child[r].state = "started" \/ left[r] = "started"
      /\ child[r].state \in {"started", "failed"}
      /\ worker[r] \notin {"new", "succeeds"} /\ told[r] # "result"
  <2>1. CASE CreateRow(r)
    <3>1. worker[r] \in {"local", "docker"} /\ child[r].state = "started"
      BY <2>1 DEF CreateRow, LoopIInv, UnderTheLoop, Alive
    <3>2. child[r].kind \in {"local", "docker"} /\ left[r] = "none" /\ told[r] # "result"
      BY <3>1 DEF LoopIInv, KindOfWorker, LeftAlone, CancelKnown, Ended
    <3>3. left' = left /\ child' = [child EXCEPT ![r].state = "created", ![r].row = Len(rows')]
      BY <2>1 DEF CreateRow
    <3> QED BY <1>1, <1>4, <3>1, <3>2, <3>3 DEF ChildType
  <2>2. CASE EngineCreates(r)
    <3>1. /\ left[r] = "started" /\ child[r].kind = "docker" /\ child[r].state = "failed"
          /\ worker[r] \notin {"new", "succeeds"} /\ r \in cancelled
      BY <2>2 DEF EngineCreates, LoopIInv, LeftAlone
    <3>2. told[r] # "result"
      BY <3>1 DEF LoopIInv, CancelKnown
    <3>3. left' = [left EXCEPT ![r] = "created"] /\ child' = [child EXCEPT ![r].row = Len(rows')]
      BY <2>2 DEF EngineCreates
    <3> QED BY <1>1, <1>4, <3>1, <3>2, <3>3 DEF ChildType
  <2> QED BY <2>1, <2>2
<1>6. \A i \in DOMAIN rows' : i \in DOMAIN rows \/ i = Len(rows) + 1
  BY <1>4
<1>7. \A i \in DOMAIN rows : rows[i].run = r => rows[i].kind = "local" /\ child[r].kind = "docker"
  BY <1>5 DEF RowsIInv, KindOfRows
<1>8. RowsTell'
  <2>1. \A s \in Run : child[s].state \in {"committed", "exited"} => HasRow(s)
    BY DEF HasRow
  <2>2. \A s \in Run : worker[s] = "succeeds" \/ told[s] = "result" => HasRow(s)
    BY <2>1 DEF RowsIInv, RowsTell
  <2>3. \A i \in DOMAIN rows : rows[i].run = r => ~rows[i].answered
    BY <1>5 DEF RowsIInv, RowsTell
  <2>4. ASSUME NEW s \in Run, s # r
        PROVE  /\ HasRow(s)' => rows'[child'[s].row].run = s
               /\ child'[s].state \in {"committed", "exited"} => rows'[child'[s].row].committed
               /\ \A i \in DOMAIN rows' : rows'[i].run = s /\ rows'[i].answered =>
                    /\ rows'[i].committed /\ child'[s].state = "exited" /\ i = child'[s].row
                    /\ worker'[s] \in {"succeeds", "fails", "closing", "closed"}
               /\ worker'[s] = "succeeds" \/ told'[s] = "result" =>
                    child'[s].state = "exited" /\ rows'[child'[s].row].answered
    BY <1>1, <1>3, <1>4, <1>5, <1>6, <2>1, <2>2, <2>4 DEF RowsIInv, RowsTell, HasRow
  <2>5. /\ rows'[child'[r].row].run = r
        /\ child'[r].state \notin {"committed", "exited"}
        /\ \A i \in DOMAIN rows' : rows'[i].run = r => ~rows'[i].answered
        /\ ~(worker'[r] = "succeeds" \/ told'[r] = "result")
    BY <1>1, <1>3, <1>4, <1>5, <1>6, <2>3
  <2> QED BY <2>4, <2>5 DEF RowsTell
<1>9. KindOfRows'
  <2>1. ASSUME NEW s \in Run, NEW i \in DOMAIN rows', rows'[i].run = s
        PROVE  /\ rows'[i].kind \in {"local", "docker"} /\ child'[s].kind # "none"
               /\ rows'[i].kind = "docker" => child'[s].kind = "docker"
               /\ rows'[i].kind = child'[s].kind =>
                    i = child'[s].row /\ child'[s].state # "started" /\ left'[s] # "started"
    <3>1. CASE i \in DOMAIN rows /\ s # r
      BY <1>4, <1>5, <2>1, <3>1 DEF RowsIInv, KindOfRows
    <3>2. CASE i \in DOMAIN rows /\ s = r
      BY <1>4, <1>5, <1>7, <2>1, <3>2
    <3>3. CASE i = Len(rows) + 1
      BY <1>3, <1>4, <1>5, <2>1, <3>3
    <3> QED BY <1>6, <3>1, <3>2, <3>3
  <2>2. ASSUME NEW s \in Run, NEW i \in DOMAIN rows', NEW j \in DOMAIN rows', i < j,
               rows'[i].run = s, rows'[j].run = s
        PROVE  rows'[i].kind = "local" /\ rows'[j].kind = "docker"
    <3>1. i \in DOMAIN rows
      BY <1>4, <1>6, <2>2
    <3>2. CASE j \in DOMAIN rows
      BY <1>4, <2>2, <3>1, <3>2 DEF RowsIInv, KindOfRows
    <3>3. CASE j = Len(rows) + 1
      BY <1>3, <1>4, <1>7, <2>2, <3>1, <3>3
    <3> QED BY <1>6, <3>2, <3>3
  <2> QED BY <2>1, <2>2 DEF KindOfRows
<1> QED BY <1>8, <1>9 DEF RowsIInv

\* The row that is committed or answered stays what it is otherwise.
LEMMA SetRowKeepsRows ==
  ASSUME LoopIInv, RowsIInv, NEW r \in Run,
         CommitRow(r) \/ EngineCommits(r) \/ (Drain(r) /\ TakeAnswer(r))
  PROVE  RowsIInv'
<1> DEFINE n == child[r].row
<1>1. /\ rows \in Seq(RowType) /\ child \in [Run -> ChildType] /\ worker \in [Run -> Places]
      /\ left \in [Run -> {"none", "started", "created"}] /\ told' = told
      /\ \A s \in Run : HasRow(s) => child[s].row \in 1..Len(rows)
  BY DEF LoopIInv, TuiTypes, CommitRow, EngineCommits, Drain, loop
<1>2. /\ HasRow(r) /\ n \in 1..Len(rows) /\ rows[n].run = r
      /\ \A s \in Run : s # r /\ HasRow(s) => child[s].row # n
  <2>1. HasRow(r)
    BY DEF CommitRow, EngineCommits, TakeAnswer, Succeeded, HasRow
  <2> QED BY <1>1, <2>1 DEF RowsIInv, RowsTell
<1>3. /\ \A s \in Run : s # r => child'[s] = child[s] /\ left'[s] = left[s] /\ worker'[s] = worker[s]
      /\ child'[r].kind = child[r].kind /\ child'[r].row = n
      /\ left'[r] \in {left[r], "none"} /\ child'[r].state # "started"
      /\ left[r] = "created" \/ child[r].state \in {"created", "exited"}
      /\ OneRow(n) /\ (rows[n].committed => rows'[n].committed)
      /\ \/ /\ child'[r].state \in {"committed", "failed"} /\ worker' = worker
            /\ rows'[n].committed /\ rows'[n].answered = rows[n].answered
            /\ worker[r] # "succeeds" /\ told[r] # "result" /\ child[r].state # "exited"
         \/ /\ child' = child /\ child[r].state = "exited" /\ left' = left
            /\ worker'[r] \in {"succeeds", "fails"} /\ rows'[n].answered
  <2>1. CASE CommitRow(r)
    <3>1. /\ worker[r] \in {"local", "docker"} /\ child[r].state = "created"
      BY <2>1 DEF CommitRow, LoopIInv, UnderTheLoop, Alive
    <3>2. told[r] # "result"
      BY <3>1 DEF LoopIInv, CancelKnown, Ended
    <3>3. /\ rows' = [rows EXCEPT ![n].committed = TRUE] /\ left' = left /\ worker' = worker
          /\ child' = [child EXCEPT ![r].state = "committed"]
      BY <2>1 DEF CommitRow, StoreRow
    <3>4. OneRow(n) /\ rows'[n].committed /\ rows'[n].answered = rows[n].answered
      BY <1>1, <1>2, <3>3, RowStored
    <3>5. /\ \A s \in Run : s # r => child'[s] = child[s]
          /\ child'[r].kind = child[r].kind /\ child'[r].row = n /\ child'[r].state = "committed"
      BY <1>1, <3>3 DEF ChildType
    <3> HIDE DEF n
    <3> QED BY <3>1, <3>2, <3>3, <3>4, <3>5
  <2>2. CASE EngineCommits(r)
    <3>1. left[r] = "created" /\ child[r].state = "failed" /\ worker[r] # "succeeds" /\ r \in cancelled
      BY <2>2 DEF EngineCommits, LoopIInv, LeftAlone
    <3>2. told[r] # "result"
      BY <3>1 DEF LoopIInv, CancelKnown
    <3>3. /\ rows' = [rows EXCEPT ![n].committed = TRUE] /\ left' = [left EXCEPT ![r] = "none"]
          /\ worker' = worker /\ child' = child
      BY <2>2 DEF EngineCommits, StoreRow
    <3>4. OneRow(n) /\ rows'[n].committed /\ rows'[n].answered = rows[n].answered
      BY <1>1, <1>2, <3>3, RowStored
    <3>5. left'[r] = "none" /\ \A s \in Run : s # r => left'[s] = left[s]
      BY <1>1, <3>3
    <3> QED BY <3>1, <3>2, <3>3, <3>4, <3>5
  <2>3. CASE Drain(r) /\ TakeAnswer(r)
    <3>1. /\ rows' = [rows EXCEPT ![n].answered = TRUE] /\ child' = child /\ left' = left
          /\ child[r].state = "exited"
          /\ \E place \in {"succeeds", "fails"} : worker' = [worker EXCEPT ![r] = place]
      BY <2>3 DEF Drain, TakeAnswer, Succeeded, Goto
    <3>2. OneRow(n) /\ rows'[n].answered /\ rows'[n].committed = rows[n].committed
      BY <1>1, <1>2, <3>1, RowAnswered
    <3>3. /\ worker'[r] \in {"succeeds", "fails"}
          /\ \A s \in Run : s # r => worker'[s] = worker[s]
      BY <1>1, <3>1
    <3> QED BY <3>1, <3>2, <3>3
  <2> QED BY <2>1, <2>2, <2>3
<1> HIDE DEF n
<1>4. /\ DOMAIN rows' = DOMAIN rows
      /\ \A i \in DOMAIN rows : rows'[i].run = rows[i].run /\ rows'[i].kind = rows[i].kind
      /\ \A i \in DOMAIN rows : i # n => rows'[i] = rows[i]
  BY <1>3 DEF OneRow
<1>5. KindOfRows'
  BY <1>2, <1>3, <1>4 DEF RowsIInv, KindOfRows, n
<1>6. RowsTell'
  <2>1. ASSUME NEW s \in Run, s # r
        PROVE  /\ HasRow(s)' => rows'[child'[s].row].run = s
               /\ child'[s].state \in {"committed", "exited"} => rows'[child'[s].row].committed
               /\ \A i \in DOMAIN rows' : rows'[i].run = s /\ rows'[i].answered =>
                    /\ rows'[i].committed /\ child'[s].state = "exited" /\ i = child'[s].row
                    /\ worker'[s] \in {"succeeds", "fails", "closing", "closed"}
               /\ worker'[s] = "succeeds" \/ told'[s] = "result" =>
                    child'[s].state = "exited" /\ rows'[child'[s].row].answered
    <3>1. HasRow(s) => child[s].row \in DOMAIN rows /\ child[s].row # n
      BY <1>1, <1>2, <1>3, <2>1 DEF OneRow
    <3>2. \A i \in DOMAIN rows' : rows'[i].run = s => rows'[i] = rows[i]
      BY <1>2, <1>4, <2>1
    <3> QED BY <1>1, <1>3, <1>4, <2>1, <3>1, <3>2 DEF RowsIInv, RowsTell, HasRow
  <2>2. rows'[child'[r].row].run = r
    BY <1>2, <1>3 DEF OneRow
  <2>3. CASE child'[r].state \in {"committed", "failed"}
    <3>1. /\ worker' = worker /\ rows'[n].committed /\ rows'[n].answered = rows[n].answered
          /\ worker[r] # "succeeds" /\ told'[r] # "result" /\ child[r].state # "exited"
      BY <1>1, <1>3, <2>3
    <3>2. \A i \in DOMAIN rows' : rows'[i].run = r => ~rows'[i].answered
      <4>1. \A i \in DOMAIN rows : rows[i].run = r => ~rows[i].answered
        BY <3>1 DEF RowsIInv, RowsTell
      <4> QED BY <1>4, <3>1, <4>1
    <3> QED BY <1>3, <2>1, <2>2, <3>1, <3>2 DEF RowsTell
  <2>4. CASE child'[r].state \notin {"committed", "failed"}
    <3>1. /\ child' = child /\ child[r].state = "exited"
          /\ worker'[r] \in {"succeeds", "fails"} /\ rows'[n].answered
      BY <1>3, <2>4
    <3>2. rows'[n].committed
      BY <1>3, <3>1 DEF RowsIInv, RowsTell, n
    <3>3. \A i \in DOMAIN rows' : rows'[i].run = r /\ rows'[i].answered => i = n
      <4>1. \A i \in DOMAIN rows : rows[i].run = r /\ rows[i].answered => i = n
        BY DEF RowsIInv, RowsTell, n
      <4> QED BY <1>4, <4>1
    <3> QED BY <1>3, <2>1, <2>2, <3>1, <3>2, <3>3 DEF RowsTell
  <2> QED BY <2>3, <2>4
<1> QED BY <1>5, <1>6 DEF RowsIInv

\* Any other step of a child, and its start.
LEMMA ChildKeepsRows ==
  ASSUME LoopIInv, RowsIInv, NEW r \in Run,
         \/ PrintProgress(r) \/ Exit(r) \/ Fail(r) \/ Kill(r)
         \/ StartLocal(r) \/ StartDocker(r)
  PROVE  RowsIInv'
<1>1. /\ rows' = rows /\ told' = told /\ child \in [Run -> ChildType] /\ worker \in [Run -> Places]
      /\ left \in [Run -> {"none", "started", "created"}]
  BY DEF LoopIInv, TuiTypes, PrintProgress, Exit, Fail, Kill, StartLocal, StartDocker, loop
<1>2. CASE PrintProgress(r) \/ Exit(r) \/ Fail(r) \/ Kill(r)
  <2>1. Alive(r) /\ worker' = worker
    BY <1>2 DEF PrintProgress, Exit, Fail, Kill, Alive
  <2>2. worker[r] \in {"local", "docker"} /\ told[r] # "result"
    BY <2>1 DEF LoopIInv, UnderTheLoop, CancelKnown, Ended
  <2>3. \A i \in DOMAIN rows : rows[i].run = r => ~rows[i].answered
    BY <2>2 DEF RowsIInv, RowsTell
  <2>4. /\ \A s \in Run : s # r => child'[s] = child[s] /\ left'[s] = left[s]
        /\ child'[r].kind = child[r].kind /\ child'[r].row = child[r].row
        /\ left'[r] = "started" => left[r] = "started" \/ child[r].state = "started"
        /\ left'[r] = "created" => left[r] = "created" \/ child[r].state = "created"
        /\ \/ child'[r].state = "failed"
           \/ child'[r].state = "created" /\ child[r].state = "created"
           \/ child'[r].state = "exited" /\ child[r].state = "committed"
    <3>1. CASE Kill(r)
      BY <1>1, <3>1, KillLeaves DEF ChildType
    <3>2. CASE PrintProgress(r)
      BY <1>1, <3>2 DEF PrintProgress, ChildType
    <3>3. CASE Exit(r) \/ Fail(r)
      BY <1>1, <3>3 DEF Exit, Fail, ChildType
    <3> QED BY <1>2, <3>1, <3>2, <3>3
  <2>5. KindOfRows'
    BY <1>1, <2>4 DEF RowsIInv, KindOfRows
  <2>6. \A s \in Run : HasRow(s)' => HasRow(s)
    BY <2>4 DEF HasRow
  <2>7. RowsTell'
    BY <1>1, <2>1, <2>2, <2>3, <2>4, <2>6 DEF RowsIInv, RowsTell
  <2> QED BY <2>5, <2>7 DEF RowsIInv
<1>3. CASE StartLocal(r) \/ StartDocker(r)
  <2>1. PICK kind \in {"local", "docker"} :
          /\ worker[r] = IF kind = "local" THEN "start" ELSE "fallback"
          /\ worker' = [worker EXCEPT ![r] = kind] /\ left' = left
          /\ child' = [child EXCEPT ![r] = [NoChild EXCEPT !.kind = kind, !.state = "started"]]
    BY <1>3 DEF StartLocal, StartDocker, Goto, Spawn
  <2>2. /\ \A s \in Run : s # r => child'[s] = child[s] /\ worker'[s] = worker[s]
        /\ child'[r].kind = kind /\ child'[r].state = "started" /\ worker'[r] = kind
    BY <1>1, <2>1 DEF NoChild
  <2>3. left[r] = "none" /\ told[r] # "result" /\ child[r].kind # "docker"
        /\ (kind = "local" => child[r].kind = "none")
    BY <2>1 DEF LoopIInv, LeftAlone, CancelKnown, KindOfWorker, Ended
  <2>4. \A i \in DOMAIN rows : rows[i].run = r =>
          ~rows[i].answered /\ rows[i].kind = "local" /\ kind = "docker"
    BY <2>1, <2>3 DEF RowsIInv, RowsTell, KindOfRows
  <2>5. KindOfRows'
    BY <1>1, <2>1, <2>2, <2>4 DEF RowsIInv, KindOfRows
  <2>6. RowsTell'
    BY <1>1, <2>1, <2>2, <2>3, <2>4 DEF RowsIInv, RowsTell, HasRow
  <2> QED BY <2>5, <2>6 DEF RowsIInv
<1> QED BY <1>2, <1>3

\* The scanner, and the goroutine when it has no answer to take.
LEMMA WorkerKeepsRows ==
  ASSUME LoopIInv, RowsIInv, NEW r \in Run,
         \/ Scanner(r) \/ LocalUnavailable(r) \/ DockerUnavailable(r) \/ Wait(r) \/ Close(r)
         \/ (Drain(r) /\ GiveUpChild(r)) \/ EngineFails(r)
  PROVE  RowsIInv'
<1>1. /\ worker \in [Run -> Places] /\ left \in [Run -> {"none", "started", "created"}]
      /\ UNCHANGED <<rows, child, told>>
  BY DEF LoopIInv, TuiTypes, Scanner, ScanLine, DropLine, ScanEnd, LocalUnavailable,
     DockerUnavailable, Wait, Close, Drain, GiveUpChild, EngineFails, loop
<1>2. \A s \in Run : left'[s] = left[s] \/ left'[s] = "none"
  BY <1>1 DEF Scanner, ScanLine, DropLine, ScanEnd, LocalUnavailable, DockerUnavailable, Wait,
     Close, Drain, EngineFails
<1>3. \A s \in Run :
        /\ worker[s] \in {"succeeds", "fails", "closing", "closed"} =>
             worker'[s] \in {"succeeds", "fails", "closing", "closed"}
        /\ worker'[s] = "succeeds" => worker[s] = "succeeds"
  BY <1>1 DEF Scanner, ScanLine, DropLine, ScanEnd, LocalUnavailable, DockerUnavailable, Wait,
     Close, Drain, GiveUpChild, EngineFails, Goto
<1> QED BY <1>1, <1>2, <1>3, RowsAlone

LEMMA LoopKeepsRows ==
  ASSUME LoopIInv, RowsIInv,
         \/ \E r \in Run : StartRun(r) \/ StartUnselected(r) \/ Receive(r)
         \/ Navigate \/ PressB \/ Tick \/ Return
  PROVE  RowsIInv'
<1>1. worker \in [Run -> Places] /\ told \in [Run -> {"nothing", "result", "error", "dropped"}]
  BY DEF LoopIInv, TuiTypes
<1>2. UNCHANGED <<child, rows, left>>
  BY DEF StartRun, StartUnselected, Receive, ReceiveProgress, ReceiveEnd, ReceiveClosed,
     Navigate, PressB, Tick, Return
<1>3. CASE worker' = worker /\ told' = told
  BY <1>2, <1>3, RowsAlone
<1>4. ASSUME NEW r \in Run, StartRun(r) \/ StartUnselected(r)
      PROVE  RowsIInv'
  <2>1. /\ worker[r] = "new" /\ told' = told
        /\ worker'[r] \in {"start", "fails"} /\ \A s \in Run : s # r => worker'[s] = worker[s]
    BY <1>1, <1>4 DEF StartRun, StartUnselected, NextRun, Goto
  <2> QED BY <1>2, <2>1, RowsAlone
<1>5. ASSUME NEW r \in Run, ReceiveEnd(r)
      PROVE  RowsIInv'
  <2>1. /\ worker[r] \in {"succeeds", "fails"} /\ worker'[r] = "closing"
        /\ \A s \in Run : s # r => worker'[s] = worker[s] /\ told'[s] = told[s]
        /\ told'[r] = "result" => worker[r] = "succeeds"
    BY <1>1, <1>5 DEF ReceiveEnd, Goto, ReceiveDropped, ReceiveResult, ReceiveError, Tell
  <2> QED BY <1>2, <2>1, RowsAlone
<1> QED BY <1>3, <1>4, <1>5 DEF Receive, ReceiveProgress, ReceiveClosed, Navigate, PressB,
        Tick, Return

------------------------------------------------------------------------------
(* Theorems                                                                 *)

TuiIInv == LoopIInv /\ RowsIInv

LEMMA TuiKept ==
  ASSUME TuiIInv, [Next \/ OtherRecords]_vars
  PROVE  TuiIInv'
<1>1. LoopIInv'
  BY LoopKept DEF TuiIInv
<1>2. RowsIInv'
  <2>1. CASE UNCHANGED vars
    BY <2>1, RowsAlone DEF vars, loop, TuiIInv
  <2>2. CASE OtherRecords
    BY <2>2, OtherKeepsRows DEF TuiIInv
  <2>3. ASSUME NEW r \in Run, Child(r) \/ Engine(r) \/ Scanner(r) \/ Worker(r)
        PROVE  RowsIInv'
    BY <2>3, NewRowKeepsRows, SetRowKeepsRows, ChildKeepsRows, WorkerKeepsRows
       DEF TuiIInv, Child, Engine, Worker, Drain
  <2>4. CASE \/ \E r \in Run : StartRun(r) \/ StartUnselected(r) \/ Receive(r)
             \/ Navigate \/ PressB \/ Tick \/ Return
    BY <2>4, LoopKeepsRows DEF TuiIInv
  <2> QED BY <2>1, <2>2, <2>3, <2>4 DEF Next
<1> QED BY <1>1, <1>2 DEF TuiIInv

LEMMA TuiInvariance == SharedSpec => []TuiIInv
<1>1. Init => TuiIInv
  BY LoopStarts, RowsStart DEF TuiIInv
<1> QED BY <1>1, TuiKept, PTL DEF SharedSpec

\* A program that runs alone behaves as one beside another client could.
LEMMA AloneIsShared == Spec => SharedSpec
<1>1. [Next]_vars => [Next \/ OtherRecords]_vars
  OBVIOUS
<1> QED BY <1>1, PTL DEF Spec, SharedSpec

\* Whenever runTerminal (apps/cli/main.go) takes keys again, no child process is alive
\* and no scanner holds a line, for any number of evaluations, cancelled or not; what
\* CommandContext does not kill, the engine in a container, is then at work only for an
\* evaluation whose cancellation reached it after docker was asked.
THEOREM IdleIsQuiet == Spec => []IdleMeansNoChild
<1>1. TuiIInv => IdleMeansNoChild
  <2> SUFFICES ASSUME TuiIInv, ~running, NEW r \in Run
               PROVE  /\ ~Alive(r) /\ scanner[r] \in {"off", "done"}
                      /\ Executing(r) => r \in cancelled /\ child[r].kind = "docker"
    BY DEF IdleMeansNoChild
  <2>1. ~Alive(r) /\ scanner[r] \in {"off", "done"}
    BY DEF TuiIInv, LoopIInv, TuiTypes, UnderTheLoop, Active
  <2> QED BY <2>1 DEF TuiIInv, LoopIInv, LeftAlone, Executing
<1> QED BY <1>1, AloneIsShared, TuiInvariance, PTL

\* What client.run (apps/cli/backend.go) reports is what the database holds: a result
\* is of a committed run, and with a result or an error the evaluation is over, for any
\* number of evaluations; the run that is repeated in docker after its commit is there
\* twice at most, and the first of the two is never what the user is told.
THEOREM Truth == Spec => []ToldTheTruth
<1>1. TuiIInv => ToldTheTruth
  <2> SUFFICES ASSUME TuiIInv, NEW r \in Run
               PROVE  LET own == {i \in DOMAIN rows : rows[i].run = r}
                          stored == {i \in own : rows[i].committed}
                          answered == {i \in own : rows[i].answered} IN
                      /\ answered \subseteq stored
                      /\ told[r] = "result" => answered # {}
                      /\ told[r] \in {"result", "error"} => ~Executing(r)
                      /\ told[r] = "dropped" => r \in cancelled
                      /\ \A i, j \in stored : i < j =>
                           rows[i].kind = "local" /\ rows[j].kind = "docker" /\ i \notin answered
    BY DEF ToldTheTruth
  <2> DEFINE own == {i \in DOMAIN rows : rows[i].run = r}
             stored == {i \in own : rows[i].committed}
             answered == {i \in own : rows[i].answered}
  <2>1. answered \subseteq stored
    BY DEF TuiIInv, RowsIInv, RowsTell
  <2>2. told[r] = "result" => answered # {}
    <3> SUFFICES ASSUME told[r] = "result" PROVE child[r].row \in answered
      OBVIOUS
    <3>1. HasRow(r) /\ rows[child[r].row].answered
      BY DEF TuiIInv, RowsIInv, RowsTell, HasRow
    <3>2. child[r].row \in DOMAIN rows
      BY <3>1 DEF TuiIInv, LoopIInv, TuiTypes
    <3> QED BY <3>1, <3>2 DEF TuiIInv, RowsIInv, RowsTell
  <2>3. told[r] \in {"result", "error"} => ~Executing(r)
    BY DEF TuiIInv, LoopIInv, CancelKnown, LeftAlone, UnderTheLoop, Executing, Ended
  <2>4. told[r] = "dropped" => r \in cancelled
    BY DEF TuiIInv, LoopIInv, CancelKnown
  <2>5. ASSUME NEW i \in stored, NEW j \in stored, i < j
        PROVE  rows[i].kind = "local" /\ rows[j].kind = "docker" /\ i \notin answered
    <3>1. rows[i].kind = "local" /\ rows[j].kind = "docker"
      BY <2>5 DEF TuiIInv, RowsIInv, KindOfRows
    <3>2. j = child[r].row
      BY <3>1 DEF TuiIInv, RowsIInv, KindOfRows
    <3>3. i # j
      BY <2>5 DEF TuiIInv, LoopIInv, TuiTypes
    <3> QED BY <3>1, <3>2, <3>3 DEF TuiIInv, RowsIInv, RowsTell
  <2> QED BY <2>1, <2>2, <2>3, <2>4, <2>5
<1> QED BY <1>1, AloneIsShared, TuiInvariance, PTL

\* returnToBenchmarkList (apps/cli/main.go) ends a cancellation only after the notice
\* and after every cancelled goroutine has reported its end.
THEOREM SeenThrough == Spec => CancelSeenThrough
<1>1. TuiIInv /\ [Next]_vars =>
        [cancelling /\ ~cancelling' =>
           notice = 0 /\ screen' = "list"
             /\ \A r \in cancelled : worker[r] \in {"closing", "closed"}]_vars
  <2> SUFFICES ASSUME TuiIInv, Next, cancelling, ~cancelling'
               PROVE  notice = 0 /\ screen' = "list"
                        /\ \A r \in cancelled : worker[r] \in {"closing", "closed"}
    OBVIOUS
  <2>1. running
    BY DEF TuiIInv, LoopIInv, LoopListens
  <2>2. Return
    BY <2>1 DEF Next, Child, CreateRow, PrintProgress, CommitRow, Exit, Fail, Kill,
       Engine, EngineCreates, EngineCommits, EngineFails, Scanner, ScanLine, DropLine, ScanEnd, Worker, StartLocal, LocalUnavailable,
       StartDocker, DockerUnavailable, Wait, Drain, Close, StartRun, StartUnselected,
       Receive, ReceiveProgress, ReceiveEnd, ReceiveClosed, Navigate, PressB, Tick, loop
  <2> QED BY <2>2 DEF Return, ReadyToExit, TuiIInv, LoopIInv, CancelKnown, Ended
<1> QED BY <1>1, AloneIsShared, TuiInvariance, PTL DEF Spec, CancelSeenThrough

------------------------------------------------------------------------------
(* The lines on the trace screen                                            *)

LineType == [run : Run, kind : {"local", "docker"}, line : Nat]
LineTypes == progress \in Seq(LineType) /\ pipe \in [Run -> Seq(LineType)]

\* Evaluations start in order, and none after the one the loop listens to.
StartOrder ==
  /\ \A r, q \in Run : r < q /\ worker[r] = "new" => worker[q] = "new"
  /\ running /\ updates \in Run => \A r \in Run : r > updates => worker[r] = "new"

\* The lines in a pipe are of its child, and an error line is the last.
PipeLines ==
  \A r \in Run :
    /\ scanner[r] = "sending" => pipe[r] # <<>>
    /\ \A i \in DOMAIN pipe[r] :
         /\ pipe[r][i].run = r /\ pipe[r][i].kind = child[r].kind
         /\ pipe[r][i].line = ErrorLine => i = Len(pipe[r]) /\ ~Alive(r)

\* Line h is the last on the screen of r's child, and those in the pipe come next.
Follows(r, h) ==
  /\ \A i \in DOMAIN progress : progress[i].kind = child[r].kind => progress[i].line <= h
  /\ h > 0 => \E i \in DOMAIN progress : progress[i].kind = child[r].kind /\ progress[i].line = h
  /\ \A i \in DOMAIN pipe[r] : pipe[r][i].line \in {h + i, ErrorLine}
  /\ Alive(r) => child[r].printed = h + Len(pipe[r])

\* Until it is cancelled, nothing of an evaluation is lost between its child and
\* the screen, and docker is only asked when the local child is through.
PipeFollows ==
  \A r \in Run : worker[r] \in Active /\ r \notin cancelled =>
    /\ worker[r] = "start" => progress = <<>>
    /\ worker[r] \in {"start", "local", "localDrain", "fallback"} =>
         \A i \in DOMAIN progress : progress[i].kind # "docker"
    /\ scanner[r] \in {"reading", "sending"} => \E h \in Nat : Follows(r, h)

GapIInv == LineTypes /\ StartOrder /\ PipeLines /\ PipeFollows /\ ProgressHasNoGap

LEMMA GapStarts == Init => GapIInv
<1> SUFFICES ASSUME Init PROVE GapIInv
  OBVIOUS
<1>1. /\ progress = <<>> /\ pipe = [r \in Run |-> <<>>] /\ ~running
      /\ \A r \in Run : worker[r] = "new" /\ scanner[r] = "off"
  BY DEF Init
<1>2. LineTypes
  BY <1>1 DEF LineTypes
<1>3. StartOrder /\ PipeFollows
  BY <1>1 DEF StartOrder, PipeFollows, Active
<1>4. PipeLines /\ ProgressHasNoGap
  BY <1>1 DEF PipeLines, ProgressHasNoGap
<1> QED BY <1>2, <1>3, <1>4 DEF GapIInv

\* A child that is alive puts the next line at the end of its pipe, or dies.
LEMMA ChildKeepsGap ==
  ASSUME LoopIInv, GapIInv, NEW r \in Run, Child(r)
  PROVE  GapIInv'
<1> USE DEF GapIInv
<1>1. /\ UNCHANGED <<loop, cancelled, worker, scanner>> /\ Alive(r)
      /\ \A s \in Run : s # r => child'[s] = child[s] /\ pipe'[s] = pipe[s]
      /\ child \in [Run -> ChildType] /\ pipe \in [Run -> Seq(LineType)]
  BY
     DEF LoopIInv, TuiTypes, LineTypes, Child, CreateRow, PrintProgress, CommitRow, Exit, Fail,
         Kill,
     Alive, Write
<1>2. /\ worker[r] \in {"local", "docker"} /\ child[r].kind \in {"local", "docker"}
      /\ child[r].printed \in Nat /\ pipe[r] \in Seq(LineType) /\ Len(pipe[r]) \in Nat
  BY <1>1 DEF LoopIInv, UnderTheLoop, KindOfWorker, ChildType
<1> DEFINE l(n) == [run |-> r, kind |-> child[r].kind, line |-> n]
<1>3. /\ child'[r].kind = child[r].kind
      /\ \/ pipe' = pipe /\ child'[r].printed = child[r].printed
         \/ /\ pipe' = [pipe EXCEPT ![r] = Append(pipe[r], l(ErrorLine))]
            /\ child'[r].printed = child[r].printed /\ ~Alive(r)'
         \/ /\ pipe' = [pipe EXCEPT ![r] = Append(pipe[r], l(child[r].printed + 1))]
            /\ child'[r].printed = child[r].printed + 1
  <2>1. CASE CreateRow(r) \/ CommitRow(r) \/ Exit(r) \/ Kill(r)
    BY <1>1, <2>1 DEF CreateRow, CommitRow, Exit, Kill, ChildType
  <2>2. CASE PrintProgress(r)
    BY <1>1, <2>2 DEF PrintProgress, Write, ChildType
  <2>3. CASE Fail(r)
    BY <1>1, <2>3 DEF Fail, Write, ChildType, Alive
  <2> QED BY <2>1, <2>2, <2>3 DEF Child
<1>4. CASE pipe' = pipe /\ child'[r].printed = child[r].printed
  <2>1. LineTypes' /\ StartOrder' /\ ProgressHasNoGap'
    BY <1>1, <1>4 DEF LineTypes, StartOrder, ProgressHasNoGap, loop
  <2>2. /\ \A s \in Run : child'[s].kind = child[s].kind /\ child'[s].printed = child[s].printed
        /\ \A s \in Run : Alive(s)' => Alive(s)
    BY <1>1, <1>3, <1>4 DEF Alive
  <2>3. PipeLines'
    BY <1>1, <1>4, <2>2, SMTT(30) DEF PipeLines
  <2>4. ASSUME NEW s \in Run, NEW h \in Nat, Follows(s, h) PROVE Follows(s, h)'
    BY <1>1, <1>4, <2>2, <2>4 DEF Follows, loop
  <2>5. PipeFollows'
    BY <1>1, <2>4 DEF PipeFollows, loop
  <2> QED BY <2>1, <2>3, <2>5
<1>5. ASSUME NEW n \in Nat, pipe' = [pipe EXCEPT ![r] = Append(pipe[r], l(n))],
             \/ n = ErrorLine /\ child'[r].printed = child[r].printed /\ ~Alive(r)'
             \/ n = child[r].printed + 1 /\ child'[r].printed = child[r].printed + 1
      PROVE  GapIInv'
  <2>1. l(n) \in LineType
    BY <1>2 DEF LineType
  <2>2. /\ l(n).run = r /\ l(n).kind = child[r].kind /\ l(n).line = n
        /\ pipe'[r] = Append(pipe[r], l(n))
    BY <1>1, <1>5
  <2> HIDE DEF l
  <2>3. /\ pipe'[r] \in Seq(LineType) /\ Len(pipe'[r]) = Len(pipe[r]) + 1
        /\ DOMAIN pipe'[r] = 1..(Len(pipe[r]) + 1) /\ DOMAIN pipe[r] = 1..Len(pipe[r])
        /\ \A i \in DOMAIN pipe[r] : pipe'[r][i] = pipe[r][i]
        /\ pipe'[r][Len(pipe[r]) + 1] = l(n) /\ pipe'[r] # <<>>
    BY <1>2, <2>1, <2>2
  <2>4. LineTypes' /\ StartOrder' /\ ProgressHasNoGap'
    <3>1. LineTypes'
      BY <1>1, <1>5, <2>2, <2>3 DEF LineTypes, loop
    <3>2. StartOrder' /\ ProgressHasNoGap'
      BY <1>1 DEF StartOrder, ProgressHasNoGap, loop
    <3> QED BY <3>1, <3>2
  <2>5. \A i \in DOMAIN pipe[r] : pipe[r][i].line # ErrorLine
    BY <1>1 DEF PipeLines
  <2>6. PipeLines'
    <3>1. ASSUME NEW i \in DOMAIN pipe'[r]
          PROVE  /\ pipe'[r][i].run = r /\ pipe'[r][i].kind = child'[r].kind
                 /\ pipe'[r][i].line = ErrorLine => i = Len(pipe'[r]) /\ ~Alive(r)'
      <4>1. CASE i = Len(pipe[r]) + 1
        BY <1>2, <1>3, <1>5, <2>2, <2>3, <4>1 DEF ErrorLine
      <4>2. CASE i # Len(pipe[r]) + 1
        <5>1. i \in DOMAIN pipe[r] /\ pipe'[r][i] = pipe[r][i]
          BY <1>2, <2>3, <4>2
        <5> QED BY <1>3, <2>5, <5>1 DEF PipeLines
      <4> QED BY <4>1, <4>2
    <3>2. ASSUME NEW s \in Run, s # r
          PROVE  Alive(s)' = Alive(s)
      BY <1>1, <3>2 DEF Alive
    <3>3. ASSUME NEW s \in Run, s # r
          PROVE  /\ scanner'[s] = "sending" => pipe'[s] # <<>>
                 /\ \A i \in DOMAIN pipe'[s] :
                      /\ pipe'[s][i].run = s /\ pipe'[s][i].kind = child'[s].kind
                      /\ pipe'[s][i].line = ErrorLine => i = Len(pipe'[s]) /\ ~Alive(s)'
      BY <1>1, <3>2, <3>3 DEF PipeLines
    <3> QED BY <2>3, <3>1, <3>3 DEF PipeLines
  <2>7. ASSUME NEW h \in Nat, Follows(r, h) PROVE Follows(r, h)'
    <3>1. child[r].printed = h + Len(pipe[r])
      BY <1>1, <2>7 DEF Follows
    <3>2. \A i \in DOMAIN pipe'[r] : pipe'[r][i].line \in {h + i, ErrorLine}
      BY <1>2, <1>5, <2>2, <2>3, <2>7, <3>1 DEF Follows
    <3>3. Alive(r)' => child'[r].printed = h + Len(pipe'[r])
      BY <1>2, <1>5, <2>3, <3>1
    <3>4. progress' = progress
      BY <1>1 DEF loop
    <3> QED BY <1>3, <2>7, <3>2, <3>3, <3>4 DEF Follows
  <2>8. ASSUME NEW s \in Run, s # r, NEW h \in Nat, Follows(s, h) PROVE Follows(s, h)'
    <3>1. child'[s] = child[s] /\ pipe'[s] = pipe[s] /\ progress' = progress
      BY <1>1, <2>8 DEF loop
    <3> QED BY <2>8, <3>1 DEF Follows, Alive
  <2>9. PipeFollows'
    BY <1>1, <2>7, <2>8 DEF PipeFollows, loop
  <2> QED BY <2>4, <2>6, <2>9
<1> QED BY <1>2, <1>3, <1>4, <1>5 DEF ErrorLine

\* What does not touch the pipes or the screen keeps the lines in order.
LEMMA QuietKeepsGap ==
  ASSUME LoopIInv, GapIInv, UNCHANGED <<pipe, child, progress>>,
         worker \in [Run -> Places], worker' \in [Run -> Places],
         cancelled \subseteq cancelled', running' => running, updates' \in {updates, NoRun},
         \A r \in Run : worker'[r] = "new" <=> worker[r] = "new",
         \A r \in Run : worker'[r] # worker[r] =>
           \/ worker'[r] \notin Active \cup {"new", "start"}
           \/ worker'[r] = "succeeds"
           \/ worker'[r] = "fallback" /\ worker[r] \in {"start", "localDrain"},
         \A r \in Run : scanner'[r] \in {"reading", "sending"} =>
           scanner[r] \in {"reading", "sending"} /\ worker'[r] = worker[r],
         \A r \in Run : scanner'[r] = "sending" => pipe[r] # <<>>
  PROVE  GapIInv'
<1>1. LineTypes'
  BY DEF GapIInv, LineTypes
<1>2. StartOrder' /\ ProgressHasNoGap'
  BY DEF GapIInv, StartOrder, ProgressHasNoGap, NoRun, Run
<1>3. PipeLines'
  BY DEF GapIInv, PipeLines, Alive
<1>4. \A r \in Run : \A h \in Nat : Follows(r, h)' = Follows(r, h)
  BY DEF Follows, Alive
<1>5. ASSUME NEW r \in Run, worker'[r] \in Active /\ r \notin cancelled'
      PROVE  /\ worker'[r] = "start" => progress' = <<>>
             /\ worker'[r] \in {"start", "local", "localDrain", "fallback"} =>
                  \A i \in DOMAIN progress' : progress'[i].kind # "docker"
             /\ scanner'[r] \in {"reading", "sending"} => \E h \in Nat : Follows(r, h)'
  <2>1. CASE worker'[r] = worker[r]
    BY <1>4, <1>5, <2>1 DEF GapIInv, PipeFollows
  <2>2. CASE worker'[r] # worker[r]
    BY <1>5, <2>2 DEF GapIInv, PipeFollows, Active
  <2> QED BY <2>1, <2>2
<1>6. PipeFollows'
  BY <1>5 DEF PipeFollows
<1> QED BY <1>1, <1>2, <1>3, <1>6 DEF GapIInv

\* An engine that its docker CLI has left is not read any more.
LEMMA EngineKeepsGap ==
  ASSUME LoopIInv, GapIInv, NEW r \in Run, Engine(r)
  PROVE  GapIInv'
<1>1. /\ UNCHANGED <<loop, cancelled, worker, scanner, pipe>>
      /\ \A s \in Run : /\ child'[s].kind = child[s].kind /\ child'[s].state = child[s].state
                        /\ child'[s].printed = child[s].printed
  <2>1. CASE EngineCreates(r)
    <3>1. child' = [child EXCEPT ![r].row = Len(rows')] /\ child \in [Run -> ChildType]
      BY <2>1 DEF EngineCreates, LoopIInv, TuiTypes
    <3>2. \A s \in Run : /\ child'[s].kind = child[s].kind /\ child'[s].state = child[s].state
                         /\ child'[s].printed = child[s].printed
      BY <3>1 DEF ChildType
    <3> QED BY <2>1, <3>2 DEF EngineCreates
  <2>2. CASE EngineCommits(r) \/ EngineFails(r)
    BY <2>2 DEF EngineCommits, EngineFails
  <2> QED BY <2>1, <2>2 DEF Engine
<1>2. LineTypes' /\ StartOrder' /\ ProgressHasNoGap'
  BY <1>1 DEF GapIInv, LineTypes, StartOrder, ProgressHasNoGap, loop
<1>3. PipeLines'
  BY <1>1 DEF GapIInv, PipeLines, Alive
<1>4. ASSUME NEW s \in Run, NEW h \in Nat, Follows(s, h) PROVE Follows(s, h)'
  BY <1>1, <1>4 DEF Follows, Alive, loop
<1>5. PipeFollows'
  BY <1>1, <1>4 DEF GapIInv, PipeFollows, loop
<1> QED BY <1>2, <1>3, <1>5 DEF GapIInv

\* A pipe of which the first line is taken, and one that is cut off at its end.
LEMMA TailOfPipe ==
  ASSUME LineTypes, NEW r \in Run, pipe[r] # <<>>
  PROVE  /\ Tail(pipe[r]) \in Seq(LineType) /\ Len(Tail(pipe[r])) = Len(pipe[r]) - 1
         /\ DOMAIN Tail(pipe[r]) = 1..(Len(pipe[r]) - 1) /\ DOMAIN pipe[r] = 1..Len(pipe[r])
         /\ Len(pipe[r]) \in Nat \ {0} /\ Head(pipe[r]) = pipe[r][1] /\ pipe[r][1] \in LineType
         /\ \A i \in 1..(Len(pipe[r]) - 1) : Tail(pipe[r])[i] = pipe[r][i + 1]
<1>1. pipe[r] \in Seq(LineType)
  BY DEF LineTypes
<1> QED BY <1>1

LEMMA CutPipe ==
  ASSUME LineTypes, NEW r \in Run, NEW kept \in 0..Len(pipe[r])
  PROVE  /\ SubSeq(pipe[r], 1, kept) \in Seq(LineType) /\ Len(SubSeq(pipe[r], 1, kept)) = kept
         /\ DOMAIN SubSeq(pipe[r], 1, kept) = 1..kept /\ DOMAIN pipe[r] = 1..Len(pipe[r])
         /\ Len(pipe[r]) \in Nat
         /\ \A i \in 1..kept : SubSeq(pipe[r], 1, kept)[i] = pipe[r][i]
<1>1. pipe[r] \in Seq(LineType) /\ Len(pipe[r]) \in Nat
  BY DEF LineTypes
<1>2. \A i \in 1..kept : pipe[r][i] \in LineType
  BY <1>1
<1> QED BY <1>1, <1>2, SubSeqProperties

\* What the scanner does between the pipe and the loop.
LEMMA ScannerKeepsGap ==
  ASSUME LoopIInv, GapIInv, NEW r \in Run, Scanner(r)
  PROVE  GapIInv'
<1>1. /\ worker \in [Run -> Places] /\ scanner \in [Run -> {"off", "reading", "sending", "done"}]
      /\ UNCHANGED <<loop, cancelled, worker, child>>
      /\ LineTypes /\ pipe \in [Run -> Seq(LineType)]
      /\ \A s \in Run : scanner[s] = "sending" => pipe[s] # <<>>
  BY DEF LoopIInv, TuiTypes, GapIInv, LineTypes, PipeLines, Scanner, ScanLine, DropLine, ScanEnd
<1>2. CASE ScanLine(r) \/ ScanEnd(r)
  <2>1. UNCHANGED <<pipe, child, progress, worker, cancelled, running, updates>>
    BY <1>1, <1>2 DEF ScanLine, ScanEnd, loop
  <2>2. \A s \in Run : scanner'[s] \in {"reading", "sending"} =>
           scanner[s] \in {"reading", "sending"} /\ (scanner'[s] = "sending" => pipe[s] # <<>>)
    BY <1>1, <1>2 DEF ScanLine, ScanEnd
  <2> QED BY <1>1, <2>1, <2>2, QuietKeepsGap
<1>3. CASE DropLine(r)
  <2>1. /\ scanner[r] = "sending" /\ r \in cancelled /\ pipe[r] # <<>>
        /\ pipe' = [pipe EXCEPT ![r] = Tail(pipe[r])]
        /\ scanner' = [scanner EXCEPT ![r] = "reading"]
    BY <1>1, <1>3 DEF DropLine, GivesUp
  <2>2. pipe'[r] = Tail(pipe[r]) /\ \A s \in Run : s # r => pipe'[s] = pipe[s]
    BY <1>1, <2>1
  <2>3. LineTypes' /\ StartOrder' /\ ProgressHasNoGap'
    <3>1. LineTypes'
      BY <1>1, <2>1, TailOfPipe DEF LineTypes, loop
    <3>2. StartOrder' /\ ProgressHasNoGap'
      BY <1>1 DEF GapIInv, StartOrder, ProgressHasNoGap, loop
    <3> QED BY <3>1, <3>2
  <2>4. PipeLines'
    <3>1. ASSUME NEW i \in DOMAIN pipe'[r]
          PROVE  /\ pipe'[r][i].run = r /\ pipe'[r][i].kind = child'[r].kind
                 /\ pipe'[r][i].line = ErrorLine => i = Len(pipe'[r]) /\ ~Alive(r)'
      <4>1. i + 1 \in DOMAIN pipe[r] /\ pipe'[r][i] = pipe[r][i + 1] /\ Len(pipe'[r]) = Len(pipe[r]) - 1
            /\ Len(pipe[r]) \in Nat /\ i \in Nat
        BY <1>1, <2>1, <2>2, <3>1, TailOfPipe
      <4> QED BY <1>1, <4>1 DEF GapIInv, PipeLines, Alive
    <3>2. ASSUME NEW s \in Run, s # r
          PROVE  /\ scanner'[s] = "sending" => pipe'[s] # <<>>
                 /\ \A i \in DOMAIN pipe'[s] :
                      /\ pipe'[s][i].run = s /\ pipe'[s][i].kind = child'[s].kind
                      /\ pipe'[s][i].line = ErrorLine => i = Len(pipe'[s]) /\ ~Alive(s)'
      BY <1>1, <2>1, <2>2, <3>2 DEF GapIInv, PipeLines, Alive
    <3>3. scanner'[r] # "sending"
      BY <1>1, <2>1
    <3> QED BY <3>1, <3>2, <3>3 DEF PipeLines
  <2>5. ASSUME NEW s \in Run, s # r, NEW h \in Nat, Follows(s, h) PROVE Follows(s, h)'
    <3>1. child'[s] = child[s] /\ pipe'[s] = pipe[s] /\ progress' = progress
      BY <1>1, <2>2, <2>5 DEF loop
    <3> QED BY <2>5, <3>1 DEF Follows, Alive
  <2>6. PipeFollows'
    BY <1>1, <2>1, <2>5 DEF GapIInv, PipeFollows, loop
  <2> QED BY <2>3, <2>4, <2>6 DEF GapIInv
<1> QED BY <1>2, <1>3 DEF Scanner

\* A new child has printed nothing, and nothing of its kind is on the screen.
LEMMA SpawnKeepsGap ==
  ASSUME LoopIInv, GapIInv, NEW r \in Run, StartLocal(r) \/ StartDocker(r)
  PROVE  GapIInv'
<1>1. /\ worker \in [Run -> Places] /\ scanner \in [Run -> {"off", "reading", "sending", "done"}]
      /\ child \in [Run -> ChildType] /\ pipe \in [Run -> Seq(LineType)]
      /\ UNCHANGED <<loop, cancelled>> /\ r \notin cancelled
  BY DEF LoopIInv, TuiTypes, GapIInv, LineTypes, StartLocal, StartDocker
<1>2. PICK kind \in {"local", "docker"} :
        /\ worker' = [worker EXCEPT ![r] = kind]
        /\ child' = [child EXCEPT ![r] = [NoChild EXCEPT !.kind = kind, !.state = "started"]]
        /\ pipe' = [pipe EXCEPT ![r] = <<>>]
        /\ scanner' = [scanner EXCEPT ![r] = "reading"]
        /\ worker[r] = IF kind = "local" THEN "start" ELSE "fallback"
  BY DEF StartLocal, StartDocker, Goto, Spawn
<1>3. /\ child'[r].kind = kind /\ child'[r].printed = 0 /\ pipe'[r] = <<>> /\ worker'[r] = kind
      /\ scanner'[r] = "reading"
      /\ \A s \in Run : s # r => child'[s] = child[s] /\ pipe'[s] = pipe[s]
                                 /\ worker'[s] = worker[s] /\ scanner'[s] = scanner[s]
  BY <1>1, <1>2 DEF NoChild
<1>4. \A i \in DOMAIN progress : progress[i].kind # kind
  BY <1>1, <1>2 DEF GapIInv, PipeFollows, Active
<1>5. kind = "local" => progress = <<>>
  BY <1>1, <1>2 DEF GapIInv, PipeFollows, Active
<1>6. LineTypes' /\ StartOrder' /\ ProgressHasNoGap'
  <2>1. LineTypes'
    BY <1>1, <1>2 DEF GapIInv, LineTypes, loop
  <2>2. \A s \in Run : worker'[s] = "new" <=> worker[s] = "new"
    BY <1>2, <1>3
  <2>3. StartOrder' /\ ProgressHasNoGap'
    BY <1>1, <2>2 DEF GapIInv, StartOrder, ProgressHasNoGap, loop
  <2> QED BY <2>1, <2>3
<1>7. PipeLines'
  BY <1>3 DEF GapIInv, PipeLines, Alive
<1>8. ASSUME NEW s \in Run, s # r, NEW h \in Nat, Follows(s, h) PROVE Follows(s, h)'
  <2>1. child'[s] = child[s] /\ pipe'[s] = pipe[s] /\ progress' = progress
    BY <1>1, <1>3, <1>8 DEF loop
  <2> QED BY <1>8, <2>1 DEF Follows, Alive
<1>9. Follows(r, 0)'
  BY <1>1, <1>3, <1>4 DEF Follows, loop
<1>10. PipeFollows'
  BY <1>1, <1>3, <1>5, <1>8, <1>9 DEF GapIInv, PipeFollows, loop
<1> QED BY <1>6, <1>7, <1>10 DEF GapIInv

\* Wait loses lines at the end of the pipe, never the one the scanner holds.
LEMMA WaitKeepsGap ==
  ASSUME LoopIInv, GapIInv, NEW r \in Run, Wait(r)
  PROVE  GapIInv'
<1>1. /\ worker \in [Run -> Places] /\ pipe \in [Run -> Seq(LineType)] /\ LineTypes
      /\ UNCHANGED <<loop, cancelled, scanner, child>>
      /\ worker[r] \in {"local", "docker"} /\ ~Alive(r)
      /\ worker' = [worker EXCEPT ![r] = IF worker[r] = "local" THEN "localDrain" ELSE "dockerDrain"]
  BY DEF LoopIInv, TuiTypes, GapIInv, LineTypes, Wait, Goto
<1>2. PICK kept \in 0..Len(pipe[r]) :
        /\ scanner[r] = "sending" => kept > 0
        /\ pipe' = [pipe EXCEPT ![r] = SubSeq(pipe[r], 1, kept)]
  <2>1. PICK kept \in (IF scanner[r] = "sending" THEN 1 ELSE 0)..Len(pipe[r]) :
          pipe' = [pipe EXCEPT ![r] = SubSeq(pipe[r], 1, kept)]
    BY DEF Wait
  <2>2. Len(pipe[r]) \in Nat
    BY <1>1, LenProperties
  <2>3. kept \in 0..Len(pipe[r]) /\ (scanner[r] = "sending" => kept > 0)
    <3>1. CASE scanner[r] = "sending"
      BY <2>1, <2>2, <3>1
    <3>2. CASE scanner[r] # "sending"
      BY <2>1, <2>2, <3>2
    <3> QED BY <3>1, <3>2
  <2> QED BY <2>1, <2>3
<1> DEFINE new == SubSeq(pipe[r], 1, kept)
<1>3. /\ new \in Seq(LineType) /\ Len(new) = kept /\ DOMAIN new = 1..kept
      /\ DOMAIN pipe[r] = 1..Len(pipe[r]) /\ Len(pipe[r]) \in Nat
      /\ \A i \in 1..kept : new[i] = pipe[r][i]
  BY <1>1, CutPipe
<1> HIDE DEF new
<1>4. /\ pipe' = [pipe EXCEPT ![r] = new]
      /\ pipe'[r] = new /\ \A s \in Run : s # r => pipe'[s] = pipe[s] /\ worker'[s] = worker[s]
      /\ worker'[r] = IF worker[r] = "local" THEN "localDrain" ELSE "dockerDrain"
  BY <1>1, <1>2 DEF new
<1>5. LineTypes' /\ StartOrder' /\ ProgressHasNoGap'
  <2>1. LineTypes'
    BY <1>1, <1>3, <1>4 DEF LineTypes, loop
  <2>2. \A s \in Run : worker'[s] = "new" <=> worker[s] = "new"
    BY <1>1, <1>4
  <2>3. StartOrder' /\ ProgressHasNoGap'
    BY <1>1, <2>2 DEF GapIInv, StartOrder, ProgressHasNoGap, loop
  <2> QED BY <2>1, <2>3
<1>6. PipeLines'
  <2>1. ASSUME NEW i \in DOMAIN pipe'[r]
        PROVE  /\ pipe'[r][i].run = r /\ pipe'[r][i].kind = child'[r].kind
               /\ pipe'[r][i].line = ErrorLine => i = Len(pipe'[r]) /\ ~Alive(r)'
    <3>1. i \in 1..kept /\ i \in DOMAIN pipe[r] /\ pipe'[r][i] = pipe[r][i] /\ Len(pipe'[r]) = kept
          /\ kept <= Len(pipe[r]) /\ kept \in Nat
      BY <1>2, <1>3, <1>4, <2>1
    <3>2. pipe[r][i].line = ErrorLine => i = kept
      BY <1>3, <3>1 DEF GapIInv, PipeLines
    <3> QED BY <1>1, <3>1, <3>2 DEF GapIInv, PipeLines, Alive
  <2>2. ASSUME NEW s \in Run, s # r
        PROVE  /\ scanner'[s] = "sending" => pipe'[s] # <<>>
               /\ \A i \in DOMAIN pipe'[s] :
                    /\ pipe'[s][i].run = s /\ pipe'[s][i].kind = child'[s].kind
                    /\ pipe'[s][i].line = ErrorLine => i = Len(pipe'[s]) /\ ~Alive(s)'
    BY <1>1, <1>4, <2>2 DEF GapIInv, PipeLines, Alive
  <2>3. scanner'[r] = "sending" => pipe'[r] # <<>>
    <3>1. scanner[r] = "sending" => Len(new) > 0
      BY <1>2, <1>3
    <3>2. Len(new) > 0 => new # <<>>
      BY EmptySeq
    <3> QED BY <1>1, <1>4, <3>1, <3>2
  <2> QED BY <2>1, <2>2, <2>3 DEF PipeLines
<1>7. ASSUME NEW s \in Run, NEW h \in Nat, Follows(s, h) PROVE Follows(s, h)'
  <2>1. child' = child /\ progress' = progress
    BY <1>1 DEF loop
  <2>2. \A i \in DOMAIN pipe'[s] : i \in DOMAIN pipe[s] /\ pipe'[s][i] = pipe[s][i]
    BY <1>2, <1>3, <1>4
  <2>3. Alive(s)' => s # r /\ pipe'[s] = pipe[s]
    BY <1>1, <1>4, <2>1 DEF Alive
  <2> QED BY <1>7, <2>1, <2>2, <2>3 DEF Follows, Alive
<1>8. ASSUME NEW s \in Run, worker'[s] \in Active, s \notin cancelled'
      PROVE  /\ worker'[s] = "start" => progress' = <<>>
             /\ worker'[s] \in {"start", "local", "localDrain", "fallback"} =>
                  \A i \in DOMAIN progress' : progress'[i].kind # "docker"
             /\ scanner'[s] \in {"reading", "sending"} => \E h \in Nat : Follows(s, h)'
  <2>1. /\ worker[s] \in Active /\ s \notin cancelled
        /\ worker'[s] = "start" => worker[s] = "start"
        /\ worker'[s] \in {"start", "local", "localDrain", "fallback"} =>
             worker[s] \in {"start", "local", "localDrain", "fallback"}
        /\ scanner'[s] = scanner[s] /\ progress' = progress
    BY <1>1, <1>4, <1>8 DEF Active, loop
  <2> QED BY <1>7, <2>1 DEF GapIInv, PipeFollows
<1>9. PipeFollows'
  BY <1>8 DEF PipeFollows
<1> QED BY <1>5, <1>6, <1>9 DEF GapIInv

LEMMA WorkerKeepsGap ==
  ASSUME LoopIInv, GapIInv, NEW r \in Run, Worker(r)
  PROVE  GapIInv'
<1>1. /\ worker \in [Run -> Places] /\ UNCHANGED <<loop, cancelled>>
      /\ \A s \in Run : scanner[s] = "sending" => pipe[s] # <<>>
  BY DEF LoopIInv, TuiTypes, GapIInv, PipeLines, Worker, StartLocal, LocalUnavailable,
     StartDocker, DockerUnavailable, Wait, Drain, Close
<1>2. CASE LocalUnavailable(r) \/ DockerUnavailable(r) \/ Drain(r) \/ Close(r)
  <2>1. /\ UNCHANGED <<pipe, child, scanner>>
        /\ scanner[r] \notin {"reading", "sending"}
        /\ \E place \in {"fallback", "fails", "succeeds", "closed"} :
             /\ worker' = [worker EXCEPT ![r] = place]
             /\ place = "fallback" => worker[r] \in {"start", "localDrain"}
        /\ worker[r] # "new"
    <3>1. CASE LocalUnavailable(r) \/ DockerUnavailable(r) \/ Close(r)
      BY <3>1 DEF LocalUnavailable, DockerUnavailable, Close, Goto, LoopIInv, UnderTheLoop
    <3>2. CASE Drain(r)
      BY <3>2 DEF Drain, TakeAnswer, GiveUpChild, Goto
    <3> QED BY <1>2, <3>1, <3>2
  <2>2. worker' \in [Run -> Places]
    BY <1>1, <2>1 DEF Places, Active, Ended
  <2>3. \A s \in Run : worker'[s] = "new" <=> worker[s] = "new"
    BY <1>1, <2>1
  <2>4. \A s \in Run : worker'[s] # worker[s] =>
           \/ worker'[s] \notin Active \cup {"new", "start"}
           \/ worker'[s] = "succeeds"
           \/ worker'[s] = "fallback" /\ worker[s] \in {"start", "localDrain"}
    BY <1>1, <2>1 DEF Active
  <2>5. \A s \in Run : scanner'[s] \in {"reading", "sending"} =>
           scanner[s] \in {"reading", "sending"} /\ worker'[s] = worker[s]
    BY <1>1, <2>1
  <2>6. UNCHANGED <<progress, running, updates, cancelled>>
    BY <1>1 DEF loop
  <2> QED BY <1>1, <2>1, <2>2, <2>3, <2>4, <2>5, <2>6, QuietKeepsGap
<1> QED BY <1>2, SpawnKeepsGap, WaitKeepsGap DEF Worker

\* The line that the loop takes is the next one: it goes to the end of the trace,
\* unless the run is being cancelled.
LEMMA LineReceived ==
  ASSUME LoopIInv, GapIInv, NEW r \in Run, ReceiveProgress(r)
  PROVE  GapIInv'
<1>1. /\ worker \in [Run -> Places] /\ scanner \in [Run -> {"off", "reading", "sending", "done"}]
      /\ pipe \in [Run -> Seq(LineType)] /\ progress \in Seq(LineType) /\ LineTypes
      /\ UNCHANGED <<cancelling, running, updates, cancelled, worker, child>>
      /\ updates = r /\ scanner[r] = "sending" /\ scanner' = [scanner EXCEPT ![r] = "reading"]
      /\ pipe' = [pipe EXCEPT ![r] = Tail(pipe[r])]
      /\ progress' = IF cancelling THEN progress ELSE Append(progress, Head(pipe[r]))
  BY DEF LoopIInv, TuiTypes, GapIInv, LineTypes, ReceiveProgress, Listening
<1>2. /\ worker[r] \in {"local", "docker", "localDrain", "dockerDrain"} /\ pipe[r] # <<>>
      /\ running /\ (r \in cancelled => cancelling)
      /\ \A s \in Run : worker[s] \in Active => s = r
  BY <1>1 DEF LoopIInv, UnderTheLoop, CancelKnown, GapIInv, PipeLines, Active, Ended
<1> DEFINE l == pipe[r][1]
<1>3. /\ pipe'[r] = Tail(pipe[r]) /\ \A s \in Run : s # r => pipe'[s] = pipe[s]
      /\ Len(pipe'[r]) = Len(pipe[r]) - 1 /\ DOMAIN pipe'[r] = 1..(Len(pipe[r]) - 1)
      /\ DOMAIN pipe[r] = 1..Len(pipe[r]) /\ Len(pipe[r]) \in Nat \ {0}
      /\ Head(pipe[r]) = l /\ l \in LineType
      /\ \A i \in 1..(Len(pipe[r]) - 1) : pipe'[r][i] = pipe[r][i + 1]
  BY <1>1, <1>2, TailOfPipe
<1>4. /\ l.run = r /\ l.kind = child[r].kind /\ l.line \in Nat
      /\ l.line = ErrorLine => Len(pipe[r]) = 1 /\ ~Alive(r)
  <2>1. 1 \in DOMAIN pipe[r]
    BY <1>3
  <2>2. l.run = r /\ l.kind = child[r].kind /\ (l.line = ErrorLine => 1 = Len(pipe[r]) /\ ~Alive(r))
    BY <2>1 DEF GapIInv, PipeLines
  <2>3. l.line \in Nat
    BY <1>3 DEF LineType
  <2> QED BY <2>2, <2>3
<1> HIDE DEF l
<1>5. LineTypes'
  BY <1>1, <1>2, <1>3, TailOfPipe DEF LineTypes
<1>6. StartOrder'
  BY <1>1 DEF GapIInv, StartOrder
<1>7. PipeLines'
  <2>1. ASSUME NEW i \in DOMAIN pipe'[r]
        PROVE  /\ pipe'[r][i].run = r /\ pipe'[r][i].kind = child'[r].kind
               /\ pipe'[r][i].line = ErrorLine => i = Len(pipe'[r]) /\ ~Alive(r)'
    <3>1. i + 1 \in DOMAIN pipe[r] /\ pipe'[r][i] = pipe[r][i + 1] /\ i \in Nat
      BY <1>3, <2>1
    <3>2. /\ pipe[r][i + 1].run = r /\ pipe[r][i + 1].kind = child[r].kind
          /\ pipe[r][i + 1].line = ErrorLine => i + 1 = Len(pipe[r]) /\ ~Alive(r)
      BY <3>1 DEF GapIInv, PipeLines
    <3>3. child' = child /\ Len(pipe'[r]) = Len(pipe[r]) - 1 /\ Len(pipe[r]) \in Nat
      BY <1>1, <1>3
    <3> QED BY <3>1, <3>2, <3>3 DEF Alive
  <2>2. ASSUME NEW s \in Run, s # r
        PROVE  /\ scanner'[s] = "sending" => pipe'[s] # <<>>
               /\ \A i \in DOMAIN pipe'[s] :
                    /\ pipe'[s][i].run = s /\ pipe'[s][i].kind = child'[s].kind
                    /\ pipe'[s][i].line = ErrorLine => i = Len(pipe'[s]) /\ ~Alive(s)'
    BY <1>1, <1>3, <2>2 DEF GapIInv, PipeLines, Alive
  <2>3. scanner'[r] # "sending"
    BY <1>1
  <2> QED BY <2>1, <2>2, <2>3 DEF PipeLines
<1>8. CASE cancelling
  <2>1. progress' = progress /\ \A s \in Run : worker[s] \in Active => s \in cancelled
    BY <1>1, <1>2, <1>8 DEF LoopIInv, UnderTheLoop, CancelKnown, Active
  <2>2. PipeFollows' /\ ProgressHasNoGap'
    BY <1>1, <2>1 DEF GapIInv, PipeFollows, ProgressHasNoGap
  <2> QED BY <1>5, <1>6, <1>7, <2>2 DEF GapIInv
<1>9. CASE ~cancelling
  <2> DEFINE n == Len(progress)
  <2>1. /\ progress' = Append(progress, l) /\ r \notin cancelled /\ n \in Nat
        /\ worker[r] \in Active
    <3>1. progress' = Append(progress, l) /\ r \notin cancelled
      BY <1>1, <1>2, <1>3, <1>9
    <3>2. n \in Nat
      BY <1>1, LenProperties
    <3> QED BY <1>2, <3>1, <3>2 DEF Active
  <2>2. /\ DOMAIN progress = 1..n /\ DOMAIN progress' = 1..(n + 1) /\ progress'[n + 1] = l
        /\ \A i \in 1..n : progress'[i] = progress[i] /\ progress[i] \in LineType
    BY <1>1, <1>3, <2>1
  <2> HIDE DEF n
  <2>3. PICK h \in Nat : Follows(r, h)
    BY <1>1, <1>2, <2>1 DEF GapIInv, PipeFollows
  <2>4. l.line \in {h + 1, ErrorLine}
    BY <1>3, <2>3 DEF Follows, l
  <2>5. l.kind \in {"local", "docker"}
        /\ (l.kind = "local" => \A i \in DOMAIN progress : progress[i].kind # "docker")
    BY <1>1, <1>2, <1>4, <2>1 DEF LoopIInv, GapIInv, PipeFollows, KindOfWorker
  <2>6. PICK g \in Nat : g = IF l.line = ErrorLine THEN h ELSE h + 1
    OBVIOUS
  <2>7. Follows(r, g)'
    <3>1. /\ child'[r] = child[r] /\ Alive(r)' = Alive(r)
          /\ l.line # ErrorLine => l.line = h + 1 /\ g = h + 1
          /\ l.line = ErrorLine => g = h /\ DOMAIN pipe'[r] = {} /\ ~Alive(r)
      <4>1. child'[r] = child[r] /\ Alive(r)' = Alive(r)
        BY <1>1 DEF Alive
      <4>2. l.line = ErrorLine => DOMAIN pipe'[r] = {} /\ ~Alive(r)
        <5>1. DOMAIN pipe'[r] = 1..(Len(pipe[r]) - 1) /\ 1..(1 - 1) = {}
          BY <1>3
        <5> QED BY <1>4, <5>1
      <4> QED BY <2>4, <2>6, <4>1, <4>2
    <3>2. \A i \in DOMAIN progress' : progress'[i].kind = child'[r].kind => progress'[i].line <= g
      <4>1. ASSUME NEW i \in 1..n, progress[i].kind = child[r].kind PROVE progress[i].line <= g
        <5>1. progress[i] \in LineType /\ progress[i].line <= h
          BY <1>1, <2>2, <2>3, <4>1 DEF Follows
        <5> QED BY <2>4, <3>1, <5>1 DEF LineType
      <4>2. l.line <= g
        BY <2>4, <3>1 DEF ErrorLine
      <4> QED BY <2>1, <2>2, <3>1, <4>1, <4>2
    <3>3. g > 0 => \E i \in DOMAIN progress' : progress'[i].kind = child'[r].kind /\ progress'[i].line = g
      BY <1>4, <2>1, <2>2, <2>3, <3>1 DEF Follows
    <3>4. \A i \in DOMAIN pipe'[r] : pipe'[r][i].line \in {g + i, ErrorLine}
      <4>1. CASE l.line = ErrorLine
        BY <3>1, <4>1
      <4>2. CASE l.line # ErrorLine
        <5>1. ASSUME NEW i \in DOMAIN pipe'[r] PROVE pipe'[r][i].line \in {g + i, ErrorLine}
          <6>1. /\ i + 1 \in DOMAIN pipe[r] /\ pipe'[r][i] = pipe[r][i + 1] /\ i \in Nat
                /\ h + (i + 1) = g + i
            <7>1. /\ DOMAIN pipe'[r] = 1..(Len(pipe[r]) - 1) /\ DOMAIN pipe[r] = 1..Len(pipe[r])
                  /\ Len(pipe[r]) \in Nat /\ g = h + 1
                  /\ \A k \in 1..(Len(pipe[r]) - 1) : pipe'[r][k] = pipe[r][k + 1]
              BY <1>3, <3>1, <4>2
            <7>2. i \in 1..(Len(pipe[r]) - 1)
              BY <5>1, <7>1
            <7>3. i \in Nat /\ i + 1 \in 1..Len(pipe[r])
              BY <7>1, <7>2
            <7>4. h + (i + 1) = g + i
              BY <7>1, <7>3
            <7> QED BY <7>1, <7>2, <7>3, <7>4
          <6> QED BY <2>3, <6>1 DEF Follows
        <5> QED BY <5>1
      <4> QED BY <4>1, <4>2
    <3>5. Alive(r)' => child'[r].printed = g + Len(pipe'[r])
      <4>1. Alive(r) => child[r].printed = h + Len(pipe[r]) /\ g = h + 1
        BY <2>3, <2>4, <3>1 DEF Follows
      <4> QED BY <1>3, <2>3, <3>1, <4>1
    <3> QED BY <3>2, <3>3, <3>4, <3>5 DEF Follows
  <2>8. PipeFollows'
    <3>1. ASSUME NEW s \in Run, worker'[s] \in Active, s \notin cancelled'
          PROVE  /\ worker'[s] = "start" => progress' = <<>>
                 /\ worker'[s] \in {"start", "local", "localDrain", "fallback"} =>
                      \A i \in DOMAIN progress' : progress'[i].kind # "docker"
                 /\ scanner'[s] \in {"reading", "sending"} => \E k \in Nat : Follows(s, k)'
      <4>1. s = r /\ worker'[s] = worker[r]
        BY <1>1, <1>2, <3>1
      <4>2. worker[r] \in {"local", "localDrain"} => l.kind = "local"
        BY <1>4 DEF LoopIInv, KindOfWorker
      <4>3. worker[r] \in {"local", "localDrain"} =>
              \A i \in DOMAIN progress' : progress'[i].kind # "docker"
        BY <2>1, <2>2, <2>5, <4>2
      <4>4. worker'[s] \in {"local", "docker", "localDrain", "dockerDrain"}
        BY <1>2, <4>1
      <4>5. \E k \in Nat : Follows(s, k)'
        BY <2>7, <4>1
      <4> QED BY <4>1, <4>3, <4>4, <4>5
    <3> QED BY <3>1 DEF PipeFollows
  <2>9. ProgressHasNoGap'
    <3> DEFINE of(kind) == {i \in DOMAIN progress : progress[i].kind = kind /\ progress[i].line # ErrorLine}
    <3>1. \A kind \in {"local", "docker"} : \A i \in of(kind)' :
            /\ progress'[i].line > 1 =>
                 \E j \in of(kind)' : j < i /\ progress'[j].line = progress'[i].line - 1
            /\ \A j \in of(kind)' : j < i => progress'[j].line < progress'[i].line
      <4>1. ASSUME NEW kind \in {"local", "docker"}, NEW i \in of(kind)', i # n + 1
            PROVE  /\ progress'[i].line > 1 =>
                        \E j \in of(kind)' : j < i /\ progress'[j].line = progress'[i].line - 1
                   /\ \A j \in of(kind)' : j < i => progress'[j].line < progress'[i].line
        <5>1. i \in of(kind) /\ i \in 1..n /\ progress'[i] = progress[i]
          BY <2>1, <2>2, <4>1
        <5>2. \A j \in 1..n : j \in of(kind) <=> j \in of(kind)'
          BY <2>1, <2>2
        <5>3. /\ progress[i].line > 1 =>
                   \E j \in of(kind) : j < i /\ progress[j].line = progress[i].line - 1
              /\ \A j \in of(kind) : j < i => progress[j].line < progress[i].line
          BY <5>1 DEF GapIInv, ProgressHasNoGap
        <5>4. of(kind) \subseteq 1..n /\ of(kind)' \subseteq 1..(n + 1)
          BY <2>2
        <5> HIDE DEF of
        <5> QED BY <2>1, <2>2, <5>1, <5>2, <5>3, <5>4
      <4>2. ASSUME NEW kind \in {"local", "docker"}, n + 1 \in of(kind)'
            PROVE  /\ progress'[n + 1].line > 1 =>
                        \E j \in of(kind)' : j < n + 1 /\ progress'[j].line = progress'[n + 1].line - 1
                   /\ \A j \in of(kind)' : j < n + 1 => progress'[j].line < progress'[n + 1].line
        <5>1. progress'[n + 1] = l /\ kind = child[r].kind /\ l.line = h + 1
          BY <1>4, <2>2, <2>4, <4>2
        <5>2. ASSUME h > 0
              PROVE  \E j \in of(kind)' : j < n + 1 /\ progress'[j].line = h
          <6>1. PICK j \in DOMAIN progress : progress[j].kind = kind /\ progress[j].line = h
            BY <2>3, <5>1, <5>2 DEF Follows
          <6>2. j \in 1..n /\ progress'[j] = progress[j] /\ h # ErrorLine
            BY <2>2, <5>2, <6>1 DEF ErrorLine
          <6> QED BY <2>1, <2>2, <6>1, <6>2
        <5>3. ASSUME NEW j \in of(kind)', j < n + 1 PROVE progress'[j].line < h + 1
          <6>1. j \in 1..n /\ progress'[j] = progress[j] /\ progress[j].kind = kind
            BY <2>1, <2>2, <5>3
          <6>2. progress[j].line \in Nat
            <7>1. progress[j] \in LineType
              BY <1>1, <2>2, <6>1
            <7> QED BY <7>1 DEF LineType
          <6> QED BY <2>2, <2>3, <5>1, <6>1, <6>2 DEF Follows
        <5> HIDE DEF of
        <5> QED BY <5>1, <5>2, <5>3
      <4> QED BY <4>1, <4>2
    <3>2. \A i, j \in DOMAIN progress' :
            i < j => ~(progress'[i].kind = "docker" /\ progress'[j].kind = "local")
      BY <2>1, <2>2, <2>5 DEF GapIInv, ProgressHasNoGap
    <3>3. \A i \in DOMAIN progress' : \A s \in Run : s > progress'[i].run => worker'[s] = "new"
      <4>1. \A s \in Run : s > r => worker'[s] = "new"
        BY <1>1, <1>2 DEF GapIInv, StartOrder
      <4>2. \A i \in DOMAIN progress : \A s \in Run : s > progress[i].run => worker'[s] = "new"
        BY <1>1, <1>2 DEF GapIInv, ProgressHasNoGap
      <4> QED BY <1>4, <2>1, <2>2, <4>1, <4>2
    <3> QED BY <3>1, <3>2, <3>3 DEF ProgressHasNoGap
  <2> QED BY <1>5, <1>6, <1>7, <2>8, <2>9 DEF GapIInv
<1> QED BY <1>8, <1>9

\* What else the loop does: it empties the trace when a run starts and when a
\* cancelled one is left.
LEMMA LoopKeepsGap ==
  ASSUME LoopIInv, GapIInv,
         \/ \E r \in Run : StartRun(r) \/ StartUnselected(r) \/ ReceiveEnd(r) \/ ReceiveClosed(r)
         \/ Navigate \/ PressB \/ Tick \/ Return
  PROVE  GapIInv'
<1>1. /\ worker \in [Run -> Places] /\ pipe' = pipe /\ child' = child /\ scanner' = scanner
      /\ LineTypes /\ StartOrder /\ PipeLines /\ PipeFollows /\ ProgressHasNoGap
      /\ \A s \in Run : scanner[s] = "sending" => pipe[s] # <<>>
  BY DEF LoopIInv, TuiTypes, GapIInv, PipeLines, StartRun, StartUnselected, ReceiveEnd,
     ReceiveClosed, Navigate, PressB, Tick, Return
<1>2. PipeLines'
  BY <1>1 DEF PipeLines, Alive
<1>3. ASSUME NEW r \in Run, StartRun(r) PROVE GapIInv'
  <2>1. /\ progress' = <<>> /\ updates' = r /\ worker' = [worker EXCEPT ![r] = "start"]
        /\ ~running /\ NextRun(r)
    BY <1>3 DEF StartRun, Goto
  <2>2. /\ worker'[r] = "start" /\ \A s \in Run : s # r => worker'[s] = worker[s]
        /\ \A s \in Run : worker'[s] \in Active => s = r
    BY <1>1, <2>1 DEF LoopIInv, UnderTheLoop
  <2>3. LineTypes' /\ ProgressHasNoGap'
    BY <1>1, <2>1 DEF LineTypes, ProgressHasNoGap
  <2>4. /\ \A s \in Run : s < r => worker[s] # "new"
        /\ \A s \in Run : s > r => worker[s] = "new"
    <3>1. \A s \in Run : s < r => s \in 1..(r - 1)
      BY TuiBounds DEF Run
    <3> QED BY <1>1, <2>1, <3>1 DEF NextRun, StartOrder
  <2>5. StartOrder'
    <3>1. ASSUME NEW a \in Run, NEW b \in Run, a < b, worker'[a] = "new" PROVE worker'[b] = "new"
      <4>1. a # r /\ worker[a] = "new"
        BY <2>2, <3>1
      <4>2. a > r
        BY <2>4, <4>1, TuiBounds DEF Run
      <4>3. b > r
        BY <3>1, <4>2, TuiBounds DEF Run
      <4> QED BY <2>2, <2>4, <4>3, TuiBounds DEF Run
    <3>2. \A s \in Run : s > r => worker'[s] = "new"
      BY <2>2, <2>4, TuiBounds DEF Run
    <3> QED BY <2>1, <3>1, <3>2 DEF StartOrder
  <2>6. scanner'[r] \notin {"reading", "sending"}
    BY <1>1, <2>1 DEF LoopIInv, UnderTheLoop, NextRun
  <2>7. PipeFollows'
    BY <2>1, <2>2, <2>6 DEF PipeFollows
  <2> QED BY <1>2, <2>3, <2>5, <2>7 DEF GapIInv
<1>4. ASSUME NEW r \in Run, StartUnselected(r) PROVE GapIInv'
  <2>1. /\ progress' = progress /\ updates' = r /\ worker' = [worker EXCEPT ![r] = "fails"]
        /\ ~running /\ ~running' /\ NextRun(r)
    BY <1>4 DEF StartUnselected, Goto
  <2>2. /\ worker'[r] = "fails" /\ \A s \in Run : s # r => worker'[s] = worker[s]
        /\ \A s \in Run : worker'[s] \notin Active
    BY <1>1, <2>1 DEF LoopIInv, UnderTheLoop, Active
  <2>3. LineTypes' /\ ProgressHasNoGap' /\ PipeFollows'
    BY <1>1, <2>1, <2>2 DEF LineTypes, ProgressHasNoGap, PipeFollows
  <2>4. StartOrder'
    <3>1. \A s \in Run : s < r => s \in 1..(r - 1)
      BY TuiBounds DEF Run
    <3>2. \A s \in Run : s < r => worker[s] # "new"
      BY <2>1, <3>1 DEF NextRun
    <3>3. ASSUME NEW a \in Run, NEW b \in Run, a < b, worker'[a] = "new" PROVE worker'[b] = "new"
      <4>1. a # r /\ worker[a] = "new"
        BY <2>2, <3>3
      <4>2. b # r
        BY <3>2, <3>3, <4>1
      <4> QED BY <1>1, <2>2, <3>3, <4>1, <4>2 DEF StartOrder
    <3> QED BY <2>1, <3>3 DEF StartOrder
  <2> QED BY <1>2, <2>3, <2>4 DEF GapIInv
<1>5. ASSUME NEW r \in Run, ReceiveEnd(r) PROVE GapIInv'
  <2>1. /\ UNCHANGED <<progress, updates, cancelled>> /\ worker[r] \in {"succeeds", "fails"}
        /\ worker' = [worker EXCEPT ![r] = "closing"] /\ (running' => running)
    BY <1>5 DEF ReceiveEnd, Goto, ReceiveDropped, ReceiveResult, ReceiveError
  <2>2. scanner[r] \notin {"reading", "sending"}
    BY <2>1 DEF LoopIInv, UnderTheLoop
  <2>3. worker' \in [Run -> Places] /\ \A s \in Run : s # r => worker'[s] = worker[s]
        /\ worker'[r] = "closing"
    BY <1>1, <2>1 DEF Places, Ended
  <2>4. /\ \A s \in Run : worker'[s] = "new" <=> worker[s] = "new"
        /\ \A s \in Run : worker'[s] # worker[s] => worker'[s] \notin Active \cup {"new", "start"}
        /\ \A s \in Run : scanner'[s] \in {"reading", "sending"} =>
             scanner[s] \in {"reading", "sending"} /\ worker'[s] = worker[s]
        /\ \A s \in Run : scanner'[s] = "sending" => pipe[s] # <<>>
    BY <1>1, <2>1, <2>2, <2>3 DEF Active
  <2> QED BY <1>1, <2>1, <2>3, <2>4, QuietKeepsGap
<1>6. CASE Navigate \/ PressB \/ Tick \/ \E r \in Run : ReceiveClosed(r)
  <2>1. /\ UNCHANGED <<progress, worker>> /\ updates' \in {updates, NoRun}
        /\ cancelled \subseteq cancelled' /\ (running' => running)
    BY <1>6 DEF Navigate, PressB, Tick, ReceiveClosed
  <2> QED BY <1>1, <2>1, QuietKeepsGap
<1>7. CASE Return
  <2>1. progress' = <<>> /\ ~running' /\ worker' = worker /\ updates' = updates /\ finished
    BY <1>7 DEF Return, ReadyToExit
  <2>2. \A s \in Run : worker'[s] \notin Active
    BY <2>1 DEF LoopIInv, UnderTheLoop
  <2>3. LineTypes' /\ ProgressHasNoGap' /\ PipeFollows' /\ StartOrder'
    BY <1>1, <2>1, <2>2 DEF LineTypes, ProgressHasNoGap, PipeFollows, StartOrder
  <2> QED BY <1>2, <2>3 DEF GapIInv
<1> QED BY <1>3, <1>4, <1>5, <1>6, <1>7

LEMMA GapKept ==
  ASSUME LoopIInv, GapIInv, [Next]_vars
  PROVE  GapIInv'
<1>1. CASE UNCHANGED vars
  <2>1. LineTypes' /\ StartOrder'
    BY <1>1 DEF vars, loop, GapIInv, LineTypes, StartOrder, Active
  <2>2. PipeLines'
    BY <1>1 DEF vars, loop, GapIInv, PipeLines, Alive
  <2>3. PipeFollows'
    <3>1. UNCHANGED <<progress, pipe, child, worker, scanner, cancelled>>
      BY <1>1 DEF vars, loop
    <3>2. \A r \in Run : \A h \in Nat : Follows(r, h) => Follows(r, h)'
      BY <3>1 DEF Follows, Alive
    <3>3. QED
      BY <3>1, <3>2 DEF GapIInv, PipeFollows
  <2>4. ProgressHasNoGap'
    BY <1>1 DEF vars, loop, GapIInv, ProgressHasNoGap
  <2>5. QED
    BY <2>1, <2>2, <2>3, <2>4 DEF GapIInv
<1>2. CASE Next
  BY <1>2, ChildKeepsGap, EngineKeepsGap, ScannerKeepsGap, WorkerKeepsGap, LineReceived, LoopKeepsGap
     DEF Next, Receive
<1> QED BY <1>1, <1>2

\* The trace on the screen is what the children printed, line by line, for any
\* number of lines and any size of the pipe: a line can only be lost once the
\* evaluation is cancelled, and then nothing is appended any more.
THEOREM TraceHasNoGap == Spec => []ProgressHasNoGap
<1>1. GapIInv => ProgressHasNoGap
  BY DEF GapIInv
<1>2. LoopIInv /\ [Next]_vars => LoopIInv'
  BY LoopKept
<1>3. LoopIInv /\ GapIInv /\ [Next]_vars => GapIInv'
  BY GapKept
<1> QED BY <1>1, <1>2, <1>3, LoopStarts, GapStarts, PTL DEF Spec

------------------------------------------------------------------------------
(* The screen                                                               *)

ScreenTypes ==
  /\ screen \in Screen /\ notice \in 0..Notice /\ detail \in Run \cup {NoRun}
  /\ \A r \in Run : Len(pipe[r]) <= PipeSize

ScreenIInv == TuiIInv /\ GapIInv /\ ScreenTypes

\* A set of natural numbers with a bound has a greatest member.
LEMMA GreatestNatural ==
  ASSUME NEW n \in Nat, NEW S \in SUBSET (1..n), NEW x \in S
  PROVE  \E m \in S : \A k \in S : k <= m
<1> DEFINE T == {n - k : k \in S}
           R == OpToRel(<, Nat)
<1>1. IsWellFoundedOn(R, Nat)
  BY NatLessThanWellFounded
<1>2. \A i, j \in Nat : i < j => <<i, j>> \in R
  BY DEF OpToRel
<1> HIDE DEF R
<1>3. T \in SUBSET Nat /\ n - x \in T
  OBVIOUS
<1>4. PICK t \in T : \A i \in T : ~(<<i, t>> \in R)
  BY <1>1, <1>3, WFMin
<1>5. PICK m \in S : t = n - m
  OBVIOUS
<1>6. ASSUME NEW k \in S PROVE k <= m
  <2>1. n - k \in T /\ n - k \in Nat /\ t \in Nat
    BY <1>3
  <2>2. ~(n - k < t)
    BY <1>2, <1>4, <2>1
  <2> QED BY <1>5, <2>1, <2>2
<1> QED BY <1>6

\* The newest row is one of an evaluation or of another client.
LEMMA NewestIsRun ==
  ASSUME LoopIInv, ScreenTypes
  PROVE  Newest \in Run \cup {NoRun}
<1> DEFINE done == {i \in DOMAIN rows : rows[i].committed}
           last(i) == i \in done /\ \A j \in done : j <= i
<1>1. rows \in Seq(RowType) /\ Len(rows) \in Nat /\ DOMAIN rows = 1..Len(rows)
  BY DEF LoopIInv, TuiTypes
<1>2. CASE done = {}
  BY <1>2 DEF Newest, ScreenTypes
<1>3. CASE done # {}
  <2>1. PICK x : x \in done
    BY <1>3
  <2>2. done \in SUBSET (1..Len(rows))
    BY <1>1
  <2> HIDE DEF done
  <2>3. \E m \in done : \A k \in done : k <= m
    BY <1>1, <2>1, <2>2, GreatestNatural
  <2>4. (CHOOSE i \in done : \A j \in done : j <= i) \in done
    BY <2>3
  <2>5. PICK m \in done : m = CHOOSE i \in done : \A j \in done : j <= i
    BY <2>4
  <2>6. rows[m].run \in Run \cup {NoRun}
    <3>1. rows[m] \in RowType
      BY <1>1, <2>2
    <3> QED BY <3>1 DEF RowType
  <2>7. Newest = rows[m].run
    BY <1>3, <2>5 DEF Newest, done
  <2> QED BY <2>6, <2>7
<1> QED BY <1>2, <1>3

LEMMA ScreenKept ==
  ASSUME LoopIInv, GapIInv, ScreenTypes, Next
  PROVE  ScreenTypes'
<1>1. /\ pipe \in [Run -> Seq(LineType)] /\ Notice \in Nat /\ PipeSize \in Nat
      /\ \A r \in Run : pipe[r] \in Seq(LineType) /\ Len(pipe[r]) \in Nat
  BY TuiBounds DEF GapIInv, LineTypes
<1>2. \A r \in Run : Len(pipe'[r]) <= PipeSize
  <2>1. CASE pipe' = pipe
    BY <2>1 DEF ScreenTypes
  <2>2. ASSUME NEW r \in Run, NEW q, q \in Seq(LineType), Len(q) <= PipeSize,
               pipe' = [pipe EXCEPT ![r] = q]
        PROVE  \A s \in Run : Len(pipe'[s]) <= PipeSize
    BY <1>1, <2>2 DEF ScreenTypes
  <2>3. ASSUME NEW r \in Run, PrintProgress(r) \/ Fail(r)
        PROVE  \A s \in Run : Len(pipe'[s]) <= PipeSize
    <3>1. PICK l : pipe' = [pipe EXCEPT ![r] = Append(pipe[r], l)] /\ Len(pipe[r]) < PipeSize
      BY <2>3 DEF PrintProgress, Fail, Write
    <3>2. Len(Append(pipe[r], l)) = Len(pipe[r]) + 1
      BY <1>1
    <3>3. Len(pipe'[r]) <= PipeSize
      BY <1>1, <3>1, <3>2
    <3> QED BY <1>1, <3>1, <3>3 DEF ScreenTypes
  <2>4. ASSUME NEW r \in Run, StartLocal(r) \/ StartDocker(r)
        PROVE  \A s \in Run : Len(pipe'[s]) <= PipeSize
    <3>1. pipe' = [pipe EXCEPT ![r] = <<>>]
      BY <2>4 DEF StartLocal, StartDocker, Spawn
    <3>2. <<>> \in Seq(LineType) /\ Len(<<>>) <= PipeSize
      BY <1>1
    <3> QED BY <2>2, <3>1, <3>2
  <2>5. ASSUME NEW r \in Run, DropLine(r) \/ ReceiveProgress(r)
        PROVE  \A s \in Run : Len(pipe'[s]) <= PipeSize
    <3>1. pipe' = [pipe EXCEPT ![r] = Tail(pipe[r])] /\ pipe[r] # <<>>
      BY <2>5 DEF DropLine, ReceiveProgress, GapIInv, PipeLines
    <3>2. Tail(pipe[r]) \in Seq(LineType) /\ Len(Tail(pipe[r])) = Len(pipe[r]) - 1
      BY <1>1, <3>1
    <3>3. Len(Tail(pipe[r])) <= PipeSize
      BY <1>1, <3>2 DEF ScreenTypes
    <3> QED BY <2>2, <3>1, <3>2, <3>3
  <2>6. ASSUME NEW r \in Run, Wait(r)
        PROVE  \A s \in Run : Len(pipe'[s]) <= PipeSize
    <3>1. PICK kept \in 0..Len(pipe[r]) : pipe' = [pipe EXCEPT ![r] = SubSeq(pipe[r], 1, kept)]
      <4>1. PICK kept \in (IF scanner[r] = "sending" THEN 1 ELSE 0)..Len(pipe[r]) :
              pipe' = [pipe EXCEPT ![r] = SubSeq(pipe[r], 1, kept)]
        BY <2>6 DEF Wait
      <4>2. kept \in 0..Len(pipe[r])
        BY <1>1, <4>1
      <4> QED BY <4>1, <4>2
    <3>2. SubSeq(pipe[r], 1, kept) \in Seq(LineType) /\ Len(SubSeq(pipe[r], 1, kept)) = kept
      BY <1>1, <3>1, CutPipe
    <3>3. Len(SubSeq(pipe[r], 1, kept)) <= PipeSize
      BY <1>1, <3>1, <3>2 DEF ScreenTypes
    <3> QED BY <2>2, <3>1, <3>2, <3>3
  <2> QED
    BY <2>1, <2>3, <2>4, <2>5, <2>6
    DEF Next, Child, CreateRow, CommitRow, Exit, Kill, Engine, EngineCreates,
        EngineCommits, EngineFails, Scanner, ScanLine, ScanEnd, Worker,
        LocalUnavailable, DockerUnavailable, Drain, Close, StartRun, StartUnselected,
        Receive, ReceiveEnd, ReceiveClosed, Navigate, PressB, Tick, Return
<1>3. screen' \in Screen /\ notice' \in 0..Notice
  <2>1. screen \in Screen /\ notice \in 0..Notice
    BY DEF ScreenTypes
  <2>2. screen' \in Screen
    BY <2>1, ZenonT(90)
    DEF Screen, Next, Child, CreateRow, PrintProgress, CommitRow, Exit, Fail, Kill, Engine,
        EngineCreates, EngineCommits, EngineFails, Scanner, ScanLine, DropLine, ScanEnd, Worker, StartLocal, LocalUnavailable, StartDocker,
        DockerUnavailable, Wait, Drain, Close, StartRun, StartUnselected, Receive,
        ReceiveProgress, ReceiveEnd, ReceiveDropped, ReceiveResult, ReceiveError,
        ReceiveClosed, Navigate, PressB, Tick, Return, loop
  <2>3. \/ notice' = notice \/ notice' = 0 \/ notice' = Notice
        \/ notice > 0 /\ notice' = notice - 1
    BY DEF Next, Child, CreateRow, PrintProgress, CommitRow, Exit, Fail, Kill, Engine,
        EngineCreates, EngineCommits, EngineFails, Scanner, ScanLine, DropLine, ScanEnd, Worker, StartLocal, LocalUnavailable, StartDocker,
        DockerUnavailable, Wait, Drain, Close, StartRun, StartUnselected, Receive,
        ReceiveProgress, ReceiveEnd, ReceiveClosed, Navigate, PressB, Tick, Return, loop,
        ClearCancellation
  <2>4. notice' \in 0..Notice
    BY <1>1, <2>1, <2>3
  <2> QED BY <2>2, <2>4
<1>4. detail' \in Run \cup {NoRun}
  <2>1. detail' \in {detail, NoRun, Newest}
    BY DEF Next, Child, CreateRow, PrintProgress, CommitRow, Exit, Fail, Kill, Engine,
        EngineCreates, EngineCommits, EngineFails, Scanner, ScanLine, DropLine, ScanEnd, Worker,
        StartLocal, LocalUnavailable, StartDocker, DockerUnavailable, Wait, Drain, Close,
        StartRun, StartUnselected, Receive, ReceiveProgress, ReceiveEnd, ReceiveDropped,
        ReceiveResult, ReceiveError, ReceiveClosed, Navigate, PressB, Tick, Return, loop
  <2>2. Newest \in Run \cup {NoRun}
    BY NewestIsRun
  <2> QED BY <2>1, <2>2 DEF ScreenTypes
<1> QED BY <1>2, <1>3, <1>4 DEF ScreenTypes

LEMMA ScreenInvariance == Spec => []ScreenIInv
<1>1. Init => ScreenTypes
  BY TuiBounds DEF Init, ScreenTypes, Screen
<1>2. Init => ScreenIInv
  BY <1>1, LoopStarts, RowsStart, GapStarts DEF ScreenIInv, TuiIInv
<1>3. ScreenIInv /\ [Next]_vars => ScreenIInv'
  <2> SUFFICES ASSUME ScreenIInv, [Next]_vars PROVE ScreenIInv'
    OBVIOUS
  <2>1. TuiIInv'
    BY TuiKept DEF ScreenIInv
  <2>2. GapIInv'
    BY GapKept DEF ScreenIInv, TuiIInv
  <2>3. ScreenTypes'
    <3>1. CASE UNCHANGED vars
      BY <3>1 DEF vars, loop, ScreenIInv, ScreenTypes
    <3>2. CASE Next
      BY <3>2, ScreenKept DEF ScreenIInv, TuiIInv
    <3> QED BY <3>1, <3>2
  <2> QED BY <2>1, <2>2, <2>3 DEF ScreenIInv
<1> QED BY <1>2, <1>3, PTL DEF Spec

\* The screens and counters of the loop, and the pipes: a cancellation exists only
\* while an evaluation runs, and a child's stderr never holds more than a pipe does.
THEOREM TuiTypesHold == Spec => []TuiTypeOK
<1>1. ScreenIInv => TuiTypeOK
  BY DEF ScreenIInv, TuiIInv, LoopIInv, TuiTypes, LoopListens, ScreenTypes, TuiTypeOK
<1> QED BY <1>1, ScreenInvariance, PTL

------------------------------------------------------------------------------
(* The run on the detail screen                                             *)

NothingLeft == \A r \in Run : left[r] = "none"

\* Without another client and without an engine left behind the rows are those of the
\* evaluations, in their order, and the row a child works on is its evaluation's last.
RowOrder ==
  /\ \A i \in DOMAIN rows : rows[i].run \in Run /\ worker[rows[i].run] # "new"
  /\ \A i, j \in DOMAIN rows : i < j => rows[i].run <= rows[j].run
  /\ \A r \in Run : HasRow(r) =>
       \A i \in DOMAIN rows : rows[i].run = r => i <= child[r].row

AloneIInv == ScreenIInv /\ RowOrder /\ NothingLeft

\* A worker that was started stays started.
LEMMA StartedStays ==
  ASSUME LoopIInv, Next, NEW r \in Run, worker[r] # "new"
  PROVE  worker'[r] # "new"
<1>1. worker \in [Run -> Places]
  BY DEF LoopIInv, TuiTypes
<1>2. \/ worker' = worker
      \/ \E s \in Run : \E place \in Places \ {"new"} : worker' = [worker EXCEPT ![s] = place]
  <2>1. ASSUME NEW s \in Run, Worker(s)
        PROVE  \E place \in Places \ {"new"} : worker' = [worker EXCEPT ![s] = place]
    BY <2>1 DEF Worker, StartLocal, LocalUnavailable, StartDocker, DockerUnavailable, Wait, Drain,
       TakeAnswer, GiveUpChild, Close, Goto, Places, Active, Ended
  <2>2. ASSUME NEW s \in Run, StartRun(s) \/ StartUnselected(s) \/ ReceiveEnd(s)
        PROVE  \E place \in Places \ {"new"} : worker' = [worker EXCEPT ![s] = place]
    BY <2>2 DEF StartRun, StartUnselected, ReceiveEnd, Goto, Places, Active, Ended
  <2> QED
    BY <2>1, <2>2
    DEF Next, Child, CreateRow, PrintProgress, CommitRow, Exit, Fail, Kill, Engine,
        EngineCreates, EngineCommits, EngineFails, Scanner, ScanLine, DropLine, ScanEnd,
        Receive, ReceiveProgress, ReceiveClosed, Navigate, PressB, Tick, Return
<1> QED BY <1>1, <1>2

LEMMA RowOrderKept ==
  ASSUME LoopIInv, StartOrder, RowOrder, NothingLeft, Next, UNCHANGED left
  PROVE  RowOrder'
<1>1. /\ rows \in Seq(RowType) /\ Len(rows) \in Nat /\ DOMAIN rows = 1..Len(rows)
      /\ child \in [Run -> ChildType]
      /\ \A r \in Run : HasRow(r) => child[r].row \in 1..Len(rows)
  BY DEF LoopIInv, TuiTypes
<1>2. \A r \in Run : worker[r] # "new" => worker'[r] # "new"
  BY StartedStays
<1>3. ASSUME DOMAIN rows' = DOMAIN rows, \A i \in DOMAIN rows : rows'[i].run = rows[i].run,
             \A r \in Run : HasRow(r)' => HasRow(r) /\ child'[r].row = child[r].row
      PROVE  RowOrder'
  BY <1>2, <1>3 DEF RowOrder
<1>4. ASSUME NEW r \in Run, CreateRow(r)
      PROVE  RowOrder'
  <2> DEFINE new == [run |-> r, kind |-> child[r].kind, committed |-> FALSE, answered |-> FALSE]
  <2>1. new \in RowType /\ new.run = r /\ rows' = Append(rows, new)
    <3>1. child[r].kind \in {"none", "local", "docker"}
      BY <1>1 DEF ChildType
    <3> QED BY <1>4, <3>1 DEF RowType, CreateRow, AddRow
  <2> HIDE DEF new
  <2>2. /\ DOMAIN rows' = 1..(Len(rows) + 1) /\ Len(rows') = Len(rows) + 1
        /\ \A i \in DOMAIN rows : rows'[i] = rows[i]
        /\ rows'[Len(rows) + 1].run = r
    BY <1>1, <2>1, RowAdded
  <2>3. /\ child'[r].row = Len(rows) + 1
        /\ \A s \in Run : s # r => child'[s] = child[s]
    BY <1>1, <1>4, <2>2 DEF CreateRow, ChildType
  <2>4. running /\ updates = r /\ worker[r] # "new"
    BY <1>4 DEF CreateRow, Alive, LoopIInv, UnderTheLoop, Active
  <2>5. \A i \in DOMAIN rows : rows[i].run \in Run /\ rows[i].run <= r
    <3>1. \A i \in DOMAIN rows : rows[i].run \in Run /\ ~(rows[i].run > r)
      BY <2>4 DEF RowOrder, StartOrder
    <3> QED BY <3>1, TuiBounds DEF Run
  <2>6. \A i \in DOMAIN rows' : rows'[i].run \in Run /\ worker'[rows'[i].run] # "new"
    <3>1. \A i \in DOMAIN rows' : i \in DOMAIN rows \/ i = Len(rows) + 1
      BY <1>1, <2>2
    <3> QED BY <3>1, <2>2, <2>4, <1>2 DEF RowOrder
  <2>7. \A i, j \in DOMAIN rows' : i < j => rows'[i].run <= rows'[j].run
    <3>1. \A i, j \in DOMAIN rows' : i < j => i \in DOMAIN rows
                                     /\ (j \in DOMAIN rows \/ j = Len(rows) + 1)
      BY <1>1, <2>2
    <3> QED BY <3>1, <2>2, <2>5 DEF RowOrder
  <2>8. \A s \in Run : HasRow(s)' =>
          \A i \in DOMAIN rows' : rows'[i].run = s => i <= child'[s].row
    <3>1. \A i \in DOMAIN rows' : i <= Len(rows) + 1
      BY <1>1, <2>2
    <3>2. \A i \in DOMAIN rows' : rows'[i].run # r => i \in DOMAIN rows
      BY <1>1, <2>2
    <3>3. \A s \in Run : s # r /\ HasRow(s)' => HasRow(s)
      BY <2>3 DEF HasRow, NothingLeft
    <3> QED BY <3>1, <3>2, <3>3, <2>2, <2>3 DEF RowOrder
  <2> QED BY <2>6, <2>7, <2>8 DEF RowOrder
<1>5. ASSUME NEW r \in Run, Child(r), ~CreateRow(r)
      PROVE  RowOrder'
  <2>1. \A s \in Run : HasRow(s)' => HasRow(s) /\ child'[s].row = child[s].row
    <3>1. \A s \in Run : s # r => child'[s] = child[s]
      BY <1>1, <1>5 DEF Child, PrintProgress, CommitRow, Exit, Fail, Kill
    <3>2. HasRow(r)' => HasRow(r) /\ child'[r].row = child[r].row
      <4>1. CASE PrintProgress(r)
        BY <1>1, <4>1 DEF PrintProgress, HasRow, ChildType
      <4>2. CASE CommitRow(r)
        BY <1>1, <4>2 DEF CommitRow, HasRow, ChildType
      <4>3. CASE Exit(r)
        BY <1>1, <4>3 DEF Exit, HasRow, ChildType
      <4>4. CASE Fail(r) \/ Kill(r)
        BY <1>1, <4>4 DEF Fail, Kill, HasRow, NothingLeft, ChildType
      <4> QED BY <1>5, <4>1, <4>2, <4>3, <4>4 DEF Child
    <3> QED BY <3>1, <3>2 DEF HasRow
  <2>2. CASE CommitRow(r)
    <3> DEFINE n == child[r].row
    <3>1. n \in 1..Len(rows) /\ rows' = [rows EXCEPT ![n].committed = TRUE]
      BY <1>1, <2>2 DEF CommitRow, StoreRow, HasRow
    <3> HIDE DEF n
    <3>2. DOMAIN rows' = DOMAIN rows /\ \A i \in DOMAIN rows : rows'[i].run = rows[i].run
      BY <1>1, <3>1, RowStored DEF OneRow
    <3> QED BY <1>3, <2>1, <3>2
  <2>3. CASE PrintProgress(r) \/ Exit(r) \/ Fail(r) \/ Kill(r)
    BY <1>3, <2>1, <2>3 DEF PrintProgress, Exit, Fail, Kill
  <2> QED BY <1>5, <2>2, <2>3 DEF Child
<1>6. ASSUME NEW r \in Run, StartLocal(r) \/ StartDocker(r)
      PROVE  RowOrder'
  <2>1. rows' = rows /\ child' = [child EXCEPT ![r] = child'[r]] /\ child'[r].state = "started"
    BY <1>1, <1>6 DEF StartLocal, StartDocker, Spawn, NoChild
  <2>2. \A s \in Run : HasRow(s)' => HasRow(s) /\ child'[s].row = child[s].row
    BY <1>1, <2>1 DEF HasRow, NothingLeft
  <2> QED BY <1>3, <2>1, <2>2
<1>7. ASSUME rows' = rows, child' = child
      PROVE  RowOrder'
  BY <1>3, <1>7 DEF HasRow
<1>8. ASSUME NEW r \in Run, Drain(r)
      PROVE  RowOrder'
  <2>1. CASE GiveUpChild(r)
    BY <1>7, <1>8, <2>1 DEF Drain, GiveUpChild
  <2>2. CASE TakeAnswer(r)
    <3> DEFINE n == child[r].row
    <3>1. n \in 1..Len(rows) /\ rows' = [rows EXCEPT ![n].answered = TRUE] /\ child' = child
      BY <1>1, <1>8, <2>2 DEF Drain, TakeAnswer, Succeeded, HasRow
    <3> HIDE DEF n
    <3>2. DOMAIN rows' = DOMAIN rows /\ \A i \in DOMAIN rows : rows'[i].run = rows[i].run
      BY <1>1, <3>1, RowAnswered DEF OneRow
    <3> QED BY <1>3, <3>1, <3>2 DEF HasRow
  <2> QED BY <1>8, <2>1, <2>2 DEF Drain
<1>9. \A r \in Run : ~Engine(r)
  BY DEF Engine, EngineCreates, EngineCommits, EngineFails, NothingLeft
<1> QED
  BY <1>4, <1>5, <1>6, <1>7, <1>8, <1>9
  DEF Next, Scanner, ScanLine, DropLine, ScanEnd, Worker, LocalUnavailable,
      DockerUnavailable, Wait, Close, StartRun, StartUnselected,
      Receive, ReceiveProgress, ReceiveEnd, ReceiveClosed, Navigate, PressB, Tick, Return

\* What the detail screen is given after a result is the newest row, which without
\* another client is the evaluation's own.
LEMMA NewestIsOwn ==
  ASSUME LoopIInv, RowsIInv, StartOrder, RowOrder, NEW r \in Run,
         running, updates = r, worker[r] = "succeeds"
  PROVE  Newest = r
<1> DEFINE done == {i \in DOMAIN rows : rows[i].committed}
           n == child[r].row
<1>1. child[r].state = "exited" /\ n \in DOMAIN rows /\ n \in done /\ rows[n].run = r
  BY DEF LoopIInv, TuiTypes, RowsIInv, RowsTell, HasRow
<1>2. DOMAIN rows \subseteq Nat
  BY DEF LoopIInv, TuiTypes
<1>3. \A i \in DOMAIN rows : i <= n
  <2> SUFFICES ASSUME NEW i \in DOMAIN rows, ~(i <= n)
               PROVE  FALSE
    OBVIOUS
  <2>1. n < i
    BY <1>1, <1>2
  <2>2. r <= rows[i].run /\ rows[i].run \in Run /\ ~(rows[i].run > r)
    BY <1>1, <2>1 DEF RowOrder, StartOrder
  <2>3. rows[i].run = r
    BY <2>2, TuiBounds DEF Run
  <2> QED BY <1>1, <2>3 DEF RowOrder, HasRow
<1>4. (CHOOSE i \in done : \A j \in done : j <= i) = n
  <2> HIDE DEF n
  <2>1. n \in done /\ \A j \in done : j <= n
    BY <1>1, <1>3
  <2>2. \A i \in done : (\A j \in done : j <= i) => i = n
    <3> SUFFICES ASSUME NEW i \in done, \A j \in done : j <= i PROVE i = n
      OBVIOUS
    <3>1. n <= i /\ i <= n /\ i \in Nat /\ n \in Nat
      BY <1>2, <2>1
    <3> QED BY <3>1
  <2> HIDE DEF done
  <2> QED BY <2>1, <2>2
<1> QED BY <1>1, <1>4 DEF Newest

LEMMA ResultIsOwn ==
  ASSUME LoopIInv, RowsIInv, StartOrder, RowOrder, NEW r \in Run,
         ReceiveEnd(r), ReceiveResult(r), screen' = "detail"
  PROVE  detail' = r
<1>1. worker[r] = "succeeds" /\ detail' = Newest
  BY DEF ReceiveResult
<1>2. running /\ updates = r
  BY <1>1 DEF LoopIInv, UnderTheLoop, Active
<1> QED BY <1>1, <1>2, NewestIsOwn

LEMMA AloneInvariance == UndisturbedSpec => []AloneIInv
<1>1. Init => AloneIInv
  <2>1. Init => RowOrder /\ NothingLeft
    BY DEF Init, RowOrder, NothingLeft, HasRow, NoChild
  <2>2. Init => ScreenTypes
    BY TuiBounds DEF Init, ScreenTypes, Screen
  <2> QED BY <2>1, <2>2, LoopStarts, RowsStart, GapStarts DEF AloneIInv, ScreenIInv, TuiIInv
<1>2. AloneIInv /\ [Next /\ UNCHANGED left]_vars => AloneIInv'
  <2> SUFFICES ASSUME AloneIInv, [Next /\ UNCHANGED left]_vars PROVE AloneIInv'
    OBVIOUS
  <2>1. TuiIInv' /\ GapIInv' /\ NothingLeft'
    <3>1. UNCHANGED left
      BY DEF vars
    <3> QED BY <3>1, TuiKept, GapKept DEF AloneIInv, ScreenIInv, TuiIInv, NothingLeft
  <2>2. CASE UNCHANGED vars
    BY <2>1, <2>2 DEF vars, loop, AloneIInv, ScreenIInv, ScreenTypes, RowOrder, HasRow
  <2>3. CASE Next /\ UNCHANGED left
    <3>1. RowOrder'
      BY <2>3, RowOrderKept DEF AloneIInv, ScreenIInv, TuiIInv, GapIInv
    <3>2. ScreenTypes'
      BY <2>3, ScreenKept DEF AloneIInv, ScreenIInv, TuiIInv
    <3> QED BY <2>1, <3>1, <3>2 DEF AloneIInv, ScreenIInv
  <2> QED BY <2>2, <2>3
<1> QED BY <1>1, <1>2, PTL DEF UndisturbedSpec

\* The detail that runTerminal (apps/cli/main.go) shows after an evaluation is that of
\* the evaluation, for any number of them, as long as nobody else records runs, neither
\* another client nor the engine of a cancelled docker run: what
\* MANUAL_PHASE4_BACKEND_TUI_UX.md says fails only beside one of them.
THEOREM AloneShowsOwn == UndisturbedSpec => ResultShownIsTheRun
<1>1. AloneIInv /\ [Next /\ UNCHANGED left]_vars =>
        [\A r \in Run : told[r] = "nothing" /\ told'[r] = "result" /\ screen' = "detail"
           => detail' = r]_vars
  <2> SUFFICES ASSUME AloneIInv, Next, NEW r \in Run,
                      told[r] = "nothing", told'[r] = "result", screen' = "detail"
               PROVE  detail' = r
    OBVIOUS
  <2>1. told \in [Run -> {"nothing", "result", "error", "dropped"}]
    BY DEF AloneIInv, ScreenIInv, TuiIInv, LoopIInv, TuiTypes
  <2>2. ReceiveEnd(r) /\ ReceiveResult(r)
    BY <2>1 DEF Next, Child, CreateRow, PrintProgress, CommitRow, Exit, Fail, Kill, Engine,
       EngineCreates, EngineCommits, EngineFails, Scanner, ScanLine, DropLine, ScanEnd, Worker,
       StartLocal, LocalUnavailable, StartDocker, DockerUnavailable, Wait, Drain, Close,
       StartRun, StartUnselected, Receive, ReceiveProgress, ReceiveEnd, ReceiveDropped,
       ReceiveResult, ReceiveError, Tell, ReceiveClosed, Navigate, PressB, Tick, Return, loop
  <2> QED BY <2>2, ResultIsOwn DEF AloneIInv, ScreenIInv, TuiIInv, GapIInv
<1> QED BY <1>1, AloneInvariance, PTL DEF UndisturbedSpec, ResultShownIsTheRun

------------------------------------------------------------------------------
(* Who waits for whom                                                       *)

\* Whoever writes to a pipe is read, and the goroutine waits for a scanner there is.
Watched ==
  \A r \in Run :
    /\ worker[r] \in {"local", "docker"} =>
         scanner[r] \in {"reading", "sending"} \/ (scanner[r] = "done" /\ ~Alive(r))
    /\ worker[r] \in {"localDrain", "dockerDrain"} => scanner[r] # "off"
    /\ child[r].printed <= Lines

LEMMA WatchedKept ==
  ASSUME LoopIInv, Watched, [Next]_vars
  PROVE  Watched'
<1>1. /\ worker \in [Run -> Places] /\ child \in [Run -> ChildType] /\ Lines \in Nat
      /\ scanner \in [Run -> {"off", "reading", "sending", "done"}]
  BY TuiBounds DEF LoopIInv, TuiTypes
<1>2. ASSUME NEW r \in Run, Child(r)
      PROVE  Watched'
  <2>1. /\ UNCHANGED <<worker, scanner>> /\ Alive(r)
        /\ \A s \in Run : s # r => child'[s] = child[s]
    BY <1>1, <1>2 DEF Child, CreateRow, PrintProgress, CommitRow, Exit, Fail, Kill, Alive
  <2>2. child'[r].printed <= Lines
    <3>1. CASE PrintProgress(r)
      <4>1. /\ child'[r].printed = child[r].printed + 1 /\ child[r].printed < Lines
            /\ child[r].printed \in Nat
        BY <1>1, <3>1 DEF PrintProgress, ChildType
      <4> QED BY <1>1, <4>1
    <3>2. CASE ~PrintProgress(r)
      <4>1. child'[r].printed = child[r].printed
        <5>1. CASE CreateRow(r)
          BY <1>1, <5>1 DEF CreateRow, ChildType
        <5>2. CASE CommitRow(r) \/ Exit(r) \/ Fail(r) \/ Kill(r)
          BY <1>1, <5>2 DEF CommitRow, Exit, Fail, Kill, ChildType
        <5> QED BY <1>2, <3>2, <5>1, <5>2 DEF Child
      <4> QED BY <4>1 DEF Watched
    <3> QED BY <3>1, <3>2
  <2>3. \A s \in Run : Alive(s)' => Alive(s)
    BY <2>1 DEF Alive
  <2> QED BY <2>1, <2>2, <2>3 DEF Watched
<1>3. ASSUME NEW r \in Run, Scanner(r) \/ ReceiveProgress(r)
      PROVE  Watched'
  <2>1. /\ UNCHANGED <<worker, child>>
        /\ scanner[r] \in {"reading", "sending"}
        /\ \/ \E place \in {"reading", "sending"} : scanner' = [scanner EXCEPT ![r] = place]
           \/ ~Alive(r) /\ scanner' = [scanner EXCEPT ![r] = "done"]
    BY <1>3 DEF Scanner, ScanLine, DropLine, ScanEnd, ReceiveProgress
  <2> QED BY <1>1, <2>1 DEF Watched, Alive
<1>4. ASSUME NEW r \in Run, StartLocal(r) \/ StartDocker(r)
      PROVE  Watched'
  <2>1. /\ \E place \in {"local", "docker"} : worker' = [worker EXCEPT ![r] = place]
        /\ scanner' = [scanner EXCEPT ![r] = "reading"]
        /\ \E c \in ChildType : c.printed = 0 /\ child' = [child EXCEPT ![r] = c]
    BY <1>4 DEF StartLocal, StartDocker, Goto, Spawn, NoChild, ChildType
  <2> QED BY <1>1, <2>1 DEF Watched, Alive
<1>5. ASSUME NEW r \in Run, UNCHANGED <<scanner, child>>,
             \E place : Goto(r, place) /\ (place \in {"localDrain", "dockerDrain"} =>
                                              worker[r] \in {"local", "docker"})
                                     /\ place \notin {"local", "docker"}
      PROVE  Watched'
  BY <1>1, <1>5 DEF Watched, Alive, Goto
<1>6. CASE UNCHANGED <<worker, scanner, child>>
  BY <1>6 DEF Watched, Alive
<1>7. ASSUME NEW r \in Run, Worker(r), ~StartLocal(r), ~StartDocker(r)
      PROVE  Watched'
  <2>1. CASE Wait(r)
    BY <1>5, <2>1 DEF Wait
  <2>2. CASE Drain(r)
    BY <1>5, <2>2 DEF Drain, TakeAnswer, GiveUpChild
  <2>3. CASE LocalUnavailable(r) \/ DockerUnavailable(r) \/ Close(r)
    BY <1>5, <2>3 DEF LocalUnavailable, DockerUnavailable, Close
  <2> QED BY <1>7, <2>1, <2>2, <2>3 DEF Worker
<1>8. ASSUME NEW r \in Run, StartRun(r) \/ StartUnselected(r) \/ ReceiveEnd(r)
      PROVE  Watched'
  BY <1>5, <1>8 DEF StartRun, StartUnselected, ReceiveEnd
<1>9. CASE Navigate \/ PressB \/ Tick \/ Return \/ UNCHANGED vars
  BY <1>6, <1>9 DEF Navigate, PressB, Tick, Return, vars
<1>10. ASSUME NEW r \in Run, ReceiveClosed(r)
       PROVE  Watched'
  BY <1>6, <1>10 DEF ReceiveClosed
<1>11. ASSUME NEW r \in Run, Engine(r)
       PROVE  Watched'
  <2>1. UNCHANGED <<worker, scanner>>
    BY <1>11 DEF Engine, EngineCreates, EngineCommits, EngineFails
  <2>2. \A s \in Run : child'[s].state = child[s].state /\ child'[s].printed = child[s].printed
    <3>1. CASE EngineCreates(r)
      BY <1>1, <3>1 DEF EngineCreates, ChildType
    <3>2. CASE EngineCommits(r) \/ EngineFails(r)
      BY <3>2 DEF EngineCommits, EngineFails
    <3> QED BY <1>11, <3>1, <3>2 DEF Engine
  <2> QED BY <2>1, <2>2 DEF Watched, Alive
<1> QED BY <1>2, <1>3, <1>4, <1>7, <1>8, <1>9, <1>10, <1>11 DEF Next, Receive

\* While an evaluation runs, or its cancellation is being shown, the guard of one of
\* the next steps of runTerminal, startBackendRunAsync, scanProgress or the child
\* holds, for any number of lines and any size of the pipe.
THEOREM NobodyStuck == Spec => []NeverStuck
<1>1. Init => Watched
  BY TuiBounds DEF Init, Watched, NoChild
<1>2. ScreenIInv /\ Watched /\ [Next]_vars => Watched'
  BY WatchedKept DEF ScreenIInv, TuiIInv
<1>3. ASSUME ScreenIInv, Watched PROVE NeverStuck
  <2> SUFFICES ASSUME running, ~(notice > 0), ~ReadyToExit
               PROVE  updates \in Run /\ CanGoOn(updates)
    BY DEF NeverStuck
  <2>1. ~finished
    <3>1. notice = 0
      BY <1>3, TuiBounds DEF ScreenIInv, ScreenTypes
    <3> QED BY <1>3, <3>1 DEF ScreenIInv, TuiIInv, LoopIInv, LoopListens, ReadyToExit
  <2> DEFINE r == updates
  <2>2. r \in Run /\ worker[r] \in Active \cup {"fails"}
    BY <1>3, <2>1 DEF ScreenIInv, TuiIInv, LoopIInv, LoopListens
  <2>3. child[r] \in ChildType /\ scanner[r] \in {"off", "reading", "sending", "done"}
    BY <1>3, <2>2 DEF ScreenIInv, TuiIInv, LoopIInv, TuiTypes
  <2>4. CASE worker[r] \in {"start", "fallback", "succeeds", "fails"}
    BY <2>2, <2>4 DEF CanGoOn
  <2>5. CASE worker[r] \in {"local", "docker"}
    <3>1. CASE ~Alive(r)
      BY <2>2, <2>5, <3>1 DEF CanGoOn
    <3>2. CASE Alive(r)
      <4>1. scanner[r] \in {"reading", "sending"}
        BY <1>3, <2>2, <2>5, <3>2 DEF Watched
      <4>2. CASE scanner[r] = "sending" \/ child[r].state # "created"
        BY <2>2, <3>2, <4>2 DEF CanGoOn, Alive
      <4>3. CASE scanner[r] = "reading" /\ child[r].state = "created"
        <5>1. CASE pipe[r] = <<>>
          <6>1. Len(pipe[r]) < PipeSize
            BY <5>1, TuiBounds
          <6>2. child[r].printed = Lines \/ child[r].printed < Lines
            BY <1>3, <2>2, <2>3, TuiBounds DEF Watched, ChildType
          <6> QED BY <2>2, <4>3, <6>1, <6>2 DEF CanGoOn
        <5>2. CASE pipe[r] # <<>>
          BY <2>2, <4>3, <5>2 DEF CanGoOn
        <5> QED BY <5>1, <5>2
      <4> QED BY <4>1, <4>2, <4>3
    <3> QED BY <3>1, <3>2
  <2>6. CASE worker[r] \in {"localDrain", "dockerDrain"}
    <3>1. ~Alive(r) /\ scanner[r] \in {"reading", "sending", "done"}
      BY <1>3, <2>2, <2>3, <2>6 DEF Watched, ScreenIInv, TuiIInv, LoopIInv, UnderTheLoop
    <3> QED BY <2>2, <2>6, <3>1 DEF CanGoOn
  <2> QED BY <2>2, <2>4, <2>5, <2>6 DEF Active
<1> QED BY <1>1, <1>2, <1>3, ScreenInvariance, PTL DEF Spec
=============================================================================
