-------------------------- MODULE TuiViews_proofs --------------------------
(***************************************************************************)
(* TLAPS proofs about TuiViews, for any number of runs with any number of   *)
(* events, any heights of the terminal and any catalogue.  Which rows are   *)
(* on the page, which of them is selected and whose detail is shown is made  *)
(* consistent by a refresh; the proofs show that every key that disturbs it  *)
(* asks for one, and that a refresh which fails leaves for the error screen. *)
(***************************************************************************)
EXTENDS TuiViews, SequenceTheorems, TLAPS

Row == 1..MaxRows

Fields == {"screen", "runIndex", "runOffset", "runs", "runTotal", "traceIndex", "traceOffset",
           "detail", "newEvalIndex", "benchmarkOffset", "benchmarks", "benchmarkTotal",
           "family", "cacheLoaded"}

\* The newest row is the first.
IsTable(q) == q \in Seq(Row) /\ \A i \in DOMAIN q : q[i] = Len(q) + 1 - i

NewestFirst(q) == \A i, j \in DOMAIN q : i < j => q[i] > q[j]

\* What ViewTypeOK and PagesInOrder say of the runs, of any value of appState.
IsView(t) ==
  /\ DOMAIN t = Fields
  /\ t.runIndex \in Nat /\ t.runOffset \in Nat /\ t.runTotal \in Nat
  /\ t.traceIndex \in Nat /\ t.traceOffset \in Nat
  /\ t.runs \in Seq(Row)
  /\ NewestFirst(t.runs)
  /\ t.detail.total \in Nat /\ t.detail.count <= t.detail.total

Selects(t) == t.runs # <<>> /\ ShowsRuns(t.screen) => t.runIndex < Len(t.runs)

Details(t) ==
  t.screen \in {"detail", "trace"} /\ t.runs # <<>> =>
    t.detail.run = t.runs[t.runIndex + 1] /\ t.detail.offset = t.traceOffset

IsShown(t) == IsView(t) /\ Selects(t) /\ Details(t)

World == IsTable(table) /\ size \in PageSizes

ViewIInv == World /\ IsView(s) /\ (Unread \/ IsShown(s))

------------------------------------------------------------------------------
(* Lemmas about pages and refreshes                                         *)

LEMMA SizePositive == ASSUME size \in PageSizes PROVE size \in Nat \ {0}
BY ViewBounds

\* A page holds the rows from its offset on, as many as it says.
LEMMA PageRows ==
  ASSUME NEW q, IsTable(q), NEW offset \in Nat, NEW n \in Nat
  PROVE  /\ Page(q, offset, n) \in Seq(Row)
         /\ Page(q, offset, n) # <<>> => Page(q, offset, n)[1] = q[offset + 1]
         /\ NewestFirst(Page(q, offset, n))
<1> DEFINE last == Smaller(offset + n, Len(q))
<1>1. Page(q, offset, n) = SubSeq(q, offset + 1, last)
  <2>1. Larger(0, offset) = offset
    BY DEF Larger
  <2>2. QED
    BY <2>1 DEF Page
<1>2. q \in Seq(Row) /\ Len(q) \in Nat /\ last \in Int /\ last <= Len(q)
  BY LenProperties DEF IsTable, Smaller
<1>3. \A i \in (offset + 1)..last : q[i] \in Row
  <2> SUFFICES ASSUME NEW i \in (offset + 1)..last PROVE q[i] \in Row
    OBVIOUS
  <2>1. i \in 1..Len(q)
    BY <1>2
  <2>2. QED
    BY <1>2, <2>1, ElementOfSeq
<1> HIDE DEF last
<1>4. /\ SubSeq(q, offset + 1, last) \in Seq(Row)
      /\ Len(SubSeq(q, offset + 1, last)) = IF offset + 1 <= last THEN last - (offset + 1) + 1 ELSE 0
      /\ \A i \in 1..(last - (offset + 1) + 1) :
           SubSeq(q, offset + 1, last)[i] = q[offset + 1 + i - 1]
  BY <1>2, <1>3, SubSeqProperties
<1>5. ASSUME SubSeq(q, offset + 1, last) # <<>>
      PROVE  SubSeq(q, offset + 1, last)[1] = q[offset + 1]
  <2>1. Len(SubSeq(q, offset + 1, last)) # 0
    BY <1>4, <1>5, EmptySeq
  <2>2. 1 \in 1..(last - (offset + 1) + 1)
    BY <1>2, <1>4, <2>1
  <2>3. QED
    BY <1>4, <2>2
<1>6. NewestFirst(SubSeq(q, offset + 1, last))
  <2> DEFINE page == SubSeq(q, offset + 1, last)
  <2>1. DOMAIN page = 1..Len(page)
    BY <1>4, LenProperties
  <2>2. \A i \in DOMAIN page : i \in 1..(last - offset)
    BY <1>2, <1>4, <2>1
  <2>3. ASSUME NEW i \in 1..(last - offset)
        PROVE  page[i] = Len(q) + 1 - (offset + i) /\ i \in Nat
    <3>1. offset + i \in 1..Len(q) /\ i \in 1..(last - (offset + 1) + 1) /\ i \in Nat
      BY <1>2
    <3>2. page[i] = q[offset + 1 + i - 1] /\ offset + 1 + i - 1 = offset + i
      BY <1>4, <3>1
    <3>3. q[offset + i] = Len(q) + 1 - (offset + i)
      BY <1>2, <3>1, LenProperties DEF IsTable
    <3> QED BY <3>1, <3>2, <3>3
  <2> HIDE DEF page
  <2>4. ASSUME NEW i \in DOMAIN page, NEW j \in DOMAIN page, i < j
        PROVE  page[i] > page[j]
    BY <1>2, <2>2, <2>3, <2>4
  <2> QED BY <2>4 DEF NewestFirst, page
<1>7. QED
  BY <1>1, <1>4, <1>5, <1>6

\* list-runs gives the page of the offset and leaves the selection inside it.
LEMMA ListRunsShows ==
  ASSUME World, NEW t, IsView(t)
  PROVE  /\ IsView(ListRuns(t)) /\ Selects(ListRuns(t))
         /\ ListRuns(t).runs = Page(table, t.runOffset, size)
         /\ ListRuns(t).screen = t.screen /\ ListRuns(t).runOffset = t.runOffset
<1> DEFINE page == Page(table, t.runOffset, size)
<1>1. page \in Seq(Row) /\ NewestFirst(page)
  BY PageRows, SizePositive DEF World, IsView
<1>2. Len(page) \in Nat /\ Len(table) \in Nat /\ (page # <<>> => Len(page) > 0)
  BY <1>1, LenProperties, EmptySeq DEF World, IsTable
<1> HIDE DEF page
<1>3. /\ ClampIndex(t.runIndex, Len(page)) \in Nat
      /\ page # <<>> => ClampIndex(t.runIndex, Len(page)) < Len(page)
  BY <1>2 DEF ClampIndex, Larger, IsView
<1>4. ListRuns(t) = [t EXCEPT !.runs = page, !.runTotal = Len(table),
                              !.runIndex = ClampIndex(t.runIndex, Len(page))]
  BY DEF ListRuns, page, IsView, Fields
<1>5. QED
  BY <1>1, <1>2, <1>3, <1>4 DEF IsView, Selects, Fields, page

\* show-run gives the detail of the selected run, from the offset of the trace.
LEMMA ShowRunShows ==
  ASSUME World, NEW t, IsView(t), Selects(t), ShowsRuns(t.screen)
  PROVE  /\ IsShown(ShowRun(t))
         /\ ShowRun(t).runs = t.runs /\ ShowRun(t).screen = t.screen
         /\ ShowRun(t).runOffset = t.runOffset
<1>1. Len(t.runs) \in Nat /\ (t.runs # <<>> => Len(t.runs) > 0)
  BY LenProperties, EmptySeq DEF IsView
<1>2. CASE t.runIndex >= Len(t.runs)
  <2>1. t.runs = <<>>
    BY <1>1, <1>2 DEF Selects, IsView
  <2>2. ShowRun(t) = t
    BY <1>2 DEF ShowRun
  <2>3. QED
    BY <2>1, <2>2 DEF IsShown, Selects, Details
<1>3. CASE ~(t.runIndex >= Len(t.runs))
  <2> DEFINE run == t.runs[t.runIndex + 1]
             total == Events(run)
             count == Larger(0, Smaller(size, total - t.traceOffset))
             index == ClampIndex(t.traceIndex, total)
             new == [run |-> run, offset |-> t.traceOffset, count |-> count, total |-> total]
  <2>1. t.runIndex + 1 \in 1..Len(t.runs)
    BY <1>1, <1>3 DEF IsView
  <2>2. run \in Row
    BY <2>1, ElementOfSeq DEF IsView
  <2>3. total \in Nat
    BY <2>2, ViewBounds DEF Row
  <2>4. ShowRun(t) = [t EXCEPT !.detail = new, !.traceIndex = index]
    BY <1>3 DEF ShowRun, IsView, Fields
  <2>8. new.count <= total
    BY <2>3, SizePositive DEF World, IsView, Larger, Smaller
  <2> HIDE DEF run, total
  <2>5. index \in Nat
    BY <2>3 DEF ClampIndex, Larger, IsView
  <2>6. new.run = run /\ new.offset = t.traceOffset /\ new.total = total
    OBVIOUS
  <2> HIDE DEF new, index
  <2>7. QED
    BY <2>3, <2>4, <2>5, <2>6, <2>8 DEF IsShown, IsView, Selects, Details, Fields, run
<1>4. QED
  BY <1>2, <1>3

\* What refreshBackendState makes of any state is fit to be shown.
LEMMA RefreshShows ==
  ASSUME World, NEW t, IsView(t), NEW u \in Refreshed(t)
  PROVE  IsShown(u)
<1>1. ASSUME NEW v, IsView(v) PROVE IsShown(BackendError(v))
  BY <1>1 DEF BackendError, IsShown, IsView, Selects, Details, ShowsRuns, Fields
<1>2. CASE t.screen = "runs"
  <2>1. u \in {ListRuns(t), BackendError(t)}
    BY <1>2 DEF Refreshed
  <2>2. QED
    BY <1>1, <1>2, <2>1, ListRunsShows DEF IsShown, Details
<1>3. CASE t.screen \in {"detail", "trace"}
  <2>1. u \in {ShowRun(ListRuns(t)), BackendError(ListRuns(t)), BackendError(t)}
    BY <1>3 DEF Refreshed
  <2>2. IsView(ListRuns(t)) /\ Selects(ListRuns(t)) /\ ShowsRuns(ListRuns(t).screen)
    BY <1>3, ListRunsShows DEF ShowsRuns
  <2>3. QED
    BY <1>1, <2>1, <2>2, ShowRunShows
<1>4. CASE t.screen = "newEval"
  <2>1. u \in {FilterBenchmarks([t EXCEPT !.cacheLoaded = TRUE]), BackendError(t)}
    BY <1>4 DEF Refreshed
  <2>2. ASSUME NEW v, IsView(v), v.screen = "newEval" PROVE IsShown(FilterBenchmarks(v))
    BY <2>2 DEF FilterBenchmarks, IsShown, IsView, Selects, Details, ShowsRuns, Fields
  <2>3. /\ IsView([t EXCEPT !.cacheLoaded = TRUE])
        /\ [t EXCEPT !.cacheLoaded = TRUE].screen = "newEval"
    BY <1>4 DEF IsView, Fields
  <2>4. QED
    BY <1>1, <2>1, <2>2, <2>3
<1>5. CASE t.screen \notin {"runs", "detail", "trace", "newEval"}
  BY <1>5 DEF Refreshed, IsShown, Selects, Details, ShowsRuns
<1>6. QED
  BY <1>2, <1>3, <1>4, <1>5

\* A key either asks for a refresh or disturbs nothing.
LEMMA ShowShows ==
  ASSUME World, NEW t, IsView(t), Show(t), NeedsRefresh(t) \/ IsShown(t)
  PROVE  ViewIInv'
<1>1. UNCHANGED <<table, size, refused>>
  BY DEF Show
<1>2. World'
  BY <1>1 DEF World
<1>3. IsShown(s')
  BY RefreshShows DEF Show
<1>4. QED
  BY <1>2, <1>3 DEF ViewIInv, IsShown

------------------------------------------------------------------------------
(* Keys                                                                     *)

\* The keys that go to another screen, which is always refreshed, and those of
\* the candidates, which leave what is known of the runs alone.
LEMMA OpeningShows ==
  ASSUME ViewIInv, PressDigit \/ PressEnter \/ PressB \/ PressD \/ PressF
  PROVE  ViewIInv'
<1> USE DEF ViewIInv
<1>1. ASSUME NEW to PROVE IsView([s EXCEPT !.screen = to])
  BY DEF IsShown, IsView, Fields
<1>2. ASSUME NEW to, Show([s EXCEPT !.screen = to]) PROVE ViewIInv'
  <2>1. CASE to = s.screen
    <3>1. CASE Unread
      <4> DEFINE t == [s EXCEPT !.screen = to]
      <4>1. ~NeedsRefresh(t) /\ t.screen = "detail"
        BY <2>1, <3>1 DEF NeedsRefresh, Unread, IsView, Fields
      <4>2. s' = t /\ UNCHANGED <<table, size, refused>>
        BY <1>2, <4>1 DEF Show
      <4> HIDE DEF t
      <4>3. QED
        BY <1>1, <3>1, <4>1, <4>2 DEF World, Unread, t
    <3>2. CASE IsShown(s)
      <4>1. IsShown([s EXCEPT !.screen = to])
        BY <2>1, <3>2 DEF IsShown, IsView, Selects, Details, ShowsRuns, Fields
      <4>2. QED
        BY <1>1, <1>2, <4>1, ShowShows
    <3>3. QED
      BY <3>1, <3>2
  <2>2. CASE to # s.screen
    <3>1. NeedsRefresh([s EXCEPT !.screen = to])
      BY <2>2 DEF NeedsRefresh, IsShown, IsView, Fields
    <3>2. QED
      BY <1>1, <1>2, <3>1, ShowShows
  <2>3. QED
    BY <2>1, <2>2
<1>3. CASE PressDigit
  <2>1. ASSUME Show([s EXCEPT !.screen = "trace", !.traceIndex = 2]), s.screen = "home"
        PROVE  ViewIInv'
    <3> DEFINE t == [s EXCEPT !.screen = "trace", !.traceIndex = 2]
    <3>1. IsView(t) /\ NeedsRefresh(t)
      BY <2>1 DEF NeedsRefresh, IsShown, IsView, Fields
    <3>2. QED
      BY <2>1, <3>1, ShowShows
  <2>2. QED
    BY <1>2, <1>3, <2>1 DEF PressDigit
<1>4. CASE PressEnter
  BY <1>2, <1>4 DEF PressEnter
<1>5. CASE PressB
  <2>1. Show([s EXCEPT !.screen = IF s.screen \in {"runs", "newEval"} THEN "home" ELSE "runs"])
    BY <1>5 DEF PressB, IsShown, IsView, Fields
  <2>2. QED
    BY <1>2, <2>1
<1>6. CASE PressD
  BY <1>2, <1>6 DEF PressD
<1>7. CASE PressF
  <2> DEFINE t == [s EXCEPT !.family = NextFamily[s.family], !.benchmarkOffset = 0, !.newEvalIndex = 0]
  <2>1. Show(t) /\ s.screen = "newEval"
    BY <1>7 DEF PressF, IsShown, IsView, Fields
  <2>2. IsShown(t)
    BY <2>1 DEF IsShown, IsView, Selects, Details, ShowsRuns, Fields
  <2>3. QED
    BY <2>1, <2>2, ShowShows DEF IsShown
<1>8. QED
  BY <1>3, <1>4, <1>5, <1>6, <1>7

LEMMA TraceKeyShows ==
  ASSUME ViewIInv, PressT \/ UpTrace \/ DownTrace
  PROVE  ViewIInv'
<1> USE DEF ViewIInv
<1>1. size \in Nat \ {0}
  BY SizePositive DEF World
<1>2. ASSUME NEW index \in Nat, NEW offset \in Nat, s.screen = "trace",
             Show([s EXCEPT !.traceIndex = index, !.traceOffset = offset])
      PROVE  ViewIInv'
  <2> DEFINE t == [s EXCEPT !.traceIndex = index, !.traceOffset = offset]
  <2>1. IsView(t)
    BY DEF IsShown, IsView, Fields
  <2>2. NeedsRefresh(t) \/ IsShown(t)
    BY <1>2, <2>1 DEF NeedsRefresh, Unread, IsShown, IsView, Selects, Details, ShowsRuns, Fields
  <2>3. QED
    BY <1>2, <2>1, <2>2, ShowShows
<1>3. CASE PressT
  <2> DEFINE t == [s EXCEPT !.screen = "trace", !.traceIndex = 0, !.traceOffset = 0]
  <2>1. IsView(t)
    BY DEF IsShown, IsView, Fields
  <2>2. NeedsRefresh(t) \/ IsShown(t)
    BY <2>1 DEF NeedsRefresh, Unread, IsShown, IsView, Selects, Details, ShowsRuns, Fields
  <2>3. QED
    BY <1>3, <2>1, <2>2, ShowShows DEF PressT
<1>4. CASE UpTrace
  <2> DEFINE index == s.traceIndex - 1
             offset == IF index < s.traceOffset THEN Back(s.traceOffset) ELSE s.traceOffset
  <2>1. /\ Show([s EXCEPT !.traceIndex = index, !.traceOffset = offset])
        /\ s.screen = "trace" /\ s.traceIndex > 0
    BY <1>4 DEF UpTrace, IsShown, IsView, Fields
  <2>2. index \in Nat /\ offset \in Nat
    BY <1>1, <2>1 DEF Back, Larger, IsShown, IsView
  <2>3. QED
    BY <1>2, <2>1, <2>2
<1>5. CASE DownTrace
  <2> DEFINE index == s.traceIndex + 1
             offset == IF index >= s.traceOffset + size THEN s.traceOffset + size ELSE s.traceOffset
  <2>1. /\ Show([s EXCEPT !.traceIndex = index, !.traceOffset = offset])
        /\ s.screen = "trace"
    BY <1>5 DEF DownTrace, IsShown, IsView, Fields
  <2>2. index \in Nat /\ offset \in Nat
    BY <1>1 DEF IsShown, IsView
  <2>3. QED
    BY <1>2, <2>1, <2>2
<1>6. QED
  BY <1>3, <1>4, <1>5

\* Moving on a page leaves the index in it; moving to another page asks for it.
LEMMA RunsKeyShows ==
  ASSUME ViewIInv, UpRuns \/ DownRuns
  PROVE  ViewIInv'
<1> USE DEF ViewIInv
<1>1. size \in Nat \ {0}
  BY SizePositive DEF World
<1>2. Len(s.runs) \in Nat /\ (s.runs # <<>> => Len(s.runs) > 0) /\ s.runIndex \in Nat
      /\ s.runOffset \in Nat
  BY LenProperties, EmptySeq DEF IsShown, IsView
<1>3. ASSUME NEW index \in Nat, s.screen = "runs", index <= s.runIndex \/ index < Len(s.runs),
             Show([s EXCEPT !.runIndex = index])
      PROVE  ViewIInv'
  <2> DEFINE t == [s EXCEPT !.runIndex = index]
  <2>1. IsView(t)
    BY DEF IsShown, IsView, Fields
  <2>2. Selects(t) /\ Details(t)
    BY <1>2, <1>3 DEF Unread, IsShown, IsView, Selects, Details, ShowsRuns, Fields
  <2>3. QED
    BY <1>3, <2>1, <2>2, ShowShows DEF IsShown
<1>4. ASSUME NEW index \in Nat, NEW offset \in Nat, s.screen = "runs",
             offset # s.runOffset \/ index = 0,
             Show([s EXCEPT !.runOffset = offset, !.runIndex = index])
      PROVE  ViewIInv'
  <2> DEFINE t == [s EXCEPT !.runOffset = offset, !.runIndex = index]
  <2>1. IsView(t)
    BY DEF IsShown, IsView, Fields
  <2>2. NeedsRefresh(t) \/ IsShown(t)
    BY <1>2, <1>4, <2>1 DEF NeedsRefresh, IsShown, IsView, Selects, Details, ShowsRuns, Fields
  <2>3. QED
    BY <1>4, <2>1, <2>2, ShowShows
<1>5. CASE UpRuns
  <2>1. ASSUME s.runIndex > 0, Show([s EXCEPT !.runIndex = s.runIndex - 1]), s.screen = "runs"
        PROVE  ViewIInv'
    <3>1. s.runIndex - 1 \in Nat /\ s.runIndex - 1 <= s.runIndex
      BY <1>2, <2>1
    <3>2. QED
      BY <1>3, <2>1, <3>1
  <2>2. ASSUME s.runOffset > 0, s.screen = "runs",
               Show([s EXCEPT !.runOffset = Back(s.runOffset), !.runIndex = size - 1])
        PROVE  ViewIInv'
    <3>1. Back(s.runOffset) \in Nat /\ Back(s.runOffset) # s.runOffset /\ size - 1 \in Nat
      BY <1>1, <1>2, <2>2 DEF Back, Larger
    <3>2. QED
      BY <1>4, <2>2, <3>1
  <2>3. QED
    BY <1>5, <2>1, <2>2 DEF UpRuns, IsShown, IsView, Fields
<1>6. CASE DownRuns
  <2>1. ASSUME s.runIndex < Len(s.runs) - 1, Show([s EXCEPT !.runIndex = s.runIndex + 1]),
               s.screen = "runs"
        PROVE  ViewIInv'
    <3>1. s.runIndex + 1 \in Nat /\ s.runIndex + 1 < Len(s.runs)
      BY <1>2, <2>1
    <3>2. QED
      BY <1>3, <2>1, <3>1
  <2>2. ASSUME Show([s EXCEPT !.runOffset = s.runOffset + Len(s.runs), !.runIndex = 0]),
               s.screen = "runs"
        PROVE  ViewIInv'
    <3>1. s.runOffset + Len(s.runs) \in Nat
      BY <1>2
    <3>2. QED
      BY <1>4, <2>2, <3>1
  <2>3. QED
    BY <1>6, <2>1, <2>2 DEF DownRuns, NextRuns, IsShown, IsView, Fields
<1>7. QED
  BY <1>5, <1>6

LEMMA BenchmarkKeyShows ==
  ASSUME ViewIInv, s.screen = "newEval", NEW index, NEW offset,
         Show([s EXCEPT !.benchmarkOffset = offset, !.newEvalIndex = index])
  PROVE  ViewIInv'
<1> DEFINE t == [s EXCEPT !.benchmarkOffset = offset, !.newEvalIndex = index]
<1>1. IsShown(t)
  BY DEF ViewIInv, IsShown, IsView, Selects, Details, ShowsRuns, Fields
<1>2. QED
  BY <1>1, ShowShows DEF ViewIInv, IsShown

LEMMA PagingShows ==
  ASSUME ViewIInv, PageUp \/ PageDown \/ UpBenchmarks \/ DownBenchmarks
  PROVE  ViewIInv'
<1> USE DEF ViewIInv
<1>1. /\ size \in Nat \ {0} /\ s.runOffset \in Nat /\ s.traceOffset \in Nat
      /\ Back(s.runOffset) \in Nat /\ Back(s.traceOffset) \in Nat
      /\ Len(s.runs) \in Nat /\ (s.runs # <<>> => Len(s.runs) > 0)
  BY SizePositive, LenProperties, EmptySeq DEF World, IsShown, IsView, Back, Larger
<1>2. ASSUME NEW offset \in Nat, s.screen = "runs",
             Show([s EXCEPT !.runOffset = offset, !.runIndex = 0])
      PROVE  ViewIInv'
  <2> DEFINE t == [s EXCEPT !.runOffset = offset, !.runIndex = 0]
  <2>1. IsView(t)
    BY DEF IsShown, IsView, Fields
  <2>2. NeedsRefresh(t) \/ IsShown(t)
    BY <1>1, <1>2, <2>1 DEF NeedsRefresh, IsShown, IsView, Selects, Details, ShowsRuns, Fields
  <2>3. QED
    BY <1>2, <2>1, <2>2, ShowShows
<1>3. ASSUME NEW offset \in Nat, s.screen = "trace",
             Show([s EXCEPT !.traceOffset = offset, !.traceIndex = offset])
      PROVE  ViewIInv'
  <2> DEFINE t == [s EXCEPT !.traceOffset = offset, !.traceIndex = offset]
  <2>1. IsView(t)
    BY DEF IsShown, IsView, Fields
  <2>2. NeedsRefresh(t) \/ IsShown(t)
    BY <1>3, <2>1 DEF NeedsRefresh, Unread, IsShown, IsView, Selects, Details, ShowsRuns, Fields
  <2>3. QED
    BY <1>3, <2>1, <2>2, ShowShows
<1>4. ASSUME s.screen = "newEval", Show(NextBenchmarks) PROVE ViewIInv'
  BY <1>4, BenchmarkKeyShows DEF NextBenchmarks, IsShown, IsView, Fields
<1>5. CASE PageUp
  <2>1. CASE s.screen = "runs" /\ Show([s EXCEPT !.runOffset = Back(s.runOffset), !.runIndex = 0])
    BY <1>1, <1>2, <2>1
  <2>2. CASE s.screen = "trace" /\ Show([s EXCEPT !.traceOffset = Back(s.traceOffset),
                                                  !.traceIndex = Back(s.traceOffset)])
    BY <1>1, <1>3, <2>2
  <2>3. CASE s.screen = "newEval"
             /\ Show([s EXCEPT !.benchmarkOffset = Back(s.benchmarkOffset), !.newEvalIndex = 0])
    BY <2>3, BenchmarkKeyShows
  <2>4. QED
    BY <1>5, <2>1, <2>2, <2>3 DEF PageUp, IsShown, IsView, Fields
<1>6. CASE PageDown
  <2>1. CASE s.screen = "runs" /\ Show(NextRuns)
    <3>1. s.runOffset + Len(s.runs) \in Nat
      BY <1>1
    <3>2. Show([s EXCEPT !.runOffset = s.runOffset + Len(s.runs), !.runIndex = 0])
      BY <2>1 DEF NextRuns, IsShown, IsView, Fields
    <3>3. QED
      BY <1>2, <2>1, <3>1, <3>2
  <2>2. CASE s.screen = "trace" /\ Show([s EXCEPT !.traceOffset = s.traceOffset + size,
                                                  !.traceIndex = s.traceOffset + size])
    <3>1. s.traceOffset + size \in Nat
      BY <1>1
    <3>2. QED
      BY <1>3, <2>2, <3>1
  <2>3. QED
    BY <1>4, <1>6, <2>1, <2>2 DEF PageDown
<1>7. CASE UpBenchmarks
  <2>1. ASSUME s.screen = "newEval", Show([s EXCEPT !.newEvalIndex = s.newEvalIndex - 1])
        PROVE  ViewIInv'
    <3> DEFINE t == [s EXCEPT !.newEvalIndex = s.newEvalIndex - 1]
    <3>1. IsShown(t)
      BY <2>1 DEF IsShown, IsView, Selects, Details, ShowsRuns, Fields
    <3>2. QED
      BY <2>1, <3>1, ShowShows DEF IsShown
  <2>2. ASSUME s.screen = "newEval",
               Show([s EXCEPT !.benchmarkOffset = Back(s.benchmarkOffset), !.newEvalIndex = size - 1])
        PROVE  ViewIInv'
    BY <2>2, BenchmarkKeyShows
  <2>3. QED
    BY <1>7, <2>1, <2>2 DEF UpBenchmarks, IsShown, IsView, Fields
<1>8. CASE DownBenchmarks
  <2>1. ASSUME s.screen = "newEval", Show([s EXCEPT !.newEvalIndex = s.newEvalIndex + 1])
        PROVE  ViewIInv'
    <3> DEFINE t == [s EXCEPT !.newEvalIndex = s.newEvalIndex + 1]
    <3>1. IsShown(t)
      BY <2>1 DEF IsShown, IsView, Selects, Details, ShowsRuns, Fields
    <3>2. QED
      BY <2>1, <3>1, ShowShows DEF IsShown
  <2>2. QED
    BY <1>4, <1>8, <2>1 DEF DownBenchmarks, IsShown, IsView, Fields
<1>9. QED
  BY <1>5, <1>6, <1>7, <1>8

\* r, on the list of candidates, on the error screen and elsewhere.
LEMMA PressRShows == ASSUME ViewIInv, PressR PROVE ViewIInv'
<1>1. World' /\ World /\ IsView(s)
  BY DEF PressR, ViewIInv, World, IsShown
<1>2. IsShown(s')
  <2>1. CASE s.screen = "newEval"
    <3>1. IsView([s EXCEPT !.cacheLoaded = FALSE])
      BY <1>1 DEF IsView, Fields
    <3>2. s' \in Refreshed([s EXCEPT !.cacheLoaded = FALSE])
      BY <2>1 DEF PressR, IsView, Fields
    <3>3. QED
      BY <1>1, <3>1, <3>2, RefreshShows
  <2>2. CASE s.screen = "error"
    BY <1>1, <2>2 DEF PressR, IsShown, IsView, Selects, Details, ShowsRuns, Fields
  <2>3. CASE s.screen \notin {"newEval", "error"}
    BY <1>1, <2>3, RefreshShows DEF PressR
  <2>4. QED
    BY <2>1, <2>2, <2>3
<1>3. QED
  BY <1>1, <1>2 DEF ViewIInv, IsShown

------------------------------------------------------------------------------
(* Runs that end, and runs of others                                        *)

\* A row recorded is the first of the table, whoever records it.
LEMMA NewRowIsFirst ==
  ASSUME IsTable(table), Len(table) < MaxRows
  PROVE  IsTable(NewRow)
<1>1. table \in Seq(Row) /\ Len(table) \in Nat
  BY LenProperties DEF IsTable
<1>2. <<Len(table) + 1>> \in Seq(Row)
  BY <1>1, ViewBounds DEF Row
<1>3. /\ NewRow \in Seq(Row) /\ Len(NewRow) = 1 + Len(table)
      /\ \A i \in 1..(1 + Len(table)) :
           NewRow[i] = IF i <= 1 THEN <<Len(table) + 1>>[i] ELSE table[i - 1]
  BY <1>1, <1>2, ConcatProperties DEF NewRow
<1>4. ASSUME NEW i \in 1..(1 + Len(table)) PROVE NewRow[i] = Len(NewRow) + 1 - i
  <2>1. CASE i = 1
    BY <1>1, <1>3, <2>1
  <2>2. CASE i # 1
    <3>1. i - 1 \in 1..Len(table)
      BY <1>1, <2>2
    <3>2. table[i - 1] = Len(table) + 1 - (i - 1)
      BY <1>1, <3>1, LenProperties DEF IsTable
    <3>3. QED
      BY <1>1, <1>3, <2>2, <3>2
  <2>3. QED
    BY <2>1, <2>2
<1>5. DOMAIN NewRow = 1..(1 + Len(table))
  BY <1>3, LenProperties
<1>6. QED
  BY <1>3, <1>4, <1>5 DEF IsTable

LEMMA RunEndsShows == ASSUME ViewIInv, RunEnds PROVE ViewIInv'
<1> DEFINE ended == [s EXCEPT !.screen = "detail", !.detail = NoDetail, !.runOffset = 0,
                              !.runIndex = 0, !.traceIndex = 0, !.traceOffset = 0]
           page == Page(NewRow, 0, size)
           listed == [ended EXCEPT !.runs = page, !.runTotal = Len(NewRow)]
<1>1. World /\ IsView(s) /\ table' = NewRow /\ size' = size
  BY DEF RunEnds, ViewIInv, IsShown
<1>2. IsTable(NewRow)
  BY <1>1, NewRowIsFirst DEF RunEnds, World
<1>3. World'
  BY <1>1, <1>2 DEF World, IsTable
<1>4. page \in Seq(Row) /\ NewestFirst(page)
  BY <1>1, <1>2, PageRows, SizePositive DEF World
<1>5. Len(NewRow) \in Nat /\ Len(page) \in Nat /\ (page # <<>> => Len(page) > 0)
  BY <1>2, <1>4, LenProperties, EmptySeq DEF IsTable
<1>6. s' \in {ShowRun(listed), BackendError(listed), BackendError(ended)}
  BY <1>1 DEF RunEnds
<1> HIDE DEF page
<1>7. IsView(ended) /\ IsView(listed) /\ listed.screen = "detail"
  BY <1>1, <1>4, <1>5 DEF IsView, Fields, NoDetail
<1>8. Selects(listed) /\ ShowsRuns(listed.screen)
  BY <1>1, <1>5 DEF IsView, Fields, Selects, ShowsRuns
<1>9. ASSUME NEW v, IsView(v) PROVE IsShown(BackendError(v))
  BY <1>9 DEF BackendError, IsShown, IsView, Selects, Details, ShowsRuns, Fields
<1> HIDE DEF ended, listed
<1>10. IsShown(s')
  BY <1>1, <1>6, <1>7, <1>8, <1>9, ShowRunShows
<1>11. QED
  BY <1>3, <1>10 DEF ViewIInv, IsShown

\* A run that fails, is cancelled or has no benchmark, the error of the last, another
\* client's run and a terminal of another height.
LEMMA OutsideShows ==
  ASSUME ViewIInv, RunFails \/ RunCancelled \/ RunUnselected \/ RefusalRead
                   \/ OtherRecords \/ Resize
  PROVE  ViewIInv'
<1>1. World /\ IsView(s) /\ (Unread \/ IsShown(s))
  BY DEF ViewIInv
<1>2. CASE RunFails
  <2>1. PICK seen \in 0..(size + 1) :
          s' = BackendError([s EXCEPT !.detail = NoDetail, !.traceIndex = Larger(0, seen - 1),
                                      !.traceOffset = Larger(0, seen - size)])
    BY <1>2 DEF RunFails
  <2>2. Larger(0, seen - 1) \in Nat /\ Larger(0, seen - size) \in Nat
    BY <1>1, SizePositive DEF World, Larger
  <2>3. IsShown(s')
    BY <1>1, <2>1, <2>2
       DEF BackendError, NoDetail, IsShown, IsView, Selects, Details, ShowsRuns, Fields
  <2>4. QED
    BY <1>1, <1>2, <2>3 DEF RunFails, ViewIInv, World, IsShown
<1>3. CASE RunCancelled
  <2>1. IsShown(s')
    BY <1>1, <1>3 DEF RunCancelled, NoDetail, IsShown, IsView, Selects, Details, ShowsRuns, Fields
  <2>2. QED
    BY <1>1, <1>3, <2>1 DEF RunCancelled, ViewIInv, World, IsShown
<1>4. CASE RunUnselected
  <2>1. IsView(s') /\ s'.screen = "detail" /\ refused'
    BY <1>1, <1>4 DEF RunUnselected, IsView, Fields
  <2>2. QED
    BY <1>1, <1>4, <2>1 DEF RunUnselected, ViewIInv, World, Unread
<1>8. CASE RefusalRead
  <2>1. IsShown(s')
    BY <1>1, <1>8
       DEF RefusalRead, BackendError, IsShown, IsView, Selects, Details, ShowsRuns, Fields
  <2>2. QED
    BY <1>1, <1>8, <2>1 DEF RefusalRead, ViewIInv, World, IsShown
<1>5. CASE OtherRecords
  <2>1. IsTable(NewRow)
    BY <1>1, <1>5, NewRowIsFirst DEF OtherRecords, World
  <2>2. QED
    BY <1>1, <1>5, <2>1 DEF OtherRecords, ViewIInv, World, Unread
<1>6. CASE Resize
  BY <1>1, <1>6 DEF Resize, ViewIInv, World, Unread
<1>7. QED
  BY <1>2, <1>3, <1>4, <1>5, <1>6, <1>8

------------------------------------------------------------------------------
(* The invariant and what follows from it                                   *)

LEMMA ViewStarts == Init => ViewIInv
<1> SUFFICES ASSUME Init PROVE ViewIInv
  OBVIOUS
<1> DEFINE f == [i \in 1..InitialRows |-> InitialRows + 1 - i]
<1>1. InitialRows \in Nat /\ \A i \in 1..InitialRows : f[i] \in Row
  BY ViewBounds DEF Row
<1>2. f \in Seq(Row) /\ Len(f) = InitialRows
  BY <1>1, IsASeq
<1>3. World
  BY <1>1, <1>2 DEF Init, World, IsTable
<1>4. IsShown(s)
  BY EmptySeq
     DEF Init, IsShown, IsView, NewestFirst, Selects, Details, ShowsRuns, Fields, NoDetail
<1>5. QED
  BY <1>3, <1>4 DEF ViewIInv, IsShown

LEMMA ViewStays == ViewIInv /\ [Next]_vars => ViewIInv'
<1> SUFFICES ASSUME ViewIInv, [Next]_vars PROVE ViewIInv'
  OBVIOUS
<1>1. CASE UNCHANGED vars
  BY <1>1 DEF vars, ViewIInv, World, Unread
<1>2. CASE PressDigit \/ PressEnter \/ PressB \/ PressD \/ PressF
  BY <1>2, OpeningShows
<1>3. CASE PressT \/ UpTrace \/ DownTrace
  BY <1>3, TraceKeyShows
<1>4. CASE PressR
  BY <1>4, PressRShows
<1>5. CASE UpRuns \/ DownRuns
  BY <1>5, RunsKeyShows
<1>6. CASE PageUp \/ PageDown \/ UpBenchmarks \/ DownBenchmarks
  BY <1>6, PagingShows
<1>7. CASE RunEnds
  BY <1>7, RunEndsShows
<1>8. CASE RunFails \/ RunCancelled \/ RunUnselected \/ RefusalRead \/ OtherRecords \/ Resize
  BY <1>8, OutsideShows
<1>9. QED
  BY <1>1, <1>2, <1>3, <1>4, <1>5, <1>6, <1>7, <1>8 DEF Next

\* After every key, refresh, failure and resize: the table is whole, and a screen that
\* shows runs has the selected one on its page and its detail, as refreshBackendState
\* (apps/cli/main.go) left them.
LEMMA ViewInvariant == Spec => []ViewIInv
BY ViewStarts, ViewStays, PTL DEF Spec

\* The row that refreshBackendState asks the details of exists, whatever was
\* pressed, recorded, resized and refused before: runs[runIndex] is never out of
\* range on a screen that reads it.
THEOREM SelectionExists == Spec => []SelectedRunExists
<1>1. ViewIInv => SelectedRunExists
  BY DEF ViewIInv, IsShown, Selects, SelectedRunExists
<1>2. QED
  BY <1>1, ViewInvariant, PTL

\* The detail and trace screens show the selected run and the page they say.
THEOREM DetailIsSelected == Spec => []ShownDetailIsSelected
<1>1. ViewIInv => ShownDetailIsSelected
  BY DEF ViewIInv, IsShown, Details, ShownDetailIsSelected
<1>2. QED
  BY <1>1, ViewInvariant, PTL

\* No page of runs lists a run twice or out of order, and none of a run's events more
\* of them than it has, although the pages are loaded while others record runs.
THEOREM PagesOrdered == Spec => []PagesInOrder
<1>1. ViewIInv => PagesInOrder
  BY DEF ViewIInv, IsShown, IsView, NewestFirst, PagesInOrder
<1>2. QED
  BY <1>1, ViewInvariant, PTL

------------------------------------------------------------------------------
(* The next page                                                            *)

\* Only list-runs leaves for the list of runs, with the page of its offset.
LEMMA RefreshLists ==
  ASSUME World, NEW t, IsView(t), NEW u \in Refreshed(t), u.screen = "runs"
  PROVE  u.runOffset = t.runOffset /\ u.runs = Page(table, t.runOffset, size)
<1>1. ASSUME NEW v, IsView(v) PROVE BackendError(v).screen = "error"
  BY <1>1 DEF BackendError, IsView, Fields
<1>2. CASE t.screen = "runs"
  <2>1. u \in {ListRuns(t), BackendError(t)}
    BY <1>2 DEF Refreshed
  <2>2. QED
    BY <1>1, <2>1, ListRunsShows
<1>3. CASE t.screen \in {"detail", "trace"}
  <2>1. u \in {ShowRun(ListRuns(t)), BackendError(ListRuns(t)), BackendError(t)}
    BY <1>3 DEF Refreshed
  <2>2. IsView(ListRuns(t)) /\ Selects(ListRuns(t)) /\ ShowsRuns(ListRuns(t).screen)
        /\ ListRuns(t).screen = t.screen
    BY <1>3, ListRunsShows DEF ShowsRuns
  <2>3. ShowRun(ListRuns(t)).screen = t.screen
    BY <2>2, ShowRunShows
  <2>4. QED
    BY <1>1, <1>3, <2>1, <2>2, <2>3
<1>4. CASE t.screen = "newEval"
  <2>1. u \in {FilterBenchmarks([t EXCEPT !.cacheLoaded = TRUE]), BackendError(t)}
    BY <1>4 DEF Refreshed
  <2>2. FilterBenchmarks([t EXCEPT !.cacheLoaded = TRUE]).screen = "newEval"
    BY <1>4 DEF FilterBenchmarks, IsView, Fields
  <2>3. QED
    BY <1>1, <2>1, <2>2
<1>5. CASE t.screen \notin {"runs", "detail", "trace", "newEval"}
  BY <1>5 DEF Refreshed
<1>6. QED
  BY <1>2, <1>3, <1>4, <1>5

\* A key that asks for another page of runs shows it, or the error screen; one
\* that does not leaves the page where it was.
LEMMA ShowLists ==
  ASSUME World, IsView(s), NEW t, IsView(t), Show(t), s.screen = "runs", s'.screen = "runs"
  PROVE  /\ s'.runOffset = t.runOffset
         /\ t.runOffset # s.runOffset => s'.runs = Page(table, t.runOffset, size)
<1>1. CASE NeedsRefresh(t)
  BY <1>1, RefreshLists DEF Show
<1>2. CASE ~NeedsRefresh(t)
  BY <1>2 DEF Show, NeedsRefresh
<1>3. QED
  BY <1>1, <1>2

\* The two keys that go on start after the last row that is shown.
LEMMA NextRunsFollows ==
  ASSUME World, IsView(s), Show(NextRuns), s.screen = "runs", s'.screen = "runs",
         s'.runOffset > s.runOffset, s'.runs # <<>>
  PROVE  s'.runs[1] = table[s.runOffset + Len(s.runs) + 1]
<1> DEFINE offset == s.runOffset + Len(s.runs)
<1>1. s.runOffset \in Nat /\ offset \in Nat
  BY LenProperties DEF IsView
<1>2. IsView(NextRuns) /\ NextRuns.runOffset = offset
  BY <1>1 DEF NextRuns, IsView, Fields
<1>3. s'.runOffset = offset /\ s'.runs = Page(table, offset, size)
  BY <1>1, <1>2, ShowLists
<1>4. size \in Nat /\ IsTable(table)
  BY SizePositive DEF World
<1> HIDE DEF offset
<1>5. s'.runs[1] = table[offset + 1]
  BY <1>1, <1>3, <1>4, PageRows
<1>6. QED
  BY <1>5 DEF offset

\* Any other step leaves the list of runs, or its offset, or goes back.
LEMMA OthersStay ==
  ASSUME ViewIInv, Next, s.screen = "runs", s'.screen = "runs", s'.runOffset > s.runOffset
  PROVE  Show(NextRuns)
<1>1. World /\ IsView(s) /\ size \in Nat \ {0} /\ s.runOffset \in Nat
  BY SizePositive DEF ViewIInv, World, IsShown, IsView
<1>2. Back(s.runOffset) \in Nat /\ Back(s.runOffset) <= s.runOffset
  BY <1>1 DEF Back, Larger
<1>3. ASSUME NEW t, IsView(t), Show(t), t.runOffset <= s.runOffset PROVE FALSE
  BY <1>1, <1>3, ShowLists, SMTT(30) DEF IsView
<1>4. ASSUME NEW to, Show([s EXCEPT !.screen = to]) PROVE FALSE
  <2>1. IsView([s EXCEPT !.screen = to]) /\ [s EXCEPT !.screen = to].runOffset <= s.runOffset
    BY <1>1 DEF IsView, Fields
  <2>2. QED
    BY <1>1, <1>3, <1>4, <2>1
<1>5. CASE PressDigit \/ PressEnter \/ PressB \/ PressD
  BY <1>4, <1>5 DEF PressDigit, PressEnter, PressB, PressD
<1>6. CASE PressT
  <2> DEFINE t == [s EXCEPT !.screen = "trace", !.traceIndex = 0, !.traceOffset = 0]
  <2>1. IsView(t) /\ t.runOffset <= s.runOffset
    BY <1>1 DEF IsView, Fields
  <2>2. QED
    BY <1>1, <1>3, <1>6, <2>1 DEF PressT
<1>7. CASE PressR
  <2>1. s' \in Refreshed(s)
    BY <1>7 DEF PressR
  <2>2. QED
    BY <1>1, <2>1, RefreshLists
<1>8. CASE PressF \/ UpBenchmarks \/ DownBenchmarks \/ UpTrace \/ DownTrace
  BY <1>8 DEF PressF, UpBenchmarks, DownBenchmarks, UpTrace, DownTrace
<1>9. CASE UpRuns
  <2>1. CASE Show([s EXCEPT !.runIndex = s.runIndex - 1]) /\ s.runIndex > 0
    <3>1. /\ IsView([s EXCEPT !.runIndex = s.runIndex - 1])
          /\ [s EXCEPT !.runIndex = s.runIndex - 1].runOffset <= s.runOffset
      BY <1>1, <2>1 DEF IsView, Fields
    <3>2. QED
      BY <1>1, <1>3, <2>1, <3>1
  <2>2. CASE Show([s EXCEPT !.runOffset = Back(s.runOffset), !.runIndex = size - 1])
    <3> DEFINE t == [s EXCEPT !.runOffset = Back(s.runOffset), !.runIndex = size - 1]
    <3>1. IsView(t) /\ t.runOffset = Back(s.runOffset)
      BY <1>1, <1>2 DEF IsView, Fields
    <3>2. QED
      BY <1>2, <1>3, <2>2, <3>1
  <2>3. QED
    BY <1>1, <1>9, <2>1, <2>2 DEF UpRuns, IsView, Fields
<1>10. CASE PageUp
  <2> DEFINE t == [s EXCEPT !.runOffset = Back(s.runOffset), !.runIndex = 0]
  <2>1. Show(t)
    BY <1>1, <1>10 DEF PageUp, IsView, Fields
  <2>2. IsView(t) /\ t.runOffset = Back(s.runOffset)
    BY <1>1, <1>2 DEF IsView, Fields
  <2>3. QED
    BY <1>2, <1>3, <2>1, <2>2
<1>11. CASE DownRuns
  <2>1. CASE Show([s EXCEPT !.runIndex = s.runIndex + 1])
    <3>1. /\ IsView([s EXCEPT !.runIndex = s.runIndex + 1])
          /\ [s EXCEPT !.runIndex = s.runIndex + 1].runOffset <= s.runOffset
      BY <1>1 DEF IsView, Fields
    <3>2. QED
      BY <1>1, <1>3, <2>1, <3>1
  <2>2. QED
    BY <1>1, <1>11, <2>1 DEF DownRuns, IsView, Fields
<1>12. CASE PageDown
  BY <1>12 DEF PageDown
<1>13. CASE RunEnds \/ RunFails \/ RunCancelled \/ RunUnselected
  BY <1>13 DEF RunEnds, RunFails, RunCancelled, RunUnselected, Starts
<1>16. CASE RefusalRead
  BY <1>1, <1>16 DEF RefusalRead, BackendError, IsView, Fields
<1>14. CASE OtherRecords \/ Resize
  BY <1>1, <1>14 DEF OtherRecords, Resize
<1>15. QED
  BY <1>5, <1>6, <1>7, <1>8, <1>9, <1>10, <1>11, <1>12, <1>13, <1>14, <1>16 DEF Next

\* The next page of results begins after the last row shown, whatever height the
\* terminal had when that was loaded and has now.
THEOREM PagesFollow == Spec => NextPageFollows
<1>1. ViewIInv /\ [Next]_vars =>
        [s.screen = "runs" /\ s'.screen = "runs" /\ s'.runOffset > s.runOffset /\ s'.runs # <<>>
         /\ s.runs = Page(table, s.runOffset, Len(s.runs))
           => s'.runs[1] = table[s.runOffset + Len(s.runs) + 1]]_vars
  <2> SUFFICES ASSUME ViewIInv, Next, s.screen = "runs", s'.screen = "runs",
                      s'.runOffset > s.runOffset, s'.runs # <<>>
               PROVE  s'.runs[1] = table[s.runOffset + Len(s.runs) + 1]
    BY DEF vars
  <2>1. World /\ IsView(s)
    BY DEF ViewIInv, IsShown
  <2>2. QED
    BY <2>1, OthersStay, NextRunsFollows
<1>2. QED
  BY <1>1, ViewInvariant, PTL DEF Spec, NextPageFollows
=============================================================================
