----------------------------- MODULE Catalogue -----------------------------
(***************************************************************************)
(* What can be evaluated: the benchmarks of the repository with their       *)
(* index.json, those that users create and those of installed samples.  A   *)
(* reader, list_benchmarks of scripts/tui_backend.py or one of the programs *)
(* that look for a benchmark by its id and load it, goes through the        *)
(* directories one by one and reads a file at a time, while creators and    *)
(* installers are at work.  Readers do not affect each other, so there is   *)
(* one, which makes one request after the other.                            *)
(***************************************************************************)
EXTENDS UserBenchmarks, SamplePackages, SequencesExt

CONSTANT Shipped  \* the paths in benchmarks/, all of them in index.json

ASSUME CatalogueAssumption ==
  /\ IsFiniteSet(Id) /\ IsFiniteSet(Package)
  /\ Shipped \subseteq Path
  /\ \A p \in Package : Members(p) \subseteq Path

VARIABLES todo,     \* the directories the reader has still to look at
          paths,    \* the files it has found and not read yet
          rows,     \* what it is going to answer
          request,  \* what it was asked for
          before    \* history: what users had created when it was asked

readerVars == <<todo, paths, rows, request, before>>
catalogueVars == <<userVars, sampleVars, readerVars>>

NoRequest == [kind |-> "none"]

ReaderInit ==
  /\ todo = <<>> /\ paths = <<>> /\ rows = {}
  /\ request = NoRequest
  /\ before = {}

CatalogueInit == UserInit /\ SampleInit /\ ReaderInit

Row(id, source, content) == [id |-> id, source |-> source, content |-> content]
Has(id) == \E row \in rows : row.id = id

\* What list_benchmarks takes from index.json.
Index == {Row(p[2], "sample", "shipped") : p \in Shipped}

\* Where a family is kept: in the repository, by the user, in the samples.
Directory(source, family) == [source |-> source, family |-> family]
File(source, path, package) == [source |-> source, path |-> path, package |-> package]

\* The files in a directory, as a sorted glob or is_file() sees them.
Files(d) ==
  LET of(ps) == {p \in ps : p[1] = d.family} IN
  CASE d.source = "shipped" -> {File("shipped", p, "none") : p \in of(Shipped)}
    [] d.source = "user" -> {File("user", p, "none") : p \in of({q \in Path : file[q] # "none"})}
    [] d.source = "samples" ->
         UNION {{File("samples", p, s) : p \in of(Members(s))} :
                  s \in {t \in Package : samples[t].content \in Package}}

\* What is in a file when it is read; and who defined it, if it is valid.
Text(f) ==
  CASE f.source = "shipped" -> "shipped"
    [] f.source = "user" -> file[f.path]
    [] f.source = "samples" -> samples[f.package].content

Loads(f) ==
  CASE Text(f) \in {"none", "empty"} -> {FALSE}
    [] Text(f) = "mixed" -> BOOLEAN
    [] OTHER -> {TRUE}

------------------------------------------------------------------------------
(* Requests                                                                 *)

\* Of each family a directory of one kind, then one of the other.
Alternate(one, other, families) ==
  [i \in 1..(2 * Len(families)) |->
     Directory(IF i % 2 = 1 THEN one ELSE other, families[(i + 1) \div 2])]

\* additional_benchmark_paths: the user's, then the samples'.
Additional(families) == Alternate("user", "samples", families)

\* resolve_benchmark_path of tui_backend.py, given an id: the repository's, then
\* the user's.
Resolve == Alternate("shipped", "user", Families)

\* resolve_benchmark of the API with source "user-created", and show-user-benchmark.
UserOnly == [i \in DOMAIN Families |-> Directory("user", Families[i])]

Ask(question, directories, known) ==
  /\ request' = question
  /\ todo' = directories
  /\ rows' = known /\ paths' = <<>>
  /\ before' = {c \in Creator : maker[c] = "created"}

AskList ==
  \E families \in {Families} \cup {<<Families[i]>> : i \in DOMAIN Families} :
    Ask([kind |-> "list", families |-> ToSet(families)], Additional(families), Index)

AskOne ==
  \E id \in Id, directories \in {Resolve, UserOnly} :
    Ask([kind |-> "one", id |-> id], directories, {})

AskReader ==
  /\ todo = <<>> /\ paths = <<>>
  /\ AskList \/ AskOne
  /\ UNCHANGED <<userVars, sampleVars>>

\* One directory is looked through for all its files.
Glob ==
  /\ request.kind = "list" /\ todo # <<>>
  /\ paths' = paths \o SetToSeq(Files(Head(todo)))
  /\ todo' = Tail(todo)
  /\ UNCHANGED <<userVars, sampleVars, rows, request, before>>

\* One path is tried for the id.
Probe ==
  /\ request.kind = "one" /\ todo # <<>>
  /\ LET found == {f \in Files(Head(todo)) : f.path[2] = request.id} IN
       /\ paths' = SetToSeq(found)
       /\ todo' = IF found = {} THEN Tail(todo) ELSE <<>>
  /\ UNCHANGED <<userVars, sampleVars, rows, request, before>>

Source(f) == IF f.source = "user" THEN "user-created" ELSE "sample"

\* Mutant of ReadFile: the first file that is no benchmark ends the listing.
ReadUntilInvalid ==
  /\ todo = <<>> /\ paths # <<>>
  /\ LET f == Head(paths) IN \E loads \in Loads(f) :
       /\ paths' = IF loads THEN Tail(paths) ELSE <<>>
       /\ rows' = IF loads /\ ~Has(f.path[2])
                    THEN rows \cup {Row(f.path[2], Source(f), Text(f))} ELSE rows
  /\ UNCHANGED <<userVars, sampleVars, todo, request, before>>

\* load_benchmark: a file that is not valid gives no row and, asked for by its id,
\* an error; an id that is listed already is left out.
ReadFile ==
  /\ todo = <<>> /\ paths # <<>>
  /\ LET f == Head(paths) IN \E loads \in Loads(f) :
       rows' = IF loads /\ ~Has(f.path[2])
                 THEN rows \cup {Row(f.path[2], Source(f), Text(f))} ELSE rows
  /\ paths' = Tail(paths)
  /\ UNCHANGED <<userVars, sampleVars, todo, request, before>>

ReaderNext == AskReader \/ Glob \/ Probe \/ ReadFile

\* One process at a time takes a step.
CatalogueNext ==
  \/ UserNext /\ UNCHANGED <<sampleVars, readerVars>>
  \/ SampleNext /\ UNCHANGED <<userVars, readerVars>>
  \/ ReaderNext

CatalogueSpec == CatalogueInit /\ [][CatalogueNext]_catalogueVars

------------------------------------------------------------------------------
(* Properties                                                               *)

Answered == request # NoRequest /\ todo = <<>> /\ paths = <<>>

\* Where else a benchmark of the id may be.
Elsewhere(p) ==
  \/ \E q \in Path \ {p} : q[2] = p[2] /\ file[q] # "none"
  \/ p[2] \in {q[2] : q \in Shipped}
  \/ \E s \in Package : samples[s] # Absent /\ p[2] \in {q[2] : q \in Members(s)}

\* A benchmark that had been created before is found with what its creator gave,
\* in the listing of its family as user-created and by its id, although other
\* creators fail and leave files behind that cannot be read, and samples are
\* installed meanwhile.  If its id is taken, the listing has the id at least.
CreatedIsFound ==
  Answered =>
    \A c \in before : LET p == wants[c] IN p \notin rivals =>
      CASE request.kind = "list" ->
             p[1] \in request.families =>
               IF Elsewhere(p) THEN Has(p[2]) ELSE Row(p[2], "user-created", c) \in rows
        [] request.kind = "one" ->
             p[2] = request.id /\ ~Elsewhere(p) => Row(p[2], "user-created", c) \in rows
=============================================================================
