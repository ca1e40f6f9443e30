--------------------------- MODULE UserBenchmarks ---------------------------
(***************************************************************************)
(* save_custom_benchmark of packages/core/agent_eval/benchmark.py, run by   *)
(* the command create-benchmark of scripts/tui_backend.py.  Every command   *)
(* is a process of its own; they share the directory of user benchmarks,    *)
(* one file for each family and id.  Nothing locks that directory, and a    *)
(* process may die at any step.                                             *)
(***************************************************************************)
EXTENDS Naturals, Sequences, FiniteSets

CONSTANTS Creator,  \* create-benchmark commands
          Id        \* benchmark ids

\* The families save_custom_benchmark accepts, in the order they are searched.
Families == <<"generic", "coding">>

\* <family>/<id>.yaml
Path == {Families[i] : i \in DOMAIN Families} \X Id

ASSUME CreatorAssumption == Creator \cap {"none", "empty", "mixed"} = {}

VARIABLES file,    \* what is stored at a path: nothing, or whose benchmark
          maker,   \* where a creator is
          wants,   \* the path it was asked to create
          rivals   \* history: the paths two creators were at work on at once

userVars == <<file, maker, wants, rivals>>

\* A file that was opened and not written, and one that two have written.
Content == {"none", "empty", "mixed"} \cup Creator
NoPath == <<"none", "none">>

AtWork(c) == maker[c] \in {"tested", "opened"}

UserTypeOK ==
  /\ file \in [Path -> Content]
  /\ maker \in [Creator -> {"new", "refused", "exists", "tested", "opened", "created",
                            "failed", "killed"}]
  /\ wants \in [Creator -> Path \cup {NoPath}]
  /\ rivals \subseteq Path

UserInit ==
  /\ file = [p \in Path |-> "none"]
  /\ maker = [c \in Creator |-> "new"]
  /\ wants = [c \in Creator |-> NoPath]
  /\ rivals = {}

Becomes(c, place) == maker' = [maker EXCEPT ![c] = place]

\* The command line is no JSON, has no such fixture, or the schema, which knows
\* more families than are accepted, or the test of the family says no.
Refuse(c) ==
  /\ maker[c] = "new"
  /\ Becomes(c, "refused")
  /\ UNCHANGED <<file, wants, rivals>>

\* A creator that goes on to open p, and the history of it.
GoOn(c, p) ==
  /\ Becomes(c, "tested")
  /\ wants' = [wants EXCEPT ![c] = p]
  /\ rivals' = rivals \cup {q \in {p} : \E o \in Creator \ {c} : AtWork(o) /\ wants[o] = q}

\* Mutant of Test: a file that is there is written over.
TestNothing(c, p) == maker[c] = "new" /\ GoOn(c, p) /\ UNCHANGED file

\* target_path.exists(): FileExistsError, or the creator will open the path.
Test(c, p) ==
  /\ maker[c] = "new"
  /\ \/ /\ file[p] # "none"
        /\ Becomes(c, "exists")
        /\ UNCHANGED <<wants, rivals>>
     \/ /\ file[p] = "none"
        /\ GoOn(c, p)
  /\ UNCHANGED file

\* open("w") makes the file or cuts off what is in it.
Open(c) ==
  /\ maker[c] = "tested"
  /\ Becomes(c, "opened")
  /\ file' = [file EXCEPT ![wants[c]] = "empty"]
  /\ UNCHANGED <<wants, rivals>>

\* safe_dump and the close, then the answer "created".  Over what another wrote
\* after the file was opened, the rest of a longer text remains.
Write(c) ==
  /\ maker[c] = "opened"
  /\ Becomes(c, "created")
  /\ \E new \in {c, "mixed"} :
       /\ file[wants[c]] = "empty" => new = c
       /\ file' = [file EXCEPT ![wants[c]] = new]
  /\ UNCHANGED <<wants, rivals>>

\* The disk is full or gone: the command fails and removes nothing.
WriteFails(c) ==
  /\ AtWork(c)
  /\ Becomes(c, "failed")
  /\ UNCHANGED <<file, wants, rivals>>

Kill(c) ==
  /\ AtWork(c)
  /\ Becomes(c, "killed")
  /\ UNCHANGED <<file, wants, rivals>>

Create(c) == Refuse(c) \/ Open(c) \/ Write(c) \/ \E p \in Path : Test(c, p)

UserNext == \E c \in Creator : Create(c) \/ WriteFails(c) \/ Kill(c)

UserSpec == UserInit /\ [][UserNext]_userVars

------------------------------------------------------------------------------
(* Properties                                                               *)

\* A benchmark that was answered "created" is kept as it was: no later creator of
\* its id writes over it, whatever happened to the creators before it, unless two
\* were at work on the id at the same time (the test for the file and its opening
\* are two steps).
CreatedIsKept ==
  \A c \in Creator :
    (maker[c] = "created" /\ wants[c] \notin rivals) => file[wants[c]] = c
=============================================================================
