-------------------------- MODULE LocalData_proofs --------------------------
(***************************************************************************)
(* TLAPS proofs about the files of one machine.                            *)
(*                                                                         *)
(* User benchmarks, for any creators and ids. What keeps a benchmark is    *)
(* that at a path without rivals the file tells where the one creator that *)
(* may touch it is: nothing before it opens the file, the empty file until *)
(* it has written, then what it wrote.                                     *)
(*                                                                         *)
(* Sample packages, for any commands and packages. A command reads its ZIP *)
(* three times; the invariant says that what it reads is what it was asked *)
(* for from the first reading to the last, or the command is on record as  *)
(* stirred.                                                                *)
(*                                                                         *)
(* Transcripts, for any number of sessions, events and lines. An import    *)
(* only accepts a file that begins with a header and ends with a result;   *)
(* the invariant says that what lies between a header and the next header  *)
(* or cut line is of one session, and that a result ends its session.      *)
(*                                                                         *)
(* The catalogue, for any creators, installers, ids and packages.  While   *)
(* others are at work no file disappears; the invariant says of what had   *)
(* been created when the reader was asked that its directory is still to   *)
(* be searched, its file to be read, or its id answered.                   *)
(*                                                                         *)
(* The metrics, for any events.  What a loop over them has after so many   *)
(* of them is given by those it has passed: if not, there were a first     *)
(* event where the two part.                                               *)
(***************************************************************************)
EXTENDS Catalogue, Transcripts, Metrics, SequenceTheorems, FiniteSetTheorems,
        WellFoundedInduction, TLAPS

------------------------------------------------------------------------------
(* User benchmarks                                                          *)

\* Who has got past the test has a path.
HasPath ==
  \A c \in Creator : maker[c] \in {"tested", "opened", "created"} => wants[c] \in Path

\* Two at work on one path are on record.
RivalsKnown ==
  \A c, o \in Creator :
    (c # o /\ AtWork(c) /\ AtWork(o) /\ wants[c] = wants[o]) => wants[c] \in rivals

\* The file of a creator without rivals.
FileTells ==
  \A c \in Creator : wants[c] \notin rivals =>
    /\ maker[c] = "tested" => file[wants[c]] = "none"
    /\ maker[c] = "opened" => file[wants[c]] = "empty"
    /\ maker[c] = "created" => file[wants[c]] = c

UserIInv == UserTypeOK /\ HasPath /\ RivalsKnown /\ FileTells

LEMMA UserInitInvariant == UserInit => UserIInv
<1> SUFFICES ASSUME UserInit PROVE UserIInv
  OBVIOUS
<1> USE DEF UserInit
<1>1. UserTypeOK
  BY DEF UserTypeOK, Content
<1>2. HasPath /\ RivalsKnown /\ FileTells
  BY DEF HasPath, RivalsKnown, AtWork, FileTells
<1>3. QED
  BY <1>1, <1>2 DEF UserIInv

\* A creator that goes on to open a path where there is nothing.
LEMMA TestKeeps ==
  ASSUME UserIInv, NEW c \in Creator, NEW p \in Path, Test(c, p)
  PROVE  UserIInv'
<1> USE DEF UserIInv, Becomes
<1>1. CASE file[p] # "none"
  BY <1>1 DEF Test, UserTypeOK, HasPath, RivalsKnown, AtWork, FileTells
<1>2. CASE file[p] = "none"
  <2>1. /\ maker[c] = "new" /\ maker' = [maker EXCEPT ![c] = "tested"]
        /\ wants' = [wants EXCEPT ![c] = p]
        /\ rivals' = rivals \cup {q \in {p} : \E o \in Creator \ {c} : AtWork(o) /\ wants[o] = q}
        /\ UNCHANGED file
    BY <1>2 DEF Test, GoOn
  <2>2. UserTypeOK'
    BY <2>1 DEF UserTypeOK
  <2>3. HasPath'
    BY <2>1 DEF UserTypeOK, HasPath
  <2>4. RivalsKnown'
    BY <2>1 DEF UserTypeOK, RivalsKnown, AtWork
  <2>5. FileTells'
    BY <1>2, <2>1 DEF UserTypeOK, FileTells
  <2>6. QED
    BY <2>2, <2>3, <2>4, <2>5
<1>3. QED
  BY <1>1, <1>2

\* The file is opened: without rivals it belongs to nobody.
LEMMA OpenKeeps ==
  ASSUME UserIInv, NEW c \in Creator, Open(c)
  PROVE  UserIInv'
<1> USE DEF UserIInv, Becomes
<1>1. /\ maker[c] = "tested" /\ maker' = [maker EXCEPT ![c] = "opened"]
      /\ file' = [file EXCEPT ![wants[c]] = "empty"]
      /\ UNCHANGED <<wants, rivals>>
  BY DEF Open
<1>2. wants[c] \in Path
  BY <1>1 DEF HasPath
<1>3. UserTypeOK'
  BY <1>1, <1>2 DEF UserTypeOK, Content
<1>4. HasPath' /\ RivalsKnown'
  BY <1>1 DEF UserTypeOK, HasPath, RivalsKnown, AtWork
<1>5. FileTells'
  <2> SUFFICES ASSUME NEW o \in Creator, wants[o] \notin rivals
               PROVE  /\ maker'[o] = "tested" => file'[wants[o]] = "none"
                      /\ maker'[o] = "opened" => file'[wants[o]] = "empty"
                      /\ maker'[o] = "created" => file'[wants[o]] = o
    BY <1>1 DEF FileTells
  <2>1. CASE o = c
    BY <1>1, <1>2, <2>1 DEF UserTypeOK
  <2>2. CASE o # c /\ wants[o] = wants[c]
    <3>1. ~AtWork(o)
      BY <1>1, <2>2 DEF RivalsKnown, AtWork
    <3>2. file[wants[c]] = "none"
      BY <1>1, <2>2 DEF FileTells
    <3>3. maker[o] # "created"
      BY <2>2, <3>2, CreatorAssumption DEF FileTells
    <3>4. QED
      BY <1>1, <2>2, <3>1, <3>3 DEF UserTypeOK, AtWork
  <2>3. CASE wants[o] # wants[c]
    BY <1>1, <1>2, <2>3 DEF UserTypeOK, FileTells
  <2>4. QED
    BY <2>1, <2>2, <2>3
<1>6. QED
  BY <1>3, <1>4, <1>5

\* The file is written: without rivals it is still empty, and nobody else's.
LEMMA WriteKeeps ==
  ASSUME UserIInv, NEW c \in Creator, Write(c)
  PROVE  UserIInv'
<1> USE DEF UserIInv, Becomes
<1>1. PICK new \in {c, "mixed"} :
        /\ file[wants[c]] = "empty" => new = c
        /\ file' = [file EXCEPT ![wants[c]] = new]
  BY DEF Write
<1>2. /\ maker[c] = "opened" /\ maker' = [maker EXCEPT ![c] = "created"]
      /\ UNCHANGED <<wants, rivals>>
  BY DEF Write
<1>3. wants[c] \in Path
  BY <1>2 DEF HasPath
<1>4. UserTypeOK'
  BY <1>1, <1>2, <1>3 DEF UserTypeOK, Content
<1>5. HasPath' /\ RivalsKnown'
  BY <1>2 DEF UserTypeOK, HasPath, RivalsKnown, AtWork
<1>6. FileTells'
  <2> SUFFICES ASSUME NEW o \in Creator, wants[o] \notin rivals
               PROVE  /\ maker'[o] = "tested" => file'[wants[o]] = "none"
                      /\ maker'[o] = "opened" => file'[wants[o]] = "empty"
                      /\ maker'[o] = "created" => file'[wants[o]] = o
    BY <1>2 DEF FileTells
  <2>1. CASE o = c
    BY <1>1, <1>2, <1>3, <2>1 DEF UserTypeOK, FileTells
  <2>2. CASE o # c /\ wants[o] = wants[c]
    <3>1. ~AtWork(o)
      BY <1>2, <2>2 DEF RivalsKnown, AtWork
    <3>2. file[wants[c]] = "empty"
      BY <1>2, <2>2 DEF FileTells
    <3>3. maker[o] # "created"
      BY <2>2, <3>2, CreatorAssumption DEF FileTells
    <3>4. QED
      BY <1>2, <2>2, <3>1, <3>3 DEF UserTypeOK, AtWork
  <2>3. CASE wants[o] # wants[c]
    BY <1>1, <1>2, <1>3, <2>3 DEF UserTypeOK, FileTells
  <2>4. QED
    BY <2>1, <2>2, <2>3
<1>7. QED
  BY <1>4, <1>5, <1>6

\* A creator that ends without a result leaves the file as it is.
LEMMA EndKeeps ==
  ASSUME UserIInv, NEW c \in Creator, Refuse(c) \/ WriteFails(c) \/ Kill(c)
  PROVE  UserIInv'
<1>1. PICK end \in {"refused", "failed", "killed"} :
        maker' = [maker EXCEPT ![c] = end] /\ UNCHANGED <<file, wants, rivals>>
  BY DEF Refuse, WriteFails, Kill, Becomes
<1>2. QED
  BY <1>1 DEF UserIInv, UserTypeOK, HasPath, RivalsKnown, AtWork, FileTells

LEMMA UserStepInvariant == UserIInv /\ [UserNext]_userVars => UserIInv'
<1> SUFFICES ASSUME UserIInv, [UserNext]_userVars PROVE UserIInv'
  OBVIOUS
<1>1. CASE UNCHANGED userVars
  BY <1>1 DEF userVars, UserIInv, UserTypeOK, HasPath, RivalsKnown, AtWork, FileTells
<1>2. ASSUME NEW c \in Creator, NEW p \in Path, Test(c, p) PROVE UserIInv'
  BY <1>2, TestKeeps
<1>3. ASSUME NEW c \in Creator, Open(c) \/ Write(c) PROVE UserIInv'
  BY <1>3, OpenKeeps, WriteKeeps
<1>4. ASSUME NEW c \in Creator, Refuse(c) \/ WriteFails(c) \/ Kill(c) PROVE UserIInv'
  BY <1>4, EndKeeps
<1>5. QED
  BY <1>1, <1>2, <1>3, <1>4 DEF UserNext, Create

------------------------------------------------------------------------------
(* Theorems                                                                 *)

\* The files, places and paths have their types: the directory holds nothing but
\* what creators put there.
THEOREM UserTypeCorrect == UserSpec => []UserTypeOK
<1>1. UserIInv => UserTypeOK
  BY DEF UserIInv
<1>2. QED
  BY <1>1, UserInitInvariant, UserStepInvariant, PTL DEF UserSpec

\* However many create-benchmark commands run, fail and die, a benchmark that was
\* answered "created" stays as it was unless two were at work on its id at once.
THEOREM Kept == UserSpec => []CreatedIsKept
<1>1. UserIInv => CreatedIsKept
  BY DEF UserIInv, FileTells, CreatedIsKept
<1>2. QED
  BY <1>1, UserInitInvariant, UserStepInvariant, PTL DEF UserSpec

------------------------------------------------------------------------------
(* Sample packages                                                          *)

Places == {"new", "receiving", "received", "verified", "validated", "absent", "staged",
           "installed", "exists", "failed", "killed"}
Bytes == Package \cup {"none", "partial", "damaged"}

SampleTypeOK ==
  /\ zip \in Bytes
  /\ place \in [Installer -> Places]
  /\ origin \in [Installer -> {"own", "download"}]
  /\ asked \in [Installer -> Package \cup {"none"}]
  /\ valid \in [Installer -> Package \cup {"none"}]
  /\ staged \in [Installer -> Package \cup {"none"}]
  /\ samples \in [Package -> [content : Bytes, by : Installer \cup {"none"}]]
  /\ stirred \subseteq Installer

\* A command that has started was asked for a package; until then it has no download.
AskedFor(i) ==
  /\ place[i] \notin {"new", "failed", "killed"} => asked[i] \in Package
  /\ place[i] = "new" => origin[i] = "own"

\* What a command that nobody disturbed reads, has validated and has copied.
ReadsAsked(i) ==
  i \notin stirred =>
    /\ place[i] \in {"verified", "validated", "absent"} => ZipOf(i) = asked[i]
    /\ place[i] \in {"validated", "absent", "staged"} => valid[i] = asked[i]
    /\ place[i] = "staged" => staged[i] = asked[i]

\* A sample directory was put there by a command that has ended.
InstalledBy(p) ==
  samples[p] # Absent =>
    /\ samples[p].by \in Installer
    /\ place[samples[p].by] = "installed"
    /\ samples[p].by \notin stirred =>
         samples[p].content = p /\ asked[samples[p].by] = p

SampleIInv ==
  /\ SampleTypeOK
  /\ \A i \in Installer : AskedFor(i) /\ ReadsAsked(i)
  /\ \A p \in Package : InstalledBy(p)

LEMMA SampleInitInvariant == SampleInit => SampleIInv
<1> SUFFICES ASSUME SampleInit PROVE SampleIInv
  OBVIOUS
<1> USE DEF SampleInit
<1>1. SampleTypeOK
  BY DEF SampleTypeOK, Places, Bytes, Absent
<1>2. \A i \in Installer : AskedFor(i) /\ ReadsAsked(i)
  BY DEF AskedFor, ReadsAsked
<1>3. \A p \in Package : InstalledBy(p)
  BY DEF InstalledBy
<1>4. QED
  BY <1>1, <1>2, <1>3 DEF SampleIInv

\* A step of command i that writes the ZIP and puts every command that trusts it on
\* record, and leaves the samples alone.
LEMMA StirKeeps ==
  ASSUME SampleIInv, NEW i \in Installer, NEW here \in {"receiving", "received", "failed"},
         place[i] \in {"new", "receiving", "received"},
         place' = [place EXCEPT ![i] = here],
         zip' \in Bytes,
         \/ here = "receiving" /\ (\E p \in Package : asked' = [asked EXCEPT ![i] = p])
              /\ origin' = [origin EXCEPT ![i] = "download"]
         \/ here # "receiving" /\ place[i] # "new" /\ UNCHANGED <<asked, origin>>,
         Stir, UNCHANGED <<valid, staged, samples>>
  PROVE  SampleIInv'
<1>1. SampleTypeOK'
  BY DEF SampleIInv, SampleTypeOK, Places, Stir
<1>2. ASSUME NEW o \in Installer PROVE AskedFor(o)' /\ ReadsAsked(o)'
  <2>1. CASE o = i
    BY <2>1 DEF SampleIInv, SampleTypeOK, AskedFor, ReadsAsked
  <2>2. CASE o # i
    <3>1. place'[o] = place[o] /\ asked'[o] = asked[o] /\ origin'[o] = origin[o]
      BY <2>2 DEF SampleIInv, SampleTypeOK
    <3>2. AskedFor(o)'
      BY <3>1 DEF SampleIInv, AskedFor
    <3>3. o \notin stirred' => o \notin stirred /\ ~Trusting(o)
      BY DEF Stir
    <3>4. ReadsAsked(o)'
      BY <3>1, <3>3 DEF SampleIInv, SampleTypeOK, ReadsAsked, ZipOf, Trusting
    <3>5. QED
      BY <3>2, <3>4
  <2>3. QED
    BY <2>1, <2>2
<1>3. ASSUME NEW p \in Package PROVE InstalledBy(p)'
  <2>1. place[i] # "installed" /\ stirred \subseteq stirred'
    BY DEF Stir
  <2>2. QED
    BY <2>1 DEF SampleIInv, SampleTypeOK, InstalledBy
<1>4. QED
  BY <1>1, <1>2, <1>3 DEF SampleIInv

\* A step of command i that leaves the ZIP, what was asked for and the samples alone.
LEMMA PlaceKeeps ==
  ASSUME SampleIInv, NEW i \in Installer, NEW here \in Places,
         place[i] # "installed", place' = [place EXCEPT ![i] = here],
         valid' \in [Installer -> Package \cup {"none"}],
         staged' \in [Installer -> Package \cup {"none"}],
         \A o \in Installer \ {i} : valid'[o] = valid[o] /\ staged'[o] = staged[o],
         UNCHANGED <<zip, origin, asked, samples, stirred>>,
         AskedFor(i)', ReadsAsked(i)'
  PROVE  SampleIInv'
<1>1. SampleTypeOK'
  BY DEF SampleIInv, SampleTypeOK
<1>2. ASSUME NEW o \in Installer PROVE AskedFor(o)' /\ ReadsAsked(o)'
  <2>1. CASE o = i
    BY <2>1
  <2>2. CASE o # i
    <3>1. place'[o] = place[o] /\ valid'[o] = valid[o] /\ staged'[o] = staged[o]
      BY <2>2 DEF SampleIInv, SampleTypeOK
    <3>2. QED
      BY <3>1 DEF SampleIInv, AskedFor, ReadsAsked, ZipOf
  <2>3. QED
    BY <2>1, <2>2
<1>3. ASSUME NEW p \in Package PROVE InstalledBy(p)'
  BY DEF SampleIInv, SampleTypeOK, InstalledBy
<1>4. QED
  BY <1>1, <1>2, <1>3 DEF SampleIInv

LEMMA DownloadKeeps ==
  ASSUME SampleIInv, NEW i \in Installer,
         (\E p \in Package : Download(i, p)) \/ Receive(i) \/ ReceiveFails(i) \/ Verify(i)
  PROVE  SampleIInv'
<1>1. ASSUME NEW p \in Package, Download(i, p) PROVE SampleIInv'
  BY <1>1, StirKeeps DEF Download, At, Bytes
<1>2. CASE Receive(i)
  <2>1. /\ place[i] = "receiving" /\ place' = [place EXCEPT ![i] = "received"]
        /\ UNCHANGED <<origin, asked, valid, staged, samples>>
    BY <1>2 DEF Receive, Close, At
  <2>2. CASE i \in writers
    <3>1. zip' \in Bytes /\ Stir
      BY <1>2, <2>2 DEF Receive, SampleIInv, SampleTypeOK, Bytes
    <3>2. QED
      BY <2>1, <3>1, StirKeeps
  <2>3. CASE i \notin writers
    <3>1. UNCHANGED <<zip, stirred>>
      BY <1>2, <2>3 DEF Receive
    <3>2. AskedFor(i)' /\ ReadsAsked(i)'
      BY <2>1 DEF SampleIInv, SampleTypeOK, AskedFor, ReadsAsked
    <3>3. QED
      BY <2>1, <3>1, <3>2, PlaceKeeps DEF SampleIInv, SampleTypeOK, Places
  <2>4. QED
    BY <2>2, <2>3
<1>3. CASE ReceiveFails(i)
  <2>1. AskedFor(i)' /\ ReadsAsked(i)'
    BY <1>3 DEF ReceiveFails, Close, At, SampleIInv, SampleTypeOK, AskedFor, ReadsAsked
  <2>2. QED
    BY <1>3, <2>1, PlaceKeeps DEF ReceiveFails, Close, At, SampleIInv, SampleTypeOK, Places
<1>4. CASE Verify(i)
  <2>1. CASE zip = asked[i]
    <3>1. /\ place[i] = "received" /\ place' = [place EXCEPT ![i] = "verified"]
          /\ UNCHANGED <<zip, stirred, origin, asked, valid, staged, samples>>
      BY <1>4, <2>1 DEF Verify, At
    <3>2. AskedFor(i)' /\ ReadsAsked(i)'
      BY <2>1, <3>1 DEF SampleIInv, SampleTypeOK, AskedFor, ReadsAsked, ZipOf
    <3>3. QED
      BY <3>1, <3>2, PlaceKeeps DEF SampleIInv, SampleTypeOK, Places
  <2>2. CASE zip # asked[i]
    <3>1. /\ place[i] = "received" /\ place' = [place EXCEPT ![i] = "failed"]
          /\ zip' \in Bytes /\ Stir
          /\ UNCHANGED <<origin, asked, valid, staged, samples>>
      BY <1>4, <2>2 DEF Verify, At, Bytes
    <3>2. QED
      BY <3>1, StirKeeps
  <2>3. QED
    BY <2>1, <2>2
<1>5. QED
  BY <1>1, <1>2, <1>3, <1>4

LEMMA InstallKeeps ==
  ASSUME SampleIInv, NEW i \in Installer, NEW p \in Package, Install(i, p)
  PROVE  SampleIInv'
<1>1. /\ place[i] = "new" /\ place' = [place EXCEPT ![i] = "verified"]
      /\ asked' = [asked EXCEPT ![i] = p]
      /\ UNCHANGED <<zip, origin, valid, staged, samples, stirred>>
  BY DEF Install, At
<1>2. SampleTypeOK'
  BY <1>1 DEF SampleIInv, SampleTypeOK, Places
<1>3. \A o \in Installer : AskedFor(o)' /\ ReadsAsked(o)'
  BY <1>1 DEF SampleIInv, SampleTypeOK, AskedFor, ReadsAsked, ZipOf
<1>4. \A s \in Package : InstalledBy(s)'
  BY <1>1 DEF SampleIInv, SampleTypeOK, InstalledBy
<1>5. QED
  BY <1>2, <1>3, <1>4 DEF SampleIInv

LEMMA ReadKeeps ==
  ASSUME SampleIInv, NEW i \in Installer,
         RefusePackage(i) \/ Validate(i) \/ FindSample(i) \/ Stage(i) \/ KillInstaller(i)
  PROVE  SampleIInv'
<1> USE DEF At, SampleIInv, SampleTypeOK
<1>1. CASE RefusePackage(i) \/ KillInstaller(i)
  <2>1. PICK here \in {"failed", "killed"} :
          /\ place[i] # "installed" /\ place' = [place EXCEPT ![i] = here]
          /\ UNCHANGED <<zip, origin, asked, valid, staged, samples, stirred>>
    BY <1>1 DEF RefusePackage, KillInstaller, Close, Running
  <2>2. AskedFor(i)' /\ ReadsAsked(i)'
    BY <2>1 DEF AskedFor, ReadsAsked
  <2>3. QED
    BY <2>1, <2>2, PlaceKeeps DEF Places
<1>2. CASE Validate(i)
  <2>1. /\ place[i] = "verified" /\ UNCHANGED <<zip, origin, asked, staged, samples, stirred>>
        /\ \/ /\ place' = [place EXCEPT ![i] = "validated"]
              /\ ZipOf(i) \in Package /\ valid' = [valid EXCEPT ![i] = ZipOf(i)]
           \/ place' = [place EXCEPT ![i] = "failed"] /\ UNCHANGED valid
    BY <1>2 DEF Validate
  <2>2. AskedFor(i)' /\ ReadsAsked(i)'
    BY <2>1 DEF AskedFor, ReadsAsked, ZipOf
  <2>3. QED
    BY <2>1, <2>2, PlaceKeeps DEF Places
<1>3. CASE FindSample(i)
  <2>1. PICK here \in {"absent", "exists"} : place' = [place EXCEPT ![i] = here]
    BY <1>3 DEF FindSample
  <2>2. /\ place[i] = "validated"
        /\ UNCHANGED <<zip, origin, asked, valid, staged, samples, stirred>>
    BY <1>3 DEF FindSample
  <2>3. AskedFor(i)' /\ ReadsAsked(i)'
    BY <2>1, <2>2 DEF AskedFor, ReadsAsked, ZipOf
  <2>4. QED
    BY <2>1, <2>2, <2>3, PlaceKeeps DEF Places
<1>4. CASE Stage(i)
  <2>1. /\ place[i] = "absent" /\ UNCHANGED <<zip, origin, asked, valid, samples, stirred>>
        /\ \/ /\ place' = [place EXCEPT ![i] = "staged"]
              /\ ZipOf(i) \in Package /\ staged' = [staged EXCEPT ![i] = ZipOf(i)]
           \/ place' = [place EXCEPT ![i] = "failed"] /\ UNCHANGED staged
    BY <1>4 DEF Stage
  <2>2. AskedFor(i)' /\ ReadsAsked(i)'
    BY <2>1 DEF AskedFor, ReadsAsked, ZipOf
  <2>3. QED
    BY <2>1, <2>2, PlaceKeeps DEF Places
<1>5. QED
  BY <1>1, <1>2, <1>3, <1>4

\* The directory appears: it is that of the package whose bytes were copied.
LEMMA MoveKeeps ==
  ASSUME SampleIInv, NEW i \in Installer, Move(i)
  PROVE  SampleIInv'
<1> USE DEF At, SampleIInv, SampleTypeOK
<1>1. CASE samples[valid[i]] = Absent
      /\ samples' = [samples EXCEPT ![valid[i]] = [content |-> staged[i], by |-> i]]
      /\ At(i, "installed")
  <2>1. place[i] = "staged" /\ place' = [place EXCEPT ![i] = "installed"]
        /\ UNCHANGED <<zip, origin, asked, valid, staged, stirred>>
    BY <1>1 DEF Move
  <2>2. SampleTypeOK'
    <3>1. [content |-> staged[i], by |-> i] \in [content : Bytes, by : Installer \cup {"none"}]
      BY DEF Bytes
    <3>2. samples' \in [Package -> [content : Bytes, by : Installer \cup {"none"}]]
      BY <1>1, <3>1
    <3>3. place' \in [Installer -> Places]
      BY <2>1 DEF Places
    <3>4. QED
      BY <2>1, <3>2, <3>3
  <2>3. \A o \in Installer : AskedFor(o)' /\ ReadsAsked(o)'
    BY <2>1 DEF AskedFor, ReadsAsked, ZipOf
  <2>4. ASSUME NEW p \in Package PROVE InstalledBy(p)'
    <3>1. CASE p = valid[i]
      <4>1. samples'[p] = [content |-> staged[i], by |-> i]
        BY <1>1, <3>1
      <4>2. place'[i] = "installed"
        BY <2>1
      <4>3. i \notin stirred => staged[i] = p /\ asked[i] = p
        BY <2>1, <3>1 DEF ReadsAsked
      <4>4. QED
        BY <2>1, <4>1, <4>2, <4>3 DEF InstalledBy
    <3>2. CASE p # valid[i]
      BY <1>1, <2>1, <3>2 DEF InstalledBy
    <3>3. QED
      BY <3>1, <3>2
  <2>5. QED
    BY <2>2, <2>3, <2>4
<1>2. CASE UNCHANGED samples /\ (At(i, "installed") \/ At(i, "failed"))
  <2>1. PICK here \in {"installed", "failed"} : place' = [place EXCEPT ![i] = here]
    BY <1>2
  <2>2. place[i] = "staged" /\ UNCHANGED <<zip, origin, asked, valid, staged, stirred>>
    BY DEF Move
  <2>3. AskedFor(i)' /\ ReadsAsked(i)'
    BY <2>1, <2>2 DEF AskedFor, ReadsAsked
  <2>4. QED
    BY <1>2, <2>1, <2>2, <2>3, PlaceKeeps DEF Places
<1>3. QED
  BY <1>1, <1>2 DEF Move

LEMMA SampleStepInvariant == SampleIInv /\ [SampleNext]_sampleVars => SampleIInv'
<1> SUFFICES ASSUME SampleIInv, [SampleNext]_sampleVars PROVE SampleIInv'
  OBVIOUS
<1>1. CASE UNCHANGED sampleVars
  BY <1>1 DEF sampleVars, SampleIInv, SampleTypeOK, AskedFor, ReadsAsked, InstalledBy, ZipOf
<1>2. CASE SampleNext
  <2>1. PICK i \in Installer : SampleStep(i) \/ KillInstaller(i)
    BY <1>2 DEF SampleNext
  <2>2. QED
    BY <2>1, DownloadKeeps, InstallKeeps, ReadKeeps, MoveKeeps DEF SampleStep
<1>3. QED
  BY <1>1, <1>2

------------------------------------------------------------------------------
(* Theorems                                                                 *)

\* However many commands download, install and die at once, a sample directory
\* holds the files of its package, those a download had the SHA-256 of, unless
\* another download touched the ZIP between its verification and its copying.
THEOREM Whole == SampleSpec => []InstalledIsWhole
<1>1. SampleIInv => InstalledIsWhole
  BY DEF SampleIInv, InstalledBy, InstalledIsWhole
<1>2. QED
  BY <1>1, SampleInitInvariant, SampleStepInvariant, PTL DEF SampleSpec

------------------------------------------------------------------------------
(* The catalogue                                                            *)

Directories ==
  [source : {"shipped", "user", "samples"}, family : {Families[i] : i \in DOMAIN Families}]

Readable ==
  [source : {"shipped", "user", "samples"}, path : Path, package : Package \cup {"none"}]

\* A file that is there.
There(f) ==
  \/ f.source = "shipped" /\ f.package = "none" /\ f.path \in Shipped
  \/ f.source = "user" /\ f.package = "none" /\ f.path \in Path /\ file[f.path] # "none"
  \/ /\ f.source = "samples" /\ f.package \in Package /\ f.path \in Members(f.package)
     /\ samples[f.package].content \in Package

\* The request has to answer with the benchmark at p.
Sought(p) ==
  \/ request.kind = "list" /\ p[1] \in request.families
  \/ request.kind = "one" /\ p[2] = request.id /\ ~Elsewhere(p)

\* The directory of p is still to be looked at, or its file to be read, or there is
\* an answer for its id.
Coming(p) ==
  \/ Directory("user", p[1]) \in ToSet(todo)
  \/ File("user", p, "none") \in ToSet(paths)
  \/ Has(p[2])

\* The reader holds what there is, and looks no further for an id that it has found.
InTurn ==
  /\ todo \in Seq(Directories) /\ paths \in Seq(Readable)
  /\ \A f \in ToSet(paths) : There(f)
  /\ request # NoRequest => request.kind \in {"list", "one"}
  /\ request.kind = "one" => todo = <<>> \/ paths = <<>>
  /\ \A c \in before : c \in Creator /\ maker[c] = "created"

\* What a creator without rivals has created comes in its turn, and no other answer
\* for its id unless the id is taken.
Heeded ==
  \A c \in before : LET p == wants[c] IN p \notin rivals =>
    /\ Sought(p) => Coming(p)
    /\ \A row \in rows : row.id = p[2] =>
         row = Row(p[2], "user-created", c) \/ Elsewhere(p)

CatalogueIInv == UserIInv /\ SampleIInv /\ InTurn /\ Heeded

\* The files of a directory as a sequence are all of its files.
LEMMA SequenceOfSet ==
  ASSUME NEW S, IsFiniteSet(S)
  PROVE  SetToSeq(S) \in Seq(S) /\ ToSet(SetToSeq(S)) = S
<1> DEFINE n == Cardinality(S)
           f == SetToSeq(S)
<1>1. n \in Nat /\ ExistsBijection(1..n, S)
  BY FS_CardinalityType
<1>2. \E g \in [1..n -> S] : IsInjective(g)
  BY <1>1 DEF ExistsBijection, Bijection, Injection, IsInjective
<1>3. f \in [1..n -> S] /\ IsInjective(f)
  <2> HIDE DEF n
  <2> QED BY <1>2 DEF SetToSeq, n
<1> HIDE DEF f, n
<1>4. f \in Injection(1..n, S)
  BY <1>3 DEF Injection, IsInjective
<1>5. IsFiniteSet(1..n) /\ Cardinality(1..n) = n
  BY <1>1, FS_Interval
<1>6. f \in Surjection(1..n, S)
  BY <1>4, <1>5, FS_Injection DEF n
<1>7. f \in Seq(S) /\ DOMAIN f = 1..n
  BY <1>1, <1>3
<1>8. ToSet(f) = S
  BY <1>3, <1>6, <1>7 DEF ToSet, Surjection
<1> QED BY <1>7, <1>8 DEF f

LEMMA ReadableFinite == IsFiniteSet(Readable)
<1> DEFINE Kinds == {"shipped", "user", "samples"}
           From == Kinds \X (Path \X (Package \cup {"none"}))
           f == [t \in From |-> [source |-> t[1], path |-> t[2][1], package |-> t[2][2]]]
<1>1. IsFiniteSet(Kinds)
  <2>1. IsFiniteSet({"shipped"} \cup {"user"})
    BY FS_Singleton, FS_AddElement
  <2>2. IsFiniteSet(({"shipped"} \cup {"user"}) \cup {"samples"})
    BY <2>1, FS_AddElement
  <2>3. Kinds = ({"shipped"} \cup {"user"}) \cup {"samples"}
    OBVIOUS
  <2> QED BY <2>2, <2>3
<1>2. IsFiniteSet(Path)
  <2>1. {Families[i] : i \in DOMAIN Families} = {"generic"} \cup {"coding"}
    BY DEF Families
  <2>2. IsFiniteSet({"generic"} \cup {"coding"})
    BY FS_Singleton, FS_AddElement
  <2> QED BY <2>1, <2>2, FS_Product, CatalogueAssumption DEF Path
<1>3. IsFiniteSet(Package \cup {"none"})
  BY FS_AddElement, CatalogueAssumption
<1>4. IsFiniteSet(From)
  BY <1>1, <1>2, <1>3, FS_Product
<1>5. f \in Surjection(From, Readable)
  <2>1. f \in [From -> Readable]
    BY DEF Readable
  <2>2. ASSUME NEW r \in Readable PROVE \E t \in From : f[t] = r
    <3>1. <<r.source, <<r.path, r.package>>>> \in From
      BY DEF Readable
    <3>2. f[<<r.source, <<r.path, r.package>>>>] = r
      BY <3>1 DEF Readable
    <3> QED BY <3>1, <3>2
  <2> HIDE DEF f, From
  <2> QED BY <2>1, <2>2 DEF Surjection
<1> QED BY <1>4, <1>5, FS_Surjection

\* What is in a sequence is its head or in its tail.
LEMMA HeadOrTail ==
  ASSUME NEW S, NEW s \in Seq(S), s # <<>>
  PROVE  /\ Head(s) \in S /\ Head(s) \in ToSet(s) /\ Tail(s) \in Seq(S)
         /\ \A x \in ToSet(s) : x = Head(s) \/ x \in ToSet(Tail(s))
         /\ ToSet(Tail(s)) \subseteq ToSet(s)
<1>1. /\ Len(s) \in Nat \ {0} /\ DOMAIN s = 1..Len(s) /\ Head(s) = s[1]
      /\ DOMAIN Tail(s) = 1..(Len(s) - 1)
      /\ \A i \in 1..(Len(s) - 1) : Tail(s)[i] = s[i + 1]
      /\ Head(s) \in S /\ Tail(s) \in Seq(S)
  OBVIOUS
<1>2. ASSUME NEW i \in 1..Len(s) PROVE s[i] = Head(s) \/ s[i] \in ToSet(Tail(s))
  <2>1. CASE i = 1
    BY <2>1, <1>1
  <2>2. CASE i # 1
    <3>1. i - 1 \in 1..(Len(s) - 1) /\ (i - 1) + 1 = i
      BY <2>2, <1>1
    <3> QED BY <3>1, <1>1 DEF ToSet
  <2> QED BY <2>1, <2>2
<1>3. \A i \in 1..(Len(s) - 1) : i + 1 \in 1..Len(s)
  BY <1>1
<1>4. 1 \in 1..Len(s)
  BY <1>1
<1> QED BY <1>1, <1>2, <1>3, <1>4 DEF ToSet

\* The file of p is in no other directory.
LEMMA FilesOfFamily ==
  ASSUME NEW d \in Directories, NEW p, File("user", p, "none") \in Files(d)
  PROVE  d = Directory("user", p[1])
<1>1. CASE d.source = "shipped"
  BY <1>1 DEF Files, File
<1>2. CASE d.source = "user"
  BY <1>2 DEF Files, File, Directory, Directories
<1>3. CASE d.source = "samples"
  <2>1. \E s, q : File("user", p, "none") = File("samples", q, s)
    BY <1>3 DEF Files
  <2> QED BY <2>1 DEF File
<1> QED BY <1>1, <1>2, <1>3 DEF Directories

\* What a reader finds in a directory.
LEMMA FilesAreThere ==
  ASSUME NEW d \in Directories, UserTypeOK
  PROVE  /\ Files(d) \subseteq Readable /\ IsFiniteSet(Files(d))
         /\ \A f \in Files(d) : There(f)
         /\ \A p \in Path : d = Directory("user", p[1]) /\ file[p] # "none" =>
              File("user", p, "none") \in Files(d)
<1>1. CASE d.source = "shipped"
  <2>1. Files(d) = {File("shipped", p, "none") : p \in {q \in Shipped : q[1] = d.family}}
    BY <1>1 DEF Files
  <2>2. Files(d) \subseteq Readable /\ \A f \in Files(d) : There(f)
    BY <2>1, CatalogueAssumption DEF There, File, Readable
  <2> QED BY <1>1, <2>2, ReadableFinite, FS_Subset DEF Directory
<1>2. CASE d.source = "user"
  <2>1. Files(d) = {File("user", p, "none") :
                      p \in {r \in {q \in Path : file[q] # "none"} : r[1] = d.family}}
    BY <1>2 DEF Files
  <2>2. Files(d) \subseteq Readable /\ \A f \in Files(d) : There(f)
    BY <2>1 DEF There, File, Readable
  <2>3. \A p \in Path : d = Directory("user", p[1]) /\ file[p] # "none" =>
              File("user", p, "none") \in Files(d)
    BY <2>1 DEF Directory
  <2> QED BY <2>2, <2>3, ReadableFinite, FS_Subset
<1>3. CASE d.source = "samples"
  <2>1. Files(d) = UNION {{File("samples", p, s) : p \in {q \in Members(s) : q[1] = d.family}} :
                            s \in {t \in Package : samples[t].content \in Package}}
    BY <1>3 DEF Files
  <2>2. Files(d) \subseteq Readable /\ \A f \in Files(d) : There(f)
    <3> SUFFICES ASSUME NEW f \in Files(d) PROVE f \in Readable /\ There(f)
      OBVIOUS
    <3>1. PICK s \in Package : /\ samples[s].content \in Package
                               /\ \E p \in Members(s) : f = File("samples", p, s)
      BY <2>1
    <3> QED BY <3>1, CatalogueAssumption DEF There, File, Readable
  <2> QED BY <1>3, <2>2, ReadableFinite, FS_Subset DEF Directory
<1> QED BY <1>1, <1>2, <1>3 DEF Directories

\* A file other than that of p that would be an answer for the id of p.
LEMMA OtherIsElsewhere ==
  ASSUME NEW p \in Path, NEW f \in Readable, There(f), f.path[2] = p[2],
         f # File("user", p, "none")
  PROVE  Elsewhere(p)
<1>1. CASE f.source = "shipped"
  BY <1>1 DEF There, Elsewhere
<1>2. CASE f.source = "user"
  <2>1. f.package = "none" /\ f.path \in Path /\ file[f.path] # "none"
    BY <1>2 DEF There
  <2>2. f.path # p
    BY <1>2, <2>1 DEF Readable, File
  <2> QED BY <2>1, <2>2 DEF Elsewhere
<1>3. CASE f.source = "samples"
  <2>1. /\ f.package \in Package /\ f.path \in Members(f.package)
        /\ samples[f.package].content \in Package
    BY <1>3 DEF There
  <2>2. samples[f.package] # Absent
    BY <2>1, PackageAssumption DEF Absent
  <2> QED BY <2>1, <2>2 DEF Elsewhere
<1> QED BY <1>1, <1>2, <1>3 DEF There

\* The path of what has been created.
LEMMA CreatedHasPath ==
  ASSUME UserIInv, InTurn, NEW c \in before, wants[c] \notin rivals
  PROVE  wants[c] \in Path /\ file[wants[c]] = c /\ c \notin {"none", "empty", "mixed"}
<1>1. c \in Creator /\ maker[c] = "created"
  BY DEF InTurn
<1> QED BY <1>1, CreatorAssumption DEF UserIInv, HasPath, FileTells

LEMMA CatalogueStarts == CatalogueInit => CatalogueIInv
<1> SUFFICES ASSUME CatalogueInit PROVE CatalogueIInv
  OBVIOUS
<1>1. UserIInv /\ SampleIInv
  BY UserInitInvariant, SampleInitInvariant DEF CatalogueInit
<1>2. InTurn /\ Heeded
  BY DEF CatalogueInit, ReaderInit, InTurn, Heeded, ToSet
<1> QED BY <1>1, <1>2 DEF CatalogueIInv


\* While others are at work no file and no sample disappears, and what has been
\* created stays where it is.
LEMMA UserStepKeeps ==
  ASSUME UserIInv, UserNext
  PROVE  /\ \A q \in Path : file[q] # "none" => file'[q] # "none"
         /\ \A c \in Creator : maker[c] = "created" =>
              maker'[c] = "created" /\ wants'[c] = wants[c]
         /\ rivals \subseteq rivals'
<1> USE DEF UserIInv, UserTypeOK, Becomes
<1>1. PICK c \in Creator : Create(c) \/ WriteFails(c) \/ Kill(c)
  BY DEF UserNext
<1>2. CASE \E p \in Path : Test(c, p)
  BY <1>2 DEF Test, GoOn
<1>3. CASE Open(c)
  BY <1>3 DEF Open
<1>4. CASE Write(c)
  <2>1. PICK text \in {c, "mixed"} : file' = [file EXCEPT ![wants[c]] = text]
    BY <1>4 DEF Write
  <2>2. text # "none"
    BY <2>1, CreatorAssumption
  <2> QED BY <1>4, <2>1, <2>2 DEF Write
<1>5. CASE Refuse(c) \/ WriteFails(c) \/ Kill(c)
  BY <1>5 DEF Refuse, WriteFails, Kill, AtWork
<1> QED BY <1>1, <1>2, <1>3, <1>4, <1>5 DEF Create

LEMMA SampleStepKeeps ==
  ASSUME SampleIInv, SampleNext
  PROVE  \A s \in Package : samples[s] # Absent => samples'[s] = samples[s]
<1>1. PICK i \in Installer : SampleStep(i) \/ KillInstaller(i)
  BY DEF SampleNext
<1>2. CASE Move(i)
  BY <1>2 DEF Move, SampleIInv, SampleTypeOK
<1>3. CASE ~Move(i)
  BY <1>1, <1>3 DEF SampleStep, RefusePackage, Receive, ReceiveFails, Verify, Validate,
                    FindSample, Stage, Download, Install, KillInstaller
<1> QED BY <1>2, <1>3

\* A step that is not the reader's takes nothing from what the reader will find.
LEMMA OthersKeep ==
  ASSUME CatalogueIInv, UNCHANGED readerVars,
         \A q \in Path : file[q] # "none" => file'[q] # "none",
         \A c \in Creator : maker[c] = "created" =>
           maker'[c] = "created" /\ wants'[c] = wants[c],
         rivals \subseteq rivals',
         \A s \in Package : samples[s] # Absent => samples'[s] = samples[s]
  PROVE  InTurn' /\ Heeded'
<1> USE DEF CatalogueIInv, readerVars
<1>1. ASSUME NEW f, There(f) PROVE There(f)'
  <2>1. CASE f.source = "shipped"
    BY <1>1, <2>1 DEF There
  <2>2. CASE f.source = "user"
    BY <1>1, <2>2 DEF There
  <2>3. CASE f.source = "samples"
    <3>1. f.package \in Package /\ samples[f.package].content \in Package
      BY <1>1, <2>3 DEF There
    <3>2. samples[f.package] # Absent
      BY <3>1, PackageAssumption DEF Absent
    <3> QED BY <1>1, <2>3, <3>1, <3>2 DEF There
  <2> QED BY <1>1, <2>1, <2>2, <2>3 DEF There
<1>2. ASSUME NEW p, Elsewhere(p) PROVE Elsewhere(p)'
  BY <1>2 DEF Elsewhere, Absent
<1>3. InTurn'
  BY <1>1 DEF InTurn, ToSet
<1>4. ASSUME NEW c \in before', wants'[c] \notin rivals'
      PROVE  /\ Sought(wants[c])' => Coming(wants[c])'
             /\ \A row \in rows' : row.id = wants'[c][2] =>
                  row = Row(wants'[c][2], "user-created", c) \/ Elsewhere(wants[c])'
  <2>1. c \in before /\ wants'[c] = wants[c] /\ wants[c] \notin rivals
    BY <1>4 DEF InTurn
  <2> DEFINE p == wants[c]
  <2>2. p' = p
    BY <2>1
  <2>3. /\ Sought(p) => Coming(p)
        /\ \A row \in rows : row.id = p[2] =>
             row = Row(p[2], "user-created", c) \/ Elsewhere(p)
    BY <2>1 DEF Heeded
  <2>4. Elsewhere(p) => Elsewhere(p)'
    <3> HIDE DEF p
    <3>1. PICK q : q = p
      OBVIOUS
    <3>2. Elsewhere(q) => Elsewhere(q)'
      BY <1>2
    <3> QED BY <2>2, <3>1, <3>2 DEF Elsewhere
  <2> HIDE DEF p
  <2>5. Coming(p) => Coming(p)'
    BY <2>2 DEF Coming, Has, ToSet
  <2>6. Sought(p)' => Sought(p)
    BY <2>2, <2>4 DEF Sought
  <2>7. /\ Sought(p)' => Coming(p)'
        /\ \A row \in rows' : row.id = p'[2] =>
             row = Row(p'[2], "user-created", c) \/ Elsewhere(p)'
    BY <2>2, <2>3, <2>4, <2>5, <2>6
  <2> QED BY <2>7 DEF p
<1> QED BY <1>3, <1>4 DEF Heeded

\* Both directories of every family are looked at.
LEMMA AlternateHasAll ==
  ASSUME NEW one \in {"shipped", "user", "samples"}, NEW other \in {"shipped", "user", "samples"},
         NEW families \in Seq({Families[i] : i \in DOMAIN Families})
  PROVE  /\ Alternate(one, other, families) \in Seq(Directories)
         /\ \A k \in 1..Len(families) :
              /\ Directory(one, families[k]) \in ToSet(Alternate(one, other, families))
              /\ Directory(other, families[k]) \in ToSet(Alternate(one, other, families))
<1> DEFINE n == Len(families)
           S == {Families[i] : i \in DOMAIN Families}
           entry(i) == Directory(IF i % 2 = 1 THEN one ELSE other, families[(i + 1) \div 2])
           all == [i \in 1..(2 * n) |-> entry(i)]
<1>1. n \in Nat /\ \A k \in 1..n : families[k] \in S
  <2> HIDE DEF S
  <2> QED BY DEF S
<1>2. all = Alternate(one, other, families)
  BY DEF Alternate
<1>3. ASSUME NEW i \in 1..(2 * n) PROVE entry(i) \in Directories
  <2>1. (i + 1) \div 2 \in 1..n
    BY <1>1
  <2>2. families[(i + 1) \div 2] \in S
    BY <2>1, <1>1
  <2> QED BY <2>2 DEF Directory, Directories
<1>4. all \in Seq(Directories) /\ DOMAIN all = 1..(2 * n)
  <2> HIDE DEF entry
  <2> QED BY <1>1, <1>3
<1>5. ASSUME NEW k \in 1..n
      PROVE  Directory(one, families[k]) \in ToSet(all) /\ Directory(other, families[k]) \in ToSet(all)
  <2>1. /\ 2 * k - 1 \in 1..(2 * n) /\ (2 * k - 1) % 2 = 1
        /\ ((2 * k - 1) + 1) \div 2 = k
    BY <1>1
  <2>2. 2 * k \in 1..(2 * n) /\ (2 * k) % 2 = 0 /\ (2 * k + 1) \div 2 = k
    BY <1>1
  <2>3. all[2 * k - 1] = Directory(one, families[k])
    BY <2>1
  <2>4. all[2 * k] = Directory(other, families[k])
    BY <2>2
  <2> HIDE DEF all
  <2> QED BY <2>1, <2>2, <2>3, <2>4, <1>4 DEF ToSet
<1> HIDE DEF all
<1> QED BY <1>2, <1>4, <1>5

\* A family is among those of a request.
LEMMA FamiliesListed ==
  /\ Families \in Seq({Families[i] : i \in DOMAIN Families})
  /\ \A i \in DOMAIN Families : <<Families[i]>> \in Seq({Families[j] : j \in DOMAIN Families})
  /\ \A p \in Path : \E i \in 1..Len(Families) : p[1] = Families[i]
BY DEF Families, Path

LEMMA UserOnlyHasAll ==
  /\ UserOnly \in Seq(Directories)
  /\ \A i \in 1..Len(Families) : Directory("user", Families[i]) \in ToSet(UserOnly)
<1>1. DOMAIN Families = 1..2 /\ Len(Families) = 2
  BY DEF Families
<1>2. UserOnly = [i \in 1..2 |-> Directory("user", Families[i])]
  BY <1>1 DEF UserOnly
<1>3. \A i \in 1..2 : Directory("user", Families[i]) \in Directories
  BY <1>1 DEF Directory, Directories
<1>4. UserOnly \in Seq(Directories) /\ DOMAIN UserOnly = 1..2
  BY <1>2, <1>3
<1> QED BY <1>1, <1>2, <1>4 DEF ToSet

\* Nobody but the reader is at work.
LEMMA ReaderAlone ==
  ASSUME UNCHANGED <<userVars, sampleVars>>
  PROVE  /\ \A p : Elsewhere(p)' <=> Elsewhere(p)
         /\ \A f : There(f)' <=> There(f)
BY DEF userVars, sampleVars, Elsewhere, There

\* It is enough to look at the paths of the creators that are heeded.
LEMMA HeededAfter ==
  ASSUME UNCHANGED <<userVars, sampleVars>>,
         \A c \in before' : \A p : p = wants[c] /\ p \notin rivals =>
           /\ Sought(p)' => Coming(p)'
           /\ \A row \in rows' : row.id = p[2] =>
                row = Row(p[2], "user-created", c) \/ Elsewhere(p)
  PROVE  Heeded'
<1> SUFFICES ASSUME NEW c \in before', wants'[c] \notin rivals'
             PROVE  /\ Sought(wants[c])' => Coming(wants[c])'
                    /\ \A row \in rows' : row.id = wants'[c][2] =>
                         row = Row(wants'[c][2], "user-created", c) \/ Elsewhere(wants[c])'
  BY DEF Heeded
<1>1. wants' = wants /\ rivals' = rivals
  BY DEF userVars
<1>2. PICK p : p = wants[c]
  OBVIOUS
<1>3. /\ Sought(p)' => Coming(p)'
      /\ \A row \in rows' : row.id = p[2] =>
           row = Row(p[2], "user-created", c) \/ Elsewhere(p)
  BY <1>1, <1>2
<1>4. Sought(wants[c])' <=> Sought(p)'
  BY <1>1, <1>2 DEF Sought, Elsewhere
<1>5. Coming(wants[c])' <=> Coming(p)'
  BY <1>1, <1>2 DEF Coming
<1>6. Elsewhere(wants[c])' <=> Elsewhere(p)
  <2>1. Elsewhere(wants[c])' <=> Elsewhere(p)'
    BY <1>1, <1>2 DEF Elsewhere
  <2> QED BY <2>1, ReaderAlone
<1> QED BY <1>1, <1>2, <1>3, <1>4, <1>5, <1>6

LEMMA AskKeeps ==
  ASSUME CatalogueIInv, AskReader
  PROVE  InTurn' /\ Heeded'
<1>1. UNCHANGED <<userVars, sampleVars>> /\ maker' = maker /\ wants' = wants
  BY DEF AskReader, userVars
<1>2. /\ paths' = <<>> /\ before' = {c \in Creator : maker[c] = "created"}
  BY DEF AskReader, AskList, AskOne, Ask
<1>3. /\ todo' \in Seq(Directories)
      /\ \A p \in Path : (Sought(p)' => Directory("user", p[1]) \in ToSet(todo'))
  <2>1. ASSUME AskList
        PROVE  /\ todo' \in Seq(Directories)
               /\ \A p \in Path : (Sought(p)' => Directory("user", p[1]) \in ToSet(todo'))
    <3>1. PICK families \in {Families} \cup {<<Families[i]>> : i \in DOMAIN Families} :
            Ask([kind |-> "list", families |-> ToSet(families)], Additional(families), Index)
      BY <2>1 DEF AskList
    <3>2. families \in Seq({Families[i] : i \in DOMAIN Families})
      BY <3>1, FamiliesListed
    <3>3. todo' = Alternate("user", "samples", families)
      BY <3>1 DEF Ask, Additional
    <3>4. ASSUME NEW p \in Path, Sought(p)' PROVE \E k \in 1..Len(families) : p[1] = families[k]
      <4>1. p[1] \in ToSet(families)
        BY <3>1, <3>4 DEF Ask, Sought
      <4> QED BY <4>1, <3>2 DEF ToSet
    <3> QED BY <3>2, <3>3, <3>4, AlternateHasAll
  <2>2. ASSUME AskOne
        PROVE  /\ todo' \in Seq(Directories)
               /\ \A p \in Path : Directory("user", p[1]) \in ToSet(todo')
    <3>1. todo' = Resolve \/ todo' = UserOnly
      BY <2>2 DEF AskOne, Ask
    <3>2. /\ Resolve \in Seq(Directories)
          /\ \A k \in 1..Len(Families) : Directory("user", Families[k]) \in ToSet(Resolve)
      BY FamiliesListed, AlternateHasAll DEF Resolve
    <3>3. todo' \in Seq(Directories)
      BY <3>1, <3>2, UserOnlyHasAll
    <3>4. \A k \in 1..Len(Families) : Directory("user", Families[k]) \in ToSet(todo')
      BY <3>1, <3>2, UserOnlyHasAll
    <3> QED BY <3>3, <3>4, FamiliesListed
  <2> QED BY <2>1, <2>2 DEF AskReader
<1>4. InTurn'
  <2>1. request'.kind \in {"list", "one"}
    BY DEF AskReader, AskList, AskOne, Ask
  <2> QED BY <1>1, <1>2, <1>3, <2>1 DEF InTurn, ToSet
<1>5. rows' \subseteq Index
  BY DEF AskReader, AskList, AskOne, Ask
<1>6. ASSUME NEW c \in before', NEW p, p = wants[c]
      PROVE  /\ Sought(p)' => Coming(p)'
             /\ \A row \in rows' : row.id = p[2] => Elsewhere(p)
  <2>1. p \in Path
    BY <1>2, <1>6 DEF CatalogueIInv, UserIInv, HasPath
  <2>2. Sought(p)' => Coming(p)'
    BY <2>1, <1>3 DEF Coming
  <2>3. \A row \in rows' : row.id = p[2] => Elsewhere(p)
    BY <1>5 DEF Index, Row, Elsewhere
  <2> QED BY <2>2, <2>3
<1>7. Heeded'
  BY <1>1, <1>6, HeededAfter
<1> QED BY <1>4, <1>7

\* What a directory gives is waited for instead of the directory.
LEMMA GlobKeeps ==
  ASSUME CatalogueIInv, Glob
  PROVE  InTurn' /\ Heeded'
<1> DEFINE d == Head(todo)
           found == SetToSeq(Files(d))
<1>1. /\ UNCHANGED <<userVars, sampleVars>> /\ rows' = rows /\ request' = request
      /\ before' = before /\ request.kind = "list" /\ todo # <<>>
      /\ paths' = paths \o found /\ todo' = Tail(todo)
      /\ maker' = maker /\ file' = file
  BY DEF Glob, userVars
<1>2. /\ todo \in Seq(Directories) /\ paths \in Seq(Readable) /\ UserTypeOK
      /\ \A f \in ToSet(paths) : There(f)
      /\ \A c \in before : c \in Creator /\ maker[c] = "created"
  BY DEF CatalogueIInv, InTurn, UserIInv
<1>3. d \in Directories /\ todo' \in Seq(Directories)
      /\ \A x \in ToSet(todo) : x = d \/ x \in ToSet(todo')
  BY <1>1, <1>2, HeadOrTail
<1> HIDE DEF d
<1>4. found \in Seq(Readable) /\ ToSet(found) = Files(d)
  <2>1. Files(d) \subseteq Readable /\ IsFiniteSet(Files(d))
    BY <1>2, <1>3, FilesAreThere
  <2>2. found \in Seq(Files(d)) /\ ToSet(found) = Files(d)
    BY <2>1, SequenceOfSet
  <2> HIDE DEF found
  <2> QED BY <2>1, <2>2
<1> HIDE DEF found
<1>5. paths' \in Seq(Readable) /\ ToSet(paths') = ToSet(paths) \cup Files(d)
  <2>1. /\ Len(paths) \in Nat /\ Len(found) \in Nat
        /\ DOMAIN paths = 1..Len(paths) /\ DOMAIN found = 1..Len(found)
        /\ paths \o found \in Seq(Readable)
        /\ DOMAIN (paths \o found) = 1..(Len(paths) + Len(found))
        /\ \A i \in 1..Len(paths) : (paths \o found)[i] = paths[i]
        /\ \A i \in 1..Len(found) : (paths \o found)[Len(paths) + i] = found[i]
        /\ \A i \in 1..(Len(paths) + Len(found)) :
             i > Len(paths) => (paths \o found)[i] = found[i - Len(paths)]
    BY <1>2, <1>4
  <2>2. ToSet(paths \o found) \subseteq ToSet(paths) \cup ToSet(found)
    <3> SUFFICES ASSUME NEW i \in 1..(Len(paths) + Len(found))
                 PROVE  (paths \o found)[i] \in ToSet(paths) \cup ToSet(found)
      BY <2>1 DEF ToSet
    <3>1. CASE i \in 1..Len(paths)
      BY <3>1, <2>1 DEF ToSet
    <3>2. CASE i > Len(paths)
      <4>1. i - Len(paths) \in 1..Len(found)
        BY <3>2, <2>1
      <4> QED BY <4>1, <3>2, <2>1 DEF ToSet
    <3> QED BY <3>1, <3>2, <2>1
  <2>3. ToSet(paths) \subseteq ToSet(paths \o found)
    <3> SUFFICES ASSUME NEW i \in 1..Len(paths) PROVE paths[i] \in ToSet(paths \o found)
      BY <2>1 DEF ToSet
    <3>1. i \in 1..(Len(paths) + Len(found))
      BY <2>1
    <3> QED BY <3>1, <2>1 DEF ToSet
  <2>4. ToSet(found) \subseteq ToSet(paths \o found)
    <3> SUFFICES ASSUME NEW i \in 1..Len(found) PROVE found[i] \in ToSet(paths \o found)
      BY <2>1 DEF ToSet
    <3>1. Len(paths) + i \in 1..(Len(paths) + Len(found))
      BY <2>1
    <3> QED BY <3>1, <2>1 DEF ToSet
  <2> QED BY <1>1, <1>4, <2>1, <2>2, <2>3, <2>4
<1>6. InTurn'
  <2>1. \A f \in ToSet(paths') : There(f)'
    BY <1>1, <1>2, <1>3, <1>5, FilesAreThere, ReaderAlone
  <2> QED BY <2>1, <1>1, <1>2, <1>3, <1>5 DEF InTurn
<1>7. ASSUME NEW c \in before', NEW p, p = wants[c], p \notin rivals
      PROVE  /\ Sought(p)' => Coming(p)'
             /\ \A row \in rows' : row.id = p[2] =>
                  row = Row(p[2], "user-created", c) \/ Elsewhere(p)
  <2>1. p \in Path /\ file[p] # "none"
    BY <1>1, <1>7, CreatedHasPath DEF CatalogueIInv
  <2>2. /\ Sought(p) => Coming(p)
        /\ \A row \in rows : row.id = p[2] =>
             row = Row(p[2], "user-created", c) \/ Elsewhere(p)
    BY <1>1, <1>7 DEF CatalogueIInv, Heeded
  <2>3. Sought(p)' => Sought(p)
    BY <1>1 DEF Sought
  <2>4. Directory("user", p[1]) = d => File("user", p, "none") \in ToSet(paths')
    BY <2>1, <1>2, <1>3, <1>5, FilesAreThere
  <2>5. Coming(p) => Coming(p)'
    BY <1>1, <1>3, <1>5, <2>4 DEF Coming, Has
  <2> QED BY <1>1, <2>2, <2>3, <2>5
<1>8. Heeded'
  BY <1>1, <1>7, HeededAfter
<1> QED BY <1>6, <1>8

\* The first of the paths that is tried and exists is read, or the id is elsewhere.
LEMMA ProbeKeeps ==
  ASSUME CatalogueIInv, Probe
  PROVE  InTurn' /\ Heeded'
<1> DEFINE d == Head(todo)
           found == {f \in Files(d) : f.path[2] = request.id}
<1>1. /\ UNCHANGED <<userVars, sampleVars>> /\ rows' = rows /\ request' = request
      /\ before' = before /\ request.kind = "one" /\ todo # <<>>
      /\ paths' = SetToSeq(found) /\ todo' = IF found = {} THEN Tail(todo) ELSE <<>>
      /\ maker' = maker /\ file' = file
  BY DEF Probe, userVars
<1>2. /\ todo \in Seq(Directories) /\ paths = <<>> /\ UserTypeOK
      /\ \A c \in before : c \in Creator /\ maker[c] = "created"
  BY <1>1 DEF CatalogueIInv, InTurn, UserIInv
<1>3. d \in Directories /\ Tail(todo) \in Seq(Directories)
      /\ \A x \in ToSet(todo) : x = d \/ x \in ToSet(Tail(todo))
  BY <1>1, <1>2, HeadOrTail
<1> HIDE DEF d
<1>4. /\ Files(d) \subseteq Readable /\ IsFiniteSet(Files(d))
      /\ \A f \in Files(d) : There(f)
      /\ \A p \in Path : d = Directory("user", p[1]) /\ file[p] # "none" =>
           File("user", p, "none") \in Files(d)
  BY <1>2, <1>3, FilesAreThere
<1>5. paths' \in Seq(Readable) /\ ToSet(paths') = found
  <2>1. found \subseteq Files(d) /\ found \in SUBSET Files(d)
    OBVIOUS
  <2>2. IsFiniteSet(found) /\ found \subseteq Readable
    BY <2>1, <1>4, FS_Subset
  <2> HIDE DEF found
  <2>3. paths' \in Seq(found) /\ ToSet(paths') = found
    BY <2>2, <1>1, SequenceOfSet
  <2> QED BY <2>2, <2>3
<1>6. InTurn'
  <2>1. \A f \in ToSet(paths') : There(f)'
    BY <1>4, <1>5, <1>1, ReaderAlone
  <2>2. todo' \in Seq(Directories) /\ (todo' = <<>> \/ paths' = <<>>)
    <3>1. CASE found = {}
      <4>1. todo' = Tail(todo) /\ Len(paths') \in Nat /\ ToSet(paths') = {}
        BY <3>1, <1>1, <1>5
      <4>2. paths' = <<>>
        BY <4>1, <1>5 DEF ToSet
      <4> QED BY <4>1, <4>2, <1>3
    <3>2. CASE found # {}
      BY <3>2, <1>1
    <3> QED BY <3>1, <3>2
  <2> QED BY <2>1, <2>2, <1>1, <1>2, <1>5 DEF InTurn
<1>7. ASSUME NEW c \in before', NEW p, p = wants[c], p \notin rivals
      PROVE  /\ Sought(p)' => Coming(p)'
             /\ \A row \in rows' : row.id = p[2] =>
                  row = Row(p[2], "user-created", c) \/ Elsewhere(p)
  <2>1. p \in Path /\ file[p] # "none"
    BY <1>1, <1>7, CreatedHasPath DEF CatalogueIInv
  <2>2. /\ Sought(p) => Coming(p)
        /\ \A row \in rows : row.id = p[2] =>
             row = Row(p[2], "user-created", c) \/ Elsewhere(p)
    BY <1>1, <1>7 DEF CatalogueIInv, Heeded
  <2>3. ASSUME Sought(p)' PROVE Coming(p)'
    <3>1. p[2] = request.id /\ ~Elsewhere(p) /\ Sought(p)
      BY <2>3, <1>1, ReaderAlone DEF Sought
    <3>2. Directory("user", p[1]) \in ToSet(todo) \/ Has(p[2])
      BY <3>1, <2>2, <1>2 DEF Coming, ToSet
    <3>3. CASE d = Directory("user", p[1])
      <4>1. File("user", p, "none") \in found
        BY <3>3, <3>1, <2>1, <1>4 DEF File
      <4> QED BY <4>1, <1>5 DEF Coming
    <3>4. CASE d # Directory("user", p[1]) /\ Directory("user", p[1]) \in ToSet(todo)
      <4>1. \A f \in found : f # File("user", p, "none")
        BY <3>4, <1>3, FilesOfFamily
      <4>2. found = {}
        BY <4>1, <3>1, <2>1, <1>4, OtherIsElsewhere
      <4> QED BY <4>2, <3>4, <1>1, <1>3 DEF Coming
    <3>5. CASE Has(p[2])
      BY <3>5, <1>1 DEF Coming, Has
    <3> QED BY <3>2, <3>3, <3>4, <3>5
  <2> QED BY <1>1, <2>2, <2>3
<1>8. Heeded'
  BY <1>1, <1>7, HeededAfter
<1> QED BY <1>6, <1>8

\* What is read is the creator's, or another's that has the id too.
LEMMA ReadFileKeeps ==
  ASSUME CatalogueIInv, ReadFile
  PROVE  InTurn' /\ Heeded'
<1> DEFINE f == Head(paths)
<1>1. PICK loads \in Loads(f) :
        rows' = IF loads /\ ~Has(f.path[2])
                  THEN rows \cup {Row(f.path[2], Source(f), Text(f))} ELSE rows
  BY DEF ReadFile
<1>2. /\ UNCHANGED <<userVars, sampleVars>> /\ request' = request /\ todo' = todo
      /\ before' = before /\ todo = <<>> /\ paths # <<>> /\ paths' = Tail(paths)
      /\ maker' = maker /\ file' = file
  BY DEF ReadFile, userVars
<1>3. /\ todo \in Seq(Directories) /\ paths \in Seq(Readable)
      /\ \A g \in ToSet(paths) : There(g)
      /\ \A c \in before : c \in Creator /\ maker[c] = "created"
      /\ request # NoRequest => request.kind \in {"list", "one"}
  BY DEF CatalogueIInv, InTurn
<1>4. /\ f \in Readable /\ f \in ToSet(paths) /\ paths' \in Seq(Readable)
      /\ \A x \in ToSet(paths) : x = f \/ x \in ToSet(paths')
      /\ ToSet(paths') \subseteq ToSet(paths)
  BY <1>2, <1>3, HeadOrTail
<1> HIDE DEF f
<1>5. There(f)
  BY <1>3, <1>4
<1>6. InTurn'
  <2>1. \A g \in ToSet(paths') : There(g)'
    BY <1>2, <1>3, <1>4, ReaderAlone
  <2> QED BY <2>1, <1>2, <1>3, <1>4 DEF InTurn
<1>7. ASSUME NEW c \in before', NEW p, p = wants[c], p \notin rivals
      PROVE  /\ Sought(p)' => Coming(p)'
             /\ \A row \in rows' : row.id = p[2] =>
                  row = Row(p[2], "user-created", c) \/ Elsewhere(p)
  <2>1. p \in Path /\ file[p] = c /\ c \notin {"none", "empty", "mixed"}
    BY <1>2, <1>7, CreatedHasPath DEF CatalogueIInv
  <2>2. /\ Sought(p) => Coming(p)
        /\ \A row \in rows : row.id = p[2] =>
             row = Row(p[2], "user-created", c) \/ Elsewhere(p)
    BY <1>2, <1>7 DEF CatalogueIInv, Heeded
  <2>3. CASE f = File("user", p, "none")
    <3>1. /\ Text(f) = c /\ f.path = p /\ Source(f) = "user-created"
      BY <2>3, <2>1 DEF Text, File, Source
    <3>2. loads = TRUE
      BY <3>1, <2>1, <1>1 DEF Loads
    <3>3. Has(p[2])'
      <4>1. CASE Has(p[2])
        BY <4>1, <1>1 DEF Has
      <4>2. CASE ~Has(p[2])
        <5>1. Row(p[2], Source(f), Text(f)) \in rows'
          BY <4>2, <3>1, <3>2, <1>1
        <5>2. Row(p[2], Source(f), Text(f)).id = p[2]
          BY DEF Row
        <5> QED BY <5>1, <5>2 DEF Has
      <4> QED BY <4>1, <4>2
    <3>4. \A row \in rows' : row.id = p[2] =>
            row = Row(p[2], "user-created", c) \/ Elsewhere(p)
      BY <3>1, <2>2, <1>1
    <3> QED BY <3>3, <3>4 DEF Coming
  <2>4. CASE f # File("user", p, "none")
    <3>1. Sought(p)' => Sought(p)
      BY <1>2, ReaderAlone DEF Sought
    <3>2. Coming(p) => Coming(p)'
      BY <2>4, <1>1, <1>2, <1>4 DEF Coming, Has
    <3>3. f.path[2] = p[2] => Elsewhere(p)
      BY <2>1, <2>4, <1>4, <1>5, OtherIsElsewhere
    <3>4. \A row \in rows' : row.id = p[2] =>
            row = Row(p[2], "user-created", c) \/ Elsewhere(p)
      BY <3>3, <2>2, <1>1 DEF Row
    <3> QED BY <3>1, <3>2, <3>4, <2>2
  <2> QED BY <2>3, <2>4
<1>8. Heeded'
  BY <1>2, <1>7, HeededAfter
<1> QED BY <1>6, <1>8

LEMMA CatalogueStep == CatalogueIInv /\ [CatalogueNext]_catalogueVars => CatalogueIInv'
<1> SUFFICES ASSUME CatalogueIInv, [CatalogueNext]_catalogueVars PROVE CatalogueIInv'
  OBVIOUS
<1>1. ASSUME UserNext, UNCHANGED <<sampleVars, readerVars>> PROVE CatalogueIInv'
  <2>1. UserIInv' /\ SampleIInv'
    BY <1>1, UserStepInvariant, SampleStepInvariant DEF CatalogueIInv
  <2>2. samples' = samples
    BY <1>1 DEF sampleVars
  <2>3. InTurn' /\ Heeded'
    BY <1>1, <2>2, UserStepKeeps, OthersKeep DEF CatalogueIInv
  <2> QED BY <2>1, <2>3 DEF CatalogueIInv
<1>2. ASSUME SampleNext, UNCHANGED <<userVars, readerVars>> PROVE CatalogueIInv'
  <2>1. UserIInv' /\ SampleIInv'
    BY <1>2, UserStepInvariant, SampleStepInvariant DEF CatalogueIInv
  <2>2. UNCHANGED <<file, maker, wants, rivals>>
    BY <1>2 DEF userVars
  <2>3. InTurn' /\ Heeded'
    BY <1>2, <2>2, SampleStepKeeps, OthersKeep DEF CatalogueIInv
  <2> QED BY <2>1, <2>3 DEF CatalogueIInv
<1>3. ASSUME ReaderNext PROVE CatalogueIInv'
  <2>1. UNCHANGED <<userVars, sampleVars>>
    BY <1>3 DEF ReaderNext, AskReader, Glob, Probe, ReadFile
  <2>2. UserIInv' /\ SampleIInv'
    BY <2>1, UserStepInvariant, SampleStepInvariant DEF CatalogueIInv
  <2>3. InTurn' /\ Heeded'
    BY <1>3, AskKeeps, GlobKeeps, ProbeKeeps, ReadFileKeeps DEF ReaderNext
  <2> QED BY <2>2, <2>3 DEF CatalogueIInv
<1>4. CASE UNCHANGED catalogueVars
  <2>1. UNCHANGED userVars /\ UNCHANGED sampleVars /\ UNCHANGED readerVars
    BY <1>4 DEF catalogueVars
  <2>2. UserIInv' /\ SampleIInv'
    BY <2>1, UserStepInvariant, SampleStepInvariant DEF CatalogueIInv
  <2>3. InTurn' /\ Heeded'
    BY <2>1, OthersKeep DEF CatalogueIInv, userVars, sampleVars
  <2> QED BY <2>2, <2>3 DEF CatalogueIInv
<1> QED BY <1>1, <1>2, <1>3, <1>4 DEF CatalogueNext

\* Creators, installers and the reader keep out of each other's files: a behaviour
\* of the three together is one of the creators and one of the installers, so that
\* what is proved of UserSpec and SampleSpec holds while benchmarks are looked for.
THEOREM PartsUndisturbed == CatalogueSpec => UserSpec /\ SampleSpec
<1>1. CatalogueInit => UserInit /\ SampleInit
  BY DEF CatalogueInit
<1>2. ReaderNext => UNCHANGED userVars /\ UNCHANGED sampleVars
  BY DEF ReaderNext, AskReader, Glob, Probe, ReadFile
<1>3. [CatalogueNext]_catalogueVars => [UserNext]_userVars /\ [SampleNext]_sampleVars
  BY <1>2 DEF CatalogueNext, catalogueVars
<1> QED BY <1>1, <1>3, PTL DEF CatalogueSpec, UserSpec, SampleSpec

\* However many creators and installers are at work while a reader goes through the
\* directories, it finds every benchmark that had been created when it was asked,
\* with what its creator gave, unless the id is taken (list_benchmarks,
\* resolve_benchmark_path).
THEOREM Found == CatalogueSpec => []CreatedIsFound
<1>1. CatalogueIInv => CreatedIsFound
  <2> SUFFICES ASSUME CatalogueIInv, Answered, NEW c \in before, wants[c] \notin rivals
               PROVE  LET p == wants[c] IN
                        CASE request.kind = "list" ->
                               p[1] \in request.families =>
                                 IF Elsewhere(p) THEN Has(p[2])
                                                 ELSE Row(p[2], "user-created", c) \in rows
                          [] request.kind = "one" ->
                               p[2] = request.id /\ ~Elsewhere(p) =>
                                 Row(p[2], "user-created", c) \in rows
    BY DEF CreatedIsFound
  <2> DEFINE p == wants[c]
  <2>1. /\ Sought(p) => Has(p[2])
        /\ \A row \in rows : row.id = p[2] =>
             row = Row(p[2], "user-created", c) \/ Elsewhere(p)
    BY DEF CatalogueIInv, Heeded, Answered, Coming, ToSet
  <2>2. Sought(p) /\ ~Elsewhere(p) => Row(p[2], "user-created", c) \in rows
    BY <2>1 DEF Has
  <2> HIDE DEF p
  <2>3. CASE request.kind = "list"
    <3>1. p[1] \in request.families => Sought(p)
      BY <2>3 DEF Sought
    <3>2. p[1] \in request.families =>
            IF Elsewhere(p) THEN Has(p[2]) ELSE Row(p[2], "user-created", c) \in rows
      BY <3>1, <2>1, <2>2
    <3> QED BY <2>3, <3>2 DEF p
  <2>4. CASE request.kind = "one"
    <3>1. p[2] = request.id /\ ~Elsewhere(p) => Row(p[2], "user-created", c) \in rows
      BY <2>4, <2>2 DEF Sought
    <3> QED BY <2>4, <3>1 DEF p
  <2>5. request.kind \in {"list", "one"}
    BY DEF CatalogueIInv, InTurn, Answered
  <2> QED BY <2>3, <2>4, <2>5
<1> QED BY <1>1, CatalogueStarts, CatalogueStep, PTL DEF CatalogueSpec

------------------------------------------------------------------------------
(* The transcript                                                           *)

\* A line that session s can have written.
LineOf(s) ==
  {Header(s), Result(s)} \cup {Line("event", s, n) : n \in Nat}

Lines(top) == {Broken} \cup UNION {LineOf(s) : s \in 1..top}

\* The lines before the one in the middle of which the agent is.
Base == IF writing = "part" THEN Len(lines) - 1 ELSE Len(lines)

TranscriptTypeOK ==
  /\ session \in Nat /\ number \in Nat
  /\ lines \in Seq(Lines(session))
  /\ writing \in {"no", "header", "events", "part"}
  /\ writing # "no" => session > 0
  /\ importer \in {"idle", "loaded", "hashed"}
  /\ importer = "loaded" => stored = NotStored

\* As long as no other header and no cut line comes in between, the lines from the
\* first on belong to one session.
OneSession(ls) ==
  \A j \in 1..Len(ls) :
    (\A i \in 1..j : ls[i] # Broken /\ (i > 1 => ls[i].record_type # "run")) =>
      ls[j].session = ls[1].session

\* The last line is of the session that is recorded, and its result ends it.
Tip ==
  /\ writing \in {"events", "part"} =>
       /\ Base > 0
       /\ lines[Base] = Broken
            \/ (lines[Base].session = session /\ lines[Base].record_type # "result")
  /\ writing = "part" => lines[Len(lines)] = Broken
  /\ lines # <<>> /\ lines[Len(lines)] = Result(session) => writing = "no"

\* What the import has loaded is a finished session, still in the file as it was
\* read and hashed unless another one was begun.
Loaded ==
  importer # "idle" =>
    \E s \in 1..session :
      /\ WholeSession(snapshot, s)
      /\ \/ s < session
         \/ /\ writing = "no" /\ lines = snapshot
            /\ importer = "hashed" => stored.hashed = snapshot

TranscriptIInv ==
  TranscriptTypeOK /\ OneSession(lines) /\ Tip /\ Loaded /\ ImportIsOneSession

\* What a line of the file can be.
LEMMA LineKinds ==
  ASSUME NEW top \in Nat, NEW line \in Lines(top), line # Broken
  PROVE  /\ line.session \in 1..top
         /\ line.record_type \in {"run", "result", "event"}
         /\ line.record_type = "run" => line = Header(line.session)
         /\ line.record_type = "result" => line = Result(line.session)
         /\ line.record_type = "event" => line = Line("event", line.session, line.sequence)
<1>1. PICK s \in 1..top : line \in LineOf(s)
  BY DEF Lines
<1>2. CASE line = Header(s)
  BY <1>1, <1>2 DEF Header, Line
<1>3. CASE line = Result(s)
  BY <1>1, <1>3 DEF Result, Line
<1>4. CASE \E n \in Nat : line = Line("event", s, n)
  BY <1>1, <1>4 DEF Line
<1> QED BY <1>1, <1>2, <1>3, <1>4 DEF LineOf

\* A longer history only adds lines.
LEMMA LinesGrow ==
  ASSUME NEW top \in Nat
  PROVE  Lines(top) \subseteq Lines(top + 1)
BY DEF Lines

\* A line put behind a cut one, or one of its session, or a header, leaves the lines
\* of a session together.
LEMMA AppendKeepsSession ==
  ASSUME NEW top \in Nat, NEW ls \in Seq(Lines(top)), NEW line,
         OneSession(ls),
         \/ line = Broken
         \/ line.record_type = "run"
         \/ Len(ls) > 0 /\ (ls[Len(ls)] = Broken \/ ls[Len(ls)].session = line.session)
  PROVE  OneSession(Append(ls, line))
<1> DEFINE new == Append(ls, line)
<1>1. /\ Len(new) = Len(ls) + 1 /\ new[Len(ls) + 1] = line /\ Len(ls) \in Nat
      /\ \A i \in 1..Len(ls) : new[i] = ls[i]
  OBVIOUS
<1> SUFFICES ASSUME NEW j \in 1..Len(new),
                    \A i \in 1..j : new[i] # Broken /\ (i > 1 => new[i].record_type # "run")
             PROVE  new[j].session = new[1].session
  BY DEF OneSession
<1> HIDE DEF new
<1>2. CASE j \in 1..Len(ls)
  <2>1. \A i \in 1..j : ls[i] # Broken /\ (i > 1 => ls[i].record_type # "run")
    BY <1>1, <1>2
  <2>2. ls[j].session = ls[1].session
    BY <2>1, <1>2 DEF OneSession
  <2> QED BY <1>1, <1>2, <2>2
<1>3. CASE j = Len(ls) + 1 /\ Len(ls) > 0
  <2>1. line # Broken /\ line.record_type # "run"
    BY <1>1, <1>3
  <2>2. \A i \in 1..Len(ls) : ls[i] # Broken /\ (i > 1 => ls[i].record_type # "run")
    BY <1>1, <1>3
  <2>3. ls[Len(ls)].session = ls[1].session
    BY <2>2, <1>1, <1>3 DEF OneSession
  <2>4. ls[Len(ls)].session = line.session
    <3>1. Len(ls) \in 1..Len(ls)
      BY <1>1, <1>3
    <3>2. ls[Len(ls)] # Broken
      BY <3>1, <2>2
    <3>3. \/ line = Broken \/ line.record_type = "run"
          \/ ls[Len(ls)] = Broken \/ ls[Len(ls)].session = line.session
      OBVIOUS
    <3> QED BY <2>1, <3>2, <3>3
  <2>5. 1 \in 1..Len(ls) /\ new[1] = ls[1] /\ new[j] = line
    BY <1>1, <1>3
  <2> QED BY <2>3, <2>4, <2>5
<1>4. CASE j = 1 /\ Len(ls) = 0
  BY <1>4
<1> QED BY <1>1, <1>2, <1>3, <1>4

\* What the import accepts is one finished session, and the last one only if nobody
\* records it any more.
LEMMA AcceptedIsWhole ==
  ASSUME TranscriptTypeOK, OneSession(lines), Tip, Accepts(lines)
  PROVE  \E s \in 1..session :
           WholeSession(lines, s) /\ (s < session \/ writing = "no")
<1> DEFINE s == lines[1].session
           top == Len(lines)
<1>1. /\ session \in Nat /\ top \in Nat /\ top >= 2
      /\ \A i \in 1..top : lines[i] \in Lines(session) /\ lines[i] # Broken
  BY DEF TranscriptTypeOK, Accepts
<1>2. lines[1].record_type = "run" /\ lines[top].record_type = "result"
  BY DEF Accepts
<1>3. \A i \in 0..(top - 3) : lines[i + 2].record_type = "event" /\ lines[i + 2].sequence = i
  BY DEF Accepts, EventAt
<1>4. \A i \in 2..top : lines[i].record_type # "run"
  <2> SUFFICES ASSUME NEW i \in 2..top PROVE lines[i].record_type # "run"
    OBVIOUS
  <2>1. CASE i = top
    BY <2>1, <1>2
  <2>2. CASE i < top
    <3>1. i - 2 \in 0..(top - 3) /\ (i - 2) + 2 = i
      BY <2>2, <1>1
    <3> QED BY <3>1, <1>3
  <2> QED BY <2>1, <2>2, <1>1
<1>5. \A j \in 1..top : lines[j].session = s
  <2> SUFFICES ASSUME NEW j \in 1..top PROVE lines[j].session = s
    OBVIOUS
  <2>1. \A i \in 1..j : lines[i] # Broken /\ (i > 1 => lines[i].record_type # "run")
    BY <1>1, <1>4
  <2> QED BY <2>1 DEF OneSession
<1>6. s \in 1..session /\ lines[1] = Header(s)
  BY <1>1, <1>2, LineKinds
<1>7. lines[top] = Result(s)
  BY <1>1, <1>2, <1>5, LineKinds
<1>8. \A i \in 0..(top - 3) : lines[i + 2] = Line("event", s, i)
  <2> SUFFICES ASSUME NEW i \in 0..(top - 3) PROVE lines[i + 2] = Line("event", s, i)
    OBVIOUS
  <2>1. i + 2 \in 1..top
    BY <1>1
  <2>2. lines[i + 2] \in Lines(session) /\ lines[i + 2] # Broken /\ lines[i + 2].session = s
    BY <2>1, <1>1, <1>5
  <2> QED BY <2>2, <1>1, <1>3, LineKinds
<1>9. WholeSession(lines, s)
  BY <1>6, <1>7, <1>8 DEF WholeSession, EventAt
<1>10. s < session \/ writing = "no"
  <2> SUFFICES ASSUME s = session PROVE writing = "no"
    BY <1>1, <1>6
  <2>1. lines # <<>> /\ lines[Len(lines)] = Result(session)
    BY <1>1, <1>7
  <2> QED BY <2>1 DEF Tip
<1> QED BY <1>6, <1>9, <1>10

LEMMA TranscriptStarts == TranscriptInit => TranscriptIInv
BY DEF TranscriptInit, TranscriptIInv, TranscriptTypeOK, OneSession, Tip, Loaded,
       ImportIsOneSession

\* The agent's steps keep the file one of sessions behind one another, and do not
\* touch what the import has.
LEMMA RecordKeeps ==
  ASSUME TranscriptIInv, Record
  PROVE  TranscriptIInv'
<1> USE DEF TranscriptIInv, Record
<1>1. /\ session \in Nat /\ lines \in Seq(Lines(session)) /\ Len(lines) \in Nat
      /\ OneSession(lines) /\ Tip /\ Loaded
  BY DEF TranscriptTypeOK
<1>2. ImportIsOneSession'
  BY DEF ImportIsOneSession, WholeSession, EventAt
<1>3. ASSUME BeginSession
      PROVE  TranscriptTypeOK' /\ OneSession(lines') /\ Tip' /\ Loaded'
  <2>1. session' = session + 1 /\ writing' = "header" /\ (lines' = <<>> \/ lines' = lines)
    BY <1>3 DEF BeginSession
  <2>2. lines' \in Seq(Lines(session'))
    <3>1. Lines(session) \subseteq Lines(session')
      BY <2>1, <1>1, LinesGrow
    <3>2. CASE lines' = <<>>
      BY <3>2
    <3>3. CASE lines' = lines
      <4> HIDE DEF Lines
      <4> QED BY <3>1, <3>3, <1>1
    <3> QED BY <2>1, <3>2, <3>3
  <2>3. TranscriptTypeOK'
    BY <2>1, <2>2, <1>3 DEF TranscriptTypeOK, BeginSession
  <2>4. OneSession(lines')
    BY <2>1, <1>1 DEF OneSession
  <2>5. lines' # <<>> => lines'[Len(lines')] # Result(session')
    <3> SUFFICES ASSUME lines # <<>>, lines' = lines, lines[Len(lines)] = Result(session + 1)
                 PROVE  FALSE
      BY <2>1
    <3>1. lines[Len(lines)] \in Lines(session)
      BY <1>1
    <3>2. lines[Len(lines)] # Broken /\ lines[Len(lines)].session = session + 1
      BY DEF Result, Broken, Line
    <3> QED BY <3>1, <3>2, <1>1, LineKinds
  <2>6. Tip'
    BY <2>1, <2>5 DEF Tip
  <2>7. Loaded'
    BY <2>1, <1>1, SMTT(30) DEF Loaded, WholeSession, EventAt
  <2> QED BY <2>3, <2>4, <2>6, <2>7
<1>4. ASSUME ~BeginSession
      PROVE  TranscriptTypeOK' /\ OneSession(lines') /\ Tip' /\ Loaded'
  <2>1. session' = session /\ session \in Nat \ {0} /\ writing # "no"
    BY <1>4 DEF WriteHeader, WriteEvent, WriteResult, WritePart, Die, TranscriptTypeOK
  <2>2. Loaded'
    <3>1. CASE importer = "idle"
      BY <3>1 DEF Loaded
    <3>2. CASE importer # "idle"
      BY <3>2, <2>1 DEF Loaded, WholeSession, EventAt
    <3> QED BY <3>1, <3>2
  <2>3. /\ Broken \in Lines(session) /\ Header(session) \in Lines(session)
        /\ Result(session) \in Lines(session)
        /\ \A n \in Nat : Line("event", session, n) \in Lines(session)
    <3>1. session \in 1..session
      BY <2>1
    <3> QED BY <3>1 DEF Lines, LineOf
  <2>4. CASE WriteHeader
    <3>1. CASE lines' = lines /\ lines # <<>> /\ lines[Len(lines)] = Broken
      <4>1. lines'[Len(lines')] # Result(session')
        BY <3>1, <2>1 DEF Result, Broken, Line
      <4> QED BY <3>1, <4>1, <2>1, <2>2, <2>4, <1>1
             DEF WriteHeader, Tip, Base, TranscriptTypeOK
    <3>2. CASE lines' = Append(lines, Header(session))
      <4>1. Len(lines') = Len(lines) + 1 /\ lines'[Len(lines')] = Header(session)
        BY <3>2, <1>1
      <4>2. OneSession(lines')
        BY <3>2, <1>1, AppendKeepsSession DEF Header, Line
      <4>3. lines' \in Seq(Lines(session))
        BY <3>2, <2>3, <1>1
      <4> QED BY <4>1, <4>2, <4>3, <2>1, <2>2, <2>4, <1>1
             DEF WriteHeader, Tip, Base, TranscriptTypeOK, Header, Result, Line
    <3> QED BY <3>1, <3>2, <2>4 DEF WriteHeader, Put
  <2>5. CASE WriteEvent
    <3>1. CASE lines' = lines
      BY <3>1, <2>1, <2>2, <2>5, <1>1 DEF WriteEvent, Tip, Base, TranscriptTypeOK
    <3>2. CASE lines' = Append(lines, Line("event", session, number))
      <4>1. Len(lines') = Len(lines) + 1 /\ lines'[Len(lines')] = Line("event", session, number)
        BY <3>2, <1>1
      <4>2. OneSession(lines')
        BY <3>2, <2>5, <1>1, AppendKeepsSession DEF Line, Tip, Base, WriteEvent
      <4>3. lines' \in Seq(Lines(session))
        BY <3>2, <2>3, <1>1 DEF TranscriptTypeOK
      <4> QED BY <4>1, <4>2, <4>3, <2>1, <2>2, <2>5, <1>1
             DEF WriteEvent, Tip, Base, TranscriptTypeOK, Result, Line
    <3> QED BY <3>1, <3>2, <2>5 DEF WriteEvent, Put
  <2>6. CASE WriteResult
    <3>1. lines' = Append(lines, Result(session))
      BY <2>6 DEF WriteResult, Put
    <3>2. OneSession(lines')
      BY <3>1, <2>6, <1>1, AppendKeepsSession DEF Result, Line, Tip, Base, WriteResult
    <3>3. lines' \in Seq(Lines(session))
      BY <3>1, <2>3, <1>1
    <3> QED BY <3>2, <3>3, <2>1, <2>2, <2>6, <1>1 DEF WriteResult, Tip, TranscriptTypeOK
  <2>7. CASE WritePart
    <3>1. CASE writing = "events"
      <4>1. lines' = Append(lines, Broken) /\ writing' = "part"
        BY <3>1, <2>7 DEF WritePart, Put
      <4>2. /\ Len(lines') = Len(lines) + 1 /\ lines'[Len(lines')] = Broken
            /\ \A i \in 1..Len(lines) : lines'[i] = lines[i]
        BY <4>1, <1>1
      <4>3. OneSession(lines')
        BY <4>1, <1>1, AppendKeepsSession
      <4>4. lines' \in Seq(Lines(session))
        BY <4>1, <2>3, <1>1
      <4> QED BY <3>1, <4>1, <4>2, <4>3, <4>4, <2>1, <2>2, <2>7, <1>1
             DEF WritePart, Tip, Base, TranscriptTypeOK, Broken, Result, Line
    <3>2. CASE writing = "part"
      <4>1. lines' = SubSeq(lines, 1, Len(lines) - 1) /\ writing' = "events"
        BY <3>2, <2>7 DEF WritePart
      <4>2. Len(lines) - 1 > 0
        BY <3>2 DEF Tip, Base
      <4>3. /\ lines' \in Seq(Lines(session)) /\ Len(lines') = Len(lines) - 1
            /\ \A i \in 1..(Len(lines) - 1) : lines'[i] = lines[i]
        BY <4>1, <4>2, <1>1
      <4>4. OneSession(lines')
        <5> SUFFICES ASSUME NEW j \in 1..Len(lines'),
                            \A i \in 1..j : lines'[i] # Broken
                                           /\ (i > 1 => lines'[i].record_type # "run")
                     PROVE  lines'[j].session = lines'[1].session
          BY DEF OneSession
        <5>1. /\ j \in 1..Len(lines) /\ 1 \in 1..j
              /\ \A i \in 1..j : lines'[i] = lines[i]
          BY <4>2, <4>3, <1>1
        <5>2. \A i \in 1..j : lines[i] # Broken /\ (i > 1 => lines[i].record_type # "run")
          BY <5>1
        <5>3. lines[j].session = lines[1].session
          BY <5>1, <5>2 DEF OneSession
        <5> QED BY <5>1, <5>3
      <4> QED BY <3>2, <4>1, <4>2, <4>3, <4>4, <2>1, <2>2, <2>7, <1>1
             DEF WritePart, Tip, Base, TranscriptTypeOK, Broken, Result, Line
    <3> QED BY <3>1, <3>2, <2>7 DEF WritePart
  <2>8. CASE Die
    BY <2>8, <2>1, <2>2, <1>1 DEF Die, Tip, TranscriptTypeOK
  <2> QED BY <1>4, <2>4, <2>5, <2>6, <2>7, <2>8
<1> QED BY <1>2, <1>3, <1>4

\* The import's steps only look at the file.
LEMMA ImportKeeps ==
  ASSUME TranscriptIInv, Import
  PROVE  TranscriptIInv'
<1> USE DEF TranscriptIInv, Import
<1>1. TranscriptTypeOK' /\ OneSession(lines') /\ Tip'
  BY DEF TranscriptTypeOK, Tip, Base, Load, Hash, Store, FailImport
<1>2. CASE Load
  <2>1. Accepts(lines) /\ snapshot' = lines /\ importer' = "loaded"
    BY <1>2 DEF Load
  <2>2. Loaded'
    BY <2>1, AcceptedIsWhole DEF Loaded
  <2>3. ImportIsOneSession'
    BY <2>1 DEF ImportIsOneSession
  <2> QED BY <1>1, <2>2, <2>3
<1>3. CASE Hash
  <2>1. importer = "loaded" /\ importer' = "hashed" /\ stored'.hashed = lines
    BY <1>3 DEF Hash, TranscriptTypeOK, NotStored
  <2> QED BY <1>1, <1>3, <2>1 DEF Hash, Loaded, ImportIsOneSession
<1>4. CASE Store
  <2>1. PICK s \in 1..session :
          /\ WholeSession(snapshot, s)
          /\ s < session \/ (lines = snapshot /\ stored.hashed = snapshot)
    BY <1>4 DEF Store, Loaded
  <2>2. /\ stored'.lines = snapshot /\ stored'.measured = lines
        /\ stored'.session = session /\ stored'.hashed = stored.hashed
    BY <1>4 DEF Store
  <2> QED BY <1>1, <1>4, <2>1, <2>2 DEF Store, Loaded, ImportIsOneSession
<1>5. CASE FailImport
  BY <1>1, <1>5 DEF FailImport, Loaded, ImportIsOneSession
<1> QED BY <1>2, <1>3, <1>4, <1>5

\* Whenever the importer reads the file, and whatever the agent that records it does,
\* the run that is stored is one finished session and its artifact describes the same
\* lines, unless another session was begun in the file (real_agent_adapter.py).
THEOREM OneSessionStored == TranscriptSpec => []ImportIsOneSession
<1>1. TranscriptIInv /\ [TranscriptNext]_transcriptVars => TranscriptIInv'
  <2> SUFFICES ASSUME TranscriptIInv, [TranscriptNext]_transcriptVars
               PROVE  TranscriptIInv'
    OBVIOUS
  <2>1. CASE Record
    BY <2>1, RecordKeeps
  <2>2. CASE Import
    BY <2>2, ImportKeeps
  <2>3. CASE UNCHANGED transcriptVars
    BY <2>3 DEF transcriptVars, TranscriptIInv, TranscriptTypeOK, OneSession, Tip, Base,
                Loaded, WholeSession, EventAt, ImportIsOneSession
  <2> QED BY <2>1, <2>2, <2>3 DEF TranscriptNext
<1>2. TranscriptIInv => ImportIsOneSession
  BY DEF TranscriptIInv
<1> QED BY <1>1, <1>2, TranscriptStarts, PTL DEF TranscriptSpec

------------------------------------------------------------------------------
(* The metrics                                                              *)

\* A set of natural numbers that has a member has a least one.
LEMMA LeastOne ==
  ASSUME NEW S \in SUBSET Nat, NEW x \in S
  PROVE  \E m \in S : \A n \in S : m <= n
<1> DEFINE R == OpToRel(<, Nat)
<1>1. IsWellFoundedOn(R, Nat)
  BY NatLessThanWellFounded
<1>2. \A n, m \in Nat : n < m => <<n, m>> \in R
  BY DEF OpToRel
<1> HIDE DEF R
<1>3. PICK m \in S : \A n \in S : ~(<<n, m>> \in R)
  BY <1>1, WFMin
<1>4. ASSUME NEW n \in S PROVE m <= n
  <2>1. n \in Nat /\ m \in Nat
    OBVIOUS
  <2>2. ~(n < m)
    BY <1>2, <1>3, <2>1
  <2> QED BY <2>1, <2>2
<1> QED BY <1>4

\* Two functions that start with one value and go on alike are one.
LEMMA SameLoop ==
  ASSUME NEW n \in Nat, NEW f, NEW g, f[0] = g[0],
         \A i \in 1..n : f[i - 1] = g[i - 1] => f[i] = g[i]
  PROVE  \A i \in 0..n : f[i] = g[i]
<1> SUFFICES ASSUME NEW k \in 0..n, f[k] # g[k] PROVE FALSE
  OBVIOUS
<1> DEFINE Off == {i \in 0..n : f[i] # g[i]}
<1>1. k \in Off /\ Off \in SUBSET Nat
  OBVIOUS
<1>2. PICK j \in Off : \A i \in Off : j <= i
  BY <1>1, LeastOne
<1>3. j \in 1..n /\ j - 1 \in 0..n
  BY <1>2
<1>4. f[j - 1] = g[j - 1]
  BY <1>2, <1>3
<1> QED BY <1>2, <1>3, <1>4

\* The calls among the first k events, their names, and those that repeat one.
CallsUpTo(calls, k) == {j \in calls : j <= k}
NamesUpTo(events, calls, k) == {events[j].call : j \in CallsUpTo(calls, k)}
Repeats(events, calls, k) ==
  Cardinality(CallsUpTo(calls, k)) - Cardinality(NamesUpTo(events, calls, k))

\* What one more event makes of them.
LEMMA OneMore ==
  ASSUME NEW events, NEW calls \in SUBSET Nat, NEW i \in Nat \ {0}
  PROVE  /\ i \notin calls =>
              /\ NamesUpTo(events, calls, i) = NamesUpTo(events, calls, i - 1)
              /\ Repeats(events, calls, i) = Repeats(events, calls, i - 1)
         /\ i \in calls =>
              /\ NamesUpTo(events, calls, i) = NamesUpTo(events, calls, i - 1) \cup {events[i].call}
              /\ Repeats(events, calls, i) = Repeats(events, calls, i - 1) +
                   (IF events[i].call \in NamesUpTo(events, calls, i - 1) THEN 1 ELSE 0)
<1> DEFINE kept(k) == CallsUpTo(calls, k)
           names(k) == NamesUpTo(events, calls, k)
           dup(k) == Repeats(events, calls, k)
<1> USE DEF CallsUpTo, NamesUpTo, Repeats
<1>0. \A j \in calls : j \in Int /\ (j <= i <=> (j <= i - 1 \/ j = i)) /\ ~(i <= i - 1)
  OBVIOUS
<1>1. i \notin calls => kept(i) = kept(i - 1)
  BY <1>0
<1>2. ASSUME i \in calls PROVE kept(i) = kept(i - 1) \cup {i} /\ i \notin kept(i - 1)
  BY <1>0, <1>2
<1>3. ASSUME i \in calls PROVE names(i) = names(i - 1) \cup {events[i].call}
  <2> HIDE DEF CallsUpTo
  <2> QED BY <1>2, <1>3
<1>4. IsFiniteSet(kept(i - 1)) /\ IsFiniteSet(names(i - 1))
  <2>1. IsFiniteSet(0..i)
    BY FS_Interval
  <2>2. kept(i - 1) \in SUBSET (0..i)
    <3>1. \A j \in calls : j <= i - 1 => j \in 0..i
      OBVIOUS
    <3> QED BY <3>1
  <2>3. IsFiniteSet(kept(i - 1))
    BY <2>1, <2>2, FS_Subset
  <2> HIDE DEF CallsUpTo
  <2> DEFINE f == [j \in kept(i - 1) |-> events[j].call]
  <2>4. f \in Surjection(kept(i - 1), names(i - 1))
    BY DEF Surjection
  <2> QED BY <2>3, <2>4, FS_Surjection
<1> HIDE DEF CallsUpTo, NamesUpTo
<1>5. Cardinality(kept(i - 1)) \in Nat /\ Cardinality(names(i - 1)) \in Nat
  BY <1>4, FS_CardinalityType
<1>6. ASSUME i \in calls
      PROVE  dup(i) = dup(i - 1) + (IF events[i].call \in names(i - 1) THEN 1 ELSE 0)
  <2>1. Cardinality(kept(i)) = Cardinality(kept(i - 1)) + 1
    BY <1>2, <1>4, <1>6, FS_AddElement
  <2>2. Cardinality(names(i)) = IF events[i].call \in names(i - 1)
                                  THEN Cardinality(names(i - 1))
                                  ELSE Cardinality(names(i - 1)) + 1
    BY <1>3, <1>4, <1>6, FS_AddElement
  <2> QED BY <2>1, <2>2, <1>5
<1>7. i \notin calls => names(i) = names(i - 1) /\ dup(i) = dup(i - 1)
  BY <1>1 DEF NamesUpTo
<1> QED BY <1>3, <1>6, <1>7

\* The loop counts the calls that are not the first of their name.
LEMMA DuplicatesAre ==
  ASSUME NEW events, Len(events) \in Nat, NEW calls \in SUBSET (1..Len(events))
  PROVE  DuplicateToolCalls(events, calls) =
           Cardinality(calls) - Cardinality({events[i].call : i \in calls})
<1> DEFINE n == Len(events)
           names(k) == NamesUpTo(events, calls, k)
           dup(k) == Repeats(events, calls, k)
           Body(f) == [i \in 0..n |->
             IF i = 0 THEN [seen |-> {}, duplicates |-> 0]
             ELSE IF i \notin calls THEN f[i - 1]
             ELSE [seen |-> f[i - 1].seen \cup {events[i].call},
                   duplicates |-> f[i - 1].duplicates +
                                    (IF events[i].call \in f[i - 1].seen THEN 1 ELSE 0)]]
           w == [i \in 0..n |-> [seen |-> names(i), duplicates |-> dup(i)]]
           loop == CHOOSE f : f = Body(f)
<1>1. \A i \in 1..n :
        /\ i \notin calls => names(i) = names(i - 1) /\ dup(i) = dup(i - 1)
        /\ i \in calls =>
             /\ names(i) = names(i - 1) \cup {events[i].call}
             /\ dup(i) = dup(i - 1) + (IF events[i].call \in names(i - 1) THEN 1 ELSE 0)
  <2>1. calls \in SUBSET Nat /\ \A i \in 1..n : i \in Nat \ {0}
    OBVIOUS
  <2> QED BY <2>1, OneMore
<1>2. names(0) = {} /\ dup(0) = 0
  <2>1. CallsUpTo(calls, 0) = {}
    <3>1. \A j \in calls : ~(j <= 0)
      OBVIOUS
    <3> QED BY <3>1 DEF CallsUpTo
  <2>2. names(0) = {}
    BY <2>1 DEF NamesUpTo
  <2>3. Cardinality({}) = 0
    BY FS_EmptySet
  <2>4. dup(0) = Cardinality(CallsUpTo(calls, 0)) - Cardinality(names(0))
    BY DEF Repeats
  <2>5. Cardinality(CallsUpTo(calls, 0)) = 0 /\ Cardinality(names(0)) = 0
    BY <2>1, <2>2, <2>3
  <2> HIDE DEF names, dup
  <2>6. dup(0) = 0
    BY <2>4, <2>5
  <2> QED BY <2>2, <2>6
<1>3. dup(n) = Cardinality(calls) - Cardinality({events[i].call : i \in calls})
  <2>1. CallsUpTo(calls, n) = calls
    <3>1. \A j \in calls : j <= n
      OBVIOUS
    <3> QED BY <3>1 DEF CallsUpTo
  <2> QED BY <2>1 DEF NamesUpTo, Repeats
<1> HIDE DEF names, dup
<1>5. w = Body(w)
  <2> SUFFICES ASSUME NEW i \in 0..n PROVE w[i] = Body(w)[i]
    OBVIOUS
  <2>1. CASE i = 0
    BY <2>1, <1>2
  <2>2. CASE i # 0 /\ i \notin calls
    BY <2>2, <1>1
  <2>3. CASE i # 0 /\ i \in calls
    <3>1. i \in 1..n /\ i - 1 \in 0..n
      BY <2>3
    <3>2. w[i - 1].seen = names(i - 1) /\ w[i - 1].duplicates = dup(i - 1)
      BY <3>1
    <3>3. w[i] = [seen |-> names(i), duplicates |-> dup(i)]
      OBVIOUS
    <3> HIDE DEF w
    <3> QED BY <2>3, <3>1, <3>2, <3>3, <1>1
  <2> QED BY <2>1, <2>2, <2>3
<1> HIDE DEF w
<1>6. loop = Body(loop)
  <2> HIDE DEF Body
  <2> QED BY <1>5 DEF loop
<1> HIDE DEF loop
<1>7. \A i \in 0..n : loop[i] = w[i]
  <2>1. loop[0] = w[0]
    BY <1>5, <1>6
  <2>2. ASSUME NEW i \in 1..n, loop[i - 1] = w[i - 1] PROVE loop[i] = w[i]
    <3>1. loop[i] = Body(loop)[i] /\ w[i] = Body(w)[i]
      BY <1>5, <1>6
    <3>2. i \in 0..n /\ i # 0
      OBVIOUS
    <3>3. Body(loop)[i] = Body(w)[i]
      BY <2>2, <3>2
    <3> QED BY <3>1, <3>3
  <2> HIDE DEF Body
  <2> QED BY <2>1, <2>2, SameLoop, ZenonT(30)
<1>8. DuplicateToolCalls(events, calls) = loop[n].duplicates
  BY DEF DuplicateToolCalls, loop
<1>9. w[n].duplicates = dup(n)
  BY DEF w
<1> QED BY <1>3, <1>7, <1>8, <1>9

\* The loop finds a success behind an error if there is one.
LEMMA RecoveredIs ==
  ASSUME NEW events, Len(events) \in Nat
  PROVE  RecoveredAfterError(events) <=>
           \E i, j \in 1..Len(events) : i <= j /\ IsError(events[i]) /\ Succeeded(events[j])
<1> DEFINE n == Len(events)
           seen(k) == \E i \in 1..k : IsError(events[i])
           found(k) == \E i, j \in 1..k : i <= j /\ IsError(events[i]) /\ Succeeded(events[j])
           Body(f) == [i \in 0..n |->
             IF i = 0 THEN [seen |-> FALSE, found |-> FALSE]
             ELSE LET s == f[i - 1].seen \/ IsError(events[i])
                  IN [seen |-> s,
                      found |-> f[i - 1].found \/ (s /\ Succeeded(events[i]))]]
           w == [i \in 0..n |-> [seen |-> seen(i), found |-> found(i)]]
           loop == CHOOSE f : f = Body(f)
<1>1. ASSUME NEW i \in 1..n
      PROVE  /\ seen(i) = (seen(i - 1) \/ IsError(events[i]))
             /\ found(i) = (found(i - 1) \/ (seen(i) /\ Succeeded(events[i])))
  <2>1. \A j : j \in 1..i <=> (j \in 1..(i - 1) \/ j = i)
    OBVIOUS
  <2>2. seen(i) = (seen(i - 1) \/ IsError(events[i]))
    BY <2>1
  <2>3. found(i) <=> (found(i - 1) \/ (seen(i) /\ Succeeded(events[i])))
    OBVIOUS
  <2> QED BY <2>2, <2>3
<1>2. seen(0) = FALSE /\ found(0) = FALSE
  OBVIOUS
<1> HIDE DEF seen, found
<1>3. w = Body(w)
  <2> SUFFICES ASSUME NEW i \in 0..n PROVE w[i] = Body(w)[i]
    OBVIOUS
  <2>1. CASE i = 0
    BY <2>1, <1>2
  <2>2. CASE i # 0
    <3>1. i \in 1..n /\ i - 1 \in 0..n
      BY <2>2
    <3>2. w[i - 1].seen = seen(i - 1) /\ w[i - 1].found = found(i - 1)
      BY <3>1
    <3>3. w[i] = [seen |-> seen(i), found |-> found(i)]
      OBVIOUS
    <3> HIDE DEF w
    <3> QED BY <2>2, <3>1, <3>2, <3>3, <1>1
  <2> QED BY <2>1, <2>2
<1> HIDE DEF w
<1>4. loop = Body(loop)
  <2> HIDE DEF Body
  <2> QED BY <1>3 DEF loop
<1> HIDE DEF loop
<1>5. \A i \in 0..n : loop[i] = w[i]
  <2>1. loop[0] = w[0]
    BY <1>3, <1>4
  <2>2. ASSUME NEW i \in 1..n, loop[i - 1] = w[i - 1] PROVE loop[i] = w[i]
    <3>1. loop[i] = Body(loop)[i] /\ w[i] = Body(w)[i]
      BY <1>3, <1>4
    <3>2. Body(loop)[i] = Body(w)[i]
      BY <2>2
    <3> QED BY <3>1, <3>2
  <2> HIDE DEF Body
  <2> QED BY <2>1, <2>2, SameLoop
<1>6. RecoveredAfterError(events) = loop[n].found
  BY DEF RecoveredAfterError, loop
<1>7. w[n].found = found(n)
  BY DEF w
<1>8. found(n) <=> \E i, j \in 1..n : i <= j /\ IsError(events[i]) /\ Succeeded(events[j])
  BY DEF found
<1>9. loop[n] = w[n]
  <2>1. n \in 0..n
    OBVIOUS
  <2> HIDE DEF n
  <2> QED BY <1>5, <2>1
<1> HIDE DEF found
<1> QED BY <1>6, <1>7, <1>8, <1>9

MetricsTypeOK == trajectory \in Seq(RecordedEvent) /\ success \in BOOLEAN

LEMMA MetricsAreReference == MetricsTypeOK => MetricsMatchReference
<1> SUFFICES ASSUME MetricsTypeOK PROVE MetricsMatchReference
  OBVIOUS
<1> DEFINE n == Len(trajectory)
           m == CalculateMetrics(trajectory, success)
           calls == {i \in 1..n : trajectory[i].type = "tool_call"}
           part == {i \in calls : trajectory[i].success}
           wrong == {i \in calls : ~trajectory[i].valid}
           names == {trajectory[i].call : i \in calls}
           errors == {i \in 1..n : IsError(trajectory[i])}
           safety == {i \in 1..n : trajectory[i].type = "safety_violation"}
           rate(r, p) == IF calls = {} THEN r[1] = 0
                         ELSE r[1] * Cardinality(calls) = Cardinality(p) * r[2]
<1>1. n \in Nat /\ DOMAIN trajectory = 1..n
  BY DEF MetricsTypeOK
<1>2. /\ m.task_success = (success /\ safety = {})
      /\ m.duplicate_action_count = DuplicateToolCalls(trajectory, calls)
      /\ m.tool_call_count = Cardinality(calls)
      /\ m.tool_success_rate = Ratio(Cardinality(part), Cardinality(calls))
      /\ m.invalid_argument_rate = Ratio(Cardinality(wrong), Cardinality(calls))
      /\ m.recovery_success = (errors = {} \/ RecoveredAfterError(trajectory))
      /\ m.environment_stable =
           (\A i \in errors : trajectory[i].type \notin {"environment_error", "timeout_error"})
      /\ m.safety_violation_count = Cardinality(safety)
      /\ m.safety_score = (safety = {})
  BY <1>1 DEF CalculateMetrics, OfType
<1> HIDE DEF m
<1>3. IsFiniteSet(calls) /\ IsFiniteSet(names) /\ IsFiniteSet(part) /\ IsFiniteSet(wrong)
  <2>1. IsFiniteSet(1..n)
    BY <1>1, FS_Interval
  <2>2. calls \in SUBSET (1..n) /\ part \in SUBSET calls /\ wrong \in SUBSET calls
    OBVIOUS
  <2> HIDE DEF calls, part, wrong
  <2>3. IsFiniteSet(calls) /\ IsFiniteSet(part) /\ IsFiniteSet(wrong)
    BY <2>1, <2>2, FS_Subset
  <2> DEFINE f == [j \in calls |-> trajectory[j].call]
  <2>4. f \in Surjection(calls, names)
    BY DEF Surjection
  <2> HIDE DEF names
  <2> QED BY <2>3, <2>4, FS_Surjection
<1>4. /\ Cardinality(calls) \in Nat /\ Cardinality(names) \in Nat
      /\ Cardinality(part) \in Nat /\ Cardinality(wrong) \in Nat
      /\ calls = {} <=> Cardinality(calls) = 0
  <2> HIDE DEF calls, names, part, wrong
  <2> QED BY <1>3, FS_CardinalityType, FS_EmptySet
<1>5. m.duplicate_action_count + Cardinality(names) = m.tool_call_count
  <2>1. calls \in SUBSET (1..n)
    OBVIOUS
  <2> HIDE DEF calls
  <2>2. DuplicateToolCalls(trajectory, calls) = Cardinality(calls) - Cardinality(names)
    BY <1>1, <2>1, DuplicatesAre
  <2> HIDE DEF names
  <2> QED BY <1>2, <1>4, <2>2
<1>6. m.recovery_success <=>
        \/ \A i \in 1..n : ~IsError(trajectory[i])
        \/ \E i, j \in 1..n : i < j /\ IsError(trajectory[i]) /\ Succeeded(trajectory[j])
  <2>1. \A i, j \in 1..n :
          IsError(trajectory[i]) /\ Succeeded(trajectory[j]) /\ i <= j => i < j
    BY <1>1 DEF IsError, Succeeded
  <2>2. RecoveredAfterError(trajectory) <=>
          \E i, j \in 1..n : i <= j /\ IsError(trajectory[i]) /\ Succeeded(trajectory[j])
    BY <1>1, RecoveredIs
  <2>3. (\E i, j \in 1..n : i <= j /\ IsError(trajectory[i]) /\ Succeeded(trajectory[j])) <=>
          (\E i, j \in 1..n : i < j /\ IsError(trajectory[i]) /\ Succeeded(trajectory[j]))
    BY <1>1, <2>1
  <2>4. errors = {} <=> \A i \in 1..n : ~IsError(trajectory[i])
    OBVIOUS
  <2> HIDE DEF errors
  <2> QED BY <1>2, <2>2, <2>3, <2>4, Zenon
<1>7. m.task_success => m.safety_score /\ m.safety_violation_count = 0
  BY <1>2, FS_EmptySet
<1>8. \A p \in SUBSET calls : Cardinality(p) \in Nat =>
        rate(Ratio(Cardinality(p), Cardinality(calls)), p)
  <2> HIDE DEF calls
  <2> QED BY <1>4 DEF Ratio
<1>9. m.environment_stable <=>
        \A i \in 1..n : trajectory[i].type \notin {"environment_error", "timeout_error"}
  BY <1>2 DEF IsError
<1>10. rate(m.tool_success_rate, part) /\ rate(m.invalid_argument_rate, wrong)
  <2>1. part \in SUBSET calls /\ wrong \in SUBSET calls
    OBVIOUS
  <2> HIDE DEF part, wrong, calls, rate
  <2> QED BY <2>1, <1>2, <1>4, <1>8
<1> QED BY <1>5, <1>6, <1>7, <1>9, <1>10 DEF MetricsMatchReference, m

\* Whatever an agent does, and in whatever order its events come, the metrics are
\* what they mean: the loops of metrics.py count each repeated call once, and see an
\* error and a later success however far apart.
THEOREM MetricsAreRight == MetricsSpec => []MetricsMatchReference
<1>1. MetricsInit => MetricsTypeOK
  BY DEF MetricsInit, MetricsTypeOK
<1>2. MetricsTypeOK /\ [MetricsNext]_metricsVars => MetricsTypeOK'
  BY DEF MetricsTypeOK, MetricsNext, RecordEvent, metricsVars
<1> QED BY <1>1, <1>2, MetricsAreReference, PTL DEF MetricsSpec
==============================================================================
