--------------------------- MODULE SamplePackages ---------------------------
(***************************************************************************)
(* Sample packages, packages/core/agent_eval/sample_package.py, with the    *)
(* commands install-sample and download-sample of scripts/tui_backend.py.   *)
(* Every command is a process of its own.  All downloads go to one file,    *)
(* downloads/sample.zip, and every package ends up in a directory of its    *)
(* own; nothing locks either, and a process may die at any step.            *)
(***************************************************************************)
EXTENDS Naturals, FiniteSets

CONSTANTS Installer,  \* install-sample and download-sample commands
          Package,    \* well-formed packages, named by their package_id
          Members(_)  \* the files a package's manifest lists

ASSUME PackageAssumption == Package \cap {"none", "partial", "damaged"} = {}

VARIABLES zip,      \* the content of downloads/sample.zip
          writers,  \* the downloads whose open file is that file
          place,    \* where a command is
          origin,   \* the ZIP it installs from, own file or download
          asked,    \* the package it was given, or told the SHA-256 of
          valid,    \* the package_id of the manifest it has validated
          staged,   \* whose bytes it has copied to its temporary directory
          samples,  \* the directories in datasets/samples
          stirred   \* history: the commands whose ZIP another wrote meanwhile

sampleVars == <<zip, writers, place, origin, asked, valid, staged, samples, stirred>>

Absent == [content |-> "none", by |-> "none"]

\* From having trusted the ZIP until having copied it.
Trusting(i) == origin[i] = "download" /\ place[i] \in {"verified", "validated", "absent"}
Running(i) == place[i] \notin {"new", "installed", "exists", "failed", "killed"}

SampleInit ==
  /\ zip = "none" /\ writers = {}
  /\ place = [i \in Installer |-> "new"]
  /\ origin = [i \in Installer |-> "own"]
  /\ asked = [i \in Installer |-> "none"]
  /\ valid = [i \in Installer |-> "none"]
  /\ staged = [i \in Installer |-> "none"]
  /\ samples = [p \in Package |-> Absent]
  /\ stirred = {}

At(i, here) == place' = [place EXCEPT ![i] = here]
Stir == stirred' = stirred \cup {i \in Installer : Trusting(i)}

\* What command i reads when it opens its ZIP.
ZipOf(i) == IF origin[i] = "own" THEN asked[i] ELSE zip

\* The command goes on, or ends, with its download closed.
Close(i, here) ==
  /\ At(i, here)
  /\ writers' = writers \ {i}

------------------------------------------------------------------------------
(* download_sample_package                                                  *)

\* No HTTPS, an unknown host, no SHA-256, or no answer: nothing is opened.  The
\* file given to install-sample is no package.
RefusePackage(i) ==
  /\ place[i] = "new"
  /\ At(i, "failed")
  /\ UNCHANGED <<zip, writers, origin, asked, valid, staged, samples, stirred>>

Download(i, p) ==
  /\ place[i] = "new"
  /\ At(i, "receiving")
  /\ origin' = [origin EXCEPT ![i] = "download"]
  /\ asked' = [asked EXCEPT ![i] = p]
  /\ zip' = "partial"
  /\ writers' = (IF zip = "none" THEN {} ELSE writers) \cup {i}
  /\ Stir
  /\ UNCHANGED <<valid, staged, samples>>

\* All of the response is written: what was asked for or something else, and not
\* what it was if another download writes to the file.  It may have been unlinked.
Receive(i) ==
  /\ place[i] = "receiving"
  /\ Close(i, "received")
  /\ IF i \in writers THEN zip' \in {asked[i], "damaged"} /\ Stir
                      ELSE UNCHANGED <<zip, stirred>>
  /\ UNCHANGED <<origin, asked, valid, staged, samples>>

\* A redirect to another host, or a response that breaks off.
ReceiveFails(i) ==
  /\ place[i] = "receiving"
  /\ Close(i, "failed")
  /\ UNCHANGED <<zip, origin, asked, valid, staged, samples, stirred>>

\* sha256_file: the file is removed if it is not the expected one.
Verify(i) ==
  /\ place[i] = "received"
  /\ \/ /\ zip = asked[i]
        /\ At(i, "verified")
        /\ UNCHANGED <<zip, writers, stirred>>
     \/ /\ zip # asked[i]
        /\ At(i, "failed")
        /\ zip' = "none" /\ writers' = {}
        /\ Stir
  /\ UNCHANGED <<origin, asked, valid, staged, samples>>

------------------------------------------------------------------------------
(* install_sample_package                                                   *)

\* install-sample is given a package's file.
Install(i, p) ==
  /\ place[i] = "new"
  /\ At(i, "verified")
  /\ asked' = [asked EXCEPT ![i] = p]
  /\ UNCHANGED <<zip, writers, origin, valid, staged, samples, stirred>>

\* validate_sample_package: every file has the hash that the manifest gives it.
Validate(i) ==
  /\ place[i] = "verified"
  /\ \/ /\ ZipOf(i) \in Package
        /\ At(i, "validated")
        /\ valid' = [valid EXCEPT ![i] = ZipOf(i)]
     \/ /\ ZipOf(i) \notin Package
        /\ At(i, "failed")
        /\ UNCHANGED valid
  /\ UNCHANGED <<zip, writers, origin, asked, staged, samples, stirred>>

\* target.exists()
FindSample(i) ==
  /\ place[i] = "validated"
  /\ At(i, IF samples[valid[i]] = Absent THEN "absent" ELSE "exists")
  /\ UNCHANGED <<zip, writers, origin, asked, valid, staged, samples, stirred>>

\* Mutant of Stage: the files are copied to where they belong.
StageInPlace(i) ==
  /\ place[i] = "absent" /\ At(i, "staged")
  /\ samples' = [samples EXCEPT ![valid[i]] = [content |-> "partial", by |-> i]]
  /\ staged' = [staged EXCEPT ![i] = ZipOf(i)]
  /\ UNCHANGED <<zip, writers, origin, asked, valid, stirred>>

\* The ZIP is opened again and the files that the manifest named are copied, their
\* hashes unseen; one that is missing, or no ZIP, ends the command.
Stage(i) ==
  /\ place[i] = "absent"
  /\ \/ /\ ZipOf(i) \in Package /\ Members(valid[i]) \subseteq Members(ZipOf(i))
        /\ At(i, "staged")
        /\ staged' = [staged EXCEPT ![i] = ZipOf(i)]
     \/ /\ ~(ZipOf(i) \in Package /\ Members(valid[i]) \subseteq Members(ZipOf(i)))
        /\ At(i, "failed")
        /\ UNCHANGED staged
  /\ UNCHANGED <<zip, writers, origin, asked, valid, samples, stirred>>

\* shutil.move renames the temporary directory.  If the target has come into being
\* it goes into the target, where nothing looks for it, or cannot.
Move(i) ==
  /\ place[i] = "staged"
  /\ \/ /\ samples[valid[i]] = Absent
        /\ samples' = [samples EXCEPT ![valid[i]] = [content |-> staged[i], by |-> i]]
        /\ At(i, "installed")
     \/ /\ samples[valid[i]] # Absent
        /\ UNCHANGED samples
        /\ At(i, "installed") \/ At(i, "failed")
  /\ UNCHANGED <<zip, writers, origin, asked, valid, staged, stirred>>

------------------------------------------------------------------------------

\* The process dies, or its disk fails it; a temporary directory may remain.
KillInstaller(i) ==
  /\ Running(i)
  /\ Close(i, "killed")
  /\ UNCHANGED <<zip, origin, asked, valid, staged, samples, stirred>>

SampleStep(i) ==
  \/ RefusePackage(i) \/ Receive(i) \/ ReceiveFails(i) \/ Verify(i)
  \/ Validate(i) \/ FindSample(i) \/ Stage(i) \/ Move(i)
  \/ \E p \in Package : Download(i, p) \/ Install(i, p)

SampleNext == \E i \in Installer : SampleStep(i) \/ KillInstaller(i)

SampleSpec == SampleInit /\ [][SampleNext]_sampleVars

------------------------------------------------------------------------------
(* Properties                                                               *)

\* Wherever a command dies or fails, a sample directory that can be seen has all
\* the files of its package and a download has installed what it had the SHA-256
\* of, unless another download touched the ZIP after it was verified.
InstalledIsWhole ==
  \A p \in Package : LET s == samples[p] IN
    s # Absent /\ s.by \notin stirred => s.content = p /\ asked[s.by] = p
=============================================================================
