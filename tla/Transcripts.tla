---------------------------- MODULE Transcripts ----------------------------
(***************************************************************************)
(* The import of a JSONL transcript by real_agent_adapter.py while the      *)
(* agent that records it is still at work: the importer reads the file when *)
(* it likes, then reads it again for its SHA-256 and asks for its size.     *)
(* The agent is another program (external): it appends line after line, may *)
(* be seen in the middle of a line, drop or repeat an event, die, and begin *)
(* a new session in the file or after emptying it.                          *)
(***************************************************************************)
EXTENDS Naturals, Sequences

CONSTANTS MaxSessions,  \* bound: sessions recorded in the file
          MaxEvents,    \* bound: events of a session
          MaxLines      \* bound: lines of the file

ASSUME TranscriptAssumption ==
  MaxSessions \in Nat /\ MaxEvents \in Nat /\ MaxLines \in Nat

VARIABLES lines,    \* what is in the file
          session,  \* the session that is recorded, or was last
          number,   \* the number of its next event
          writing,  \* "no", "header", "events", or "part": in the middle of a line
          importer, \* where the import is
          snapshot, \* the lines it has loaded
          stored    \* the last import that was stored

transcriptVars == <<lines, session, number, writing, importer, snapshot, stored>>

Line(type, s, n) == [record_type |-> type, session |-> s, sequence |-> n]
Header(s) == Line("run", s, 0)
Result(s) == Line("result", s, 0)

\* A line that is cut off, or was and another one follows in it: no JSON.
Broken == Line("broken", 0, 0)

NotStored == [lines |-> <<>>, hashed |-> <<>>, measured |-> <<>>, session |-> 0]

TranscriptInit ==
  /\ lines = <<>> /\ session = 0 /\ number = 0 /\ writing = "no"
  /\ importer = "idle" /\ snapshot = <<>> /\ stored = NotStored

------------------------------------------------------------------------------
(* The agent                                                                *)

\* A line is written, after the rest of one that was cut off or on its own.
Put(line) ==
  lines' = IF writing = "header" /\ lines # <<>> /\ lines[Len(lines)] = Broken
             THEN lines ELSE Append(lines, line)

BeginSession ==
  /\ writing = "no" /\ session < MaxSessions
  /\ session' = session + 1 /\ number' = 0
  /\ writing' = "header"
  /\ lines' \in {<<>>, lines}

WriteHeader ==
  /\ writing = "header"
  /\ writing' = "events"
  /\ Put(Header(session))
  /\ UNCHANGED <<session, number>>

\* An event, an event once more, or none although it has its number.
WriteEvent ==
  /\ writing = "events" /\ number < MaxEvents /\ Len(lines) < MaxLines
  /\ \/ Put(Line("event", session, number)) /\ number' = number + 1
     \/ Put(Line("event", session, number)) /\ UNCHANGED number
     \/ number' = number + 1 /\ UNCHANGED lines
  /\ UNCHANGED <<session, writing>>

WriteResult ==
  /\ writing = "events"
  /\ writing' = "no"
  /\ Put(Result(session))
  /\ UNCHANGED <<session, number>>

\* A line is seen before its end; then its end is written.
WritePart ==
  /\ \/ /\ writing = "events" /\ writing' = "part"
        /\ Put(Broken)
     \/ /\ writing = "part" /\ writing' = "events"
        /\ lines' = SubSeq(lines, 1, Len(lines) - 1)
  /\ UNCHANGED <<session, number>>

Die ==
  /\ writing # "no"
  /\ writing' = "no"
  /\ UNCHANGED <<lines, session, number>>

Record ==
  /\ BeginSession \/ WriteHeader \/ WriteEvent \/ WriteResult \/ WritePart \/ Die
  /\ UNCHANGED <<importer, snapshot, stored>>

------------------------------------------------------------------------------
(* The import                                                               *)

EventAt(ls, i) == ls[i + 2]

\* Mutant of Accepts: the events may have any numbers.
AcceptsUnnumbered(ls) ==
  /\ Len(ls) >= 2 /\ ls[1].record_type = "run" /\ ls[Len(ls)].record_type = "result"
  /\ \A i \in 0..(Len(ls) - 3) : EventAt(ls, i).record_type = "event"

\* load_agent_transcript with _read_records and _event_from_record.
Accepts(ls) ==
  /\ \A i \in DOMAIN ls : ls[i] # Broken
  /\ Len(ls) >= 2
  /\ ls[1].record_type = "run"
  /\ ls[Len(ls)].record_type = "result"
  /\ \A i \in 0..(Len(ls) - 3) :
       EventAt(ls, i).record_type = "event" /\ EventAt(ls, i).sequence = i

\* The import, or validate-trace, reads the file; what it refuses is not stored.
Load ==
  /\ importer = "idle"
  /\ Accepts(lines)
  /\ importer' = "loaded" /\ snapshot' = lines /\ stored' = NotStored

\* _file_sha256 and st_size for the artifact, after the rows of the run were
\* flushed; one commit stores them all.
Hash ==
  /\ importer = "loaded"
  /\ importer' = "hashed"
  /\ stored' = [stored EXCEPT !.hashed = lines]
  /\ UNCHANGED snapshot

Store ==
  /\ importer = "hashed"
  /\ importer' = "idle" /\ snapshot' = <<>>
  /\ stored' = [lines |-> snapshot, hashed |-> stored.hashed, measured |-> lines,
                session |-> session]

\* It fails on the way.
FailImport ==
  /\ importer # "idle"
  /\ importer' = "idle" /\ snapshot' = <<>> /\ stored' = NotStored

Import ==
  /\ Load \/ Hash \/ Store \/ FailImport
  /\ UNCHANGED <<lines, session, number, writing>>

TranscriptNext == Record \/ Import

TranscriptSpec == TranscriptInit /\ [][TranscriptNext]_transcriptVars

------------------------------------------------------------------------------
(* Properties                                                               *)

\* The lines of session s from its beginning to its end, its events without a gap.
WholeSession(ls, s) ==
  /\ ls[1] = Header(s) /\ ls[Len(ls)] = Result(s)
  /\ \A i \in 0..(Len(ls) - 3) : EventAt(ls, i) = Line("event", s, i)

\* Whenever the file is read, what is stored is one session, finished, from its
\* header to its result: never one in the middle of a line or an event, never the
\* rest of a session that died with the next one.  Its artifact has the hash and
\* the size of these lines, unless a new session was begun in the file meanwhile.
ImportIsOneSession ==
  (importer = "idle" /\ stored # NotStored) =>
    \E s \in 1..stored.session :
      /\ WholeSession(stored.lines, s)
      /\ (stored.hashed = stored.lines /\ stored.measured = stored.lines)
           \/ s < stored.session
=============================================================================
