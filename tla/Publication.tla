----------------------------- MODULE Publication -----------------------------
(***************************************************************************)
(* The end of finish: how the verdicts of a run become files and an exit   *)
(* code.                                                                   *)
(*                                                                         *)
(* The documents are written in a fixed order, each by atomicWrite; a      *)
(* failure in between is an operational error that changes the exit code,  *)
(* and artifactFailure writes the report and the summary once more.  A     *)
(* document is abstracted to the publication errors it lists: with what    *)
(* the run found before (outcome) they decide the exit code it shows.      *)
(***************************************************************************)
EXTENDS Naturals, FiniteSets

CONSTANT
  Faults  \* what may go wrong

\* "event": an event cannot be appended; "write": a temporary file cannot be
\* made or written, a directory created or an old file removed; "rename": a
\* rename is refused; "append": the step summary cannot be appended to;
\* "close": the event file cannot be closed; "crash": the process is killed.
FaultKinds == {"event", "write", "rename", "append", "close", "crash"}

ASSUME FaultsAssumption == Faults \subseteq FaultKinds

Requests == {"junit", "github", "json"}
RunLocal == {"report.md", "junit.xml", "summary.json"}
External == {"junit copy", "json copy"}
Documents == RunLocal \union External

\* The exit codes a run may have before it is published.
Outcomes == {0, 10, 20, 23, 24, 25}

PublicationErrors == {"event", "reporting", "artifacts"}

Absent == [kind |-> "absent", errors |-> {}]
Old == [kind |-> "old", errors |-> {}]
Partial == [kind |-> "partial", errors |-> {}]
Written(shown) == [kind |-> "written", errors |-> shown]
Contents == {Absent, Old, Partial} \union {Written(shown) : shown \in SUBSET PublicationErrors}

VARIABLES
  pc,           \* the statement of finish or artifactFailure
  phase,        \* the system call of the atomicWrite under way
  requested,    \* --junit-output, GITHUB_STEP_SUMMARY, --json-output
  outcome,      \* the exit code the evidence and the cleanup amount to
  errors,       \* the operational errors added since
  disk,         \* what each document holds
  stepSummary,  \* what the run appended to GITHUB_STEP_SUMMARY
  open,         \* whether events.jsonl is open
  unrepaired,   \* a write of artifactFailure failed (history)
  refused,      \* a rename was refused (history)
  exit          \* the exit code of the command

choice  == <<requested, outcome>>
history == <<unrepaired, refused>>
vars == <<pc, phase, choice, errors, disk, stepSummary, open, history, exit>>

NoExit == 99

Points == {"events", "report", "junit", "junitCopy", "append", "rereport", "summary",
           "copy", "close", "repairReport", "repairSummary", "repairClose",
           "exited", "crashed"}

TypeOK ==
  /\ pc \in Points /\ phase \in {"idle", "rename", "remove", "again"}
  /\ requested \subseteq Requests /\ outcome \in Outcomes
  /\ errors \subseteq PublicationErrors
  /\ disk \in [Documents -> Contents] /\ stepSummary \in Contents
  /\ open \in BOOLEAN /\ unrepaired \in BOOLEAN /\ refused \in BOOLEAN
  /\ exit \in Outcomes \union {NoExit}

\* The run directory is new; the external paths may hold an earlier result.
Init ==
  /\ pc = "events" /\ phase = "idle"
  /\ requested \in SUBSET Requests /\ outcome \in Outcomes
  /\ errors = {}
  /\ \E old \in SUBSET External :
       disk = [d \in Documents |-> IF d \in old THEN Old ELSE Absent]
  /\ stepSummary = Absent /\ open = TRUE
  /\ unrepaired = FALSE /\ refused = FALSE
  /\ exit = NoExit

\* Mutants of Code: a code of the preflight; the summary is not refreshed.
CodePrerequisite == IF errors # {} /\ outcome \notin {10, 24} THEN 22 ELSE outcome
CodeOfTheRun == outcome

\* The exit code after refreshSummary (verdicts.overall).
Code == IF errors # {} /\ outcome \notin {10, 24} THEN 23 ELSE outcome

-----------------------------------------------------------------------------
\* The two last events; the summary is refreshed after them.
EmitEvents ==
  /\ pc = "events"
  /\ errors' \in {{}} \union {{"event"} : fault \in Faults \intersect {"event"}}
  /\ pc' = "report"
  /\ UNCHANGED <<phase, choice, disk, stepSummary, open, history, exit>>

\* What was not requested is passed over.
Skip ==
  /\ \/ pc = "junit" /\ "junit" \notin requested /\ pc' = "append"
     \/ pc = "append" /\ "github" \notin requested /\ pc' = "summary"
     \/ pc = "copy" /\ "json" \notin requested /\ pc' = "close"
  /\ UNCHANGED <<phase, choice, errors, disk, stepSummary, open, history, exit>>

\* The statements that write a document.
WritePoints ==
  {"report", "junit", "junitCopy", "rereport", "summary", "copy",
   "repairReport", "repairSummary"}

Target ==
  CASE pc \in {"report", "rereport", "repairReport"} -> "report.md"
    [] pc = "junit" -> "junit.xml"
    [] pc = "junitCopy" -> "junit copy"
    [] pc \in {"summary", "repairSummary"} -> "summary.json"
    [] pc = "copy" -> "json copy"
    [] OTHER -> "none"

Writing ==
  /\ pc \in WritePoints
  /\ pc = "junit" => "junit" \in requested
  /\ pc = "copy" => "json" \in requested

\* Mutant of After: artifactFailure leaves the summary as it is.
AfterWithoutSummaryRepair ==
  CASE pc = "report" -> "junit"
    [] pc = "junit" -> "junitCopy"
    [] pc = "junitCopy" -> "append"
    [] pc = "rereport" -> "summary"
    [] pc = "summary" -> "copy"
    [] pc = "copy" -> "close"
    [] OTHER -> "repairClose"

\* The statement after a document.
After ==
  CASE pc = "report" -> "junit"
    [] pc = "junit" -> "junitCopy"
    [] pc = "junitCopy" -> "append"
    [] pc = "rereport" -> "summary"
    [] pc = "summary" -> "copy"
    [] pc = "copy" -> "close"
    [] pc = "repairReport" -> "repairSummary"
    [] pc = "repairSummary" -> "repairClose"
    [] OTHER -> pc

Repairs == {"repairReport", "repairSummary"}

\* A failed write ends in artifactFailure, whose own failures are ignored.
WriteFails ==
  /\ phase' = "idle"
  /\ \/ /\ pc \in Repairs
        /\ pc' = After /\ unrepaired' = TRUE /\ UNCHANGED errors
     \/ /\ pc \notin Repairs
        /\ pc' = "repairReport" /\ errors' = errors \union {"artifacts"}
        /\ UNCHANGED unrepaired

\* Mutant of Rendered: the summary is not refreshed after a failed append.
RenderedStale ==
  IF pc = "copy" THEN disk["summary.json"] ELSE Written(errors \ {"reporting"})

\* What is written: the refreshed summary, or a copy of the one on disk.
Rendered == IF pc = "copy" THEN disk["summary.json"] ELSE Written(errors)

Replaced ==
  /\ disk' = [disk EXCEPT ![Target] = Rendered]
  /\ phase' = "idle" /\ pc' = After
  /\ UNCHANGED <<errors, unrepaired>>

\* Mutant of FirstCall: the old file is removed before the new one is renamed.
FirstCallRemove == "remove"

\* What follows the temporary file: the rename, which replaces the document.
FirstCall == "rename"

\* The document is rendered, and its temporary file written and synced.
CreateTemporary ==
  /\ Writing /\ phase = "idle"
  /\ \/ phase' = FirstCall /\ UNCHANGED <<pc, errors, unrepaired>>
     \/ "write" \in Faults /\ WriteFails
  /\ UNCHANGED <<choice, disk, stepSummary, open, refused, exit>>

Rename ==
  /\ phase = "rename"
  /\ \/ Replaced /\ UNCHANGED refused
     \/ /\ "rename" \in Faults
        /\ phase' = "remove" /\ refused' = TRUE
        /\ UNCHANGED <<pc, errors, disk, unrepaired>>
  /\ UNCHANGED <<choice, stepSummary, open, exit>>

\* A refused rename is tried again without the old document.
RemoveOld ==
  /\ phase = "remove"
  /\ \/ /\ disk' = [disk EXCEPT ![Target] = Absent]
        /\ phase' = "again" /\ UNCHANGED <<pc, errors, unrepaired>>
     \/ "write" \in Faults /\ WriteFails /\ UNCHANGED disk
  /\ UNCHANGED <<choice, stepSummary, open, refused, exit>>

RenameAgain ==
  /\ phase = "again"
  /\ \/ Replaced
     \/ "rename" \in Faults /\ WriteFails /\ UNCHANGED disk
  /\ UNCHANGED <<choice, stepSummary, open, refused, exit>>

\* AppendExternal: not atomic.  Its failure is reported, not returned.
AppendStepSummary ==
  /\ pc = "append" /\ "github" \in requested
  /\ \/ /\ stepSummary' = Written(errors)
        /\ pc' = "summary" /\ UNCHANGED errors
     \/ /\ "append" \in Faults
        /\ stepSummary' \in {Absent, Partial, Written(errors)}
        /\ errors' = errors \union {"reporting"}
        /\ pc' = "rereport"
  /\ UNCHANGED <<phase, choice, disk, open, history, exit>>

\* Session.Close: the event file is gone for the session either way.
Close ==
  /\ pc = "close"
  /\ open' = FALSE
  /\ \/ pc' = "exited" /\ exit' = Code /\ UNCHANGED errors
     \/ /\ "close" \in Faults
        /\ errors' = errors \union {"artifacts"}
        /\ pc' = "repairReport" /\ UNCHANGED exit
  /\ UNCHANGED <<phase, choice, disk, stepSummary, history>>

\* The last statement of artifactFailure.
RepairClose ==
  /\ pc = "repairClose"
  /\ open' = FALSE
  /\ pc' = "exited" /\ exit' = Code
  /\ UNCHANGED <<phase, choice, errors, disk, stepSummary, history>>

\* The process is killed; an append may have begun.
Crash ==
  /\ "crash" \in Faults /\ pc \notin {"exited", "crashed"}
  /\ pc' = "crashed" /\ phase' = "idle"
  /\ \/ UNCHANGED stepSummary
     \/ pc = "append" /\ "github" \in requested /\ stepSummary' = Partial
  /\ UNCHANGED <<choice, errors, disk, open, history, exit>>

Over == pc \in {"exited", "crashed"} /\ UNCHANGED vars

Write == CreateTemporary \/ Rename \/ RemoveOld \/ RenameAgain

Next ==
  \/ EmitEvents \/ Skip \/ Write \/ AppendStepSummary \/ Close \/ RepairClose
  \/ Crash \/ Over

Spec == Init /\ [][Next]_vars

-----------------------------------------------------------------------------
\* The documents the command was asked for.
Asked ==
  {"report.md", "summary.json"}
    \union (IF "junit" \in requested THEN {"junit.xml", "junit copy"} ELSE {})
    \union (IF "json" \in requested THEN {"json copy"} ELSE {})

\* Exit code 0 is not given away by a run that could not say so: everything
\* asked for is there, complete and without an error, the step summary
\* included (lifecycle.go: finish).
PassIsPublished ==
  exit = 0 =>
    /\ \A d \in Asked : disk[d] = Written({})
    /\ "github" \in requested => stepSummary = Written({})
    /\ ~ open

\* The report and the summary of the run directory show what the exit code is
\* computed from, every late error included, unless their last writes failed
\* too (lifecycle.go: finish, artifactFailure).
ExitIsReported ==
  pc = "exited" /\ ~ unrepaired =>
    \A d \in {"report.md", "summary.json"} : disk[d] = Written(errors) /\ exit = Code

\* What may be missing from a document: what went wrong after it was written.
Later(d) ==
  CASE d = "json copy" -> {"artifacts"}
    [] d \in {"junit.xml", "junit copy"} -> {"reporting", "artifacts"}
    [] OTHER -> IF unrepaired THEN {"reporting", "artifacts"} ELSE {}

\* A document that was written omits nothing but what failed after it, so that
\* one that lists no error was written by a run that had met none so far.
OmitsOnlyLater ==
  pc = "exited" =>
    \A d \in Documents :
      disk[d].kind = "written" => errors \ disk[d].errors \subseteq Later(d)

\* A killed or failing run leaves each document as it was or complete: one that
\* was there is gone only after a rename was refused (session.go: atomicWrite).
NeverLost ==
  [][\A d \in Documents :
       disk[d] # Absent /\ ~ refused =>
         disk'[d] = disk[d] \/ disk'[d].kind = "written"]_vars
=============================================================================
