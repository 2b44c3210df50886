-------------------------- MODULE PublicationProofs --------------------------
(***************************************************************************)
(* What the exit code of a run tells of its files, for every set of faults.*)
(* The documents are written one after the other, so the invariant says,   *)
(* for each statement, what the documents before it hold.                  *)
(***************************************************************************)
EXTENDS Publication, TLAPS

\* The statements of finish after the report, after the JUnit documents, ...
AfterReport == {"junit", "junitCopy", "append", "summary", "copy", "close"}
AfterJUnit == {"append", "rereport", "summary", "copy", "close"}
AfterAppend == {"rereport", "summary", "copy", "close"}
AfterSummary == {"copy", "close"}
BeforeCopy == {"report", "junit", "junitCopy", "append", "rereport", "summary"}
Finishing == {"events", "report"} \union AfterReport \union AfterJUnit
Repairing == {"repairReport", "repairSummary", "repairClose"}

\* A system call is made for a document that was asked for.
Calling == phase # "idle" => Writing

\* Until a write fails nothing has been repaired.
Regular == pc \in Finishing => ~ unrepaired /\ exit = NoExit

\* The documents behind the current statement show every error there is.
Shown ==
  /\ pc \in AfterReport => disk["report.md"] = Written(errors)
  /\ pc \in AfterSummary => disk["summary.json"] = Written(errors)
  /\ pc = "close" /\ "json" \in requested => disk["json copy"] = Written(errors)

\* Without errors the JUnit documents and the step summary show none.
Untroubled ==
  errors = {} =>
    /\ pc = "junitCopy" \/ (pc \in AfterJUnit /\ "junit" \in requested) =>
         disk["junit.xml"] = Written({})
    /\ pc \in AfterJUnit /\ "junit" \in requested => disk["junit copy"] = Written({})
    /\ pc \in AfterAppend /\ "github" \in requested => stepSummary = Written({})

\* artifactFailure runs for an error it has recorded.
Repaired ==
  pc \in Repairing =>
    /\ exit = NoExit /\ errors # {}
    /\ ~ unrepaired /\ pc # "repairReport" => disk["report.md"] = Written(errors)
    /\ ~ unrepaired /\ pc = "repairClose" => disk["summary.json"] = Written(errors)

\* The exit code is that of the refreshed summary.
Exited ==
  /\ pc = "exited" => exit = Code
  /\ pc # "exited" => exit = NoExit

\* What a written document may omit while the run goes on.
Omissions ==
  /\ \A d \in Documents :
       disk[d].kind = "written" => errors \ disk[d].errors \subseteq {"reporting", "artifacts"}
  /\ disk["json copy"].kind = "written" =>
       errors \ disk["json copy"].errors \subseteq {"artifacts"}
  /\ pc = "events" => \A d \in Documents : disk[d].kind # "written"
  /\ pc \in BeforeCopy => disk["json copy"].kind # "written"

\* An old document is removed only for a rename that was refused.
Refusal == phase \in {"remove", "again"} => refused

IInv ==
  /\ Omissions /\ Refusal
  /\ TypeOK /\ Calling /\ Regular /\ Shown /\ Untroubled /\ Repaired /\ Exited
  /\ ExitIsReported /\ PassIsPublished

-----------------------------------------------------------------------------
LEMMA WrittenTyped ==
  ASSUME NEW shown \in SUBSET PublicationErrors
  PROVE  Written(shown) \in Contents
BY DEF Contents

LEMMA TypeStep == TypeOK /\ [Next]_vars => TypeOK'
<1> SUFFICES ASSUME TypeOK, [Next]_vars PROVE TypeOK'
  OBVIOUS
<1> USE DEF TypeOK, choice, history
<1>1. Written(errors) \in Contents /\ Absent \in Contents /\ Partial \in Contents
  BY WrittenTyped DEF Contents
<1>2. Code \in Outcomes
  BY DEF Code, Outcomes
<1>3. Rendered \in Contents
  BY <1>1 DEF Rendered, Documents, RunLocal
<1>4. After \in Points
  BY DEF After, Points
<1>5. Replaced => /\ disk' \in [Documents -> Contents] /\ phase' = "idle"
                  /\ pc' \in Points /\ UNCHANGED <<errors, unrepaired>>
  <2>1. Replaced => disk' \in [Documents -> Contents]
    BY <1>3 DEF Replaced
  <2> QED BY <1>4, <2>1 DEF Replaced
<1>17. WriteFails => /\ pc' \in Points /\ phase' = "idle"
                     /\ errors' \subseteq PublicationErrors /\ unrepaired' \in BOOLEAN
  <2>1. "repairReport" \in Points /\ {"artifacts"} \subseteq PublicationErrors
    BY DEF Points, PublicationErrors
  <2>2. WriteFails => pc' \in Points
    BY <1>4, <2>1 DEF WriteFails
  <2>3. WriteFails => errors' \subseteq PublicationErrors
    BY <2>1 DEF WriteFails
  <2>4. WriteFails => unrepaired' \in BOOLEAN
    BY DEF WriteFails
  <2> QED BY <2>2, <2>3, <2>4 DEF WriteFails
<1>6. CASE EmitEvents
  BY <1>6 DEF EmitEvents, Points, PublicationErrors
<1>7. CASE Skip
  BY <1>7 DEF Skip, Points
<1>8. CASE CreateTemporary
  <2>1. CASE WriteFails
    BY <1>8, <1>17, <2>1 DEF CreateTemporary
  <2>2. CASE phase' = FirstCall /\ UNCHANGED <<pc, errors, unrepaired>>
    BY <1>8, <2>2 DEF CreateTemporary, FirstCall
  <2> QED BY <1>8, <2>1, <2>2 DEF CreateTemporary
<1>9. CASE Rename
  <2>1. CASE Replaced /\ UNCHANGED refused
    BY <1>9, <1>5, <2>1 DEF Rename
  <2>2. CASE phase' = "remove" /\ refused' = TRUE /\ UNCHANGED <<pc, errors, disk, unrepaired>>
    BY <1>9, <2>2 DEF Rename
  <2> QED BY <1>9, <2>1, <2>2 DEF Rename
<1>10. CASE RemoveOld
  <2>1. CASE WriteFails /\ UNCHANGED disk
    BY <1>10, <1>17, <2>1 DEF RemoveOld
  <2>2. CASE /\ disk' = [disk EXCEPT ![Target] = Absent]
             /\ phase' = "again" /\ UNCHANGED <<pc, errors, unrepaired>>
    BY <1>10, <1>1, <2>2 DEF RemoveOld
  <2> QED BY <1>10, <2>1, <2>2 DEF RemoveOld
<1>11. CASE RenameAgain
  <2>1. CASE WriteFails /\ UNCHANGED disk
    BY <1>11, <1>17, <2>1 DEF RenameAgain
  <2>2. CASE Replaced
    BY <1>11, <1>5, <2>2 DEF RenameAgain
  <2> QED BY <1>11, <2>1, <2>2 DEF RenameAgain
<1>12. CASE AppendStepSummary
  <2>1. pc' \in {"summary", "rereport"} /\ stepSummary' \in Contents
    BY <1>12, <1>1 DEF AppendStepSummary
  <2>2. errors' \subseteq PublicationErrors
    <3>1. errors' \subseteq errors \union {"reporting"}
      BY <1>12 DEF AppendStepSummary
    <3> QED BY <3>1 DEF PublicationErrors
  <2> QED BY <1>12, <2>1, <2>2 DEF AppendStepSummary, Points
<1>13. CASE Close
  <2>1. pc' \in {"exited", "repairReport"} /\ open' = FALSE
    BY <1>13 DEF Close
  <2>2. errors' \subseteq PublicationErrors
    <3>1. errors' \subseteq errors \union {"artifacts"}
      BY <1>13 DEF Close
    <3> QED BY <3>1 DEF PublicationErrors
  <2>3. exit' \in Outcomes \union {NoExit}
    BY <1>13, <1>2 DEF Close
  <2> QED BY <1>13, <2>1, <2>2, <2>3 DEF Close, Points
<1>14. CASE RepairClose
  BY <1>14, <1>2 DEF RepairClose, Points
<1>15. CASE Crash
  BY <1>15, <1>1 DEF Crash, Points
<1>16. CASE UNCHANGED vars
  BY <1>16 DEF vars
<1> QED BY <1>6, <1>7, <1>8, <1>9, <1>10, <1>11, <1>12, <1>13, <1>14, <1>15, <1>16
  DEF Next, Write, Over

LEMMA InitIInv == Init => IInv
<1> SUFFICES ASSUME Init PROVE IInv
  OBVIOUS
<1>1. Absent \in Contents /\ Old \in Contents
  BY DEF Contents
<1>2. TypeOK
  <2>1. disk \in [Documents -> Contents] /\ stepSummary \in Contents
    BY <1>1 DEF Init
  <2>2. /\ errors \subseteq PublicationErrors /\ pc \in Points
        /\ requested \subseteq Requests
    BY DEF Init, Points
  <2>3. /\ phase = "idle" /\ outcome \in Outcomes /\ exit = NoExit
        /\ open = TRUE /\ unrepaired = FALSE /\ refused = FALSE
    BY DEF Init
  <2> QED BY <2>1, <2>2, <2>3 DEF TypeOK
<1>3. pc = "events" /\ phase = "idle" /\ exit = 99 /\ unrepaired = FALSE
  BY DEF Init, NoExit
<1>4. Calling /\ Regular /\ Shown /\ Exited
  BY <1>3 DEF Calling, Regular, Shown, Exited, AfterReport, AfterSummary, NoExit
<1>5. Untroubled /\ Repaired
  BY <1>3 DEF Untroubled, Repaired, AfterJUnit, AfterAppend, Repairing
<1>6. Omissions /\ Refusal
  <2>1. \A d \in Documents : disk[d].kind # "written"
    BY DEF Init, Absent, Old
  <2>2. "json copy" \in Documents
    BY DEF Documents, External
  <2> QED BY <1>3, <2>1, <2>2 DEF Omissions, Refusal
<1> QED BY <1>2, <1>3, <1>4, <1>5, <1>6 DEF IInv, ExitIsReported, PassIsPublished

-----------------------------------------------------------------------------
\* What a write does, to the one document it is about.

\* A document is replaced by what the errors so far amount to.
LEMMA Replacement ==
  ASSUME IInv, Replaced, pc \in WritePoints
  PROVE  /\ Target \in Documents
         /\ disk'[Target] = Written(errors)
         /\ \A d \in Documents \ {Target} : disk'[d] = disk[d]
<1>1. Target \in Documents
  BY DEF WritePoints, Target, Documents, RunLocal, External
<1>2. Rendered = Written(errors)
  BY DEF Rendered, IInv, Shown, AfterSummary
<1> QED BY <1>1, <1>2 DEF Replaced, IInv, TypeOK

\* A call of a write leaves everything else in place and ends the write or not.
Pending ==
  /\ UNCHANGED <<pc, errors, unrepaired>>
  /\ \A d \in Documents \ {Target} : disk'[d] = disk[d]

LEMMA Writes ==
  ASSUME IInv, Write
  PROVE  /\ Writing /\ UNCHANGED <<requested, outcome, stepSummary, open, exit>>
         /\ Pending \/ Replaced \/ (WriteFails /\ UNCHANGED disk)
<1> USE DEF IInv, TypeOK, Calling, choice
<1>1. CASE CreateTemporary
  BY <1>1 DEF CreateTemporary, Pending
<1>2. CASE Rename
  BY <1>2 DEF Rename, Pending
<1>3. CASE RemoveOld
  BY <1>3 DEF RemoveOld, Pending
<1>4. CASE RenameAgain
  BY <1>4 DEF RenameAgain
<1> QED BY <1>1, <1>2, <1>3, <1>4 DEF Write

\* The steps that write no document.
LEMMA Actions ==
  ASSUME [Next]_vars
  PROVE  \/ Write \/ EmitEvents \/ Skip \/ AppendStepSummary \/ Close
         \/ RepairClose \/ Crash \/ UNCHANGED vars
BY DEF Next, Over

LEMMA CallingStep == IInv /\ [Next]_vars => Calling'
<1> SUFFICES ASSUME IInv, [Next]_vars PROVE Calling'
  OBVIOUS
<1> USE DEF Calling, IInv, Writing, choice
<1>1. CASE CreateTemporary
  BY <1>1 DEF CreateTemporary, WriteFails
<1>2. CASE Rename
  BY <1>2 DEF Rename, Replaced
<1>3. CASE RemoveOld
  BY <1>3 DEF RemoveOld, WriteFails
<1>4. CASE RenameAgain
  BY <1>4 DEF RenameAgain, Replaced, WriteFails
<1>5. CASE EmitEvents \/ Skip \/ AppendStepSummary \/ Close \/ RepairClose
  BY <1>5 DEF EmitEvents, Skip, AppendStepSummary, Close, RepairClose, WritePoints
<1>6. CASE Crash \/ UNCHANGED vars
  BY <1>6 DEF Crash, vars
<1> QED BY Actions, <1>1, <1>2, <1>3, <1>4, <1>5, <1>6 DEF Write

LEMMA ShownStep == IInv /\ [Next]_vars => Shown' /\ Repaired' /\ Regular'
<1> SUFFICES ASSUME IInv, [Next]_vars PROVE Shown' /\ Repaired' /\ Regular'
  OBVIOUS
<1> USE DEF Shown, Repaired, Regular, AfterReport, AfterJUnit, AfterSummary, Finishing,
  Repairing, IInv
<1>1. CASE Write /\ Pending
  <2>1. UNCHANGED <<pc, errors, unrepaired, requested, exit>>
    BY <1>1, Writes DEF Pending
  <2>2. \A d \in Documents : d # Target => disk'[d] = disk[d]
    BY <1>1 DEF Pending
  <2>3. /\ pc \in AfterReport \union {"repairSummary", "repairClose"} => Target # "report.md"
        /\ pc \in AfterSummary \union {"repairClose"} => Target # "summary.json"
        /\ pc = "close" => Target # "json copy"
    BY DEF Target
  <2>4. {"report.md", "summary.json", "json copy"} \subseteq Documents
    BY DEF Documents, RunLocal, External
  <2>5. Shown'
    BY <2>1, <2>2, <2>3, <2>4
  <2>6. Repaired'
    BY <2>1, <2>2, <2>3, <2>4
  <2> QED BY <2>1, <2>5, <2>6
<1>2. CASE Write /\ Replaced
  <2>1. UNCHANGED <<errors, unrepaired, requested, exit>> /\ pc' = After
    BY <1>2, Writes DEF Replaced
  <2>2. Writing
    BY <1>2, Writes
  <2>3. /\ disk'[Target] = Written(errors)
        /\ \A d \in Documents : d # Target => disk'[d] = disk[d]
    BY <1>2, <2>2, Replacement DEF Writing
  <2>4. {"report.md", "summary.json", "json copy"} \subseteq Documents
    BY DEF Documents, RunLocal, External
  <2>5. Shown'
    BY <2>1, <2>2, <2>3, <2>4 DEF Target, After, Writing, WritePoints
  <2>6. Repaired'
    BY <2>1, <2>2, <2>3, <2>4 DEF Target, After, Writing, WritePoints
  <2>7. Regular'
    BY <2>1, <2>2 DEF After, Writing, WritePoints
  <2> QED BY <2>5, <2>6, <2>7
<1>3. CASE Write /\ WriteFails /\ UNCHANGED disk
  <2>1. Writing /\ UNCHANGED <<disk, requested, exit>>
    BY <1>3, Writes
  <2>2. CASE pc \in Repairs
    BY <1>3, <2>1, <2>2 DEF WriteFails, Repairs, After
  <2>3. CASE pc \notin Repairs
    BY <1>3, <2>1, <2>3 DEF WriteFails, Repairs, Writing, WritePoints
  <2> QED BY <2>2, <2>3
<1>4. CASE EmitEvents
  BY <1>4 DEF EmitEvents, choice, history
<1>5. CASE Skip
  BY <1>5 DEF Skip, choice, history
<1>6. CASE AppendStepSummary
  BY <1>6 DEF AppendStepSummary, choice, history
<1>7. CASE Close
  BY <1>7 DEF Close, choice, history
<1>8. CASE RepairClose
  BY <1>8 DEF RepairClose, choice, history
<1>9. CASE Crash
  BY <1>9 DEF Crash, choice, history
<1>10. CASE UNCHANGED vars
  BY <1>10 DEF vars, choice, history
<1> QED BY Actions, Writes, <1>1, <1>2, <1>3, <1>4, <1>5, <1>6, <1>7, <1>8, <1>9, <1>10

\* The errors the summary shows decide the exit code.
LEMMA ExitedStep == IInv /\ [Next]_vars => Exited' /\ ExitIsReported'
<1> SUFFICES ASSUME IInv, [Next]_vars PROVE Exited' /\ ExitIsReported'
  OBVIOUS
<1> USE DEF Exited, ExitIsReported, IInv
<1>1. CASE Write
  <2>1. Writing /\ exit' = exit
    BY <1>1, Writes
  <2>2. pc' # "exited"
    BY <1>1, <2>1, Writes DEF Pending, Replaced, WriteFails, After, Writing, WritePoints
  <2> QED BY <2>1, <2>2 DEF Writing, WritePoints
<1>2. CASE EmitEvents \/ Skip \/ AppendStepSummary
  BY <1>2 DEF EmitEvents, Skip, AppendStepSummary
<1>3. CASE Close
  <2>1. pc' = "exited" => Code' = Code
    BY <1>3 DEF Close, Code, choice
  <2> QED BY <1>3, <2>1 DEF Close, Shown, AfterReport, AfterSummary, Code
<1>4. CASE RepairClose
  <2>1. Code' = Code
    BY <1>4 DEF RepairClose, Code, choice
  <2> QED BY <1>4, <2>1 DEF RepairClose, Repaired, Repairing, history
<1>5. CASE Crash
  BY <1>5 DEF Crash
<1>6. CASE UNCHANGED vars
  BY <1>6 DEF vars, choice, history, Code
<1> QED BY Actions, <1>1, <1>2, <1>3, <1>4, <1>5, <1>6

\* Exit code 0 is left only for a run without errors.
LEMMA UntroubledStep == IInv /\ [Next]_vars => Untroubled'
<1> SUFFICES ASSUME IInv, [Next]_vars, errors' = {} PROVE Untroubled'
  BY DEF Untroubled
<1> USE DEF Untroubled, IInv, AfterJUnit, AfterAppend
<1>1. CASE Write /\ Pending
  <2>1. UNCHANGED <<pc, errors, requested, stepSummary>>
    BY <1>1, Writes DEF Pending
  <2>2. \A d \in Documents : d # Target => disk'[d] = disk[d]
    BY <1>1 DEF Pending
  <2>3. /\ pc \in AfterJUnit \union {"junitCopy"} => Target # "junit.xml"
        /\ pc \in AfterJUnit => Target # "junit copy"
    BY DEF Target
  <2>4. {"junit.xml", "junit copy"} \subseteq Documents
    BY DEF Documents, RunLocal, External
  <2> QED BY <2>1, <2>2, <2>3, <2>4
<1>2. CASE Write /\ Replaced
  <2>1. UNCHANGED <<errors, requested, stepSummary>> /\ pc' = After
    BY <1>2, Writes DEF Replaced
  <2>2. Writing
    BY <1>2, Writes
  <2>3. /\ disk'[Target] = Written(errors)
        /\ \A d \in Documents : d # Target => disk'[d] = disk[d]
    BY <1>2, <2>2, Replacement DEF Writing
  <2>4. {"junit.xml", "junit copy"} \subseteq Documents
    BY DEF Documents, RunLocal, External
  <2> QED BY <2>1, <2>2, <2>3, <2>4 DEF Target, After, Writing, WritePoints
<1>3. CASE Write /\ WriteFails /\ UNCHANGED disk
  BY <1>3, Writes DEF WriteFails, Repairs, After
<1>4. CASE EmitEvents
  BY <1>4 DEF EmitEvents, choice
<1>5. CASE Skip
  BY <1>5 DEF Skip, choice
<1>6. CASE AppendStepSummary
  BY <1>6 DEF AppendStepSummary, choice
<1>7. CASE Close
  BY <1>7 DEF Close, choice
<1>8. CASE RepairClose \/ Crash
  BY <1>8 DEF RepairClose, Crash, choice
<1>9. CASE UNCHANGED vars
  BY <1>9 DEF vars, choice
<1> QED BY Actions, Writes, <1>1, <1>2, <1>3, <1>4, <1>5, <1>6, <1>7, <1>8, <1>9

LEMMA PassStep == IInv /\ [Next]_vars => PassIsPublished'
<1> SUFFICES ASSUME IInv, [Next]_vars, exit' = 0 PROVE PassIsPublished'
  BY DEF PassIsPublished
<1> USE DEF IInv
<1>1. CASE exit = 0
  <2>1. pc = "exited"
    BY <1>1 DEF Exited, NoExit
  <2>2. UNCHANGED vars
    BY <2>1, Actions, Writes DEF Writing, WritePoints, EmitEvents, Skip,
      AppendStepSummary, Close, RepairClose, Crash
  <2> QED BY <1>1, <2>2 DEF PassIsPublished, Asked, vars, choice
<1>2. CASE exit # 0 /\ Close
  <2>1. /\ pc = "close" /\ open' = FALSE /\ errors' = errors
        /\ UNCHANGED <<requested, disk, stepSummary>> /\ exit' = Code
    BY <1>2 DEF Close, choice
  <2>2. errors = {}
    BY <2>1 DEF Code, TypeOK
  <2>3. \A d \in Asked : disk[d] = Written({})
    BY <2>1, <2>2 DEF Asked, Shown, Untroubled, AfterReport, AfterSummary, AfterJUnit
  <2> QED BY <2>1, <2>2, <2>3 DEF PassIsPublished, Asked, Untroubled, AfterAppend
<1>3. CASE exit # 0 /\ RepairClose
  <2>1. errors # {} /\ exit' = Code
    BY <1>3 DEF RepairClose, Repaired, Repairing
  <2> QED BY <2>1 DEF Code
<1>4. exit # 0 => Close \/ RepairClose
  BY Actions, Writes DEF EmitEvents, Skip, AppendStepSummary, Crash, vars
<1> QED BY <1>1, <1>2, <1>3, <1>4

\* A step keeps what a written document may omit.
LEMMA OmissionsStep == IInv /\ [Next]_vars => Omissions'
<1> SUFFICES ASSUME IInv, [Next]_vars PROVE Omissions'
  OBVIOUS
<1> USE DEF Omissions, IInv
<1>0. "json copy" \in Documents
  BY DEF Documents, External
<1>1. CASE CreateTemporary
  BY <1>1 DEF CreateTemporary, WriteFails, Repairs, BeforeCopy, After
<1>2. CASE RemoveOld /\ ~ WriteFails
  <2>1. /\ UNCHANGED <<pc, errors>>
        /\ disk' = [disk EXCEPT ![Target] = Absent]
    BY <1>2 DEF RemoveOld
  <2>2. \A d \in Documents : disk'[d] = disk[d] \/ disk'[d] = Absent
    BY <2>1 DEF TypeOK
  <2>3. Absent.kind # "written"
    BY DEF Absent
  <2> QED BY <1>0, <2>1, <2>2, <2>3
<1>3. CASE Write /\ WriteFails /\ UNCHANGED disk
  BY <1>3, Writes DEF WriteFails, Repairs, BeforeCopy, After
<1>4. CASE Write /\ Replaced
  <2>1. errors' = errors /\ pc' = After /\ Writing
    BY <1>4, Writes DEF Replaced
  <2>2. \A d \in Documents : disk'[d] = disk[d] \/ (d = Target /\ disk'[d] = Written(errors))
    BY <1>4, <2>1, Replacement DEF Writing
  <2>3. Written(errors).errors = errors
    BY DEF Written
  <2>4. pc' # "events" /\ (pc' \in BeforeCopy => pc \in BeforeCopy /\ Target # "json copy")
    BY <2>1 DEF After, Target, BeforeCopy, Writing, WritePoints
  <2> QED BY <1>0, <2>1, <2>2, <2>3, <2>4
<1>5. CASE Rename /\ ~ Replaced
  BY <1>5 DEF Rename
<1>6. CASE EmitEvents
  BY <1>0, <1>6 DEF EmitEvents
<1>7. CASE Skip
  BY <1>7 DEF Skip, BeforeCopy
<1>8. CASE AppendStepSummary
  BY <1>8 DEF AppendStepSummary, BeforeCopy
<1>9. CASE Close
  BY <1>9 DEF Close, BeforeCopy
<1>10. CASE RepairClose \/ Crash
  BY <1>10 DEF RepairClose, Crash, BeforeCopy
<1>11. CASE UNCHANGED vars
  BY <1>11 DEF vars
<1>12. Write => \/ CreateTemporary
                \/ Rename /\ ~ Replaced
                \/ RemoveOld /\ ~ WriteFails
                \/ Replaced
                \/ WriteFails /\ UNCHANGED disk
  BY DEF Write, Rename, RemoveOld, RenameAgain, WriteFails
<1> QED BY Actions, <1>1, <1>2, <1>3, <1>4, <1>5, <1>6, <1>7, <1>8, <1>9, <1>10,
  <1>11, <1>12

LEMMA RefusalStep == IInv /\ [Next]_vars => Refusal'
<1> SUFFICES ASSUME IInv, [Next]_vars PROVE Refusal'
  OBVIOUS
<1> USE DEF Refusal, IInv
<1>1. CASE Write
  BY <1>1 DEF Write, CreateTemporary, Rename, RemoveOld, RenameAgain, Replaced, WriteFails,
    FirstCall
<1>2. CASE EmitEvents \/ Skip \/ AppendStepSummary \/ Close \/ RepairClose \/ Crash
  BY <1>2 DEF EmitEvents, Skip, AppendStepSummary, Close, RepairClose, Crash, history
<1>3. CASE UNCHANGED vars
  BY <1>3 DEF vars, history
<1> QED BY Actions, <1>1, <1>2, <1>3

LEMMA NextIInv == IInv /\ [Next]_vars => IInv'
BY OmissionsStep, RefusalStep, TypeStep, CallingStep, ShownStep, UntroubledStep, ExitedStep, PassStep DEF IInv

\* The invariant of the publication: what each document says, against what was
\* known when it was written.
THEOREM PublicationInvariant == Spec => []IInv
BY InitIInv, NextIInv, PTL DEF Spec

-----------------------------------------------------------------------------
\* Every state of the publication is of its type.
THEOREM PublicationTypes == Spec => []TypeOK
<1>1. IInv => TypeOK
  BY DEF IInv
<1> QED BY <1>1, PublicationInvariant, PTL

\* Exit code 0 is earned by complete documents, whatever failed on the way.
THEOREM PassIsPublishedHolds == Spec => []PassIsPublished
<1>1. IInv => PassIsPublished
  BY DEF IInv
<1> QED BY <1>1, PublicationInvariant, PTL

\* The report and the summary explain the exit code, whatever failed.
THEOREM ExitIsReportedHolds == Spec => []ExitIsReported
<1>1. IInv => ExitIsReported
  BY DEF IInv
<1> QED BY <1>1, PublicationInvariant, PTL

\* A document that was written omits nothing but what failed after it.
THEOREM OmitsOnlyLaterHolds == Spec => []OmitsOnlyLater
<1>1. IInv => OmitsOnlyLater
  <2> SUFFICES ASSUME IInv, pc = "exited", NEW d \in Documents, disk[d].kind = "written"
               PROVE  errors \ disk[d].errors \subseteq Later(d)
    BY DEF OmitsOnlyLater
  <2> USE DEF IInv, Omissions
  <2>1. CASE d = "json copy"
    BY <2>1 DEF Later
  <2>2. CASE d \in {"junit.xml", "junit copy"}
    BY <2>2 DEF Later
  <2>3. CASE d \in {"report.md", "summary.json"} /\ unrepaired
    BY <2>3 DEF Later
  <2>4. CASE d \in {"report.md", "summary.json"} /\ ~ unrepaired
    <3>1. ExitIsReported
      OBVIOUS
    <3>2. disk[d] = Written(errors)
      BY <2>4, <3>1 DEF ExitIsReported
    <3>3. Written(errors).errors = errors
      BY DEF Written
    <3>4. errors \ disk[d].errors = {}
      BY <3>2, <3>3
    <3> QED BY <3>4
  <2> QED BY <2>1, <2>2, <2>3, <2>4 DEF Documents, RunLocal, External
<1> QED BY <1>1, PublicationInvariant, PTL

\* Short of a refused rename a document is never lost or torn, killed or not.
THEOREM NeverLostHolds == Spec => NeverLost
<1>1. IInv /\ [Next]_vars =>
        [\A d \in Documents :
           disk[d] # Absent /\ ~ refused =>
             disk'[d] = disk[d] \/ disk'[d].kind = "written"]_vars
  <2> SUFFICES ASSUME IInv, [Next]_vars, NEW d \in Documents, ~ refused
               PROVE  disk'[d] = disk[d] \/ disk'[d].kind = "written"
    OBVIOUS
  <2> USE DEF IInv, Refusal
  <2>1. CASE Write /\ Replaced
    <3>1. disk'[d] = disk[d] \/ disk'[d] = Written(errors)
      BY <2>1, Writes, Replacement DEF Writing
    <3> QED BY <3>1 DEF Written
  <2>2. CASE Write /\ ~ Replaced
    BY <2>2 DEF Write, CreateTemporary, Rename, RemoveOld, RenameAgain
  <2>3. CASE EmitEvents \/ Skip \/ AppendStepSummary \/ Close \/ RepairClose \/ Crash
    BY <2>3 DEF EmitEvents, Skip, AppendStepSummary, Close, RepairClose, Crash
  <2>4. CASE UNCHANGED vars
    BY <2>4 DEF vars
  <2> QED BY Actions, <2>1, <2>2, <2>3, <2>4
<1> QED BY <1>1, PublicationInvariant, PTL DEF Spec, NeverLost

-----------------------------------------------------------------------------
(***************************************************************************)
(* What stands behind `outcome': the classification of the evidence and of *)
(* the errors that finish knew before the publication.                     *)
(***************************************************************************)
Classifier == INSTANCE Verdicts

\* The errors refreshSummary classifies when these were added.
Refreshed(found) == found \union {k \in {"operational"} : errors # {}}

\* The exit code of the command is what overall makes of the evidence and of all
\* errors, those of the publication included: as Lifecycle.Publish has it in one
\* step (lifecycle.go: finish, refreshSummary; verdicts.go: overall).
ExitIsClassified ==
  \A established \in SUBSET Classifier!Flags,
     failures \in [Classifier!VerdictNames -> SUBSET Classifier!Reason],
     found \in SUBSET Classifier!ErrorKinds :
    pc = "exited" /\ outcome = Classifier!ExitCode(established, failures, found) =>
      exit = Classifier!ExitCode(established, failures, Refreshed(found))

\* Every classification has one of the exit codes a publication starts from.
LEMMA OutcomesCover ==
  ASSUME NEW established, NEW failures, NEW found
  PROVE  Classifier!ExitCode(established, failures, found) \in Outcomes
BY DEF Classifier!ExitCode, Outcomes

\* An error more changes the exit code as Code does.
LEMMA CodeRefreshes ==
  ASSUME NEW established, NEW failures, NEW found \in SUBSET Classifier!ErrorKinds,
         outcome = Classifier!ExitCode(established, failures, found)
  PROVE  Code = Classifier!ExitCode(established, failures, Refreshed(found))
<1> DEFINE some(status) ==
      \E v \in Classifier!VerdictNames :
        Classifier!Status(v, established, failures) = status
<1>1. \A e : Classifier!ExitCode(established, failures, e) =
        IF some("FAIL") THEN 10
        ELSE IF "internal" \in e THEN 24
        ELSE IF "operational" \in e THEN 23
        ELSE IF "cleanup" \in e THEN 25
        ELSE IF some("INCONCLUSIVE") THEN 20
        ELSE 0
  BY DEF Classifier!ExitCode
<1> HIDE DEF some
<1>2. CASE errors = {}
  BY <1>2, <1>1 DEF Refreshed, Code
<1>3. CASE errors # {}
  <2>1. "operational" \in Refreshed(found)
    BY <1>3 DEF Refreshed
  <2>2. "internal" \in Refreshed(found) <=> "internal" \in found
    BY DEF Refreshed
  <2> QED BY <1>1, <1>3, <2>1, <2>2 DEF Code
<1> QED BY <1>2, <1>3

\* The publication, document by document, ends with the exit code Lifecycle gives
\* the run in one step.
THEOREM ExitIsClassifiedHolds == Spec => []ExitIsClassified
<1>1. IInv => ExitIsClassified
  BY CodeRefreshes DEF IInv, Exited, ExitIsClassified
<1> QED BY <1>1, PublicationInvariant, PTL
=============================================================================
