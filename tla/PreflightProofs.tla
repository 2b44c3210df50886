--------------------------- MODULE PreflightProofs ---------------------------
(***************************************************************************)
(* What the preflight leaves behind and hands over, for every set of       *)
(* faults.                                                                 *)
(***************************************************************************)
EXTENDS Preflight, TLAPS

\* Until something is raised, the flags and git's entries follow the stage.
Followed ==
  /\ stage \in Unarmed \union {"base"} => registered = {} /\ created = {}
  /\ stage = "candidate" => registered = {"base"} /\ created = {"base"}
  /\ stage \in {"compose", "docker", "artifacts", "prepared"} =>
       registered = Worktrees /\ created = Worktrees
  /\ stage \in Unarmed => ~ root
  /\ stage \in Armed \union {"prepared"} => root
  /\ stage \in Unarmed \union Armed \union {"prepared"} => raised = "none"

\* The closure reports what it fails to remove; only a worktree git failed to
\* add is none of its business.
Unwound ==
  /\ (registered \ created) # {} => raised = "operational"
  /\ stage \in {"removeBase", "removeRoot", "return"} =>
       ("candidate" \in registered \intersect created => trouble)
  /\ stage \in {"removeRoot", "return"} => ("base" \in registered \intersect created => trouble)
  /\ stage = "return" => (root => trouble)

\* The exit code is that of Code, or the run's own.
Exited ==
  /\ stage # "ended" => exit = NoExit /\ ~ kept
  /\ stage = "ended" =>
       \/ kept /\ exit = RunExit
       \/ /\ ~ kept /\ exit = Code
          /\ root => trouble
          /\ \A w \in registered \intersect created : trouble

\* The checkout of a run that is under way was clean, exempt or not looked at.
Looked ==
  /\ stage \in {"head", "tracked"} => checkout.strict
  /\ stage = "tracked" => checkout.atHead
  /\ stage \in {"mkdir"} \union Armed \union {"prepared"} =>
       (checkout.strict /\ checkout.atHead /\ checkout.dirty => skipped)

\* No command was answered after the signal.
Stopped == stage \in {"artifacts", "prepared"} => interrupted \in CallFree \union {"no"}

IInv == TypeOK /\ Followed /\ Unwound /\ Exited /\ Looked /\ Stopped

LEMMA InitInvariant == Init => IInv
BY DEF Init, IInv, TypeOK, Followed, Unwound, Exited, Looked, Stopped, Stages, Unarmed,
       Armed, Unwinding, Commands, Worktrees, Errors

LEMMA CodeRange == Code \in {RunExit, 0, 21, 22, 24}
BY DEF Code

LEMMA NextInvariant == IInv /\ [Next]_vars => IInv'
<1> SUFFICES ASSUME IInv, [Next]_vars
             PROVE  IInv'
  OBVIOUS
<1> USE DEF IInv
<1>1. CASE Refuse
  <2>1. TypeOK'
    BY <1>1 DEF TypeOK, Commands, Worktrees, Errors, Refuse, Raise, Refusals, Answered, CheckPrerequisites, inputs, trees, ending, Stages, Unarmed, Armed, Unwinding
  <2>2. Followed'
    BY <1>1 DEF Followed, Worktrees, Refuse, Raise, Refusals, Answered, CheckPrerequisites, inputs, trees, ending, Stages, Unarmed, Armed, Unwinding
  <2>3. Unwound'
    BY <1>1 DEF Unwound, Followed, Worktrees, Refuse, Raise, Refusals, Answered, CheckPrerequisites, inputs, trees, ending, Stages, Unarmed, Armed, Unwinding
  <2>4. Exited'
    BY <1>1 DEF Exited, Code, CheckPrerequisites, Refuse, Raise, Refusals, Answered, inputs, trees, ending, Stages, Unarmed, Armed, Unwinding
  <2>5. Looked'
    BY <1>1 DEF Looked, Refuse, Raise, Refusals, Answered, CheckPrerequisites, inputs, trees, ending, Stages, Unarmed, Armed, Unwinding
  <2>6. Stopped'
    BY <1>1 DEF Stopped, CallFree, Refuse, Raise, Refusals, Answered, CheckPrerequisites, inputs, trees, ending, Stages, Unarmed, Armed, Unwinding
  <2>7. QED  BY <2>1, <2>2, <2>3, <2>4, <2>5, <2>6
<1>2. CASE Panic
  <2>1. TypeOK'
    BY <1>2 DEF TypeOK, Commands, Worktrees, Errors, Panic, Raise, inputs, trees, ending, Stages, Unarmed, Armed, Unwinding
  <2>2. Followed'
    BY <1>2 DEF Followed, Worktrees, Panic, Raise, inputs, trees, ending, Stages, Unarmed, Armed, Unwinding
  <2>3. Unwound'
    BY <1>2 DEF Unwound, Followed, Worktrees, Panic, Raise, inputs, trees, ending, Stages, Unarmed, Armed, Unwinding
  <2>4. Exited'
    BY <1>2 DEF Exited, Code, CheckPrerequisites, Panic, Raise, inputs, trees, ending, Stages, Unarmed, Armed, Unwinding
  <2>5. Looked'
    BY <1>2 DEF Looked, Panic, Raise, inputs, trees, ending, Stages, Unarmed, Armed, Unwinding
  <2>6. Stopped'
    BY <1>2 DEF Stopped, CallFree, Panic, Raise, inputs, trees, ending, Stages, Unarmed, Armed, Unwinding
  <2>7. QED  BY <2>1, <2>2, <2>3, <2>4, <2>5, <2>6
<1>3. CASE Inspect
  <2>1. TypeOK'
    BY <1>3 DEF TypeOK, Commands, Worktrees, Errors, Inspect, Pass, Answered, inputs, trees, ending, Stages, Unarmed, Armed, Unwinding
  <2>2. Followed'
    BY <1>3 DEF Followed, Worktrees, Inspect, Pass, Answered, inputs, trees, ending, Stages, Unarmed, Armed, Unwinding
  <2>3. Unwound'
    BY <1>3 DEF Unwound, Followed, Worktrees, Inspect, Pass, Answered, inputs, trees, ending, Stages, Unarmed, Armed, Unwinding
  <2>4. Exited'
    BY <1>3 DEF Exited, Code, CheckPrerequisites, Inspect, Pass, Answered, inputs, trees, ending, Stages, Unarmed, Armed, Unwinding
  <2>5. Looked'
    BY <1>3 DEF Looked, Inspect, Pass, Answered, inputs, trees, ending, Stages, Unarmed, Armed, Unwinding
  <2>6. Stopped'
    BY <1>3 DEF Stopped, CallFree, Inspect, Pass, Answered, inputs, trees, ending, Stages, Unarmed, Armed, Unwinding
  <2>7. QED  BY <2>1, <2>2, <2>3, <2>4, <2>5, <2>6
<1>4. CASE ResolveHead
  <2>1. TypeOK'
    <3>1. command' \in Commands /\ checkout' = checkout
      BY <1>4 DEF TypeOK, ResolveHead, Pass, Answered, inputs, trees, ending
    <3>2. stage' \in Stages /\ interrupted' \in Stages \union {"no"}
      BY <1>4 DEF TypeOK, ResolveHead, Pass, Answered, inputs, trees, ending, Stages, Unarmed, Armed, Unwinding
    <3>3. skipped' \in BOOLEAN /\ root' \in BOOLEAN
      BY <1>4 DEF TypeOK, ResolveHead, Pass, Answered, inputs, trees, ending
    <3>4. registered' \subseteq Worktrees /\ created' \subseteq Worktrees
      BY <1>4 DEF TypeOK, Worktrees, ResolveHead, Pass, Answered, inputs, trees, ending
    <3>5. raised' \in Errors \union {"none"}
      BY <1>4 DEF TypeOK, Errors, ResolveHead, Pass, Answered, inputs, trees, ending
    <3>6. trouble' \in BOOLEAN /\ kept' \in BOOLEAN
      BY <1>4 DEF TypeOK, ResolveHead, Pass, Answered, inputs, trees, ending
    <3>7. exit' \in {NoExit, RunExit, 0, 21, 22, 24}
      BY <1>4 DEF TypeOK, ResolveHead, Pass, Answered, inputs, trees, ending
    <3>8. QED  BY <3>1, <3>2, <3>3, <3>4, <3>5, <3>6, <3>7 DEF TypeOK
  <2>2. Followed'
    BY <1>4 DEF Followed, Worktrees, ResolveHead, Pass, Answered, inputs, trees, ending, Stages, Unarmed, Armed, Unwinding
  <2>3. Unwound'
    BY <1>4 DEF Unwound, Followed, Worktrees, ResolveHead, Pass, Answered, inputs, trees, ending, Stages, Unarmed, Armed, Unwinding
  <2>4. Exited'
    BY <1>4 DEF Exited, Code, CheckPrerequisites, ResolveHead, Pass, Answered, inputs, trees, ending, Stages, Unarmed, Armed, Unwinding
  <2>5. Looked'
    BY <1>4 DEF Looked, ResolveHead, Pass, Answered, inputs, trees, ending, Stages, Unarmed, Armed, Unwinding
  <2>6. Stopped'
    BY <1>4 DEF Stopped, CallFree, ResolveHead, Pass, Answered, inputs, trees, ending, Stages, Unarmed, Armed, Unwinding
  <2>7. QED  BY <2>1, <2>2, <2>3, <2>4, <2>5, <2>6
<1>5. CASE TrackedDirty
  <2>1. TypeOK'
    BY <1>5 DEF TypeOK, Commands, Worktrees, Errors, TrackedDirty, Pass, Raise, Answered, inputs, trees, ending, Stages, Unarmed, Armed, Unwinding
  <2>2. Followed'
    BY <1>5 DEF Followed, Worktrees, TrackedDirty, Pass, Raise, Answered, inputs, trees, ending, Stages, Unarmed, Armed, Unwinding
  <2>3. Unwound'
    BY <1>5 DEF Unwound, Followed, Worktrees, TrackedDirty, Pass, Raise, Answered, inputs, trees, ending, Stages, Unarmed, Armed, Unwinding
  <2>4. Exited'
    BY <1>5 DEF Exited, Code, CheckPrerequisites, TrackedDirty, Pass, Raise, Answered, inputs, trees, ending, Stages, Unarmed, Armed, Unwinding
  <2>5. Looked'
    BY <1>5 DEF Looked, TrackedDirty, Pass, Raise, Answered, inputs, trees, ending, Stages, Unarmed, Armed, Unwinding
  <2>6. Stopped'
    BY <1>5 DEF Stopped, CallFree, TrackedDirty, Pass, Raise, Answered, inputs, trees, ending, Stages, Unarmed, Armed, Unwinding
  <2>7. QED  BY <2>1, <2>2, <2>3, <2>4, <2>5, <2>6
<1>6. CASE MkdirTemp
  <2>1. TypeOK'
    <3>1. command' \in Commands /\ checkout' = checkout
      BY <1>6 DEF TypeOK, MkdirTemp, Pass, Raise, inputs, trees, ending
    <3>2. stage' \in Stages /\ interrupted' \in Stages \union {"no"}
      BY <1>6 DEF TypeOK, MkdirTemp, Pass, Raise, inputs, trees, ending, Stages, Unarmed, Armed, Unwinding
    <3>3. skipped' \in BOOLEAN /\ root' \in BOOLEAN
      BY <1>6 DEF TypeOK, MkdirTemp, Pass, Raise, inputs, trees, ending
    <3>4. registered' \subseteq Worktrees /\ created' \subseteq Worktrees
      BY <1>6 DEF TypeOK, Worktrees, MkdirTemp, Pass, Raise, inputs, trees, ending
    <3>5. raised' \in Errors \union {"none"}
      BY <1>6 DEF TypeOK, Errors, MkdirTemp, Pass, Raise, inputs, trees, ending
    <3>6. trouble' \in BOOLEAN /\ kept' \in BOOLEAN
      BY <1>6 DEF TypeOK, MkdirTemp, Pass, Raise, inputs, trees, ending
    <3>7. exit' \in {NoExit, RunExit, 0, 21, 22, 24}
      BY <1>6 DEF TypeOK, MkdirTemp, Pass, Raise, inputs, trees, ending
    <3>8. QED  BY <3>1, <3>2, <3>3, <3>4, <3>5, <3>6, <3>7 DEF TypeOK
  <2>2. Followed'
    BY <1>6 DEF Followed, Worktrees, MkdirTemp, Pass, Raise, inputs, trees, ending, Stages, Unarmed, Armed, Unwinding
  <2>3. Unwound'
    BY <1>6 DEF Unwound, Followed, Worktrees, MkdirTemp, Pass, Raise, inputs, trees, ending, Stages, Unarmed, Armed, Unwinding
  <2>4. Exited'
    BY <1>6 DEF Exited, Code, CheckPrerequisites, MkdirTemp, Pass, Raise, inputs, trees, ending, Stages, Unarmed, Armed, Unwinding
  <2>5. Looked'
    BY <1>6 DEF Looked, MkdirTemp, Pass, Raise, inputs, trees, ending, Stages, Unarmed, Armed, Unwinding
  <2>6. Stopped'
    BY <1>6 DEF Stopped, CallFree, MkdirTemp, Pass, Raise, inputs, trees, ending, Stages, Unarmed, Armed, Unwinding
  <2>7. QED  BY <2>1, <2>2, <2>3, <2>4, <2>5, <2>6
<1>7. ASSUME NEW w \in Worktrees, CreateWorktree(w)
     PROVE  IInv'
  <2>1. TypeOK'
    BY <1>7 DEF TypeOK, Commands, Worktrees, Errors, CreateWorktree, Pass, Answered, inputs, trees, ending, Stages, Unarmed, Armed, Unwinding
  <2>2. Followed'
    BY <1>7 DEF Followed, Worktrees, CreateWorktree, Pass, Answered, inputs, trees, ending, Stages, Unarmed, Armed, Unwinding
  <2>3. Unwound'
    BY <1>7 DEF Unwound, Followed, Worktrees, CreateWorktree, Pass, Answered, inputs, trees, ending, Stages, Unarmed, Armed, Unwinding
  <2>4. Exited'
    BY <1>7 DEF Exited, Code, CheckPrerequisites, CreateWorktree, Pass, Answered, Worktrees, inputs, trees, ending, Stages, Unarmed, Armed, Unwinding
  <2>5. Looked'
    BY <1>7 DEF Looked, CreateWorktree, Pass, Answered, Worktrees, inputs, trees, ending, Stages, Unarmed, Armed, Unwinding
  <2>6. Stopped'
    BY <1>7 DEF Stopped, CallFree, CreateWorktree, Pass, Answered, Worktrees, inputs, trees, ending, Stages, Unarmed, Armed, Unwinding
  <2>7. QED  BY <2>1, <2>2, <2>3, <2>4, <2>5, <2>6
<1>8. ASSUME NEW w \in Worktrees, CreateWorktreeFails(w)
     PROVE  IInv'
  <2>1. TypeOK'
    <3>1. command' \in Commands /\ checkout' = checkout
      BY <1>8 DEF TypeOK, CreateWorktreeFails, Raise, Answered, inputs, trees, ending
    <3>2. stage' \in Stages /\ interrupted' \in Stages \union {"no"}
      BY <1>8 DEF TypeOK, CreateWorktreeFails, Raise, Answered, inputs, trees, ending, Stages, Unarmed, Armed, Unwinding
    <3>3. skipped' \in BOOLEAN /\ root' \in BOOLEAN
      BY <1>8 DEF TypeOK, CreateWorktreeFails, Raise, Answered, inputs, trees, ending
    <3>4. registered' \subseteq Worktrees /\ created' \subseteq Worktrees
      BY <1>8 DEF TypeOK, Worktrees, CreateWorktreeFails, Raise, Answered, inputs, trees, ending
    <3>5. raised' \in Errors \union {"none"}
      BY <1>8 DEF TypeOK, Errors, CreateWorktreeFails, Raise, Answered, inputs, trees, ending
    <3>6. trouble' \in BOOLEAN /\ kept' \in BOOLEAN
      BY <1>8 DEF TypeOK, CreateWorktreeFails, Raise, Answered, inputs, trees, ending
    <3>7. exit' \in {NoExit, RunExit, 0, 21, 22, 24}
      BY <1>8 DEF TypeOK, CreateWorktreeFails, Raise, Answered, inputs, trees, ending
    <3>8. QED  BY <3>1, <3>2, <3>3, <3>4, <3>5, <3>6, <3>7 DEF TypeOK
  <2>2. Followed'
    BY <1>8 DEF Followed, Worktrees, CreateWorktreeFails, Raise, Answered, inputs, trees, ending, Stages, Unarmed, Armed, Unwinding
  <2>3. Unwound'
    BY <1>8 DEF Unwound, Followed, Worktrees, CreateWorktreeFails, Raise, Answered, inputs, trees, ending, Stages, Unarmed, Armed, Unwinding
  <2>4. Exited'
    BY <1>8 DEF Exited, Code, CheckPrerequisites, CreateWorktreeFails, Raise, Answered, Worktrees, inputs, trees, ending, Stages, Unarmed, Armed, Unwinding
  <2>5. Looked'
    BY <1>8 DEF Looked, CreateWorktreeFails, Raise, Answered, Worktrees, inputs, trees, ending, Stages, Unarmed, Armed, Unwinding
  <2>6. Stopped'
    BY <1>8 DEF Stopped, CallFree, CreateWorktreeFails, Raise, Answered, Worktrees, inputs, trees, ending, Stages, Unarmed, Armed, Unwinding
  <2>7. QED  BY <2>1, <2>2, <2>3, <2>4, <2>5, <2>6
<1>9. ASSUME NEW w \in Worktrees, RemoveWorktree(w)
     PROVE  IInv'
  <2>1. TypeOK'
    <3>1. command' \in Commands /\ checkout' = checkout
      BY <1>9 DEF TypeOK, RemoveWorktree, RemoveStage, inputs, trees, ending
    <3>2. stage' \in Stages /\ interrupted' \in Stages \union {"no"}
      BY <1>9 DEF TypeOK, RemoveWorktree, RemoveStage, inputs, trees, ending, Stages, Unarmed, Armed, Unwinding
    <3>3. skipped' \in BOOLEAN /\ root' \in BOOLEAN
      BY <1>9 DEF TypeOK, RemoveWorktree, RemoveStage, inputs, trees, ending
    <3>4. registered' \subseteq Worktrees /\ created' \subseteq Worktrees
      BY <1>9 DEF TypeOK, Worktrees, RemoveWorktree, RemoveStage, inputs, trees, ending
    <3>5. raised' \in Errors \union {"none"}
      BY <1>9 DEF TypeOK, Errors, RemoveWorktree, RemoveStage, inputs, trees, ending
    <3>6. trouble' \in BOOLEAN /\ kept' \in BOOLEAN
      BY <1>9 DEF TypeOK, RemoveWorktree, RemoveStage, inputs, trees, ending
    <3>7. exit' \in {NoExit, RunExit, 0, 21, 22, 24}
      BY <1>9 DEF TypeOK, RemoveWorktree, RemoveStage, inputs, trees, ending
    <3>8. QED  BY <3>1, <3>2, <3>3, <3>4, <3>5, <3>6, <3>7 DEF TypeOK
  <2>2. Followed'
    BY <1>9 DEF Followed, Worktrees, RemoveWorktree, RemoveStage, inputs, trees, ending, Stages, Unarmed, Armed, Unwinding
  <2>3. Unwound'
    BY <1>9 DEF Unwound, Followed, Worktrees, RemoveWorktree, RemoveStage, inputs, trees, ending, Stages, Unarmed, Armed, Unwinding
  <2>4. Exited'
    BY <1>9 DEF Exited, Code, CheckPrerequisites, RemoveWorktree, RemoveStage, Worktrees, inputs, trees, ending, Stages, Unarmed, Armed, Unwinding
  <2>5. Looked'
    BY <1>9 DEF Looked, RemoveWorktree, RemoveStage, Worktrees, inputs, trees, ending, Stages, Unarmed, Armed, Unwinding
  <2>6. Stopped'
    BY <1>9 DEF Stopped, CallFree, RemoveWorktree, RemoveStage, Worktrees, inputs, trees, ending, Stages, Unarmed, Armed, Unwinding
  <2>7. QED  BY <2>1, <2>2, <2>3, <2>4, <2>5, <2>6
<1>10. CASE Validate
  <2>1. TypeOK'
    BY <1>10 DEF TypeOK, Commands, Worktrees, Errors, Validate, Pass, Answered, CheckPrerequisites, inputs, trees, ending, Stages, Unarmed, Armed, Unwinding
  <2>2. Followed'
    BY <1>10 DEF Followed, Worktrees, Validate, Pass, Answered, CheckPrerequisites, inputs, trees, ending, Stages, Unarmed, Armed, Unwinding
  <2>3. Unwound'
    BY <1>10 DEF Unwound, Followed, Worktrees, Validate, Pass, Answered, CheckPrerequisites, inputs, trees, ending, Stages, Unarmed, Armed, Unwinding
  <2>4. Exited'
    BY <1>10 DEF Exited, Code, CheckPrerequisites, Validate, Pass, Answered, inputs, trees, ending, Stages, Unarmed, Armed, Unwinding
  <2>5. Looked'
    BY <1>10 DEF Looked, Validate, Pass, Answered, CheckPrerequisites, inputs, trees, ending, Stages, Unarmed, Armed, Unwinding
  <2>6. Stopped'
    BY <1>10 DEF Stopped, CallFree, Validate, Pass, Answered, CheckPrerequisites, inputs, trees, ending, Stages, Unarmed, Armed, Unwinding
  <2>7. QED  BY <2>1, <2>2, <2>3, <2>4, <2>5, <2>6
<1>11. CASE LocateArtifacts
  <2>1. TypeOK'
    BY <1>11 DEF TypeOK, Commands, Worktrees, Errors, LocateArtifacts, Pass, inputs, trees, ending, Stages, Unarmed, Armed, Unwinding
  <2>2. Followed'
    BY <1>11 DEF Followed, Worktrees, LocateArtifacts, Pass, inputs, trees, ending, Stages, Unarmed, Armed, Unwinding
  <2>3. Unwound'
    BY <1>11 DEF Unwound, Followed, Worktrees, LocateArtifacts, Pass, inputs, trees, ending, Stages, Unarmed, Armed, Unwinding
  <2>4. Exited'
    BY <1>11 DEF Exited, Code, CheckPrerequisites, LocateArtifacts, Pass, inputs, trees, ending, Stages, Unarmed, Armed, Unwinding
  <2>5. Looked'
    BY <1>11 DEF Looked, LocateArtifacts, Pass, inputs, trees, ending, Stages, Unarmed, Armed, Unwinding
  <2>6. Stopped'
    BY <1>11 DEF Stopped, CallFree, LocateArtifacts, Pass, inputs, trees, ending, Stages, Unarmed, Armed, Unwinding
  <2>7. QED  BY <2>1, <2>2, <2>3, <2>4, <2>5, <2>6
<1>12. CASE CallCleanup
  <2>1. TypeOK'
    BY <1>12 DEF TypeOK, Commands, Worktrees, Errors, CallCleanup, inputs, trees, ending, Stages, Unarmed, Armed, Unwinding
  <2>2. Followed'
    BY <1>12 DEF Followed, Worktrees, CallCleanup, inputs, trees, ending, Stages, Unarmed, Armed, Unwinding
  <2>3. Unwound'
    BY <1>12 DEF Unwound, Followed, Worktrees, CallCleanup, inputs, trees, ending, Stages, Unarmed, Armed, Unwinding
  <2>4. Exited'
    BY <1>12 DEF Exited, Code, CheckPrerequisites, CallCleanup, inputs, trees, ending, Stages, Unarmed, Armed, Unwinding
  <2>5. Looked'
    BY <1>12 DEF Looked, CallCleanup, inputs, trees, ending, Stages, Unarmed, Armed, Unwinding
  <2>6. Stopped'
    BY <1>12 DEF Stopped, CallFree, CallCleanup, inputs, trees, ending, Stages, Unarmed, Armed, Unwinding
  <2>7. QED  BY <2>1, <2>2, <2>3, <2>4, <2>5, <2>6
<1>13. CASE Retain
  <2>1. TypeOK'
    BY <1>13 DEF TypeOK, Commands, Worktrees, Errors, Retain, inputs, trees, ending, Stages, Unarmed, Armed, Unwinding
  <2>2. Followed'
    BY <1>13 DEF Followed, Worktrees, Retain, inputs, trees, ending, Stages, Unarmed, Armed, Unwinding
  <2>3. Unwound'
    BY <1>13 DEF Unwound, Followed, Worktrees, Retain, inputs, trees, ending, Stages, Unarmed, Armed, Unwinding
  <2>4. Exited'
    BY <1>13 DEF Exited, Code, CheckPrerequisites, Retain, inputs, trees, ending, Stages, Unarmed, Armed, Unwinding
  <2>5. Looked'
    BY <1>13 DEF Looked, Retain, inputs, trees, ending, Stages, Unarmed, Armed, Unwinding
  <2>6. Stopped'
    BY <1>13 DEF Stopped, CallFree, Retain, inputs, trees, ending, Stages, Unarmed, Armed, Unwinding
  <2>7. QED  BY <2>1, <2>2, <2>3, <2>4, <2>5, <2>6
<1>14. CASE RemoveAll
  <2>1. TypeOK'
    <3>1. command' \in Commands /\ checkout' = checkout
      BY <1>14 DEF TypeOK, RemoveAll, inputs, trees, ending
    <3>2. stage' \in Stages /\ interrupted' \in Stages \union {"no"}
      BY <1>14 DEF TypeOK, RemoveAll, inputs, trees, ending, Stages, Unarmed, Armed, Unwinding
    <3>3. skipped' \in BOOLEAN /\ root' \in BOOLEAN
      BY <1>14 DEF TypeOK, RemoveAll, inputs, trees, ending
    <3>4. registered' \subseteq Worktrees /\ created' \subseteq Worktrees
      BY <1>14 DEF TypeOK, Worktrees, RemoveAll, inputs, trees, ending
    <3>5. raised' \in Errors \union {"none"}
      BY <1>14 DEF TypeOK, Errors, RemoveAll, inputs, trees, ending
    <3>6. trouble' \in BOOLEAN /\ kept' \in BOOLEAN
      BY <1>14 DEF TypeOK, RemoveAll, inputs, trees, ending
    <3>7. exit' \in {NoExit, RunExit, 0, 21, 22, 24}
      BY <1>14 DEF TypeOK, RemoveAll, inputs, trees, ending
    <3>8. QED  BY <3>1, <3>2, <3>3, <3>4, <3>5, <3>6, <3>7 DEF TypeOK
  <2>2. Followed'
    BY <1>14 DEF Followed, Worktrees, RemoveAll, inputs, trees, ending, Stages, Unarmed, Armed, Unwinding
  <2>3. Unwound'
    BY <1>14 DEF Unwound, Followed, Worktrees, RemoveAll, inputs, trees, ending, Stages, Unarmed, Armed, Unwinding
  <2>4. Exited'
    BY <1>14 DEF Exited, Code, CheckPrerequisites, RemoveAll, inputs, trees, ending, Stages, Unarmed, Armed, Unwinding
  <2>5. Looked'
    BY <1>14 DEF Looked, RemoveAll, inputs, trees, ending, Stages, Unarmed, Armed, Unwinding
  <2>6. Stopped'
    BY <1>14 DEF Stopped, CallFree, RemoveAll, inputs, trees, ending, Stages, Unarmed, Armed, Unwinding
  <2>7. QED  BY <2>1, <2>2, <2>3, <2>4, <2>5, <2>6
<1>15. CASE Return
  <2>1. TypeOK'
    <3>1. command' \in Commands /\ checkout' = checkout
      BY <1>15 DEF TypeOK, Return, inputs, trees, ending
    <3>2. stage' \in Stages /\ interrupted' \in Stages \union {"no"}
      BY <1>15 DEF TypeOK, Return, inputs, trees, ending, Stages, Unarmed, Armed, Unwinding
    <3>3. skipped' \in BOOLEAN /\ root' \in BOOLEAN
      BY <1>15 DEF TypeOK, Return, inputs, trees, ending
    <3>4. registered' \subseteq Worktrees /\ created' \subseteq Worktrees
      BY <1>15 DEF TypeOK, Worktrees, Return, inputs, trees, ending
    <3>5. raised' \in Errors \union {"none"}
      BY <1>15 DEF TypeOK, Errors, Return, inputs, trees, ending
    <3>6. trouble' \in BOOLEAN /\ kept' \in BOOLEAN
      BY <1>15 DEF TypeOK, Return, inputs, trees, ending
    <3>7. exit' \in {NoExit, RunExit, 0, 21, 22, 24}
      BY <1>15, CodeRange DEF TypeOK, Return, inputs, trees, ending
    <3>8. QED  BY <3>1, <3>2, <3>3, <3>4, <3>5, <3>6, <3>7 DEF TypeOK
  <2>2. Followed'
    BY <1>15 DEF Followed, Worktrees, Return, inputs, trees, ending, Stages, Unarmed, Armed, Unwinding
  <2>3. Unwound'
    BY <1>15 DEF Unwound, Followed, Worktrees, Return, inputs, trees, ending, Stages, Unarmed, Armed, Unwinding
  <2>4. Exited'
    <3>1. Code' = Code
      BY <1>15 DEF Return, Code, inputs
    <3>2. stage = "return" /\ stage' = "ended" /\ kept' = FALSE /\ exit' = Code'
      BY <1>15, <3>1 DEF Return, Exited
    <3>3. /\ root' => trouble'
          /\ \A w \in registered' \intersect created' : trouble'
      BY <1>15 DEF Return, Unwound, TypeOK, Worktrees, trees
    <3>4. QED  BY <3>2, <3>3 DEF Exited
  <2>5. Looked'
    BY <1>15 DEF Looked, Return, inputs, trees, ending, Stages, Unarmed, Armed, Unwinding
  <2>6. Stopped'
    BY <1>15 DEF Stopped, CallFree, Return, inputs, trees, ending, Stages, Unarmed, Armed, Unwinding
  <2>7. QED  BY <2>1, <2>2, <2>3, <2>4, <2>5, <2>6
<1>16. CASE Signal
  <2>1. TypeOK'
    BY <1>16 DEF TypeOK, Commands, Worktrees, Errors, Signal, inputs, trees, ending, Stages, Unarmed, Armed, Unwinding
  <2>2. Followed'
    BY <1>16 DEF Followed, Worktrees, Signal, inputs, trees, ending, Stages, Unarmed, Armed, Unwinding
  <2>3. Unwound'
    BY <1>16 DEF Unwound, Followed, Worktrees, Signal, inputs, trees, ending, Stages, Unarmed, Armed, Unwinding
  <2>4. Exited'
    BY <1>16 DEF Exited, Code, CheckPrerequisites, Signal, inputs, trees, ending, Stages, Unarmed, Armed, Unwinding
  <2>5. Looked'
    BY <1>16 DEF Looked, Signal, inputs, trees, ending, Stages, Unarmed, Armed, Unwinding
  <2>6. Stopped'
    BY <1>16 DEF Stopped, CallFree, Signal, inputs, trees, ending, Stages, Unarmed, Armed, Unwinding
  <2>7. QED  BY <2>1, <2>2, <2>3, <2>4, <2>5, <2>6
<1>17. CASE UNCHANGED vars
  <2>1. TypeOK'
    BY <1>17 DEF TypeOK, Commands, Worktrees, Errors, vars, inputs, trees, ending, Stages, Unarmed, Armed, Unwinding
  <2>2. Followed'
    BY <1>17 DEF Followed, Worktrees, vars, inputs, trees, ending, Stages, Unarmed, Armed, Unwinding
  <2>3. Unwound'
    BY <1>17 DEF Unwound, Followed, Worktrees, vars, inputs, trees, ending, Stages, Unarmed, Armed, Unwinding
  <2>4. Exited'
    BY <1>17 DEF Exited, Code, CheckPrerequisites, vars, inputs, trees, ending, Stages, Unarmed, Armed, Unwinding
  <2>5. Looked'
    BY <1>17 DEF Looked, vars, inputs, trees, ending, Stages, Unarmed, Armed, Unwinding
  <2>6. Stopped'
    BY <1>17 DEF Stopped, CallFree, vars, inputs, trees, ending, Stages, Unarmed, Armed, Unwinding
  <2>7. QED  BY <2>1, <2>2, <2>3, <2>4, <2>5, <2>6
<1>18. QED
  BY <1>1, <1>2, <1>3, <1>4, <1>5, <1>6, <1>7, <1>8, <1>9, <1>10, <1>11, <1>12, <1>13, <1>14, <1>15, <1>16, <1>17 DEF Next

\* The invariant of a preparation: what was created is registered, and the
\* unwinding leaves only what it could not remove.
THEOREM PreflightInvariant == Spec => []IInv
<1>1. Init => IInv
  BY InitInvariant
<1>2. IInv /\ [Next]_vars => IInv'
  BY NextInvariant
<1>3. QED  BY <1>1, <1>2, PTL DEF Spec

\* What the invariant says of the five properties, and of the types.
LEMMA Consequences ==
  IInv => /\ TypeOK /\ SuccessLeavesNothing /\ LeftoversExplained
          /\ SuppliedWhole /\ DirtyIsRefused /\ InterruptedIsNotPrepared
<1> SUFFICES ASSUME IInv
             PROVE  /\ TypeOK /\ SuccessLeavesNothing /\ LeftoversExplained
                    /\ SuppliedWhole /\ DirtyIsRefused /\ InterruptedIsNotPrepared
  OBVIOUS
<1> USE DEF IInv
<1>1. SuccessLeavesNothing
  <2> SUFFICES ASSUME exit = 0
               PROVE  ~ root /\ registered = {} /\ ~ trouble
    BY DEF SuccessLeavesNothing
  <2>1. stage = "ended" /\ ~ kept /\ Code = 0
    BY DEF Exited, NoExit, RunExit
  <2>2. raised = "none" /\ ~ trouble
    BY <2>1 DEF Code, RunExit
  <2>3. registered \ created = {}
    BY <2>2 DEF Unwound
  <2>4. QED  BY <2>1, <2>2, <2>3 DEF Exited
<1>2. LeftoversExplained
  BY DEF LeftoversExplained, Exited, Unwound, TypeOK
<1>3. SuppliedWhole
  BY DEF SuppliedWhole, Followed
<1>4. DirtyIsRefused
  BY DEF DirtyIsRefused, Looked
<1>5. InterruptedIsNotPrepared
  BY DEF InterruptedIsNotPrepared, Stopped
<1>6. QED  BY <1>1, <1>2, <1>3, <1>4, <1>5

\* Exit code 0 of validate and doctor promises a clean machine.
THEOREM SuccessLeavesNothingHolds == Spec => []SuccessLeavesNothing
BY PreflightInvariant, Consequences, PTL

\* What a command leaves behind is a removal that failed, or the entry of a
\* worktree git failed to add.
THEOREM LeftoversExplainedHolds == Spec => []LeftoversExplained
BY PreflightInvariant, Consequences, PTL

\* A run starts from both worktrees, of a checkout that was looked at, and not
\* after a signal that met a git or docker command still to be run.
THEOREM PreparedHolds == Spec => []PreparedIsSound
<1>1. IInv => PreparedIsSound
  BY Consequences DEF PreparedIsSound
<1>2. QED  BY <1>1, PreflightInvariant, PTL

\* The variables of Prepare and its closure keep their types, whatever is
\* refused, panics or is interrupted.
THEOREM PreflightTypes == Spec => []TypeOK
BY PreflightInvariant, Consequences, PTL

-----------------------------------------------------------------------------
(***************************************************************************)
(* What Lifecycle and Cleanup take the closure for: one call at the end of *)
(* a run, which removes all there is or fails.                             *)
(***************************************************************************)

\* The closure fails for a removal of its own: no signal reaches its context.
Caused == trouble => Faults \intersect {"remove", "files"} # {}

\* A closure without an error has left nothing of a prepared run, and one with an
\* error has met a removal that failed (preflight.go: Prepare, Cleanup).
ClosureFits ==
  stage = "return" /\ created = Worktrees =>
    /\ ~ trouble => ~ root /\ registered = {}
    /\ trouble => Faults \intersect {"remove", "files"} # {}

LEMMA CausedStep == Caused /\ [Next]_vars => Caused'
<1> SUFFICES ASSUME Caused, [Next]_vars PROVE Caused'
  OBVIOUS
<1> USE DEF Caused
<1>1. CASE \E w \in Worktrees : RemoveWorktree(w)
  BY <1>1 DEF RemoveWorktree
<1>2. CASE RemoveAll
  BY <1>2 DEF RemoveAll
<1>3. CASE ~ RemoveAll /\ ~ \E w \in Worktrees : RemoveWorktree(w)
  <2>1. UNCHANGED trouble
    BY <1>3 DEF Next, vars, ending, Refuse, Panic, Inspect, ResolveHead, TrackedDirty,
       MkdirTemp, CreateWorktree, CreateWorktreeFails, Validate, LocateArtifacts,
       CallCleanup, Retain, Return, Signal
  <2> QED BY <2>1
<1> QED BY <1>1, <1>2, <1>3

\* At the end of a run the closure leaves nothing or says so, whatever happened
\* between the preparation and it.
THEOREM ClosureFitsHolds == Spec => []ClosureFits
<1>1. Init => Caused
  BY DEF Init, Caused
<1>2. IInv /\ Caused => ClosureFits
  BY DEF IInv, TypeOK, Unwound, Caused, ClosureFits, Worktrees
<1> QED BY <1>1, <1>2, CausedStep, PreflightInvariant, PTL DEF Spec
=============================================================================
