------------------------------ MODULE Preflight ------------------------------
(***************************************************************************)
(* Prepare of the preflight service and what the three commands do with    *)
(* it: the detached worktrees of both revisions are made before a run and  *)
(* removed after it, on every way out.                                     *)
(*                                                                         *)
(* Consecutive checks that refuse with the same kind of error are one      *)
(* stage.  A stage that runs git or docker cannot pass once the context is *)
(* canceled; the checks behind its last command could, but a signal there  *)
(* commutes with them, so it counts as arriving in the next stage.  What   *)
(* the orchestrator does between "prepared" and the cleanup is the         *)
(* Lifecycle module.                                                       *)
(***************************************************************************)
CONSTANT
  Faults  \* what may go wrong

\* "refuse": a check refuses or its command fails; "add", "remove": git cannot
\* add or remove a worktree; "files": the temporary directory cannot be made or
\* removed; "panic": a check panics; "signal": SIGINT or SIGTERM arrives.
FaultKinds == {"refuse", "add", "remove", "files", "panic", "signal"}

ASSUME FaultsAssumption == Faults \subseteq FaultKinds

Commands == {"verify", "validate", "doctor"}
Worktrees == {"base", "candidate"}

VARIABLES
  command,      \* the subcommand
  checkout,     \* whether HEAD is the candidate, tracked files are changed, and
                \* require_clean_checkout holds
  stage,        \* the stage of Prepare, of the cleanup closure or of the command
  interrupted,  \* the stage at which the context was canceled, or "no"
  skipped,      \* HEAD could not be resolved, so the checkout was not looked at
  root,         \* whether the temporary directory exists
  registered,   \* the worktrees git has an entry for in .git/worktrees
  created,      \* baseCreated and candidateCreated
  raised,       \* the kind of the error under way
  trouble,      \* cleanupErrors is not empty
  kept,         \* the run was retained
  exit          \* the exit code of the command

inputs == <<command, checkout>>
trees  == <<root, registered, created>>
ending == <<trouble, kept, exit>>
vars == <<inputs, stage, interrupted, skipped, trees, raised, ending>>

NoExit == 99
RunExit == 98  \* whatever the verdicts of the run amount to

Errors == {"configuration", "prerequisite", "operational", "internal"}

\* The stages before and after the deferred cleanup is armed.
Unarmed == {"locate", "configure", "head", "tracked", "mkdir"}
Armed == {"base", "candidate", "compose", "docker", "artifacts"}
Unwinding == {"removeCandidate", "removeBase", "removeRoot", "return"}
Stages == Unarmed \union Armed \union {"prepared"} \union Unwinding \union {"ended"}

\* The stages after which no git or docker command is left to run.
CallFree == {"artifacts", "prepared"} \union Unwinding \union {"ended"}

TypeOK ==
  /\ command \in Commands
  /\ checkout \in [atHead : BOOLEAN, dirty : BOOLEAN, strict : BOOLEAN]
  /\ stage \in Stages
  /\ interrupted \in Stages \union {"no"}
  /\ skipped \in BOOLEAN /\ root \in BOOLEAN
  /\ registered \subseteq Worktrees /\ created \subseteq Worktrees
  /\ raised \in Errors \union {"none"}
  /\ trouble \in BOOLEAN /\ kept \in BOOLEAN
  /\ exit \in {NoExit, RunExit, 0, 21, 22, 24}

Init ==
  /\ command \in Commands
  /\ checkout \in [atHead : BOOLEAN, dirty : BOOLEAN, strict : BOOLEAN]
  /\ stage = "locate" /\ interrupted = "no" /\ skipped = FALSE
  /\ root = FALSE /\ registered = {} /\ created = {}
  /\ raised = "none" /\ trouble = FALSE /\ kept = FALSE /\ exit = NoExit

-----------------------------------------------------------------------------
(* Prepare.                                                                *)

CheckPrerequisites == command # "validate"

\* Mutant: the commands run with a context of their own.
AnsweredAlways == TRUE

\* A command is started only while the context is alive, and killed with it.
Answered == interrupted = "no"

\* Mutant: the deferred function looks at the returned error only.
RaiseWithoutRecover(kind) ==
  /\ raised' = kind
  /\ stage' = IF stage \in Armed /\ kind # "internal" THEN "removeCandidate" ELSE "return"

\* The deferred function calls the closure once the directory exists.
Raise(kind) ==
  /\ raised' = kind
  /\ stage' = IF stage \in Armed THEN "removeCandidate" ELSE "return"

Pass(next) == stage' = next /\ UNCHANGED raised

\* The errors with which the checks of a stage refuse.
Refusals(at) ==
  CASE at = "locate"    -> {"prerequisite"}
    [] at = "configure" -> {"configuration"}
    [] at = "tracked"   -> {"operational"}
    [] at = "compose"   -> {"configuration"} \union
                           (IF CheckPrerequisites THEN {"prerequisite"} ELSE {})
    [] at = "docker"    -> {"prerequisite"}
    [] at = "artifacts" -> {"configuration"} \union
                           (IF CheckPrerequisites THEN {"prerequisite"} ELSE {})
    [] OTHER            -> {}

\* A check refuses, its command fails, or its command is not run.
Refuse ==
  /\ "refuse" \in Faults \/ ~ Answered
  /\ \E kind \in Refusals(stage) : Raise(kind)
  /\ UNCHANGED <<inputs, interrupted, skipped, trees, ending>>

\* Plain code of a check panics; outside of Prepare only cli.Run recovers.
Panic ==
  /\ "panic" \in Faults
  /\ stage \in Unarmed \union Armed
  /\ Raise("internal")
  /\ UNCHANGED <<inputs, interrupted, skipped, trees, ending>>

\* LookPath and Discover; the refs, the committed file and the environment.
Inspect ==
  /\ stage \in {"locate", "configure"}
  /\ Answered
  /\ Pass(IF stage = "locate" THEN "configure"
          ELSE IF checkout.strict THEN "head" ELSE "mkdir")
  /\ UNCHANGED <<inputs, interrupted, skipped, trees, ending>>

\* Mutant: the test of the candidate against HEAD is inverted.
ResolveHeadInverted ==
  /\ stage = "head"
  /\ Answered
  /\ Pass(IF checkout.atHead THEN "mkdir" ELSE "tracked")
  /\ UNCHANGED <<inputs, interrupted, skipped, trees, ending>>

\* The clean-checkout rule holds for the checked out candidate only; an error
\* of this Resolve is taken for another HEAD.
ResolveHead ==
  /\ stage = "head"
  /\ \/ /\ Answered
        /\ Pass(IF checkout.atHead THEN "tracked" ELSE "mkdir")
        /\ UNCHANGED skipped
     \/ /\ "refuse" \in Faults \/ ~ Answered
        /\ Pass("mkdir")
        /\ skipped' = TRUE
  /\ UNCHANGED <<inputs, interrupted, trees, ending>>

TrackedDirty ==
  /\ stage = "tracked"
  /\ Answered
  /\ IF checkout.dirty THEN Raise("configuration") ELSE Pass("mkdir")
  /\ UNCHANGED <<inputs, interrupted, skipped, trees, ending>>

MkdirTemp ==
  /\ stage = "mkdir"
  /\ \/ root' = TRUE /\ Pass("base")
     \/ "files" \in Faults /\ root' = FALSE /\ Raise("operational")
  /\ UNCHANGED <<inputs, interrupted, skipped, registered, created, ending>>

\* git worktree add exits 0.
CreateWorktree(w) ==
  /\ stage = w
  /\ Answered
  /\ registered' = registered \union {w}
  /\ created' = created \union {w}
  /\ Pass(IF w = "base" THEN "candidate" ELSE "compose")
  /\ UNCHANGED <<inputs, interrupted, skipped, root, ending>>

\* Mutant: the exit code of git worktree add is not looked at.
CreateWorktreeUnchecked(w) ==
  /\ "add" \in Faults
  /\ stage = w
  /\ created' = created \union {w}
  /\ Pass(IF w = "base" THEN "candidate" ELSE "compose")
  /\ UNCHANGED <<inputs, interrupted, skipped, root, registered, ending>>

\* It fails, times out or is killed by the signal: it may have made its entry,
\* and the created flag stays false.  A canceled context starts no command.
CreateWorktreeFails(w) ==
  /\ "add" \in Faults \/ ~ Answered
  /\ stage = w
  /\ \E entry \in (IF Answered THEN {{}, {w}} ELSE {{}}) :
       registered' = registered \union entry
  /\ Raise("operational")
  /\ UNCHANGED <<inputs, interrupted, skipped, root, created, ending>>

\* The paths, the normalized Compose file and its policy; Docker and the host
\* executables, for verify and doctor.
Validate ==
  /\ stage \in {"compose", "docker"}
  /\ Answered
  /\ Pass(IF stage = "compose" /\ CheckPrerequisites THEN "docker" ELSE "artifacts")
  /\ UNCHANGED <<inputs, interrupted, skipped, trees, ending>>

\* The artifact root and whether it can be written run no command.
LocateArtifacts ==
  /\ stage = "artifacts"
  /\ Pass("prepared")
  /\ UNCHANGED <<inputs, interrupted, skipped, trees, ending>>

-----------------------------------------------------------------------------
(* The cleanup closure has a context of its own, which no signal cancels.  *)

\* validate and doctor call it at once, verify after the run, or when the
\* directory of the run cannot be made.
CallCleanup ==
  /\ stage = "prepared"
  /\ stage' = "removeCandidate"
  /\ raised' \in (IF command = "verify" THEN {"none", "internal"} ELSE {"none"})
  /\ UNCHANGED <<inputs, interrupted, skipped, trees, ending>>

\* A failed run with --keep-on-failure keeps its worktrees.
Retain ==
  /\ stage = "prepared" /\ command = "verify"
  /\ stage' = "ended" /\ kept' = TRUE /\ exit' = RunExit
  /\ UNCHANGED <<inputs, interrupted, skipped, trees, raised, trouble>>

RemoveStage(w) == IF w = "candidate" THEN "removeCandidate" ELSE "removeBase"

\* git worktree remove --force, for a worktree this Prepare created.
RemoveWorktree(w) ==
  /\ stage = RemoveStage(w)
  /\ stage' = IF w = "candidate" THEN "removeBase" ELSE "removeRoot"
  /\ IF w \in created
       THEN \/ registered' = registered \ {w} /\ UNCHANGED trouble
            \/ /\ "remove" \in Faults
               /\ registered' \in {registered, registered \ {w}}
               /\ trouble' = TRUE
       ELSE UNCHANGED <<registered, trouble>>
  /\ UNCHANGED <<inputs, interrupted, skipped, root, created, raised, kept, exit>>

RemoveAll ==
  /\ stage = "removeRoot"
  /\ stage' = "return"
  /\ \/ root' = FALSE /\ UNCHANGED trouble
     \/ "files" \in Faults /\ trouble' = TRUE /\ UNCHANGED root
  /\ UNCHANGED <<inputs, interrupted, skipped, registered, created, raised, kept, exit>>

\* Mutant: operational errors have the exit code they have in a run.
CodeOperational ==
  IF raised = "operational" THEN 23 ELSE IF raised # "none" THEN 22 ELSE 0

\* Mutant: validate drops the error of the closure.
CodeUntroubled ==
  IF raised # "none" THEN 21 ELSE IF trouble /\ command = "doctor" THEN 22 ELSE 0

\* The exit code of the command.
Code ==
  IF raised = "internal" THEN 24
  ELSE IF raised # "none" THEN
    IF command = "validate" \/ raised = "configuration" THEN 21 ELSE 22
  ELSE IF command = "verify" THEN RunExit
  ELSE IF trouble THEN IF command = "validate" THEN 21 ELSE 22
  ELSE 0

Return ==
  /\ stage = "return"
  /\ stage' = "ended" /\ exit' = Code
  /\ UNCHANGED <<inputs, interrupted, skipped, trees, raised, trouble, kept>>

\* NotifyContext cancels the context at the first signal; the rest are ignored.
Signal ==
  /\ "signal" \in Faults
  /\ stage # "ended" /\ interrupted = "no"
  /\ interrupted' = stage
  /\ UNCHANGED <<inputs, stage, skipped, trees, raised, ending>>

Next ==
  \/ Refuse \/ Panic \/ Inspect \/ ResolveHead \/ TrackedDirty \/ MkdirTemp
  \/ \E w \in Worktrees : CreateWorktree(w) \/ CreateWorktreeFails(w) \/ RemoveWorktree(w)
  \/ Validate \/ LocateArtifacts \/ CallCleanup \/ Retain \/ RemoveAll \/ Return \/ Signal

Spec == Init /\ [][Next]_vars

-----------------------------------------------------------------------------
(* Properties.                                                             *)

\* validate and doctor exit 0 only when neither the directory nor an entry in
\* .git/worktrees is left behind and no removal failed: whoever sees exit code
\* 0 has nothing to clean (app.go, Validate and Doctor).
SuccessLeavesNothing == exit = 0 => ~ root /\ registered = {} /\ ~ trouble

\* Whatever way a command ends, a directory that is left means a failed removal,
\* and so does a worktree entry, unless git refused to add that worktree: no
\* other error, panic or signal keeps a worktree from its removal.
LeftoversExplained ==
  stage = "ended" /\ ~ kept =>
    /\ root => trouble
    /\ registered # {} => trouble \/ (raised = "operational" /\ registered \subseteq Worktrees \ created)

\* A run is handed both worktrees, in a directory that exists, and nothing has
\* removed them before the command is done with them.
SuppliedWhole ==
  stage = "prepared" => root /\ registered = Worktrees /\ created = Worktrees

\* Changed tracked files keep a strict configuration from verifying the checked
\* out commit without them, unless HEAD could not be resolved at that moment
\* (the error of that Resolve is dropped).
DirtyIsRefused ==
  stage = "prepared" /\ checkout.strict /\ checkout.atHead /\ checkout.dirty => skipped

\* A signal that arrives while a git or docker command is still to be run ends
\* the command before a run starts, although the Resolve of HEAD drops its error.
InterruptedIsNotPrepared == stage = "prepared" => interrupted \in CallFree \union {"no"}

\* A run starts from a preparation that is whole, of a checkout that was looked
\* at, and that no signal met before its last git or docker command.
PreparedIsSound == SuppliedWhole /\ DirtyIsRefused /\ InterruptedIsNotPrepared
=============================================================================
