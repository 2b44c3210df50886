---------------------------- MODULE ProcessRunner ----------------------------
(***************************************************************************)
(* Runner.Run: one external command with its descendants, the goroutine    *)
(* that waits for it and copies its output, its timeout and the context of *)
(* the run, on Unix (a process group) and on Windows (a job object).       *)
(* Processes are identities, output is counted.                            *)
(***************************************************************************)
EXTENDS Integers

CONSTANTS
  Platforms,  \* of "unix" (process_unix.go) and "windows" (process_windows.go)
  Children,   \* what the command and its descendants may start
  Limit,      \* Command.MaxBytes
  MaxOutput,  \* bound: what the processes write in all
  Bounded,    \* whether the context of the caller has a deadline of its own
  Faults      \* what may fail: "launch", "attach", "terminate", "wait"

Leader == "leader"
Procs == {Leader} \union Children

ASSUME PlatformAssumption == Platforms \subseteq {"unix", "windows"}
ASSUME ChildrenAssumption == Leader \notin Children
ASSUME LimitAssumption == Limit \in Nat \ {0}
ASSUME OutputAssumption == MaxOutput \in Nat
ASSUME BoundedAssumption == Bounded \in BOOLEAN
ASSUME FaultsAssumption == Faults \subseteq {"launch", "attach", "terminate", "wait"}

VARIABLES
  platform,   \* the system Backline was built for
  pc,         \* where Run is
  running,    \* the processes that run
  born,       \* the processes ever started
  tree,       \* the processes in the group of the leader, or in the job
  holders,    \* the processes started with the output pipe
  fate,       \* how the leader ended
  asked,      \* the processes sent SIGTERM
  produced,   \* output written to the pipe
  copied,     \* output read from it
  captured,   \* output kept by the limitedBuffer
  truncated,  \* whether it dropped any
  lost,       \* reading the pipe has failed
  context,    \* commandContext.Err()
  waited,     \* cmd.Wait has returned
  result      \* what Run returns

os     == <<running, born, tree, holders, fate, asked>>
frame  == <<platform, produced, copied, captured, truncated, lost>>
vars   == <<pc, os, frame, context, waited, result>>

Points == {"run", "launch", "attach", "reap", "select", "grace", "await", "returned"}
Fates == {"none", "zero", "nonzero", "killed"}
Results ==
  [launched : BOOLEAN, exit : Fates, timedOut : BOOLEAN, canceled : BOOLEAN,
   terminated : BOOLEAN, err : BOOLEAN, output : 0..Limit, truncated : BOOLEAN]

NotRun ==
  [launched |-> FALSE, exit |-> "none", timedOut |-> FALSE, canceled |-> FALSE,
   terminated |-> FALSE, err |-> FALSE, output |-> 0, truncated |-> FALSE]

\* What Run returns when it gives up before it waits for the command.
GivenUp(launched, canceled) ==
  [launched |-> launched, exit |-> "none", timedOut |-> FALSE,
   canceled |-> canceled, terminated |-> FALSE, err |-> TRUE, output |-> 0,
   truncated |-> FALSE]

TypeOK ==
  /\ platform \in Platforms /\ pc \in Points
  /\ running \subseteq born /\ born \subseteq Procs
  /\ tree \subseteq born /\ holders \subseteq born /\ asked \subseteq tree
  /\ fate \in Fates /\ (Leader \in running => fate = "none")
  /\ produced \in 0..MaxOutput /\ copied \in 0..produced
  /\ captured \in 0..Limit /\ captured <= copied
  /\ truncated \in BOOLEAN /\ lost \in BOOLEAN /\ waited \in BOOLEAN
  /\ context \in {"none", "DeadlineExceeded", "Canceled"}
  /\ result \in Results

Init ==
  /\ platform \in Platforms /\ pc = "run"
  /\ running = {} /\ born = {} /\ tree = {} /\ holders = {} /\ asked = {}
  /\ fate = "none"
  /\ produced = 0 /\ copied = 0 /\ captured = 0 /\ truncated = FALSE /\ lost = FALSE
  /\ context = "none" /\ waited = FALSE
  /\ result = NotRun

-----------------------------------------------------------------------------
\* The caller.

Return(r) ==
  /\ result' = r
  /\ pc' = "returned"

\* A context that is already over, be it by its deadline, launches nothing and
\* counts as canceled.
Begin ==
  /\ pc = "run"
  /\ \/ context # "none" /\ Return(GivenUp(FALSE, TRUE))
     \/ context = "none" /\ pc' = "launch" /\ UNCHANGED result
  /\ UNCHANGED <<os, frame, context, waited>>

\* prepareCommand and cmd.Start.  On Unix the command leads a new group from
\* its start; on Windows it is in no job yet.
Launch ==
  /\ pc = "launch"
  /\ \/ "launch" \in Faults /\ Return(GivenUp(FALSE, FALSE))
        /\ UNCHANGED os
     \/ /\ pc' = "attach"
        /\ running' = {Leader} /\ born' = {Leader} /\ holders' = {Leader}
        /\ tree' = {p \in {Leader} : platform = "unix"}
        /\ UNCHANGED <<fate, asked, result>>
  /\ UNCHANGED <<frame, context, waited>>

\* The processes of a set that run are killed.
Killed(ps) ==
  /\ running' = running \ ps
  /\ fate' = IF Leader \in ps \intersect running THEN "killed" ELSE fate

\* attachProcessTree.  What the leader started before it was assigned to the
\* job stays outside.
Attach ==
  /\ pc = "attach"
  /\ \/ /\ platform = "unix"
        /\ pc' = "select"
        /\ UNCHANGED os
     \/ /\ platform = "windows"
        /\ pc' = "select"
        /\ tree' = {Leader}
        /\ UNCHANGED <<running, born, holders, fate, asked>>
     \/ /\ platform = "windows" /\ "attach" \in Faults
        /\ pc' = "reap"
        /\ Killed({Leader})
        /\ UNCHANGED <<born, tree, holders, asked>>
  /\ UNCHANGED <<frame, context, waited, result>>

\* The failed attach waits for the killed leader and gives up.
Reap ==
  /\ pc = "reap" /\ waited
  /\ Return(GivenUp(TRUE, FALSE))
  /\ UNCHANGED <<os, frame, context, waited>>

\* Mutant of Reached: the signal goes to the process, not to its group.
ReachedLeader == tree \intersect {Leader}

\* What a signal to the process group, or the end of the job, reaches.
Reached == tree

\* Mutant of Close: the job is left open.
CloseNothing == UNCHANGED <<running, fate>>

\* The deferred tree.Close: a job kills what is left in it, a group does not.
Close == IF platform = "windows" THEN Killed(tree) ELSE UNCHANGED <<running, fate>>

Finish(terminated, err) ==
  /\ Return([launched   |-> TRUE,
             exit       |-> fate,
             timedOut   |-> pc = "await" /\ context = "DeadlineExceeded",
             canceled   |-> pc = "await" /\ context = "Canceled",
             terminated |-> terminated,
             err        |-> err,
             output     |-> captured,
             truncated  |-> truncated])
  /\ Close
  /\ UNCHANGED <<born, tree, holders, asked, frame, context, waited>>

\* The select takes the end of the command, though the context may have ended.
\* cmd.Wait reports lost output of a command that exited zero, and its own failure.
Complete ==
  /\ pc = "select" /\ waited
  /\ \/ (lost => fate # "zero") /\ Finish(FALSE, FALSE)
     \/ "wait" \in Faults /\ Finish(FALSE, TRUE)

\* The select takes the end of the context, though the command may have ended.
\* Terminate asks the group to end; it ends the job at once.
Terminate ==
  /\ pc = "select" /\ context # "none"
  /\ \/ /\ platform = "unix"
        /\ pc' = "grace"
        /\ asked' = Reached \intersect running
        /\ UNCHANGED <<running, fate, result>>
     \/ /\ platform = "windows"
        /\ pc' = "await"
        /\ Killed(Reached)
        /\ result' = [result EXCEPT !.terminated = TRUE]
        /\ UNCHANGED asked
     \/ /\ "terminate" \in Faults
        /\ pc' = "await"
        /\ result' = [result EXCEPT !.err = TRUE]
        /\ UNCHANGED <<running, fate, asked>>
  /\ UNCHANGED <<born, tree, holders, frame, context, waited>>

\* SIGKILL after the grace of two seconds.
Kill ==
  /\ pc = "grace"
  /\ pc' = "await"
  /\ \/ /\ Killed(Reached)
        /\ result' = [result EXCEPT !.terminated = TRUE]
     \/ /\ "terminate" \in Faults
        /\ result' = [result EXCEPT !.err = TRUE]
        /\ UNCHANGED <<running, fate>>
  /\ UNCHANGED <<born, tree, holders, asked, frame, context, waited>>

\* Once the context has ended an error of cmd.Wait counts no more.
Await ==
  /\ pc = "await" /\ waited
  /\ Finish(result.terminated, result.err)

-----------------------------------------------------------------------------
\* The goroutines of exec.Cmd.

\* Mutant of Kept: the limit is looked at before the write only.
KeptWhole(n) == IF captured >= Limit THEN 0 ELSE n

\* limitedBuffer.Write keeps what there is room for.
Kept(n) == IF n > Limit - captured THEN Limit - captured ELSE n

Copy ==
  /\ ~ waited /\ ~ lost
  /\ \E n \in 1..(produced - copied) :
       /\ copied' = copied + n
       /\ captured' = captured + Kept(n)
       /\ truncated' = (truncated \/ n > Limit - captured)
  /\ UNCHANGED <<platform, pc, os, produced, lost, context, waited, result>>

\* Reading the pipe fails: the copying stops, and closes it.
LosesOutput ==
  /\ "wait" \in Faults
  /\ born # {} /\ ~ waited /\ ~ lost
  /\ lost' = TRUE
  /\ UNCHANGED <<platform, pc, os, produced, copied, captured, truncated, context,
                 waited, result>>

\* Mutant of PipeClosed: the wait is for the process alone.
PipeClosedAtExit == TRUE

\* The pipe is at its end when nobody can write to it and it is empty, or when
\* reading it failed.
PipeClosed == lost \/ (holders \intersect running = {} /\ copied = produced)

WaitReturns ==
  /\ pc \in {"reap", "select", "grace", "await"} /\ ~ waited
  /\ Leader \notin running /\ PipeClosed
  /\ waited' = TRUE
  /\ UNCHANGED <<pc, os, frame, context, result>>

-----------------------------------------------------------------------------
\* The command and its descendants.

\* A process starts another: in its group or, on Unix, in a session of its
\* own; with its output or with another.
Spawn(p, c) ==
  /\ p \in running /\ c \in Children \ born
  /\ running' = running \union {c} /\ born' = born \union {c}
  /\ \/ tree' = tree \union {d \in {c} : p \in tree}
     \/ platform = "unix" /\ tree' = tree
  /\ holders' \in {holders, holders \union {d \in {c} : p \in holders}}
  /\ UNCHANGED <<pc, fate, asked, frame, context, waited, result>>

Ends(p) ==
  /\ p \in running
  /\ running' = running \ {p}
  /\ fate' \in IF p = Leader THEN {"zero", "nonzero"} ELSE {fate}
  /\ UNCHANGED <<pc, born, tree, holders, asked, frame, context, waited, result>>

Write ==
  /\ holders \intersect running # {} /\ ~ lost
  /\ produced < MaxOutput
  /\ produced' = produced + 1
  /\ UNCHANGED <<platform, pc, os, copied, captured, truncated, lost, context, waited,
                 result>>

\* The timeout counts from the launch, a deadline of the caller from before it;
\* the run may be canceled at any time.
Deadline ==
  /\ pc \in {"launch", "attach", "select"} \union {p \in {"run"} : Bounded}
  /\ context = "none"
  /\ context' = "DeadlineExceeded"
  /\ UNCHANGED <<pc, os, frame, waited, result>>

Cancel ==
  /\ pc \in {"run", "launch", "attach", "select"} /\ context = "none"
  /\ context' = "Canceled"
  /\ UNCHANGED <<pc, os, frame, waited, result>>

-----------------------------------------------------------------------------
Run == Begin \/ Launch \/ Attach \/ Reap \/ Complete \/ Terminate \/ Kill \/ Await
Goroutines == Copy \/ WaitReturns
Command == Write \/ \E p \in Procs : Ends(p) \/ \E c \in Children : Spawn(p, c)

Done == pc = "returned" /\ UNCHANGED vars

Next == Run \/ Goroutines \/ LosesOutput \/ Command \/ Deadline \/ Cancel \/ Done

\* Run and its goroutines take their steps and time passes; the command need
\* not end, nor read a signal it can ignore.
Fairness == WF_vars(Run) /\ WF_vars(Goroutines) /\ WF_vars(Deadline)

Spec == Init /\ [][Next]_vars /\ Fairness

-----------------------------------------------------------------------------
\* Mutant of CommandOutcome: the timeout is not looked at.
CommandOutcomeWithoutTimeout(r) ==
  CASE r.canceled                                    -> "canceled"
    [] ~ r.canceled /\ r.err                         -> "error"
    [] ~ r.canceled /\ ~ r.err /\ r.exit # "zero"    -> "fail"
    [] OTHER                                         -> "pass"

\* How runHooks and runStep read a result.
CommandOutcome(r) ==
  CASE r.canceled                         -> "canceled"
    [] ~ r.canceled /\ r.err              -> "error"
    [] /\ ~ r.canceled /\ ~ r.err
       /\ r.exit # "zero" \/ r.timedOut   -> "fail"
    [] OTHER                              -> "pass"

\* When termination succeeded, and always on Windows, nothing of the command's
\* group or job outlives the call, whatever it started in the meantime.
TreeGone ==
  pc = "returned" /\ (result.terminated \/ platform = "windows") =>
    tree \intersect running = {}

\* What a call captured is all the output there is, up to the limit, and it
\* says so when there was more: nothing that could still write is running.  A
\* command whose output was lost does not pass.
OutputComplete ==
  pc = "returned" /\ result.exit # "none" =>
    /\ ~ lost =>
         /\ result.output = (IF produced > Limit THEN Limit ELSE produced)
         /\ result.truncated <=> produced > Limit
         /\ holders \intersect running = {}
    /\ lost => CommandOutcome(result) # "pass"

\* A command passes only by exiting zero untouched by the runner, and counts
\* against the release only by exiting nonzero untouched or by its timeout,
\* whichever of the end, the timeout and an interruption comes first; and what
\* is answered for has ended and was left alone until its context was over.
Contract ==
  INSTANCE CallContract WITH
    command <- IF Leader \in running THEN "runs" ELSE fate,
    meddled <- asked # {} \/ fate = "killed" \/ result.terminated,
    answer  <- {a \in {[reading |-> CommandOutcome(result), launched |-> result.launched]} :
                  pc = "returned"}

Promise == Contract!Spec

\* Some process that Terminate did not reach holds the output.
Unreached == \E p \in holders \intersect running : p \notin tree \/ result.err

\* A launched command returns after its timeout unless a descendant that left
\* the group keeps its output, or the group cannot be signalled.
CallReturns == pc \in {"select", "reap"} ~> (pc = "returned" \/ Unreached)
=============================================================================
