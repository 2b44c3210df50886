------------------------- MODULE ProcessRunnerProofs -------------------------
(***************************************************************************)
(* What a returned command result is worth, for every set of descendants,  *)
(* every output limit and every fault.                                     *)
(***************************************************************************)
EXTENDS ProcessRunner, TLAPS

USE DEF Leader

\* The limitedBuffer holds the start of what was copied.
Buffered ==
  /\ captured = (IF copied > Limit THEN Limit ELSE copied)
  /\ truncated <=> copied > Limit

\* Nothing runs before the launch; then the leader runs until it has a fate.
Launched ==
  /\ pc \in {"run", "launch"} => born = {}
  /\ pc \in {"attach", "reap", "select", "grace", "await"} => Leader \in born
  /\ born # {} => (Leader \in running <=> fate = "none")
  /\ born = {} => fate = "none"
  /\ pc \in {"run", "launch", "attach"} /\ platform = "windows" => tree = {}
  /\ pc = "reap" => tree = {} /\ platform = "windows"

\* cmd.Wait returns over an ended leader and a pipe at its end or lost.
WaitedOut ==
  waited => /\ pc \notin {"run", "launch", "attach"}
            /\ Leader \notin running /\ fate # "none"
            /\ ~ lost => holders \intersect running = {} /\ copied = produced

\* The runner touches the command only after its context ended.
Untouched ==
  /\ pc \in {"run", "launch", "attach", "select"} => asked = {} /\ fate # "killed"
  /\ pc \in {"run", "launch", "attach", "reap", "select", "grace"} => result = NotRun
  /\ pc = "run" /\ context = "DeadlineExceeded" => Bounded
  /\ pc \in {"grace", "await"} => context # "none"
  /\ pc = "await" =>
       /\ result.terminated \/ result.err
       /\ result.terminated => tree \intersect running = {}
  /\ pc = "returned" /\ result.exit # "none" => waited /\ result.exit = fate

\* The runner reports an error, and gives up a command, only when it fails.
Faulted ==
  \/ pc = "reap"
  \/ result.err /\ (pc # "returned" \/ ~ result.canceled)
  \/ lost
  => Faults # {}

IInv ==
  /\ TypeOK
  /\ Buffered
  /\ Launched
  /\ WaitedOut
  /\ Untouched
  /\ TreeGone
  /\ OutputComplete
  /\ Faulted

\* Results that do not come from a command that was waited for.
LEMMA NoResults ==
  /\ NotRun \in Results
  /\ \A launched, canceled \in BOOLEAN : GivenUp(launched, canceled) \in Results
<1>1. 0 \in 0..Limit
  BY LimitAssumption
<1> QED BY <1>1 DEF NotRun, GivenUp, Results, Fates

\* A call that has not begun satisfies the invariant.
LEMMA InitIInv == Init => IInv
<1> SUFFICES ASSUME Init PROVE IInv
  OBVIOUS
<1> USE LimitAssumption, OutputAssumption DEF Init
<1>1. TypeOK
  <2>1. 0 \in 0..MaxOutput /\ 0 \in 0..0 /\ 0 \in 0..Limit
    OBVIOUS
  <2>2. produced \in 0..MaxOutput /\ copied \in 0..produced /\ captured \in 0..Limit
    BY <2>1
  <2>3. captured <= copied
    OBVIOUS
  <2> QED BY <2>2, <2>3, NoResults DEF TypeOK, Points, Fates
<1> QED BY <1>1 DEF IInv, Buffered, Launched, WaitedOut, Untouched, NotRun,
          TreeGone, OutputComplete, Faulted

\* What a finished call returns.
LEMMA Finishing ==
  ASSUME NEW terminated, NEW err, Finish(terminated, err)
  PROVE  /\ pc' = "returned" /\ UNCHANGED <<context, waited, lost>>
         /\ result'.launched = TRUE /\ result'.exit = fate
         /\ result'.timedOut = (pc = "await" /\ context = "DeadlineExceeded")
         /\ result'.canceled = (pc = "await" /\ context = "Canceled")
         /\ result'.terminated = terminated /\ result'.err = err
         /\ result'.output = captured /\ result'.truncated = truncated
BY DEF Finish, Return, frame

\* A completed call reports lost output and a failing wait as an error.
LEMMA Completing ==
  ASSUME Complete
  PROVE  /\ pc = "select" /\ pc' = "returned" /\ waited
         /\ UNCHANGED <<context, lost>>
         /\ result'.launched = TRUE /\ result'.exit = fate
         /\ result'.timedOut = FALSE /\ result'.canceled = FALSE
         /\ result'.terminated = FALSE
         /\ \/ result'.err = FALSE /\ (lost => fate # "zero")
            \/ result'.err = TRUE /\ Faults # {}
<1>0. pc = "select" /\ waited
  BY DEF Complete
<1>1. CASE Finish(FALSE, FALSE) /\ (lost => fate # "zero")
  BY <1>0, <1>1, Finishing
<1>2. CASE Finish(FALSE, TRUE) /\ "wait" \in Faults
  BY <1>0, <1>2, Finishing
<1> QED BY <1>1, <1>2 DEF Complete

\* Every action a step can be.
LEMMA RunnerActions ==
  ASSUME [Next]_vars
  PROVE  \/ Begin \/ Launch \/ Attach \/ Reap \/ Complete \/ Terminate \/ Kill
         \/ Await \/ Copy \/ WaitReturns \/ LosesOutput \/ Write
         \/ (\E p \in Procs : Ends(p))
         \/ (\E p \in Procs, c \in Children : Spawn(p, c))
         \/ Deadline \/ Cancel \/ UNCHANGED vars
BY DEF Next, Run, Goroutines, Command, Done

\* A step keeps the types.
LEMMA TypeStep ==
  ASSUME TypeOK, Launched, [Next]_vars PROVE TypeOK'
<1> USE LimitAssumption, OutputAssumption DEF TypeOK, Points, Fates
<1>1. CASE Begin
  BY <1>1, NoResults DEF Begin, Return, os, frame
<1>2. CASE Launch
  <2>1. running \subseteq {} /\ tree \subseteq {} /\ holders \subseteq {}
    BY <1>2 DEF Launch, Launched
  <2>2. CASE pc' = "returned"
    BY <1>2, <2>1, <2>2, NoResults DEF Launch, Return, os, frame
  <2>3. CASE pc' # "returned"
    BY <1>2, <2>1, <2>3 DEF Launch, Launched, Return, Procs, frame
  <2> QED BY <2>2, <2>3
<1>3. CASE Attach
  BY <1>3 DEF Attach, Launched, Killed, frame, os
<1>4. CASE Reap
  BY <1>4, NoResults DEF Reap, Return, os, frame
<1>5. ASSUME NEW terminated \in BOOLEAN, NEW err \in BOOLEAN, Finish(terminated, err)
      PROVE  TypeOK'
  <2>1. result' \in Results
    BY <1>5 DEF Finish, Return, Results
  <2>2. UNCHANGED <<born, tree, holders, asked, frame, context, waited>>
    BY <1>5 DEF Finish
  <2>3. running' \subseteq running /\ fate' \in Fates
        /\ (Leader \in running' => fate' = "none")
    BY <1>5 DEF Finish, Close, Killed
  <2> QED BY <1>5, <2>1, <2>2, <2>3 DEF Finish, Return, frame
<1>6. CASE Complete
  BY <1>6, <1>5 DEF Complete
<1>7. CASE Terminate
  <2>1. /\ running' \subseteq running /\ fate' \in Fates /\ asked' \subseteq tree
        /\ (Leader \in running' => fate' = "none") /\ result' \in Results
        /\ pc' \in {"grace", "await"}
        /\ UNCHANGED <<born, tree, holders, frame, context, waited>>
    BY <1>7 DEF Terminate, Reached, Killed, Results
  <2> QED BY <2>1 DEF frame
<1>8. CASE Kill
  BY ZenonT(30), <1>8 DEF Kill, Reached, Killed, Results, frame
<1>9. CASE Await
  <2>1. result.terminated \in BOOLEAN /\ result.err \in BOOLEAN
    BY DEF Results
  <2> QED BY <1>9, <1>5, <2>1 DEF Await
<1>10. CASE Copy
  BY <1>10 DEF Copy, Kept, os
<1>11. CASE WaitReturns
  BY <1>11 DEF WaitReturns, os, frame
<1>12. CASE Write
  BY <1>12 DEF Write, os
<1>13. ASSUME NEW p \in Procs, Ends(p) PROVE TypeOK'
  BY <1>13 DEF Ends, frame
<1>14. ASSUME NEW p \in Procs, NEW c \in Children, Spawn(p, c) PROVE TypeOK'
  <2>1. c \in Procs /\ c # Leader
    BY <1>14, ChildrenAssumption DEF Procs
  <2>2. /\ running' = running \union {c} /\ born' = born \union {c}
        /\ tree' \subseteq tree \union {c} /\ tree \subseteq tree'
        /\ holders' \subseteq holders \union {c}
        /\ UNCHANGED <<pc, fate, asked, frame, context, waited, result>>
    BY <1>14 DEF Spawn
  <2> QED BY <2>1, <2>2 DEF frame
<1>15. CASE Deadline \/ Cancel
  BY <1>15 DEF Deadline, Cancel, os, frame
<1>16. CASE LosesOutput
  BY <1>16 DEF LosesOutput, os
<1>17. CASE UNCHANGED vars
  BY <1>17 DEF vars, os, frame
<1> QED BY RunnerActions, <1>1, <1>2, <1>3, <1>4, <1>6, <1>7, <1>8, <1>9, <1>10,
  <1>11, <1>12, <1>13, <1>14, <1>15, <1>16, <1>17

\* A step keeps the buffer the start of what was copied.
LEMMA BufferStep ==
  ASSUME TypeOK, Buffered, [Next]_vars PROVE Buffered'
<1> USE LimitAssumption DEF Buffered
<1>1. CASE Copy
  <2>1. PICK n \in 1..(produced - copied) :
          /\ copied' = copied + n /\ captured' = captured + Kept(n)
          /\ truncated' = (truncated \/ n > Limit - captured)
    BY <1>1 DEF Copy
  <2>2. n \in Nat \ {0} /\ copied \in Nat /\ captured \in Nat /\ Limit \in Nat
        /\ captured <= copied /\ truncated \in BOOLEAN
    BY <2>1 DEF TypeOK
  <2>3. captured' = IF copied' > Limit THEN Limit ELSE copied'
    BY <2>1, <2>2 DEF Kept
  <2>4. n > Limit - captured <=> copied + n > Limit
    BY <2>2
  <2>5. truncated' <=> copied' > Limit
    <3>1. truncated => copied + n > Limit
      BY <2>2
    <3> QED BY <2>1, <2>2, <2>4, <3>1
  <2> QED BY <2>3, <2>5
<1>2. CASE UNCHANGED <<copied, captured, truncated>>
  BY <1>2
<1> QED BY RunnerActions, <1>1, <1>2 DEF Begin, Launch, Attach, Reap, Complete,
  Finish, Terminate, Kill, Await, WaitReturns, LosesOutput, Write, Ends, Spawn,
  Deadline, Cancel, vars, frame

\* A step keeps the leader running exactly until it has a fate.
LEMMA LaunchedStep ==
  ASSUME TypeOK, Launched, WaitedOut, [Next]_vars PROVE Launched'
<1> USE DEF Launched, TypeOK, frame
<1>1. CASE Begin
  BY <1>1 DEF Begin, Return, os
<1>2. CASE Launch
  BY <1>2 DEF Launch, Return, os
<1>3. CASE Attach
  BY <1>3, PlatformAssumption DEF Attach, Killed, os
<1>4. CASE Reap
  BY <1>4 DEF Reap, Return, os
<1>5. CASE Complete \/ Await
  BY <1>5 DEF Complete, Await, Finish, Return, Close, Killed
<1>6. CASE Terminate
  BY <1>6 DEF Terminate, Reached, Killed
<1>7. CASE Kill
  BY <1>7 DEF Kill, Reached, Killed
<1>8. CASE Copy \/ WaitReturns \/ LosesOutput \/ Write \/ Deadline \/ Cancel
  BY <1>8 DEF Copy, WaitReturns, LosesOutput, Write, Deadline, Cancel, os
<1>9. ASSUME NEW p \in Procs, Ends(p) PROVE Launched'
  BY <1>9 DEF Ends
<1>10. ASSUME NEW p \in Procs, NEW c \in Children, Spawn(p, c) PROVE Launched'
  BY <1>10, ChildrenAssumption DEF Spawn, Procs
<1>11. CASE UNCHANGED vars
  BY <1>11 DEF vars, os
<1> QED BY RunnerActions, <1>1, <1>2, <1>3, <1>4, <1>5, <1>6, <1>7, <1>8, <1>9,
  <1>10, <1>11

\* Nothing that could write starts once cmd.Wait has returned.
LEMMA WaitedStep ==
  ASSUME TypeOK, Launched, WaitedOut, [Next]_vars PROVE WaitedOut'
<1> USE DEF WaitedOut, TypeOK
<1>1. CASE Begin \/ Launch \/ Attach
  BY <1>1 DEF Begin, Launch, Attach
<1>2. CASE Reap
  BY <1>2 DEF Reap, Return, os, frame
<1>3. CASE Complete \/ Await
  BY <1>3 DEF Complete, Await, Finish, Return, Close, Killed, frame
<1>4. CASE Terminate
  BY <1>4 DEF Terminate, Reached, Killed, frame
<1>5. CASE Kill
  BY <1>5 DEF Kill, Reached, Killed, frame
<1>6. CASE Copy
  BY <1>6 DEF Copy
<1>7. CASE WaitReturns
  BY <1>7 DEF WaitReturns, PipeClosed, Launched, os, frame
<1>8. CASE Write \/ LosesOutput
  BY <1>8 DEF Write, LosesOutput, os
<1>9. CASE Deadline \/ Cancel
  BY <1>9 DEF Deadline, Cancel, os, frame
<1>10. ASSUME NEW p \in Procs, Ends(p) PROVE WaitedOut'
  BY <1>10 DEF Ends, frame
<1>11. ASSUME NEW p \in Procs, NEW c \in Children, Spawn(p, c) PROVE WaitedOut'
  BY <1>11, ChildrenAssumption DEF Spawn, frame
<1>12. CASE UNCHANGED vars
  BY <1>12 DEF vars, os, frame
<1> QED BY RunnerActions, <1>1, <1>2, <1>3, <1>4, <1>5, <1>6, <1>7, <1>8, <1>9,
  <1>10, <1>11, <1>12

\* A step signals the command only after its context ended.
LEMMA UntouchedStep ==
  ASSUME TypeOK, Launched, WaitedOut, Untouched, [Next]_vars PROVE Untouched'
<1> USE DEF Untouched, TypeOK
<1>1. CASE Begin
  BY <1>1 DEF Begin, Return, GivenUp, os
<1>2. CASE Launch
  BY <1>2 DEF Launch, Return, GivenUp, os
<1>3. CASE Attach
  BY <1>3 DEF Attach, Killed, os
<1>4. CASE Reap
  BY <1>4 DEF Reap, Return, GivenUp, os, frame
<1>12. CASE Complete \/ Await
  BY <1>12 DEF Complete, Await, Finish, Return, Close, Killed, WaitedOut
<1>5. CASE Terminate
  BY <1>5 DEF Terminate, Reached, Killed, Results, NotRun
<1>6. CASE Kill
  BY <1>6 DEF Kill, Reached, Killed, Results, NotRun
<1>7. CASE Copy \/ WaitReturns \/ LosesOutput \/ Write
  BY <1>7 DEF Copy, WaitReturns, LosesOutput, Write, os
<1>8. CASE Deadline \/ Cancel
  BY <1>8 DEF Deadline, Cancel, os
<1>9. ASSUME NEW p \in Procs, Ends(p) PROVE Untouched'
  BY <1>9 DEF Ends, WaitedOut
<1>10. ASSUME NEW p \in Procs, NEW c \in Children, Spawn(p, c) PROVE Untouched'
  BY <1>10, ChildrenAssumption DEF Spawn
<1>11. CASE UNCHANGED vars
  BY <1>11 DEF vars, os
<1> QED BY RunnerActions, <1>1, <1>2, <1>3, <1>4, <1>5, <1>6, <1>7, <1>8, <1>9,
  <1>10, <1>11, <1>12

\* A step keeps the tree of a returned call empty.
LEMMA TreeStep ==
  ASSUME TypeOK, Launched, WaitedOut, Untouched, TreeGone, [Next]_vars
  PROVE  TreeGone'
<1> USE DEF TreeGone, TypeOK, frame
<1>1. CASE Begin
  BY <1>1 DEF Begin, Return, GivenUp, Launched, os
<1>2. CASE Launch
  BY <1>2 DEF Launch, Return, GivenUp, Launched, os
<1>3. CASE Reap
  BY <1>3 DEF Reap, Return, GivenUp, Launched, os
<1>4. CASE Complete \/ Await
  BY <1>4 DEF Complete, Await, Finish, Return, Close, Killed, Untouched
<1>5. CASE Attach \/ Terminate \/ Kill
  BY <1>5 DEF Attach, Terminate, Kill
<1>6. CASE Copy \/ WaitReturns \/ LosesOutput \/ Write \/ Deadline \/ Cancel
  BY <1>6 DEF Copy, WaitReturns, LosesOutput, Write, Deadline, Cancel, os
<1>7. ASSUME NEW p \in Procs, Ends(p) PROVE TreeGone'
  BY <1>7 DEF Ends
<1>8. ASSUME NEW p \in Procs, NEW c \in Children, Spawn(p, c) PROVE TreeGone'
  BY <1>8 DEF Spawn
<1>9. CASE UNCHANGED vars
  BY <1>9 DEF vars, os
<1> QED BY RunnerActions, <1>1, <1>2, <1>3, <1>4, <1>5, <1>6, <1>7, <1>8, <1>9

\* A step keeps the output of a returned call complete.
LEMMA OutputStep ==
  ASSUME TypeOK, Launched, Buffered, WaitedOut, Untouched, OutputComplete, [Next]_vars
  PROVE  OutputComplete'
<1> USE DEF OutputComplete, TypeOK
<1>1. CASE Begin \/ Launch \/ Reap
  BY <1>1 DEF Begin, Launch, Reap, Return, GivenUp
<1>2. CASE Complete \/ Await
  <2>1. /\ waited /\ result'.output = captured /\ result'.truncated = truncated
        /\ running' \subseteq running
        /\ UNCHANGED <<holders, produced, lost>>
    BY <1>2 DEF Complete, Await, Finish, Return, Close, Killed, frame
  <2>2. lost => CommandOutcome(result') # "pass"
    <3>1. CASE Complete
      BY <3>1, Completing DEF CommandOutcome
    <3>2. CASE Await
      BY <3>2 DEF Await, Finish, Return, CommandOutcome, Untouched
    <3> QED BY <1>2, <3>1, <3>2
  <2> QED BY <2>1, <2>2 DEF WaitedOut, Buffered
<1>3. CASE Attach \/ Terminate \/ Kill
  BY <1>3 DEF Attach, Terminate, Kill
<1>4. CASE Copy
  BY <1>4 DEF Copy, os
<1>5. CASE WaitReturns \/ Deadline \/ Cancel
  BY <1>5 DEF WaitReturns, Deadline, Cancel, os, frame
<1>6. CASE Write \/ LosesOutput
  BY <1>6 DEF Write, LosesOutput, Launched, WaitedOut, Untouched, os
<1>7. ASSUME NEW p \in Procs, Ends(p) PROVE OutputComplete'
  BY <1>7 DEF Ends, frame
<1>8. ASSUME NEW p \in Procs, NEW c \in Children, Spawn(p, c) PROVE OutputComplete'
  BY <1>8 DEF Spawn, frame
<1>9. CASE UNCHANGED vars
  BY <1>9 DEF vars, os, frame
<1> QED BY RunnerActions, <1>1, <1>2, <1>3, <1>4, <1>5, <1>6, <1>7, <1>8, <1>9

\* What each reading of a result says of it.
LEMMA Readings ==
  ASSUME NEW r
  PROVE  /\ r.canceled <=> CommandOutcome(r) = "canceled"
         /\ CommandOutcome(r) = "fail" =>
              ~ r.canceled /\ ~ r.err /\ (r.exit # "zero" \/ r.timedOut)
         /\ CommandOutcome(r) = "pass" =>
              ~ r.canceled /\ ~ r.err /\ r.exit = "zero" /\ ~ r.timedOut
BY DEF CommandOutcome

\* A step reports an error only for a fault.
LEMMA FaultedStep ==
  ASSUME TypeOK, Untouched, Faulted, [Next]_vars PROVE Faulted'
<1> USE DEF Faulted
<1>1. CASE Begin \/ Launch \/ Reap
  BY <1>1 DEF Begin, Launch, Reap, Return, GivenUp, frame
<1>2. CASE Attach
  BY <1>2 DEF Attach, frame
<1>3. CASE Complete
  BY <1>3, Completing
<1>4. CASE Await
  <2>1. result'.err = result.err /\ pc' = "returned" /\ lost' = lost
    BY <1>4 DEF Await, Finish, Return, frame
  <2>2. result.err => Faults # {}
    BY <1>4 DEF Await
  <2> QED BY <2>1, <2>2
<1>5. CASE Terminate \/ Kill
  <2>1. result = NotRun /\ result.err = FALSE /\ pc' # "reap" /\ lost' = lost
    BY <1>5 DEF Terminate, Kill, Return, Untouched, NotRun, frame
  <2>2. \/ result' = result \/ result' = [result EXCEPT !.terminated = TRUE]
        \/ "terminate" \in Faults
    BY <1>5 DEF Terminate, Kill
  <2>3. result' = [result EXCEPT !.terminated = TRUE] => result'.err = FALSE
    BY <2>1 DEF TypeOK, Results
  <2> QED BY <2>1, <2>2, <2>3
<1>6. CASE Copy \/ WaitReturns \/ LosesOutput \/ Write \/ Deadline \/ Cancel
  BY <1>6 DEF Copy, WaitReturns, LosesOutput, Write, Deadline, Cancel, frame
<1>7. ASSUME NEW p \in Procs, Ends(p) PROVE Faulted'
  BY <1>7 DEF Ends, frame
<1>8. ASSUME NEW p \in Procs, NEW c \in Children, Spawn(p, c) PROVE Faulted'
  BY <1>8 DEF Spawn, frame
<1>9. CASE UNCHANGED vars
  BY <1>9 DEF vars, frame
<1> QED BY RunnerActions, <1>1, <1>2, <1>3, <1>4, <1>5, <1>6, <1>7, <1>8, <1>9

\* The inductive invariant of Run: the buffer mirrors the pipe, cmd.Wait returns
\* only over a closed pipe, and the runner touches a command only after its
\* context ended.
THEOREM RunnerInvariant == Spec => []IInv
<1>1. IInv /\ [Next]_vars => IInv'
  BY TypeStep, BufferStep, LaunchedStep, WaitedStep, UntouchedStep, TreeStep,
    OutputStep, FaultedStep DEF IInv
<1> QED BY InitIInv, <1>1, PTL DEF Spec

\* The variables of Run, its buffer and the process tree keep their types.
THEOREM RunnerTypes == Spec => []TypeOK
BY RunnerInvariant, PTL DEF IInv

\* What was terminated, and on Windows whatever was run, leaves nothing of its
\* group or job running.
THEOREM TreeGoneHolds == Spec => []TreeGone
BY RunnerInvariant, PTL DEF IInv

\* The frame of a command is captured whole up to the limit.
THEOREM OutputCompleteHolds == Spec => []OutputComplete
BY RunnerInvariant, PTL DEF IInv

-----------------------------------------------------------------------------
\* The call implements the contract.

\* The state of the command, whether the runner has touched it and the answer.
Seen == IF Leader \in running THEN "runs" ELSE fate
Meddled == asked # {} \/ fate = "killed" \/ result.terminated
Given == {a \in {[reading |-> CommandOutcome(result), launched |-> result.launched]} :
            pc = "returned"}

\* Before the return there is no answer, and a step that changes neither the
\* leader nor what was done to it is none of the contract's.
LEMMA Unseen ==
  ASSUME pc # "returned", pc' # "returned", UNCHANGED <<Seen, Meddled, context>>
  PROVE  UNCHANGED Contract!vars
BY DEF Contract!vars, Seen, Meddled

\* A return gives the one answer, over a command that is over.
LEMMA Answering ==
  ASSUME pc # "returned", pc' = "returned", UNCHANGED <<Seen, Meddled, context>>,
         Seen # "runs", result'.launched \in BOOLEAN,
         result'.launched <=> Seen # "none",
         CommandOutcome(result)' = "pass" => Seen = "zero" /\ ~ Meddled,
         CommandOutcome(result)' = "fail" =>
           (Seen = "nonzero" /\ ~ Meddled) \/ (Seen # "none" /\ context = "DeadlineExceeded"),
         CommandOutcome(result)' = "error" => Faults # {},
         CommandOutcome(result)' = "canceled" =>
           context = "Canceled" \/ (Bounded /\ context = "DeadlineExceeded" /\ Seen = "none")
  PROVE  Contract!GiveAnswer
<1> DEFINE a == [reading |-> CommandOutcome(result'), launched |-> result'.launched]
<1>1. a \in Contract!Answer
  BY DEF CommandOutcome, Contract!Answer
<1>2. Contract!Justified(a)
  BY <1>1 DEF Contract!Justified, Seen, Meddled
<1>3. Given = {} /\ Given' = {a}
  BY DEF Given
<1> QED BY <1>1, <1>2, <1>3 DEF Contract!GiveAnswer, Seen, Meddled, Given

\* Killing a set of processes, when the runner may, is a step of the contract.
LEMMA Killing ==
  ASSUME TypeOK, Launched, pc \notin {"returned", "launch", "run"}, pc' # "returned",
         context # "none" \/ Faults # {}, context' = context,
         NEW ps, Killed(ps), Meddled' \/ UNCHANGED <<Seen, Meddled>>
  PROVE  Contract!Meddle \/ UNCHANGED Contract!vars
<1>1. CASE UNCHANGED <<Seen, Meddled>>
  BY <1>1, Unseen
<1>2. CASE Meddled'
  <2>1. Seen # "none" /\ Seen' \in {Seen} \union {c \in {"killed"} : Seen = "runs"}
    BY DEF Seen, Launched, TypeOK, Killed, Points
  <2>2. Given = {} /\ Given' = {}
    BY DEF Given
  <2> QED BY <1>2, <2>1, <2>2 DEF Contract!Meddle, Seen, Meddled, Given
<1> QED BY <1>1, <1>2

\* Each step of the runner, its goroutines, the command and the context has its
\* counterpart in the contract.
LEMMA ContractStep ==
  ASSUME IInv, IInv', [Next]_vars
  PROVE  Contract!Next \/ UNCHANGED Contract!vars
<1> USE DEF IInv
<1>1. CASE Begin
  <2>1. UNCHANGED <<Seen, context>> /\ Seen = "none" /\ result = NotRun
    BY <1>1 DEF Begin, Launched, Untouched, Seen, os, TypeOK
  <2>2. CASE pc' = "returned"
    <3>1. result' = GivenUp(FALSE, TRUE) /\ context # "none" /\ pc = "run"
      BY <1>1, <2>2 DEF Begin, Return
    <3>0. context = "Canceled" \/ (Bounded /\ context = "DeadlineExceeded")
      BY <3>1 DEF Untouched, TypeOK
    <3>2. result'.launched = FALSE /\ CommandOutcome(result') = "canceled"
      BY <3>1 DEF GivenUp, CommandOutcome
    <3>3. UNCHANGED Meddled
      BY <1>1, <2>1, <3>1 DEF Begin, Meddled, NotRun, GivenUp, os
    <3> QED BY <2>1, <2>2, <3>0, <3>1, <3>2, <3>3, Answering DEF Contract!Next
  <2>3. CASE pc' # "returned"
    <3>1. UNCHANGED Meddled /\ pc = "run"
      BY <1>1, <2>3 DEF Begin, Return, Meddled, os
    <3> QED BY <2>1, <2>3, <3>1, Unseen
  <2> QED BY <2>2, <2>3
<1>2. CASE Launch
  <2>1. pc = "launch" /\ Seen = "none" /\ context' = context /\ fate' = fate /\ ~ Meddled
    <3>1. pc = "launch" /\ context' = context /\ fate' = fate
      BY <1>2 DEF Launch, os
    <3>2. born = {} /\ fate = "none" /\ asked = {} /\ running = {} /\ result = NotRun
      BY <3>1 DEF Launched, Untouched, TypeOK
    <3> QED BY <3>1, <3>2 DEF Seen, Meddled, NotRun
  <2>2. CASE pc' = "returned"
    <3>1. result' = GivenUp(FALSE, FALSE) /\ Faults # {} /\ UNCHANGED <<running, fate, asked>>
      BY <1>2, <2>2 DEF Launch, Return, os
    <3>2. result'.launched = FALSE /\ CommandOutcome(result') = "error" /\ ~ result'.terminated
      BY <3>1 DEF GivenUp, CommandOutcome
    <3>3. UNCHANGED <<Seen, Meddled>>
      BY <2>1, <3>1, <3>2 DEF Seen, Meddled
    <3> QED BY <2>1, <2>2, <3>1, <3>2, <3>3, Answering DEF Contract!Next
  <2>3. CASE pc' # "returned"
    <3>1. Seen' = "runs" /\ UNCHANGED <<asked, result>>
      BY <1>2, <2>3 DEF Launch, Return, Seen
    <3>2. Given = {} /\ Given' = {} /\ ~ Meddled'
      BY <2>1, <2>3, <3>1 DEF Given, Meddled
    <3> QED BY <2>1, <3>1, <3>2 DEF Contract!Next, Contract!Launch, Seen, Meddled, Given
  <2> QED BY <2>2, <2>3
<1>3. CASE Attach
  <2>1. pc = "attach" /\ pc' # "returned" /\ UNCHANGED <<context, result, asked>>
    BY <1>3 DEF Attach, os
  <2>2. CASE pc' = "reap"
    <3>1. Killed({Leader}) /\ Faults # {}
      BY <1>3, <2>2 DEF Attach
    <3>2. Meddled' \/ UNCHANGED <<Seen, Meddled>>
      BY <2>1, <3>1 DEF Killed, Meddled, Seen
    <3> QED BY <2>1, <3>1, <3>2, Killing DEF Contract!Next
  <2>3. CASE pc' # "reap"
    <3>1. UNCHANGED <<running, fate>>
      BY <1>3, <2>3 DEF Attach, os
    <3>2. UNCHANGED <<Seen, Meddled>>
      BY <2>1, <3>1 DEF Seen, Meddled
    <3> QED BY <2>1, <3>2, Unseen
  <2> QED BY <2>2, <2>3
<1>4. CASE Reap
  <2>1. /\ pc = "reap" /\ pc' = "returned" /\ result' = GivenUp(TRUE, FALSE)
        /\ UNCHANGED <<running, fate, asked, context>> /\ waited
    BY <1>4 DEF Reap, Return, os
  <2>2. Seen \notin {"none", "runs"} /\ Faults # {} /\ result = NotRun
    BY <2>1 DEF WaitedOut, Launched, Untouched, Faulted, Seen, TypeOK, Fates
  <2>3. /\ result'.launched = TRUE /\ CommandOutcome(result') = "error"
        /\ ~ result'.terminated /\ ~ result.terminated
    BY <2>1, <2>2 DEF GivenUp, NotRun, CommandOutcome
  <2>4. UNCHANGED <<Seen, Meddled>>
    BY <2>1, <2>3 DEF Seen, Meddled
  <2> QED BY <2>1, <2>2, <2>3, <2>4, Answering DEF Contract!Next
<1>5. CASE Complete
  <2>1. /\ pc = "select" /\ pc' = "returned" /\ waited /\ UNCHANGED <<asked, context>>
        /\ result'.launched = TRUE /\ result'.canceled = FALSE
        /\ result'.err = FALSE \/ Faults # {}
        /\ result'.timedOut = FALSE /\ result'.exit = fate /\ result'.terminated = FALSE
    BY <1>5, Completing DEF Complete, Finish
  <2>2. fate' = fate /\ Leader \notin running /\ Leader \notin running'
    BY <1>5 DEF Complete, Finish, Close, Killed, WaitedOut
  <2>3. fate \in {"zero", "nonzero"} /\ asked = {} /\ result.terminated = FALSE
    BY <2>1 DEF WaitedOut, Untouched, TypeOK, Fates, NotRun
  <2>4. Seen = fate /\ ~ Meddled /\ UNCHANGED <<Seen, Meddled>>
    BY <2>1, <2>2, <2>3 DEF Seen, Meddled
  <2>5. /\ CommandOutcome(result') # "canceled"
        /\ CommandOutcome(result') = "error" => Faults # {}
        /\ CommandOutcome(result') = "fail" => fate = "nonzero"
        /\ CommandOutcome(result') = "pass" => fate = "zero"
    BY <2>1, <2>3 DEF CommandOutcome, Faulted
  <2> QED BY <2>1, <2>3, <2>4, <2>5, Answering DEF Contract!Next
<1>6. CASE Await
  <2>1. /\ pc = "await" /\ pc' = "returned" /\ waited /\ UNCHANGED <<asked, context>>
        /\ result'.launched = TRUE /\ result'.canceled = (context = "Canceled")
        /\ result'.err = result.err /\ result'.terminated = result.terminated
        /\ result'.timedOut = (context = "DeadlineExceeded")
    BY <1>6 DEF Await, Finish, Return
  <2>2. fate' = fate /\ Leader \notin running /\ Leader \notin running' /\ fate \in Fates \ {"none"}
    BY <1>6 DEF Await, Finish, Close, Killed, WaitedOut, TypeOK
  <2>3. context \in {"Canceled", "DeadlineExceeded"} /\ (result.err => Faults # {})
    BY <2>1 DEF Untouched, Faulted, TypeOK
  <2>4. UNCHANGED <<Seen, Meddled>> /\ Seen \notin {"none", "runs"}
    BY <2>1, <2>2 DEF Seen, Meddled, Fates
  <2>5. /\ CommandOutcome(result') # "pass"
        /\ CommandOutcome(result') = "canceled" => context = "Canceled"
        /\ CommandOutcome(result') = "error" => Faults # {}
        /\ CommandOutcome(result') = "fail" => context = "DeadlineExceeded"
    BY <2>1, <2>3 DEF CommandOutcome
  <2> QED BY <2>1, <2>4, <2>5, Answering DEF Contract!Next
<1>7. CASE Terminate
  <2>1. /\ pc = "select" /\ pc' \in {"grace", "await"} /\ context # "none" /\ context' = context
        /\ result = NotRun /\ asked = {} /\ ~ Meddled
    BY <1>7 DEF Terminate, Untouched, Meddled, NotRun
  <2>2. Killed({}) \/ (Killed(Reached) /\ Meddled')
    BY <1>7, <2>1 DEF Terminate, Killed, Meddled, TypeOK, Results
  <2>3. Meddled' \/ UNCHANGED <<Seen, Meddled>>
    <3>1. CASE Killed({})
      <4>1. UNCHANGED <<Seen, fate>>
        BY <3>1 DEF Killed, Seen
      <4> QED BY <2>1, <4>1 DEF Meddled
    <3> QED BY <2>2, <3>1
  <2> QED BY <2>1, <2>2, <2>3, Killing DEF Contract!Next
<1>8. CASE Kill
  <2>1. /\ pc = "grace" /\ pc' = "await" /\ context # "none" /\ UNCHANGED <<context, asked>>
        /\ result = NotRun
    BY <1>8 DEF Kill, Untouched
  <2>2. CASE Killed(Reached) /\ result' = [result EXCEPT !.terminated = TRUE]
    <3>1. Meddled'
      BY <2>2 DEF Meddled, TypeOK, Results
    <3> QED BY <2>1, <2>2, <3>1, Killing DEF Contract!Next
  <2>3. CASE result' = [result EXCEPT !.err = TRUE] /\ UNCHANGED <<running, fate>>
    <3>1. UNCHANGED <<Seen, Meddled>>
      BY <2>1, <2>3 DEF Seen, Meddled, TypeOK, Results
    <3> QED BY <2>1, <3>1, Unseen
  <2> QED BY <1>8, <2>2, <2>3 DEF Kill
<1>9. CASE Copy \/ WaitReturns \/ LosesOutput \/ Write
  BY <1>9 DEF Copy, WaitReturns, LosesOutput, Write, os, frame, Contract!vars
<1>10. ASSUME NEW p \in Procs, Ends(p) PROVE Contract!Next \/ UNCHANGED Contract!vars
  <2>1. UNCHANGED <<pc, asked, context, result>>
    BY <1>10 DEF Ends
  <2>2. CASE p = Leader
    <3>1. Seen = "runs" /\ Seen' \in {"zero", "nonzero"}
      BY <1>10, <2>2 DEF Ends, Seen
    <3>2. fate # "killed" /\ fate' # "killed"
      BY <1>10, <2>2 DEF Ends, TypeOK
    <3>3. UNCHANGED <<Meddled, Given>>
      BY <2>1, <3>2 DEF Meddled, Given
    <3> QED BY <2>1, <3>1, <3>3 DEF Contract!Next, Contract!End, Seen, Meddled, Given
  <2>3. CASE p # Leader
    BY <1>10, <2>1, <2>3 DEF Ends, Contract!vars
  <2> QED BY <2>2, <2>3
<1>11. ASSUME NEW p \in Procs, NEW c \in Children, Spawn(p, c)
       PROVE  Contract!Next \/ UNCHANGED Contract!vars
  BY <1>11, ChildrenAssumption DEF Spawn, Contract!vars
<1>12. CASE Deadline \/ Cancel
  <2>1. UNCHANGED <<Seen, Meddled, Given>> /\ Given = {}
    BY <1>12 DEF Deadline, Cancel, os, Seen, Meddled, Given
  <2> QED BY <1>12, <2>1 DEF Deadline, Cancel, Contract!Next, Contract!ContextEnds,
             Seen, Meddled, Given
<1>13. CASE UNCHANGED vars
  BY <1>13 DEF vars, os, Contract!vars
<1> QED BY RunnerActions, <1>1, <1>2, <1>3, <1>4, <1>5, <1>6, <1>7, <1>8, <1>9,
  <1>10, <1>11, <1>12, <1>13

\* Whatever of the end of a command, its timeout and an interruption comes
\* first, and whatever of the runner fails: the command is left alone until its
\* context is over, and one answer is given when it has ended, for or against
\* the release only when it ended by itself or not in time.
THEOREM RunnerKeepsItsPromise == Spec => Promise
<1>1. Init => Contract!Init
  BY DEF Init, Contract!Init, NotRun
<1>2. IInv /\ IInv' /\ [Next]_vars => [Contract!Next]_(Contract!vars)
  BY ContractStep
<1> QED BY <1>1, <1>2, RunnerInvariant, PTL DEF Spec, Promise, Contract!Spec

\* What was answered, once the command is over, stays justified.
Answered ==
  pc = "returned" => Seen # "runs" /\ \A a \in Given : Contract!Justified(a)

LEMMA AnsweredStep ==
  ASSUME IInv, IInv', Answered, [Next]_vars PROVE Answered'
<1> USE DEF Answered, Seen, Meddled, Given
<1>1. Contract!Next \/ UNCHANGED Contract!vars
  BY ContractStep
<1> SUFFICES ASSUME pc' = "returned" PROVE Answered'
  OBVIOUS
<1>2. Given' # {}
  OBVIOUS
<1>3. CASE UNCHANGED Contract!vars
  <2>1. pc = "returned"
    BY <1>2, <1>3 DEF Contract!vars
  <2> QED BY <1>3, <2>1 DEF Contract!vars, Contract!Justified
<1>4. CASE Contract!GiveAnswer
  <2>1. PICK a \in Contract!Answer : Contract!Justified(a) /\ Given' = {a}
    BY <1>4 DEF Contract!GiveAnswer
  <2> QED BY <1>4, <2>1 DEF Contract!GiveAnswer, Contract!Justified
<1>5. CASE Contract!Launch \/ Contract!Meddle \/ Contract!ContextEnds
  <2>1. Given' = {}
    BY <1>5 DEF Contract!Launch, Contract!Meddle, Contract!ContextEnds
  <2> QED BY <1>2, <2>1
<1>6. CASE Contract!End
  <2>1. Seen = "runs" /\ Given' = Given
    BY <1>6 DEF Contract!End
  <2> QED BY <1>2, <2>1
<1> QED BY <1>1, <1>3, <1>4, <1>5, <1>6 DEF Contract!Next

\* What a call may answer as an interruption.
Canceled == context = "Canceled" \/ (Bounded /\ context = "DeadlineExceeded")

\* A call answers what its callers are prepared for: a failure when the command
\* ended nonzero or out of time, an error when the runner failed, a cancellation
\* when the run was canceled or the deadline of the caller was past.
AnswerExpected ==
  pc = "returned" =>
    Given \subseteq Contract!Expected(fate = "nonzero" \/ context = "DeadlineExceeded",
                                     Faults # {}, Canceled)

THEOREM AnswersAreExpected == Spec => []AnswerExpected
<1>1. Init => Answered
  BY DEF Init, Answered
<1>2. IInv /\ IInv' /\ Answered /\ [Next]_vars => Answered'
  BY AnsweredStep
<1>3. Answered => AnswerExpected
  <2> SUFFICES ASSUME Answered, pc = "returned", NEW a \in Given
               PROVE  a \in Contract!Expected(fate = "nonzero" \/ context = "DeadlineExceeded",
                                             Faults # {}, Canceled)
    BY DEF AnswerExpected
  <2>1. Contract!Justified(a) /\ Seen # "runs"
    BY DEF Answered
  <2>2. Seen \in {"zero", "nonzero"} => Seen = fate
    BY <2>1 DEF Seen
  <2> QED BY <2>1, <2>2 DEF Contract!Justified, Contract!Expected, Seen, Canceled
<1> QED BY <1>1, <1>2, <1>3, RunnerInvariant, PTL DEF Spec

-----------------------------------------------------------------------------
(***************************************************************************)
(* The safety half of CallReturns, for any number of descendants.          *)
(***************************************************************************)

\* The steps of Run that may still come.
RunLeft ==
  CASE pc = "run" -> 6 [] pc = "launch" -> 5 [] pc = "attach" -> 4 [] pc = "select" -> 3
    [] pc = "grace" -> 2 [] pc \in {"reap", "await"} -> 1 [] OTHER -> 0

\* The steps of Run and its goroutines that may still come, whatever is written.
StepsLeft == RunLeft + (MaxOutput - copied) + (IF waited THEN 0 ELSE 1)

\* A call and its goroutines have finitely many steps, and nothing the command or
\* the clock does adds one (runner.go: Run).
CallIsBounded ==
  [][/\ StepsLeft' <= StepsLeft
     /\ Run \/ Goroutines => StepsLeft' < StepsLeft]_vars

\* The leader has the output pipe.
Held == born # {} => Leader \in holders

\* Once the command is killed or its tree is terminated, only a process out of
\* reach can keep the call waiting: else the command has ended, and the wait
\* returns as soon as the output is copied or lost (runner.go: Run).
OnlyUnreachedHold ==
  pc \in {"reap", "await"} /\ ~ Unreached =>
    /\ Leader \notin running /\ holders \intersect running = {}
    /\ lost \/ copied = produced => PipeClosed

LEMMA HeldStep == TypeOK /\ Held /\ [Next]_vars => Held'
BY RunnerActions DEF Held, TypeOK, Begin, Launch, Attach, Reap, Complete, Terminate, Kill,
   Await, Copy, WaitReturns, LosesOutput, Write, Ends, Spawn, Deadline, Cancel, Killed, Close,
   Finish,
   Return, vars, os, frame

LEMMA BoundedStep ==
  ASSUME IInv, IInv', [Next]_vars
  PROVE  /\ StepsLeft' <= StepsLeft
         /\ Run \/ Goroutines => StepsLeft' < StepsLeft
<1>0. /\ MaxOutput \in Nat /\ copied \in Nat /\ copied' \in Nat
      /\ RunLeft \in Nat /\ RunLeft' \in Nat
  BY OutputAssumption DEF IInv, TypeOK, RunLeft
<1>1. CASE Run
  <2>1. RunLeft' < RunLeft
    <3>1. CASE Begin \/ Launch
      BY <3>1 DEF Begin, Launch, Return, GivenUp, RunLeft
    <3>2. CASE Attach \/ Reap
      BY <3>2 DEF Attach, Reap, Return, GivenUp, RunLeft
    <3>3. CASE Complete \/ Await
      BY <3>3 DEF Complete, Await, Finish, Return, RunLeft
    <3>4. CASE Terminate \/ Kill
      BY <3>4 DEF Terminate, Kill, RunLeft
    <3> QED BY <1>1, <3>1, <3>2, <3>3, <3>4 DEF Run
  <2>2. UNCHANGED <<copied, waited>>
    BY <1>1 DEF Run, Begin, Launch, Attach, Reap, Complete, Terminate, Kill, Await, Finish,
       Return, frame
  <2>3. (IF waited' THEN 0 ELSE 1) = (IF waited THEN 0 ELSE 1)
    BY <2>2
  <2>4. StepsLeft' < StepsLeft
    <3>1. \A a, b, d \in Nat, c \in Int : a < b => a + c + d < b + c + d
      OBVIOUS
    <3>2. MaxOutput - copied \in Int /\ (IF waited THEN 0 ELSE 1) \in Nat
      BY <1>0
    <3>3. RunLeft' + (MaxOutput - copied) + (IF waited THEN 0 ELSE 1)
            < RunLeft + (MaxOutput - copied) + (IF waited THEN 0 ELSE 1)
      BY <1>0, <2>1, <3>1, <3>2
    <3> QED BY <2>2, <2>3, <3>3 DEF StepsLeft
  <2>5. StepsLeft \in Int /\ StepsLeft' \in Int
    BY <1>0 DEF StepsLeft
  <2>6. \A a, b \in Int : a < b => a <= b
    OBVIOUS
  <2> QED BY <2>4, <2>5, <2>6
<1>2. CASE Copy
  <2>1. copied' > copied /\ UNCHANGED <<pc, waited>>
    BY <1>0, <1>2 DEF Copy, IInv, TypeOK
  <2> QED BY <1>0, <2>1 DEF StepsLeft, RunLeft
<1>3. CASE WaitReturns
  BY <1>0, <1>3 DEF WaitReturns, StepsLeft, RunLeft, frame
<1>4. CASE ~ Run /\ ~ Goroutines
  <2>1. UNCHANGED <<pc, copied, waited>>
    BY <1>4 DEF Next, LosesOutput, Command, Write, Ends, Spawn, Deadline, Cancel, Done, vars, frame
  <2> QED BY <1>0, <1>4, <2>1 DEF StepsLeft, RunLeft
<1> QED BY <1>1, <1>2, <1>3, <1>4 DEF Goroutines

\* Every call is at most MaxOutput + 7 steps of the runner away from its end.
THEOREM CallIsBoundedHolds == Spec => CallIsBounded
<1>1. IInv /\ IInv' /\ [Next]_vars =>
        [/\ StepsLeft' <= StepsLeft
         /\ Run \/ Goroutines => StepsLeft' < StepsLeft]_vars
  BY BoundedStep
<1> QED BY <1>1, RunnerInvariant, PTL DEF Spec, CallIsBounded

\* With CallIsBounded this is what is left to fairness in CallReturns.
THEOREM OnlyUnreachedHoldHolds == Spec => []OnlyUnreachedHold
<1>1. Init => Held
  BY DEF Init, Held
<1>2. IInv /\ Held => OnlyUnreachedHold
  BY DEF IInv, TypeOK, Held, OnlyUnreachedHold, Unreached, Launched, Untouched, PipeClosed
<1>3. IInv /\ Held /\ [Next]_vars => Held'
  BY HeldStep DEF IInv
<1> QED BY <1>1, <1>2, <1>3, RunnerInvariant, PTL DEF Spec
=============================================================================
