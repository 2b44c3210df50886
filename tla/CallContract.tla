---------------------------- MODULE CallContract ----------------------------
(***************************************************************************)
(* What one call of Runner.Run promises: the command is launched at most   *)
(* once and is left alone until its context is over, unless it cannot be   *)
(* supervised; the call answers once, when the command has ended, and      *)
(* counts for or against it only what it did by itself or did not do in    *)
(* time.                                                                   *)
(***************************************************************************)
EXTENDS CallAnswers

CONSTANTS
  Bounded,  \* whether the context of the caller has a deadline of its own
  Faults    \* what may fail of the runner's own

VARIABLES
  command,  \* "none" before the launch, "runs", or how it ended
  meddled,  \* the runner has signalled or killed it, or its descendants
  context,  \* how the context of the call ended
  answer    \* the answer, if there is one

vars == <<command, meddled, context, answer>>

Init == command = "none" /\ meddled = FALSE /\ context = "none" /\ answer = {}

Launch ==
  /\ command = "none" /\ command' = "runs"
  /\ answer = {} /\ UNCHANGED <<meddled, context, answer>>

\* By itself, or after a signal it may have ignored.
End ==
  /\ command = "runs" /\ command' \in {"zero", "nonzero"}
  /\ UNCHANGED <<meddled, context, answer>>

Meddle ==
  /\ answer = {} /\ command # "none"
  /\ context # "none" \/ Faults # {}
  /\ meddled' = TRUE
  /\ command' \in {command} \union {c \in {"killed"} : command = "runs"}
  /\ UNCHANGED <<context, answer>>

ContextEnds ==
  /\ answer = {} /\ context = "none"
  /\ context' \in {"DeadlineExceeded", "Canceled"}
  /\ UNCHANGED <<command, meddled, answer>>

\* What a command that ended this way may be answered with.
Justified(a) ==
  /\ a \in Answer /\ (a.launched <=> command # "none")
  /\ a.reading = "pass" => command = "zero" /\ ~ meddled
  /\ a.reading = "fail" =>
       (command = "nonzero" /\ ~ meddled) \/ (command # "none" /\ context = "DeadlineExceeded")
  /\ a.reading = "error" => Faults # {}
  /\ a.reading = "canceled" =>
       context = "Canceled" \/ (Bounded /\ context = "DeadlineExceeded" /\ ~ a.launched)

GiveAnswer ==
  /\ answer = {} /\ command # "runs"
  /\ \E a \in Answer : Justified(a) /\ answer' = {a}
  /\ UNCHANGED <<command, meddled, context>>

Next == Launch \/ End \/ Meddle \/ ContextEnds \/ GiveAnswer

Spec == Init /\ [][Next]_vars
=============================================================================
