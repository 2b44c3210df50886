--------------------------- MODULE VerdictContract ---------------------------
(***************************************************************************)
(* What a pipeline that runs a verification may count on: each of the two  *)
(* verdicts is decided at most once, the rollback verdict last, and one    *)
(* exit code says what was decided.  10 is a failure and nothing else is;  *)
(* 0 is two passes.                                                        *)
(***************************************************************************)
CONSTANT NoExit  \* the command has not ended

VARIABLES
  mixed, rollback,  \* the verdicts
  exit              \* the exit code of the command

vars == <<mixed, rollback, exit>>

Undecided == "INCONCLUSIVE"

Init == mixed = Undecided /\ rollback = Undecided /\ exit = NoExit

\* Releases that cannot run side by side are found before the older one is
\* stopped for good.
DecideMixed ==
  /\ exit = NoExit /\ mixed = Undecided /\ rollback = Undecided
  /\ mixed' \in {"PASS", "FAIL"}
  /\ UNCHANGED <<rollback, exit>>

DecideRollback ==
  /\ exit = NoExit /\ rollback = Undecided
  /\ rollback' \in {"PASS", "FAIL"}
  /\ UNCHANGED <<mixed, exit>>

\* A failure decides the code, whatever else went wrong; an error may hide that
\* a verdict is undecided, and that both passed.
Return ==
  /\ exit = NoExit
  /\ exit' \in {0, 10, 20, 23, 24, 25}
  /\ exit' = 10 <=> "FAIL" \in {mixed, rollback}
  /\ exit' = 0 => mixed = "PASS" /\ rollback = "PASS"
  /\ exit' = 20 => Undecided \in {mixed, rollback}
  /\ UNCHANGED <<mixed, rollback>>

Next == DecideMixed \/ DecideRollback \/ Return

Spec == Init /\ [][Next]_vars
=============================================================================
