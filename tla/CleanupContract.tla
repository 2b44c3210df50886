--------------------------- MODULE CleanupContract ---------------------------
(***************************************************************************)
(* What a run promises about the resources it owns when it is over: a      *)
(* cleanup that passed left none of them, one that failed names all that   *)
(* are left, and a run that keeps its resources touched none and names     *)
(* them.  A cleanup fails only for trouble of its own, or after a panic;   *)
(* what the calls of the run met does not make it fail.                    *)
(***************************************************************************)
CONSTANT Resources  \* what a run can own

VARIABLES
  mode,      \* "run", "clean" or "over"
  left,      \* the owned resources that exist
  named,     \* what the remaining list of the result names
  status,    \* CleanupResult.Status
  troubled   \* the run has panicked, or something of its cleanup has failed

vars == <<mode, left, named, status, troubled>>

Init ==
  /\ mode = "run"
  /\ left \subseteq Resources
  /\ named = {} /\ status = "none" /\ troubled = FALSE

Worsens == troubled => troubled'

\* The run creates and removes resources of its own.
Work ==
  /\ mode = "run" /\ mode' = "run"
  /\ left' \subseteq Resources
  /\ Worsens
  /\ UNCHANGED <<named, status>>

\* The run is over and its resources are not kept.
Start ==
  /\ mode = "run" /\ mode' = "clean"
  /\ UNCHANGED <<left, named, status, troubled>>

\* The run is over and its resources are kept.
Keep ==
  /\ mode = "run" /\ mode' = "over"
  /\ left \subseteq named' /\ named' \subseteq Resources
  /\ status' = "SKIPPED"
  /\ UNCHANGED <<left, troubled>>

\* Cleanup only removes.
Remove ==
  /\ mode = "clean" /\ mode' = "clean"
  /\ left' \subseteq left
  /\ Worsens
  /\ UNCHANGED <<named, status>>

\* What a cleanup that met this trouble may end with.
MayEnd(verdict, rest, trouble) ==
  /\ rest \subseteq left
  /\ verdict \in {"PASS", "ERROR"}
  /\ verdict = "PASS" => rest = {}
  /\ verdict = "ERROR" => trouble

Conclude ==
  /\ mode = "clean" /\ mode' = "over"
  /\ MayEnd(status', left', troubled')
  /\ left' \subseteq named' /\ named' \subseteq Resources
  /\ Worsens

Next == Work \/ Start \/ Keep \/ Remove \/ Conclude

Spec == Init /\ [][Next]_vars
=============================================================================
