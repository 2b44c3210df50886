--------------------------- MODULE SharedContract ---------------------------
(***************************************************************************)
(* What the orchestrator of each run may count on of its shared            *)
(* environment, whatever the other runs on the host do: the module         *)
(* Lifecycle takes it for something that one call starts, that only a      *)
(* fault keeps from starting or takes away, and that cleanup ends.         *)
(***************************************************************************)
CONSTANT Runs

VARIABLES
  faults,    \* the kinds of faults the runs meet
  passable,  \* every health check of the file can pass
  apart,     \* the file writes out no name that Compose would give
  canceled,  \* the interrupted runs
  phase,     \* run |-> how far its shared environment is
  present    \* the runs of which Docker has something

vars == <<faults, passable, apart, canceled, phase, present>>

Init ==
  /\ phase \in [Runs -> {"idle", "over"}]
  /\ canceled = {} /\ present = {}

Move(r, from, to) == phase[r] = from /\ phase' = [phase EXCEPT ![r] = to]

\* The policy refuses a file or lets it start.
Begin(r) ==
  /\ \E to \in {"starting", "over"} : Move(r, "idle", to)
  /\ UNCHANGED <<canceled, present>>

\* Something of a run comes to be only while it starts.
Make(r) ==
  /\ phase[r] = "starting" /\ r \notin canceled
  /\ present' = present \union {r}
  /\ UNCHANGED <<canceled, phase>>

Interrupt(r) ==
  /\ "signal" \in faults /\ phase[r] = "starting"
  /\ canceled' = canceled \union {r}
  /\ UNCHANGED <<phase, present>>

MayFail(r) ==
  \/ r \in canceled \/ faults \intersect {"docker", "write", "exit", "slow"} # {}
  \/ ~ passable \/ ~ apart

\* An interrupted start is never ready, and no other run makes it fail.
Return(r) ==
  /\ \/ Move(r, "starting", "ready") /\ r \notin canceled
     \/ Move(r, "starting", "failed") /\ MayFail(r)
  /\ UNCHANGED <<canceled, present>>

\* What has started is cleaned up; only of a failed start there may be nothing.
BeginCleanup(r) ==
  /\ \/ \E from \in {"ready", "failed"} : Move(r, from, "cleanup")
     \/ Move(r, "failed", "over") /\ r \notin present
  /\ UNCHANGED <<canceled, present>>

\* A cleanup takes away what is its run's own.
Remove(r) ==
  /\ phase[r] = "cleanup"
  /\ present' \subseteq present
  /\ apart => present \ present' \subseteq {r}
  /\ UNCHANGED <<canceled, phase>>

\* It is right about what it finds.
Conclude(r) ==
  /\ \/ Move(r, "cleanup", "gone") /\ r \notin present
     \/ /\ Move(r, "cleanup", "left")
        /\ r \in present \/ faults \intersect {"docker", "late"} # {}
  /\ UNCHANGED <<canceled, present>>

Next ==
  /\ \E r \in Runs :
       \/ Begin(r) \/ Make(r) \/ Interrupt(r) \/ Return(r)
       \/ BeginCleanup(r) \/ Remove(r) \/ Conclude(r)
  /\ UNCHANGED <<faults, passable, apart>>

Spec == Init /\ [][Next]_vars
=============================================================================
