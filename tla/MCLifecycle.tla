---------------------------- MODULE MCLifecycle -----------------------------
(* Small instances of Lifecycle for TLC. *)
EXTENDS LifecycleInvariant

\* One scenario in each stage but the one named.
OneEach == [s \in ScenarioStages |-> 1]
TwoTraffic == [OneEach EXCEPT !["CANDIDATE_TRAFFIC"] = 2]

OneHookEach == [s \in HookStages |-> 1]
NoHooks == [s \in HookStages |-> 0]

FirstMutates == {1}
SecondMutates == {2}

\* Everything that can go wrong but the artifact directory, which doubles the
\* states at every event and has a run of its own.
WorldFaults == FaultKinds \ {"artifacts"}
ArtifactFaults == {"signal", "command", "artifacts", "panic"}
OnlySignal == {"signal"}
OnlyCommands == {"command"}
=============================================================================
