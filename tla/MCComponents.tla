---------------------------- MODULE MCComponents ----------------------------
(* Three components of different readiness, the last without a port. *)
EXTENDS Components

MCReadiness == <<"http", "docker-health", "command">>

MCTwo == <<"http", "docker-health">>

MCPorts == {1, 2}

MCFaultSets == {{f} : f \in FaultKinds} \union {FaultKinds}
=============================================================================
