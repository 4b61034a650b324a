------------------------------- MODULE MCPods -------------------------------
(* A ContainerJob step, one pod per attempt, and a reactor's step after it. *)
EXTENDS ManagedExecution

MCStep == {"pod", "tail"}
MCParents == [s \in MCStep |-> IF s = "tail" THEN {"pod"} ELSE {}]
MCTakes == [c \in Reactor |-> {"tail"}]
MCOutcomes == [s \in MCStep |-> IF s = "pod" THEN {"Completed", "UserCode"} ELSE {"Completed"}]
MCDeadline == [s \in MCStep |-> NoClock]
MCOnTimeout == [s \in MCStep |-> "Fail"]
MCClaimant == Reactor \cup Worker \cup Pod
=============================================================================
