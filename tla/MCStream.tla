------------------------------ MODULE MCStream ------------------------------
(* Two callers and two publishers over one execution's stream. *)
EXTENDS WorkflowStream

MCOneEach == [m \in Message |-> 1]
MCUndecodable == {<<"pause", 1>>}
MCStamp == [m \in Message |-> IF m = "start" THEN 1 ELSE 0]
MCRank == [f \in Fact |-> 2 - f[2]]
=============================================================================
