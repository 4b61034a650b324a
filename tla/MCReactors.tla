----------------------------- MODULE MCReactors -----------------------------
(* Two reactors over a plan with a join: a and b first, then c. *)
EXTENDS ManagedExecution

MCStep == {"a", "b", "c"}
MCParents == [s \in MCStep |-> IF s = "c" THEN {"a", "b"} ELSE {}]
MCTakes == [c \in Reactor |-> MCStep]
MCOutcomes == [s \in MCStep |-> IF s = "a" THEN {"Completed", "Transient", "UserCode"} ELSE {"Completed"}]
MCCompletes == [s \in MCStep |-> {"Completed"}]
MCDeadline == [s \in MCStep |-> NoClock]
MCOnTimeout == [s \in MCStep |-> "Fail"]
=============================================================================
