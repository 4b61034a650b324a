---------------------------- MODULE MCQuestions -----------------------------
(* A gate beside a worker's task that may stop to ask, and a reactor's step after both. *)
EXTENDS ManagedExecution

MCStep == {"gate", "task", "after"}
MCParents == [s \in MCStep |-> IF s = "after" THEN {"gate", "task"} ELSE {}]
MCTakes == [c \in Reactor \cup Worker |-> IF c \in Worker THEN {"task"} ELSE {"after"}]
MCOutcomes == [s \in MCStep |-> IF s = "task" THEN {"Completed", "Ask", "Timeout"}
                                ELSE {"Completed"}]
MCDeadline == [s \in MCStep |-> 1]
MCOnTimeout == [s \in MCStep |-> IF s = "gate" THEN "Fail" ELSE "Answer"]
=============================================================================
