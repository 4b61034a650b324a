----------------------------- MODULE DecisionLog -----------------------------
(***************************************************************************)
(* What one execution's stream promises to everybody who never sees it:    *)
(* each message is decided at most once, decisions are in one order for    *)
(* good, and the facts on the event log are the facts of committed         *)
(* decisions and nothing else (ADR_0026, the one strict ordering).         *)
(* WorkflowStream implements this with racing callers, conflicts, retries, *)
(* an outbox and publishers that crash.                                    *)
(***************************************************************************)
EXTENDS Naturals, Sequences

CONSTANTS
    Message,      \* the inputs of one execution, by message_id
    FactCount     \* how many facts the decision on each one publishes

VARIABLES
    decided,      \* the messages decided on, in order
    published     \* the facts on the event log

vars == <<decided, published>>

FactsOf(m) == {<<m, i>> : i \in 1..FactCount[m]}

Decided == {decided[i] : i \in DOMAIN decided}

Init ==
    /\ decided = <<>>
    /\ published = {}

Decide(m) ==
    /\ m \notin Decided
    /\ decided' = Append(decided, m)
    /\ UNCHANGED published

Publish(facts) ==
    /\ facts \subseteq UNION {FactsOf(m) : m \in Decided}
    /\ published' = published \cup facts
    /\ UNCHANGED decided

Next ==
    \/ \E m \in Message : Decide(m)
    \/ \E facts \in SUBSET UNION {FactsOf(m) : m \in Decided} : Publish(facts)

Spec == Init /\ [][Next]_vars
=============================================================================
