--------------------------- MODULE WorkflowStream ---------------------------
(***************************************************************************)
(* How a decision becomes durable and then public.                         *)
(*                                                                         *)
(*   crates/aiwatcher-execution/src/handler.rs       decide_and_append     *)
(*   crates/aiwatcher-execution/src/store/memory.rs  append                *)
(*   crates/aiwatcher-execution/src/store/postgres   append, pending_outbox*)
(*   crates/aiwatcher-execution/src/outbox.rs        publish_pending       *)
(*   crates/aiwatcher-server/src/execution/mod.rs    drain_outbox          *)
(*                                                                         *)
(* Any number of API replicas, reactors and timers call the handler for    *)
(* one execution at once, with messages that may be redelivered.  Each     *)
(* loads the stream, decides on what it loaded and appends; the store      *)
(* accepts the append only at the version it was decided on.  Publishers   *)
(* drain the outbox the appends fill: read a batch, send it, mark it.      *)
(*                                                                         *)
(* What a decision says is ManagedExecution's business; here a decision is *)
(* the message it answers, the version it was made on and a number of      *)
(* facts.                                                                  *)
(***************************************************************************)
EXTENDS Naturals, Sequences, FiniteSets

CONSTANTS
    Message,       \* the inputs of one execution, by message_id
    FactCount,     \* how many facts the decision on each one publishes
    Handler,       \* concurrent calls of decide_and_append
    MaxRetries,    \* MAX_CONFLICT_RETRIES
    Publisher,     \* the processes that run drain_outbox
    Batch,         \* BATCH
    Undecodable,   \* facts whose row the publishing build cannot decode
    PendingOrder,  \* "insertion" (memory, file) or "stamp" (postgres)
    Stamp,         \* metadata.occurred_at of each message
    Rank,          \* the order of the derived event ids
    MaxFaults,     \* BOUND: how often a publisher dies or its sink refuses
    None

FactsOf(m) == {<<m, i>> : i \in 1..FactCount[m]}
Fact == UNION {FactsOf(m) : m \in Message}

ASSUME StreamAssumption ==
    /\ FactCount \in [Message -> Nat]
    /\ MaxRetries \in Nat
    /\ Batch \in Nat
    /\ MaxFaults \in Nat
    /\ PendingOrder \in {"insertion", "stamp"}
    /\ Stamp \in [Message -> Nat]
    /\ Rank \in [Fact -> Nat]
    /\ None \notin Message

VARIABLES
    stream,    \* the decisions, in order: which message, on which version
    outbox,    \* committed facts no publisher has marked
    log,       \* the event log, as the sink took it
    call,      \* where each handler is
    drain,     \* where each publisher is
    faults

vars == <<stream, outbox, log, call, drain, faults>>

Decision == [id : Message, on : Nat]

\* `tries` is the loop variable of decide_and_append.
Call == [at : {"idle", "loading", "deciding"}, msg : Message \cup {None},
         version : Nat, tries : 0..MaxRetries]

Drain == [at : {"idle", "read", "sent"}, batch : Seq(Fact)]

NoCall == [at |-> "idle", msg |-> None, version |-> 0, tries |-> 0]

NoDrain == [at |-> "idle", batch |-> <<>>]

Elements(s) == {s[i] : i \in DOMAIN s}

Seen == {stream[i].id : i \in DOMAIN stream}

\* The facts of every committed decision.
Committed == UNION {FactsOf(m) : m \in Seen}

\* The type of the state; the bound on `tries` is the retry loop's: no call is
\* decided more often than MAX_CONFLICT_RETRIES allows (handler.rs).
TypeOK ==
    /\ stream \in Seq(Decision)
    /\ outbox \subseteq Fact
    /\ log \in Seq(Fact)
    /\ call \in [Handler -> Call]
    /\ \A h \in Handler : call[h].at # "idle" => call[h].msg \in Message
    /\ drain \in [Publisher -> Drain]
    /\ faults \in 0..MaxFaults

Init ==
    /\ stream = <<>>
    /\ outbox = {}
    /\ log = <<>>
    /\ call = [h \in Handler |-> NoCall]
    /\ drain = [p \in Publisher |-> NoDrain]
    /\ faults = 0

-----------------------------------------------------------------------------
(* decide_and_append *)

\* Somebody delivers a message, for the first time or again.
Deliver(h, m) ==
    /\ call[h].at = "idle"
    /\ call' = [call EXCEPT ![h] =
                    [at |-> "loading", msg |-> m, version |-> 0, tries |-> 0]]
    /\ UNCHANGED <<stream, outbox, log, drain, faults>>

\* Mutant: the handler publishes what it is about to decide.
LoadPublishes(h) ==
    /\ call[h].at = "loading"
    /\ call' = [call EXCEPT ![h].at = "deciding", ![h].version = Len(stream)]
    /\ outbox' = outbox \cup FactsOf(call[h].msg)
    /\ UNCHANGED <<stream, log, drain, faults>>

\* store.load, and the inbox before the decision: a redelivery ends here.
Load(h) ==
    /\ call[h].at = "loading"
    /\ call' = IF call[h].msg \in Seen
               THEN [call EXCEPT ![h] = NoCall]
               ELSE [call EXCEPT ![h].at = "deciding", ![h].version = Len(stream)]
    /\ UNCHANGED <<stream, outbox, log, drain, faults>>

\* decide refuses the message in the state it loaded, or the caller is gone.
Abandon(h) ==
    /\ call[h].at = "deciding"
    /\ call' = [call EXCEPT ![h] = NoCall]
    /\ UNCHANGED <<stream, outbox, log, drain, faults>>

\* append: the inbox, again and under the lock, before the version.
AppendDuplicate(h) ==
    /\ call[h].at = "deciding"
    /\ call[h].msg \in Seen
    /\ call' = [call EXCEPT ![h] = NoCall]
    /\ UNCHANGED <<stream, outbox, log, drain, faults>>

\* append: VersionConflict, and the loop reads and decides again.
AppendConflict(h) ==
    /\ call[h].at = "deciding"
    /\ call[h].msg \notin Seen
    /\ call[h].version # Len(stream)
    /\ call[h].tries < MaxRetries
    /\ call' = [call EXCEPT ![h].at = "loading", ![h].tries = call[h].tries + 1]
    /\ UNCHANGED <<stream, outbox, log, drain, faults>>

\* append: VersionConflict on the last pass is HandleError::Contended.
AppendContended(h) ==
    /\ call[h].at = "deciding"
    /\ call[h].msg \notin Seen
    /\ call[h].version # Len(stream)
    /\ call[h].tries = MaxRetries
    /\ call' = [call EXCEPT ![h] = NoCall]
    /\ UNCHANGED <<stream, outbox, log, drain, faults>>

\* Mutant: ExpectedVersion::Any.
AppendCommitsAnywhere(h) ==
    /\ call[h].at = "deciding"
    /\ call[h].msg \notin Seen
    /\ stream' = Append(stream, [id |-> call[h].msg, on |-> call[h].version])
    /\ outbox' = outbox \cup FactsOf(call[h].msg)
    /\ call' = [call EXCEPT ![h] = NoCall]
    /\ UNCHANGED <<log, drain, faults>>

\* append: the input, the decision, its rows and its facts in one transaction.
AppendCommits(h) ==
    /\ call[h].at = "deciding"
    /\ call[h].msg \notin Seen
    /\ call[h].version = Len(stream)
    /\ stream' = Append(stream, [id |-> call[h].msg, on |-> call[h].version])
    /\ outbox' = outbox \cup FactsOf(call[h].msg)
    /\ call' = [call EXCEPT ![h] = NoCall]
    /\ UNCHANGED <<log, drain, faults>>

-----------------------------------------------------------------------------
(* publish_pending *)

\* Whether f was written before g: by the decision it belongs to, and its
\* place in that decision.
WrittenBefore(f, g) ==
    \/ f[1] = g[1] /\ f[2] < g[2]
    \/ \E i, j \in DOMAIN stream :
          i < j /\ stream[i].id = f[1] /\ stream[j].id = g[1]

\* Mutant: every store orders by the caller's clock.
OlderByStamp(f, g) ==
    \/ Stamp[f[1]] < Stamp[g[1]]
    \/ Stamp[f[1]] = Stamp[g[1]] /\ Rank[f] < Rank[g]

\* The order pending_outbox reads rows in.  Memory and file keep the order the
\* rows were written in; postgres orders by available_at, which is the caller's
\* occurred_at, and then by the derived id.
Older(f, g) ==
    IF PendingOrder = "insertion" THEN WrittenBefore(f, g)
    ELSE \/ Stamp[f[1]] < Stamp[g[1]]
         \/ Stamp[f[1]] = Stamp[g[1]] /\ Rank[f] < Rank[g]

\* pending_outbox(BATCH): the first Batch rows of that order.
IsPending(rows) ==
    /\ rows \subseteq outbox
    /\ \A f \in rows, g \in outbox \ rows : Older(f, g)
    /\ Cardinality(rows) <= Batch
    /\ Cardinality(rows) = Batch \/ rows = outbox

\* The envelopes of those rows, in order, without the ones that do not decode.
IsBatch(b, rows) ==
    /\ Elements(b) = rows \ Undecodable
    /\ \A i, j \in DOMAIN b : i < j => Older(b[i], b[j])

\* Mutants: rows are marked when they are read; one row that does not decode
\* fails the pass.
ReadMarks(p) ==
    /\ drain[p].at = "idle"
    /\ \E rows \in SUBSET outbox :
        /\ IsPending(rows)
        /\ \E n \in 1..Batch : \E b \in [1..n -> rows \ Undecodable] :
            /\ IsBatch(b, rows)
            /\ drain' = [drain EXCEPT ![p] = [at |-> "read", batch |-> b]]
        /\ outbox' = outbox \ rows
    /\ UNCHANGED <<stream, log, call, faults>>

ReadAllOrNothing(p) ==
    /\ drain[p].at = "idle"
    /\ \E rows \in SUBSET outbox :
        /\ IsPending(rows)
        /\ rows \cap Undecodable = {}
        /\ \E n \in 1..Batch : \E b \in [1..n -> rows] :
            /\ IsBatch(b, rows)
            /\ drain' = [drain EXCEPT ![p] = [at |-> "read", batch |-> b]]
    /\ UNCHANGED <<stream, outbox, log, call, faults>>

Read(p) ==
    /\ drain[p].at = "idle"
    /\ \E rows \in SUBSET outbox :
        /\ IsPending(rows)
        /\ \E n \in 1..Batch : \E b \in [1..n -> rows \ Undecodable] :
            /\ IsBatch(b, rows)
            /\ drain' = [drain EXCEPT ![p] = [at |-> "read", batch |-> b]]
    /\ UNCHANGED <<stream, outbox, log, call, faults>>

Send(p) ==
    /\ drain[p].at = "read"
    /\ log' = log \o drain[p].batch
    /\ drain' = [drain EXCEPT ![p].at = "sent"]
    /\ UNCHANGED <<stream, outbox, call, faults>>

\* mark_published: only now, and the rows are deleted.
Mark(p) ==
    /\ drain[p].at = "sent"
    /\ outbox' = outbox \ Elements(drain[p].batch)
    /\ drain' = [drain EXCEPT ![p] = NoDrain]
    /\ UNCHANGED <<stream, log, call, faults>>

\* The sink refuses the batch, or the process dies before or after the send.
Falter(p) ==
    /\ drain[p].at # "idle"
    /\ faults < MaxFaults
    /\ faults' = faults + 1
    /\ drain' = [drain EXCEPT ![p] = NoDrain]
    /\ UNCHANGED <<stream, outbox, log, call>>

-----------------------------------------------------------------------------
Handle(h) ==
    \/ \E m \in Message : Deliver(h, m)
    \/ Load(h) \/ Abandon(h)
    \/ AppendDuplicate(h) \/ AppendConflict(h) \/ AppendContended(h) \/ AppendCommits(h)

Publish(p) == Read(p) \/ Send(p) \/ Mark(p)

Next ==
    \/ \E h \in Handler : Handle(h)
    \/ \E p \in Publisher : Publish(p) \/ Falter(p)

Spec == Init /\ [][Next]_vars

\* drain_outbox runs in a loop for as long as its server does.
FairSpec == Spec /\ \A p \in Publisher : WF_vars(Publish(p))

-----------------------------------------------------------------------------
(* Properties *)

\* No decision is made on a state another one has moved past: each was made
\* on exactly the stream it was appended to, whatever raced it (handler.rs,
\* ExpectedVersion).
NoStaleDecision == \A i \in DOMAIN stream : stream[i].on = i - 1

\* No fact is lost: what a committed decision said is pending or on the log,
\* across every crash of a publisher and every batch it half sent (outbox.rs,
\* "losing one is not").
NoFactLost == Committed \subseteq outbox \cup Elements(log)

\* The log tells the decisions in the order they were made: before a fact
\* appears, everything written before it has, re-sent or not (facts.rs, "the
\* ordering that matters is preserved"; store/mod.rs, "oldest first").
LogInOrder ==
    \A j \in DOMAIN log : \A f \in Committed \ Undecodable :
        WrittenBefore(f, log[j]) => \E i \in 1..(j - 1) : log[i] = f

DL == INSTANCE DecisionLog WITH
        decided   <- [i \in DOMAIN stream |-> stream[i].id],
        published <- Elements(log)

\* The stream and the log implement DecisionLog: one decision per message, in
\* one order, and a fact is public only once its decision has committed.
ImplementsDecisionLog == DL!Spec

\* Every fact a publisher can decode reaches the log, although a row it cannot
\* decode takes a place in every batch (outbox.rs, publish_pending).
AllPublished ==
    \A f \in Fact \ Undecodable : f \in Committed ~> f \in Elements(log)
=============================================================================
