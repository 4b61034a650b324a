---------------------------- MODULE StoreJournal ----------------------------
(***************************************************************************)
(* The file store (aiwatcher-execution/src/store/file.rs): one decision is *)
(* journalled whole and then applied to the files derived from it, one     *)
(* write at a time.  A crash, or a write that fails, may come between any  *)
(* two; `recover` finishes the record at `open` and before every `append`. *)
(*                                                                         *)
(* One execution.  Decision d is the d-th its callers make: its input and  *)
(* its outputs are lines of the stream, and it dispatches, parks and       *)
(* retires attempt rows and sets or clears timers by key.                  *)
(***************************************************************************)
EXTENDS Naturals, Sequences, FiniteSets, SequencesExt

CONSTANTS
  Commit,      \* Commit[d]: the PendingCommit of decision d
  RowKeys,     \* keys of attempt rows and timers
  MaxBreaks    \* crashes and failed writes of one behaviour

Decided == DOMAIN Commit
NoCommit == 0
ASSUME CommitAssumption ==
  /\ Commit \in Seq([lines : Nat \ {0}, dispatch : SUBSET RowKeys, park : SUBSET RowKeys,
                     retire : SUBSET RowKeys, schedule : SUBSET RowKeys, clear : SUBSET RowKeys])
  /\ MaxBreaks \in Nat

VARIABLES
  open,        \* the process holds the lock
  lines,       \* the complete lines of the stream: <<decision, n>>
  torn,        \* the stream ends in half a line
  owned,       \* the ownership record exists
  projected,   \* the decision the projection describes
  outbox,      \* facts not yet marked published
  rows,        \* the attempt rows
  timerRows,   \* the timers
  checkpointed,\* the decision the checkpoint file was written by
  journal,     \* the record under commits/, or NoCommit
  gate,        \* "free", or what the holder of the gate does next
  call,        \* the append that holds the gate: its decision, NoCommit at open
  own,         \* apply runs for that append, and not for recover
  answered,    \* decisions append has answered Appended or Duplicate
  sent,        \* facts the publisher has put on the log
  breaks
journalVars == <<open, lines, torn, owned, projected, outbox, rows, timerRows, checkpointed,
                 journal, gate, call, own, answered, sent, breaks>>

JournalInit ==
  /\ open = FALSE /\ lines = <<>> /\ torn = FALSE /\ owned = FALSE
  /\ projected = NoCommit /\ outbox = {} /\ rows = [k \in RowKeys |-> "none"]
  /\ timerRows = {} /\ checkpointed = NoCommit /\ journal = NoCommit
  /\ gate = "free" /\ call = NoCommit /\ own = FALSE
  /\ answered = {} /\ sent = {} /\ breaks = 0

-----------------------------------------------------------------------------
(* What one decision writes.                                               *)

LinesOf(d) == [n \in 1..Commit[d].lines |-> <<d, n>>]

\* The decisions whose input read_stream finds.
InStream == {d \in Decided : <<d, 1>> \in ToSet(lines)}

\* A re-run dispatch inserts the row the decision wrote, whatever happened to it
\* since; parking a row that is not there does nothing.  A decision names a key once.
WriteRows(table, d) ==
  [k \in RowKeys |->
     IF k \in Commit[d].retire THEN "none"
     ELSE IF k \in Commit[d].dispatch THEN "pending"
     ELSE IF k \in Commit[d].park /\ table[k] # "none" THEN "parked"
     ELSE table[k]]

WriteTimers(table, d) == (table \cup Commit[d].schedule) \ Commit[d].clear

-----------------------------------------------------------------------------
(* append, and what it answers.                                            *)

Holding(step) == open /\ gate = step

\* The handler decides on what it loaded: decision d follows the one before it,
\* and a message is redelivered at any time.  An append on a version that has
\* moved is refused and writes nothing.
BeginAppend(d) ==
  /\ open /\ gate = "free"
  /\ d > 1 => d - 1 \in InStream
  /\ gate' = "recover" /\ call' = d
  /\ UNCHANGED <<open, lines, torn, owned, projected, outbox, rows, timerRows, checkpointed,
                 journal, own, answered, sent, breaks>>

Release == gate' = "free" /\ call' = NoCommit /\ own' = FALSE

\* recover found a record: apply it before anything is read.
Recover ==
  /\ Holding("recover") /\ journal # NoCommit
  /\ gate' = "owner"
  /\ UNCHANGED <<open, lines, torn, owned, projected, outbox, rows, timerRows, checkpointed,
                 journal, call, own, answered, sent, breaks>>

\* The inbox asked first: the duplicate is answered over a record left pending.
RecoveredAfterTheInbox ==
  /\ Holding("recover")
  /\ \/ call = NoCommit /\ journal = NoCommit /\ Release /\ UNCHANGED <<journal, answered>>
     \/ call \in InStream /\ answered' = answered \cup {call} /\ Release /\ UNCHANGED journal
     \/ /\ call \in Decided \ InStream /\ journal = NoCommit
        /\ journal' = call /\ own' = TRUE /\ gate' = "owner"
        /\ UNCHANGED <<call, answered>>
  /\ UNCHANGED <<open, lines, torn, owned, projected, outbox, rows, timerRows, checkpointed,
                 sent, breaks>>

\* Nothing is pending: open is done, and append answers a duplicate or writes
\* its record, which is the commit point.
Recovered ==
  /\ Holding("recover") /\ journal = NoCommit
  /\ \/ call = NoCommit /\ Release /\ UNCHANGED <<journal, answered>>
     \/ call \in InStream /\ answered' = answered \cup {call} /\ Release /\ UNCHANGED journal
     \/ /\ call \in Decided \ InStream
        /\ journal' = call /\ own' = TRUE /\ gate' = "owner"
        /\ UNCHANGED <<call, answered>>
  /\ UNCHANGED <<open, lines, torn, owned, projected, outbox, rows, timerRows, checkpointed,
                 sent, breaks>>

-----------------------------------------------------------------------------
(* apply: every file in its order, then the record is removed.             *)

Then(step) == gate' = step /\ UNCHANGED <<open, call, own, answered, sent, breaks>>

ApplyOwner ==
  /\ Holding("owner")
  /\ owned' = TRUE
  /\ Then("stream")
  /\ UNCHANGED <<lines, torn, projected, outbox, rows, timerRows, checkpointed, journal>>

\* Nothing is appended when the first record is there; otherwise the torn tail
\* is cut and every line is written behind it.
ApplyStream ==
  /\ Holding("stream")
  /\ IF journal \in InStream
     THEN UNCHANGED <<lines, torn>>
     ELSE lines' = lines \o LinesOf(journal) /\ torn' = FALSE
  /\ Then("projection")
  /\ UNCHANGED <<owned, projected, outbox, rows, timerRows, checkpointed, journal>>

ApplyProjection ==
  /\ Holding("projection")
  /\ projected' = journal
  /\ Then("outbox")
  /\ UNCHANGED <<lines, torn, owned, outbox, rows, timerRows, checkpointed, journal>>

ApplyOutbox ==
  /\ Holding("outbox")
  /\ outbox' = outbox \cup {journal}
  /\ Then("timers")
  /\ UNCHANGED <<lines, torn, owned, projected, rows, timerRows, checkpointed, journal>>

ApplyTimers ==
  /\ Holding("timers")
  /\ timerRows' = WriteTimers(timerRows, journal)
  /\ Then("attempts")
  /\ UNCHANGED <<lines, torn, owned, projected, outbox, rows, checkpointed, journal>>

\* Rows written by the first run of apply only.
ApplyAttemptsOnce ==
  /\ Holding("attempts")
  /\ rows' = IF own THEN WriteRows(rows, journal) ELSE rows
  /\ Then("checkpoint")
  /\ UNCHANGED <<lines, torn, owned, projected, outbox, timerRows, checkpointed, journal>>

ApplyAttempts ==
  /\ Holding("attempts")
  /\ rows' = WriteRows(rows, journal)
  /\ Then("checkpoint")
  /\ UNCHANGED <<lines, torn, owned, projected, outbox, timerRows, checkpointed, journal>>

ApplyCheckpoint ==
  /\ Holding("checkpoint")
  /\ checkpointed' = journal
  /\ Then("remove")
  /\ UNCHANGED <<lines, torn, owned, projected, outbox, rows, timerRows, journal>>

\* The record goes; the append that wrote it answers Appended, and a recovery
\* returns to the append or the open it runs for.
RemoveRecord ==
  /\ Holding("remove")
  /\ journal' = NoCommit
  /\ IF own
     THEN answered' = answered \cup {call} /\ Release
     ELSE gate' = "recover" /\ UNCHANGED <<call, own, answered>>
  /\ UNCHANGED <<open, lines, torn, owned, projected, outbox, rows, timerRows, checkpointed,
                 sent, breaks>>

-----------------------------------------------------------------------------
(* A write that fails, and a process that dies.                            *)

\* What a write interrupted at this step leaves of the stream: some of the
\* lines, whole, and perhaps a part of the next.  The other files are written
\* beside themselves and renamed.
Interrupted ==
  IF gate = "stream" /\ journal \notin InStream
  THEN \E n \in 0..Commit[journal].lines :
         /\ lines' = lines \o SubSeq(LinesOf(journal), 1, n)
         /\ torn' \in {t \in BOOLEAN : t => n < Commit[journal].lines}
  ELSE UNCHANGED <<lines, torn>>

\* The error reaches the caller, and the record stays for the next append.  An
\* open that fails leaves no store.
WriteFails ==
  /\ open /\ gate # "free" /\ breaks < MaxBreaks
  /\ breaks' = breaks + 1
  /\ Interrupted /\ Release
  /\ open' = (call # NoCommit)
  /\ UNCHANGED <<owned, projected, outbox, rows, timerRows, checkpointed, journal, answered,
                 sent>>

CrashStore ==
  /\ open /\ breaks < MaxBreaks
  /\ breaks' = breaks + 1
  /\ Interrupted /\ Release
  /\ open' = FALSE
  /\ UNCHANGED <<owned, projected, outbox, rows, timerRows, checkpointed, journal, answered,
                 sent>>

OpenStore ==
  /\ ~open
  /\ open' = TRUE /\ gate' = "recover" /\ call' = NoCommit /\ own' = FALSE
  /\ UNCHANGED <<lines, torn, owned, projected, outbox, rows, timerRows, checkpointed, journal,
                 answered, sent, breaks>>

-----------------------------------------------------------------------------
(* The other holders of the gate, which do not recover first.              *)

ClaimRow(k) ==
  /\ open /\ gate = "free" /\ rows[k] = "pending"
  /\ rows' = [rows EXCEPT ![k] = "claimed"]
  /\ UNCHANGED <<open, lines, torn, owned, projected, outbox, timerRows, checkpointed, journal,
                 gate, call, own, answered, sent, breaks>>

SendFact(d) ==
  /\ open /\ d \in outbox \ sent
  /\ sent' = sent \cup {d}
  /\ UNCHANGED <<open, lines, torn, owned, projected, outbox, rows, timerRows, checkpointed,
                 journal, gate, call, own, answered, breaks>>

MarkSent(d) ==
  /\ open /\ gate = "free" /\ d \in outbox \cap sent
  /\ outbox' = outbox \ {d}
  /\ UNCHANGED <<open, lines, torn, owned, projected, rows, timerRows, checkpointed, journal,
                 gate, call, own, answered, sent, breaks>>

JournalNext ==
  \/ OpenStore \/ CrashStore \/ WriteFails
  \/ Recover \/ Recovered
  \/ ApplyOwner \/ ApplyStream \/ ApplyProjection \/ ApplyOutbox \/ ApplyTimers
  \/ ApplyAttempts \/ ApplyCheckpoint \/ RemoveRecord
  \/ \E d \in Decided : BeginAppend(d) \/ SendFact(d) \/ MarkSent(d)
  \/ \E k \in RowKeys : ClaimRow(k)

JournalSpec == JournalInit /\ [][JournalNext]_journalVars

-----------------------------------------------------------------------------
(* Properties.                                                             *)

JournalTypeOK ==
  /\ {open, torn, owned, own} \subseteq BOOLEAN
  /\ lines \in Seq(Decided \X Nat)
  /\ {projected, checkpointed, journal, call} \subseteq Decided \cup {NoCommit}
  /\ outbox \cup answered \cup sent \subseteq Decided
  /\ rows \in [RowKeys -> {"none", "pending", "claimed", "parked"}]
  /\ timerRows \subseteq RowKeys
  /\ gate \in {"free", "recover", "owner", "stream", "projection", "outbox", "timers",
               "attempts", "checkpoint", "remove"}
  /\ breaks \in 0..MaxBreaks

\* What the tables hold after the first n decisions, rows without their claims.
RowsAfter[n \in Nat] ==
  IF n = 0 THEN [k \in RowKeys |-> "none"] ELSE WriteRows(RowsAfter[n - 1], n)
TimersAfter[n \in Nat] == IF n = 0 THEN {} ELSE WriteTimers(TimersAfter[n - 1], n)

Unclaimed(table) == [k \in RowKeys |-> IF table[k] = "claimed" THEN "pending" ELSE table[k]]

Applied(d) ==
  /\ owned /\ projected = d /\ checkpointed = d
  /\ timerRows = TimersAfter[d]
  /\ Unclaimed(rows) = RowsAfter[d]
  /\ \A e \in 1..d : e \in outbox \cup sent

\* file.rs append, apply and recover: while no record waits under commits/, the
\* projection, the outbox, the timers, the attempt rows and the checkpoint are
\* what the decisions in the stream say, however often apply was interrupted,
\* run again, or raced by a claim or a publisher.
TablesFollowTheStream ==
  (journal = NoCommit /\ lines # <<>>) => Applied(Cardinality(InStream))

\* file.rs append and recover: a caller that was answered Appended or Duplicate
\* has every consequence of its decision on disk, and not only its input.
AnsweredIsApplied ==
  \A d \in answered : d \in InStream /\ d # journal /\ d \in outbox \cup sent /\ projected >= d

\* file.rs apply: once its record is gone, a decision's lines are all in the stream.
CommittedIsWhole ==
  journal = NoCommit => \A d \in InStream : ToSet(LinesOf(d)) \subseteq ToSet(lines)
=============================================================================
