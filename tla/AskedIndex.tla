----------------------------- MODULE AskedIndex -----------------------------
(***************************************************************************)
(* The index of what witnesses saw asked                                   *)
(* (aiwatcher-projector/src/asked.rs): every ended model call, kept in     *)
(* pages that are written a minute at a time, beside a reach that says     *)
(* through which position the pages go and how far back they read.  A call *)
(* is its position.  Retention (asked_index_days) is off, and what clients *)
(* counted of a measurement's runs is left out.                            *)
(***************************************************************************)
EXTENDS EventLog, Integers

NoMoment == -1

NewIndex == [through |-> 0, applied |-> 0, began |-> FALSE, readsFrom |-> NoMoment, pending |-> {}]

IsCall(p) == Msg[log[p].msg].subject = "llm" /\ Msg[log[p].msg].phase = "end"

AskedApplyPastGaps(x, p) ==
  IF p <= x.applied THEN x
  ELSE [x EXCEPT !.applied = p, !.began = TRUE,
                 !.readsFrom = IF ~x.began /\ p # 1 THEN Max2(@, Msg[log[p].msg].at) ELSE @,
                 !.pending = IF IsCall(p) THEN @ \cup {p} ELSE @]

\* AskedIndex::apply of the record at position p.
AskedApply(x, p) ==
  LET at == Msg[log[p].msg].at
      passedOver == x.applied # 0 /\ p > x.applied + 1
      fromTheFirst == ~x.began /\ p = 1
  IN  IF p <= x.applied THEN x
      ELSE [x EXCEPT !.applied = p,
                     !.began = TRUE,
                     !.readsFrom = IF (~x.began \/ passedOver) /\ ~fromTheFirst
                                   THEN Max2(@, at) ELSE @,
                     !.pending = IF IsCall(p) THEN @ \cup {p} ELSE @]

\* The reach AskedIndex::flush saves, and what AskedIndex::load makes of it.
ReachOf(x) == [through |-> x.applied, began |-> x.began, readsFrom |-> x.readsFrom]
NoReach == [through |-> 0, began |-> FALSE, readsFrom |-> NoMoment]
LoadedIndex(reach) ==
  [through |-> reach.through, applied |-> reach.through, began |-> reach.began,
   readsFrom |-> reach.readsFrom, pending |-> {}]

\* Of the calls the index has passed, one it holds in no page and not in memory
\* is older than the moment it says it reads back to, or than the first record
\* read after it.
ReadsBackHonestly(x, pages) ==
  \A p \in 1..x.applied :
    IsCall(p) /\ p \notin pages \cup x.pending =>
      \E q \in (p + 1)..x.applied : Msg[log[q].msg].at <= x.readsFrom
=============================================================================
