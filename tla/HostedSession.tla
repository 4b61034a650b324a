--------------------------- MODULE HostedSession ----------------------------
(***************************************************************************)
(* A hosted execution (aiwatcher-execution/src/hosted.rs): workers decide  *)
(* outside the handler, on a history they read earlier, and append their   *)
(* turns with the timers they set; processes deliver the timers that come  *)
(* due.  The lease of a decider is advice: the version is what orders.     *)
(*                                                                         *)
(* An append is one entry of the history, its input and outputs together.  *)
(***************************************************************************)
EXTENDS Naturals, Sequences, FiniteSets, SequencesExt

CONSTANTS
  Deciders,       \* workers that decide the session
  Bells,          \* processes that run fire_due_timers
  TimerIds,       \* the ids workers give their timers
  DeciderLease,   \* LEASE_SECONDS
  TimersPerTick,  \* TIMERS_PER_TICK
  LastHour,       \* the last instant of the clock
  MaxTurns        \* turns appended in one behaviour

ASSUME SessionAssumption == {DeciderLease, TimersPerTick, LastHour, MaxTurns} \subseteq Nat

VARIABLES
  hour,      \* the clock
  history,   \* the stream of the execution
  dueAt,     \* the timer table: when each timer is due, or NotSet
  lease,     \* the decider's lease
  decider,   \* what each worker is doing
  bell       \* what each timer process is doing
sessionVars == <<hour, history, dueAt, lease, decider, bell>>

NotSet == LastHour + 1
NoHolder == "no holder"
Resting == [at |-> "idle", seen |-> 0, turn |-> 0]
Quiet == [at |-> "idle", due |-> {}, timer |-> "none", seen |-> 0, deliverable |-> FALSE]

Entry(kind, id, on, delivered) ==
  [kind |-> kind, id |-> id, on |-> on, delivered |-> delivered]
Recorded(kind, id) == \E i \in DOMAIN history : history[i].kind = kind /\ history[i].id = id
Ended == Recorded("end", 0)
Turns == Cardinality({i \in DOMAIN history : history[i].kind = "turn"})

SessionInit ==
  /\ hour = 0 /\ history = <<>> /\ dueAt = [t \in TimerIds |-> NotSet]
  /\ lease = [holder |-> NoHolder, at |-> 0]
  /\ decider = [w \in Deciders |-> Resting] /\ bell = [p \in Bells |-> Quiet]

-----------------------------------------------------------------------------
(* The decider's lease.                                                    *)

Expired == hour > lease.at + DeciderLease
HeldByAnother(w) == lease.holder \notin {NoHolder, w} /\ ~Expired

TakeDeciderLease(w) ==
  /\ ~Ended /\ ~HeldByAnother(w)
  /\ lease' = [holder |-> w, at |-> hour]
  /\ UNCHANGED <<hour, history, dueAt, decider, bell>>

ReleaseDeciderLease(w) ==
  /\ ~Ended /\ lease.holder = w /\ ~Expired
  /\ lease' = [holder |-> NoHolder, at |-> 0]
  /\ UNCHANGED <<hour, history, dueAt, decider, bell>>

-----------------------------------------------------------------------------
(* A worker's turn.                                                        *)

\* A worker reads the history and decides; the turn carries the version it read
\* and an idempotency key of its own.
ReadSession(w) ==
  /\ decider[w].at = "idle" /\ ~Ended /\ Turns < MaxTurns
  /\ decider' = [decider EXCEPT ![w] =
                   [at |-> "sends", seen |-> Len(history), turn |-> <<w, Len(history)>>]]
  /\ UNCHANGED <<hour, history, dueAt, lease, bell>>

\* append_hosted up to its append: the inbox, the run's state and the lease are
\* read from a history loaded here, and none of them is held on to.
CheckTurn(w) ==
  /\ decider[w].at = "sends"
  /\ decider' = [decider EXCEPT ![w] =
                   IF Recorded("turn", @.turn) \/ Ended \/ HeldByAnother(w)
                   THEN Resting ELSE [@ EXCEPT !.at = "appends"]]
  /\ UNCHANGED <<hour, history, dueAt, lease, bell>>

\* The timer a turn sets, moves or withdraws, with the turn.  A worker gives no
\* new timer the id of one that was delivered.
TimerWrites ==
  {dueAt} \cup {[dueAt EXCEPT ![t] = NotSet] : t \in TimerIds}
          \cup {[dueAt EXCEPT ![t] = hour + 1] :
                  t \in {u \in TimerIds : hour < LastHour /\ ~Recorded("fired", u)}}

\* The version the worker read must be the stream's.  The answer may be lost on
\* its way, and then the same turn is sent again.
AppendTurn(w) ==
  /\ decider[w].at = "appends"
  /\ Len(history) = decider[w].seen
  /\ history' = Append(history, Entry("turn", decider[w].turn, decider[w].seen, TRUE))
  /\ dueAt' \in TimerWrites
  /\ \E next \in {Resting, [decider[w] EXCEPT !.at = "sends"]} :
       decider' = [decider EXCEPT ![w] = next]
  /\ UNCHANGED <<hour, lease, bell>>

TurnConflicts(w) ==
  /\ decider[w].at = "appends"
  /\ Len(history) # decider[w].seen
  /\ decider' = [decider EXCEPT ![w] = Resting]
  /\ UNCHANGED <<hour, history, dueAt, lease, bell>>

\* The run is completed, failed or cancelled by a command of the handler.
EndSession ==
  /\ ~Ended
  /\ history' = Append(history, Entry("end", 0, Len(history), TRUE))
  /\ UNCHANGED <<hour, dueAt, lease, decider, bell>>

-----------------------------------------------------------------------------
(* The timers that come due.                                               *)

\* The oldest first, and no more than a tick takes.
DueTimers ==
  LET due == {t \in TimerIds : dueAt[t] <= hour}
  IN {t \in due : Cardinality({u \in due : dueAt[u] < dueAt[t]}) < TimersPerTick}

FireDueTimers(p) ==
  /\ bell[p].at = "idle" /\ DueTimers # {}
  /\ bell' = [bell EXCEPT ![p] = [Quiet EXCEPT !.at = "tick", !.due = DueTimers]]
  /\ UNCHANGED <<hour, history, dueAt, lease, decider>>

\* fire loads the stream of a timer of its list, which it does not read again.
LoadForTimer(p, t) ==
  /\ bell[p].at = "tick" /\ t \in bell[p].due
  /\ bell' = [bell EXCEPT ![p] =
                [at |-> "fires", due |-> @.due \ {t}, timer |-> t, seen |-> Len(history),
                 deliverable |-> ~Ended]]
  /\ UNCHANGED <<hour, history, dueAt, lease, decider>>

NextBell(p) ==
  bell' = [bell EXCEPT ![p] =
             IF @.due = {} THEN Quiet ELSE [Quiet EXCEPT !.at = "tick", !.due = bell[p].due]]

\* No derived id, and so no inbox entry to find.
FireTwice(p) ==
  /\ bell[p].at = "fires"
  /\ IF Len(history) # bell[p].seen
     THEN UNCHANGED <<history, dueAt>>
     ELSE /\ history' = Append(history, Entry("fired", bell[p].timer, bell[p].seen,
                                              bell[p].deliverable))
          /\ dueAt' = [dueAt EXCEPT ![bell[p].timer] = NotSet]
  /\ NextBell(p)
  /\ UNCHANGED <<hour, lease, decider>>

\* A run that has ended takes no message, and its timer is left alone.
FireDeliverable(p) ==
  /\ bell[p].at = "fires"
  /\ IF Recorded("fired", bell[p].timer) \/ Len(history) # bell[p].seen \/ ~bell[p].deliverable
     THEN UNCHANGED <<history, dueAt>>
     ELSE /\ history' = Append(history, Entry("fired", bell[p].timer, bell[p].seen, TRUE))
          /\ dueAt' = [dueAt EXCEPT ![bell[p].timer] = NotSet]
  /\ NextBell(p)
  /\ UNCHANGED <<hour, lease, decider>>

\* The append: a duplicate and a conflict write nothing, and otherwise the
\* message, if the run may have it, and the end of the timer are one write.
Fire(p) ==
  /\ bell[p].at = "fires"
  /\ IF Recorded("fired", bell[p].timer) \/ Len(history) # bell[p].seen
     THEN UNCHANGED <<history, dueAt>>
     ELSE /\ history' = Append(history, Entry("fired", bell[p].timer, bell[p].seen,
                                              bell[p].deliverable))
          /\ dueAt' = [dueAt EXCEPT ![bell[p].timer] = NotSet]
  /\ NextBell(p)
  /\ UNCHANGED <<hour, lease, decider>>

NextHour ==
  /\ hour < LastHour
  /\ hour' = hour + 1
  /\ UNCHANGED <<history, dueAt, lease, decider, bell>>

SessionNext ==
  \/ NextHour \/ EndSession
  \/ \E w \in Deciders :
       \/ TakeDeciderLease(w) \/ ReleaseDeciderLease(w)
       \/ ReadSession(w) \/ CheckTurn(w) \/ AppendTurn(w) \/ TurnConflicts(w)
  \/ \E p \in Bells : FireDueTimers(p) \/ Fire(p) \/ \E t \in TimerIds : LoadForTimer(p, t)

SessionSpec == SessionInit /\ [][SessionNext]_sessionVars

-----------------------------------------------------------------------------
(* Properties.                                                             *)

SessionTypeOK ==
  /\ hour \in 0..LastHour /\ dueAt \in [TimerIds -> 0..NotSet]
  /\ \A i \in DOMAIN history : history[i].kind \in {"turn", "fired", "end"}
  /\ lease.holder \in Deciders \cup {NoHolder} /\ lease.at \in 0..LastHour
  /\ \A w \in Deciders : decider[w].at \in {"idle", "sends", "appends"}
  /\ \A p \in Bells : bell[p].at \in {"idle", "tick", "fires"} /\ bell[p].due \subseteq TimerIds

\* hosted.rs append_hosted and fire: an entry stands directly behind the history
\* it was decided on, whoever held the lease meanwhile; so nothing is handed to
\* a run that has ended, and no turn and no timer is recorded twice.
EntriesAreFresh ==
  \A i \in DOMAIN history :
    /\ history[i].on = i - 1
    /\ \A j \in 1..(i - 1) :
         /\ history[j].kind = "end" => history[i].kind = "fired" /\ ~history[i].delivered
         /\ history[j].kind # history[i].kind \/ history[j].id # history[i].id

\* hosted.rs fire_due_timers: a timer that was set is delivered, withdrawn or
\* retired in the end, though its run may end first and every delivery race a turn.
TimersGo == \A t \in TimerIds : dueAt[t] # NotSet ~> dueAt[t] = NotSet
=============================================================================
