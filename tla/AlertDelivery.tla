--------------------------- MODULE AlertDelivery ----------------------------
(***************************************************************************)
(* Alerts for failed executions: the watcher that reads the read model     *)
(* behind a cursor and raises deliveries                                   *)
(* (aiwatcher-server/src/alerts/watch.rs), the registry that keeps them    *)
(* (aiwatcher-alerts/src/registry.rs), the drain that sends what is due    *)
(* (aiwatcher-server/src/alerts/mod.rs), and the retry a person asks for.  *)
(*                                                                         *)
(* One rule at one version: a failure and its delivery have the same key.  *)
(***************************************************************************)
EXTENDS Naturals, FiniteSets, FiniteSetsExt

CONSTANTS
  EndedAt,         \* the failures, and when each ended
  MaxAttempts,     \* MAX_ATTEMPTS
  Backoff,         \* backoff_seconds of a retry
  LastMinute,      \* the last instant of the clock
  MaxOutages       \* crashes and failed store calls of one behaviour

Failures == DOMAIN EndedAt
ASSUME AlertAssumption ==
  /\ EndedAt \in [Failures -> 0..LastMinute]
  /\ MaxAttempts \in Nat \ {0} /\ {Backoff, LastMinute, MaxOutages} \subseteq Nat

VARIABLES
  minute,    \* the clock
  visible,   \* failures the read model shows
  watched,   \* the watcher's stored cursor, or NoMark
  watcher,   \* the pass of the watcher
  delivery,  \* the stored deliveries
  finished,  \* the process's set of deliveries it has seen finish
  drain,     \* the pass of the drain
  retry,     \* the retry somebody asked for
  received,  \* what the receiver has taken
  read,      \* failures some pass has read
  outages
alertVars == <<minute, visible, watched, watcher, delivery, finished, drain, retry, received,
               read, outages>>

NoMark == LastMinute + 1
Absent == [state |-> "absent", attempts |-> 0, available |-> 0]
Queued(attempts, at) == [state |-> "queued", attempts |-> attempts, available |-> at]
IsFinished(d) == d.state \in {"completed", "failed"}
IsDue(d) == d.state = "queued" /\ d.available <= minute
NoPass == [at |-> "idle", since |-> 0, rows |-> {}, highest |-> 0]
NoDrain == [at |-> "idle", due |-> {}, key |-> "none", row |-> Absent]
NoRetry == [at |-> "idle", key |-> "none"]

AlertInit ==
  /\ minute = 0 /\ visible = {} /\ watched = NoMark /\ watcher = NoPass
  /\ delivery = [e \in Failures |-> Absent] /\ finished = {} /\ drain = NoDrain
  /\ retry = NoRetry /\ received = {} /\ read = {} /\ outages = 0

-----------------------------------------------------------------------------
(* The watcher.                                                            *)

\* The read model shows a failure once the projector has folded it.
FailureProjected(e) ==
  /\ e \notin visible /\ EndedAt[e] <= minute
  /\ visible' = visible \cup {e}
  /\ UNCHANGED <<minute, watched, watcher, delivery, finished, drain, retry, received, read,
                 outages>>

\* The first pass of all only writes where the next one starts.
WatchFromNow ==
  /\ watcher.at = "idle" /\ watched = NoMark
  /\ watched' = minute
  /\ UNCHANGED <<minute, visible, watcher, delivery, finished, drain, retry, received, read,
                 outages>>

ReadFailures ==
  /\ watcher.at = "idle" /\ watched # NoMark
  /\ LET rows == {e \in visible : EndedAt[e] >= watched}
     IN /\ watcher' = [at |-> "raises", since |-> watched, rows |-> rows,
                       highest |-> Max({watched} \cup {EndedAt[e] : e \in rows})]
        /\ read' = read \cup rows
  /\ UNCHANGED <<minute, visible, watched, delivery, finished, drain, retry, received, outages>>

\* raise creates the delivery under its key, or finds it there.
Raise(e) ==
  /\ watcher.at = "raises" /\ e \in watcher.rows
  /\ delivery' = [delivery EXCEPT ![e] = IF @ = Absent THEN Queued(0, minute) ELSE @]
  /\ watcher' = [watcher EXCEPT !.rows = @ \ {e}]
  /\ UNCHANGED <<minute, visible, watched, finished, drain, retry, received, read, outages>>

\* The cursor moved while some of the page is still to be raised.
MoveCursorFirst ==
  /\ watcher.at = "raises"
  /\ watched' = watcher.highest
  /\ watcher' = IF watcher.rows = {} THEN NoPass ELSE watcher
  /\ UNCHANGED <<minute, visible, delivery, finished, drain, retry, received, read, outages>>

MoveCursor ==
  /\ watcher.at = "raises" /\ watcher.rows = {}
  /\ watched' = watcher.highest
  /\ watcher' = NoPass
  /\ UNCHANGED <<minute, visible, delivery, finished, drain, retry, received, read, outages>>

\* A store that does not answer ends the pass with its cursor where it was.
WatchFails ==
  /\ watcher.at = "raises" /\ outages < MaxOutages
  /\ outages' = outages + 1
  /\ watcher' = NoPass
  /\ UNCHANGED <<minute, visible, watched, delivery, finished, drain, retry, received, read>>

-----------------------------------------------------------------------------
(* The drain.                                                              *)

\* load_unfinished remembers what it finds finished and never reads it again.
ReadDue ==
  /\ drain.at = "idle"
  /\ finished' = finished \cup {e \in Failures : IsFinished(delivery[e])}
  /\ LET due == {e \in Failures \ finished : IsDue(delivery[e])}
     IN drain' = IF due = {} THEN NoDrain ELSE [NoDrain EXCEPT !.at = "sends", !.due = due]
  /\ UNCHANGED <<minute, visible, watched, watcher, delivery, retry, received, read, outages>>

\* The budget counted without the attempt that failed.
AfterFailureOnceMore(d, retryable) ==
  IF retryable /\ d.attempts < MaxAttempts
  THEN Queued(d.attempts + 1, minute + Backoff)
  ELSE [d EXCEPT !.state = "failed", !.attempts = @ + 1]

AfterFailure(d, retryable) ==
  IF retryable /\ d.attempts + 1 < MaxAttempts
  THEN Queued(d.attempts + 1, minute + Backoff)
  ELSE [d EXCEPT !.state = "failed", !.attempts = @ + 1]

Sent(d) == [d EXCEPT !.state = "completed", !.attempts = @ + 1]

\* The channel takes it, refuses it, or fails; one that fails may have taken it.
SendOnce(e) ==
  /\ drain.at = "sends" /\ e \in drain.due
  /\ \E answer \in {"taken", "refused", "lost"} :
       /\ received' = received \cup (IF answer = "refused" THEN {} ELSE {e})
       /\ drain' = [at |-> "records", due |-> drain.due \ {e}, key |-> e,
                    row |-> CASE answer = "taken" -> Sent(delivery[e])
                              [] answer = "refused" -> AfterFailure(delivery[e], FALSE)
                              [] OTHER -> AfterFailure(delivery[e], TRUE)]
  /\ UNCHANGED <<minute, visible, watched, watcher, delivery, finished, retry, read, outages>>

\* A channel that could not be reached at all.
SendUnreached(e) ==
  /\ drain.at = "sends" /\ e \in drain.due
  /\ drain' = [at |-> "records", due |-> drain.due \ {e}, key |-> e,
               row |-> AfterFailure(delivery[e], TRUE)]
  /\ UNCHANGED <<minute, visible, watched, watcher, delivery, finished, retry, received, read,
                 outages>>

\* record writes the row, and then remembers a finished one.
Record ==
  /\ drain.at = "records"
  /\ delivery' = [delivery EXCEPT ![drain.key] = drain.row]
  /\ drain' = [drain EXCEPT !.at = "remembers"]
  /\ UNCHANGED <<minute, visible, watched, watcher, finished, retry, received, read, outages>>

Remember ==
  /\ drain.at = "remembers"
  /\ finished' = IF IsFinished(drain.row) THEN finished \cup {drain.key} ELSE finished
  /\ drain' = IF drain.due = {} THEN NoDrain
              ELSE [NoDrain EXCEPT !.at = "sends", !.due = drain.due]
  /\ UNCHANGED <<minute, visible, watched, watcher, delivery, retry, received, read, outages>>

\* record could not write: the pass ends and the row stays queued.
RecordFails ==
  /\ drain.at = "records" /\ outages < MaxOutages
  /\ outages' = outages + 1
  /\ drain' = NoDrain
  /\ UNCHANGED <<minute, visible, watched, watcher, delivery, finished, retry, received, read>>

-----------------------------------------------------------------------------
(* A person's retry, a restart, the clock.                                 *)

AskAgain(e) ==
  /\ retry.at = "idle" /\ delivery[e].state = "failed"
  /\ retry' = [at |-> "forgets", key |-> e]
  /\ UNCHANGED <<minute, visible, watched, watcher, delivery, finished, drain, received, read,
                 outages>>

Forget ==
  /\ retry.at = "forgets"
  /\ finished' = finished \ {retry.key}
  /\ retry' = [retry EXCEPT !.at = "requeues"]
  /\ UNCHANGED <<minute, visible, watched, watcher, delivery, drain, received, read, outages>>

Requeue ==
  /\ retry.at = "requeues"
  /\ delivery' = [delivery EXCEPT ![retry.key] = Queued(0, minute)]
  /\ retry' = NoRetry
  /\ UNCHANGED <<minute, visible, watched, watcher, finished, drain, received, read, outages>>

Restart ==
  /\ outages < MaxOutages
  /\ outages' = outages + 1
  /\ watcher' = NoPass /\ drain' = NoDrain /\ retry' = NoRetry /\ finished' = {}
  /\ UNCHANGED <<minute, visible, watched, delivery, received, read>>

NextMinute ==
  /\ minute < LastMinute
  /\ minute' = minute + 1
  /\ UNCHANGED <<visible, watched, watcher, delivery, finished, drain, retry, received, read,
                 outages>>

AlertNext ==
  \/ NextMinute \/ Restart
  \/ WatchFromNow \/ ReadFailures \/ MoveCursor \/ WatchFails
  \/ ReadDue \/ Record \/ Remember \/ RecordFails
  \/ Forget \/ Requeue
  \/ \E e \in Failures :
       \/ FailureProjected(e) \/ Raise(e) \/ SendOnce(e) \/ SendUnreached(e) \/ AskAgain(e)

AlertSpec == AlertInit /\ [][AlertNext]_alertVars

-----------------------------------------------------------------------------
(* Properties.                                                             *)

AlertTypeOK ==
  /\ minute \in 0..LastMinute /\ watched \in 0..NoMark
  /\ visible \cup finished \cup received \cup read \subseteq Failures
  /\ \A e \in Failures :
       /\ delivery[e].state \in {"absent", "queued", "completed", "failed"}
       /\ delivery[e].attempts \in 0..MaxAttempts
  /\ watcher.at \in {"idle", "raises"} /\ watcher.rows \subseteq Failures
  /\ drain.at \in {"idle", "sends", "records", "remembers"}
  /\ retry.at \in {"idle", "forgets", "requeues"} /\ outages \in 0..MaxOutages

\* watch.rs execution_failures, registry.rs raise and mod.rs send_once: a
\* failure the watcher's cursor has passed after a pass read it has a delivery,
\* across crashes and failed calls, and a delivery that says completed is one the
\* receiver took.
AlertsAreKept ==
  \A e \in Failures :
    /\ (e \in read /\ watched # NoMark /\ EndedAt[e] < watched) => delivery[e] # Absent
    /\ delivery[e].state = "completed" => e \in received
=============================================================================
