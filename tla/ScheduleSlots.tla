--------------------------- MODULE ScheduleSlots ----------------------------
(***************************************************************************)
(* The scheduler's tick (aiwatcher-server/src/execution/scheduler.rs) over *)
(* the slot table of the workflow store (admit_slot, settle_slot): several *)
(* processes tick, each takes a slot under a lease, starts the run named   *)
(* after the slot, settles the slot, and moves the shared cursor last.     *)
(*                                                                         *)
(* One scheduled definition.  A slot is the instant it is due at.  A       *)
(* process that died comes back under another name, so each process is a   *)
(* ticker of its own and a crashed one stays away.                         *)
(***************************************************************************)
EXTENDS Naturals, FiniteSets, FiniteSetsExt

CONSTANTS
  Tickers,             \* processes that run the scheduler
  SlotTimes,           \* the instants the rule fires at
  ActiveFrom,          \* effective_from of the schedule
  FirstTickReachesBack,\* FIRST_TICK_REACHES_BACK
  SlotLease,           \* LEASE_SECONDS
  Overlap,             \* the overlap policy: "skip" or "allow"
  EndOfTime,           \* the last instant of the clock
  MaxTrouble           \* crashes and failed store calls of one behaviour

Nobody == "nobody"
ASSUME ScheduleAssumption ==
  /\ Nobody \notin Tickers
  /\ {ActiveFrom, FirstTickReachesBack, SlotLease, EndOfTime, MaxTrouble} \subseteq Nat
  /\ SlotTimes \subseteq 1..EndOfTime
  /\ Overlap \in {"skip", "allow"}

VARIABLES
  second,   \* the clock
  cursor,   \* the processor's checkpoint, or NoCursor
  slot,     \* the slot table
  run,      \* the run a slot names: "none", "running" or "ended"
  ticker,   \* where each process is in its tick
  found,    \* slots some tick has found due
  trouble
scheduleVars == <<second, cursor, slot, run, ticker, found, trouble>>

NoCursor == EndOfTime + 1
Idle == [at |-> "idle", now |-> 0, due |-> {}, slot |-> 0, says |-> "none"]
Outcomes == {"started", "skipped", "refused"}

\* One second after the lease a slot is free; one that nobody holds is free now.
IsAvailable(s, now) ==
  /\ slot[s].outcome = "none"
  /\ slot[s].owner = Nobody \/ now > slot[s].leasedAt + SlotLease

SlotsBetween(previous, now) == {s \in SlotTimes : previous < s /\ s <= now}
SlotsDue(previous, now) ==
  SlotsBetween(IF previous > ActiveFrom THEN previous ELSE ActiveFrom, now)

ScheduleInit ==
  /\ second = 0 /\ cursor = NoCursor
  /\ slot = [s \in SlotTimes |-> [outcome |-> "none", owner |-> Nobody, leasedAt |-> 0]]
  /\ run = [s \in SlotTimes |-> "none"]
  /\ ticker = [w \in Tickers |-> Idle]
  /\ found = {} /\ trouble = 0

-----------------------------------------------------------------------------
(* One tick.                                                               *)

\* The instant is read once, and serves every slot of the pass.
BeginTick(w) ==
  /\ ticker[w].at = "idle"
  /\ LET reachesBack == IF second >= FirstTickReachesBack
                        THEN second - FirstTickReachesBack ELSE 0
         previous == IF cursor # NoCursor THEN cursor ELSE reachesBack
         due == SlotsDue(previous, second)
     IN /\ ticker' = [ticker EXCEPT ![w] =
                        [Idle EXCEPT !.at = "pass", !.now = second, !.due = due]]
        /\ found' = found \cup due
  /\ UNCHANGED <<second, cursor, slot, run, trouble>>

Pass(w, s) == ticker[w].at = "pass" /\ ticker[w].due # {} /\ s = Min(ticker[w].due)
MovesOn(w, s) ==
  ticker' = [ticker EXCEPT ![w] =
               [@ EXCEPT !.at = "pass", !.due = ticker[w].due \ {s}, !.slot = 0, !.says = "none"]]

\* admit_slot answers Settled or Held.
SlotTaken(w, s) ==
  /\ Pass(w, s) /\ ~IsAvailable(s, ticker[w].now)
  /\ MovesOn(w, s)
  /\ UNCHANGED <<second, cursor, slot, run, found, trouble>>

Blocked == Overlap = "skip" /\ \E s \in SlotTimes : run[s] = "running"

\* admit_slot answers Blocked, without a record; the caller settles it as skipped.
SlotBlocked(w, s) ==
  /\ Pass(w, s) /\ IsAvailable(s, ticker[w].now) /\ Blocked
  /\ ticker' = [ticker EXCEPT ![w] = [@ EXCEPT !.at = "settle", !.slot = s, !.says = "skipped"]]
  /\ UNCHANGED <<second, cursor, slot, run, found, trouble>>

SlotAdmitted(w, s) ==
  /\ Pass(w, s) /\ IsAvailable(s, ticker[w].now) /\ ~Blocked
  /\ slot' = [slot EXCEPT ![s] =
                [outcome |-> "none", owner |-> w, leasedAt |-> ticker[w].now]]
  /\ ticker' = [ticker EXCEPT ![w] = [@ EXCEPT !.at = "start", !.slot = s]]
  /\ UNCHANGED <<second, cursor, run, found, trouble>>

\* compile_head and start.  The run's id is derived from the slot, so a second
\* start of it finds the first.  A definition that does not compile is refused;
\* a store that does not answer is tried again, and may have written the start.
StartRun(w) ==
  /\ ticker[w].at = "start"
  /\ LET s == ticker[w].slot
         started == [run EXCEPT ![s] = IF @ = "none" THEN "running" ELSE @]
     IN \/ /\ run' = started /\ UNCHANGED trouble
           /\ ticker' = [ticker EXCEPT ![w] = [@ EXCEPT !.at = "settle", !.says = "started"]]
        \/ /\ UNCHANGED <<run, trouble>>
           /\ ticker' = [ticker EXCEPT ![w] = [@ EXCEPT !.at = "settle", !.says = "refused"]]
        \/ /\ trouble < MaxTrouble /\ trouble' = trouble + 1
           /\ run' \in {run, started}
           /\ ticker' = [ticker EXCEPT ![w] = [@ EXCEPT !.at = "settle", !.says = "again"]]
  /\ UNCHANGED <<second, cursor, slot, found>>

\* A settlement that does not ask who holds the slot.
SettlementOfAnybody(w) ==
  [slot EXCEPT ![ticker[w].slot] =
     [outcome |-> IF ticker[w].says = "again" THEN "none" ELSE ticker[w].says,
      owner |-> Nobody, leasedAt |-> 0]]

\* A settlement counts only from the holder; TryAgain drops the lease.
Settlement(w) ==
  LET s == ticker[w].slot
  IN IF slot[s].owner # w THEN slot
     ELSE [slot EXCEPT ![s] =
             [outcome |-> IF ticker[w].says = "again" THEN "none" ELSE ticker[w].says,
              owner |-> Nobody, leasedAt |-> 0]]

SettleSlot(w) ==
  /\ ticker[w].at = "settle"
  /\ slot' = Settlement(w)
  /\ MovesOn(w, ticker[w].slot)
  /\ UNCHANGED <<second, cursor, run, found, trouble>>

\* admit_slot or settle_slot could not reach the store: the error is logged and
\* the pass goes on with the next slot.
ProcessFails(w) ==
  /\ trouble < MaxTrouble /\ trouble' = trouble + 1
  /\ \/ ticker[w].at = "settle" /\ MovesOn(w, ticker[w].slot)
     \/ \E s \in SlotTimes : Pass(w, s) /\ MovesOn(w, s)
  /\ UNCHANGED <<second, cursor, slot, run, found>>

\* Every slot was looked at, whatever became of it, and the cursor moves.
EndTick(w) ==
  /\ ticker[w].at = "pass" /\ ticker[w].due = {}
  /\ cursor' = ticker[w].now
  /\ ticker' = [ticker EXCEPT ![w] = Idle]
  /\ UNCHANGED <<second, slot, run, found, trouble>>

EndTickFails(w) ==
  /\ ticker[w].at = "pass" /\ ticker[w].due = {}
  /\ trouble < MaxTrouble /\ trouble' = trouble + 1
  /\ ticker' = [ticker EXCEPT ![w] = Idle]
  /\ UNCHANGED <<second, cursor, slot, run, found>>

CrashTicker(w) ==
  /\ ticker[w].at # "gone" /\ trouble < MaxTrouble
  /\ trouble' = trouble + 1
  /\ ticker' = [ticker EXCEPT ![w] = [Idle EXCEPT !.at = "gone"]]
  /\ UNCHANGED <<second, cursor, slot, run, found>>

ScheduledRunEnds(s) ==
  /\ run[s] = "running"
  /\ run' = [run EXCEPT ![s] = "ended"]
  /\ UNCHANGED <<second, cursor, slot, ticker, found, trouble>>

NextSecond ==
  /\ second < EndOfTime
  /\ second' = second + 1
  /\ UNCHANGED <<cursor, slot, run, ticker, found, trouble>>

ScheduleNext ==
  \/ NextSecond
  \/ \E s \in SlotTimes : ScheduledRunEnds(s)
  \/ \E w \in Tickers :
       \/ BeginTick(w) \/ StartRun(w) \/ SettleSlot(w) \/ ProcessFails(w)
       \/ EndTick(w) \/ EndTickFails(w) \/ CrashTicker(w)
       \/ \E s \in SlotTimes : SlotTaken(w, s) \/ SlotBlocked(w, s) \/ SlotAdmitted(w, s)

ScheduleSpec == ScheduleInit /\ [][ScheduleNext]_scheduleVars

-----------------------------------------------------------------------------
(* Properties.                                                             *)

ScheduleTypeOK ==
  /\ second \in 0..EndOfTime /\ cursor \in 0..EndOfTime \cup {NoCursor}
  /\ slot \in [SlotTimes -> [outcome : Outcomes \cup {"none"}, owner : Tickers \cup {Nobody},
                             leasedAt : 0..EndOfTime]]
  /\ run \in [SlotTimes -> {"none", "running", "ended"}]
  /\ \A w \in Tickers :
       /\ ticker[w].at \in {"idle", "pass", "start", "settle", "gone"}
       /\ ticker[w].due \subseteq SlotTimes /\ ticker[w].slot \in SlotTimes \cup {0}
  /\ found \subseteq SlotTimes /\ trouble \in 0..MaxTrouble

\* store settle_slot and admit_slot: what was decided about a slot stands.  A
\* process whose lease was taken over while it started the run settles nothing,
\* and Started is only said of a slot whose run exists.
SlotDecisionsStand ==
  [][\A s \in SlotTimes :
       /\ slot[s].outcome # "none" => slot'[s].outcome = slot[s].outcome
       /\ slot'[s].outcome = "started" => run'[s] # "none"]_scheduleVars

\* scheduler.rs spawn: a slot a tick found due is decided, or in the hands of a
\* process, or still ahead of the cursor, so that a later tick finds it again.
NoSlotIsLost ==
  \A s \in found :
    \/ slot[s].outcome # "none" \/ cursor = NoCursor \/ cursor < s
    \/ \E w \in Tickers : s \in ticker[w].due
=============================================================================
