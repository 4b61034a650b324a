------------------------------ MODULE EventLog ------------------------------
(***************************************************************************)
(* The event log and its subscriptions: the write-ahead log of one server  *)
(* (aiwatcher-bus/src/adapters/wal.rs) and the broker's topic behind the   *)
(* same ports (adapters/laser.rs).                                         *)
(*                                                                         *)
(* A record's global position is its index in log.  The payload of message *)
(* m is the row Msg[m] of a table the model is given; a producer that got  *)
(* no answer sends a message again, so one message may have several        *)
(* records.  A subscription hands its consumer one record at a time: the   *)
(* bounded channel between the two is left out, since it keeps the order   *)
(* and is lost whole in a crash.                                           *)
(*                                                                         *)
(* An append that fails in a server that lives on leaves nothing in the    *)
(* file here, and what a crash leaves can be opened.  What a write that    *)
(* fails half way leaves is in WalFile: positions and indexes part, and    *)
(* the file may not open again.                                            *)
(***************************************************************************)
EXTENDS Naturals, Sequences, FiniteSets

CONSTANTS
  Appenders,     \* callers of append that may run at the same time
  Readers,       \* names under which a consumer commits its position
  Runs,          \* runs, one stream each
  Msg,           \* message number -> its payload, in the order produced
  Capacity,      \* BROADCAST_CAPACITY
  MaxRecords,    \* bound: records ever appended
  MaxTrims,      \* bound: records the broker's retention removes
  MaxMishaps     \* bound: crashes and failed writes, together

Msgs == DOMAIN Msg

ASSUME LogAssumption ==
  /\ Msg \in Seq([run: Runs, subject: {"run", "llm"}, phase: {"start", "end"}, at: Nat])
  /\ Capacity \in Nat \ {0}
  /\ MaxRecords \in Nat /\ MaxTrims \in Nat /\ MaxMishaps \in Nat

VARIABLES
  wiring,          \* the deployment: the log's adapter, what reads it and how
  log,             \* events.jsonl, or the topic's one partition
  trimmed,         \* how many of the oldest records retention has removed
  produced,        \* how many messages the producers have made so far
  streamPositions, \* Writer.stream_positions, in memory
  outgoing,        \* per appender: positions it recorded and has not broadcast
  live,            \* positions sent on the broadcast channel since the log was opened
  sub,             \* per reader: its subscription
  committed,       \* per reader: the position it committed, 0 when it never did
  up,              \* the server runs
  mishaps          \* crashes, restarts and failed writes so far

busVars == <<wiring, log, trimmed, produced, streamPositions, outgoing, live, sub,
             committed, up>>
logVars == <<busVars, mishaps>>

Positions == 1..Len(log)

NoSubscription == [state |-> "off", delivered |-> 0, cursor |-> 0]

Max2(a, b) == IF a >= b THEN a ELSE b

\* The last position a stream holds in a log.
LastStreamPosition(records, r) ==
  LET of == {p \in DOMAIN records : Msg[records[p].msg].run = r}
  IN  IF of = {} THEN 0 ELSE records[CHOOSE p \in of : \A q \in of : q <= p].at

\* The writer's per-stream positions once it has numbered the first k events of
\* a batch.
Advanced(batch, k) ==
  [r \in Runs |-> streamPositions[r] + Cardinality({j \in 1..k : Msg[batch[j]].run = r})]

\* The envelopes of a batch as the records of their streams, numbered on.
Recorded(batch) ==
  [i \in DOMAIN batch |->
     [msg |-> batch[i], at |-> Advanced(batch, i)[Msg[batch[i]].run]]]

\* What a producer sends in one call: new messages, or one it sends again.
Batches ==
  {<<produced + 1>>, <<produced + 1, produced + 2>>} \cup {<<m>> : m \in 1..produced}

SendableBatches ==
  {b \in Batches : /\ \A i \in DOMAIN b : b[i] \in Msgs
                   /\ Len(log) + Len(b) <= MaxRecords}

\* A server opened on a log that already holds these messages.
LogInit(held) ==
  /\ log = [p \in DOMAIN held |->
              [msg |-> held[p],
               at  |-> Cardinality({q \in 1..p : Msg[held[q]].run = Msg[held[p]].run})]]
  /\ trimmed = 0
  /\ produced = IF held = <<>> THEN 0 ELSE held[Len(held)]
  /\ streamPositions = [r \in Runs |-> LastStreamPosition(log, r)]
  /\ outgoing = [a \in Appenders |-> <<>>]
  /\ live = <<>>
  /\ sub = [c \in Readers |-> NoSubscription]
  /\ committed = [c \in Readers |-> 0]
  /\ up = TRUE /\ mishaps = 0

-----------------------------------------------------------------------------
(* Appending.                                                              *)

\* FileWal::append up to the drop of the writer's lock: stamp, write, sync,
\* index.  The caller still holds what it has to broadcast.  The broker's
\* append is the same step without a broadcast.
AppendBatch(a) ==
  /\ up /\ outgoing[a] = <<>> /\ Len(log) < MaxRecords
  /\ \E batch \in SendableBatches :
       /\ log' = log \o Recorded(batch)
       /\ produced' = Max2(produced, batch[Len(batch)])
       /\ streamPositions' = Advanced(batch, Len(batch))
       /\ outgoing' = IF wiring.log = "wal"
                      THEN [outgoing EXCEPT ![a] = [i \in DOMAIN batch |-> Len(log) + i]]
                      ELSE outgoing
  /\ UNCHANGED <<wiring, trimmed, live, sub, committed, up, mishaps>>

\* FileWal::append returns an error and the server lives on: an event does not
\* validate or the write fails.  Those numbered by then keep their numbers, which
\* nothing takes back.
AppendFails(a) ==
  /\ up /\ outgoing[a] = <<>> /\ mishaps < MaxMishaps
  /\ wiring.log = "wal" /\ wiring.appendsFail
  /\ \E batch \in SendableBatches : \E k \in 0..Len(batch) :
       /\ streamPositions' = Advanced(batch, k)
       /\ produced' = Max2(produced, batch[Len(batch)])
  /\ mishaps' = mishaps + 1
  /\ UNCHANGED <<wiring, log, trimmed, outgoing, live, sub, committed, up>>

\* The rest of append: the lock is dropped and the records are sent one by one.
Broadcast(a) ==
  /\ up /\ outgoing[a] # <<>>
  /\ live' = Append(live, Head(outgoing[a]))
  /\ outgoing' = [outgoing EXCEPT ![a] = Tail(@)]
  /\ UNCHANGED <<wiring, log, trimmed, produced, streamPositions, sub, committed, up, mishaps>>

\* The broker removes its oldest record.
Trim ==
  /\ wiring.log = "laser" /\ trimmed < Len(log) /\ trimmed < MaxTrims
  /\ trimmed' = trimmed + 1
  /\ UNCHANGED <<wiring, log, produced, streamPositions, outgoing, live, sub, committed,
                 up, mishaps>>

\* The server dies.  An append under way may have put a prefix of its batch in
\* the file; a record cut short by the crash is truncated by the next open.
CrashLog ==
  /\ up /\ mishaps < MaxMishaps
  /\ up' = FALSE /\ mishaps' = mishaps + 1
  /\ \/ UNCHANGED <<log, produced>>
     \/ \E batch \in SendableBatches : \E k \in DOMAIN batch :
          /\ log' = log \o SubSeq(Recorded(batch), 1, k)
          /\ produced' = Max2(produced, batch[Len(batch)])
  /\ outgoing' = [a \in Appenders |-> <<>>]
  /\ live' = <<>>
  /\ sub' = [c \in Readers |-> NoSubscription]
  /\ UNCHANGED <<wiring, trimmed, streamPositions, committed>>

\* FileWal::open: scan rebuilds the index and the per-stream positions.
OpenWithoutScan ==
  /\ ~up /\ up' = TRUE
  /\ streamPositions' = [r \in Runs |-> 0]
  /\ UNCHANGED <<wiring, log, trimmed, produced, outgoing, live, sub, committed, mishaps>>

OpenLog ==
  /\ ~up /\ up' = TRUE
  /\ streamPositions' = [r \in Runs |-> LastStreamPosition(log, r)]
  /\ UNCHANGED <<wiring, log, trimmed, produced, outgoing, live, sub, committed, mishaps>>

-----------------------------------------------------------------------------
(* Subscribing.  A subscription replays the log from a position, says it   *)
(* has caught up, and then follows the broadcast, skipping what it has     *)
(* already handed over.                                                    *)

\* FileWal::subscribe takes the live receiver first; LaserBus::subscribe asks
\* the broker for what follows the position.
Subscribed(from) == [state |-> "replay", delivered |-> from, cursor |-> Len(live)]

\* The next position a subscription hands over, 0 when it has none to hand.
NextDelivery(c) ==
  LET s == sub[c]
  IN  CASE wiring.log = "laser" /\ s.state \in {"replay", "live"} ->
             LET next == Max2(s.delivered, trimmed) + 1
             IN  IF next <= Len(log) THEN next ELSE 0
        [] wiring.log = "wal" /\ s.state = "replay" ->
             IF s.delivered < Len(log) THEN s.delivered + 1 ELSE 0
        [] wiring.log = "wal" /\ s.state = "live" /\ s.cursor < Len(live) ->
             IF Len(live) - s.cursor <= Capacity /\ live[s.cursor + 1] > s.delivered
             THEN live[s.cursor + 1] ELSE 0
        [] OTHER -> 0

\* The subscription after it handed over position p.
Delivered(c, p) ==
  [sub[c] EXCEPT !.delivered = p,
                 !.cursor = IF wiring.log = "wal" /\ sub[c].state = "live"
                            THEN @ + 1 ELSE @,
                 !.state = IF wiring.log = "laser" THEN "replay" ELSE @]

\* The backlog is drained: CaughtUp goes out, once per drain.
CatchesUp(c) ==
  /\ sub[c].state = "replay"
  /\ NextDelivery(c) = 0

\* A broadcast the replay already handed over is skipped.
SkipDelivered(c) ==
  /\ up /\ wiring.log = "wal"
  /\ sub[c].state = "live" /\ sub[c].cursor < Len(live)
  /\ Len(live) - sub[c].cursor <= Capacity
  /\ live[sub[c].cursor + 1] <= sub[c].delivered
  /\ sub' = [sub EXCEPT ![c].cursor = @ + 1]
  /\ UNCHANGED <<wiring, log, trimmed, produced, streamPositions, outgoing, live, committed,
                 up, mishaps>>

\* A receiver further behind than the channel holds ends its subscription.
Lagged(c) ==
  /\ wiring.log = "wal" /\ sub[c].state = "live"
  /\ Len(live) - sub[c].cursor > Capacity

-----------------------------------------------------------------------------
\* The deployments: only the broker's topic is read by a journal as well.  An
\* append may fail in a server that lives on where appendsFail says so.
WiringSpace ==
  {w \in [log: {"wal", "laser"}, journaled: BOOLEAN, rebuild: BOOLEAN,
          appendsFail: BOOLEAN, outputs: SUBSET {"periods", "asked"}] :
     w.journaled => w.log = "laser"}

LogTypeOK ==
  /\ wiring \in WiringSpace
  /\ log \in Seq([msg: Msgs, at: Nat \ {0}]) /\ Len(log) <= MaxRecords
  /\ trimmed \in 0..Len(log) /\ produced \in 0..Len(Msg)
  /\ streamPositions \in [Runs -> Nat]
  /\ outgoing \in [Appenders -> Seq(Positions)]
  /\ live \in Seq(Positions)
  /\ sub \in [Readers -> [state: {"off", "replay", "live", "ended"},
                          delivered: Nat, cursor: Nat]]
  /\ committed \in [Readers -> Nat]
  /\ up \in BOOLEAN /\ mishaps \in 0..MaxMishaps

\* The records of one run are numbered upwards in the order of the file and none
\* has the number of another, whatever appends, broadcasts, failed appends and
\* crashes lie between them: scan counts on from the last record it finds, and the
\* writer from the last number it took.  They are numbered 1, 2, 3, ..., which is
\* what FileWal::read_stream_page takes a stream position for, as long as no append
\* fails in a server that lives on; with one that does there are holes.  The
\* broker's streams are numbered by each reader.
StreamsAreNumbered ==
  wiring.log = "wal" =>
    /\ \A p \in Positions : log[p].at > 0
    /\ \A p, q \in Positions :
         p < q /\ Msg[log[p].msg].run = Msg[log[q].msg].run => log[p].at < log[q].at
    /\ ~wiring.appendsFail =>
         \A p \in Positions :
           LET r == Msg[log[p].msg].run
           IN  log[p].at = Cardinality({q \in 1..p : Msg[log[q].msg].run = r})
=============================================================================
