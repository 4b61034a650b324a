---------------------------- MODULE MCProjector -----------------------------
(***************************************************************************)
(* The projector, the event log and the journal, on small instances.       *)
(***************************************************************************)
EXTENDS Projector

CONSTANT Wirings   \* the deployments a run looks at

Event(run, subject, phase, at) == [run |-> run, subject |-> subject, phase |-> phase, at |-> at]

\* Two runs that end in the first period, and a call two periods later.
TwoRuns ==
  <<Event("a", "run", "start", 1), Event("a", "run", "end", 2),
    Event("b", "run", "end", 3), Event("b", "llm", "end", 9)>>

Wal(rebuild, outputs) ==
  [log |-> "wal", journaled |-> FALSE, rebuild |-> rebuild, appendsFail |-> FALSE,
   outputs |-> outputs]
FailingWal(rebuild, outputs) == [Wal(rebuild, outputs) EXCEPT !.appendsFail = TRUE]
Laser(journaled, outputs) ==
  [log |-> "laser", journaled |-> journaled, rebuild |-> FALSE, appendsFail |-> FALSE,
   outputs |-> outputs]

\* A server with its own log that reads all of it again at each start, one that
\* resumes, one that only indexes calls and whose appends may fail, and one behind
\* the broker.
Deployments ==
  {Wal(TRUE, {"periods"}), Wal(FALSE, {"periods"}), FailingWal(TRUE, {"asked"}),
   Laser(TRUE, {"periods"})}
OwnLog == {Wal(TRUE, {})}
Broker == {Laser(FALSE, {})}

AppenderSymmetry == Permutations(Appenders)

\* What the log holds when the server is first started, one record of it sent
\* twice: all but the last one or two records of the file, which are appended
\* while it runs, or the whole topic.
History(w) ==
  CASE w.log = "laser" -> <<1, 2, 3, 3, 4>>
    [] w.log = "wal" /\ "asked" \in w.outputs -> <<1, 2, 4, 4>>
    [] w.log = "wal" /\ ~w.rebuild -> <<1, 1, 2, 3>>
    [] OTHER -> <<1, 1, 2>>

Init == wiring \in Wirings /\ ProjectorInit(History(wiring))
Spec == Init /\ [][ProjectorNext]_vars

\* The task is polled, its timers and its writes finish, and an append that has
\* written goes on to broadcast.
FairSpec ==
  /\ Spec
  /\ WF_vars(StartProjector \/ Handle \/ CaughtUp \/ SourceEnds)
  /\ WF_vars(FlushStep)
  /\ \A a \in Appenders : WF_vars(Broadcast(a) /\ Unlogged)
  /\ \A c \in Readers : WF_vars(SkipDelivered(c) /\ Unlogged)

\* Every record of the log is handed to the projector in the end.
EverythingIsRead ==
  \A p \in 1..MaxRecords : Len(log) >= p ~> sub["projector"].delivered >= p
=============================================================================
