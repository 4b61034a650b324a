----------------------------- MODULE MCServices -----------------------------
(***************************************************************************)
(* The components around the engine and the projector, and the file under  *)
(* the log, which share no state with one another, each on a small         *)
(* instance: a behaviour is one of the components named by `part`, and the *)
(* others rest in their initial state.                                     *)
(***************************************************************************)
EXTENDS StoreJournal, ScheduleSlots, HostedSession, AlertDelivery, SpanAssembler,
        WalFile

CONSTANT Parts   \* the components a run looks at
VARIABLE part
serviceVars ==
  <<part, journalVars, scheduleVars, sessionVars, alertVars, assemblerVars, walVars>>

\* A step is dispatched, its worker stops to ask under a deadline, the answer
\* ends it and the next step is dispatched.
NoWrites == [lines |-> 2, dispatch |-> {}, park |-> {}, retire |-> {}, schedule |-> {},
             clear |-> {}]
AskedStep ==
  <<[NoWrites EXCEPT !.dispatch = {"a"}],
    [NoWrites EXCEPT !.park = {"a"}, !.schedule = {"a"}],
    [NoWrites EXCEPT !.lines = 3, !.retire = {"a"}, !.dispatch = {"b"}, !.clear = {"a"}]>>

\* Two failures, the second a minute after the first.
TwoFailures == [f |-> 1, g |-> 2]

\* A run's span and a step that names no parent, a call inside, and a leaf of
\* another run that names its own.
Span(of, container, parent) == [run |-> of, container |-> container, parent |-> parent]
SpanTree ==
  [root |-> Span("r", TRUE, Root), step |-> Span("r", TRUE, Root),
   call |-> Span("r", FALSE, Root), other |-> Span("q", TRUE, "call")]

Init ==
  /\ part \in Parts
  /\ JournalInit /\ ScheduleInit /\ SessionInit /\ AlertInit /\ AssemblerInit /\ WalInit

JournalStep ==
  part = "journal" /\ JournalNext
  /\ UNCHANGED <<part, scheduleVars, sessionVars, alertVars, assemblerVars, walVars>>
ScheduleStep ==
  part = "schedules" /\ ScheduleNext
  /\ UNCHANGED <<part, journalVars, sessionVars, alertVars, assemblerVars, walVars>>
SessionStep ==
  part = "session" /\ SessionNext
  /\ UNCHANGED <<part, journalVars, scheduleVars, alertVars, assemblerVars, walVars>>
AlertStep ==
  part = "alerts" /\ AlertNext
  /\ UNCHANGED <<part, journalVars, scheduleVars, sessionVars, assemblerVars, walVars>>
AssemblerStep ==
  part = "spans" /\ AssemblerNext
  /\ UNCHANGED <<part, journalVars, scheduleVars, sessionVars, alertVars, walVars>>
LogFileStep ==
  part = "log" /\ WalNext
  /\ UNCHANGED <<part, journalVars, scheduleVars, sessionVars, alertVars, assemblerVars>>

Next == JournalStep \/ ScheduleStep \/ SessionStep \/ AlertStep \/ AssemblerStep \/ LogFileStep
Spec == Init /\ [][Next]_serviceVars

\* Time passes, and the task that fires timers is polled and its appends return.
OfSession(A) ==
  /\ part = "session" /\ A
  /\ UNCHANGED <<part, journalVars, scheduleVars, alertVars, assemblerVars, walVars>>
FairSpec ==
  /\ Spec
  /\ WF_serviceVars(OfSession(NextHour))
  /\ \A p \in Bells :
       WF_serviceVars(OfSession(FireDueTimers(p) \/ Fire(p)
                                  \/ \E t \in TimerIds : LoadForTimer(p, t)))

\* The variables of the six components keep their types.
ServicesTypeOK ==
  /\ JournalTypeOK /\ ScheduleTypeOK /\ SessionTypeOK /\ AlertTypeOK /\ AssemblerTypeOK
  /\ WalTypeOK
=============================================================================
