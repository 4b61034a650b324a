--------------------------- MODULE SpanAssembler ----------------------------
(***************************************************************************)
(* The span assembler (aiwatcher-trace/src/assembler.rs): pairs the starts *)
(* and ends of spans that arrive late, twice, in another order or never,   *)
(* infers the parent a producer did not name from the container spans its  *)
(* run has open, and closes what has gone quiet or exceeds the cap.        *)
(***************************************************************************)
EXTENDS Naturals, Integers, Sequences, FiniteSets, SequencesExt, FiniteSetsExt

CONSTANTS
  Spans,          \* Spans[s]: its run, whether it is a container, the parent it names
  OrphanTimeout,  \* orphan_timeout
  MaxOpenSpans,   \* max_open_spans
  LastInstant,    \* the last instant of the clock
  MaxEvents       \* events ingested in one behaviour

SpanIds == DOMAIN Spans
SpanRuns == {Spans[s].run : s \in SpanIds}
Root == "no parent"
ASSUME SpanAssumption ==
  /\ \A s \in SpanIds : Spans[s].container \in BOOLEAN /\ Spans[s].parent \in SpanIds \cup {Root}
  /\ {OrphanTimeout, MaxOpenSpans, LastInstant, MaxEvents} \subseteq Nat

VARIABLES
  instant,      \* the clock
  opened,       \* the open spans: id -> its parent and when it was last seen
  containers,   \* per run: its open container spans, most recent last
  completed,    \* the spans handed on: <<id, parent, how it was closed>>
  ingested      \* events taken in
assemblerVars == <<instant, opened, containers, completed, ingested>>

AssemblerInit ==
  /\ instant = 0 /\ opened = <<>> /\ containers = [r \in SpanRuns |-> <<>>]
  /\ completed = {} /\ ingested = 0

-----------------------------------------------------------------------------

OpenIds == DOMAIN opened
Without(f, ids) == [s \in DOMAIN f \ ids |-> f[s]]

\* A run's list once the spans of a set are taken off it; the others keep their order.
Retain(list, ids) ==
  LET kept[i \in 0..Len(list)] ==
        IF i = 0 THEN <<>>
        ELSE IF list[i] \in ids THEN kept[i - 1] ELSE Append(kept[i - 1], list[i])
  IN kept[Len(list)]

\* The most recently opened container of the run, but not the span itself.
InferParent(s) ==
  LET others == Retain(containers[Spans[s].run], {s})
  IN IF others = <<>> THEN Root ELSE Last(others)
ParentOf(s) == IF Spans[s].parent # Root THEN Spans[s].parent ELSE InferParent(s)

\* The containers of each run once the spans of a set are closed.
PopContainers(ids) == [r \in SpanRuns |-> Retain(containers[r], ids)]

Ingests == ingested < MaxEvents /\ ingested' = ingested + 1 /\ UNCHANGED instant

\* A start that is redelivered only says the span is alive; the time it names
\* may be older than the one already seen.
OpenSpan(s, at) ==
  /\ Ingests
  /\ IF s \in OpenIds
     THEN opened' = [opened EXCEPT ![s].lastSeen = at] /\ UNCHANGED containers
     ELSE /\ opened' = [t \in OpenIds \cup {s} |->
                          IF t = s THEN [parent |-> ParentOf(s), lastSeen |-> at] ELSE opened[t]]
          /\ containers' = IF Spans[s].container
                           THEN [containers EXCEPT ![Spans[s].run] = Append(@, s)]
                           ELSE containers
  /\ UNCHANGED completed

\* A point of a span that is not open has nothing to attach to.
RecordPoint(s, at) ==
  /\ Ingests /\ s \in OpenIds
  /\ opened' = [opened EXCEPT ![s].lastSeen = at]
  /\ UNCHANGED <<containers, completed>>

\* The end of a span that is not open closes one with a start made up for it.
CloseSpan(s) ==
  /\ Ingests
  /\ completed' = completed \cup
       {IF s \in OpenIds THEN <<s, opened[s].parent, "event">>
                         ELSE <<s, ParentOf(s), "synthesised">>}
  /\ opened' = Without(opened, {s})
  /\ containers' = PopContainers({s})

\* Spans quiet for the timeout, and over the cap the ones least recently seen.
Stale(ids) ==
  LET quiet == {s \in OpenIds : opened[s].lastSeen <= instant - OrphanTimeout}
      excess == Cardinality(OpenIds) - Cardinality(quiet) - MaxOpenSpans
  IN /\ quiet \subseteq ids /\ ids \subseteq OpenIds
     /\ Cardinality(ids) = Cardinality(quiet) + (IF excess > 0 THEN excess ELSE 0)
     /\ \A s \in ids \ quiet, t \in OpenIds \ ids : opened[s].lastSeen <= opened[t].lastSeen

TimedOut(ids) == {<<s, opened[s].parent, "timeout">> : s \in ids}

\* Swept spans that stay on their run's list.
SweepLeavingContainers(ids) ==
  /\ Stale(ids) /\ ids # {}
  /\ completed' = completed \cup TimedOut(ids)
  /\ opened' = Without(opened, ids)
  /\ UNCHANGED <<instant, containers, ingested>>

Sweep(ids) ==
  /\ Stale(ids) /\ ids # {}
  /\ completed' = completed \cup TimedOut(ids)
  /\ opened' = Without(opened, ids)
  /\ containers' = PopContainers(ids)
  /\ UNCHANGED <<instant, ingested>>

Drain ==
  /\ OpenIds # {}
  /\ completed' = completed \cup TimedOut(OpenIds)
  /\ opened' = <<>>
  /\ containers' = PopContainers(OpenIds)
  /\ UNCHANGED <<instant, ingested>>

NextInstant ==
  /\ instant < LastInstant
  /\ instant' = instant + 1
  /\ UNCHANGED <<opened, containers, completed, ingested>>

AssemblerNext ==
  \/ NextInstant \/ Drain
  \/ \E ids \in SUBSET SpanIds : Sweep(ids)
  \/ \E s \in SpanIds :
       \/ CloseSpan(s)
       \/ \E at \in 0..instant : OpenSpan(s, at) \/ RecordPoint(s, at)

AssemblerSpec == AssemblerInit /\ [][AssemblerNext]_assemblerVars

-----------------------------------------------------------------------------
(* Properties.                                                             *)

AssemblerTypeOK ==
  /\ instant \in 0..LastInstant /\ ingested \in 0..MaxEvents
  /\ OpenIds \subseteq SpanIds
  /\ \A s \in OpenIds : opened[s].parent \in SpanIds \cup {Root} /\ opened[s].lastSeen \in Nat
  /\ containers \in [SpanRuns -> Seq(SpanIds)]

\* assembler.rs open_span, close_span, sweep, drain and pop_container: the list
\* that parents are inferred from names the open container spans of the run, each
\* once, after any loss, repetition or reordering of starts and ends; so a span
\* that names no parent never hangs under one that was closed before it opened.
ContainersAreOpen ==
  \A r \in SpanRuns :
    /\ ToSet(containers[r]) = {s \in OpenIds : Spans[s].run = r /\ Spans[s].container}
    /\ IsInjective(containers[r])
=============================================================================
