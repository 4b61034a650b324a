------------------------ MODULE WorkflowStreamProofs ------------------------
(***************************************************************************)
(* WorkflowStream, for every set of messages, callers and publishers:      *)
(* type correctness, no stale decision, no lost fact, that it implements   *)
(* DecisionLog, and, where rows are read in the order they were written,   *)
(* that the log tells the decisions in order.                              *)
(***************************************************************************)
EXTENDS WorkflowStream, TLAPS

\* What a publisher holds is committed, and what it is about to mark is on the
\* log: why marking, at whatever moment it comes, deletes no unpublished row.
BatchesAreSafe ==
    \A p \in Publisher :
        /\ Elements(drain[p].batch) \subseteq Committed
        /\ drain[p].at = "sent" => Elements(drain[p].batch) \subseteq Elements(log)

\* Nothing is pending or public before its decision has committed.
OnlyCommitted == outbox \subseteq Committed /\ Elements(log) \subseteq Committed

IInv ==
    /\ TypeOK
    /\ NoStaleDecision
    /\ NoFactLost
    /\ OnlyCommitted
    /\ BatchesAreSafe

-----------------------------------------------------------------------------

\* A message's facts are facts.
LEMMA FactsAreFacts == \A m \in Message : FactsOf(m) \subseteq Fact
  BY DEF Fact

\* Appending a decision adds its message to the inbox, and only that.
LEMMA SeenAfterAppend ==
  ASSUME NEW d \in Decision, stream \in Seq(Decision), stream' = Append(stream, d)
  PROVE  Seen' = Seen \cup {d.id}
  <1>1. /\ Len(stream') = Len(stream) + 1
        /\ \A i \in 1..Len(stream) : stream'[i] = stream[i]
        /\ stream'[Len(stream) + 1] = d
        /\ Len(stream) \in Nat
        /\ DOMAIN stream = 1..Len(stream)
        /\ DOMAIN stream' = 1..(Len(stream) + 1)
    OBVIOUS
  <1>2. Seen' \subseteq Seen \cup {d.id}
    BY <1>1 DEF Seen
  <1>3. Seen \subseteq Seen'
    BY <1>1 DEF Seen
  <1>4. d.id \in Seen'
    BY <1>1 DEF Seen
  <1> QED BY <1>2, <1>3, <1>4

\* The log after a batch holds what it held and the batch.
LEMMA ElementsAfterSend ==
  ASSUME NEW s \in Seq(Fact), NEW b \in Seq(Fact)
  PROVE  Elements(s \o b) = Elements(s) \cup Elements(b)
  <1> DEFINE c == s \o b
  <1>1. /\ Len(c) = Len(s) + Len(b)
        /\ Len(s) \in Nat /\ Len(b) \in Nat
        /\ DOMAIN s = 1..Len(s) /\ DOMAIN b = 1..Len(b) /\ DOMAIN c = 1..Len(c)
        /\ \A i \in 1..Len(s) : c[i] = s[i]
        /\ \A i \in 1..Len(b) : c[Len(s) + i] = b[i]
    OBVIOUS
  <1>2. Elements(s) \subseteq Elements(c)
    BY <1>1 DEF Elements
  <1>3. Elements(b) \subseteq Elements(c)
    <2> SUFFICES ASSUME NEW i \in 1..Len(b) PROVE b[i] \in Elements(c)
      BY <1>1 DEF Elements
    <2>1. Len(s) + i \in DOMAIN c /\ c[Len(s) + i] = b[i]
      BY <1>1
    <2> QED BY <2>1 DEF Elements
  <1>4. Elements(c) \subseteq Elements(s) \cup Elements(b)
    <2> SUFFICES ASSUME NEW i \in 1..Len(c) PROVE c[i] \in Elements(s) \cup Elements(b)
      BY <1>1 DEF Elements
    <2>1. CASE i \in 1..Len(s)
      BY <2>1, <1>1 DEF Elements
    <2>2. CASE i \notin 1..Len(s)
      <3>1. i - Len(s) \in 1..Len(b)
        BY <2>2, <1>1
      <3>2. c[i] = b[i - Len(s)]
        BY <3>1, <1>1
      <3> QED BY <3>1, <3>2, <1>1 DEF Elements
    <2> QED BY <2>1, <2>2
  <1> QED BY <1>2, <1>3, <1>4

\* The initial state satisfies the inductive invariant.
LEMMA InitIInv == Init => IInv
  <1> SUFFICES ASSUME Init PROVE IInv
    OBVIOUS
  <1> USE StreamAssumption DEF Init
  <1>1. TypeOK
    BY DEF TypeOK, Call, NoCall, Drain, NoDrain
  <1>2. NoStaleDecision
    BY DEF NoStaleDecision
  <1>3. NoFactLost /\ OnlyCommitted
    BY DEF NoFactLost, OnlyCommitted, Committed, Seen, Elements
  <1>4. BatchesAreSafe
    BY DEF BatchesAreSafe, NoDrain, Elements
  <1> QED BY <1>1, <1>2, <1>3, <1>4 DEF IInv

\* Updating one caller's record keeps the type.
LEMMA CallTypes ==
  ASSUME TypeOK, NEW h \in Handler, NEW c \in Call, c.at # "idle" => c.msg \in Message,
         call' = [call EXCEPT ![h] = c]
  PROVE  /\ call' \in [Handler -> Call]
         /\ \A g \in Handler : call'[g].at # "idle" => call'[g].msg \in Message
  <1>1. call' \in [Handler -> Call]
    BY DEF TypeOK
  <1>2. ASSUME NEW g \in Handler PROVE call'[g] = IF g = h THEN c ELSE call[g]
    BY DEF TypeOK
  <1> QED BY <1>1, <1>2 DEF TypeOK

\* What Load and a conflict write in a caller's record is a caller's record.
LEMMA CallUpdates ==
  ASSUME NEW d \in Call, NEW v \in Nat, NEW n \in 0..MaxRetries
  PROVE  /\ NoCall \in Call
         /\ [d EXCEPT !.at = "deciding", !.version = v] \in Call
         /\ [d EXCEPT !.at = "deciding", !.version = v].msg = d.msg
         /\ [d EXCEPT !.at = "loading", !.tries = n] \in Call
         /\ [d EXCEPT !.at = "loading", !.tries = n].msg = d.msg
  <1>1. NoCall \in Call
    BY StreamAssumption DEF Call, NoCall
  <1>2. /\ [d EXCEPT !.at = "deciding", !.version = v] \in Call
        /\ [d EXCEPT !.at = "deciding", !.version = v].msg = d.msg
    BY DEF Call
  <1>3. /\ [d EXCEPT !.at = "loading", !.tries = n] \in Call
        /\ [d EXCEPT !.at = "loading", !.tries = n].msg = d.msg
    BY DEF Call
  <1> QED BY <1>1, <1>2, <1>3

\* Updating one publisher's record keeps the type and the others.
LEMMA DrainTypes ==
  ASSUME TypeOK, NEW p \in Publisher, NEW d \in Drain, drain' = [drain EXCEPT ![p] = d]
  PROVE  /\ drain' \in [Publisher -> Drain]
         /\ drain'[p] = d
         /\ \A q \in Publisher \ {p} : drain'[q] = drain[q]
  BY DEF TypeOK

\* A step of a caller that appends nothing leaves everything but its own place
\* alone.
LEMMA CallOnly ==
  ASSUME IInv, TypeOK', UNCHANGED <<stream, outbox, log, drain>>
  PROVE  IInv'
  <1>1. Committed' = Committed /\ Elements(log)' = Elements(log)
    BY DEF Committed, Seen, Elements
  <1> QED BY <1>1 DEF IInv, NoStaleDecision, NoFactLost, OnlyCommitted, BatchesAreSafe, Elements

\* Every step preserves the inductive invariant.
LEMMA NextIInv == IInv /\ [Next]_vars => IInv'
  <1> SUFFICES ASSUME IInv, [Next]_vars PROVE IInv'
    OBVIOUS
  <1> USE StreamAssumption
  <1>1. ASSUME NEW h \in Handler, NEW m \in Message, Deliver(h, m) PROVE IInv'
    <2> DEFINE c == [at |-> "loading", msg |-> m, version |-> 0, tries |-> 0]
    <2>a. c \in Call /\ c.msg \in Message
      BY DEF Call
    <2>b. call' = [call EXCEPT ![h] = c]
      BY <1>1 DEF Deliver
    <2>z. /\ call' \in [Handler -> Call]
          /\ \A g \in Handler : call'[g].at # "idle" => call'[g].msg \in Message
      BY <2>a, <2>b, CallTypes DEF IInv
    <2>1. TypeOK'
      BY <1>1, <2>z DEF IInv, TypeOK, Deliver
    <2> QED BY <1>1, <2>1, CallOnly DEF Deliver
  <1>2. ASSUME NEW h \in Handler, Load(h) PROVE IInv'
    <2>1. Len(stream) \in Nat
      BY DEF IInv, TypeOK
    <2> DEFINE c == IF call[h].msg \in Seen THEN NoCall
                    ELSE [call[h] EXCEPT !.at = "deciding", !.version = Len(stream)]
    <2>a. call[h] \in Call /\ call[h].msg \in Message
      BY <1>2 DEF IInv, TypeOK, Load
    <2>b. c \in Call /\ (c.at # "idle" => c.msg \in Message)
      <3>1. NoCall \in Call /\ NoCall.at = "idle"
        BY StreamAssumption DEF Call, NoCall
      <3>2. /\ [call[h] EXCEPT !.at = "deciding", !.version = Len(stream)] \in Call
            /\ [call[h] EXCEPT !.at = "deciding", !.version = Len(stream)].msg \in Message
        BY <2>1, <2>a DEF Call
      <3> QED BY <3>1, <3>2
    <2>c. call' = [call EXCEPT ![h] = c]
      BY <1>2 DEF Load
    <2>z. /\ call' \in [Handler -> Call]
          /\ \A g \in Handler : call'[g].at # "idle" => call'[g].msg \in Message
      BY <2>b, <2>c, CallTypes DEF IInv
    <2>2. TypeOK'
      BY <1>2, <2>z DEF IInv, TypeOK, Load
    <2> QED BY <1>2, <2>2, CallOnly DEF Load
  <1>3. ASSUME NEW h \in Handler, Abandon(h) \/ AppendDuplicate(h) \/ AppendContended(h)
        PROVE IInv'
    <2>1. call' = [call EXCEPT ![h] = NoCall] /\ UNCHANGED <<stream, outbox, log, drain, faults>>
      BY <1>3 DEF Abandon, AppendDuplicate, AppendContended
    <2>2. TypeOK'
      BY <2>1 DEF IInv, TypeOK, Call, NoCall
    <2> QED BY <2>1, <2>2, CallOnly
  <1>4. ASSUME NEW h \in Handler, AppendConflict(h) PROVE IInv'
    <2> DEFINE c == [call[h] EXCEPT !.at = "loading", !.tries = call[h].tries + 1]
    <2>a. call[h] \in Call /\ call[h].msg \in Message
      BY <1>4 DEF IInv, TypeOK, AppendConflict
    <2>1. call[h].tries + 1 \in 0..MaxRetries
      BY <1>4, <2>a DEF Call, AppendConflict
    <2>b. c \in Call /\ c.msg \in Message
      BY <2>a, <2>1, CallUpdates
    <2>c. call' = [call EXCEPT ![h] = c]
      BY <1>4 DEF AppendConflict
    <2>z. /\ call' \in [Handler -> Call]
          /\ \A g \in Handler : call'[g].at # "idle" => call'[g].msg \in Message
      BY <2>b, <2>c, CallTypes DEF IInv
    <2>2. TypeOK'
      BY <1>4, <2>z DEF IInv, TypeOK, AppendConflict
    <2> QED BY <1>4, <2>2, CallOnly DEF AppendConflict
  <1>5. ASSUME NEW h \in Handler, AppendCommits(h) PROVE IInv'
    <2> DEFINE d == [id |-> call[h].msg, on |-> call[h].version]
    <2>1. d \in Decision /\ d.id = call[h].msg /\ d.on = Len(stream) /\ d.id \in Message
      BY <1>5 DEF IInv, TypeOK, AppendCommits, Decision, Call
    <2>2. stream \in Seq(Decision) /\ stream' = Append(stream, d)
      BY <1>5 DEF IInv, TypeOK, AppendCommits
    <2>3. Committed' = Committed \cup FactsOf(d.id)
      BY <2>1, <2>2, SeenAfterAppend DEF Committed
    <2>4. TypeOK'
      <3>1. stream' \in Seq(Decision)
        BY <2>1, <2>2
      <3>2. outbox' \subseteq Fact
        BY <1>5, <2>1, FactsAreFacts DEF IInv, TypeOK, AppendCommits
      <3> QED BY <1>5, <3>1, <3>2 DEF IInv, TypeOK, AppendCommits, Call, NoCall
    <2>5. NoStaleDecision'
      <3>1. /\ DOMAIN stream' = 1..(Len(stream) + 1)
            /\ DOMAIN stream = 1..Len(stream)
            /\ Len(stream) \in Nat
            /\ \A i \in 1..Len(stream) : stream'[i] = stream[i]
            /\ stream'[Len(stream) + 1] = d
        BY <2>1, <2>2
      <3> SUFFICES ASSUME NEW i \in 1..(Len(stream) + 1) PROVE stream'[i].on = i - 1
        BY <3>1 DEF NoStaleDecision
      <3>2. CASE i = Len(stream) + 1
        BY <3>1, <3>2, <2>1
      <3>3. CASE i \in 1..Len(stream)
        BY <3>1, <3>3 DEF IInv, NoStaleDecision
      <3> QED BY <3>1, <3>2, <3>3
    <2>6. NoFactLost' /\ OnlyCommitted'
      BY <1>5, <2>1, <2>3 DEF IInv, NoFactLost, OnlyCommitted, AppendCommits, Elements
    <2>7. BatchesAreSafe'
      <3>1. drain' = drain /\ log' = log
        BY <1>5 DEF AppendCommits
      <3>2. Committed \subseteq Committed'
        BY <2>3
      <3>3. ASSUME NEW q \in Publisher
            PROVE  /\ Elements(drain[q].batch) \subseteq Committed
                   /\ drain[q].at = "sent" => Elements(drain[q].batch) \subseteq Elements(log)
        BY DEF IInv, BatchesAreSafe
      <3>4. Elements(log)' = Elements(log)
        BY <3>1 DEF Elements
      <3>5. ASSUME NEW q \in Publisher
            PROVE  Elements(drain[q].batch)' = Elements(drain[q].batch)
        BY <3>1 DEF Elements
      <3> QED BY <3>1, <3>2, <3>3, <3>4, <3>5 DEF BatchesAreSafe
    <2> QED BY <2>4, <2>5, <2>6, <2>7 DEF IInv
  <1>6. ASSUME NEW p \in Publisher, Read(p) PROVE IInv'
    <2>0. PICK rows \in SUBSET outbox :
            /\ IsPending(rows)
            /\ \E n \in 1..Batch : \E b \in [1..n -> rows \ Undecodable] :
                /\ IsBatch(b, rows)
                /\ drain' = [drain EXCEPT ![p] = [at |-> "read", batch |-> b]]
      BY <1>6 DEF Read
    <2>a. PICK n \in 1..Batch : \E b \in [1..n -> rows \ Undecodable] :
            /\ IsBatch(b, rows)
            /\ drain' = [drain EXCEPT ![p] = [at |-> "read", batch |-> b]]
      BY <2>0
    <2>1. PICK b \in [1..n -> rows \ Undecodable] :
            /\ IsBatch(b, rows)
            /\ drain' = [drain EXCEPT ![p] = [at |-> "read", batch |-> b]]
      BY <2>a
    <2>2. b \in Seq(Fact) /\ Elements(b) \subseteq outbox
      <3>1. \A i \in 1..n : b[i] \in outbox /\ b[i] \in Fact
        BY <2>1 DEF IInv, TypeOK
      <3>2. b \in [1..n -> Fact] /\ n \in Nat
        BY <2>1, <3>1
      <3>3. DOMAIN b = 1..n
        BY <2>1
      <3>4. Elements(b) \subseteq outbox
        BY <3>1, <3>3 DEF Elements
      <3>5. b \in Seq(Fact)
        BY <3>2
      <3> QED BY <3>4, <3>5
    <2>3. UNCHANGED <<stream, outbox, log, call, faults>>
      BY <1>6 DEF Read
    <2>4. Committed' = Committed /\ Elements(log)' = Elements(log)
      BY <2>3 DEF Committed, Seen, Elements
    <2>5. TypeOK'
      BY <2>1, <2>2, <2>3 DEF IInv, TypeOK, Drain
    <2>6. BatchesAreSafe'
      <3> SUFFICES ASSUME NEW q \in Publisher
                   PROVE  /\ Elements(drain'[q].batch) \subseteq Committed
                          /\ drain'[q].at = "sent" =>
                                Elements(drain'[q].batch) \subseteq Elements(log)
        BY <2>4 DEF BatchesAreSafe, Elements
      <3>1. CASE q = p
        BY <2>1, <2>2, <3>1 DEF IInv, TypeOK, OnlyCommitted
      <3>2. CASE q # p
        BY <2>1, <3>2 DEF IInv, TypeOK, BatchesAreSafe
      <3> QED BY <3>1, <3>2
    <2> QED BY <2>3, <2>4, <2>5, <2>6 DEF IInv, NoStaleDecision, NoFactLost, OnlyCommitted
  <1>7. ASSUME NEW p \in Publisher, Send(p) PROVE IInv'
    <2>1. log \in Seq(Fact) /\ drain[p].batch \in Seq(Fact)
      BY DEF IInv, TypeOK, Drain
    <2>2. Elements(log)' = Elements(log) \cup Elements(drain[p].batch)
      <3>1. Elements(log \o drain[p].batch) = Elements(log) \cup Elements(drain[p].batch)
        BY <2>1, ElementsAfterSend
      <3>2. Elements(log)' = Elements(log \o drain[p].batch)
        BY <1>7 DEF Send, Elements
      <3> QED BY <3>1, <3>2
    <2>3. Committed' = Committed
      BY <1>7 DEF Send, Committed, Seen
    <2>a. [drain[p] EXCEPT !.at = "sent"] \in Drain
      BY DEF IInv, TypeOK, Drain
    <2>b. drain' = [drain EXCEPT ![p] = [drain[p] EXCEPT !.at = "sent"]]
      BY <1>7 DEF Send
    <2>c. drain' \in [Publisher -> Drain]
      BY <2>a, <2>b, DrainTypes DEF IInv
    <2>d. log' \in Seq(Fact)
      BY <1>7, <2>1 DEF Send
    <2>4. TypeOK'
      BY <1>7, <2>c, <2>d DEF IInv, TypeOK, Send
    <2>5. NoStaleDecision'
      BY <1>7 DEF IInv, NoStaleDecision, Send
    <2>6. NoFactLost' /\ OnlyCommitted'
      BY <1>7, <2>2, <2>3 DEF IInv, NoFactLost, OnlyCommitted, BatchesAreSafe, Send
    <2>7. BatchesAreSafe'
      <3> SUFFICES ASSUME NEW q \in Publisher
                   PROVE  /\ Elements(drain'[q].batch) \subseteq Committed
                          /\ drain'[q].at = "sent" =>
                                Elements(drain'[q].batch) \subseteq Elements(log)'
        BY <2>3 DEF BatchesAreSafe, Elements
      <3>1. drain'[q].batch = drain[q].batch /\ (q # p => drain'[q] = drain[q])
        BY <1>7 DEF Send, IInv, TypeOK, Drain
      <3> QED BY <2>2, <3>1 DEF IInv, BatchesAreSafe
    <2> QED BY <2>4, <2>5, <2>6, <2>7 DEF IInv
  <1>8. ASSUME NEW p \in Publisher, Mark(p) PROVE IInv'
    <2>1. Committed' = Committed /\ Elements(log)' = Elements(log)
      BY <1>8 DEF Mark, Committed, Seen, Elements
    <2>2. TypeOK'
      BY <1>8 DEF IInv, TypeOK, Mark, Drain, NoDrain
    <2>3. NoFactLost' /\ OnlyCommitted'
      BY <1>8, <2>1 DEF IInv, NoFactLost, OnlyCommitted, BatchesAreSafe, Mark
    <2>4. BatchesAreSafe'
      <3>1. NoDrain \in Drain /\ Elements(NoDrain.batch) = {}
        BY DEF NoDrain, Drain, Elements
      <3>2. drain' = [drain EXCEPT ![p] = NoDrain]
        BY <1>8 DEF Mark
      <3>3. drain'[p] = NoDrain /\ \A q \in Publisher \ {p} : drain'[q] = drain[q]
        BY <3>1, <3>2, DrainTypes DEF IInv
      <3> SUFFICES ASSUME NEW q \in Publisher
                   PROVE  /\ Elements(drain'[q].batch) \subseteq Committed
                          /\ drain'[q].at = "sent" =>
                                Elements(drain'[q].batch) \subseteq Elements(log)
        BY <2>1 DEF BatchesAreSafe, Elements
      <3> QED BY <3>1, <3>3 DEF IInv, BatchesAreSafe
    <2>5. NoStaleDecision'
      BY <1>8 DEF IInv, NoStaleDecision, Mark
    <2> QED BY <2>2, <2>3, <2>4, <2>5 DEF IInv
  <1>9. ASSUME NEW p \in Publisher, Falter(p) PROVE IInv'
    <2>1. Committed' = Committed /\ Elements(log)' = Elements(log)
      BY <1>9 DEF Falter, Committed, Seen, Elements
    <2>2. TypeOK'
      BY <1>9 DEF IInv, TypeOK, Falter, Drain, NoDrain
    <2>3. NoFactLost' /\ OnlyCommitted' /\ NoStaleDecision'
      BY <1>9, <2>1 DEF IInv, NoFactLost, OnlyCommitted, NoStaleDecision, Falter
    <2>4. BatchesAreSafe'
      <3>1. NoDrain \in Drain /\ Elements(NoDrain.batch) = {}
        BY DEF NoDrain, Drain, Elements
      <3>2. drain' = [drain EXCEPT ![p] = NoDrain]
        BY <1>9 DEF Falter
      <3>3. drain'[p] = NoDrain /\ \A q \in Publisher \ {p} : drain'[q] = drain[q]
        BY <3>1, <3>2, DrainTypes DEF IInv
      <3> SUFFICES ASSUME NEW q \in Publisher
                   PROVE  /\ Elements(drain'[q].batch) \subseteq Committed
                          /\ drain'[q].at = "sent" =>
                                Elements(drain'[q].batch) \subseteq Elements(log)
        BY <2>1 DEF BatchesAreSafe, Elements
      <3> QED BY <3>1, <3>3 DEF IInv, BatchesAreSafe
    <2> QED BY <2>2, <2>3, <2>4 DEF IInv
  <1>10. CASE UNCHANGED vars
    <2>1. TypeOK'
      BY <1>10 DEF IInv, TypeOK, vars
    <2> QED BY <1>10, <2>1, CallOnly DEF vars
  <1> QED
    BY <1>1, <1>2, <1>3, <1>4, <1>5, <1>6, <1>7, <1>8, <1>9, <1>10 DEF Next, Handle, Publish

\* The inductive invariant holds in every reachable state.
LEMMA Invariant == Spec => []IInv
  BY InitIInv, NextIInv, PTL DEF Spec

\* The state is well typed for any number of callers and publishers; in
\* particular decide_and_append never tries more often than it may.
THEOREM TypeCorrect == Spec => []TypeOK
  <1>1. IInv => TypeOK
    BY DEF IInv
  <1> QED BY Invariant, <1>1, PTL

\* However many callers race, every decision was made on exactly the stream it
\* was appended to (decide_and_append and append's version check).
THEOREM DecisionsAreFresh == Spec => []NoStaleDecision
  <1>1. IInv => NoStaleDecision
    BY DEF IInv
  <1> QED BY Invariant, <1>1, PTL

\* However many publishers crash, race or half-send, a committed fact is
\* pending or on the log (publish_pending marks only what its sink took).
THEOREM FactsSurvive == Spec => []NoFactLost
  <1>1. IInv => NoFactLost
    BY DEF IInv
  <1> QED BY Invariant, <1>1, PTL

-----------------------------------------------------------------------------
(* Implementing DecisionLog *)

\* What the abstract specification calls decided is the inbox.
LEMMA DecidedIsSeen == stream \in Seq(Decision) => DL!Decided = Seen
  BY DEF DL!Decided, Seen

\* Racing callers, conflicts and retries, and publishers that crash and
\* re-send, show the outside one decision per message, in one order, and no
\* fact before its decision.
THEOREM Implements == Spec => ImplementsDecisionLog
  <1>1. Init => DL!Init
    <2> SUFFICES ASSUME Init PROVE DL!Init
      OBVIOUS
    <2> QED BY DEF Init, DL!Init, Elements
  <1>2. IInv /\ IInv' /\ [Next]_vars => [DL!Next]_DL!vars
    <2> SUFFICES ASSUME IInv, IInv', [Next]_vars PROVE [DL!Next]_DL!vars
      OBVIOUS
    <2>0. /\ stream \in Seq(Decision)
          /\ DL!Decided = Seen
          /\ Len(stream) \in Nat
      BY DecidedIsSeen DEF IInv, TypeOK
    <2>1. ASSUME UNCHANGED <<stream, log>> PROVE UNCHANGED DL!vars
      BY <2>1 DEF DL!vars, Elements
    <2>2. ASSUME NEW h \in Handler, AppendCommits(h) PROVE DL!Next
      <3> DEFINE d == [id |-> call[h].msg, on |-> call[h].version]
                 ids(s) == [i \in DOMAIN s |-> s[i].id]
      <3>1. d \in Decision /\ d.id = call[h].msg /\ d.id \in Message /\ d.id \notin Seen
        BY <2>2 DEF IInv, TypeOK, AppendCommits, Decision, Call
      <3>2. stream' = Append(stream, d) /\ log' = log
        BY <2>2 DEF AppendCommits
      <3>3. ids(stream') = Append(ids(stream), d.id)
        <4>a. DOMAIN stream = 1..Len(stream) /\ \A i \in 1..Len(stream) : stream[i] \in Decision
          BY <2>0
        <4>b. \A i \in 1..Len(stream) : stream[i].id \in Message
          BY <4>a DEF Decision
        <4>0. ids(stream) \in [1..Len(stream) -> Message]
          BY <4>a, <4>b
        <4>1. ids(stream) \in Seq(Message) /\ Len(ids(stream)) = Len(stream)
          BY <2>0, <4>0
        <4>2. /\ DOMAIN ids(stream') = 1..(Len(stream) + 1)
              /\ DOMAIN Append(ids(stream), d.id) = 1..(Len(stream) + 1)
          BY <2>0, <3>1, <3>2, <4>1
        <4>3. ASSUME NEW i \in 1..(Len(stream) + 1)
              PROVE  ids(stream')[i] = Append(ids(stream), d.id)[i]
          <5>1. CASE i = Len(stream) + 1
            BY <2>0, <3>1, <3>2, <4>1, <5>1
          <5>2. CASE i \in 1..Len(stream)
            BY <2>0, <3>1, <3>2, <4>1, <5>2
          <5> QED BY <2>0, <5>1, <5>2
        <4>4. ids(stream') = [i \in 1..(Len(stream) + 1) |-> ids(stream')[i]]
          BY <4>2
        <4>5. Append(ids(stream), d.id)
                = [i \in 1..(Len(stream) + 1) |-> Append(ids(stream), d.id)[i]]
          BY <4>1, <4>2, <3>1
        <4> QED BY <4>3, <4>4, <4>5
      <3>4. PICK m \in Message : m = d.id
        BY <3>1
      <3>5. DL!Decide(m)
        BY <2>0, <3>1, <3>2, <3>3, <3>4 DEF DL!Decide, Elements
      <3> QED BY <3>5 DEF DL!Next
    <2>3. ASSUME NEW p \in Publisher, Send(p) PROVE DL!Next
      <3> DEFINE facts == Elements(drain[p].batch)
      <3>1. facts \subseteq Committed
        BY DEF IInv, BatchesAreSafe
      <3>2. Committed = UNION {DL!FactsOf(m) : m \in DL!Decided}
        BY <2>0 DEF Committed, FactsOf, DL!FactsOf
      <3>3. Elements(log)' = Elements(log) \cup facts
        <4>1. log \in Seq(Fact) /\ drain[p].batch \in Seq(Fact)
          BY DEF IInv, TypeOK, Drain
        <4>2. Elements(log \o drain[p].batch) = Elements(log) \cup facts
          BY <4>1, ElementsAfterSend
        <4> QED BY <2>3, <4>2 DEF Send, Elements
      <3>4. stream' = stream
        BY <2>3 DEF Send
      <3>5. DL!Publish(facts)
        BY <3>1, <3>2, <3>3, <3>4 DEF DL!Publish, Elements
      <3> QED BY <3>1, <3>2, <3>5 DEF DL!Next
    <2>4. ASSUME NEW h \in Handler, Handle(h), ~AppendCommits(h)
          PROVE  UNCHANGED <<stream, log>>
      BY <2>4 DEF Handle, Deliver, Load, Abandon, AppendDuplicate, AppendConflict, AppendContended
    <2>5. ASSUME NEW p \in Publisher, Publish(p) \/ Falter(p), ~Send(p)
          PROVE  UNCHANGED <<stream, log>>
      BY <2>5 DEF Publish, Read, Mark, Falter
    <2>6. ASSUME UNCHANGED vars PROVE UNCHANGED <<stream, log>>
      BY <2>6 DEF vars
    <2> QED BY <2>1, <2>2, <2>3, <2>4, <2>5, <2>6 DEF Next
  <1> QED BY <1>1, <1>2, Invariant, PTL DEF Spec, ImplementsDecisionLog, DL!Spec

-----------------------------------------------------------------------------
(* The order of the log *)

\* No message is decided twice.
OnceEach == \A i, j \in DOMAIN stream : stream[i].id = stream[j].id => i = j

\* What a publisher holds may be sent at any later moment: everything written
\* before one of its facts is on the log already or ahead of it in the batch.
BatchInOrder(b) ==
    \A j \in DOMAIN b : \A f \in Committed \ Undecodable :
        WrittenBefore(f, b[j]) => f \in Elements(log) \/ \E i \in 1..(j - 1) : b[i] = f

BatchesInOrder == \A p \in Publisher : BatchInOrder(drain[p].batch)

OInv == IInv /\ OnceEach /\ LogInOrder /\ BatchesInOrder

\* A committed fact is known by its message, and its message is in the inbox.
LEMMA CommittedFacts ==
  /\ \A f \in Committed : f[1] \in Seen
  /\ \A m \in Seen : FactsOf(m) \subseteq Committed
  /\ \A f \in Committed : f \in FactsOf(f[1])
  BY DEF Committed, FactsOf

\* With no message decided twice, the order of writing is asymmetric.
LEMMA Asymmetric ==
  ASSUME stream \in Seq(Decision), OnceEach, NEW f \in Fact, NEW g \in Fact,
         WrittenBefore(f, g)
  PROVE  ~WrittenBefore(g, f)
  <1>0. f[2] \in Nat /\ g[2] \in Nat
    BY StreamAssumption DEF Fact, FactsOf
  <1>1. DOMAIN stream \subseteq Nat
    OBVIOUS
  <1>2. CASE f[1] = g[1] /\ f[2] < g[2]
    BY <1>0, <1>1, <1>2 DEF WrittenBefore, OnceEach
  <1>3. CASE \E i, j \in DOMAIN stream : i < j /\ stream[i].id = f[1] /\ stream[j].id = g[1]
    BY <1>1, <1>3 DEF WrittenBefore, OnceEach
  <1> QED BY <1>2, <1>3 DEF WrittenBefore

\* A commit writes after everything that is committed, and changes nothing
\* about what was written before it.
LEMMA CommitWritesLast ==
  ASSUME stream \in Seq(Decision), NEW d \in Decision, d.id \notin Seen,
         stream' = Append(stream, d),
         NEW f \in Committed', NEW g \in Committed, WrittenBefore(f, g)'
  PROVE  f \in Committed /\ WrittenBefore(f, g)
  <1>1. /\ Len(stream) \in Nat
        /\ DOMAIN stream = 1..Len(stream)
        /\ DOMAIN stream' = 1..(Len(stream) + 1)
        /\ \A i \in 1..Len(stream) : stream'[i] = stream[i]
        /\ stream'[Len(stream) + 1] = d
    OBVIOUS
  <1>2. g[1] \in Seen
    BY CommittedFacts
  <1>3. f \in FactsOf(f[1])
    BY DEF Committed, FactsOf
  <1>4. CASE f[1] = g[1] /\ f[2] < g[2]
    BY <1>2, <1>3, <1>4, CommittedFacts DEF WrittenBefore
  <1>5. CASE \E i, j \in DOMAIN stream' : i < j /\ stream'[i].id = f[1] /\ stream'[j].id = g[1]
    <2>1. PICK i \in DOMAIN stream', j \in DOMAIN stream' :
            i < j /\ stream'[i].id = f[1] /\ stream'[j].id = g[1]
      BY <1>5
    <2>2. j \in 1..Len(stream)
      BY <1>1, <1>2, <2>1
    <2>3. i \in 1..Len(stream)
      BY <1>1, <2>1, <2>2
    <2>4. stream[i].id = f[1] /\ stream[j].id = g[1]
      BY <1>1, <2>1, <2>2, <2>3
    <2>5. f[1] \in Seen
      BY <1>1, <2>3, <2>4 DEF Seen
    <2> QED BY <1>1, <1>3, <2>1, <2>2, <2>3, <2>4, <2>5, CommittedFacts DEF WrittenBefore
  <1> QED BY <1>4, <1>5 DEF WrittenBefore

\* Initially there is nothing to order.
LEMMA InitOInv == Init => OInv
  <1> SUFFICES ASSUME Init PROVE OInv
    OBVIOUS
  <1>1. OnceEach /\ LogInOrder
    BY DEF Init, OnceEach, LogInOrder
  <1>2. BatchesInOrder
    BY DEF Init, BatchesInOrder, BatchInOrder, NoDrain
  <1> QED BY <1>1, <1>2, InitIInv DEF OInv

\* A step that neither commits nor sends keeps the order, if each publisher
\* keeps its batch or holds one that is in order.
LEMMA QuietOInv ==
  ASSUME OInv, IInv', UNCHANGED <<stream, log>>,
         \A p \in Publisher : BatchInOrder(drain'[p].batch)
  PROVE  OInv'
  <1>1. Committed' = Committed /\ Elements(log)' = Elements(log)
    BY DEF Committed, Seen, Elements
  <1>2. OnceEach' /\ LogInOrder'
    BY <1>1 DEF OInv, OnceEach, LogInOrder, WrittenBefore
  <1>3. BatchesInOrder'
    BY <1>1 DEF BatchesInOrder, BatchInOrder, WrittenBefore
  <1> QED BY <1>2, <1>3 DEF OInv

\* A commit keeps the order: what it writes comes after everything written.
LEMMA CommitOInv ==
  ASSUME OInv, IInv', NEW h \in Handler, AppendCommits(h)
  PROVE  OInv'
  <1> DEFINE d == [id |-> call[h].msg, on |-> call[h].version]
  <1>1. /\ stream \in Seq(Decision) /\ d \in Decision /\ d.id \notin Seen
        /\ stream' = Append(stream, d)
    BY DEF OInv, IInv, TypeOK, AppendCommits, Decision, Call
  <1>2. log' = log /\ drain' = drain
    BY DEF AppendCommits
  <1> HIDE DEF d
  <1>3. OnceEach'
    <2>1. /\ Len(stream) \in Nat
          /\ DOMAIN stream = 1..Len(stream)
          /\ DOMAIN stream' = 1..(Len(stream) + 1)
          /\ \A i \in 1..Len(stream) : stream'[i] = stream[i]
          /\ stream'[Len(stream) + 1] = d
      BY <1>1
    <2>2. \A i \in 1..Len(stream) : stream[i].id # d.id
      BY <1>1, <2>1 DEF Seen
    <2> SUFFICES ASSUME NEW i \in DOMAIN stream', NEW j \in DOMAIN stream',
                        stream'[i].id = stream'[j].id
                 PROVE  i = j
      BY DEF OnceEach
    <2>3. CASE i \in 1..Len(stream) /\ j \in 1..Len(stream)
      BY <2>1, <2>3 DEF OInv, OnceEach
    <2>4. CASE i = Len(stream) + 1 \/ j = Len(stream) + 1
      BY <2>1, <2>2, <2>4
    <2> QED BY <2>1, <2>3, <2>4
  <1>4. LogInOrder'
    <2> SUFFICES ASSUME NEW j \in DOMAIN log, NEW f \in Committed' \ Undecodable,
                        WrittenBefore(f, log[j])'
                 PROVE  \E i \in 1..(j - 1) : log[i] = f
      BY <1>2 DEF LogInOrder
    <2>1. log[j] \in Committed
      BY DEF OInv, IInv, OnlyCommitted, Elements
    <2>2. PICK g \in Committed : g = log[j]
      BY <2>1
    <2>3. WrittenBefore(f, g)'
      BY <1>2, <2>2 DEF WrittenBefore
    <2>4. f \in Committed /\ WrittenBefore(f, g)
      BY <1>1, <2>3, CommitWritesLast
    <2> QED BY <2>2, <2>4 DEF OInv, LogInOrder
  <1>5. BatchesInOrder'
    <2> SUFFICES ASSUME NEW p \in Publisher, NEW j \in DOMAIN drain[p].batch,
                        NEW f \in Committed' \ Undecodable,
                        WrittenBefore(f, drain[p].batch[j])'
                 PROVE  \/ f \in Elements(log)
                        \/ \E i \in 1..(j - 1) : drain[p].batch[i] = f
      BY <1>2 DEF BatchesInOrder, BatchInOrder, Elements
    <2>1. PICK g \in Committed : g = drain[p].batch[j]
      BY DEF OInv, IInv, BatchesAreSafe, Elements
    <2>2. WrittenBefore(f, g)'
      BY <1>2, <2>1 DEF WrittenBefore
    <2>3. f \in Committed /\ WrittenBefore(f, g)
      BY <1>1, <2>2, CommitWritesLast
    <2> QED BY <2>1, <2>3 DEF OInv, BatchesInOrder, BatchInOrder
  <1> QED BY <1>3, <1>4, <1>5 DEF OInv

\* A send keeps the order: the batch goes behind a log that holds whatever the
\* batch itself does not.
LEMMA SendOInv ==
  ASSUME OInv, IInv', NEW p \in Publisher, Send(p)
  PROVE  OInv'
  <1> DEFINE b == drain[p].batch
  <1>1. log \in Seq(Fact) /\ b \in Seq(Fact) /\ log' = log \o b /\ stream' = stream
    BY DEF OInv, IInv, TypeOK, Drain, Send
  <1>2. /\ Len(log) \in Nat /\ Len(b) \in Nat
        /\ DOMAIN log = 1..Len(log) /\ DOMAIN b = 1..Len(b)
        /\ DOMAIN log' = 1..(Len(log) + Len(b))
        /\ \A i \in 1..Len(log) : log'[i] = log[i]
        /\ \A i \in 1..Len(b) : log'[Len(log) + i] = b[i]
    BY <1>1
  <1>3. Committed' = Committed /\ Elements(log) \subseteq Elements(log)'
    <2>1. Committed' = Committed
      BY <1>1 DEF Committed, Seen
    <2>2. Elements(log) \subseteq Elements(log)'
      BY <1>2 DEF Elements
    <2> QED BY <2>1, <2>2
  <1>4. BatchInOrder(b)
    BY DEF OInv, BatchesInOrder
  <1>5. LogInOrder'
    <2> SUFFICES ASSUME NEW j \in DOMAIN log', NEW f \in Committed' \ Undecodable,
                        WrittenBefore(f, log[j])'
                 PROVE  \E i \in 1..(j - 1) : log'[i] = f
      BY DEF LogInOrder
    <2>0. /\ j \in 1..(Len(log) + Len(b)) /\ f \in Committed \ Undecodable
          /\ WrittenBefore(f, log'[j])
      BY <1>1, <1>2, <1>3 DEF WrittenBefore
    <2>1. CASE j \in 1..Len(log)
      <3>1. PICK i \in 1..(j - 1) : log[i] = f
        BY <1>2, <2>0, <2>1 DEF OInv, LogInOrder
      <3> QED BY <1>2, <2>1, <3>1
    <2>2. CASE j \notin 1..Len(log)
      <3> DEFINE k == j - Len(log)
      <3>1. k \in 1..Len(b) /\ log'[j] = b[k] /\ j = Len(log) + k
        <4>1. k \in 1..Len(b) /\ j = Len(log) + k
          BY <1>2, <2>0, <2>2
        <4> QED BY <1>2, <4>1
      <3>2. CASE f \in Elements(log)
        <4>1. PICK i \in 1..Len(log) : log[i] = f
          BY <1>2, <3>2 DEF Elements
        <4>2. i \in 1..(j - 1)
          BY <1>2, <3>1
        <4> QED BY <1>2, <4>1, <4>2
      <3>3. CASE \E i \in 1..(k - 1) : b[i] = f
        <4>1. PICK i \in 1..(k - 1) : b[i] = f
          BY <3>3
        <4>a. i \in Nat /\ k \in Nat /\ Len(log) \in Nat /\ Len(b) \in Nat
          BY <1>2, <3>1
        <4>2. i \in 1..Len(b)
          BY <3>1, <4>a
        <4>3. Len(log) + i \in 1..(j - 1)
          BY <3>1, <4>a
        <4>4. log'[Len(log) + i] = f
          BY <1>2, <4>1, <4>2
        <4> QED BY <4>3, <4>4
      <3>4. f \in Elements(log) \/ \E i \in 1..(k - 1) : b[i] = f
        BY <1>2, <1>4, <2>0, <3>1 DEF BatchInOrder
      <3> QED BY <3>2, <3>3, <3>4
    <2> QED BY <2>1, <2>2
  <1>6. BatchesInOrder'
    <2>1. \A q \in Publisher : drain'[q].batch = drain[q].batch
      BY DEF Send, OInv, IInv, TypeOK, Drain
    <2>2. ASSUME NEW q \in Publisher PROVE BatchInOrder(drain[q].batch)'
      BY <1>1, <1>3, <2>1 DEF OInv, BatchesInOrder, BatchInOrder, WrittenBefore
    <2> QED BY <2>1, <2>2 DEF BatchesInOrder
  <1> QED BY <1>1, <1>5, <1>6 DEF OInv, OnceEach

\* A read keeps the order: what was written before a pending row, and is not on
\* the log, is pending itself and older, so the same batch holds it, ahead.
LEMMA ReadOInv ==
  ASSUME PendingOrder = "insertion", OInv, IInv', NEW p \in Publisher, Read(p)
  PROVE  OInv'
  <1>1. PICK rows \in SUBSET outbox :
          /\ IsPending(rows)
          /\ \E n \in 1..Batch : \E b \in [1..n -> rows \ Undecodable] :
              /\ IsBatch(b, rows)
              /\ drain' = [drain EXCEPT ![p] = [at |-> "read", batch |-> b]]
    BY DEF Read
  <1>2. PICK n \in 1..Batch : \E b \in [1..n -> rows \ Undecodable] :
          /\ IsBatch(b, rows)
          /\ drain' = [drain EXCEPT ![p] = [at |-> "read", batch |-> b]]
    BY <1>1
  <1>3. PICK b \in [1..n -> rows \ Undecodable] :
          /\ IsBatch(b, rows)
          /\ drain' = [drain EXCEPT ![p] = [at |-> "read", batch |-> b]]
    BY <1>2
  <1>4. DOMAIN b = 1..n /\ n \in Nat /\ stream \in Seq(Decision) /\ OnceEach
    BY <1>3 DEF OInv, IInv, TypeOK
  <1>5. BatchInOrder(b)
    <2> SUFFICES ASSUME NEW j \in 1..n, NEW f \in Committed \ Undecodable,
                        WrittenBefore(f, b[j]), f \notin Elements(log)
                 PROVE  \E i \in 1..(j - 1) : b[i] = f
      BY <1>4 DEF BatchInOrder
    <2>1. f \in outbox /\ f \in Fact
      BY DEF OInv, IInv, TypeOK, NoFactLost
    <2>2. b[j] \in rows /\ b[j] \in Fact
      BY <1>3 DEF OInv, IInv, TypeOK
    <2>3. ~WrittenBefore(b[j], f)
      BY <1>4, <2>1, <2>2, Asymmetric
    <2>4. f \in rows
      BY <1>1, <2>1, <2>2, <2>3 DEF IsPending, Older
    <2>5. PICK i \in 1..n : b[i] = f
      BY <1>3, <1>4, <2>4 DEF IsBatch, Elements
    <2>6. i # j
      BY <2>3, <2>5
    <2>7. ~(j < i)
      BY <1>3, <1>4, <2>3, <2>5 DEF IsBatch, Older
    <2>8. i \in 1..(j - 1)
      BY <1>4, <2>6, <2>7
    <2> QED BY <2>5, <2>8
  <1>6. \A q \in Publisher : BatchInOrder(drain'[q].batch)
    <2>1. ASSUME NEW q \in Publisher PROVE drain'[q].batch = IF q = p THEN b ELSE drain[q].batch
      BY <1>3 DEF OInv, IInv, TypeOK
    <2> QED BY <1>5, <2>1 DEF OInv, BatchesInOrder
  <1> QED BY <1>6, QuietOInv DEF Read

\* Every step preserves the order, where rows are read as they were written.
LEMMA NextOInv ==
  ASSUME PendingOrder = "insertion"
  PROVE  OInv /\ IInv' /\ [Next]_vars => OInv'
  <1> SUFFICES ASSUME OInv, IInv', [Next]_vars PROVE OInv'
    OBVIOUS
  <1>1. ASSUME UNCHANGED <<stream, log, drain>> PROVE OInv'
    BY <1>1, QuietOInv DEF OInv, BatchesInOrder
  <1>2. ASSUME NEW h \in Handler, Handle(h), ~AppendCommits(h)
        PROVE  UNCHANGED <<stream, log, drain>>
    BY <1>2 DEF Handle, Deliver, Load, Abandon, AppendDuplicate, AppendConflict, AppendContended
  <1>3. ASSUME NEW p \in Publisher, Mark(p) \/ Falter(p) PROVE OInv'
    <2>1. drain' = [drain EXCEPT ![p] = NoDrain] /\ UNCHANGED <<stream, log>>
      BY <1>3 DEF Mark, Falter
    <2>2. BatchInOrder(NoDrain.batch)
      BY DEF BatchInOrder, NoDrain
    <2>3. ASSUME NEW q \in Publisher
          PROVE  drain'[q].batch = IF q = p THEN NoDrain.batch ELSE drain[q].batch
      BY <2>1 DEF OInv, IInv, TypeOK
    <2>4. \A q \in Publisher : BatchInOrder(drain'[q].batch)
      BY <2>2, <2>3 DEF OInv, BatchesInOrder
    <2> QED BY <2>1, <2>4, QuietOInv
  <1>4. ASSUME UNCHANGED vars PROVE UNCHANGED <<stream, log, drain>>
    BY <1>4 DEF vars
  <1> QED BY <1>1, <1>2, <1>3, <1>4, CommitOInv, SendOInv, ReadOInv DEF Next, Publish

\* Where rows are read as they were written (the memory and file stores), the
\* log tells the decisions in order, for any number of racing publishers that
\* crash anywhere.
THEOREM LogIsOrdered ==
  ASSUME PendingOrder = "insertion"
  PROVE  Spec => []LogInOrder
  <1>1. OInv => LogInOrder
    BY DEF OInv
  <1>2. Init => OInv
    BY InitOInv
  <1>3. OInv /\ IInv' /\ [Next]_vars => OInv'
    BY NextOInv
  <1> QED BY <1>1, <1>2, <1>3, Invariant, PTL DEF Spec
=============================================================================
