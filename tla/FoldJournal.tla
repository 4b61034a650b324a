---------------------------- MODULE FoldJournal -----------------------------
(***************************************************************************)
(* The observation journal (aiwatcher-projector/src/journal.rs): a consumer *)
(* of its own that keeps each stretch of positions it read as a page, so   *)
(* that the period fold can refill what the log no longer holds.  Every    *)
(* record of the table names a variant, so a page keeps all of them.       *)
(***************************************************************************)
EXTENDS EventLog, Integers

CONSTANTS PagePositions,  \* PAGE_POSITIONS: positions a page holds at most
          MostHeld        \* MOST_HELD: positions held while the store refuses

ASSUME JournalAssumption == PagePositions \in Nat \ {0} /\ MostHeld \in Nat \ {0}

NewJournal(through) == [at |-> "loop", through |-> through, reading |-> <<>>, waiting |-> <<>>]

PageSize(page) == page.last - page.first + 1

\* Positions held in pages that are not kept yet: 0 or 1 page being read, and
\* the waiting ones.
HeldPositions(j) ==
  LET pages == j.waiting \o j.reading
      upTo[i \in 0..Len(pages)] == IF i = 0 THEN 0 ELSE upTo[i - 1] + PageSize(pages[i])
  IN  upTo[Len(pages)]

\* The pages that stay when the oldest are let go.
LetGo(j) ==
  LET Dropping(k) == [j EXCEPT !.waiting = SubSeq(@, k + 1, Len(@))]
      enough == {k \in 0..Len(j.waiting) : HeldPositions(Dropping(k)) <= MostHeld}
      fewest == IF enough = {} THEN Len(j.waiting)
                ELSE CHOOSE k \in enough : \A o \in enough : k <= o
  IN  Dropping(fewest)

\* Journal::close: the page being read waits to be kept.
ClosePage(j) ==
  LetGo(IF j.reading = <<>> THEN j
        ELSE [j EXCEPT !.through = j.reading[1].last, !.reading = <<>>,
                       !.waiting = Append(@, j.reading[1])])

\* Journal::read of the record at position p.
ReadInto(j, p) ==
  LET at == Msg[log[p].msg].at
      follows == j.reading # <<>> /\ p = j.reading[1].last + 1
      j1 == IF j.reading # <<>> /\ ~follows THEN ClosePage(j) ELSE j
      page == IF follows
              THEN [j1.reading[1] EXCEPT !.last = p, !.clock = Max2(@, at), !.kept = @ \cup {p}]
              ELSE [first |-> p, last |-> p, from |-> at, clock |-> at, kept |-> {p}]
      j2 == [j1 EXCEPT !.reading = <<page>>]
      seen == p <= j.through \/ (j.reading # <<>> /\ p <= j.reading[1].last)
  IN  IF seen THEN j
      ELSE IF PageSize(page) >= PagePositions THEN ClosePage(j2) ELSE j2
=============================================================================
