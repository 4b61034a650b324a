------------------------------- MODULE WalFile -------------------------------
(***************************************************************************)
(* The file under the write-ahead log of one server                        *)
(* (aiwatcher-bus/src/adapters/wal.rs): what an append, a failed append, a *)
(* crash and an open leave in events.jsonl and in the writer's memory.     *)
(* EventLog takes a position for the index of a record and an append that  *)
(* fails for one that wrote nothing; here a write may fail half way, in a  *)
(* process that lives on, and neither need be so.                          *)
(*                                                                         *)
(* The file is a sequence of pieces: a record with its newline, or the     *)
(* beginning of one that was cut short, between two characters or inside   *)
(* one.  An offset is the index of a piece.  An append holds the writer's  *)
(* lock throughout, so appends are one step.                               *)
(***************************************************************************)
EXTENDS Naturals, Sequences, FiniteSets

CONSTANTS
  Streams,     \* the streams events belong to
  Cuts,        \* where a write may be cut short: "between" characters, "inside" one
  MaxPieces,   \* bound: pieces in the file
  MaxFaults    \* bound: failed appends and crashes, together

ASSUME WalFileAssumption ==
  Cuts \subseteq {"between", "inside"} /\ MaxPieces \in Nat /\ MaxFaults \in Nat

VARIABLES
  file,             \* events.jsonl
  offsets,          \* Writer.offsets
  streamPositions,  \* Writer.stream_positions
  status,           \* the process runs, is down, or its open was refused
  acknowledged,     \* the pieces a caller of append was answered for
  spoiled,          \* an append has failed in a process that lived on
  faults            \* failed appends and crashes so far

walVars == <<file, offsets, streamPositions, status, acknowledged, spoiled, faults>>

LogLines == [stream: Streams, at: Nat, position: Nat]
Torn == [cut: Cuts]

Pieces == DOMAIN file
IsRecord(i) == file[i] \in LogLines

Sendable == {<<s>> : s \in Streams} \cup {<<s, t>> : s \in Streams, t \in Streams}
Room(n) == Len(file) + n <= MaxPieces
Fault == faults < MaxFaults /\ faults' = faults + 1

\* The writer's positions once it has numbered the first k events of a batch.
Advanced(batch, k) ==
  [s \in Streams |-> streamPositions[s] + Cardinality({j \in 1..k : batch[j] = s})]

\* The records of a batch.
Numbered(batch) ==
  [i \in 1..Len(batch) |->
     [stream |-> batch[i], at |-> Advanced(batch, i)[batch[i]],
      position |-> Len(offsets) + i]]

\* A write that does not finish: some of the batch's records reach the file, and
\* perhaps the beginning of the next.
WritesSome(batch) ==
  \E k \in 0..Len(batch) : \E part \in {<<>>} \cup {<<piece>> : piece \in Torn} :
    /\ part # <<>> => k < Len(batch)
    /\ Room(k + Len(part))
    /\ file' = file \o (SubSeq(Numbered(batch), 1, k) \o part)

WalInit ==
  /\ file = <<>> /\ offsets = <<>> /\ streamPositions = [s \in Streams |-> 0]
  /\ status = "open" /\ acknowledged = {} /\ spoiled = FALSE /\ faults = 0

-----------------------------------------------------------------------------
\* The index built as if the file held nothing else.
AppendLinesAtTheirIndex(batch) ==
  /\ status = "open" /\ Room(Len(batch))
  /\ file' = file \o Numbered(batch)
  /\ offsets' = offsets \o [i \in 1..Len(batch) |-> Len(offsets) + i]
  /\ streamPositions' = Advanced(batch, Len(batch))
  /\ acknowledged' = acknowledged \cup {Len(file) + i : i \in 1..Len(batch)}
  /\ UNCHANGED <<status, spoiled, faults>>

\* FileWal::append when all goes well: number, write, sync, index.
AppendLines(batch) ==
  /\ status = "open" /\ Room(Len(batch))
  /\ file' = file \o Numbered(batch)
  /\ offsets' = offsets \o [i \in 1..Len(batch) |-> Len(file) + i]
  /\ streamPositions' = Advanced(batch, Len(batch))
  /\ acknowledged' = acknowledged \cup {Len(file) + i : i \in 1..Len(batch)}
  /\ UNCHANGED <<status, spoiled, faults>>

\* An event behind the first k does not validate: their numbers are taken and
\* nothing is written.
AppendRefused(batch) ==
  /\ status = "open" /\ Fault
  /\ \E k \in 0..(Len(batch) - 1) : streamPositions' = Advanced(batch, k)
  /\ spoiled' = TRUE
  /\ UNCHANGED <<file, offsets, status, acknowledged>>

\* The write, the flush or the sync fails: the index has none of the batch, the
\* file may have some of it, and every number is taken.
AppendBreaks(batch) ==
  /\ status = "open" /\ Fault
  /\ WritesSome(batch)
  /\ streamPositions' = Advanced(batch, Len(batch))
  /\ spoiled' = TRUE
  /\ UNCHANGED <<offsets, status, acknowledged>>

\* The process dies, in an append or outside of one.
CrashWal ==
  /\ status = "open" /\ Fault
  /\ UNCHANGED file \/ \E batch \in Sendable : WritesSome(batch)
  /\ status' = "down"
  /\ UNCHANGED <<offsets, streamPositions, acknowledged, spoiled>>

LastNumberByCount(pieces, s) ==
  Cardinality({i \in 1..Len(pieces) : pieces[i].stream = s})

\* The last number a stream has in a file of records.
LastNumber(pieces, s) ==
  LET of == {i \in 1..Len(pieces) : pieces[i].stream = s}
  IN  IF of = {} THEN 0 ELSE pieces[CHOOSE i \in of : \A j \in of : j <= i].at

\* What scan reads of the file are its first n pieces: all that follows is the
\* beginning of one line.  A piece that was cut short spoils the line it begins,
\* which ends with the next record; one cut inside a character is no text.
ParsesUpTo(n) ==
  (\A i \in 1..n : IsRecord(i)) /\ \A i \in (n + 1)..Len(file) : file[i] = [cut |-> "between"]

\* An open that leaves the end of the file as it is.
OpenKeepingTheTail ==
  /\ status = "down"
  /\ \E n \in 0..Len(file) :
       /\ ParsesUpTo(n)
       /\ offsets' = [i \in 1..n |-> i]
       /\ streamPositions' = [s \in Streams |-> LastNumber(SubSeq(file, 1, n), s)]
  /\ status' = "open"
  /\ UNCHANGED <<file, acknowledged, spoiled, faults>>

\* FileWal::open: scan reads line by line and cuts off a last line without an end.
OpenWal ==
  /\ status = "down"
  /\ \E n \in 0..Len(file) :
       /\ ParsesUpTo(n)
       /\ file' = SubSeq(file, 1, n)
       /\ offsets' = [i \in 1..n |-> i]
       /\ streamPositions' = [s \in Streams |-> LastNumber(file', s)]
  /\ status' = "open"
  /\ UNCHANGED <<acknowledged, spoiled, faults>>

\* A file with any other line that is not a record, or is not text, is refused.
OpenRefused ==
  /\ status = "down" /\ \A n \in 0..Len(file) : ~ParsesUpTo(n)
  /\ status' = "refused"
  /\ UNCHANGED <<file, offsets, streamPositions, acknowledged, spoiled, faults>>

WalNext ==
  \/ \E batch \in Sendable : AppendLines(batch) \/ AppendRefused(batch) \/ AppendBreaks(batch)
  \/ CrashWal \/ OpenWal \/ OpenRefused

WalSpec == WalInit /\ [][WalNext]_walVars

-----------------------------------------------------------------------------
(* Reading, by the index.                                                  *)

\* Writer.stream_offsets of a stream.
StreamOffsets(s) == SelectSeq(offsets, LAMBDA o : IsRecord(o) /\ file[o].stream = s)

\* FileWal::read_stream_page: the pieces after a number, none left out by a limit.
Page(s, after) ==
  LET found == StreamOffsets(s)
  IN  {found[i] : i \in (after + 1)..Len(found)}

\* The cursors a reader may hold: none, or the number of a record it was given.
Cursors(s) == {0} \cup {file[o].at : o \in Page(s, 0)}

-----------------------------------------------------------------------------
(* Properties.                                                             *)

\* The file, the index, the counts and the process keep their types.
WalTypeOK ==
  /\ file \in Seq(LogLines \cup Torn) /\ Len(file) <= MaxPieces
  /\ offsets \in Seq(Nat) /\ acknowledged \subseteq Nat
  /\ streamPositions \in [Streams -> Nat]
  /\ status \in {"open", "down", "refused"}
  /\ spoiled \in BOOLEAN /\ faults \in 0..MaxFaults

\* No number of a stream is given twice and later records have higher ones,
\* whatever appends failed before or half way through their write and whatever
\* crashes cut off (FileWal::append takes a number even when it then fails, and
\* scan counts on from the last one it finds).
NumbersGoUp ==
  \A i, j \in Pieces :
    i < j /\ IsRecord(i) /\ IsRecord(j) /\ file[i].stream = file[j].stream =>
      file[i].at < file[j].at

\* Every record a caller was answered for is where an offset of the index says
\* it is, once and in order, also behind the remains of a failed append, and
\* after the file was opened again (the base offset in FileWal::append is the
\* length of the file, not of what was indexed).
AcknowledgedAreIndexed ==
  status = "open" =>
    /\ \A i, j \in DOMAIN offsets : i < j => offsets[i] < offsets[j]
    /\ \A i \in DOMAIN offsets : offsets[i] \in Pieces /\ IsRecord(offsets[i])
    /\ \A o \in acknowledged : \E i \in DOMAIN offsets : offsets[i] = o

\* A file a server wrote can be opened again (wal.rs:10: "a corrupted tail
\* truncates cleanly because a half-written line fails to parse and everything
\* before it is still valid").
OpensAgain == status # "refused"

\* Every event's position is one after the position of the event before it
\* (positions_are_contiguous, wal.rs:340: "Every append numbers its events one
\* after the last").
PositionsAreDense ==
  \A i \in Pieces :
    IsRecord(i) => file[i].position = Cardinality({j \in 1..i : IsRecord(j)})

\* A page of a stream behind a cursor holds every record of the stream that has
\* a higher number (read_stream_page, wal.rs:445: "`stream_position` is 1-based
\* and contiguous within a stream, so the event after position `p` is the one
\* at index `p`").
PagesHoldWhatFollows ==
  status = "open" =>
    \A s \in Streams : \A after \in Cursors(s) :
      Page(s, after) = {o \in Page(s, 0) : file[o].at > after}

\* As long as no append has failed in a process that lived on, the log is what
\* its readers take it for, whatever crashes cut short: its positions are dense,
\* pages miss nothing, and it opens again unless a write ended inside a character
\* (read_line in FileWal::scan returns an error for what is not text, before the
\* line is known to be the last).  An append that fails breaks each of the three.
UnspoiledLogIsWhole ==
  ~spoiled =>
    /\ PositionsAreDense /\ PagesHoldWhatFollows
    /\ (\A i \in Pieces : IsRecord(i) \/ file[i].cut = "between") => OpensAgain
=============================================================================
