----------------------------- MODULE Scrollback -----------------------------
(***************************************************************************)
(* The scrollback buffer (crates/termojinal-vt/src/scrollback.rs): the     *)
(* newest lines in memory (the hot tier), the older ones appended to a     *)
(* file that is read through a memory map (the warm tier), with a cache of *)
(* one warm line.                                                          *)
(*                                                                         *)
(* An encoded line is one unit of the file; `file' is the units of the     *)
(* file, a Hole where nothing was written, Torn where a write was cut off. *)
(* `cursor' is the position of the open file, which only writing moves.    *)
(***************************************************************************)
EXTENDS Integers, Sequences

CONSTANTS
  Line,          \* the rows that are pushed
  Nil,           \* no row
  Hole, Torn,    \* units of the file that are not an encoded row
  HotCapacity,   \* lines kept in memory, DEFAULT_HOT_CAPACITY in the code
  MaxWarm        \* bound on the lines written to the file, ever

ASSUME ScrollbackAssumption ==
  /\ HotCapacity \in Nat
  /\ MaxWarm \in Nat
  /\ Nil \notin Line \cup Int /\ Hole \notin Line /\ Torn \notin Line

VARIABLES
  hot,          \* ScrollbackBuffer.hot
  open,         \* the warm tier: "untried", "open", or "failed" to be created
  file, cursor, \* the file behind it and its write position
  offsets,      \* WarmTier.line_offsets
  count,        \* WarmTier.line_count
  size,         \* WarmTier.file_size
  mapped,       \* the length of WarmTier.mmap, Nil when there is none
  cached, row,  \* WarmReadCache.cached_index (Nil for None) and .data
  answer,       \* the last get(): its argument and what it returned
  intact        \* history: no line was dropped, no write failed, and no file
                \* that was written to was cleared

vars == <<hot, open, file, cursor, offsets, count, size, mapped, cached, row,
          answer, intact>>

warm == <<open, file, cursor, offsets, count, size, mapped>>

SInit ==
  /\ hot = <<>> /\ open = "untried" /\ file = <<>> /\ cursor = 0
  /\ offsets = <<>> /\ count = 0 /\ size = 0 /\ mapped = Nil
  /\ cached = Nil /\ row = Nil /\ answer = Nil /\ intact = TRUE

Length == count + Len(hot)

\* What is asked for: up to a line past the oldest there can be.
Requests == 0..(MaxWarm + HotCapacity)

\* Writing one unit at the cursor; beyond the end of the file a gap is left.
Written(unit) ==
  [i \in 1..(IF cursor < Len(file) THEN Len(file) ELSE cursor + 1) |->
     IF i = cursor + 1 THEN unit ELSE IF i <= Len(file) THEN file[i] ELSE Hole]

\* Mutant of PushRow: a map made before the write goes on being used.
PushRowKeepsMap(r) ==
  /\ offsets' = Append(offsets, size)
  /\ file' = Written(r) /\ cursor' = cursor + 1
  /\ size' = size + 1 /\ count' = count + 1
  /\ UNCHANGED <<mapped, intact>>

\* WarmTier::push_row.  The offset is noted before the write; when the write
\* fails, it stays, and the file may have grown.
PushRow(r) ==
  /\ offsets' = Append(offsets, size)
  /\ file' = Written(r) /\ cursor' = cursor + 1
  /\ size' = size + 1 /\ count' = count + 1 /\ mapped' = Nil
  /\ UNCHANGED intact

PushRowFails ==
  /\ offsets' = Append(offsets, size)
  /\ \/ file' = Written(Torn) /\ cursor' = cursor + 1
     \/ UNCHANGED <<file, cursor>>
  /\ UNCHANGED <<size, count, mapped>>
  /\ intact' = FALSE

\* evict_to_warm: the file is created on the first eviction, and when that
\* fails the buffer drops the lines that leave memory, this time and ever after.
Evict(r) ==
  \/ open = "failed" /\ intact' = FALSE
     /\ UNCHANGED <<open, file, cursor, offsets, count, size, mapped>>
  \/ open = "untried" /\ open' = "failed" /\ intact' = FALSE
     /\ UNCHANGED <<file, cursor, offsets, count, size, mapped>>
  \/ open # "failed" /\ open' = "open" /\ (PushRow(r) \/ PushRowFails)

\* push(): at most one line leaves memory.
Push(r) ==
  /\ cursor < MaxWarm /\ Len(offsets) < MaxWarm
  /\ UNCHANGED <<cached, row, answer>>
  /\ IF Len(hot) < HotCapacity
       THEN hot' = Append(hot, r) /\ UNCHANGED warm /\ UNCHANGED intact
       ELSE /\ hot' = Tail(Append(hot, r))
            /\ Evict(Head(Append(hot, r)))

\* A unit of the file as a row: a hole decodes to an empty one.
UnitAt(offset, length) ==
  IF offset + 1 > length THEN Nil ELSE file[offset + 1]

\* Whether the cache holds the line; the mutant does not ask which line it holds.
HeldWhatever(warmIdx) == cached # Nil
Held(warmIdx) == cached = warmIdx

\* get(): memory first, then the cache, then the file, which is mapped when no
\* map of it is current.
Get(index) ==
  LET warmIdx == count - 1 - (index - Len(hot))
      length  == IF mapped = Nil THEN Len(file) ELSE mapped
      read    == UnitAt(offsets[warmIdx + 1], length)
  IN /\ UNCHANGED <<hot, open, file, cursor, offsets, count, size, intact>>
     /\ \/ /\ index >= Length
           /\ answer' = <<index, Nil>> /\ UNCHANGED <<mapped, cached, row>>
        \/ /\ index < Len(hot)
           /\ answer' = <<index, hot[Len(hot) - index]>> /\ UNCHANGED <<mapped, cached, row>>
        \/ /\ index >= Len(hot) /\ index < Length /\ Held(warmIdx)
           /\ answer' = <<index, row>> /\ UNCHANGED <<mapped, cached, row>>
        \/ /\ index >= Len(hot) /\ index < Length /\ ~Held(warmIdx)
           /\ mapped' = length
           /\ answer' = <<index, read>>
           /\ IF read = Nil THEN UNCHANGED <<cached, row>>
                            ELSE cached' = warmIdx /\ row' = read
        \/ /\ index >= Len(hot) /\ index < Length /\ ~Held(warmIdx)
           /\ mapped = Nil              \* the map is refused
           /\ answer' = <<index, Nil>> /\ UNCHANGED <<mapped, cached, row>>

\* clear(): the file is cut to nothing, or the cut fails; the position in it
\* stays where it was.
Clear ==
  /\ hot' = <<>> /\ cached' = Nil /\ row' = Nil
  /\ file' \in {<<>>, file}
  /\ offsets' = <<>> /\ count' = 0 /\ size' = 0 /\ mapped' = Nil
  /\ intact' = (intact /\ cursor = 0)
  /\ UNCHANGED <<open, cursor, answer>>

Next ==
  \/ \E r \in Line : Push(r)
  \/ \E index \in Requests : Get(index)
  \/ Clear

Spec == SInit /\ [][Next]_vars

-----------------------------------------------------------------------------
(* Properties                                                                *)

\* The line a warm index stands for, read past the cache.
Stored(i) == file[offsets[i] + 1]

Lines == [i \in 1..Length |-> IF i <= count THEN Stored(i) ELSE hot[i - count]]

\* While the buffer is intact, the index, the file and the cache agree: line i
\* starts at its offset, the map covers what it is asked for, and the cached
\* row is the line of the cached index whatever was pushed since.
TiersAgree ==
  intact =>
    /\ cursor = size /\ size = Len(file) /\ count = size
    /\ offsets = [i \in 1..count |-> i - 1]
    /\ mapped \in {Nil, size}
    /\ cached # Nil => cached \in 0..(count - 1) /\ row = Stored(cached + 1)

\* Reading across the tiers is reading one sequence of lines.
Promised == INSTANCE History WITH lines <- IF intact THEN Lines ELSE <<>>
LinesReadBack == Promised!HSpec
=============================================================================
