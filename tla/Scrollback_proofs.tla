-------------------------- MODULE Scrollback_proofs --------------------------
(***************************************************************************)
(* The scrollback buffer keeps its tiers in step, and reads as one history *)
(* of lines, for every capacity and every set of rows.                     *)
(***************************************************************************)
EXTENDS Scrollback, SequenceTheorems, TLAPS

\* What a step needs to know besides the agreement of the tiers: while the
\* buffer is intact the file holds rows only, and memory is within its capacity.
\* A buffer that is not intact never becomes intact again, so nothing is needed
\* of it.
Intact ==
  /\ hot \in Seq(Line) /\ file \in Seq(Line)
  /\ Len(hot) <= HotCapacity

Inv ==
  /\ intact \in BOOLEAN
  /\ intact => Intact
  /\ TiersAgree

USE ScrollbackAssumption

-----------------------------------------------------------------------------

\* Writing at the end of the file appends to it.
LEMMA WrittenAtTheEnd ==
  ASSUME file \in Seq(Line), cursor = Len(file), NEW r \in Line
  PROVE  Written(r) = Append(file, r)
<1>1. Append(file, r) \in Seq(Line) /\ Len(Append(file, r)) = Len(file) + 1
  OBVIOUS
<1>2. Append(file, r) = [i \in 1..(Len(file) + 1) |-> Append(file, r)[i]]
  BY <1>1, LenProperties
<1>3. ASSUME NEW i \in 1..(Len(file) + 1)
      PROVE  Append(file, r)[i] = IF i = Len(file) + 1 THEN r ELSE file[i]
  OBVIOUS
<1>4. Written(r) = [i \in 1..(Len(file) + 1) |->
                      IF i = Len(file) + 1 THEN r ELSE file[i]]
  BY DEF Written
<1> QED
  BY <1>2, <1>3, <1>4

\* A successful eviction from an intact buffer appends the row to the file and
\* its offset to the index.
LEMMA EvictAppends ==
  ASSUME Inv, intact, NEW r \in Line, Evict(r), intact'
  PROVE  /\ file' = Append(file, r) /\ offsets' = Append(offsets, size)
         /\ cursor' = cursor + 1 /\ size' = size + 1 /\ count' = count + 1
         /\ mapped' = Nil
<1>1. PushRow(r)
  BY DEF Evict, PushRowFails
<1>2. file \in Seq(Line) /\ cursor = Len(file)
  BY DEF Inv, Intact, TiersAgree
<1> QED
  BY <1>1, <1>2, WrittenAtTheEnd DEF PushRow

-----------------------------------------------------------------------------

LEMMA InitInv == SInit => Inv
  BY DEF SInit, Inv, Intact, TiersAgree

\* Push keeps the index and the file in step; a cached line is older than what
\* is appended, so it stays the line of its index.
LEMMA PushInv ==
  ASSUME Inv, NEW r \in Line, Push(r)
  PROVE  Inv'
<1>1. intact' \in BOOLEAN /\ (intact' => intact)
  BY DEF Inv, Push, Evict, PushRow, PushRowFails, warm
<1> SUFFICES ASSUME intact, intact'
             PROVE  Intact' /\ TiersAgree'
  BY <1>1 DEF Inv, TiersAgree
<1>2. hot \in Seq(Line) /\ file \in Seq(Line) /\ Len(hot) <= HotCapacity
  BY DEF Inv, Intact
<1>3. CASE Len(hot) < HotCapacity
  <2>1. hot' = Append(hot, r) /\ UNCHANGED warm /\ UNCHANGED <<cached, row>>
    BY <1>3 DEF Push
  <2>2. Intact'
    BY <1>2, <1>3, <2>1 DEF Intact, warm
  <2>3. TiersAgree'
    BY <2>1 DEF Inv, TiersAgree, Stored, warm
  <2> QED
    BY <2>2, <2>3
<1>4. CASE ~(Len(hot) < HotCapacity)
  <2> DEFINE all == Append(hot, r)
  <2>1. all \in Seq(Line) /\ all # <<>> /\ Len(all) = HotCapacity + 1
    BY <1>2, <1>4
  <2>2. Head(all) \in Line /\ Evict(Head(all)) /\ hot' = Tail(all)
    BY <2>1, <1>4 DEF Push
  <2>3. /\ file' = Append(file, Head(all)) /\ offsets' = Append(offsets, size)
        /\ cursor' = cursor + 1 /\ size' = size + 1 /\ count' = count + 1
        /\ mapped' = Nil /\ UNCHANGED <<cached, row>>
    BY <2>2, EvictAppends DEF Push
  <2>4. Intact'
    BY <2>1, <2>2, <2>3, <1>2 DEF Intact
  <2>5. /\ cursor = size /\ size = Len(file) /\ count = size
        /\ offsets = [i \in 1..count |-> i - 1]
        /\ cached # Nil => cached \in 0..(count - 1) /\ row = Stored(cached + 1)
    BY DEF Inv, TiersAgree
  <2>6. cursor' = size' /\ size' = Len(file') /\ count' = size' /\ count \in Nat
    BY <2>3, <2>5, <1>2
  <2>7. offsets' = [i \in 1..count' |-> i - 1]
    <3>1. offsets \in Seq(Nat) /\ Len(offsets) = count
      BY <2>5, <2>6
    <3>2. offsets' \in Seq(Nat) /\ Len(offsets') = count + 1
      BY <3>1, <2>3, <2>5, <2>6
    <3>3. offsets' = [i \in 1..(count + 1) |-> offsets'[i]]
      BY <3>2, LenProperties
    <3>4. ASSUME NEW i \in 1..(count + 1) PROVE offsets'[i] = i - 1
      BY <3>1, <2>3, <2>5, <2>6
    <3> QED
      BY <3>3, <3>4, <2>3
  <2>8. cached' # Nil => cached' \in 0..(count' - 1) /\ row' = Stored(cached + 1)'
    <3> SUFFICES ASSUME cached # Nil
                 PROVE  cached \in 0..(count' - 1) /\ row = Stored(cached + 1)'
      BY <2>3
    <3>1. cached \in 0..(count - 1) /\ row = file[offsets[cached + 1] + 1]
      BY <2>5 DEF Stored
    <3>2. offsets[cached + 1] = cached /\ offsets'[cached + 1] = cached
      BY <3>1, <2>5, <2>6, <2>7, <2>3
    <3>3. file'[cached + 1] = file[cached + 1]
      BY <3>1, <2>3, <2>5, <2>6, <1>2, <2>2
    <3>4. Stored(cached + 1)' = file'[offsets'[cached' + 1] + 1]
      BY DEF Stored
    <3>5. cached \in 0..(count' - 1)
      BY <3>1, <2>3, <2>6
    <3>6. Stored(cached + 1)' = file[offsets[cached + 1] + 1]
      BY <3>2, <3>3, <3>4, <2>3
    <3> QED
      BY <3>1, <3>5, <3>6
  <2> QED
    BY <2>4, <2>3, <2>6, <2>7, <2>8 DEF TiersAgree
<1> QED
  BY <1>3, <1>4

\* What a read of the warm tier finds in an intact buffer.
LEMMA WarmRead ==
  ASSUME Inv, intact, NEW index \in Nat, index >= Len(hot), index < Length
  PROVE  LET warmIdx == count - 1 - (index - Len(hot))
             length  == IF mapped = Nil THEN Len(file) ELSE mapped
         IN  /\ warmIdx \in 0..(count - 1) /\ length = size
             /\ UnitAt(offsets[warmIdx + 1], length) = Stored(warmIdx + 1)
             /\ Stored(warmIdx + 1) = file[warmIdx + 1]
             /\ Stored(warmIdx + 1) \in Line
<1> DEFINE warmIdx == count - 1 - (index - Len(hot))
           length  == IF mapped = Nil THEN Len(file) ELSE mapped
<1>1. /\ hot \in Seq(Line) /\ file \in Seq(Line)
      /\ size = Len(file) /\ count = size
      /\ offsets = [i \in 1..count |-> i - 1] /\ mapped \in {Nil, size}
  BY DEF Inv, Intact, TiersAgree
<1>2. Len(hot) \in Nat /\ count \in Nat /\ size \in Nat
  BY <1>1
<1>3. warmIdx \in 0..(count - 1) /\ length = size
  BY <1>1, <1>2 DEF Length
<1>4. offsets[warmIdx + 1] = warmIdx
  BY <1>1, <1>2, <1>3
<1>5. UnitAt(offsets[warmIdx + 1], length) = file[warmIdx + 1]
  BY <1>1, <1>2, <1>3, <1>4 DEF UnitAt
<1>6. Stored(warmIdx + 1) = file[warmIdx + 1] /\ file[warmIdx + 1] \in Line
  BY <1>1, <1>2, <1>3, <1>4 DEF Stored
<1> QED
  BY <1>3, <1>5, <1>6

\* Get may map the file and fill the cache, with the line it read.
LEMMA GetInv ==
  ASSUME Inv, NEW index \in Nat, Get(index)
  PROVE  Inv'
<1>1. UNCHANGED <<hot, open, file, cursor, offsets, count, size, intact>>
  BY DEF Get
<1> SUFFICES ASSUME intact
             PROVE  TiersAgree'
  BY <1>1 DEF Inv, Intact, TiersAgree
<1>2. CASE UNCHANGED <<mapped, cached, row>>
  BY <1>1, <1>2 DEF Inv, TiersAgree, Stored
<1>3. CASE ~UNCHANGED <<mapped, cached, row>>
  <2> DEFINE warmIdx == count - 1 - (index - Len(hot))
             length  == IF mapped = Nil THEN Len(file) ELSE mapped
             read    == UnitAt(offsets[warmIdx + 1], length)
  <2>1. /\ index >= Len(hot) /\ index < Length
        /\ mapped' = length
        /\ IF read = Nil THEN UNCHANGED <<cached, row>>
                         ELSE cached' = warmIdx /\ row' = read
    BY <1>3 DEF Get
  <2>2. /\ warmIdx \in 0..(count - 1) /\ length = size
        /\ read = Stored(warmIdx + 1) /\ read \in Line
    BY <2>1, WarmRead
  <2>3. cached' = warmIdx /\ row' = Stored(warmIdx + 1)
    BY <2>1, <2>2
  <2> HIDE DEF warmIdx, length, read
  <2>4. Stored(warmIdx + 1)' = Stored(warmIdx + 1) /\ warmIdx' = warmIdx
    BY <1>1 DEF Stored, warmIdx
  <2>5. mapped' = size'
    BY <2>1, <2>2, <1>1
  <2>6. cached' \in 0..(count' - 1) /\ row' = file'[offsets'[cached' + 1] + 1]
    BY <2>2, <2>3, <1>1 DEF Stored
  <2> QED
    BY <2>5, <2>6, <1>1 DEF Inv, TiersAgree, Stored
<1> QED
  BY <1>2, <1>3

\* Clear keeps a buffer intact only while nothing was written to the file.
LEMMA ClearInv ==
  ASSUME Inv, Clear
  PROVE  Inv'
<1>1. intact' \in BOOLEAN
  BY DEF Clear, Inv
<1> SUFFICES ASSUME intact'
             PROVE  Intact' /\ TiersAgree'
  BY <1>1 DEF Inv, TiersAgree
<1>2. intact /\ cursor = 0
  BY DEF Clear, Inv
<1>3. file \in Seq(Line) /\ Len(file) = 0
  BY <1>2 DEF Inv, Intact, TiersAgree
<1>4. file = <<>> /\ file' = <<>> /\ cursor' = 0
  BY <1>2, <1>3 DEF Clear
<1> QED
  BY <1>4 DEF Clear, Intact, TiersAgree

LEMMA NextInv ==
  ASSUME Inv, [Next]_vars
  PROVE  Inv'
<1>1. ASSUME NEW r \in Line, Push(r) PROVE Inv'
  BY <1>1, PushInv
<1>2. ASSUME NEW index \in Requests, Get(index) PROVE Inv'
  BY <1>2, GetInv DEF Requests
<1>3. CASE Clear
  BY <1>3, ClearInv
<1>4. CASE UNCHANGED vars
  BY <1>4 DEF vars, Inv, Intact, TiersAgree, Stored
<1> QED
  BY <1>1, <1>2, <1>3, <1>4 DEF Next

LEMMA InvHolds == Spec => []Inv
  BY InitInv, NextInv, PTL DEF Spec

\* While the buffer is intact, the index of the warm tier, its file, the map of
\* the file and the cached line agree, whatever was pushed, read and cleared.
THEOREM TiersStayInStep == Spec => []TiersAgree
<1>1. Inv => TiersAgree
  BY DEF Inv
<1> QED
  BY <1>1, InvHolds, PTL

-----------------------------------------------------------------------------
(* The tiers read as one sequence of lines.                                  *)

\* The lines of an intact buffer: the rows of the file, then those in memory.
LEMMA LinesAreTheTiers ==
  Inv /\ intact =>
    Lines = file \o hot /\ file \o hot \in Seq(Line) /\ Length = Len(file \o hot)
<1> SUFFICES ASSUME Inv, intact
             PROVE  /\ Lines = file \o hot /\ file \o hot \in Seq(Line)
                    /\ Length = Len(file \o hot)
  OBVIOUS
<1>1. /\ hot \in Seq(Line) /\ file \in Seq(Line)
      /\ size = Len(file) /\ count = size /\ offsets = [i \in 1..count |-> i - 1]
  BY DEF Inv, Intact, TiersAgree
<1>2. /\ file \o hot \in Seq(Line) /\ Len(file \o hot) = Len(file) + Len(hot)
      /\ \A i \in 1..(Len(file) + Len(hot)) :
           (file \o hot)[i] = IF i <= Len(file) THEN file[i] ELSE hot[i - Len(file)]
  BY <1>1, ConcatProperties
<1>3. Length = Len(file) + Len(hot)
  BY <1>1 DEF Length
<1>4. file \o hot = [i \in 1..(Len(file) + Len(hot)) |-> (file \o hot)[i]]
  BY <1>2, LenProperties
<1>5. ASSUME NEW i \in 1..count PROVE Stored(i) = file[i]
  BY <1>1, <1>5 DEF Stored
<1>6. Lines = [i \in 1..(Len(file) + Len(hot)) |-> (file \o hot)[i]]
  BY <1>1, <1>2, <1>3, <1>5 DEF Lines
<1> QED
  BY <1>2, <1>3, <1>4, <1>6

\* Pushing onto memory, and moving a row from memory to the file, leave the
\* sequence of lines as it should be.
LEMMA AppendConcat ==
  ASSUME NEW S, NEW s \in Seq(S), NEW t \in Seq(S), NEW e \in S
  PROVE  s \o Append(t, e) = Append(s \o t, e)
<1>1. /\ Append(t, e) \in Seq(S) /\ Len(Append(t, e)) = Len(t) + 1
      /\ s \o t \in Seq(S) /\ Len(s \o t) = Len(s) + Len(t)
  BY ConcatProperties
<1>2. /\ s \o Append(t, e) \in Seq(S) /\ Append(s \o t, e) \in Seq(S)
      /\ Len(s \o Append(t, e)) = Len(s) + Len(t) + 1
      /\ Len(Append(s \o t, e)) = Len(s) + Len(t) + 1
  BY <1>1, ConcatProperties
<1>3. ASSUME NEW i \in 1..(Len(s) + Len(t) + 1)
      PROVE  (s \o Append(t, e))[i] = Append(s \o t, e)[i]
  <2>1. (s \o Append(t, e))[i]
          = IF i <= Len(s) THEN s[i] ELSE Append(t, e)[i - Len(s)]
    BY <1>1, ConcatProperties
  <2>2. i <= Len(s) + Len(t) =>
          (s \o t)[i] = IF i <= Len(s) THEN s[i] ELSE t[i - Len(s)]
    BY ConcatProperties
  <2> QED
    BY <2>1, <2>2, <1>1
<1> QED
  BY <1>2, <1>3, SeqEqual

LEMMA MoveHead ==
  ASSUME NEW S, NEW s \in Seq(S), NEW t \in Seq(S), t # <<>>
  PROVE  Append(s, Head(t)) \o Tail(t) = s \o t
<1>1. /\ Head(t) \in S /\ Tail(t) \in Seq(S) /\ Len(Tail(t)) = Len(t) - 1
      /\ \A i \in 1..Len(Tail(t)) : Tail(t)[i] = t[i + 1]
      /\ Len(t) \in Nat \ {0} /\ Head(t) = t[1] /\ Len(s) \in Nat
  BY HeadTailProperties, EmptySeq
<1>2. Append(s, Head(t)) \in Seq(S) /\ Len(Append(s, Head(t))) = Len(s) + 1
  BY <1>1
<1>3. /\ Append(s, Head(t)) \o Tail(t) \in Seq(S) /\ s \o t \in Seq(S)
      /\ Len(Append(s, Head(t)) \o Tail(t)) = Len(s) + Len(t)
      /\ Len(s \o t) = Len(s) + Len(t)
  BY <1>1, <1>2, ConcatProperties
<1>4. ASSUME NEW i \in 1..(Len(s) + Len(t))
      PROVE  (Append(s, Head(t)) \o Tail(t))[i] = (s \o t)[i]
  <2>1. (s \o t)[i] = IF i <= Len(s) THEN s[i] ELSE t[i - Len(s)]
    BY ConcatProperties
  <2>2. (Append(s, Head(t)) \o Tail(t))[i]
          = IF i <= Len(s) + 1 THEN Append(s, Head(t))[i] ELSE Tail(t)[i - (Len(s) + 1)]
    BY <1>1, <1>2, ConcatProperties
  <2>3. i > Len(s) + 1 => Tail(t)[i - (Len(s) + 1)] = t[i - Len(s)]
    BY <1>1
  <2>4. i <= Len(s) + 1 =>
          Append(s, Head(t))[i] = IF i <= Len(s) THEN s[i] ELSE t[1]
    BY <1>1
  <2> QED
    BY <2>1, <2>2, <2>3, <2>4, <1>1
<1> QED
  BY <1>3, <1>4, SeqEqual

LEMMA PushRefines ==
  ASSUME Inv, Inv', intact, intact', NEW r \in Line, Push(r)
  PROVE  Lines' = Append(Lines, r)
<1>1. hot \in Seq(Line) /\ file \in Seq(Line) /\ Len(hot) <= HotCapacity
  BY DEF Inv, Intact
<1>2. Lines = file \o hot
  BY LinesAreTheTiers
<1>3. Lines' = file' \o hot'
  <2>1. (Inv /\ intact => Lines = file \o hot)'
    BY LinesAreTheTiers, PTL
  <2> QED
    BY <2>1
<1>4. file \o Append(hot, r) = Append(Lines, r)
  BY <1>1, <1>2, AppendConcat
<1>5. CASE Len(hot) < HotCapacity
  BY <1>3, <1>4, <1>5 DEF Push, warm
<1>6. CASE ~(Len(hot) < HotCapacity)
  <2> DEFINE all == Append(hot, r)
  <2>1. all \in Seq(Line) /\ all # <<>> /\ Head(all) \in Line
    <3>1. all \in Seq(Line) /\ Len(all) = Len(hot) + 1 /\ Len(hot) \in Nat
      BY <1>1
    <3>2. all # <<>>
      BY <3>1
    <3> QED
      BY <3>1, <3>2, HeadTailProperties
  <2>2. Evict(Head(all)) /\ hot' = Tail(all)
    BY <1>6 DEF Push
  <2>3. file' = Append(file, Head(all))
    BY <2>1, <2>2, EvictAppends
  <2> QED
    BY <1>1, <1>3, <1>4, <2>1, <2>2, <2>3, MoveHead
<1> QED
  BY <1>5, <1>6

\* A read of an intact buffer answers the line asked for, or nothing.
LEMMA GetRefines ==
  ASSUME Inv, intact, NEW index \in Nat, Get(index)
  PROVE  \/ answer' = <<index, Nil>>
         \/ index < Len(Lines) /\ answer' = <<index, Lines[Len(Lines) - index]>>
<1>1. /\ hot \in Seq(Line) /\ file \in Seq(Line)
      /\ count = Len(file)
      /\ cached # Nil => cached \in 0..(count - 1) /\ row = Stored(cached + 1)
  BY DEF Inv, Intact, TiersAgree
<1>2. /\ Lines = file \o hot /\ Length = Len(Lines) /\ Length = Len(file) + Len(hot)
      /\ \A i \in 1..Length :
           Lines[i] = IF i <= Len(file) THEN file[i] ELSE hot[i - Len(file)]
  BY <1>1, LinesAreTheTiers, ConcatProperties
<1>3. CASE index < Len(hot)
  <2>1. answer' = <<index, hot[Len(hot) - index]>> \/ answer' = <<index, Nil>>
    BY <1>3 DEF Get
  <2> QED
    BY <2>1, <1>1, <1>2, <1>3
<1>4. CASE index >= Len(hot) /\ index < Length
  <2> DEFINE warmIdx == count - 1 - (index - Len(hot))
             length  == IF mapped = Nil THEN Len(file) ELSE mapped
  <2>1. /\ UnitAt(offsets[warmIdx + 1], length) = file[warmIdx + 1]
        /\ Stored(warmIdx + 1) = file[warmIdx + 1] /\ warmIdx \in 0..(count - 1)
    BY <1>4, WarmRead
  <2>2. \/ answer' = <<index, Nil>>
        \/ cached = warmIdx /\ answer' = <<index, row>>
        \/ answer' = <<index, UnitAt(offsets[warmIdx + 1], length)>>
    BY <1>4 DEF Get, Held
  <2>3. answer' = <<index, Nil>> \/ answer' = <<index, file[warmIdx + 1]>>
    BY <2>1, <2>2, <1>1
  <2>4. file[warmIdx + 1] = Lines[Len(Lines) - index]
    BY <1>1, <1>2, <1>4
  <2> QED
    BY <2>3, <2>4, <1>2, <1>4
<1>5. CASE index >= Length
  BY <1>1, <1>2, <1>5 DEF Get, Length
<1> QED
  BY <1>1, <1>2, <1>3, <1>4, <1>5

LEMMA StepRefines ==
  ASSUME Inv, Inv', [Next]_vars
  PROVE  [Promised!HNext]_(Promised!hvars)
<1>1. intact \in BOOLEAN /\ intact' \in BOOLEAN
  BY DEF Inv
<1>2. CASE ~intact'
  BY <1>2, <1>1 DEF Promised!HNext, Promised!Spoil
<1>3. CASE intact'
  <2>1. intact
    BY <1>1, <1>3 DEF Next, vars, Push, Evict, PushRow, PushRowFails, warm, Get, Clear
  <2>2. Lines \in Seq(Line) /\ Len(Lines) \in Nat
    <3>1. Lines \in Seq(Line)
      BY <2>1, LinesAreTheTiers
    <3> QED
      BY <3>1, LenProperties
  <2>3. ASSUME NEW r \in Line, Push(r) PROVE Promised!HNext
    <3>1. Lines' = Append(Lines, r)
      BY <1>3, <2>1, <2>3, PushRefines
    <3> QED
      BY <3>1, <1>3, <2>1, <2>3 DEF Promised!HNext, Promised!HPush, Push
  <2>4. ASSUME NEW index \in Requests, Get(index)
        PROVE  Promised!HNext
    <3>1. Lines' = Lines
      BY <2>4 DEF Get, Lines, Length, Stored
    <3>2. intact' = intact
      BY <2>4 DEF Get
    <3>3. CASE answer' = <<index, Nil>>
      BY <3>1, <3>2, <3>3, <2>1, <2>4 DEF Promised!HNext, Promised!HGetFails
    <3>4. CASE index < Len(Lines) /\ answer' = <<index, Lines[Len(Lines) - index]>>
      BY <3>1, <3>2, <3>4, <2>1, <2>2, <2>4 DEF Promised!HNext, Promised!HGet
    <3> QED
      BY <3>3, <3>4, <2>1, <2>4, GetRefines DEF Requests
  <2>5. ASSUME Clear PROVE Promised!HNext
    <3>1. Lines' = file' \o hot'
      <4>1. (Inv /\ intact => Lines = file \o hot)'
        BY LinesAreTheTiers, PTL
      <4> QED
        BY <4>1, <1>3
    <3>2. file \in Seq(Line) /\ Len(file) = 0 /\ hot' = <<>>
      BY <2>5, <1>3, <2>1 DEF Clear, Inv, Intact, TiersAgree
    <3>3. file' = <<>>
      BY <3>2, <2>5 DEF Clear
    <3>4. Lines' = <<>>
      BY <3>1, <3>2, <3>3
    <3> QED
      BY <3>4, <1>3, <2>1, <2>5 DEF Promised!HNext, Promised!HClear, Clear
  <2>6. CASE UNCHANGED vars
    BY <2>6 DEF vars, Promised!hvars, Lines, Length, Stored
  <2> QED
    BY <2>3, <2>4, <2>5, <2>6 DEF Next
<1> QED
  BY <1>1, <1>2, <1>3

\* The scrollback buffer is a history of lines: while it is intact, what is
\* pushed can be read back, newest first, whichever tier it is in.
THEOREM ReadsAsOneHistory == Spec => LinesReadBack
<1>1. SInit => Promised!HInit
  BY DEF SInit, Promised!HInit, Lines, Length
<1>2. Inv /\ Inv' /\ [Next]_vars => [Promised!HNext]_(Promised!hvars)
  BY StepRefines
<1> QED
  BY <1>1, <1>2, InvHolds, PTL DEF Spec, LinesReadBack, Promised!HSpec
=============================================================================
