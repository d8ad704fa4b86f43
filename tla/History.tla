------------------------------- MODULE History -------------------------------
(***************************************************************************)
(* What a scrollback buffer promises: every line pushed since the last     *)
(* clear can be read back, counted from the newest, for as long as the     *)
(* buffer is intact; a read past the oldest, or one the system refuses,    *)
(* answers Nil.  Nothing is promised of a buffer that is not intact.       *)
(***************************************************************************)
EXTENDS Integers, Sequences

CONSTANTS Line, Nil, Requests

VARIABLES
  lines,     \* the lines, oldest first
  answer,    \* the last read: what was asked for and the line it gave
  intact     \* no line was lost or spoiled

hvars == <<lines, answer, intact>>

HInit == lines = <<>> /\ answer = Nil /\ intact = TRUE

HPush(row) == lines' = Append(lines, row) /\ UNCHANGED <<answer, intact>>
HClear == lines' = <<>> /\ UNCHANGED <<answer, intact>>
HGet(index) ==
  /\ answer' = <<index, IF index < Len(lines) THEN lines[Len(lines) - index] ELSE Nil>>
  /\ UNCHANGED <<lines, intact>>
HGetFails(index) == answer' = <<index, Nil>> /\ UNCHANGED <<lines, intact>>
Spoil == intact' = FALSE

HNext ==
  \/ \E row \in Line : HPush(row)
  \/ HClear
  \/ \E index \in Requests : HGet(index) \/ HGetFails(index)
  \/ Spoil

HSpec == HInit /\ [][HNext]_hvars
==============================================================================
