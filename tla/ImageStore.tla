----------------------------- MODULE ImageStore -----------------------------
(***************************************************************************)
(* The inline images of a terminal (crates/termojinal-vt/src/image/): the  *)
(* decoded images by id, their placements on the screen, and the transfers *)
(* in several parts of the Kitty and iTerm2 protocols.  Operators from a   *)
(* store to a store; Terminal calls them.                                  *)
(*                                                                         *)
(* A picture is an opaque value; the data of a transfer is the sequence of *)
(* the pictures its parts were cut from, and decodes when they are parts   *)
(* of one picture.  Columns and pixels are left out: a placement has the   *)
(* row of its top line, negative once it is partly scrolled off, and its   *)
(* height in lines.                                                        *)
(***************************************************************************)
EXTENDS Integers, Sequences, Functions

CONSTANTS
  IdMax      \* the largest image id, 2^32 - 1 in the code

Low(a, b)  == IF a < b THEN a ELSE b
High(a, b) == IF a < b THEN b ELSE a

\* What is left of a list of which only the members of a set are kept.
Retained(list, members) ==
  LET upTo[n \in 0..Len(list)] ==
        IF n = 0 THEN <<>>
        ELSE IF list[n] \in members THEN Append(upTo[n - 1], list[n]) ELSE upTo[n - 1]
  IN  upTo[Len(list)]

NoCommand == [action |-> "none", id |-> 0, lines |-> 0, target |-> "all"]

NewStore == [images |-> <<>>, placements |-> <<>>, nextId |-> 1,
             kitty |-> NoCommand, kittyData |-> <<>>,
             iterm |-> "none", itermData |-> <<>>]

Decodes(data) == data # <<>> /\ \A i \in DOMAIN data : data[i] = data[1]

StoreImage(s, id, picture) ==
  [s EXCEPT !.images = [i \in DOMAIN @ \cup {id} |-> IF i = id THEN picture ELSE @[i]]]

\* next_id hands out ids in turn and skips 0, whatever ids applications chose.
TakeId(s) == [s EXCEPT !.nextId = IF @ = IdMax THEN 1 ELSE @ + 1]

\* add_placement makes a placement at least one line high; the caller then
\* caps it to the screen (cap_placement_size).
Place(s, id, lines, row, rows) ==
  [s EXCEPT !.placements =
     Append(@, [id |-> id, row |-> row, lines |-> Low(High(lines, 1), rows)])]

DeleteImage(s, id) ==
  [s EXCEPT !.images = Restrict(@, DOMAIN @ \ {id}),
            !.placements = Retained(@, {p \in Range(@) : p.id # id})]

DeleteAll(s) == [s EXCEPT !.images = <<>>, !.placements = <<>>]

\* The screen moved up by n lines: placements that left it are dropped, and
\* with them every image that has no placement, transmitted-only ones included.
ScrollImages(s, n) ==
  IF n = 0 \/ s.placements = <<>> THEN s
  ELSE LET moved == [i \in DOMAIN s.placements |->
                       [s.placements[i] EXCEPT !.row = @ - n]]
           kept  == Retained(moved, {p \in Range(moved) : p.row + p.lines > 0})
       IN  [s EXCEPT !.placements = kept,
                     !.images = Restrict(@, {kept[i].id : i \in DOMAIN kept} \cap DOMAIN @)]

\* process_kitty_command.  Id 0 is a command without `i='.
KittyCommand(s, cmd, data, row, rows) ==
  CASE cmd.action \in {"transmit", "display"} /\ Decodes(data) ->
         LET id == IF cmd.id = 0 THEN s.nextId ELSE cmd.id
             s1 == StoreImage(IF cmd.id = 0 THEN TakeId(s) ELSE s, id, data[1])
         IN  IF cmd.action = "display" THEN Place(s1, id, cmd.lines, row, rows) ELSE s1
    [] cmd.action = "place" /\ cmd.id \in DOMAIN s.images ->
         Place(s, cmd.id, cmd.lines, row, rows)
    [] cmd.action = "delete" /\ cmd.id # 0 /\ cmd.target \in {"all", "id"} ->
         DeleteImage(s, cmd.id)
    [] cmd.action = "delete" /\ cmd.id = 0 /\ cmd.target = "all" -> DeleteAll(s)
    [] OTHER -> s

\* KittyAccumulator::feed: the command of the first chunk stands for all of
\* them, so a command that arrives within a transfer is taken for a chunk.
KittyFeed(s, cmd, data, more, row, rows) ==
  LET held == IF s.kitty.action = "none" THEN cmd ELSE s.kitty
      all  == s.kittyData \o data
      done == [s EXCEPT !.kitty = NoCommand, !.kittyData = <<>>]
  IN  IF more THEN [s EXCEPT !.kitty = held, !.kittyData = all]
      ELSE KittyCommand(done, held, all, row, rows)

\* An image of iTerm2 or Sixel: an id of its own, and placed at once.
ShowImage(s, data, lines, row, rows) ==
  IF ~Decodes(data) THEN s
  ELSE Place(StoreImage(TakeId(s), s.nextId, data[1]), s.nextId, lines, row, rows)

\* Iterm2Accumulator::begin, add_part, finish.
ItermBegin(s, inline) == [s EXCEPT !.iterm = inline, !.itermData = <<>>]
ItermPart(s, data)    == [s EXCEPT !.itermData = @ \o data]
ItermEnd(s, lines, row, rows) ==
  LET done == [s EXCEPT !.iterm = "none", !.itermData = <<>>]
  IN  IF s.iterm = "inline" THEN ShowImage(done, s.itermData, lines, row, rows)
                            ELSE done
=============================================================================
