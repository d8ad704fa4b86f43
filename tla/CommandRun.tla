----------------------------- MODULE CommandRun -----------------------------
(***************************************************************************)
(* A command plugin run from the palette.  The script writes one JSON line *)
(* per message; a reader thread turns the lines into events; every frame   *)
(* takes at most one event and shows it; the user's answer goes to the     *)
(* script's stdin.  The script, the reader thread and the user act at any  *)
(* time: lines arrive while a question is on screen, the script may exit   *)
(* before it is answered, and a helper it left behind may keep its output  *)
(* open.                                                                   *)
(*                                                                         *)
(* A message is known by its number among the lines the script wrote.  A   *)
(* text is a sequence of letters; Contains says which texts the label or   *)
(* the description of an item contains.  Left out: prompts, icons and      *)
(* previews, blank lines, desktop notifications, the IME preedit text, and *)
(* errors of a write that are not a broken pipe.                           *)
(***************************************************************************)
EXTENDS Naturals, Sequences, FiniteSets

CONSTANTS
    Item, Letter,
    Contains,  \* by item, the texts it is found by
    Script,    \* the messages a script may write
    MaxLines,  \* bound: lines a script writes
    MaxInput   \* bound: letters typed

Questions == {"fuzzy", "multi", "confirm", "text"}
Lists == {"fuzzy", "multi"}

ASSUME RunAssumption ==
    /\ MaxLines \in Nat /\ MaxInput \in Nat
    /\ Contains \in [Item -> SUBSET Seq(Letter)]
    /\ \A m \in Script :
           /\ m.kind \in Questions \cup {"info", "done", "error", "invalid"}
           /\ m.kind \in Lists => m.items \in Seq(Item)
           /\ m.kind = "confirm" => m.default \in BOOLEAN
           /\ m.kind = "text" => m.default \in Seq(Letter)
           /\ m.kind = "done" => m.notify \in BOOLEAN

VARIABLES
    child,      \* "none", "runs", "exited", or "reaped" (killed and waited for)
    helper,     \* a process the script left behind holds its stdout
    lines,      \* the messages the script has written
    reader,     \* the reader thread: "reads" or "ended"
    taken,      \* how many lines it has read
    receiver,   \* the channel: numbers of messages, 0 for the end of file
    status,     \* RunnerStatus: "message", "input", "done", "error"
    current_message,
    ui_state,   \* "none": no command_execution; otherwise CommandUIState
    input, items, filtered_items, selected, selected_set,
    answers     \* for the properties: [to, value] as written to the script

process == <<child, helper, lines>>
thread == <<reader, taken>>
runner == <<status, current_message>>
list == <<items, filtered_items, selected, selected_set>>
vars == <<process, thread, receiver, runner, ui_state, input, list, answers>>

End == 0
-----------------------------------------------------------------------------
\* Indices of the items the text is found in, in the order of the list.
Matching(all, text) ==
    LET upTo[n \in 0..Len(all)] ==
            IF n = 0 THEN <<>>
            ELSE IF text = <<>> \/ text \in Contains[all[n]]
            THEN Append(upTo[n - 1], n)
            ELSE upTo[n - 1]
    IN upTo[Len(all)]

\* The filtered list for a new text, and the selection kept inside it.
FilterUnclamped(all, text) ==
    /\ filtered_items' = Matching(all, text)
    /\ UNCHANGED selected

FilterItems(all, text) ==
    /\ filtered_items' = Matching(all, text)
    /\ LET n == Len(filtered_items') IN
           selected' = IF n = 0 THEN 1 ELSE IF selected > n THEN n ELSE selected

Init ==
    /\ child = "none" /\ helper = FALSE /\ lines = <<>>
    /\ reader = "ended" /\ taken = 0 /\ receiver = <<>>
    /\ status = "message" /\ current_message = 0 /\ ui_state = "none"
    /\ input = <<>> /\ items = <<>> /\ filtered_items = <<>>
    /\ selected = 1 /\ selected_set = {}
    /\ answers = <<>>

Start ==
    /\ ui_state = "none"
    /\ child' = "runs" /\ helper' = FALSE /\ lines' = <<>>
    /\ reader' = "reads" /\ taken' = 0 /\ receiver' = <<>>
    /\ status' = "message" /\ current_message' = 0 /\ ui_state' = "loading"
    /\ input' = <<>> /\ items' = <<>> /\ filtered_items' = <<>>
    /\ selected' = 1 /\ selected_set' = {}
    /\ answers' = <<>>
-----------------------------------------------------------------------------
(* The script and its reader thread. *)

ScriptWrites ==
    /\ child = "runs" /\ Len(lines) < MaxLines
    /\ \E m \in Script : lines' = Append(lines, m)
    /\ UNCHANGED <<child, helper, thread, receiver, runner, ui_state, input, list, answers>>

ScriptExits ==
    /\ child = "runs"
    /\ child' = "exited" /\ helper' \in BOOLEAN
    /\ UNCHANGED <<lines, thread, receiver, runner, ui_state, input, list, answers>>

HelperEnds ==
    /\ helper /\ helper' = FALSE
    /\ UNCHANGED <<child, lines, thread, receiver, runner, ui_state, input, list, answers>>

\* A line that is no message ends the thread; so does a runner that is gone.
ReadLine ==
    /\ reader = "reads" /\ taken < Len(lines)
    /\ taken' = taken + 1
    /\ LET bad == lines[taken + 1].kind = "invalid" IN
        IF ui_state = "none"
        THEN reader' = "ended" /\ UNCHANGED receiver
        ELSE /\ reader' = IF bad THEN "ended" ELSE "reads"
             /\ receiver' = receiver \o <<taken + 1>> \o (IF bad THEN <<End>> ELSE <<>>)
    /\ UNCHANGED <<process, runner, ui_state, input, list, answers>>

ReadEof ==
    /\ reader = "reads" /\ taken = Len(lines)
    /\ child \notin {"runs", "none"} /\ ~helper
    /\ reader' = "ended"
    /\ receiver' = IF ui_state = "none" THEN receiver ELSE Append(receiver, End)
    /\ UNCHANGED <<taken, process, runner, ui_state, input, list, answers>>
-----------------------------------------------------------------------------
(* CommandRunner. *)

StatusFor(kind) == CASE kind \in Questions -> "input"
                     [] kind = "info" -> "message"
                     [] kind = "done" -> "done"
                     [] kind \in {"error", "invalid"} -> "error"

\* The end of file takes the channel with it: it reads as Disconnected then.
RunnerPolls ==
    IF status # "message"
    THEN UNCHANGED <<receiver, runner>>
    ELSE IF receiver = <<>>
    THEN /\ status' = IF reader = "ended" THEN "done" ELSE status
         /\ UNCHANGED <<receiver, current_message>>
    ELSE LET n == Head(receiver) IN
         /\ receiver' = Tail(receiver)
         /\ status' = IF n = End THEN "done" ELSE StatusFor(lines[n].kind)
         /\ current_message' = IF n = End \/ lines[n].kind = "invalid"
                               THEN current_message ELSE n

\* What poll() returned: the message it took, or the question that waits.
Polled ==
    \/ status = "input"
    \/ /\ status = "message" /\ receiver # <<>>
       /\ Head(receiver) # End /\ current_message' = Head(receiver)

\* The answer reaches the script unless it has exited; then it is lost, and
\* the runner goes on waiting for one.
RespondAgain(value) ==
    /\ answers' = IF child = "runs" THEN Append(answers, [to |-> current_message, value |-> value])
                  ELSE answers
    /\ UNCHANGED status

Respond(value) ==
    IF child = "runs"
    THEN /\ answers' = Append(answers, [to |-> current_message, value |-> value])
         /\ status' = "message"
    ELSE UNCHANGED <<answers, status>>
-----------------------------------------------------------------------------
(* CommandExecution: a frame. *)

ShowMessage(m) ==
    /\ ui_state' = m.kind
    /\ \/ /\ m.kind \in Lists
          /\ items' = m.items /\ input' = <<>> /\ selected' = 1 /\ selected_set' = {}
          /\ filtered_items' = Matching(m.items, <<>>)
       \/ /\ m.kind = "text"
          /\ input' = m.default
          /\ UNCHANGED list
       \/ /\ m.kind \notin Lists \cup {"text"}
          /\ UNCHANGED <<input, list>>

\* The runner may have ended without a message.
ShowNoEnd == UNCHANGED <<ui_state, input, list>>

ShowEnd ==
    /\ ui_state' = IF status' \in {"done", "error"} THEN status' ELSE ui_state
    /\ UNCHANGED <<input, list>>

Poll ==
    /\ ui_state \notin Questions \cup {"none"}
    /\ RunnerPolls
    /\ IF Polled THEN ShowMessage(lines[current_message']) ELSE ShowEnd
    /\ UNCHANGED <<process, thread, answers>>
-----------------------------------------------------------------------------
(* CommandExecution: keys. *)

Send(value) ==
    /\ Respond(value)
    /\ ui_state' = "loading"
    /\ UNCHANGED <<process, thread, receiver, current_message, input, list>>

Highlighted == filtered_items[selected]

EnterFuzzy ==
    /\ ui_state = "fuzzy" /\ selected \in DOMAIN filtered_items
    /\ Send(items[Highlighted])

EnterMulti ==
    /\ ui_state = "multi"
    /\ Send({items[i] : i \in selected_set})

AnswerConfirm ==
    /\ ui_state = "confirm"
    /\ \E yes \in BOOLEAN : Send(yes)

EnterText ==
    /\ ui_state = "text"
    /\ Send(input)

Toggle ==
    /\ ui_state = "multi" /\ selected \in DOMAIN filtered_items
    /\ selected_set' = IF Highlighted \in selected_set THEN selected_set \ {Highlighted}
                       ELSE selected_set \cup {Highlighted}
    /\ UNCHANGED <<process, thread, receiver, runner, ui_state, input, items,
                   filtered_items, selected, answers>>

\* The arrows work in a list; Ctrl+N and Ctrl+P in every state.
Move ==
    /\ ui_state # "none" /\ filtered_items # <<>>
    /\ LET n == Len(filtered_items) IN
           \/ selected' = IF selected >= n THEN 1 ELSE selected + 1
           \/ selected' = IF selected = 1 THEN n ELSE selected - 1
    /\ UNCHANGED <<process, thread, receiver, runner, ui_state, input, items,
                   filtered_items, selected_set, answers>>

\* A key types into a list or a text; a text field has no list to filter.
Edit(text) ==
    /\ input' = text
    /\ \/ /\ ui_state \in Lists
          /\ FilterItems(items, text)
       \/ /\ ui_state = "text"
          /\ UNCHANGED <<filtered_items, selected>>
    /\ UNCHANGED <<process, thread, receiver, runner, ui_state, items, selected_set, answers>>

Type == /\ Len(input) < MaxInput
        /\ \E c \in Letter : Edit(Append(input, c))

Backspace == Edit(SubSeq(input, 1, IF input = <<>> THEN 0 ELSE Len(input) - 1))

\* What an input method commits is taken in every state.
Commit ==
    /\ ui_state # "none" /\ Len(input) < MaxInput
    /\ \E c \in Letter : /\ input' = Append(input, c)
                         /\ FilterItems(items, input')
    /\ UNCHANGED <<process, thread, receiver, runner, ui_state, items, selected_set, answers>>

\* Escape, a key after the end, and the palette's own toggle drop the
\* execution, and with it the runner: the script is killed and waited for.
Close ==
    /\ ui_state # "none"
    /\ ui_state' = "none" /\ child' = "reaped"
    /\ UNCHANGED <<helper, lines, thread, receiver, runner, input, list, answers>>
-----------------------------------------------------------------------------
Outside == ScriptWrites \/ ScriptExits \/ HelperEnds
Reader == ReadLine \/ ReadEof
Keys == \/ EnterFuzzy \/ EnterMulti \/ AnswerConfirm \/ EnterText
        \/ Toggle \/ Move \/ Type \/ Backspace \/ Commit \/ Close

Next == Start \/ Outside \/ Reader \/ Poll \/ Keys

\* The reader thread runs, and a running command schedules the next frame.
Fairness == WF_vars(Reader) /\ WF_vars(Poll)

Spec == Init /\ [][Next]_vars /\ Fairness
-----------------------------------------------------------------------------
(* Properties. *)

\* The questions among the first n lines.
Asked(n) == {i \in 1..n : lines[i].kind \in Questions}

Fits(m, value) ==
    CASE m.kind = "fuzzy" -> \E i \in DOMAIN m.items : value = m.items[i]
      [] m.kind = "multi" -> value \subseteq {m.items[i] : i \in DOMAIN m.items}
      [] m.kind = "confirm" -> value \in BOOLEAN
      [] m.kind = "text" -> value \in Seq(Letter)

\* The script reads its answers in the order of its questions: the i-th line
\* it is sent answers the i-th question it asked, with one of the values that
\* question offered, however far ahead of the user it writes.
AnswersFollowQuestions ==
    \A i \in DOMAIN answers :
        LET question == answers[i].to IN
        /\ question \in Asked(Len(lines)) /\ Cardinality(Asked(question)) = i
        /\ Fits(lines[question], answers[i].value)

\* The list on screen is the one of the question and the typed text, and the
\* highlighted line is in it: Enter takes what the user sees.
ListIsTheQuestions ==
    ui_state \in Lists =>
        /\ lines[current_message].kind = ui_state
        /\ items = lines[current_message].items
        /\ filtered_items = Matching(items, input)
        /\ filtered_items # <<>> => selected \in DOMAIN filtered_items

\* A script that is gone, with nothing holding its output, does not leave the
\* user in front of a spinner: its end is shown, or a question it asked, or
\* the user closes the palette.
EndIsShown ==
    (child = "exited" /\ ~helper) ~> ui_state \in Questions \cup {"done", "error", "none"}
=============================================================================
