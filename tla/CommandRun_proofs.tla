------------------------- MODULE CommandRun_proofs -------------------------
(***************************************************************************)
(* Which question an answer goes to, and which list the keys work on, for  *)
(* every script, every item and text, and any number of lines.             *)
(***************************************************************************)
EXTENDS CommandRun, FiniteSetTheorems, WellFoundedInduction, TLAPS

Value == Item \cup (SUBSET Item) \cup BOOLEAN \cup Seq(Letter)

Statuses == {"message", "input", "done", "error"}
Screens == Questions \cup {"none", "loading", "info", "done", "error"}

\* What the processes and the thread have done so far.
Progress ==
    /\ lines \in Seq(Script) /\ taken \in 0..Len(lines)
    /\ receiver \in Seq(Nat) /\ current_message \in 0..taken
    /\ status \in Statuses /\ ui_state \in Screens
    /\ answers \in Seq([to : Nat, value : Value])

\* The channel holds the lines read and not yet taken, in their order, and
\* the end of the file behind them only.
Channel ==
    ui_state # "none" /\ status \in {"message", "input"} =>
        LET ahead == taken - current_message IN
        /\ \/ Len(receiver) = ahead
           \/ Len(receiver) = ahead + 1 /\ receiver[ahead + 1] = End /\ reader = "ended"
        /\ \A i \in 1..ahead : receiver[i] = current_message + i

\* The runner goes past a question only when it is answered.
Answered ==
    /\ status = "message" => Cardinality(Asked(current_message)) = Len(answers)
    /\ status = "input" => /\ current_message # 0
                           /\ lines[current_message].kind \in Questions
                           /\ Cardinality(Asked(current_message)) = Len(answers) + 1

\* What is typed, listed and chosen.  A key in any state leaves this true.
Picked ==
    /\ input \in Seq(Letter) /\ items \in Seq(Item)
    /\ filtered_items \in Seq(DOMAIN items) /\ selected \in Nat \ {0}
    /\ filtered_items # <<>> => selected <= Len(filtered_items)
    /\ selected_set \subseteq DOMAIN items

\* A question is on screen only while the runner waits for its answer.
Shown ==
    /\ ui_state \in Questions => status = "input" /\ lines[current_message].kind = ui_state
    /\ ui_state \in Lists => /\ items = lines[current_message].items
                             /\ filtered_items = Matching(items, input)

IInv == Progress /\ Channel /\ Answered /\ Picked /\ Shown /\ AnswersFollowQuestions
-----------------------------------------------------------------------------
(* The list that goes with a text.                                         *)

\* What holds of 0, and of n + 1 when of n, holds of every number.
LEMMA Climb ==
    ASSUME NEW S, 0 \in S, \A n \in Nat : n \in S => n + 1 \in S
    PROVE  Nat \subseteq S
<1> SUFFICES ASSUME Nat \ S # {}
             PROVE  FALSE
  OBVIOUS
<1>1. PICK x \in Nat \ S : \A y \in Nat \ S : ~ (<<y, x>> \in OpToRel(<, Nat))
  BY NatLessThanWellFounded, WFMin
<1>2. x # 0 /\ x - 1 \in Nat /\ x - 1 < x
  OBVIOUS
<1>3. <<x - 1, x>> \in Nat \X Nat /\ <<x - 1, x>>[1] = x - 1 /\ <<x - 1, x>>[2] = x
  BY <1>2
<1>4. x - 1 \notin Nat \ S
  BY <1>1, <1>2, <1>3, Zenon DEF OpToRel
<1>5. (x - 1) + 1 \in S
  BY <1>2, <1>4
<1> QED
  BY <1>5

\* One pass over the list builds it: positions of the list, as a sequence.
LEMMA MatchingIsAList ==
    ASSUME NEW all, Len(all) \in Nat, NEW text
    PROVE  Matching(all, text) \in Seq(1..Len(all))
<1> DEFINE size == Len(all)
           next(g, n) == IF n = 0 THEN <<>>
                         ELSE IF text = <<>> \/ text \in Contains[all[n]]
                         THEN Append(g[n - 1], n)
                         ELSE g[n - 1]
           built(g, m) == g = [n \in 0..m |-> next(g, n)]
           some == {m \in Nat : \E g : built(g, m)}
           upTo == CHOOSE g : built(g, size)
           good == {n \in Nat : n <= size => upTo[n] \in Seq(1..size)}
<1> HIDE DEF next
<1>1. 0 \in some
  <2> DEFINE g == [n \in 0..0 |-> <<>>]
  <2>1. \A n \in 0..0 : next(g, n) = <<>>
    BY DEF next
  <2>2. built(g, 0)
    BY <2>1
  <2> QED
    BY <2>2
<1>2. ASSUME NEW m \in Nat, m \in some
      PROVE  m + 1 \in some
  <2>1. PICK g : built(g, m)
    BY <1>2
  <2>5. \A n \in 0..m : g[n] = next(g, n)
    BY <2>1
  <2> DEFINE h == [n \in 0..(m + 1) |-> IF n = m + 1 THEN next(g, m + 1) ELSE g[n]]
  <2>2. ASSUME NEW n \in 0..(m + 1)
        PROVE  h[n] = next(h, n)
    <3>1. CASE n = 0
      <4>1. h[0] = g[0] /\ g[0] = next(g, 0)
        BY <2>5, <3>1
      <4> QED
        BY <3>1, <4>1 DEF next
    <3>2. CASE n # 0
      <4>1. n - 1 \in 0..m /\ h[n - 1] = g[n - 1]
        BY <3>2
      <4>2. next(h, n) = next(g, n)
        BY <3>2, <4>1 DEF next
      <4>3. n # m + 1 => n \in 0..m /\ g[n] = next(g, n)
        BY <2>5
      <4> QED
        BY <4>2, <4>3
    <3> QED
      BY <3>1, <3>2
  <2>3. h = [n \in 0..(m + 1) |-> h[n]]
    OBVIOUS
  <2>4. built(h, m + 1)
    BY <2>2, <2>3
  <2> HIDE DEF built, h
  <2> QED
    BY <2>4
<1>3. built(upTo, size)
  BY <1>1, <1>2, Climb
<1>4. Matching(all, text) = upTo[size]
  BY DEF Matching, next
<1>7. \A n \in 0..size : upTo[n] = next(upTo, n)
  <2> HIDE DEF upTo
  <2> QED
    BY <1>3
<1> HIDE DEF upTo
<1>5. 0 \in good
  <2>1. upTo[0] = <<>>
    BY <1>7 DEF next
  <2>2. <<>> \in Seq(1..size)
    OBVIOUS
  <2> QED
    BY <2>1, <2>2
<1>6. ASSUME NEW n \in Nat, n \in good
      PROVE  n + 1 \in good
  <2> SUFFICES ASSUME n + 1 <= size
               PROVE  upTo[n + 1] \in Seq(1..size)
    OBVIOUS
  <2>1. upTo[n] \in Seq(1..size) /\ n + 1 \in 1..size
    BY <1>6
  <2>2. upTo[n + 1] = next(upTo, n + 1)
    BY <1>7
  <2>3. upTo[n + 1] \in {upTo[n], Append(upTo[n], n + 1)}
    <3>1. n + 1 # 0 /\ (n + 1) - 1 = n
      OBVIOUS
    <3> QED
      BY <2>2, <3>1 DEF next
  <2>4. Append(upTo[n], n + 1) \in Seq(1..size)
    BY <2>1
  <2> QED
    BY <2>1, <2>3, <2>4
<1>8. size \in good
  <2> HIDE DEF good
  <2> QED
    BY <1>5, <1>6, Climb
<1> QED
  BY <1>4, <1>8
-----------------------------------------------------------------------------
(* The questions among the first lines.                                    *)

LEMMA AskedIsFinite ==
    ASSUME NEW n \in Nat
    PROVE  IsFiniteSet(Asked(n)) /\ Cardinality(Asked(n)) \in Nat
<1>1. IsFiniteSet(1..n) /\ Asked(n) \subseteq 1..n
  BY FS_Interval DEF Asked
<1> QED
  BY <1>1, FS_Subset, FS_CardinalityType

\* One more line: one more question, if it asks one.
LEMMA AskedNext ==
    ASSUME NEW n \in Nat
    PROVE  Cardinality(Asked(n + 1)) =
               Cardinality(Asked(n)) + (IF lines[n + 1].kind \in Questions THEN 1 ELSE 0)
<1>1. CASE lines[n + 1].kind \in Questions
  <2>1. Asked(n + 1) = Asked(n) \cup {n + 1} /\ n + 1 \notin Asked(n)
    BY <1>1 DEF Asked
  <2> QED
    BY <1>1, <2>1, AskedIsFinite, FS_AddElement
<1>2. CASE lines[n + 1].kind \notin Questions
  <2>1. Asked(n + 1) = Asked(n)
    BY <1>2 DEF Asked
  <2> QED
    BY <1>2, <2>1, AskedIsFinite
<1> QED
  BY <1>1, <1>2

\* A step that writes no answer and rewrites no line leaves the answers right.
LEMMA AnswersStay ==
    ASSUME Progress, AnswersFollowQuestions, UNCHANGED answers,
           \/ UNCHANGED lines
           \/ \E m \in Script : lines' = Append(lines, m)
    PROVE  AnswersFollowQuestions'
<1>1. /\ Len(lines) \in Nat /\ Len(lines)' \in Nat /\ Len(lines) <= Len(lines)'
      /\ \A i \in 1..Len(lines) : lines'[i] = lines[i]
  BY DEF Progress
<1>2. ASSUME NEW i \in DOMAIN answers, NEW question, question = answers[i].to
      PROVE  /\ question \in Asked(Len(lines))' /\ Cardinality(Asked(question)') = i
             /\ Fits(lines'[question], answers[i].value)
  <2>1. /\ question \in Asked(Len(lines)) /\ Cardinality(Asked(question)) = i
        /\ Fits(lines[question], answers[i].value)
    BY <1>2 DEF AnswersFollowQuestions
  <2>2. question \in 1..Len(lines) /\ lines[question].kind \in Questions
    BY <2>1 DEF Asked
  <2>3. Asked(question)' = Asked(question)
    BY <1>1, <2>2 DEF Asked
  <2>4. question \in Asked(Len(lines))'
    BY <1>1, <2>2 DEF Asked
  <2> QED
    BY <1>1, <2>1, <2>2, <2>3, <2>4
<1> QED
  BY <1>2 DEF AnswersFollowQuestions

-----------------------------------------------------------------------------
(* The steps.                                                              *)

LEMMA Beginning == Init => IInv
<1> SUFFICES ASSUME Init
             PROVE  IInv
  OBVIOUS
<1>1. Asked(0) = {}
  BY DEF Asked
<1>2. Cardinality(Asked(0)) = 0
  BY <1>1, FS_EmptySet, Zenon
<1>3. Progress /\ Channel /\ Picked /\ Shown
  BY DEF Init, Progress, Channel, Picked, Shown, Statuses, Screens, Questions, Lists
<1>4. Answered
  BY <1>2 DEF Init, Answered
<1> QED
  BY <1>3, <1>4 DEF Init, IInv, AnswersFollowQuestions

LEMMA StartStep ==
    ASSUME IInv, Start
    PROVE  IInv'
<1>1. Asked(0)' = {}
  BY DEF Asked
<1>2. Cardinality(Asked(0)') = 0
  BY <1>1, FS_EmptySet, Zenon
<1>3. Progress' /\ Channel' /\ Picked' /\ Shown'
  BY DEF Start, Progress, Channel, Picked, Shown, Statuses, Screens, Questions, Lists
<1>4. Answered'
  BY <1>2 DEF Start, Answered
<1> QED
  BY <1>3, <1>4 DEF Start, IInv, AnswersFollowQuestions

\* The script writes, exits, or is outlived.
LEMMA OutsideStep ==
    ASSUME IInv, Outside
    PROVE  IInv'
<1> USE DEF IInv
<1>1. /\ UNCHANGED <<thread, receiver, runner, ui_state, input, list, answers>>
      /\ \/ UNCHANGED lines
         \/ \E m \in Script : lines' = Append(lines, m)
  BY DEF Outside, ScriptWrites, ScriptExits, HelperEnds
<1>2. /\ lines' \in Seq(Script) /\ Len(lines) \in Nat /\ Len(lines') \in Nat
      /\ Len(lines) <= Len(lines')
      /\ \A i \in 1..Len(lines) : lines'[i] = lines[i]
  <2>1. lines \in Seq(Script)
    BY DEF Progress
  <2>2. ASSUME NEW m \in Script, lines' = Append(lines, m)
        PROVE  /\ lines' \in Seq(Script) /\ Len(lines') = Len(lines) + 1
               /\ \A i \in 1..Len(lines) : lines'[i] = lines[i]
    BY <2>1, <2>2
  <2> QED
    BY <1>1, <2>1, <2>2
<1>3. Progress' /\ Channel'
  BY <1>1, <1>2 DEF Progress, Channel, thread, runner
<1>4. Asked(current_message)' = Asked(current_message)
  <2>1. current_message' = current_message /\ current_message \in 0..Len(lines)
    BY <1>1 DEF Progress, runner
  <2> QED
    BY <1>2, <2>1 DEF Asked
<1>5. Answered'
  <2>1. UNCHANGED <<status, current_message, answers>>
    BY <1>1 DEF runner
  <2>2. status = "input" => lines'[current_message] = lines[current_message]
    BY <1>2 DEF Progress, Answered
  <2> QED
    BY <1>4, <2>1, <2>2 DEF Answered
<1>6. Picked'
  BY <1>1 DEF Picked, list
<1>7. Shown'
  <2>1. ASSUME ui_state \in Questions
        PROVE  lines'[current_message] = lines[current_message]
    <3>1. current_message \in 1..Len(lines)
      BY <2>1, <1>2 DEF Progress, Answered, Shown
    <3> QED
      BY <3>1, <1>2
  <2> QED
    BY <1>1, <2>1 DEF Shown, list, runner, Lists, Questions
<1>8. AnswersFollowQuestions'
  BY <1>1, AnswersStay
<1> QED
  BY <1>3, <1>5, <1>6, <1>7, <1>8

\* A step of the thread changes what is queued, and nothing on screen.
LEMMA ReaderStep ==
    ASSUME IInv, Reader
    PROVE  IInv'
<1> USE DEF IInv
<1>1. UNCHANGED <<process, runner, ui_state, input, list, answers>>
  BY DEF Reader, ReadLine, ReadEof
<1>2. Answered' /\ Picked' /\ Shown'
  <2>1. UNCHANGED <<lines, status, current_message, ui_state, input, list, answers>>
    BY <1>1 DEF process, runner
  <2>2. Asked(current_message)' = Asked(current_message)
    BY <2>1 DEF Asked
  <2> QED
    BY <2>1, <2>2 DEF Answered, Picked, Shown, list
<1>3. AnswersFollowQuestions'
  BY <1>1, AnswersStay DEF process
<1> DEFINE listens == ui_state # "none" /\ status \in {"message", "input"}
<1>6. ASSUME reader = "reads", listens
      PROVE  /\ Len(receiver) = taken - current_message
             /\ \A i \in 1..(taken - current_message) : receiver[i] = current_message + i
  BY <1>6 DEF Channel
<1>7. /\ taken \in Nat /\ current_message \in 0..taken /\ receiver \in Seq(Nat)
      /\ Len(receiver) \in Nat
  BY DEF Progress
<1>4. ASSUME ReadLine
      PROVE  Progress' /\ Channel'
  <2>1. /\ reader = "reads" /\ taken < Len(lines) /\ taken' = taken + 1
        /\ UNCHANGED <<lines, current_message, status, ui_state, answers>>
    BY <1>1, <1>4 DEF ReadLine, process, runner
  <2>2. \/ ui_state = "none" /\ UNCHANGED receiver
        \/ receiver' = receiver \o <<taken + 1>> \o <<>>
        \/ receiver' = receiver \o <<taken + 1>> \o <<End>> /\ reader' = "ended"
    BY <1>4 DEF ReadLine
  <2>3. receiver \in Seq(Nat) /\ taken \in Nat
    BY DEF Progress
  <2>4. CASE ui_state = "none" /\ UNCHANGED receiver
    BY <2>1, <2>4 DEF Progress, Channel
  <2>5. CASE receiver' = receiver \o <<taken + 1>> \o <<>>
    <3>1. /\ receiver' \in Seq(Nat) /\ Len(receiver') = Len(receiver) + 1
          /\ \A i \in 1..(Len(receiver) + 1) :
                 receiver'[i] = IF i = Len(receiver) + 1 THEN taken + 1 ELSE receiver[i]
      BY <2>3, <2>5
    <3>2. Progress'
      BY <2>1, <1>7, <3>1 DEF Progress
    <3>3. Channel'
      <4> DEFINE ahead == taken' - current_message'
      <4> SUFFICES ASSUME listens
               PROVE  /\ \/ Len(receiver') = ahead
                         \/ /\ Len(receiver') = ahead + 1
                            /\ receiver'[ahead + 1] = End /\ reader' = "ended"
                      /\ \A i \in 1..ahead : receiver'[i] = current_message + i
        BY <2>1 DEF Channel
      <4>1. /\ Len(receiver) = taken - current_message
            /\ \A i \in 1..Len(receiver) : receiver[i] = current_message + i
        BY <1>6, <2>1
      <4> QED
        BY <4>1, <1>7, <2>1, <3>1
    <3> QED
      BY <3>2, <3>3
  <2>6. CASE receiver' = receiver \o <<taken + 1>> \o <<End>> /\ reader' = "ended"
    <3>1. /\ receiver' \in Seq(Nat) /\ Len(receiver') = Len(receiver) + 2
          /\ \A i \in 1..(Len(receiver) + 2) :
                 receiver'[i] = IF i = Len(receiver) + 2 THEN End
                                ELSE IF i = Len(receiver) + 1 THEN taken + 1
                                ELSE receiver[i]
      BY <2>3, <2>6 DEF End
    <3>2. Progress'
      BY <2>1, <1>7, <3>1 DEF Progress
    <3>3. Channel'
      <4> DEFINE ahead == taken' - current_message'
      <4> SUFFICES ASSUME listens
               PROVE  /\ \/ Len(receiver') = ahead
                         \/ /\ Len(receiver') = ahead + 1
                            /\ receiver'[ahead + 1] = End /\ reader' = "ended"
                      /\ \A i \in 1..ahead : receiver'[i] = current_message + i
        BY <2>1 DEF Channel
      <4>1. /\ Len(receiver) = taken - current_message
            /\ \A i \in 1..Len(receiver) : receiver[i] = current_message + i
        BY <1>6, <2>1
      <4>2. ahead = Len(receiver) + 1
        BY <4>1, <1>7, <2>1
      <4> HIDE DEF ahead
      <4>3. Len(receiver') = ahead + 1 /\ receiver'[ahead + 1] = End
        BY <1>7, <3>1, <4>2
      <4>4. ASSUME NEW i \in 1..ahead
            PROVE  receiver'[i] = current_message + i
        <5>1. /\ i \in 1..(Len(receiver) + 2) /\ i # Len(receiver) + 2
              /\ i # Len(receiver) + 1 => i \in 1..Len(receiver)
          BY <4>2, <1>7
        <5>2. receiver'[i] = IF i = Len(receiver) + 1 THEN taken + 1 ELSE receiver[i]
          BY <3>1, <5>1
        <5> QED
          BY <4>1, <5>1, <5>2, <1>7
      <4> QED
        BY <2>6, <4>3, <4>4
    <3> QED
      BY <3>2, <3>3
  <2> QED
    BY <2>2, <2>4, <2>5, <2>6
<1>5. ASSUME ReadEof
      PROVE  Progress' /\ Channel'
  <2>1. /\ reader = "reads" /\ reader' = "ended" /\ taken' = taken
        /\ receiver' = IF ui_state = "none" THEN receiver ELSE Append(receiver, End)
        /\ UNCHANGED <<lines, current_message, status, ui_state, answers>>
    BY <1>1, <1>5 DEF ReadEof, process, runner
  <2>2. /\ receiver' \in Seq(Nat)
        /\ ui_state # "none" =>
               /\ Len(receiver') = Len(receiver) + 1
               /\ \A i \in 1..(Len(receiver) + 1) :
                      receiver'[i] = IF i = Len(receiver) + 1 THEN End ELSE receiver[i]
    BY <2>1 DEF Progress, End
  <2>3. Progress'
    BY <2>1, <2>2, <1>7 DEF Progress
  <2>4. Channel'
    <3> DEFINE ahead == taken' - current_message'
    <3> SUFFICES ASSUME listens
             PROVE  /\ \/ Len(receiver') = ahead
                       \/ /\ Len(receiver') = ahead + 1
                          /\ receiver'[ahead + 1] = End /\ reader' = "ended"
                    /\ \A i \in 1..ahead : receiver'[i] = current_message + i
      BY <2>1 DEF Channel
    <3>1. /\ Len(receiver) = taken - current_message
          /\ \A i \in 1..Len(receiver) : receiver[i] = current_message + i
      BY <1>6, <2>1
    <3> QED
      BY <3>1, <1>7, <2>1, <2>2
  <2> QED
    BY <2>3, <2>4
<1> QED
  BY <1>2, <1>3, <1>4, <1>5 DEF Reader

\* What a message puts on screen is its own list, unfiltered.
LEMMA ShownAsAsked ==
    ASSUME Picked, NEW m \in Script, ShowMessage(m)
    PROVE  /\ Picked' /\ ui_state' = m.kind
           /\ m.kind \in Lists => items' = m.items /\ filtered_items' = Matching(items', input')
<1>1. ui_state' = m.kind
  BY DEF ShowMessage
<1>2. CASE m.kind \in Lists
  <2>1. /\ items' = m.items /\ input' = <<>> /\ selected' = 1 /\ selected_set' = {}
        /\ filtered_items' = Matching(m.items, <<>>)
    BY <1>2 DEF ShowMessage, Lists
  <2>2. m.items \in Seq(Item)
    BY <1>2, RunAssumption
  <2>3. Len(m.items) \in Nat /\ DOMAIN m.items = 1..Len(m.items)
    BY <2>2
  <2>4. filtered_items' \in Seq(DOMAIN items')
    BY <2>1, <2>3, MatchingIsAList
  <2>5. filtered_items' # <<>> => 1 <= Len(filtered_items')
    BY <2>4
  <2> QED
    BY <1>1, <2>1, <2>2, <2>4, <2>5 DEF Picked
<1>3. CASE m.kind \notin Lists
  <2>1. input' \in Seq(Letter) /\ UNCHANGED list
    BY <1>3, RunAssumption DEF ShowMessage, Picked
  <2> QED
    BY <1>1, <1>3, <2>1 DEF Picked, list
<1> QED
  BY <1>2, <1>3

\* The runner takes the next line, and stops at a question until it is
\* answered; the screen shows what it stopped at.
LEMMA PollStep ==
    ASSUME IInv, Poll
    PROVE  IInv'
<1> USE DEF IInv
<1>1. /\ RunnerPolls /\ UNCHANGED <<lines, reader, taken, answers>>
      /\ ui_state \in Screens \ (Questions \cup {"none"})
  BY DEF Poll, process, thread, Progress
<1>2. AnswersFollowQuestions'
  BY <1>1, AnswersStay
<1>3. /\ taken \in Nat /\ current_message \in 0..taken /\ taken \in 0..Len(lines)
      /\ receiver \in Seq(Nat) /\ Len(receiver) \in Nat /\ lines \in Seq(Script)
      /\ \A i \in 1..Len(lines) : lines[i] \in Script
  BY DEF Progress
<1>4. \A n \in Nat : Asked(n)' = Asked(n)
  BY <1>1 DEF Asked
<1>5. ASSUME NEW m \in Script, ShowMessage(m), m.kind # "invalid"
      PROVE  ui_state' = m.kind /\ m.kind \in Screens /\ m.kind # "none"
  BY <1>5, RunAssumption DEF ShowMessage, Screens, Questions
<1>6. ASSUME ShowEnd, status' \in Statuses
      PROVE  /\ Picked' /\ Shown'
             /\ ui_state' \in Screens /\ ui_state' # "none"
  BY <1>1, <1>6 DEF ShowEnd, Picked, Shown, Screens, Statuses, Questions, Lists, list
<1>7. CASE status = "input"
  <2>1. UNCHANGED <<receiver, status, current_message>> /\ Polled
    BY <1>1, <1>7 DEF RunnerPolls, Polled, runner
  <2>2. /\ current_message \in 1..Len(lines) /\ lines[current_message] \in Script
        /\ lines[current_message].kind \in Questions
    BY <1>3, <1>7 DEF Answered
  <2>3. ShowMessage(lines[current_message])
    BY <2>1 DEF Poll
  <2>4. lines[current_message].kind # "invalid"
    BY <2>2 DEF Questions
  <2>5. Progress' /\ Channel' /\ Answered'
    BY <1>1, <1>3, <1>4, <1>5, <2>1, <2>2, <2>3, <2>4 DEF Progress, Channel, Answered
  <2>6. Picked' /\ Shown'
    BY <1>1, <1>7, <2>1, <2>2, <2>3, ShownAsAsked DEF Shown
  <2> QED
    BY <1>2, <2>5, <2>6
<1>8. CASE status \in {"done", "error"}
  <2>1. UNCHANGED <<receiver, status, current_message>> /\ ~Polled
    BY <1>1, <1>8 DEF RunnerPolls, Polled, runner
  <2>2. ShowEnd /\ status' \in Statuses
    BY <1>8, <2>1 DEF Poll, Statuses
  <2>3. Progress' /\ Channel' /\ Answered'
    BY <1>1, <1>3, <1>6, <1>8, <2>1, <2>2 DEF Progress, Channel, Answered
  <2> QED
    BY <1>2, <1>6, <2>2, <2>3
<1>9. CASE status = "message" /\ receiver = <<>>
  <2>1. UNCHANGED <<receiver, current_message>> /\ status' \in {"done", "message"} /\ ~Polled
    BY <1>1, <1>9 DEF RunnerPolls, Polled
  <2>2. ShowEnd /\ status' \in Statuses
    BY <2>1 DEF Poll, Statuses
  <2>3. Progress' /\ Channel' /\ Answered'
    BY <1>1, <1>3, <1>4, <1>6, <1>9, <2>1, <2>2 DEF Progress, Channel, Answered
  <2> QED
    BY <1>2, <1>6, <2>2, <2>3
<1>10. CASE status = "message" /\ receiver # <<>>
  <2> DEFINE n == Head(receiver)
             ahead == taken - current_message
  <2>1. /\ receiver' = Tail(receiver)
        /\ status' = IF n = End THEN "done" ELSE StatusFor(lines[n].kind)
        /\ current_message' = IF n = End \/ lines[n].kind = "invalid"
                              THEN current_message ELSE n
    BY <1>1, <1>10 DEF RunnerPolls
  <2>2. /\ Len(receiver') = Len(receiver) - 1 /\ receiver' \in Seq(Nat)
        /\ \A i \in 1..(Len(receiver) - 1) : receiver'[i] = receiver[i + 1]
        /\ n = receiver[1] /\ n \in Nat /\ Len(receiver) >= 1
    BY <1>3, <1>10, <2>1
  <2>3. /\ \/ Len(receiver) = ahead
           \/ Len(receiver) = ahead + 1 /\ receiver[ahead + 1] = End /\ reader = "ended"
        /\ \A i \in 1..ahead : receiver[i] = current_message + i
    BY <1>1, <1>10 DEF Channel
  <2>4. CASE n = End
    <3>1. status' = "done" /\ current_message' = current_message /\ ~Polled
      BY <1>10, <2>1, <2>4 DEF Polled
    <3>2. ShowEnd /\ status' \in Statuses
      BY <3>1 DEF Poll, Statuses
    <3>3. Progress' /\ Channel' /\ Answered'
      BY <1>1, <1>3, <1>6, <2>2, <3>1, <3>2 DEF Progress, Channel, Answered
    <3> QED
      BY <1>2, <1>6, <3>2, <3>3
  <2>5. CASE n # End
    <3> DEFINE k == current_message + 1
    <3>1. ahead \in Nat \ {0} /\ n = k /\ k \in 1..Len(lines)
      BY <1>3, <2>2, <2>3, <2>5
    <3>2. lines[k] \in Script
      BY <1>3, <3>1
    <3>3. CASE lines[k].kind = "invalid"
      <4>1. status' = "error" /\ current_message' = current_message
        BY <2>1, <2>5, <3>1, <3>3 DEF StatusFor, Questions
      <4>2. ~Polled
        BY <1>3, <1>10, <3>1, <4>1 DEF Polled
      <4>3. ShowEnd /\ status' \in Statuses
        BY <4>1, <4>2 DEF Poll, Statuses
      <4>4. Progress' /\ Channel' /\ Answered'
        BY <1>1, <1>3, <1>6, <2>2, <4>1, <4>3 DEF Progress, Channel, Answered
      <4> QED
        BY <1>2, <1>6, <4>3, <4>4
    <3>4. CASE lines[k].kind # "invalid"
      <4>1. current_message' = current_message + 1 /\ status' = StatusFor(lines[k].kind)
        BY <2>1, <2>5, <3>1, <3>4
      <4>2. Polled
        BY <1>10, <2>5, <3>1, <4>1 DEF Polled
      <4>3. ShowMessage(lines[k])
        BY <4>1, <4>2 DEF Poll
      <4>4. /\ lines[k].kind \in Questions => status' = "input"
            /\ lines[k].kind \notin Questions => status' \in {"message", "done", "error"}
        BY <3>2, <3>4, <4>1, RunAssumption DEF StatusFor, Questions
      <4>5. Progress'
        BY <1>1, <1>3, <1>5, <2>2, <3>1, <3>2, <3>4, <4>1, <4>3, <4>4 DEF Progress, Statuses
      <4>6. Channel'
        <5>1. taken' - current_message' = ahead - 1
          BY <1>1, <1>3, <3>1, <4>1
        <5>2. ASSUME NEW i \in 1..(ahead - 1)
              PROVE  receiver'[i] = current_message' + i
          <6>1. i \in 1..(Len(receiver) - 1) /\ i + 1 \in 1..ahead /\ i \in Nat
            BY <1>3, <2>3, <3>1
          <6>2. receiver'[i] = receiver[i + 1]
            BY <2>2, <6>1
          <6>3. receiver[i + 1] = current_message + (i + 1)
            BY <2>3, <6>1
          <6> QED
            BY <1>3, <4>1, <6>1, <6>2, <6>3
        <5>3. \/ Len(receiver') = ahead - 1
              \/ /\ Len(receiver') = (ahead - 1) + 1
                 /\ receiver'[(ahead - 1) + 1] = End /\ reader' = "ended"
          <6>1. CASE Len(receiver) = ahead
            BY <2>2, <6>1
          <6>2. CASE Len(receiver) = ahead + 1 /\ receiver[ahead + 1] = End /\ reader = "ended"
            <7> HIDE DEF ahead
            <7>1. ahead \in 1..(Len(receiver) - 1) /\ (ahead - 1) + 1 = ahead
              BY <3>1, <6>2
            <7>2. receiver'[ahead] = End
              BY <2>2, <6>2, <7>1
            <7> QED
              BY <1>1, <2>2, <3>1, <6>2, <7>1, <7>2
          <6> QED
            BY <2>3, <6>1, <6>2
        <5> QED
          BY <5>1, <5>2, <5>3 DEF Channel
      <4>7. Answered'
        <5>1. Cardinality(Asked(k)) = Len(answers)
                  + (IF lines[k].kind \in Questions THEN 1 ELSE 0)
          <6>1. Cardinality(Asked(current_message)) = Len(answers)
            BY <1>10 DEF Answered
          <6>2. current_message \in Nat
            BY <1>3
          <6> QED
            BY <6>1, <6>2, AskedNext
        <5>2. Asked(current_message)' = Asked(k) /\ Len(answers) \in Nat
          BY <1>1, <4>1 DEF Progress, Asked
        <5>3. status' = "input" => lines[k].kind \in Questions
          BY <4>4
        <5>4. status' = "message" => lines[k].kind \notin Questions
          BY <4>4
        <5> QED
          BY <1>1, <1>3, <4>1, <5>1, <5>2, <5>3, <5>4 DEF Answered
      <4>8. Picked' /\ Shown'
        <5>1. /\ Picked' /\ ui_state' = lines[k].kind
              /\ lines[k].kind \in Lists => /\ items' = lines[k].items
                                            /\ filtered_items' = Matching(items', input')
          BY <3>2, <4>3, ShownAsAsked
        <5> QED
          BY <1>1, <4>1, <4>4, <5>1 DEF Shown
      <4> QED
        BY <1>2, <4>5, <4>6, <4>7, <4>8
    <3> QED
      BY <3>3, <3>4
  <2> QED
    BY <2>4, <2>5
<1> QED
  BY <1>7, <1>8, <1>9, <1>10 DEF Progress, Statuses

\* An answer goes to the question on screen, the first one not answered.
LEMMA SendStep ==
    ASSUME IInv, ui_state \in Questions, NEW value \in Value,
           Fits(lines[current_message], value), Send(value)
    PROVE  IInv'
<1> USE DEF IInv
<1>1. /\ Respond(value) /\ ui_state' = "loading"
      /\ UNCHANGED <<lines, reader, taken, receiver, current_message, input, list>>
  BY DEF Send, process, thread
<1>2. /\ status = "input" /\ current_message \in 1..Len(lines) /\ Len(answers) \in Nat
      /\ lines[current_message].kind \in Questions
      /\ Cardinality(Asked(current_message)) = Len(answers) + 1
  BY DEF Shown, Answered, Progress
<1>3. Picked' /\ Shown'
  BY <1>1 DEF Picked, Shown, list, Questions, Lists
<1>4. UNCHANGED status \/ status' = "message"
  BY DEF Respond, Send
<1>5. Channel'
  BY <1>1, <1>2, <1>4 DEF Channel, Questions
<1>6. Asked(current_message)' = Asked(current_message)
  BY <1>1 DEF Asked
<1>7. CASE child = "runs"
  <2> DEFINE reply == [to |-> current_message, value |-> value]
  <2>1. answers' = Append(answers, reply) /\ status' = "message"
    BY <1>1, <1>7 DEF Respond
  <2>2. answers \in Seq([to : Nat, value : Value]) /\ reply \in [to : Nat, value : Value]
    BY <1>2 DEF Progress
  <2>3. /\ answers' \in Seq([to : Nat, value : Value]) /\ Len(answers') = Len(answers) + 1
        /\ DOMAIN answers = 1..Len(answers) /\ DOMAIN answers' = 1..Len(answers')
        /\ answers'[Len(answers) + 1] = reply
        /\ \A i \in 1..Len(answers) : answers'[i] = answers[i]
    BY <2>1, <2>2
  <2>4. Progress' /\ Answered'
    BY <1>1, <1>2, <1>6, <2>1, <2>3 DEF Progress, Answered, Statuses, Screens
  <2>5. ASSUME NEW i \in DOMAIN answers'
        PROVE  /\ answers'[i].to \in Asked(Len(lines))
               /\ Cardinality(Asked(answers'[i].to)) = i
               /\ Fits(lines[answers'[i].to], answers'[i].value)
    <3>1. CASE i = Len(answers) + 1
      <4>1. answers'[i].to = current_message /\ answers'[i].value = value
        BY <2>3, <3>1
      <4>2. current_message \in Asked(Len(lines))
        BY <1>2 DEF Asked, Progress
      <4> QED
        BY <1>2, <3>1, <4>1, <4>2
    <3>2. CASE i \in DOMAIN answers
      BY <2>3, <3>2 DEF AnswersFollowQuestions
    <3> QED
      BY <1>2, <2>3, <3>1, <3>2
  <2>6. AnswersFollowQuestions'
    <3>1. UNCHANGED lines
      BY <1>1
    <3>2. \A m : Asked(m)' = Asked(m)
      BY <3>1 DEF Asked
    <3> QED
      BY <2>5, <3>1, <3>2 DEF AnswersFollowQuestions
  <2> QED
    BY <1>3, <1>5, <2>4, <2>6
<1>8. CASE child # "runs"
  <2>1. UNCHANGED <<answers, status>>
    BY <1>1, <1>8 DEF Respond
  <2>2. Progress' /\ Answered'
    BY <1>1, <1>2, <1>6, <2>1 DEF Progress, Answered, Screens
  <2>3. AnswersFollowQuestions'
    BY <1>1, <2>1, AnswersStay
  <2> QED
    BY <1>3, <1>5, <2>2, <2>3
<1> QED
  BY <1>7, <1>8

\* Every way of answering sends what the question on screen offered.
LEMMA AnswerStep ==
    ASSUME IInv, EnterFuzzy \/ EnterMulti \/ AnswerConfirm \/ EnterText
    PROVE  IInv'
<1>1. CASE EnterFuzzy
  <2>1. /\ ui_state = "fuzzy" /\ lines[current_message].kind = "fuzzy"
        /\ items = lines[current_message].items
        /\ filtered_items[selected] \in DOMAIN items /\ items \in Seq(Item)
    BY <1>1 DEF IInv, Shown, Picked, EnterFuzzy, Questions, Lists
  <2>2. items[Highlighted] \in Item /\ Fits(lines[current_message], items[Highlighted])
    BY <2>1 DEF Fits, Highlighted
  <2>3. items[Highlighted] \in Value /\ Send(items[Highlighted]) /\ ui_state \in Questions
    BY <1>1, <2>1, <2>2 DEF EnterFuzzy, Value, Questions
  <2> QED
    BY <2>2, <2>3, SendStep
<1>2. CASE EnterMulti
  <2> DEFINE chosen == {items[i] : i \in selected_set}
  <2>1. /\ ui_state = "multi" /\ lines[current_message].kind = "multi"
        /\ items = lines[current_message].items
        /\ selected_set \subseteq DOMAIN items /\ items \in Seq(Item)
    BY <1>2 DEF IInv, Shown, Picked, EnterMulti, Questions, Lists
  <2>2. chosen \in SUBSET Item /\ chosen \subseteq {items[i] : i \in DOMAIN items}
    BY <2>1
  <2>3. Fits(lines[current_message], chosen)
    BY <2>1, <2>2 DEF Fits
  <2>4. chosen \in Value /\ Send(chosen) /\ ui_state \in Questions
    BY <1>2, <2>1, <2>2 DEF EnterMulti, Value, Questions
  <2> QED
    BY <2>3, <2>4, SendStep
<1>3. CASE AnswerConfirm
  <2>1. PICK yes \in BOOLEAN : Send(yes)
    BY <1>3 DEF AnswerConfirm
  <2>2. ui_state = "confirm" /\ lines[current_message].kind = "confirm"
    BY <1>3 DEF IInv, Shown, AnswerConfirm, Questions
  <2>3. yes \in Value /\ ui_state \in Questions
    <3>1. yes \in Value
      BY DEF Value
    <3>2. ui_state \in Questions
      BY <2>2 DEF Questions
    <3> QED
      BY <3>1, <3>2
  <2>4. Fits(lines[current_message], yes)
    BY <2>2, Zenon DEF Fits
  <2> QED
    BY <2>1, <2>3, <2>4, SendStep
<1>4. CASE EnterText
  <2>1. ui_state = "text" /\ lines[current_message].kind = "text" /\ input \in Seq(Letter)
    BY <1>4 DEF IInv, Shown, Picked, EnterText, Questions
  <2>2. input \in Value /\ ui_state \in Questions
    <3>1. input \in Value
      BY <2>1 DEF Value
    <3>2. ui_state \in Questions
      BY <2>1 DEF Questions
    <3> QED
      BY <3>1, <3>2
  <2>3. Fits(lines[current_message], input)
    BY <2>1, Zenon DEF Fits
  <2> QED
    BY <1>4, <2>2, <2>3, SendStep DEF EnterText
<1> QED
  BY <1>1, <1>2, <1>3, <1>4

\* A text that changes takes the filtered list and the highlight with it.
LEMMA Refiltered ==
    ASSUME Picked, UNCHANGED items, NEW text \in Seq(Letter), FilterItems(items, text)
    PROVE  /\ filtered_items' = Matching(items, text)
           /\ filtered_items' \in Seq(DOMAIN items) /\ selected' \in Nat \ {0}
           /\ filtered_items' # <<>> => selected' <= Len(filtered_items')
<1>1. Len(items) \in Nat /\ DOMAIN items = 1..Len(items)
  BY DEF Picked
<1>2. filtered_items' = Matching(items, text)
  BY DEF FilterItems
<1>3. filtered_items' \in Seq(DOMAIN items)
  BY <1>1, <1>2, MatchingIsAList
<1>4. /\ Len(filtered_items') \in Nat
      /\ filtered_items' # <<>> => Len(filtered_items') # 0
  BY <1>3
<1> QED
  BY <1>2, <1>3, <1>4 DEF FilterItems, Picked

\* The keys that answer nothing, the input method, and closing.
LEMMA KeyStep ==
    ASSUME IInv, Toggle \/ Move \/ Type \/ Backspace \/ Commit \/ Close
    PROVE  IInv'
<1> USE DEF IInv
<1>1. ASSUME UNCHANGED <<lines, reader, taken, receiver, status, current_message, answers, items>>,
             Picked', ui_state' \in {ui_state, "none"},
             ui_state' \in Lists => filtered_items' = Matching(items', input')
      PROVE  IInv'
  <2>1. Asked(current_message)' = Asked(current_message)
    BY <1>1 DEF Asked
  <2>2. Progress' /\ Channel' /\ Answered'
    BY <1>1, <2>1 DEF Progress, Channel, Answered, Screens
  <2>3. Shown'
    BY <1>1 DEF Shown, Questions, Lists
  <2> QED
    BY <1>1, <2>2, <2>3, AnswersStay
<1>2. CASE Toggle
  <2>1. UNCHANGED <<process, thread, receiver, runner, ui_state, input, items,
                    filtered_items, selected, answers>>
    BY <1>2 DEF Toggle
  <2>2. filtered_items[selected] \in DOMAIN items
    BY <1>2 DEF Toggle, Picked
  <2>3. selected_set' \subseteq DOMAIN items
    BY <1>2, <2>2 DEF Toggle, Highlighted, Picked
  <2>4. Picked'
    BY <2>1, <2>3 DEF Picked
  <2> QED
    BY <1>1, <2>1, <2>4 DEF Shown, process, thread, runner
<1>3. CASE Move
  <2>1. UNCHANGED <<process, thread, receiver, runner, ui_state, input, items,
                    filtered_items, selected_set, answers>>
    BY <1>3 DEF Move
  <2>2. /\ filtered_items # <<>> /\ filtered_items \in Seq(DOMAIN items)
        /\ selected \in Nat \ {0} /\ selected <= Len(filtered_items)
    BY <1>3 DEF Move, Picked
  <2>3. Len(filtered_items) \in Nat
    BY <2>2
  <2>4. selected' \in Nat \ {0} /\ selected' <= Len(filtered_items)
    BY <1>3, <2>2, <2>3 DEF Move
  <2>5. Picked'
    BY <2>1, <2>4 DEF Picked
  <2> QED
    BY <1>1, <2>1, <2>5 DEF Shown, process, thread, runner
<1>4. ASSUME NEW text \in Seq(Letter), Edit(text)
      PROVE  IInv'
  <2>1. /\ UNCHANGED <<process, thread, receiver, runner, ui_state, items, selected_set, answers>>
        /\ input' = text
    BY <1>4 DEF Edit
  <2>2. CASE ui_state \in Lists /\ FilterItems(items, text)
    <3>1. Picked'
      BY <2>1, <2>2, Refiltered DEF Picked
    <3>2. filtered_items' = Matching(items', input')
      BY <2>1, <2>2, Refiltered
    <3> QED
      BY <1>1, <2>1, <3>1, <3>2 DEF process, thread, runner
  <2>3. CASE ui_state = "text" /\ UNCHANGED <<filtered_items, selected>>
    <3>1. Picked'
      BY <2>1, <2>3 DEF Picked
    <3>2. ui_state' \notin Lists
      BY <2>1, <2>3 DEF Lists
    <3> QED
      BY <1>1, <2>1, <3>1, <3>2 DEF process, thread, runner
  <2> QED
    BY <1>4, <2>2, <2>3 DEF Edit
<1>5. CASE Type
  <2>1. PICK c \in Letter : Edit(Append(input, c))
    BY <1>5 DEF Type
  <2>2. Append(input, c) \in Seq(Letter)
    BY DEF Picked
  <2> QED
    BY <1>4, <2>1, <2>2
<1>6. CASE Backspace
  <2> DEFINE size == IF input = <<>> THEN 0 ELSE Len(input) - 1
  <2>1. input \in Seq(Letter) /\ size \in 0..Len(input)
    BY DEF Picked
  <2>2. SubSeq(input, 1, size) \in Seq(Letter)
    BY <2>1
  <2> QED
    BY <1>4, <1>6, <2>2 DEF Backspace
<1>7. CASE Commit
  <2>1. UNCHANGED <<process, thread, receiver, runner, ui_state, items, selected_set, answers>>
    BY <1>7 DEF Commit
  <2>2. input' \in Seq(Letter) /\ FilterItems(items, input')
    BY <1>7 DEF Commit, Picked
  <2>3. PICK text \in Seq(Letter) : text = input'
    BY <2>2
  <2>4. Picked' /\ filtered_items' = Matching(items', input')
    BY <2>1, <2>2, <2>3, Refiltered DEF Picked
  <2> QED
    BY <1>1, <2>1, <2>4 DEF process, thread, runner
<1>8. CASE Close
  <2>1. /\ ui_state' = "none"
        /\ UNCHANGED <<lines, thread, receiver, runner, input, list, answers>>
    BY <1>8 DEF Close
  <2>2. Picked' /\ ui_state' \notin Lists
    BY <2>1 DEF Picked, list, Lists
  <2> QED
    BY <1>1, <2>1, <2>2 DEF thread, runner, list
<1> QED
  BY <1>2, <1>3, <1>5, <1>6, <1>7, <1>8
-----------------------------------------------------------------------------
(* The theorems.                                                           *)

LEMMA Invariance == Spec => []IInv
<1>1. ASSUME IInv, [Next]_vars
      PROVE  IInv'
  <2>1. CASE Start
    BY <1>1, <2>1, StartStep
  <2>2. CASE Outside
    BY <1>1, <2>2, OutsideStep
  <2>3. CASE Reader
    BY <1>1, <2>3, ReaderStep
  <2>4. CASE Poll
    BY <1>1, <2>4, PollStep
  <2>5. CASE Keys
    BY <1>1, <2>5, AnswerStep, KeyStep DEF Keys
  <2>6. CASE UNCHANGED vars
    <3>1. /\ UNCHANGED <<lines, taken, reader, receiver, status, current_message, ui_state>>
          /\ UNCHANGED <<input, items, filtered_items, selected, selected_set, answers>>
      BY <2>6 DEF vars, process, thread, runner, list
    <3>2. \A n : Asked(n)' = Asked(n)
      BY <3>1 DEF Asked
    <3>3. AnswersFollowQuestions'
      BY <1>1, <3>1, AnswersStay DEF IInv
    <3> QED
      BY <1>1, <3>1, <3>2, <3>3 DEF IInv, Progress, Channel, Answered, Picked, Shown
  <2> QED
    BY <1>1, <2>1, <2>2, <2>3, <2>4, <2>5, <2>6 DEF Next
<1> QED
  BY Beginning, <1>1, PTL DEF Spec

\* The i-th line the script is sent answers the i-th question it asked, with
\* a value that question offered: for every script, however many lines it
\* writes before the user answers, and whenever it, its helper or the reader
\* thread ends (CommandRunner::poll, respond; the reader thread).
THEOREM AnswersAreInOrder == Spec => []AnswersFollowQuestions
<1>1. IInv => AnswersFollowQuestions
  BY DEF IInv
<1> QED
  BY Invariance, <1>1, PTL

\* Enter takes what the user sees: a list on screen is the current
\* question's, filtered by the text that is shown, and the highlighted line
\* is in it, whatever was typed, committed or moved before (filter_items,
\* poll and the key handlers of CommandExecution).
THEOREM ListIsShown == Spec => []ListIsTheQuestions
<1>1. IInv => ListIsTheQuestions
  <2> SUFFICES ASSUME IInv, ui_state \in Lists
               PROVE  ListIsTheQuestions
    BY DEF ListIsTheQuestions
  <2>1. filtered_items \in Seq(DOMAIN items) /\ selected \in Nat \ {0}
    BY DEF IInv, Picked
  <2>2. filtered_items # <<>> => selected \in DOMAIN filtered_items
    BY <2>1 DEF IInv, Picked
  <2> QED
    BY <2>2 DEF IInv, Shown, ListIsTheQuestions, Lists, Questions
<1> QED
  BY Invariance, <1>1, PTL
=============================================================================
