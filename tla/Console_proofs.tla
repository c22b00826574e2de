---------------------------- MODULE Console_proofs ----------------------------
(***************************************************************************)
(* Proofs about Console: the types, the copies of a command that           *)
(* readCommand keeps, and that the screen editor implements Line.          *)
(***************************************************************************)
EXTENDS Console, SequenceTheorems, TLAPS

-----------------------------------------------------------------------------
(* Types.                                                                  *)

LEMMA Bounds ==
  /\ SIZE \in Nat \ {0} /\ MaxPos \in Nat /\ MaxPos >= SIZE /\ MaxText \in Nat \ {0}
  /\ Columns \subseteq Cells /\ 0 \in Columns /\ 1 \in Columns
  /\ \A c \in Columns : c + SIZE \in Cells
BY ConsoleAssumption DEF Columns, Cells

LEMMA TypeInit == Init => TypeOK
BY Bounds DEF Init, TypeOK, Codes, Places

LEMMA TypeStep == TypeOK /\ [Next]_vars => TypeOK'
<1> SUFFICES ASSUME TypeOK, [Next]_vars PROVE TypeOK'
  OBVIOUS
<1> USE Bounds DEF TypeOK
<1>1. ASSUME NEW k \in Keys, readCommand(k)
      PROVE  TypeOK'
  <2>1. pos \in Columns /\ "scan" \in Codes /\ "nul" \in Codes /\ "nl" \in Codes
    BY DEF Columns, Codes
  <2>2. UNCHANGED ins /\ key' = k /\ mode = "prompt"
    BY <1>1 DEF readCommand
  <2>3. ASSUME NEW p \in Columns, MoveTo(p)
        PROVE  pos' \in 0 .. MaxPos /\ furthest' \in 0 .. MaxPos
    BY <2>3 DEF MoveTo, Columns
  <2>4. k # "backspace" => pos + 1 \in Columns
    BY <1>1 DEF readCommand, Columns
  <2>5. CASE typeChar(k)
    <3>1. k # "backspace"
      BY <2>5, ConsoleAssumption DEF typeChar, NoText
    <3> QED
      BY <2>1, <2>2, <2>3, <2>4, <2>5, <3>1 DEF typeChar, ins
  <2>6. CASE typeOther(k)
    <3>1. pos' \in 0 .. MaxPos /\ furthest' \in 0 .. MaxPos
      BY <2>3, <2>4, <2>6 DEF typeOther
    <3>2. clean' \in BOOLEAN
      BY <2>6, Zenon DEF typeOther
    <3> QED
      BY <2>1, <2>2, <2>6, <3>1, <3>2 DEF typeOther, ins
  <2>7. CASE typeEnter(k)
    BY <2>1, <2>2, <2>3, <2>4, <2>7 DEF typeEnter, ins
  <2>8. CASE typeBackspace(k)
    <3>1. pos' \in 0 .. MaxPos /\ furthest' \in 0 .. MaxPos
      <4>1. pos # 0 => pos - 1 \in Columns
        BY DEF Columns
      <4> QED
        BY <2>3, <2>8, <4>1 DEF typeBackspace
    <3>2. clean' \in BOOLEAN
      BY <2>8, Zenon DEF typeBackspace
    <3>3. mem' \in [Cells -> Chars \union Codes] /\ screen' \in [Columns -> Chars \union {"nul"}]
      BY <2>1, <2>8 DEF typeBackspace
    <3> QED
      BY <2>2, <2>8, <3>1, <3>2, <3>3 DEF typeBackspace, ins
  <2> QED
    BY <1>1, <2>5, <2>6, <2>7, <2>8 DEF readCommand
<1>2. ASSUME NEW m \in {"prompt", "ins"}, Start(m), text' \in [Places -> Text \union {"old"}]
      PROVE  TypeOK'
  BY <1>2 DEF Start, Clear, Codes
<1>3. ASSUME NEW k \in Keys, screenEditor(k)
      PROVE  TypeOK'
  <2>1. "scan" \in Codes /\ "space" \in Text
    BY DEF Codes, Text
  <2>2. mem' \in [Cells -> Chars \union Codes] /\ key' \in Keys
        /\ UNCHANGED <<mode, pos, screen, furthest, clean>>
    BY <1>3, <2>1 DEF screenEditor
  <2>3. textPos + 1 \in Places
    BY DEF Places
  <2>4. text' \in [Places -> Text \union {"old"}]
    BY <1>3, <2>1, <2>3 DEF screenEditor, insertChar, insertBackspace, insertOther, ins
  <2>5. textPos' \in 0 .. MaxText
    BY <1>3 DEF screenEditor, insertChar, insertBackspace, insertOther, ins
  <2> QED
    BY <2>2, <2>4, <2>5
<1>4. CASE runCommand
  BY <1>2, <1>4 DEF runCommand
<1>5. CASE insertCommand
  BY <1>2, <1>5 DEF insertCommand
<1>6. CASE screenEditorEnds
  BY <1>2, <1>6 DEF screenEditorEnds
<1>7. CASE UNCHANGED vars
  BY <1>7 DEF vars, prompt, ins
<1> QED
  BY <1>1, <1>3, <1>4, <1>5, <1>6, <1>7 DEF Next

(* The variables keep their types: no key writes outside the memory that   *)
(* is modelled, in particular not a backspace at the beginning of a line.  *)
THEOREM TypeCorrect == Spec => []TypeOK
BY TypeInit, TypeStep, PTL DEF Spec

-----------------------------------------------------------------------------
(* The command and its copies.                                             *)

Typed == IF mode = "read" THEN pos - 1 ELSE pos

(* Behind the furthest position nothing was ever written, neither to the   *)
(* copy in memory nor to the screen.                                       *)
CommandInv ==
  /\ pos <= furthest
  /\ mode \in {"prompt", "read"} /\ clean /\ furthest < SIZE =>
       /\ \A c \in 0 .. (Typed - 1) : mem[SIZE + c] = screen[c]
       /\ mode = "prompt" =>
            \A c \in furthest .. (SIZE - 1) : mem[SIZE + c] = "nul" /\ screen[c] = "nul"
       /\ mode = "read" => mem[SIZE + Typed] = "nl"
       /\ mode = "read" /\ furthest = pos =>
            \A c \in pos .. (SIZE - 1) : mem[SIZE + c] = "nul"

LEMMA CommandInit == Init => CommandInv
BY Bounds DEF Init, CommandInv, Typed, Cells, Columns

(* A new line: both buffers and the line on the screen are clear.          *)
LEMMA StartClear ==
  ASSUME TypeOK, NEW m \in {"prompt", "ins"}, Start(m)
  PROVE  CommandInv'
<1>1. mode' = m /\ pos' = 0 /\ furthest' = 0 /\ \A c \in Columns : screen'[c] = "nul"
  BY DEF Start
<1>2. \A c \in 0 .. (SIZE - 1) : c \in Columns /\ mem'[SIZE + c] = "nul"
  BY Bounds DEF Start, Clear, Cells, Columns
<1> QED
  BY <1>1, <1>2 DEF CommandInv, Typed

(* What is known of the line before a key of readCommand that leaves it    *)
(* such that CommandIsOnScreen says something of it.                       *)
LineOK ==
  /\ mode = "prompt" /\ clean /\ furthest < SIZE
  /\ \A c \in 0 .. (pos - 1) : mem[SIZE + c] = screen[c]
  /\ \A c \in furthest .. (SIZE - 1) : mem[SIZE + c] = "nul" /\ screen[c] = "nul"

LEMMA Below ==
  ASSUME NEW p \in Int, NEW n \in Int, p < n
  PROVE  \A c \in 0 .. (p - 1) : c \in 0 .. (n - 1) /\ c < p
OBVIOUS

LEMMA KeyStep ==
  ASSUME TypeOK, CommandInv, NEW k \in Keys, readCommand(k)
  PROVE  CommandInv'
<1> USE Bounds
<1>1. /\ pos \in Columns /\ furthest \in Columns /\ pos <= furthest /\ mode = "prompt"
      /\ mem \in [Cells -> Chars \union Codes] /\ screen \in [Columns -> Chars \union {"nul"}]
  BY DEF TypeOK, CommandInv, readCommand, Columns
<1>2. /\ pos' \in Int /\ furthest <= furthest' /\ pos' <= furthest' /\ furthest' \in Int
      /\ pos' > pos => pos' = pos + 1
      /\ pos' > furthest => furthest' = pos'
      /\ pos' <= furthest => furthest' = furthest
  BY <1>1 DEF readCommand, typeChar, typeOther, typeEnter, typeBackspace, MoveTo, Columns
<1>3. clean' => clean
  BY Zenon DEF readCommand, typeChar, typeOther, typeEnter, typeBackspace
<1>4. SUFFICES ASSUME clean', furthest' < SIZE, LineOK
               PROVE  CommandInv'
  <2>1. clean' /\ furthest' < SIZE => clean /\ furthest < SIZE
    BY <1>1, <1>2, <1>3 DEF Columns
  <2>2. clean' /\ furthest' < SIZE => LineOK
    BY <1>1, <2>1 DEF CommandInv, LineOK, Typed
  <2> QED
    BY <1>2, <2>2 DEF CommandInv
<1>5. pos' < SIZE /\ pos < SIZE /\ furthest < SIZE
  BY <1>1, <1>2, <1>4 DEF Columns
<1>6. \A c \in 0 .. (SIZE - 1) :
        /\ c < pos => mem[SIZE + c] = screen[c]
        /\ c >= furthest => mem[SIZE + c] = "nul" /\ screen[c] = "nul"
  BY <1>1, <1>4 DEF LineOK, Columns
<1>7. ASSUME mode' = "prompt",
             \A c \in 0 .. (SIZE - 1) :
               /\ c < pos' => mem'[SIZE + c] = screen'[c]
               /\ c >= furthest' => mem'[SIZE + c] = "nul" /\ screen'[c] = "nul"
      PROVE  CommandInv'
  <2>1. \A c \in 0 .. (pos' - 1) : c \in 0 .. (SIZE - 1) /\ c < pos'
    <3>1. pos' \in Int /\ SIZE \in Int /\ pos' < SIZE
      BY <1>2, <1>5
    <3> QED
      BY <3>1, Below
  <2>2. \A c \in furthest' .. (SIZE - 1) : c \in 0 .. (SIZE - 1) /\ c >= furthest'
    BY <1>1, <1>2 DEF Columns
  <2> QED
    BY <1>2, <1>7, <2>1, <2>2 DEF CommandInv, Typed
<1>8. CASE typeChar(k)
  <2>1. mode' = "prompt" /\ pos' = pos + 1
    BY <1>1, <1>8 DEF typeChar, MoveTo
  <2>2. \A c \in 0 .. (SIZE - 1) :
          mem'[SIZE + c] = IF c = pos THEN k ELSE mem[SIZE + c]
    BY <1>1, <1>5, <1>8 DEF typeChar, Cells, Columns
  <2>3. \A c \in 0 .. (SIZE - 1) : screen'[c] = IF c = pos THEN k ELSE screen[c]
    BY <1>1, <1>5, <1>8 DEF typeChar, Columns
  <2>4. ASSUME NEW c \in 0 .. (SIZE - 1)
        PROVE  /\ c < pos' => mem'[SIZE + c] = screen'[c]
               /\ c >= furthest' => mem'[SIZE + c] = "nul" /\ screen'[c] = "nul"
    <3>1. (c < pos' => c = pos \/ c < pos) /\ (c >= furthest' => c # pos /\ c >= furthest)
      BY <1>1, <1>2, <2>1 DEF Columns
    <3> QED
      BY <1>6, <2>2, <2>3, <3>1
  <2> QED
    BY <1>7, <2>1, <2>4
<1>9. CASE typeOther(k)
  <2>1. mode' = "prompt" /\ pos' = pos + 1 /\ pos = furthest
    BY <1>1, <1>4, <1>9 DEF typeOther, MoveTo
  <2>2. \A c \in 0 .. (SIZE - 1) : mem'[SIZE + c] = mem[SIZE + c]
    BY <1>1, <1>5, <1>9 DEF typeOther, Cells, Columns
  <2>3. \A c \in 0 .. (SIZE - 1) : screen'[c] = IF c = pos THEN "nul" ELSE screen[c]
    BY <1>1, <1>5, <1>9 DEF typeOther, Columns
  <2>4. ASSUME NEW c \in 0 .. (SIZE - 1)
        PROVE  /\ c < pos' => mem'[SIZE + c] = screen'[c]
               /\ c >= furthest' => mem'[SIZE + c] = "nul" /\ screen'[c] = "nul"
    <3>1. /\ c < pos' => (c >= furthest /\ c = pos) \/ (c < pos /\ c # pos)
          /\ c >= furthest' => c # pos /\ c >= furthest
      BY <1>1, <1>2, <2>1 DEF Columns
    <3> QED
      BY <1>6, <2>2, <2>3, <3>1
  <2> QED
    BY <1>7, <2>1, <2>4
<1>10. CASE typeEnter(k)
  <2>1. mode' = "read" /\ pos' = pos + 1 /\ screen' = screen
    BY <1>1, <1>10 DEF typeEnter, MoveTo
  <2>2. \A c \in 0 .. (SIZE - 1) :
          mem'[SIZE + c] = IF c = pos THEN "nl" ELSE mem[SIZE + c]
    BY <1>1, <1>5, <1>10 DEF typeEnter, Cells, Columns
  <2>3. ASSUME NEW c \in 0 .. (pos - 1)
        PROVE  mem'[SIZE + c] = screen'[c]
    <3>1. c \in 0 .. (SIZE - 1) /\ c # pos /\ c < pos
      BY <1>1, <1>5 DEF Columns
    <3> QED
      BY <1>6, <2>1, <2>2, <3>1
  <2>4. mem'[SIZE + pos] = "nl"
    BY <1>1, <1>5, <2>2 DEF Columns
  <2>5. ASSUME furthest' = pos', NEW c \in pos' .. (SIZE - 1)
        PROVE  mem'[SIZE + c] = "nul"
    <3>1. c \in 0 .. (SIZE - 1) /\ c # pos /\ c >= furthest
      BY <1>1, <1>2, <1>5, <2>1, <2>5 DEF Columns
    <3> QED
      BY <1>6, <2>2, <3>1
  <2>6. pos' - 1 = pos
    BY <1>1, <2>1 DEF Columns
  <2> QED
    BY <1>2, <2>1, <2>3, <2>4, <2>5, <2>6 DEF CommandInv, Typed
<1>11. CASE typeBackspace(k)
  <2>1. mode' = "prompt"
    BY <1>1, <1>11 DEF typeBackspace
  <2>2. \A c \in 0 .. (SIZE - 1) : mem'[SIZE + c] = mem[SIZE + c]
    BY <1>1, <1>5, <1>11 DEF typeBackspace, Cells, Columns
  <2>3. CASE pos = 0
    <3>1. screen' = screen /\ pos' = 1 /\ furthest = 0
      BY <1>1, <1>4, <1>11, <2>3 DEF typeBackspace, MoveTo
    <3>2. \A c \in 0 .. (SIZE - 1) : c >= furthest
      BY <3>1
    <3> QED
      BY <1>6, <1>7, <2>1, <2>2, <3>1, <3>2
  <2>4. CASE pos # 0
    <3>1. pos' = pos - 1 /\ furthest' = furthest
      BY <1>1, <1>11, <2>4 DEF typeBackspace, MoveTo, Columns
    <3>2. \A c \in 0 .. (SIZE - 1) : screen'[c] = IF c = pos - 1 THEN "nul" ELSE screen[c]
      BY <1>1, <1>5, <1>11, <2>4 DEF typeBackspace, Columns
    <3>3. \A c \in 0 .. (SIZE - 1) : c < pos' => c < pos /\ c # pos - 1
      BY <1>1, <3>1 DEF Columns
    <3> QED
      BY <1>6, <1>7, <2>1, <2>2, <3>1, <3>2, <3>3
  <2> QED
    BY <2>3, <2>4
<1> QED
  BY <1>8, <1>9, <1>10, <1>11 DEF readCommand

LEMMA CommandStep == TypeOK /\ CommandInv /\ [Next]_vars => CommandInv'
<1> SUFFICES ASSUME TypeOK, CommandInv, [Next]_vars PROVE CommandInv'
  OBVIOUS
<1>1. CASE \E k \in Keys : readCommand(k)
  BY <1>1, KeyStep
<1>2. CASE \E k \in Keys : screenEditor(k)
  BY <1>2 DEF screenEditor, CommandInv, Typed
<1>3. CASE runCommand \/ insertCommand \/ screenEditorEnds
  BY <1>3, StartClear DEF runCommand, insertCommand, screenEditorEnds
<1>4. CASE UNCHANGED vars
  BY <1>4 DEF vars, prompt, CommandInv, Typed
<1> QED
  BY <1>1, <1>2, <1>3, <1>4 DEF Next

(* What the parsers read is what the screen shows, however many characters *)
(* are typed and taken back, as long as the line fits its buffer and no    *)
(* blank is left over an erased character.                                 *)
THEOREM CommandStaysOnScreen == Spec => []CommandIsOnScreen
<1>1. Spec => [](TypeOK /\ CommandInv)
  BY TypeInit, TypeStep, CommandInit, CommandStep, PTL DEF Spec
<1>2. CommandInv => CommandIsOnScreen
  BY Zenon DEF CommandInv, CommandIsOnScreen, Typed
<1> QED
  BY <1>1, <1>2, PTL

-----------------------------------------------------------------------------
(* The screen editor implements Line.                                      *)

(* The line and the key of the refinement mapping.                         *)
EditedLine == IF mode = "ins" THEN SubSeq(text, 1, textPos) ELSE <<>>
EditedKey == IF mode = "ins" THEN key ELSE "none"

(* The first n cells, seen as a sequence.                                  *)
LEMMA Cut ==
  ASSUME NEW f \in [Places -> Text \union {"old"}], NEW n \in 0 .. MaxText,
         NEW s, s = SubSeq(f, 1, n)
  PROVE  /\ s \in Seq(Text \union {"old"}) /\ Len(s) = n
         /\ \A i \in 1 .. n : s[i] = f[i]
<1>1. \A i \in 1 .. n : f[i] \in Text \union {"old"}
  BY Bounds DEF Places
<1> QED
  BY <1>1, SubSeqProperties

LEMMA PressIsPress ==
  ASSUME TypeOK, NEW k \in Keys, screenEditor(k)
  PROVE  L!Press(k)
<1>1. PICK old, new : old = SubSeq(text, 1, textPos) /\ new = SubSeq(text', 1, textPos')
  OBVIOUS
<1>2. mode = "ins" /\ mode' = "ins" /\ key' = k
  BY DEF screenEditor
<1>3. text \in [Places -> Text \union {"old"}] /\ textPos \in 0 .. MaxText
  BY DEF TypeOK
<1>4. text' \in [Places -> Text \union {"old"}] /\ textPos' \in 0 .. MaxText
  BY TypeStep DEF TypeOK, Next
<1>5. /\ old \in Seq(Text \union {"old"}) /\ Len(old) = textPos
      /\ \A i \in 1 .. textPos : old[i] = text[i]
  BY <1>1, <1>3, Cut
<1>6. /\ new \in Seq(Text \union {"old"}) /\ Len(new) = textPos'
      /\ \A i \in 1 .. textPos' : new[i] = text'[i]
  BY <1>1, <1>4, Cut
<1>7. {"enter", "backspace", "arrow"} \intersect Text = {}
  BY ConsoleAssumption DEF Text, NoText
<1>8. \A i \in 1 .. textPos : i \in Places /\ i # textPos + 1
  BY <1>3, Bounds DEF Places
<1>9. new = CASE k \in Text -> Append(old, k)
              [] k = "backspace" /\ old # <<>> -> SubSeq(old, 1, Len(old) - 1)
              [] OTHER -> old
  <2>1. CASE insertChar(k)
    <3>1. k \in Text /\ textPos' = textPos + 1
          /\ text' = [text EXCEPT ![textPos + 1] = k]
      BY <2>1 DEF insertChar
    <3>2. textPos + 1 \in Places
      BY <1>3, Bounds DEF Places
    <3>3. PICK longer : longer = Append(old, k)
      OBVIOUS
    <3>4. /\ longer \in Seq(Text \union {"old"}) /\ Len(longer) = textPos + 1
          /\ \A i \in 1 .. textPos : longer[i] = old[i]
          /\ longer[textPos + 1] = k
      BY <1>5, <3>1, <3>3, AppendProperties
    <3>5. \A i \in 1 .. textPos + 1 : i = textPos + 1 \/ i \in 1 .. textPos
      BY <1>3
    <3>6. \A i \in 1 .. textPos + 1 : new[i] = longer[i]
      BY <1>3, <1>5, <1>6, <1>8, <3>1, <3>2, <3>4, <3>5
    <3>7. new = longer
      BY <1>6, <3>1, <3>4, <3>6, SeqEqual
    <3>8. k # "backspace" /\ new = Append(old, k)
      BY <1>7, <3>1, <3>3, <3>7
    <3> QED
      BY <3>1, <3>8, Zenon
  <2>2. CASE insertBackspace(k)
    <3>1. /\ k = "backspace" /\ k \notin Text
          /\ text' = [text EXCEPT ![textPos + 1] = "space"]
          /\ textPos' = IF textPos <= 0 THEN 0 ELSE textPos - 1
      BY <1>7, <2>2 DEF insertBackspace
    <3>2. CASE textPos = 0
      <4>1. old = <<>> /\ new = <<>>
        BY <1>5, <1>6, <3>1, <3>2, EmptySeq
      <4> QED
        BY <3>1, <4>1
    <3>3. CASE textPos # 0
      <4>1. old # <<>> /\ textPos' = textPos - 1
        BY <1>3, <1>5, <3>1, <3>3, EmptySeq
      <4>2. PICK shorter : shorter = SubSeq(old, 1, Len(old) - 1)
        OBVIOUS
      <4>3. textPos - 1 \in Int /\ 1 <= textPos /\ \A i \in 1 .. textPos - 1 : i \in 1 .. textPos
        BY <1>3, <3>3
      <4>4. /\ shorter \in Seq(Text \union {"old"}) /\ Len(shorter) = textPos - 1
            /\ \A i \in 1 .. textPos - 1 : shorter[i] = old[i]
        BY <1>5, <3>3, <4>2, <4>3, SubSeqProperties
      <4>5. \A i \in 1 .. textPos - 1 : new[i] = shorter[i]
        BY <1>3, <1>5, <1>6, <1>8, <3>1, <4>1, <4>3, <4>4
      <4>6. new = shorter
        BY <1>6, <4>1, <4>4, <4>5, SeqEqual
      <4> QED
        BY <3>1, <4>1, <4>2, <4>6
    <3> QED
      BY <3>2, <3>3
  <2>3. CASE insertOther(k)
    <3>1. k \in {"enter", "arrow"} /\ text' = text /\ textPos' = textPos
      BY <2>3 DEF insertOther, ins
    <3>2. k \notin Text /\ k # "backspace" /\ new = old
      BY <1>1, <1>7, <3>1
    <3> QED
      BY <3>2
  <2> QED
    BY <2>1, <2>2, <2>3 DEF screenEditor
<1> QED
  BY <1>1, <1>2, <1>9 DEF L!Press

LEMMA LineStep ==
  ASSUME TypeOK, [Next]_vars
  PROVE  L!Next \/ (EditedLine' = EditedLine /\ EditedKey' = EditedKey)
<1>1. CASE \E k \in Keys : readCommand(k)
  <2>1. mode # "ins" /\ mode' # "ins"
    BY <1>1 DEF readCommand, typeChar, typeOther, typeEnter, typeBackspace
  <2> QED
    BY <2>1 DEF EditedLine, EditedKey
<1>2. CASE \E k \in Keys : screenEditor(k)
  BY <1>2, PressIsPress DEF L!Next
<1>3. ASSUME NEW m \in {"prompt", "ins"}, Start(m)
      PROVE  EditedLine' = <<>> /\ EditedKey' = "none"
  BY <1>3, SubSeqEmpty DEF Start, EditedLine, EditedKey
<1>4. CASE runCommand \/ insertCommand \/ screenEditorEnds
  <2>1. L!NewLine
    BY <1>3, <1>4 DEF runCommand, insertCommand, screenEditorEnds, L!NewLine,
                      EditedLine, EditedKey
  <2> QED
    BY <2>1 DEF L!Next
<1>5. CASE UNCHANGED vars
  BY <1>5 DEF vars, ins, EditedLine, EditedKey
<1> QED
  BY <1>1, <1>2, <1>4, <1>5 DEF Next

(* The screen editor does what typing is meant to do, whatever keys it     *)
(* does not know come in between and however often a backspace is pressed  *)
(* at the beginning.                                                       *)
THEOREM EditorImplementsLine == Spec => InsertImplementsLine
<1>1. Init => L!Init
  BY DEF Init, L!Init
<1>2. TypeOK /\ [Next]_vars => [L!Next]_<<EditedLine, EditedKey>>
  BY LineStep
<1> QED
  BY <1>1, <1>2, TypeInit, TypeStep, PTL
     DEF Spec, InsertImplementsLine, L!Spec, EditedLine, EditedKey
=============================================================================
