------------------------------- MODULE Console -------------------------------
(***************************************************************************)
(* Two loops read the keyboard.  readCommand (keyboard.cpp) collects a     *)
(* command for the shell or the editor: at KEYBOARD_BUFFER it writes scan  *)
(* codes, SIZE bytes further on, at COMMAND_BUFFER, the characters, and    *)
(* the screen shows them.  screenEditor (ed.cpp) puts text into the buffer *)
(* of a file; its scan codes all go to the first byte of KEYBOARD_BUFFER.  *)
(***************************************************************************)
EXTENDS Integers, Sequences

CONSTANTS
  SIZE,       (* KEYBOARD_BUFFER_SIZE                                      *)
  Chars,      (* keys of characters other than the space                   *)
  MaxPos,     (* bound on the position in a command                        *)
  MaxText     (* bound on the position in a text                           *)

Text == Chars \union {"space"}
NoText == {"enter", "backspace", "esc", "arrow"}
Keys == Text \union NoText

(* What is in memory besides characters: zero, a newline, a scan code.     *)
Codes == {"nul", "nl", "scan"}

ASSUME ConsoleAssumption ==
  /\ SIZE \in Nat \ {0} /\ MaxPos \in Nat /\ MaxPos >= SIZE /\ MaxText \in Nat \ {0}
  /\ Chars \intersect (Codes \union NoText \union {"space", "none", "old"}) = {}

VARIABLES
  mode,      (* "prompt", "read" (a command has been read) or "ins"        *)
  key,       (* the last key of the loop that runs, "none" before it       *)
  mem,       (* memory from KEYBOARD_BUFFER on                             *)
  pos,       (* ioMemory - KEYBOARD_BUFFER                                 *)
  screen,    (* what the prompt line shows, from SHELL_CURSOR_POS on       *)
  text,      (* memory from the start of a file's buffer on                *)
  textPos,   (* bufferPosition - bufferPositionStart                       *)
  furthest, clean   (* for the properties: the largest pos since the       *)
                    (* prompt, and whether every blank that the line shows *)
                    (* is where no character had been before               *)

prompt == <<mem, pos, screen, furthest, clean>>
ins    == <<text, textPos>>
vars   == <<mode, key, prompt, ins>>

Cells == 0 .. (MaxPos + SIZE)
Columns == 0 .. MaxPos
Places == 1 .. (MaxText + 1)

Init ==
  /\ mode = "prompt" /\ key = "none"
  /\ mem = [c \in Cells |-> "nul"]
  /\ pos = 0 /\ furthest = 0 /\ clean = TRUE
  /\ screen = [c \in Columns |-> "nul"]
  /\ text = [c \in Places |-> "old"]
  /\ textPos = 0

-----------------------------------------------------------------------------
(* readCommand.                                                            *)

(* Every turn moves on by one; a key leaves its scan code.                 *)
MoveTo(p) ==
  /\ pos' = p
  /\ furthest' = IF p > furthest THEN p ELSE furthest

typeChar(k) ==
  /\ k \in Chars
  /\ mem' = [mem EXCEPT ![pos] = "scan", ![pos + SIZE] = k]
  /\ screen' = [screen EXCEPT ![pos] = k]
  /\ MoveTo(pos + 1)
  /\ UNCHANGED <<mode, clean>>

(* The space, which separates the words, and keys that are not known leave *)
(* the byte of the character as it was.                                    *)
typeOther(k) ==
  /\ k \in {"space", "esc", "arrow"}
  /\ mem' = [mem EXCEPT ![pos] = "scan"]
  /\ screen' = [screen EXCEPT ![pos] = "nul"]
  /\ MoveTo(pos + 1)
  /\ clean' = (clean /\ pos = furthest)
  /\ UNCHANGED mode

typeEnter(k) ==
  /\ k = "enter"
  /\ mem' = [mem EXCEPT ![pos] = "scan", ![pos + SIZE] = "nl"]
  /\ MoveTo(pos + 1)
  /\ mode' = "read"
  /\ UNCHANGED <<screen, clean>>

(* Two scan codes are cleared and the character on the screen, two steps   *)
(* back and one on.  The character in memory stays.  At the beginning of   *)
(* the buffer nothing is cleared, and the turn moves on all the same.      *)
Mutant_typeBackspace(k) ==    (* the position stays                         *)
  /\ k = "backspace"
  /\ mem' = [mem EXCEPT ![pos] = "scan"]
  /\ screen' = [screen EXCEPT ![IF pos = 0 THEN 0 ELSE pos - 1] = "nul"]
  /\ UNCHANGED <<mode, clean, pos, furthest>>
typeBackspace(k) ==
  /\ k = "backspace"
  /\ IF pos = 0
       THEN /\ mem' = [mem EXCEPT ![0] = "scan"]
            /\ MoveTo(1)
            /\ clean' = (clean /\ furthest = 0)
            /\ UNCHANGED screen
       ELSE /\ mem' = [c \in Cells |-> IF c = pos THEN "scan"
                                       ELSE IF c \in {pos - 1, pos - 2} THEN "nul" ELSE mem[c]]
            /\ screen' = [screen EXCEPT ![pos - 1] = "nul"]
            /\ MoveTo(pos - 1)
            /\ UNCHANGED clean
  /\ UNCHANGED mode

readCommand(k) ==
  /\ mode = "prompt" /\ (pos < MaxPos \/ k = "backspace")
  /\ typeChar(k) \/ typeOther(k) \/ typeEnter(k) \/ typeBackspace(k)
  /\ key' = k
  /\ UNCHANGED ins

-----------------------------------------------------------------------------
(* The callers, main() of the shell and of the editor: both buffers are    *)
(* cleared before every prompt and before the screen editor starts, and so *)
(* is the prompt's line on the screen.                                     *)

Mutant_Clear == UNCHANGED mem
Clear == mem' = [c \in Cells |-> IF c < 2 * SIZE THEN "nul" ELSE mem[c]]

Start(m) ==
  /\ mode' = m /\ key' = "none"
  /\ Clear
  /\ pos' = 0 /\ furthest' = 0 /\ clean' = TRUE
  /\ screen' = [c \in Columns |-> "nul"]
  /\ textPos' = 0

runCommand == mode = "read" /\ Start("prompt") /\ UNCHANGED text

(* The command "ins" of the editor.                                        *)
insertCommand == mode = "read" /\ Start("ins") /\ UNCHANGED text

-----------------------------------------------------------------------------
(* screenEditor.                                                           *)

insertChar(k) ==
  /\ k \in Text
  /\ text' = [text EXCEPT ![textPos + 1] = k]
  /\ textPos' = textPos + 1

(* The blank goes to the position behind the character that is given up.   *)
Mutant_insertBackspace(k) ==    (* two back, as in readCommand              *)
  /\ k = "backspace"
  /\ text' = [text EXCEPT ![textPos + 1] = "space"]
  /\ textPos' = IF textPos <= 1 THEN 0 ELSE textPos - 2
Mutant_insertBackspaceUnchecked(k) ==    (* the start is not checked        *)
  /\ k = "backspace"
  /\ text' = [text EXCEPT ![textPos + 1] = "space"]
  /\ textPos' = textPos - 1
insertBackspace(k) ==
  /\ k = "backspace"
  /\ text' = [text EXCEPT ![textPos + 1] = "space"]
  /\ textPos' = IF textPos <= 0 THEN 0 ELSE textPos - 1

(* The arrows move only what part of the text is shown; enter does nothing *)
insertOther(k) ==
  /\ k \in {"enter", "arrow"}
  /\ UNCHANGED ins

screenEditor(k) ==
  /\ mode = "ins" /\ (textPos < MaxText \/ k \notin Text)
  /\ insertChar(k) \/ insertBackspace(k) \/ insertOther(k)
  /\ mem' = [mem EXCEPT ![0] = "scan"]
  /\ key' = k
  /\ UNCHANGED <<mode, pos, screen, furthest, clean>>

(* The escape key.  What is in the buffer is the old text the next time.   *)
screenEditorEnds ==
  /\ mode = "ins"
  /\ Start("prompt")
  /\ text' = [p \in Places |-> "old"]

Next ==
  \/ \E k \in Keys : readCommand(k) \/ screenEditor(k)
  \/ runCommand
  \/ insertCommand
  \/ screenEditorEnds

Spec == Init /\ [][Next]_vars

-----------------------------------------------------------------------------
(* Properties.                                                             *)

TypeOK ==
  /\ mode \in {"prompt", "read", "ins"}
  /\ key \in Keys \union {"none"}
  /\ mem \in [Cells -> Chars \union Codes]
  /\ pos \in 0 .. MaxPos /\ furthest \in 0 .. MaxPos
  /\ screen \in [Columns -> Chars \union {"nul"}]
  /\ clean \in BOOLEAN
  /\ text \in [Places -> Text \union {"old"}]
  /\ textPos \in 0 .. MaxText

(* The parsers of the shell and the editor get the command that the screen *)
(* shows: readCommand keeps three copies of the line, moves through them   *)
(* back and forth, erases only two of them, and leaves cells of the third  *)
(* unwritten for the blanks.  They agree as long as the line is shorter    *)
(* than the buffer and no blank is left over an erased character; and      *)
(* nothing that was erased follows the newline, if the newline is as far   *)
(* as it went.                                                             *)
CommandIsOnScreen ==
  mode \in {"prompt", "read"} /\ clean /\ furthest < SIZE =>
    LET typed == IF mode = "read" THEN pos - 1 ELSE pos
    IN /\ \A c \in 0 .. (typed - 1) : mem[SIZE + c] = screen[c]
       /\ mode = "read" => mem[SIZE + typed] = "nl"
       /\ mode = "read" /\ furthest = pos =>
            \A c \in pos .. (SIZE - 1) : mem[SIZE + c] = "nul"

(* The characters from the start of the buffer up to the position of the   *)
(* screen editor are what was typed, less what was taken back, whatever    *)
(* keys it does not know come in between and however often a backspace is  *)
(* pressed at the beginning.                                               *)
L == INSTANCE Line WITH
       line <- IF mode = "ins" THEN SubSeq(text, 1, textPos) ELSE <<>>,
       key <- IF mode = "ins" THEN key ELSE "none"
InsertImplementsLine == L!Spec
=============================================================================
