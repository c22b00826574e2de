-------------------------------- MODULE Line --------------------------------
(***************************************************************************)
(* What typing is meant to do: a character is put at the end of the line,  *)
(* a backspace takes the last one away, any other key leaves the line.     *)
(***************************************************************************)
EXTENDS Integers, Sequences

CONSTANTS Text, Keys   (* the keys that stand for a character, all keys    *)

VARIABLES line, key    (* the characters so far, the last key ("none")     *)

Init == line = <<>> /\ key = "none"

Press(k) ==
  /\ key' = k
  /\ line' = CASE k \in Text -> Append(line, k)
               [] k = "backspace" /\ line # <<>> -> SubSeq(line, 1, Len(line) - 1)
               [] OTHER -> line

NewLine == key' = "none" /\ line' = <<>>

Next == NewLine \/ \E k \in Keys : Press(k)

Spec == Init /\ [][Next]_<<line, key>>
=============================================================================
