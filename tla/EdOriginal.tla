----------------------------- MODULE EdOriginal -----------------------------
(***************************************************************************)
(* What applying a phpatcher-ed script means: every command addresses the  *)
(* line numbers of the ORIGINAL file.  The result is produced from the     *)
(* bottom up.  `tail` is what is already final; the original lines below   *)
(* number `cut` are still to be copied, and a command takes the ones above *)
(* its range over to the tail, puts its text in front of them and moves    *)
(* the cut to the first line of its range.  The cut never rises and the    *)
(* lines under it are the original's, so nothing renumbers.                *)
(***************************************************************************)
EXTENDS EdCommands

VARIABLES
    original,   \* the lines of the file
    script,     \* the commands
    n,          \* how many commands are done
    cut, tail,  \* the original lines under cut, then tail, are the result
    status      \* "working", "patched" or "refused"

vars == <<original, script, n, cut, tail, status>>

Result == SubSeq(original, 1, cut - 1) \o tail

Init == /\ n = 0
        /\ cut = Len(original) + 1
        /\ tail = <<>>
        /\ status = "working"

\* The next command, with `text` in place of the lines it replaces.
Replace(text) ==
    LET c == script[n + 1]
    IN  /\ status = "working"
        /\ n < Len(script)
        /\ 1 <= From(c) /\ From(c) <= To(c) + 1 /\ To(c) < cut
        /\ tail' = text \o SubSeq(original, To(c) + 1, cut - 1) \o tail
        /\ cut' = From(c)
        /\ n' = n + 1
        /\ UNCHANGED <<original, script, status>>

Patch == /\ status = "working" /\ n = Len(script)
         /\ status' = "patched"
         /\ UNCHANGED <<original, script, n, cut, tail>>

Refuse == /\ status = "working"
          /\ status' = "refused"
          /\ UNCHANGED <<original, script, n, cut, tail>>

\* The text of a command is whatever the new tail begins with.
Next == \/ \E m \in 0..Len(tail') : Replace(SubSeq(tail', 1, m))
        \/ Patch
        \/ Refuse

Spec == Init /\ [][Next]_vars
=============================================================================
