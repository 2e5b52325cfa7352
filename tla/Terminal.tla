------------------------------ MODULE Terminal ------------------------------
(***************************************************************************)
(* What the console of xv6-riscv (kernel/console.c, kernel/uart.c) promises *)
(* to the programs that share it: a queue of characters on their way to    *)
(* the screen, a line that the user is still editing, and a queue of typed *)
(* characters that read() may take.  Both queues keep order and lose or    *)
(* repeat nothing.                                                         *)
(***************************************************************************)
EXTENDS Naturals, Sequences

CONSTANTS
    Bytes,        \* what programs write
    Chars,        \* what the user types into a line
    Enders,       \* ... and what ends the line
    INPUT_BUF,
    OutMax        \* characters that can be on their way at once

VARIABLES
    out,          \* written and not yet transmitted
    line,         \* typed and still being edited
    ready         \* handed over and not yet read

vars == <<out, line, ready>>

Init == out = <<>> /\ line = <<>> /\ ready = <<>>

Put(b) ==
    /\ Len(out) < OutMax
    /\ out' = Append(out, b)
    /\ UNCHANGED <<line, ready>>

Show ==
    /\ out # <<>>
    /\ out' = Tail(out)
    /\ UNCHANGED <<line, ready>>

(* A character joins the line.  It is handed over when it ends the line or *)
(* takes the last place.                                                   *)
Key(c) ==
    /\ Len(ready) + Len(line) < INPUT_BUF
    /\ IF c \in Enders \/ Len(ready) + Len(line) + 1 = INPUT_BUF
       THEN line' = <<>> /\ ready' = ready \o Append(line, c)
       ELSE line' = Append(line, c) /\ ready' = ready
    /\ UNCHANGED out

(* Backspace, and ^U.  What has been handed over cannot be edited.         *)
Erase ==
    /\ line # <<>>
    /\ line' \in {SubSeq(line, 1, Len(line) - 1), <<>>}
    /\ UNCHANGED <<out, ready>>

Take ==
    /\ ready # <<>>
    /\ ready' = Tail(ready)
    /\ UNCHANGED <<out, line>>

Next ==
    \/ \E b \in Bytes : Put(b)
    \/ Show
    \/ \E c \in Chars \cup Enders : Key(c)
    \/ Erase
    \/ Take

Spec == Init /\ [][Next]_vars
=============================================================================
