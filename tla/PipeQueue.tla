----------------------------- MODULE PipeQueue ------------------------------
(***************************************************************************)
(* What a pipe of xv6-riscv (kernel/pipe.c) promises to the programs that  *)
(* share it: a bounded queue of bytes.  Each byte a writer puts into it is *)
(* given to one reader, in order; nothing is put once no reader is left.   *)
(***************************************************************************)
EXTENDS Naturals, Sequences

CONSTANTS Bytes, PIPESIZE

VARIABLES queue,      \* bytes written and not yet read
          got,        \* the byte that was read last
          readopen    \* some process may still read

vars == <<queue, got, readopen>>

Init ==
    /\ queue = <<>>
    /\ got \in Bytes
    /\ readopen = TRUE

Put(b) ==
    /\ readopen
    /\ Len(queue) < PIPESIZE
    /\ queue' = Append(queue, b)
    /\ UNCHANGED <<got, readopen>>

Take ==
    /\ queue # <<>>
    /\ got' = Head(queue)
    /\ queue' = Tail(queue)
    /\ UNCHANGED readopen

(* The reader passed a bad address: the byte is gone.                      *)
Lose ==
    /\ queue # <<>>
    /\ queue' = Tail(queue)
    /\ UNCHANGED <<got, readopen>>

CloseRead ==
    /\ readopen
    /\ readopen' = FALSE
    /\ UNCHANGED <<queue, got>>

Next ==
    \/ \E b \in Bytes : Put(b)
    \/ Take
    \/ Lose
    \/ CloseRead

Spec == Init /\ [][Next]_vars
=============================================================================
