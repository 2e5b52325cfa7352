----------------------------- MODULE MCConsole ------------------------------
(* Console for TLC.                                                        *)
EXTENDS Console

CONSTANTS p1, p2

(* Two writers and an echo; two readers of one line; every key; and a      *)
(* reader beside a writer.                                                 *)
MCLoads ==
    {[readers |-> {}, writers |-> {p1, p2}, killable |-> {p1}, sizes |-> {1}, keys |-> {"a"}, max |-> 1],
     [readers |-> {p1, p2}, writers |-> {}, killable |-> {p1}, sizes |-> {2}, keys |-> {"a", "cr"}, max |-> 3],
     [readers |-> {p1}, writers |-> {}, killable |-> {p1}, sizes |-> {1, 2}, keys |-> Keys, max |-> 3],
     [readers |-> {p1}, writers |-> {p2}, killable |-> {}, sizes |-> {1}, keys |-> {"cr"}, max |-> 1]}
=============================================================================
