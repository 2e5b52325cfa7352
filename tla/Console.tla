------------------------------ MODULE Console -------------------------------
(***************************************************************************)
(* The console of xv6-riscv: line editing and read() (kernel/console.c),   *)
(* the transmit ring, the interrupt handler and the polled output of       *)
(* kernel/uart.c, against a UART that works on its own.                    *)
(*                                                                         *)
(* A thread is a process inside read() or write(), or the interrupt        *)
(* handler (Intr: the PLIC gives the UART's interrupt to one CPU at a      *)
(* time).  An action is what a thread does up to the next point at which   *)
(* it waits for a lock, reads p->killed or a UART register.  sleep() gives *)
(* up its lock and goes to sleep in one step (module Proc), and a process  *)
(* that is woken acquires the lock again.                                  *)
(***************************************************************************)
EXTENDS Integers, Sequences

CONSTANTS
    Procs,
    Intr,               \* the thread that runs uartintr()
    Nobody,             \* a lock that is free
    INPUT_BUF, UART_TX_BUF_SIZE,
    UINT, UINT64,       \* 2^32 and 2^64: where cons.r and uart_tx_r wrap
    Typed,              \* characters typed since the machine was started
    FIFO,               \* depth of the UART's transmit FIFO
    RXFIFO,             \* bound: received characters that wait in the UART
    Loads               \* bound: who reads, writes, is killed; sizes, keys and their number

Threads == Procs \cup {Intr}
(* Programs write their names, to tell their output apart.                 *)
Bytes == Procs
(* Of the characters only these matter to the code; "a" stands for others. *)
Keys == {"a", "cr", "nl", "eof", "kill", "erase", "dump", "nul"}
Enders == {"nl", "eof"}
Stored == {"a"} \cup Enders

ASSUME ConsoleAssumption ==
    /\ INPUT_BUF \in Nat \ {0} /\ UART_TX_BUF_SIZE \in Nat \ {0}
    /\ FIFO \in Nat /\ FIFO > 1      \* uartinit() enables the FIFO
    /\ UINT \in Nat /\ UINT > INPUT_BUF /\ UINT % INPUT_BUF = 0
    /\ UINT64 \in Nat /\ UINT64 > UART_TX_BUF_SIZE /\ UINT64 % UART_TX_BUF_SIZE = 0
    /\ Typed \in Nat
    /\ Intr \notin Procs /\ Nobody \notin Threads /\ "echo" \notin Bytes
    /\ Loads \subseteq [readers : SUBSET Procs, writers : SUBSET Procs, killable : SUBSET Procs,
                        sizes : SUBSET Nat, keys : SUBSET Keys, max : Nat]

VARIABLES
    buf, r, w, e, cons_lock,                            \* cons
    uart_tx_buf, uart_tx_w, uart_tx_r, uart_tx_lock,
    fifo, rhr, irq,     \* the UART: characters to send, received; interrupt pending
    pc,                 \* where each thread is
    n, more,            \* consoleread() and consolewrite(): what is left; n < target
    c,                  \* the character each thread has in hand
    echo,               \* consputc(): characters the handler has still to send
    killed,
    keys,               \* keys struck so far
    load                \* the one of Loads that this behaviour has

consVars == <<buf, r, w, e>>
txVars == <<uart_tx_buf, uart_tx_w, uart_tx_r>>
uartVars == <<fifo, rhr, irq>>
userVars == <<n, more>>
env == <<keys, load>>
vars == <<consVars, cons_lock, txVars, uart_tx_lock, uartVars, pc, userVars, c, echo, killed, env>>

InRead == {"consoleread", "rloop", "rsleep", "rslept"}
InWrite == {"consolewrite", "uartputc", "wslept", "start", "thr"}
InIntr == {"uartintr", "consoleintr", "echo", "sync", "txintr", "start", "thr"}

(* The rings hold at most what fits, and only the holder of a lock is      *)
(* inside its critical section.                                            *)
TypeOK ==
    /\ buf \in [0..INPUT_BUF - 1 -> Stored] /\ {r, w, e} \subseteq 0..UINT - 1
    /\ (w - r) % UINT <= (e - r) % UINT /\ (e - r) % UINT <= INPUT_BUF
    /\ uart_tx_buf \in [0..UART_TX_BUF_SIZE - 1 -> Bytes \cup {"none"}] /\ {uart_tx_w, uart_tx_r} \subseteq 0..UINT64 - 1
    /\ (uart_tx_w - uart_tx_r) % UINT64 <= UART_TX_BUF_SIZE
    /\ fifo \in Seq(Bytes \cup {"echo"}) /\ rhr \in Seq(Keys) /\ irq \in BOOLEAN
    /\ pc \in [Threads -> {"user"} \cup InRead \cup InWrite \cup InIntr]
    /\ n \in [Procs -> Nat] /\ more \in [Procs -> BOOLEAN] /\ killed \in [Procs -> BOOLEAN]
    /\ c \in [Threads -> Bytes \cup Keys \cup {"none"}] /\ echo \in Nat /\ load \in Loads /\ keys \in 0..load.max
    /\ \A t \in Threads : cons_lock = t <=> pc[t] \in {"rloop", "rsleep", "echo", "sync"}
    /\ \A t \in Threads : uart_tx_lock = t <=> pc[t] \in {"start", "thr"}

(* Some characters have been typed and read, none written yet.             *)
Init ==
    /\ buf \in [0..INPUT_BUF - 1 -> {"a"}]
    /\ r = Typed % UINT /\ w = r /\ e = r
    /\ uart_tx_buf = [k \in 0..UART_TX_BUF_SIZE - 1 |-> "none"]
    /\ uart_tx_w = 0 /\ uart_tx_r = 0
    /\ c = [t \in Threads |-> "none"]
    /\ cons_lock = Nobody /\ uart_tx_lock = Nobody
    /\ fifo = <<>> /\ rhr = <<>> /\ irq = FALSE
    /\ pc = [t \in Threads |-> "user"]
    /\ n = [p \in Procs |-> 0] /\ more = [p \in Procs |-> FALSE]
    /\ killed = [p \in Procs |-> FALSE]
    /\ echo = 0 /\ keys = 0 /\ load \in Loads

Goto(t, l) == pc' = [pc EXCEPT ![t] = l]
(* wakeup(): whoever sleeps at a point acquires its lock again.            *)
Wakeup(asleep, again) == [t \in Threads |-> IF pc[t] = asleep THEN again ELSE pc[t]]

Holding(t, l) == [c EXCEPT ![t] = l]
Return(p) ==
    /\ Goto(p, "user")
    /\ n' = [n EXCEPT ![p] = 0]
    /\ more' = [more EXCEPT ![p] = FALSE]
ReturnLocked(p) == Return(p) /\ cons_lock' = Nobody
(* usertrap(): a process that has been killed only gets to exit().         *)
MaySyscall(p) == pc[p] = "user" /\ ~killed[p]

-----------------------------------------------------------------------------
(* The UART.  With its FIFO enabled, LSR_TX_IDLE means that the FIFO is    *)
(* empty; the UART interrupts when it becomes so, and when a key arrives.  *)
(* A character that is written to a full FIFO is lost.                     *)

TxIdle == fifo = <<>>
Unbuffered == 1
Capacity == FIFO
WriteTHR(x) == fifo' = IF Len(fifo) < Capacity THEN Append(fifo, x) ELSE fifo

transmit ==
    /\ fifo # <<>>
    /\ fifo' = Tail(fifo)
    /\ irq' = (irq \/ Len(fifo) = 1)
    /\ UNCHANGED <<consVars, cons_lock, txVars, uart_tx_lock, rhr, pc, userVars, c, echo, killed, env>>

strike(k) ==
    /\ keys < load.max /\ k \in load.keys /\ Len(rhr) < RXFIFO
    /\ keys' = keys + 1
    /\ rhr' = Append(rhr, k)
    /\ irq' = TRUE
    /\ UNCHANGED <<consVars, cons_lock, txVars, uart_tx_lock, fifo, pc, userVars, c, echo, killed, load>>

-----------------------------------------------------------------------------
(* write()                                                                 *)

write(p, k) ==
    /\ MaySyscall(p)
    /\ n' = [n EXCEPT ![p] = k]
    /\ Goto(p, "consolewrite")
    /\ UNCHANGED <<consVars, cons_lock, txVars, uart_tx_lock, uartVars, more, c, echo, killed, env>>

consolewrite(p) ==
    /\ pc[p] = "consolewrite" /\ n[p] > 0
    /\ c' = Holding(p, p)
    /\ Goto(p, "uartputc")
    /\ UNCHANGED <<consVars, cons_lock, txVars, uart_tx_lock, uartVars, userVars, echo, killed, env>>

(* All is written, or either_copyin() has failed.                          *)
write_end(p) ==
    /\ pc[p] = "consolewrite"
    /\ Return(p)
    /\ UNCHANGED <<consVars, cons_lock, txVars, uart_tx_lock, uartVars, c, echo, killed, env>>

TxFullLate == (uart_tx_w - uart_tx_r) % UINT64 > UART_TX_BUF_SIZE
TxFull == uart_tx_w = (uart_tx_r + UART_TX_BUF_SIZE) % UINT64

uartputc_sleep(p) ==
    /\ pc[p] = "uartputc" /\ uart_tx_lock = Nobody
    /\ TxFull
    /\ Goto(p, "wslept")
    /\ UNCHANGED <<consVars, cons_lock, txVars, uart_tx_lock, uartVars, userVars, c, echo, killed, env>>

uartputc(p) ==
    /\ pc[p] = "uartputc" /\ uart_tx_lock = Nobody
    /\ ~TxFull
    /\ uart_tx_lock' = p
    /\ uart_tx_buf' = [uart_tx_buf EXCEPT ![uart_tx_w % UART_TX_BUF_SIZE] = c[p]]
    /\ uart_tx_w' = (uart_tx_w + 1) % UINT64
    /\ n' = [n EXCEPT ![p] = @ - 1]
    /\ c' = Holding(p, "none")
    /\ Goto(p, "start")
    /\ UNCHANGED <<consVars, cons_lock, uart_tx_r, uartVars, more, echo, killed, env>>

(* uartstart(): look at the ring and at LSR; then write THR.               *)
start_return(t) ==
    /\ pc[t] = "start"
    /\ uart_tx_w = uart_tx_r \/ ~TxIdle
    /\ uart_tx_lock' = Nobody
    /\ Goto(t, IF t = Intr THEN "user" ELSE "consolewrite")
    /\ UNCHANGED <<consVars, cons_lock, txVars, uartVars, userVars, c, echo, killed, env>>

WakeWriters == Wakeup("wslept", "uartputc")
uartstart(t) ==
    /\ pc[t] = "start"
    /\ uart_tx_w # uart_tx_r /\ TxIdle
    /\ c' = Holding(t, uart_tx_buf[uart_tx_r % UART_TX_BUF_SIZE])
    /\ uart_tx_r' = (uart_tx_r + 1) % UINT64
    /\ pc' = [WakeWriters EXCEPT ![t] = "thr"]
    /\ UNCHANGED <<consVars, cons_lock, uart_tx_buf, uart_tx_w, uart_tx_lock, uartVars, userVars, echo, killed, env>>

start_thr(t) ==
    /\ pc[t] = "thr"
    /\ WriteTHR(c[t])
    /\ c' = Holding(t, "none")
    /\ Goto(t, "start")
    /\ UNCHANGED <<consVars, cons_lock, txVars, uart_tx_lock, rhr, irq, userVars, echo, killed, env>>

-----------------------------------------------------------------------------
(* uartintr()                                                              *)

uartintr ==
    /\ pc[Intr] = "user" /\ irq
    /\ irq' = FALSE
    /\ Goto(Intr, "uartintr")
    /\ UNCHANGED <<consVars, cons_lock, txVars, uart_tx_lock, fifo, rhr, userVars, c, echo, killed, env>>

uartgetc ==
    /\ pc[Intr] = "uartintr" /\ rhr # <<>>
    /\ c' = Holding(Intr, Head(rhr))
    /\ rhr' = Tail(rhr)
    /\ Goto(Intr, "consoleintr")
    /\ UNCHANGED <<consVars, cons_lock, txVars, uart_tx_lock, fifo, irq, userVars, echo, killed, env>>

getc_none_returns ==
    /\ pc[Intr] = "uartintr" /\ rhr = <<>>
    /\ Goto(Intr, "user")
    /\ UNCHANGED <<consVars, cons_lock, txVars, uart_tx_lock, uartVars, userVars, c, echo, killed, env>>
getc_none ==
    /\ pc[Intr] = "uartintr" /\ rhr = <<>>
    /\ Goto(Intr, "txintr")
    /\ UNCHANGED <<consVars, cons_lock, txVars, uart_tx_lock, uartVars, userVars, c, echo, killed, env>>

intr_start ==
    /\ pc[Intr] = "txintr" /\ uart_tx_lock = Nobody
    /\ uart_tx_lock' = Intr
    /\ Goto(Intr, "start")
    /\ UNCHANGED <<consVars, cons_lock, txVars, uartVars, userVars, c, echo, killed, env>>

-----------------------------------------------------------------------------
(* consoleintr()                                                           *)

(* How many characters the key erases: ^U stops at a newline.              *)
Line == {k \in 0..(e - w) % UINT : \A j \in 1..k : buf[(e - j) % INPUT_BUF] # "nl"}
Erased(k) ==
    CASE k = "kill" -> CHOOSE j \in Line : \A i \in Line : i <= j
      [] k = "erase" -> IF e # w THEN 1 ELSE 0
      [] OTHER -> 0
Accepted(k) == k \in {"a", "cr", "nl", "eof"} /\ (e - r) % UINT < INPUT_BUF
(* consputc(BACKSPACE) sends three characters; procdump() a list.          *)
Echoes(k) == IF k = "dump" \/ Accepted(k) THEN 1 ELSE 3 * Erased(k)

consoleintr ==
    LET k == c[Intr] IN
    /\ pc[Intr] = "consoleintr" /\ cons_lock = Nobody
    /\ cons_lock' = Intr
    /\ e' = (e - Erased(k)) % UINT
    /\ echo' = Echoes(k)
    /\ Goto(Intr, "echo")
    /\ UNCHANGED <<buf, r, w, txVars, uart_tx_lock, uartVars, userVars, c, killed, env>>

(* uartputc_sync() polls LSR and then writes, without uart_tx_lock.        *)
sync_poll ==
    /\ pc[Intr] = "echo" /\ echo > 0
    /\ TxIdle
    /\ Goto(Intr, "sync")
    /\ UNCHANGED <<consVars, cons_lock, txVars, uart_tx_lock, uartVars, userVars, c, echo, killed, env>>

uartputc_sync ==
    /\ pc[Intr] = "sync"
    /\ WriteTHR("echo")
    /\ echo' = echo - 1
    /\ Goto(Intr, "echo")
    /\ UNCHANGED <<consVars, cons_lock, txVars, uart_tx_lock, rhr, irq, userVars, c, killed, env>>

(* A line is complete, or the buffer is full.                              *)
CompletesAtNewline(x) == x \in Enders
Completes(x) == x \in Enders \/ (e + 1) % UINT = (r + INPUT_BUF) % UINT

SlotLate == (e + 1) % INPUT_BUF
Slot == e % INPUT_BUF

WakeNobody == pc
WakeReaders == Wakeup("rslept", "consoleread")
consoleintr_end ==
    LET k == c[Intr]
        x == IF k = "cr" THEN "nl" ELSE k
    IN
    /\ pc[Intr] = "echo" /\ echo = 0
    /\ IF Accepted(k)
       THEN /\ buf' = [buf EXCEPT ![Slot] = x]
            /\ e' = (e + 1) % UINT
            /\ w' = IF Completes(x) THEN (e + 1) % UINT ELSE w
            /\ pc' = [(IF Completes(x) THEN WakeReaders ELSE pc) EXCEPT ![Intr] = "uartintr"]
       ELSE UNCHANGED <<buf, e, w>> /\ Goto(Intr, "uartintr")
    /\ cons_lock' = Nobody
    /\ c' = Holding(Intr, "none")
    /\ UNCHANGED <<r, txVars, uart_tx_lock, uartVars, userVars, echo, killed, env>>

-----------------------------------------------------------------------------
(* read()                                                                  *)

read(p, k) ==
    /\ MaySyscall(p)
    /\ n' = [n EXCEPT ![p] = k]
    /\ Goto(p, "consoleread")
    /\ UNCHANGED <<consVars, cons_lock, txVars, uart_tx_lock, uartVars, more, c, echo, killed, env>>

consoleread(p) ==
    /\ pc[p] = "consoleread" /\ cons_lock = Nobody
    /\ cons_lock' = p
    /\ Goto(p, "rloop")
    /\ UNCHANGED <<consVars, txVars, uart_tx_lock, uartVars, userVars, c, echo, killed, env>>

(* Enough is read, or there is nothing to wait for any more.               *)
read_end(p) ==
    /\ pc[p] = "rloop"
    /\ n[p] = 0 \/ (r = w /\ killed[p])
    /\ ReturnLocked(p)
    /\ UNCHANGED <<consVars, txVars, uart_tx_lock, uartVars, c, echo, killed, env>>

(* p->killed is tested before sleep(): kill() may come in between.         *)
read_test(p) ==
    /\ pc[p] = "rloop" /\ n[p] > 0
    /\ r = w /\ ~killed[p]
    /\ Goto(p, "rsleep")
    /\ UNCHANGED <<consVars, cons_lock, txVars, uart_tx_lock, uartVars, userVars, c, echo, killed, env>>

read_sleep(p) ==
    /\ pc[p] = "rsleep"
    /\ cons_lock' = Nobody
    /\ Goto(p, "rslept")
    /\ UNCHANGED <<consVars, txVars, uart_tx_lock, uartVars, userVars, c, echo, killed, env>>

Readable(p) == pc[p] = "rloop" /\ n[p] > 0 /\ r # w
Next_c == buf[r % INPUT_BUF]

(* An end of file that is not the first character is left for next time.   *)
read_eof(p) ==
    /\ Readable(p) /\ Next_c = "eof"
    /\ r' = IF more[p] THEN r ELSE (r + 1) % UINT
    /\ ReturnLocked(p)
    /\ UNCHANGED <<buf, w, e, txVars, uart_tx_lock, uartVars, c, echo, killed, env>>

read_copyout_fails(p) ==
    /\ Readable(p) /\ Next_c # "eof"
    /\ r' = (r + 1) % UINT
    /\ ReturnLocked(p)
    /\ UNCHANGED <<buf, w, e, txVars, uart_tx_lock, uartVars, c, echo, killed, env>>

read_char(p) ==
    /\ Readable(p) /\ Next_c # "eof"
    /\ r' = (r + 1) % UINT
    /\ IF Next_c = "nl"
       THEN ReturnLocked(p)
       ELSE /\ n' = [n EXCEPT ![p] = @ - 1]
            /\ more' = [more EXCEPT ![p] = TRUE]
            /\ UNCHANGED <<pc, cons_lock>>
    /\ UNCHANGED <<buf, w, e, txVars, uart_tx_lock, uartVars, c, echo, killed, env>>

-----------------------------------------------------------------------------
(* kill() wakes its victim wherever it sleeps.                             *)
kill(p) ==
    /\ ~killed[p]
    /\ killed' = [killed EXCEPT ![p] = TRUE]
    /\ Goto(p, CASE pc[p] = "rslept" -> "consoleread" [] pc[p] = "wslept" -> "uartputc" [] OTHER -> pc[p])
    /\ UNCHANGED <<consVars, cons_lock, txVars, uart_tx_lock, uartVars, userVars, c, echo, env>>

-----------------------------------------------------------------------------
Reading(p) ==
    \/ consoleread(p) \/ read_end(p) \/ read_test(p) \/ read_sleep(p)
    \/ read_eof(p) \/ read_char(p) \/ read_copyout_fails(p)
Starting(t) == uartstart(t) \/ start_thr(t) \/ start_return(t)
Writing(p) ==
    \/ consolewrite(p) \/ write_end(p) \/ uartputc_sleep(p) \/ uartputc(p) \/ Starting(p)
Interrupt ==
    \/ uartintr \/ uartgetc \/ getc_none \/ intr_start \/ Starting(Intr)
    \/ consoleintr \/ sync_poll \/ uartputc_sync \/ consoleintr_end

Next ==
    \/ transmit \/ (\E k \in Keys : strike(k)) \/ Interrupt
    \/ \E p \in load.readers, k \in load.sizes : read(p, k)
    \/ \E p \in load.writers, k \in load.sizes : write(p, k)
    \/ \E p \in Procs : Reading(p) \/ Writing(p)
    \/ \E p \in load.killable : kill(p)

Spec == Init /\ [][Next]_vars

(* The UART sends what it is given and its interrupts are taken; a thread  *)
(* that spins for a lock gets it in the end.                               *)
Fairness ==
    /\ WF_vars(transmit) /\ SF_vars(Interrupt)
    /\ \A p \in Procs : SF_vars(Reading(p)) /\ SF_vars(Writing(p))

FairSpec == Spec /\ Fairness

-----------------------------------------------------------------------------
(* Refinement of Terminal: the ring from r to w is what read() may take,   *)
(* from w to e the line being edited; output is in the UART, where at most *)
(* one character is not an echo (SentInv), in the hands of uartstart(),    *)
(* and in the transmit ring.                                               *)
RingOf(f, size, from, len) == [k \in 1..len |-> f[(from + k - 1) % size]]
Ring(from, to) == RingOf(buf, INPUT_BUF, from, (to - from) % UINT)
InUart == {k \in DOMAIN fifo : fifo[k] # "echo"}
InHand == {t \in Threads : pc[t] = "thr"}
OneOf(f, places) == IF places = {} THEN <<>> ELSE <<f[CHOOSE x \in places : TRUE]>>
InRing == RingOf(uart_tx_buf, UART_TX_BUF_SIZE, uart_tx_r, (uart_tx_w - uart_tx_r) % UINT64)
Output == OneOf(fifo, InUart) \o OneOf(c, InHand) \o InRing

T == INSTANCE Terminal WITH
        out <- Output, line <- Ring(w, e), ready <- Ring(r, w),
        Chars <- {"a"}, OutMax <- UART_TX_BUF_SIZE + FIFO

(* Output is transmitted in order and once, although echoes go around the  *)
(* lock; typed characters reach the readers in order and once, and only    *)
(* when their line is complete, also when the indices wrap around.         *)
ImplementsTerminal == T!Spec

(* A line as long as the buffer is handed over: otherwise no key would be  *)
(* accepted any more, not even the one that ends the line.                 *)
NeverWedged == (e - r) % UINT = INPUT_BUF => w # r

(* No character is lost in the UART: although uartputc_sync() and          *)
(* uartstart() may both have seen it idle, either still finds room.        *)
NoOverrun == \A t \in Threads : pc[t] \in {"thr", "sync"} => Len(fifo) < Capacity

(* A reader sleeps only when there is nothing to read, a writer only when  *)
(* there is no room.  This includes a reader that kill() missed between    *)
(* the test of p->killed and sleep(): it "won't notice the p->killed until *)
(* the condition it is waiting for occurs" (xv6-riscv-book,                *)
(* sched.tex:1517-1520), but then it does.                                 *)
NoStuckSleeper ==
    \A p \in Procs :
        /\ pc[p] = "rslept" => r = w
        /\ pc[p] = "wslept" => TxFull

(* What is in the transmit ring keeps moving, also when the UART falls     *)
(* idle between uartstart()'s look at LSR and its return, and whatever is  *)
(* typed meanwhile.                                                        *)
OutputProgress == []<>(uart_tx_w = uart_tx_r) \/ []<><<uart_tx_r' # uart_tx_r>>_vars

-----------------------------------------------------------------------------
(* The parts of an inductive invariant.                                    *)

(* Where processes and the interrupt handler can be, and what they have in *)
(* hand there.                                                             *)
PlaceInv ==
    /\ pc[Intr] \in {"user"} \cup InIntr
    /\ pc[Intr] = "sync" => echo > 0
    /\ \A p \in Procs :
        /\ pc[p] \in {"user"} \cup InRead \cup InWrite
        /\ pc[p] \in {"uartputc", "wslept"} => c[p] = p /\ n[p] > 0

(* What is on its way to the UART was put there by a program.              *)
TxInv ==
    /\ \A k \in 1..(uart_tx_w - uart_tx_r) % UINT64 :
            uart_tx_buf[(uart_tx_r + k - 1) % UART_TX_BUF_SIZE] \in Bytes
    /\ \A t \in Threads : pc[t] = "thr" => c[t] \in Bytes

(* Two threads at most have seen the UART idle, each has one character,    *)
(* and when both have not written theirs yet it is idle still.             *)
FifoInv ==
    /\ \A t \in Threads : pc[t] \in {"thr", "sync"} => Len(fifo) <= 1
    /\ (pc[Intr] = "sync" /\ \E t \in Threads : pc[t] = "thr") => fifo = <<>>

(* A program's character is sent alone, as uartstart() waits for the UART  *)
(* to be idle: only an echo may be in the FIFO with it.                    *)
SentInv ==
    /\ \A j, k \in InUart : j = k
    /\ InHand # {} => InUart = {}

(* A character that ends the line is never edited.                         *)
LineInv == \A k \in DOMAIN Ring(w, e) : Ring(w, e)[k] = "a"

(* What consoleread() has seen under cons.lock holds until it sleeps.      *)
SeenInv == \A p \in Procs : pc[p] = "rsleep" => r = w

IInv ==
    /\ TypeOK /\ PlaceInv /\ TxInv /\ FifoInv /\ SeenInv /\ NeverWedged /\ NoStuckSleeper
    /\ SentInv /\ LineInv
=============================================================================
