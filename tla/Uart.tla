-------------------------------- MODULE Uart --------------------------------
(***************************************************************************)
(* Console output and the UART's interrupts: kernel/uart.c, with           *)
(* consolewrite() and consputc() of kernel/console.c.  A step is one       *)
(* access to a device register or one critical section.                    *)
(*                                                                         *)
(* The device is external: a transmit FIFO (enabled in uartinit()), of     *)
(* which the driver sees only whether it is empty (LSR_TX_IDLE), received  *)
(* characters, and an interrupt that is raised when the FIFO runs empty or *)
(* a character arrives and is acknowledged by reading ISR.                 *)
(***************************************************************************)
EXTENDS Naturals, FiniteSets

CONSTANTS
  Writers, NoProc,
  CPUs,           \* their interrupt handlers and printk() use uartputc_sync()
  FIFO,           \* room in the transmit FIFO: more than there are CPUs (NCPU is 8, it holds 16)
  BATCH,          \* sizeof(buf) in consolewrite()
  MaxCall, MaxRx  \* bounds: bytes of a write, received characters that wait

VARIABLES
  fifo, rx, irq,     \* the device
  tx_lock, chan,     \* holder of the sleep lock; processes registered on tx_chan
  pc, n, nn,         \* of each writer: bytes left in the call and in the batch
  cpc, out,          \* of each CPU: where it is, characters left to put
  panicked

device == <<fifo, rx, irq>>
writer == <<tx_lock, pc, n, nn>>
vars == <<device, writer, chan, cpc, out, panicked>>

Init ==
  /\ fifo = 0 /\ rx = 0 /\ irq = FALSE
  /\ tx_lock = NoProc /\ chan = {}
  /\ pc = [p \in Writers |-> "user"]
  /\ n = [p \in Writers |-> 0] /\ nn = [p \in Writers |-> 0]
  /\ cpc = [c \in CPUs |-> "idle"] /\ out = [c \in CPUs |-> 0]
  /\ panicked = FALSE

TxIdle == fifo = 0

Transmit ==
  /\ fifo > 0
  /\ fifo' = fifo - 1
  /\ irq' = (irq \/ fifo = 1)
  /\ UNCHANGED <<rx, writer, chan, cpc, out, panicked>>

Receive ==
  /\ rx < MaxRx
  /\ rx' = rx + 1
  /\ irq' = TRUE
  /\ UNCHANGED <<fifo, writer, chan, cpc, out, panicked>>

-----------------------------------------------------------------------------
(* consolewrite() and uartwrite().                                         *)

Goto(p, label) == pc' = [pc EXCEPT ![p] = label]

Call(p, m) ==
  /\ pc[p] = "user"
  /\ Goto(p, "copy")
  /\ n' = [n EXCEPT ![p] = m]
  /\ UNCHANGED <<device, tx_lock, nn, chan, cpc, out, panicked>>

\* The next batch; either_copyin() may fail.
consolewrite(p) ==
  /\ pc[p] = "copy"
  /\ \/ /\ n[p] > 0
        /\ nn' = [nn EXCEPT ![p] = IF n[p] < BATCH THEN n[p] ELSE BATCH]
        /\ Goto(p, "lock") /\ UNCHANGED n
     \/ /\ n' = [n EXCEPT ![p] = 0]
        /\ Goto(p, "user") /\ UNCHANGED nn
  /\ UNCHANGED <<device, tx_lock, chan, cpc, out, panicked>>

uartwrite(p) ==
  /\ pc[p] = "lock" /\ tx_lock = NoProc
  /\ tx_lock' = p
  /\ Goto(p, "loop")
  /\ UNCHANGED <<device, n, nn, chan, cpc, out, panicked>>

write_prepare(p) ==
  /\ pc[p] = "loop" /\ nn[p] > 0
  /\ chan' = chan \cup {p}
  /\ Goto(p, "lsr")
  /\ UNCHANGED <<device, tx_lock, n, nn, cpc, out, panicked>>

write_lsr(p) ==
  /\ pc[p] = "lsr"
  /\ Goto(p, IF TxIdle THEN "thr" ELSE "sleep")
  /\ UNCHANGED <<device, tx_lock, n, nn, chan, cpc, out, panicked>>

write_thr(p) ==
  /\ pc[p] = "thr"
  /\ fifo' = fifo + 1
  /\ n' = [n EXCEPT ![p] = @ - 1] /\ nn' = [nn EXCEPT ![p] = @ - 1]
  /\ Goto(p, "loop")
  /\ UNCHANGED <<rx, irq, tx_lock, chan, cpc, out, panicked>>

\* Mutant: the process sleeps although it has been woken.
sleep_Blind(p) ==
  /\ pc[p] = "sleep"
  /\ chan' = chan \cup {p}
  /\ Goto(p, "asleep")
  /\ UNCHANGED <<device, tx_lock, n, nn, cpc, out, panicked>>

sleep(p) ==
  /\ pc[p] = "sleep"
  /\ Goto(p, IF p \in chan THEN "asleep" ELSE "loop")
  /\ UNCHANGED <<device, tx_lock, n, nn, chan, cpc, out, panicked>>

write_done(p) ==
  /\ pc[p] = "loop" /\ nn[p] = 0
  /\ tx_lock' = NoProc
  /\ Goto(p, "copy")
  /\ UNCHANGED <<device, n, nn, chan, cpc, out, panicked>>

kkill(p) ==
  /\ pc[p] = "asleep"
  /\ Goto(p, "loop")
  /\ UNCHANGED <<device, tx_lock, n, nn, chan, cpc, out, panicked>>

-----------------------------------------------------------------------------
(* uartintr() and uartputc_sync(), with interrupts off on the CPU.         *)

CGoto(c, label) == cpc' = [cpc EXCEPT ![c] = label]

\* The PLIC gives an interrupt to one CPU until that CPU completes it.
InHandler(c) == cpc[c] \in {"wake", "getc", "echo", "echothr"}

uartintr(c) ==
  /\ cpc[c] = "idle" /\ irq /\ \A d \in CPUs : ~ InHandler(d)
  /\ irq' = FALSE
  /\ CGoto(c, "wake")
  /\ UNCHANGED <<fifo, rx, writer, chan, out, panicked>>

intr_wakeup(c) ==
  /\ cpc[c] = "wake"
  /\ IF TxIdle
     THEN /\ chan' = {}
          /\ pc' = [p \in Writers |-> IF p \in chan /\ pc[p] = "asleep" THEN "loop" ELSE pc[p]]
     ELSE UNCHANGED <<chan, pc>>
  /\ CGoto(c, "getc")
  /\ UNCHANGED <<device, tx_lock, n, nn, out, panicked>>

\* consoleintr() echoes one character, erases with three, or stays silent.
intr_getc(c) ==
  /\ cpc[c] = "getc"
  /\ \/ /\ rx > 0
        /\ rx' = rx - 1
        /\ \E k \in {0, 1, 3} : out' = [out EXCEPT ![c] = k]
        /\ CGoto(c, "echo")
     \/ /\ rx = 0
        /\ CGoto(c, "idle")
        /\ UNCHANGED <<rx, out>>
  /\ UNCHANGED <<fifo, irq, writer, chan, panicked>>

printk(c) ==
  /\ cpc[c] = "idle"
  /\ out' = [out EXCEPT ![c] = 1]
  /\ CGoto(c, "print")
  /\ UNCHANGED <<device, writer, chan, panicked>>

\* The spin ends when the FIFO is empty, and never once a CPU has panicked.
uartputc_sync(c) ==
  /\ cpc[c] \in {"print", "echo"} /\ out[c] > 0
  /\ ~ panicked /\ TxIdle
  /\ CGoto(c, IF cpc[c] = "print" THEN "printthr" ELSE "echothr")
  /\ UNCHANGED <<device, writer, chan, out, panicked>>

putc_thr(c) ==
  /\ cpc[c] \in {"printthr", "echothr"}
  /\ fifo' = fifo + 1
  /\ out' = [out EXCEPT ![c] = @ - 1]
  /\ CGoto(c, IF cpc[c] = "printthr" THEN "print" ELSE "echo")
  /\ UNCHANGED <<rx, irq, writer, chan, panicked>>

putc_done(c) ==
  /\ cpc[c] \in {"print", "echo"} /\ out[c] = 0
  /\ CGoto(c, IF cpc[c] = "print" THEN "idle" ELSE "getc")
  /\ UNCHANGED <<device, writer, chan, out, panicked>>

panic(c) ==
  /\ cpc[c] = "print"
  /\ panicked' = TRUE
  /\ UNCHANGED <<device, writer, chan, cpc, out>>

Writer(p) == \/ consolewrite(p) \/ uartwrite(p) \/ write_prepare(p) \/ write_lsr(p)
             \/ write_thr(p) \/ sleep(p) \/ write_done(p)
Handler(c) == intr_wakeup(c) \/ intr_getc(c) \/ uartputc_sync(c) \/ putc_thr(c) \/ putc_done(c)

Next == \/ Transmit \/ Receive
        \/ \E p \in Writers : Writer(p) \/ kkill(p) \/ \E m \in 0..MaxCall : Call(p, m)
        \/ \E c \in CPUs : uartintr(c) \/ Handler(c) \/ printk(c) \/ panic(c)

Spec == Init /\ [][Next]_vars

(* The device transmits; a process or a CPU that can go on does; some CPU  *)
(* takes a pending interrupt.                                              *)
Fairness == /\ WF_vars(Transmit)
            /\ \A p \in Writers : WF_vars(Writer(p))
            /\ \A c \in CPUs : WF_vars(Handler(c)) /\ SF_vars(uartintr(c))

FairSpec == Spec /\ Fairness
-----------------------------------------------------------------------------
(* Properties.                                                             *)

\* The FIFO never overflows, although the test of LSR and the write to THR are
\* apart and no lock orders writers, echo and printk(): each of them has at
\* most one character in it.
NoOverrun == fifo <= FIFO

\* A process that sleeps for the transmitter will be woken: characters are
\* still going out, or an interrupt is on its way.
NoLostWakeup ==
  \A p \in Writers : pc[p] = "asleep" =>
    fifo > 0 \/ irq \/ \E c \in CPUs : cpc[c] = "wake"

=============================================================================
