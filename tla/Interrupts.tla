----------------------------- MODULE Interrupts -----------------------------
(***************************************************************************)
(* Device and timer interrupts: devintr() and clockintr() of trap.c, over  *)
(* plic.c.  Every hart is offered every device's interrupt, and the PLIC   *)
(* gives it to the one that claims it first; the others claim nothing.     *)
(*                                                                         *)
(* The devices, the PLIC and the timers are external: a device holds its   *)
(* line up until its handler acknowledges it; the PLIC makes a line that   *)
(* is up pending unless the device's interrupt is claimed and not yet      *)
(* completed; a timer is due until stimecmp is set again.                  *)
(***************************************************************************)
EXTENDS Naturals, FiniteSets

CONSTANTS Harts,        \* hart 0 keeps the time
          Devices,
          None          \* no device: 0 in the PLIC's claim register

VARIABLES line,         \* devices whose line is up
          pending,      \* devices whose interrupt can be claimed
          claimed,      \* devices in service
          due,          \* harts whose timer is due
          pc, irq       \* where a hart is in devintr(), and what it claimed

vars == <<line, pending, claimed, due, pc, irq>>
plic == <<line, pending, claimed>>

Init == /\ line = {} /\ pending = {} /\ claimed = {} /\ due = {}
        /\ pc = [h \in Harts |-> "on"] /\ irq = [h \in Harts |-> None]

Goto(h, there) == pc' = [pc EXCEPT ![h] = there]
Offered(h) == pending # {} \/ h \in due

-----------------------------------------------------------------------------
(* The hardware, and what the harts do between traps.                      *)

Raise(d) == d \notin line /\ line' = line \cup {d} /\ UNCHANGED <<pending, claimed, due, pc, irq>>
Gateway(d) ==
  /\ d \in line \ (claimed \cup pending)
  /\ pending' = pending \cup {d} /\ UNCHANGED <<line, claimed, due, pc, irq>>
TimeOut(h) == h \notin due /\ due' = due \cup {h} /\ UNCHANGED <<plic, pc, irq>>
\* A trap is taken as soon as interrupts are on; a device's comes before the timer's.
Trap(h) ==
  /\ pc[h] = "on" /\ Offered(h)
  /\ Goto(h, IF pending # {} THEN "claim" ELSE "clock") /\ UNCHANGED <<plic, due, irq>>
\* A critical section, with interrupts off.
Lock(h) == pc[h] = "on" /\ ~ Offered(h) /\ Goto(h, "off") /\ UNCHANGED <<plic, due, irq>>
Unlock(h) == pc[h] = "off" /\ Goto(h, "on") /\ UNCHANGED <<plic, due, irq>>

-----------------------------------------------------------------------------
(* devintr().                                                              *)

\* The PLIC's answer is a pending interrupt, which is in service from now on, or 0.
plic_claim(h) ==
  /\ pc[h] = "claim"
  /\ \E d \in IF pending = {} THEN {None} ELSE pending :
       irq' = [irq EXCEPT ![h] = d] /\ pending' = pending \ {d} /\ claimed' = (claimed \cup {d}) \ {None}
  /\ Goto(h, "dispatch") /\ UNCHANGED <<line, due>>

\* Mutant: the PLIC is told first, and the device served after that.
devintr_CompletesFirst(h) ==
  /\ pc[h] = "dispatch"
  /\ line' = line \ {irq[h]} /\ claimed' = claimed \ {irq[h]}
  /\ Goto(h, IF irq[h] = None THEN "on" ELSE "serve") /\ UNCHANGED <<pending, due, irq>>

\* uartintr() or virtio_disk_intr(), which acknowledge the device, then serve it.
devintr(h) ==
  /\ pc[h] = "dispatch"
  /\ line' = line \ {irq[h]}
  /\ Goto(h, IF irq[h] = None THEN "on" ELSE "serve") /\ UNCHANGED <<pending, claimed, due, irq>>

\* Mutant: the device may not interrupt again.
plic_complete_Never(h) ==
  /\ pc[h] = "serve"
  /\ irq' = [irq EXCEPT ![h] = None] /\ Goto(h, "on") /\ UNCHANGED <<plic, due>>

plic_complete(h) ==
  /\ pc[h] = "serve"
  /\ claimed' = claimed \ {irq[h]} /\ irq' = [irq EXCEPT ![h] = None]
  /\ Goto(h, "on") /\ UNCHANGED <<line, pending, due>>

\* Every hart sets its stimecmp again; hart 0 also counts ticks, as Proc has it.
clockintr(h) == pc[h] = "clock" /\ due' = due \ {h} /\ Goto(h, "on") /\ UNCHANGED <<plic, irq>>

Hart(h) == Trap(h) \/ Unlock(h) \/ plic_claim(h) \/ devintr(h) \/ plic_complete(h) \/ clockintr(h)
Next == \/ \E d \in Devices : Raise(d) \/ Gateway(d)
        \/ \E h \in Harts : TimeOut(h) \/ Lock(h) \/ Hart(h)

\* The hardware does what it offers, and a hart runs; nothing need interrupt.
Spec == Init /\ [][Next]_vars
FairSpec == Spec /\ (\A d \in Devices : WF_vars(Gateway(d))) /\ \A h \in Harts : WF_vars(Hart(h))

-----------------------------------------------------------------------------
(* Properties.                                                             *)

\* A device's handler runs on one hart at a time, though every hart takes the
\* interrupt, and a hart that comes late completes nothing: two harts in
\* uartintr()'s loop would give consoleintr() the characters in any order.
OneServer ==
  /\ \A h, k \in Harts : irq[h] # None /\ irq[h] = irq[k] => h = k
  /\ claimed = {irq[h] : h \in Harts} \ {None}

\* The inductive form of OneServer: only a hart between plic_claim() and
\* plic_complete() has a device, and a device in service is not pending.
IInv ==
  /\ pending \subseteq Devices /\ irq \in [Harts -> Devices \cup {None}]
  /\ pc \in [Harts -> {"on", "off", "claim", "clock", "dispatch", "serve"}]
  /\ OneServer
  /\ pending \cap claimed = {}
  /\ \A h \in Harts : irq[h] # None => pc[h] \in {"dispatch", "serve"}
=============================================================================
