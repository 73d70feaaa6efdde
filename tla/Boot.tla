-------------------------------- MODULE Boot --------------------------------
(***************************************************************************)
(* Booting, kernel/entry.S, start.c and main.c: hart 0 sets everything up  *)
(* while the others wait for started.  Memory is weakly ordered: what hart *)
(* 0 writes reaches the other harts later, in any order, unless an order   *)
(* is asked for.                                                           *)
(*                                                                         *)
(* A step is one of the calls of main(); what it needs is what the code it *)
(* runs uses, see Needs.                                                   *)
(***************************************************************************)
EXTENDS Naturals, Sequences, SequencesExt, FiniteSets

CONSTANT Harts   \* one is 0

VARIABLES pc,           \* how far a hart is in its calls; 0: not in main() yet
          sees,         \* what a hart has set up, or can see of what hart 0 has
          buffer,       \* what hart 0 has written and the others do not see yet
          started       \* as the others see it

vars == <<pc, sees, buffer, started>>

\* The calls of main(), on hart 0 and on the others.
Calls(h) == IF h = 0
  THEN <<"consoleinit", "printkinit", "printk", "kinit", "kvminit", "kvminithart", "procinit", "trapinit", "trapinithart",
         "plicinit", "plicinithart", "binit", "iinit", "fileinit", "virtio_disk_init", "userinit", "store", "scheduler">>
  ELSE <<"load", "printk", "kvminithart", "trapinithart", "plicinithart", "scheduler">>
\* Those that set up the hart itself, and are no use to another one.
OfHart == {"start", "kvminithart", "trapinithart", "plicinithart"}
Shared == ToSet(Calls(0)) \ OfHart

\* printk() takes pr.lock and writes to the UART; kvminit() and virtio_disk_init()
\* call kalloc(), paging needs the page table, allocproc() the locks of the table
\* and memory, and namei("/") in userinit() the lock of the inode table.  scheduler()
\* turns interrupts on, and runs the first process: it needs a trap vector and the
\* PLIC on this hart, and all that traps, fork() and the file system use.
Needs(call) ==
  CASE call = "printk" -> {"start", "consoleinit", "printkinit"}
    [] call = "kvminit" -> {"kinit"}
    [] call = "kvminithart" -> {"kvminit"}
    [] call = "plicinithart" -> {"start", "plicinit"}
    [] call = "virtio_disk_init" -> {"kinit"}
    [] call = "userinit" -> {"kinit", "procinit", "iinit"}
    [] call = "scheduler" -> {"start", "kvminithart", "trapinit", "trapinithart", "plicinithart", "consoleinit", "printkinit",
                              "kinit", "procinit", "binit", "iinit", "fileinit", "virtio_disk_init", "userinit"}
    [] OTHER -> {}

Init == pc = [h \in Harts |-> 0] /\ sees = [h \in Harts |-> {}] /\ buffer = {} /\ started = FALSE

\* start() sets tp, which cpuid() reads, has traps delegated and goes to main().
start(h) == /\ pc[h] = 0 /\ pc' = [pc EXCEPT ![h] = 1] /\ sees' = [sees EXCEPT ![h] = @ \cup {"start"}]
            /\ UNCHANGED <<buffer, started>>

At(h, call) == pc[h] > 0 /\ Calls(h)[pc[h]] = call
Past(h) == pc' = [pc EXCEPT ![h] = @ + 1]
\* One of the calls.
main(h) == /\ pc[h] > 0 /\ Calls(h)[pc[h]] \notin {"store", "load", "scheduler"} /\ Past(h)
           /\ LET call == Calls(h)[pc[h]] IN
              /\ sees' = [sees EXCEPT ![h] = @ \cup {call}]
              /\ buffer' = IF h = 0 THEN buffer \cup ({call} \cap Shared) ELSE buffer
           /\ UNCHANGED started

\* Memory: one of hart 0's writes reaches the others.
Propagate == \E w \in buffer : /\ buffer' = buffer \ {w} /\ UNCHANGED <<pc, started>>
                               /\ sees' = [h \in Harts |-> IF h = 0 THEN sees[h] ELSE sees[h] \cup {w}]

\* Mutant: a store that is not ordered after the writes before it.
store_Relaxed == At(0, "store") /\ started' = TRUE /\ Past(0) /\ UNCHANGED <<sees, buffer>>

\* __ATOMIC_RELEASE: after all that comes before it.
store == At(0, "store") /\ buffer = {} /\ started' = TRUE /\ Past(0) /\ UNCHANGED <<sees, buffer>>
\* __ATOMIC_ACQUIRE, in a loop.
load(h) == At(h, "load") /\ started /\ Past(h) /\ UNCHANGED <<sees, buffer, started>>

\* Every hart has come to its scheduler.
Running == \A h \in Harts : At(h, "scheduler")
Next == Propagate \/ store \/ (\E h \in Harts : start(h) \/ main(h) \/ load(h)) \/ (Running /\ UNCHANGED vars)
Spec == Init /\ [][Next]_vars

-----------------------------------------------------------------------------
(* Properties.                                                             *)

\* Whatever a hart calls finds what it needs: hart 0 sets up in the right order,
\* and started holds the others back until all of it has reached them.
NothingEarly == \A h \in Harts : pc[h] > 0 => Needs(Calls(h)[pc[h]]) \subseteq sees[h]
=============================================================================
