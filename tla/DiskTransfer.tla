---------------------------- MODULE DiskTransfer ----------------------------
(***************************************************************************)
(* What a transfer between a disk and memory promises the kernel, whatever *)
(* pages, interrupts and terminal counts carry it out: once asked for, the *)
(* bytes arrive one after the other, success is reported only when every   *)
(* one of them has arrived, and a transfer that is asked for comes to an   *)
(* end, unless the machine is reset, which forgets it.  DmaChain is shown  *)
(* to implement it, once per channel.                                      *)
(***************************************************************************)
EXTENDS Naturals

CONSTANT MaxBytes       \* the longest transfer asked for

VARIABLES stage,        \* "idle", "moving", "done" or "failed"
          asked,        \* bytes the kernel asked for
          moved         \* bytes that have reached the other side

vars == <<stage, asked, moved>>

Init == stage = "idle" /\ asked = 0 /\ moved = 0

Ask == /\ stage = "idle"
       /\ stage' = "moving"
       /\ asked' \in 1..MaxBytes
       /\ moved' = 0

Move == /\ stage = "moving" /\ moved < asked
        /\ moved' = moved + 1
        /\ UNCHANGED <<stage, asked>>

Succeed == /\ stage = "moving" /\ moved = asked
           /\ stage' = "done"
           /\ UNCHANGED <<asked, moved>>

Fail == /\ stage = "moving"
        /\ stage' = "failed"
        /\ UNCHANGED <<asked, moved>>

(* The kernel has taken note of the end, or the machine is reset.            *)
Forget == stage' = "idle" /\ asked' = 0 /\ moved' = 0

Next == Ask \/ Move \/ Succeed \/ Fail \/ Forget

(* A transfer that can go on does.                                           *)
Progress == WF_vars(Move \/ Succeed)

Spec == Init /\ [][Next]_vars /\ Progress
=============================================================================
