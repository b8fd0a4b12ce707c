----------------------------- MODULE TaskSwitch -----------------------------
(***************************************************************************)
(* The patched task switch of the 386 core (patches/i386.patch), and the   *)
(* return to virtual 8086 mode beside it.  SunOS runs its DOS windows on   *)
(* both: a user process crosses into its own task state segment, mapped at *)
(* a user address, with an IRET in ring 3 (docs/findings.md).  A switch is *)
(* a sequence of accesses to the descriptor table and to two task state    *)
(* segments, any of which may fault and leave the rest undone.             *)
(*                                                                         *)
(* What lies between the patched lines is modelled from them and is        *)
(* external: which task a call, a jump and a return start, the checks of   *)
(* their descriptors, the load of the task register, and the core's reads  *)
(* of segment descriptors, taken to be the supervisor's like the rest.     *)
(***************************************************************************)
EXTENDS Naturals

CONSTANTS Task,      \* tasks, each with its task state segment
          Home,      \* [Task -> Task]: whose page directory a task runs on
          Ring,      \* [Task -> 0..3]: the ring a task starts in
          Virtual,   \* the tasks that start in virtual 8086 mode
          Mappings,  \* [Task -> subset of Page]: what the directories may map
          UserPage,  \* the pages ring 3 may touch
          First      \* the task that runs at power on

(* The pages of the descriptor tables, and one for each task state segment.  *)
Gdt == "gdt"
Ldt == "ldt"
Page == Task \cup {Gdt, Ldt}

ASSUME TaskAssumption ==
  /\ Home \in [Task -> Task] /\ Ring \in [Task -> 0..3]
  /\ \A t \in Virtual : Ring[t] = 3
  /\ Mappings \subseteq [Task -> SUBSET Page] /\ UserPage \subseteq Page
  /\ First \in Task /\ {Gdt, Ldt} \cap Task = {}

VARIABLES
  mapped,    \* what the page directories map
  task,      \* the task register
  cpl, vm, nt, regs,   \* the running context: ring, VM and NT flags, registers
  cr3,       \* whose page directory is in force
  tss,       \* what each task state segment holds
  busy,      \* the tasks whose descriptor has the busy bit
  pc,        \* "run", the access the switch makes next, or "fault"
  target, nested, old_task,  \* the switch under way: where to, how, where from
  callers,   \* tasks a nested switch suspended
  last       \* the context each task had when it was switched away from

context == <<cpl, vm, nt, regs>>
vars == <<mapped, task, context, cr3, tss, busy, pc, target, nested, old_task, callers, last>>

Context == [ring : 0..3, vm : BOOLEAN, nt : BOOLEAN, regs : 0..1]
Steps == {"run", "clear", "save", "register", "ldt", "load", "segments", "link", "cr3",
          "busy", "finish", "fault"}

(* The directories of the tasks map the descriptor tables and each other's   *)
(* task state segments.                                                      *)
AllMapped == \A t \in Task : Page \subseteq mapped[Home[t]]

TypeOK ==
  /\ mapped \in [Task -> SUBSET Page]
  /\ task \in Task /\ target \in Task /\ old_task \in Task /\ nested \in BOOLEAN /\ pc \in Steps
  /\ cpl \in 0..3 /\ vm \in BOOLEAN /\ nt \in BOOLEAN /\ regs \in 0..1
  /\ cr3 \in Task
  /\ tss \in [Task -> [saved : Context, back : Task, cr3 : Task]]
  /\ busy \subseteq Task /\ callers \subseteq Task
  /\ last \in [Task -> Context]

Fresh(t) == [ring |-> Ring[t], vm |-> t \in Virtual, nt |-> FALSE, regs |-> 0]

Init ==
  /\ mapped \in Mappings
  /\ task = First /\ target = First /\ old_task = First /\ nested = FALSE /\ pc = "run"
  /\ cpl = Ring[First] /\ vm = (First \in Virtual) /\ nt = FALSE /\ regs = 0
  /\ cr3 = Home[First]
  /\ tss = [t \in Task |-> [saved |-> Fresh(t), back |-> First, cr3 |-> Home[t]]]
  /\ busy = {First} /\ callers = {} /\ last = [t \in Task |-> Fresh(t)]

Running == [ring |-> cpl, vm |-> vm, nt |-> nt, regs |-> regs]

-----------------------------------------------------------------------------
(* Accesses *)

(* (Mutation, and the core before the patch: the ring that happens to run.)  *)
AccessRing_Running == cpl

(* The ring at which a task switch reaches descriptors and segments.         *)
AccessRing == 0

(* A page can be read or written if the directory in force maps it and the   *)
(* ring may touch it.                                                        *)
Reaches(page) == page \in mapped[cr3] /\ (page \in UserPage \/ AccessRing < 3)

(* An access of the switch, what is done when it gets through, and the step  *)
(* after it; or a page fault, thrown out of the middle of the switch.        *)
At(step, page) == pc = step /\ Reaches(page)

Faults(step, page) ==
  /\ pc = step /\ ~Reaches(page)
  /\ pc' = "fault"
  /\ UNCHANGED <<task, context, cr3, tss, busy, target, nested, old_task, callers, last>>

-----------------------------------------------------------------------------
(* The processor between switches *)

(* Code runs, in ring 3 or not, and changes its registers.                   *)
Works == /\ pc = "run" /\ regs' = 1 - regs
         /\ UNCHANGED <<task, cpl, vm, nt, cr3, tss, busy, pc, target, nested, old_task, callers, last>>

(* An interrupt or a system call takes a task to ring 0, out of virtual 8086 *)
(* mode.                                                                     *)
EntersKernel ==
  /\ pc = "run" /\ cpl # 0
  /\ cpl' = 0 /\ vm' = FALSE /\ nt' = FALSE
  /\ UNCHANGED <<task, regs, cr3, tss, busy, pc, target, nested, old_task, callers, last>>

(* The kernel sets NT and the back link, so that the process's next IRET is  *)
(* a task return.                                                            *)
KernelSetsLink(t) ==
  /\ pc = "run" /\ cpl = 0 /\ t # task /\ t \notin busy /\ callers = {}
  /\ tss' = [tss EXCEPT ![task].back = t] /\ nt' = TRUE
  /\ UNCHANGED <<task, cpl, vm, regs, cr3, busy, pc, target, nested, old_task, callers, last>>

(* (Mutation, and the core before the patch: the stacked VM bit decides.)    *)
ReturnsToV86_AnyRing(newvm) == newvm

(* Only ring 0 returns to virtual 8086 mode.                                 *)
ReturnsToV86(newvm) == newvm /\ cpl = 0

(* (Mutation, and the core before the patch: an ordinary return loads VM.)   *)
OrdinaryVm_Loaded(newvm) == newvm

(* An ordinary return outside ring 0 keeps the VM bit; in ring 0 a stacked   *)
(* bit has taken the other path.                                             *)
OrdinaryVm(newvm) == IF cpl # 0 THEN vm ELSE newvm

(* IRET in protected mode, with NT clear: to virtual 8086 mode, or to the    *)
(* same ring or an outer one.                                                *)
Iret(newvm, ring) ==
  /\ pc = "run" /\ ~nt /\ ~vm
  /\ IF ReturnsToV86(newvm)
       THEN vm' = TRUE /\ cpl' = 3
       ELSE ring >= cpl /\ cpl' = ring /\ vm' = OrdinaryVm(newvm)
  /\ UNCHANGED <<task, nt, regs, cr3, tss, busy, pc, target, nested, old_task, callers, last>>

(* A switch begins: the outgoing context is what the task is to get back.    *)
BeginSwitch(t, isNested) ==
  /\ target' = t /\ nested' = isNested /\ old_task' = task
  /\ pc' = IF isNested THEN "save" ELSE "clear"
  /\ last' = [last EXCEPT ![task] = Running]
  /\ UNCHANGED <<task, context, cr3, tss, busy>>

(* A jump in ring 0 to a task, a call of one through a task gate, and an     *)
(* IRET with NT set, in whatever ring.                                       *)
JumpsToTask(t) == /\ pc = "run" /\ cpl = 0 /\ t \notin busy
                  /\ BeginSwitch(t, FALSE) /\ UNCHANGED callers
CallsTask(t)   == /\ pc = "run" /\ ~nt /\ t \notin busy
                  /\ BeginSwitch(t, TRUE) /\ callers' = callers \cup {task}
IretToTask     == /\ pc = "run" /\ nt /\ ~vm /\ tss[task].back # task
                  /\ tss[task].back \notin busy \/ tss[task].back \in callers
                  /\ BeginSwitch(tss[task].back, FALSE)
                  /\ callers' = callers \ {tss[task].back}

-----------------------------------------------------------------------------
(* i386_task_switch.  The patch changes i286_task_switch in the same way,    *)
(* whose last steps come in another order: it writes the link last, and has  *)
(* no cr3.                                                                   *)

(* (Mutation: the wrong descriptor.)                                         *)
ClearBusy_Target ==
  /\ At("clear", Gdt)
  /\ busy' = busy \ {target} /\ pc' = "save"
  /\ UNCHANGED <<task, context, cr3, tss, target, nested, old_task, callers, last>>

(* A switch that does not nest clears the outgoing task's busy bit.          *)
ClearBusy ==
  /\ At("clear", Gdt)
  /\ busy' = busy \ {task} /\ pc' = "save"
  /\ UNCHANGED <<task, context, cr3, tss, target, nested, old_task, callers, last>>

(* (Mutation: the registers go to the incoming task's segment.)              *)
SaveState_IntoTarget ==
  /\ At("save", task)
  /\ tss' = [tss EXCEPT ![target].saved = Running]
  /\ pc' = "register"
  /\ UNCHANGED <<task, context, cr3, busy, target, nested, old_task, callers, last>>

(* The outgoing context and cr3 are saved in the segment of the task         *)
(* register.                                                                 *)
SaveState ==
  /\ At("save", task)
  /\ tss' = [tss EXCEPT ![task] = [saved |-> Running, back |-> @.back, cr3 |-> cr3]]
  /\ pc' = "register"
  /\ UNCHANGED <<task, context, cr3, busy, target, nested, old_task, callers, last>>

(* The task register is loaded with the incoming task.                       *)
LoadTaskRegister ==
  /\ At("register", Gdt)
  /\ task' = target /\ pc' = "ldt"
  /\ UNCHANGED <<context, cr3, tss, busy, target, nested, old_task, callers, last>>

(* The local table's selector, and its descriptor unless the selector is     *)
(* null.                                                                     *)
LoadLdt ==
  /\ At("ldt", task)
  /\ pc' = "load"
  /\ UNCHANGED <<task, context, cr3, tss, busy, target, nested, old_task, callers, last>>

(* (Mutation: the base of the segment is still the outgoing task's.)         *)
LoadState_OldBase ==
  /\ At("load", task)
  /\ vm' = tss[old_task].saved.vm /\ nt' = tss[old_task].saved.nt
  /\ regs' = tss[old_task].saved.regs
  /\ pc' = "segments"
  /\ UNCHANGED <<task, cpl, cr3, tss, busy, target, nested, old_task, callers, last>>

(* The incoming flags and registers are loaded; the ring changes with the    *)
(* last step.                                                                *)
LoadState ==
  /\ At("load", task)
  /\ vm' = tss[task].saved.vm /\ nt' = tss[task].saved.nt
  /\ regs' = tss[task].saved.regs
  /\ pc' = "segments"
  /\ UNCHANGED <<task, cpl, cr3, tss, busy, target, nested, old_task, callers, last>>

(* The six segments: in virtual 8086 mode their selectors say all, otherwise *)
(* their descriptors are read, each from either table.                       *)
LoadSegments ==
  /\ At("segments", task)
  /\ vm \/ Reaches(Gdt) \/ Reaches(Ldt)
  /\ pc' = IF nested THEN "link" ELSE "cr3"
  /\ UNCHANGED <<task, context, cr3, tss, busy, target, nested, old_task, callers, last>>

(* A nested switch leaves the way back, before cr3 changes. *)
WriteLink ==
  /\ At("link", task)
  /\ tss' = [tss EXCEPT ![task].back = old_task] /\ nt' = TRUE
  /\ pc' = "cr3"
  /\ UNCHANGED <<task, cpl, vm, regs, cr3, busy, target, nested, old_task, callers, last>>

LoadCr3 ==
  /\ At("cr3", task)
  /\ cr3' = tss[task].cr3
  /\ pc' = "busy"
  /\ UNCHANGED <<task, context, tss, busy, target, nested, old_task, callers, last>>

(* The incoming task's busy bit, through the new directory. *)
SetBusy ==
  /\ At("busy", Gdt)
  /\ busy' = busy \cup {target} /\ pc' = "finish"
  /\ UNCHANGED <<task, context, cr3, tss, target, nested, old_task, callers, last>>

(* The debug trap bit is read, and the ring is that of the stack segment.    *)
FinishSwitch ==
  /\ At("finish", task)
  /\ cpl' = tss[task].saved.ring /\ pc' = "run"
  /\ UNCHANGED <<task, vm, nt, regs, cr3, tss, busy, target, nested, old_task, callers, last>>

SwitchFaults ==
  \/ \E s \in {"clear", "register", "ldt", "busy"} : Faults(s, Gdt)
  \/ \E s \in {"save", "ldt", "load", "segments", "link", "cr3", "finish"} : Faults(s, task)
  \/ ~vm /\ \E table \in {Gdt, Ldt} : Faults("segments", table)

(* The directories stay as they are. *)
Next ==
  /\ UNCHANGED mapped
  /\ \/ Works \/ EntersKernel \/ IretToTask \/ SwitchFaults
     \/ ClearBusy \/ SaveState \/ LoadTaskRegister
     \/ LoadLdt \/ LoadState \/ LoadSegments \/ WriteLink \/ LoadCr3 \/ SetBusy \/ FinishSwitch
     \/ \E t \in Task : KernelSetsLink(t) \/ JumpsToTask(t) \/ CallsTask(t)
     \/ \E v \in BOOLEAN, r \in 0..3 : Iret(v, r)

Spec == Init /\ [][Next]_vars

-----------------------------------------------------------------------------
(* A task switch over pages that are all there never faults, whatever the    *)
(* ring it was begun in and whoever may touch the pages (fix 1 of the patch: *)
(* a switch reaches the GDT and the TSSes as the supervisor).                *)
SwitchCompletes == AllMapped => pc # "fault"

(* The task a switch resumes runs on in the context it was switched away     *)
(* with, its ring, flags and registers, whichever tasks ran in between;      *)
(* a nested switch sets its NT flag besides (the accesses that save and load *)
(* a context, from the order they are in).                                   *)
ContextsComeBack ==
  [][pc = "finish" /\ pc' = "run" =>
       Running' = IF nested THEN [last[task] EXCEPT !.nt = TRUE] ELSE last[task]]_vars

(* The busy descriptors are those of the running task and of the tasks that  *)
(* wait for a nested one to return (the descriptor accesses of the patch).   *)
BusyIsActive == pc = "run" => busy = callers \cup {task}

(* A fault in the middle of a switch leaves the outgoing task's context      *)
(* somewhere: it still runs, or it is in its segment (the order of the       *)
(* patched accesses; a fault is thrown out of the middle).                   *)
OutgoingKept ==
  pc = "fault" => last[old_task] \in {Running, tss[old_task].saved}

(* Virtual 8086 mode is ring 3: the VM bit is loaded early in a switch and   *)
(* the ring last, and an IRET may find the bit on any stack.                 *)
V86IsRing3 == pc = "run" /\ vm => cpl = 3

(* Code outside ring 0 enters virtual 8086 mode through a task switch only   *)
(* (fix 2 of the patch: only ring 0 may return to it).                       *)
OnlyRing0EntersV86 == [][vm' /\ ~vm => cpl = 0 \/ pc = "load"]_vars
=============================================================================
