-------------------------- MODULE TaskSwitchProofs --------------------------
(***************************************************************************)
(* The patched switch never faults over pages that are there, resumes every *)
(* task in the context it left and keeps its busy bit, and virtual 8086     *)
(* mode stays in ring 3: for any tasks and any page directories.            *)
(***************************************************************************)
EXTENDS TaskSwitch, TLAPS

USE TaskAssumption

(* The directory in force, and every directory a segment names, is that of   *)
(* some task; a context in virtual 8086 mode is one of ring 3, and while a   *)
(* switch loads it the ring is still to come.                                *)
Homes == {Home[t] : t \in Task}
Loading == pc \in {"segments", "link", "cr3", "busy", "finish"}
InStep ==
  /\ cr3 \in Homes /\ \A t \in Task : tss[t].cr3 \in Homes
  /\ \A t \in Task : tss[t].saved.vm => tss[t].saved.ring = 3
  /\ Loading => vm = tss[task].saved.vm
  /\ ~Loading /\ vm => cpl = 3 \/ pc = "fault"

SInv == TypeOK /\ InStep /\ SwitchCompletes

(* Every page a switch touches is reached, by the supervisor.                *)
LEMMA SupervisorReaches ==
  ASSUME TypeOK, InStep, AllMapped, NEW page \in Page
  PROVE  Reaches(page)
<1>1. page \in mapped[cr3]
  BY DEF AllMapped, InStep, Homes
<1> QED
  BY <1>1 DEF Reaches, AccessRing

LEMMA StartHolds == Init => SInv
<1> SUFFICES ASSUME Init PROVE SInv
  OBVIOUS
<1>1. \A t \in Task : Fresh(t) \in Context
  BY DEF Fresh, Context
<1>2. TypeOK
  <2>1. /\ tss \in [Task -> [saved : Context, back : Task, cr3 : Task]]
        /\ last \in [Task -> Context]
    BY <1>1 DEF Init
  <2>2. vm \in BOOLEAN /\ nt \in BOOLEAN
    <3>1. vm = (First \in Virtual) /\ nt = FALSE
      BY DEF Init
    <3>2. (First \in Virtual) \in BOOLEAN
      OBVIOUS
    <3> QED
      BY <3>1, <3>2, Zenon
  <2>3. /\ task \in Task /\ target \in Task /\ old_task \in Task
        /\ pc \in Steps /\ cpl \in 0..3 /\ regs \in 0..1 /\ cr3 \in Task
        /\ busy \subseteq Task /\ callers \subseteq Task
    BY DEF Init, Steps
  <2>4. nested \in BOOLEAN
    BY Zenon DEF Init
  <2>5. mapped \in [Task -> SUBSET Page]
    BY DEF Init
  <2> QED
    BY <2>1, <2>2, <2>3, <2>4, <2>5 DEF TypeOK
<1>3. \A t \in Task : /\ tss[t].cr3 = Home[t]
                      /\ tss[t].saved.vm => t \in Virtual
                      /\ tss[t].saved.ring = Ring[t]
  BY DEF Init, Fresh
<1>4. (vm => cpl = 3) /\ pc = "run" /\ cr3 = Home[First]
  <2>1. vm => First \in Virtual
    BY Zenon DEF Init
  <2> QED
    BY <2>1 DEF Init
<1>5. InStep
  BY <1>3, <1>4 DEF InStep, Homes, Loading
<1> QED
  BY <1>2, <1>5 DEF Init, SInv, SwitchCompletes, AllMapped

(* Between switches: registers, ring and flags change, no page is touched.   *)
LEMMA BetweenSwitches ==
  ASSUME SInv, UNCHANGED mapped,
         Works \/ EntersKernel
         \/ (\E t \in Task : KernelSetsLink(t))
         \/ (\E v \in BOOLEAN, r \in 0..3 : Iret(v, r))
  PROVE  SInv'
<1>0. TypeOK /\ InStep /\ SwitchCompletes
  BY DEF SInv
<1> USE <1>0
<1>1. CASE Works
  BY <1>1 DEF Works, SInv, TypeOK, InStep, SwitchCompletes, AllMapped, Loading
<1>2. CASE EntersKernel
  <2>1. TypeOK'
    <3>0. vm' \in BOOLEAN /\ nt' \in BOOLEAN
      BY <1>2, Zenon DEF EntersKernel
    <3>1. cpl' \in 0..3
      BY <1>2 DEF EntersKernel
    <3>2. UNCHANGED <<task, regs, cr3, tss, busy, pc, target, nested, old_task, callers, last>>
      BY <1>2 DEF EntersKernel
    <3> QED
      BY <3>0, <3>1, <3>2 DEF TypeOK
  <2>2. InStep'
    BY <1>2 DEF EntersKernel, InStep, Loading
  <2> QED
    BY <1>2, <2>1, <2>2 DEF EntersKernel, SInv, SwitchCompletes, AllMapped
<1>3. ASSUME NEW t \in Task, KernelSetsLink(t) PROVE SInv'
  <2>1. tss' = [tss EXCEPT ![task].back = t]
    BY <1>3 DEF KernelSetsLink
  <2>2. \A u \in Task : tss'[u].saved = tss[u].saved /\ tss'[u].cr3 = tss[u].cr3
    BY <2>1 DEF TypeOK
  <2>3. TypeOK'
    BY <1>3, <2>1 DEF KernelSetsLink, TypeOK
  <2>4. InStep'
    BY <1>3, <2>2 DEF KernelSetsLink, InStep, Loading, TypeOK
  <2> QED
    BY <1>3, <2>3, <2>4 DEF KernelSetsLink, SInv, SwitchCompletes, AllMapped
<1>4. ASSUME NEW v \in BOOLEAN, NEW r \in 0..3, Iret(v, r) PROVE SInv'
  <2>1. (vm' => cpl' = 3) /\ vm' \in BOOLEAN /\ cpl' \in 0..3
    <3>1. CASE v /\ cpl = 0
      BY <1>4, <3>1 DEF Iret, ReturnsToV86
    <3>2. CASE ~(v /\ cpl = 0)
      <4>1. cpl' = r /\ vm' = OrdinaryVm(v) /\ ~vm
        BY <1>4, <3>2, Zenon DEF Iret, ReturnsToV86
      <4>2. ~OrdinaryVm(v) /\ OrdinaryVm(v) \in BOOLEAN
        BY <3>2, <4>1, Zenon DEF OrdinaryVm, TypeOK
      <4> QED
        BY <4>1, <4>2
    <3> QED
      BY <3>1, <3>2
  <2> QED
    BY <1>4, <2>1 DEF Iret, SInv, TypeOK, InStep, SwitchCompletes, AllMapped, Loading
<1> QED
  BY <1>1, <1>2, <1>3, <1>4

(* A switch begins. *)
LEMMA SwitchBegins ==
  ASSUME SInv, UNCHANGED mapped,
         IretToTask \/ (\E t \in Task : JumpsToTask(t) \/ CallsTask(t))
  PROVE  SInv'
<1>0. TypeOK /\ InStep /\ SwitchCompletes
  BY DEF SInv
<1> USE <1>0
<1>1. PICK t \in Task, n \in BOOLEAN :
        BeginSwitch(t, n) /\ pc = "run" /\ callers' \subseteq Task
  BY DEF IretToTask, JumpsToTask, CallsTask, TypeOK
<1>2. Running \in Context
  BY DEF Running, Context, TypeOK
<1>3. last' \in [Task -> Context]
  BY <1>1, <1>2 DEF BeginSwitch, TypeOK
<1>4. TypeOK'
  BY <1>1, <1>3 DEF BeginSwitch, context, TypeOK, Steps
<1>5. InStep'
  BY <1>1 DEF BeginSwitch, context, InStep, Loading
<1> QED
  BY <1>1, <1>4, <1>5 DEF BeginSwitch, SInv, SwitchCompletes, AllMapped

(* A switch goes on. *)
LEMMA SwitchGoesOn ==
  ASSUME SInv, UNCHANGED mapped,
         ClearBusy \/ SaveState \/ LoadTaskRegister
         \/ LoadLdt \/ LoadState \/ LoadSegments \/ WriteLink \/ LoadCr3 \/ SetBusy \/ FinishSwitch
  PROVE  SInv'
<1>0. TypeOK /\ InStep /\ SwitchCompletes
  BY DEF SInv
<1> USE <1>0 DEF At
<1>1. CASE ClearBusy
  BY <1>1 DEF ClearBusy, context, SInv, TypeOK, Steps, InStep, SwitchCompletes, AllMapped, Loading
<1>2. CASE SaveState
  <2>1. Running \in Context /\ (Running.vm => Running.ring = 3)
    BY <1>2 DEF SaveState, Running, Context, TypeOK, InStep, Loading
  <2> DEFINE new == [saved |-> Running, back |-> tss[task].back, cr3 |-> cr3]
  <2>a. tss' = [t \in Task |-> IF t = task THEN new ELSE tss[t]]
    BY <1>2 DEF SaveState, TypeOK
  <2>b. new \in [saved : Context, back : Task, cr3 : Task]
    BY <2>1 DEF TypeOK
  <2>3. tss' \in [Task -> [saved : Context, back : Task, cr3 : Task]]
    BY <2>a, <2>b DEF TypeOK
  <2>4. \A t \in Task : /\ tss'[t].saved = IF t = task THEN Running ELSE tss[t].saved
                        /\ tss'[t].cr3 = IF t = task THEN cr3 ELSE tss[t].cr3
    BY <2>a
  <2>5. TypeOK'
    BY <1>2, <2>3 DEF SaveState, context, TypeOK, Steps
  <2>6. InStep'
    <3>1. cr3' \in Homes /\ \A t \in Task : tss'[t].cr3 \in Homes
      <4>1. cr3 \in Homes /\ cr3' = cr3 /\ \A t \in Task : tss[t].cr3 \in Homes
        BY <1>2 DEF SaveState, InStep
      <4>2. \A t \in Task : tss'[t].cr3 = IF t = task THEN cr3 ELSE tss[t].cr3
        BY <2>4
      <4> HIDE DEF Homes, new
      <4> QED
        BY <4>1, <4>2
    <3>2. \A t \in Task : tss'[t].saved.vm => tss'[t].saved.ring = 3
      BY <2>1, <2>4 DEF InStep
    <3>3. ~Loading /\ pc' = "register" /\ vm' = vm /\ cpl' = cpl
      BY <1>2 DEF SaveState, context, Loading
    <3> QED
      <4>0. pc = "save" /\ (vm => cpl = 3)
        BY <1>2, <3>3 DEF SaveState, InStep
      <4>1. ~Loading' /\ (vm' => cpl' = 3)
        BY <3>3, <4>0 DEF Loading
      <4> QED
        BY <3>1, <3>2, <4>1 DEF InStep, Homes
  <2> QED
    BY <1>2, <2>5, <2>6 DEF SaveState, SInv, SwitchCompletes, AllMapped
<1>3. CASE LoadTaskRegister
  BY <1>3 DEF LoadTaskRegister, context, SInv, TypeOK, Steps, InStep, SwitchCompletes, AllMapped, Loading
<1>9. CASE LoadLdt
  BY <1>9 DEF LoadLdt, context, SInv, TypeOK, Steps, InStep, SwitchCompletes, AllMapped, Loading
<1>10. CASE LoadSegments
  BY <1>10 DEF LoadSegments, context, SInv, TypeOK, Steps, InStep, SwitchCompletes, AllMapped, Loading
<1>4. CASE LoadState
  <2>1. tss[task].saved \in Context
    BY DEF TypeOK
  <2>2. TypeOK'
    BY <1>4, <2>1 DEF LoadState, TypeOK, Steps, Context
  <2>3. InStep'
    BY <1>4 DEF LoadState, InStep, Loading
  <2> QED
    BY <1>4, <2>2, <2>3 DEF LoadState, SInv, SwitchCompletes, AllMapped
<1>5. CASE WriteLink
  <2>1. tss' = [tss EXCEPT ![task].back = old_task]
    BY <1>5 DEF WriteLink
  <2>2. \A u \in Task : tss'[u].saved = tss[u].saved /\ tss'[u].cr3 = tss[u].cr3
    BY <2>1 DEF TypeOK
  <2>3. TypeOK'
    <3>1. tss' \in [Task -> [saved : Context, back : Task, cr3 : Task]]
      BY <2>1 DEF TypeOK
    <3>2. pc' \in Steps /\ nt' = TRUE
      BY <1>5 DEF WriteLink, Steps
    <3>3. UNCHANGED <<mapped, task, cpl, vm, regs, cr3, busy, target, nested, old_task,
                      callers, last>>
      BY <1>5 DEF WriteLink
    <3> QED
      BY <3>1, <3>2, <3>3 DEF TypeOK
  <2>4. InStep'
    BY <1>5, <2>2 DEF WriteLink, InStep, Loading, TypeOK
  <2> QED
    BY <1>5, <2>3, <2>4 DEF WriteLink, SInv, SwitchCompletes, AllMapped
<1>6. CASE LoadCr3
  <2>1. TypeOK'
    BY <1>6 DEF LoadCr3, context, TypeOK, Steps
  <2>2. InStep'
    BY <1>6 DEF LoadCr3, context, InStep, Loading, TypeOK
  <2> QED
    BY <1>6, <2>1, <2>2 DEF LoadCr3, SInv, SwitchCompletes, AllMapped
<1>7. CASE SetBusy
  BY <1>7 DEF SetBusy, context, SInv, TypeOK, Steps, InStep, SwitchCompletes, AllMapped, Loading
<1>8. CASE FinishSwitch
  <2>1. tss[task].saved.ring \in 0..3
    BY DEF TypeOK, Context
  <2>2. TypeOK'
    BY <1>8, <2>1 DEF FinishSwitch, TypeOK, Steps
  <2>3. InStep'
    BY <1>8 DEF FinishSwitch, InStep, Loading, TypeOK
  <2> QED
    BY <1>8, <2>2, <2>3 DEF FinishSwitch, SInv, SwitchCompletes, AllMapped
<1> QED
  BY <1>1, <1>2, <1>3, <1>4, <1>5, <1>6, <1>7, <1>8, <1>9, <1>10

(* A fault needs a page that is not mapped. *)
LEMMA FaultsNeedGaps == ASSUME SInv, UNCHANGED mapped, SwitchFaults PROVE SInv'
<1>0. TypeOK /\ InStep /\ SwitchCompletes
  BY DEF SInv
<1> USE <1>0
<1>1. PICK s \in Steps, page \in Page : Faults(s, page)
  BY DEF SwitchFaults, Steps, Page, TypeOK
<1>2. ~AllMapped
  BY <1>1, SupervisorReaches DEF Faults
<1>3. TypeOK'
  BY <1>1 DEF Faults, context, TypeOK, Steps
<1>4. InStep'
  BY <1>1 DEF Faults, context, InStep, Loading
<1> QED
  BY <1>2, <1>3, <1>4 DEF SInv, SwitchCompletes, AllMapped

LEMMA SwitchInvariance == Spec => []SInv
<1>1. SInv /\ [Next]_vars => SInv'
  <2> SUFFICES ASSUME SInv, [Next]_vars PROVE SInv'
    OBVIOUS
  <2>1. CASE Next
    BY <2>1, BetweenSwitches, SwitchBegins, SwitchGoesOn, FaultsNeedGaps DEF Next
  <2>2. CASE UNCHANGED vars
    BY <2>2 DEF vars, context, SInv, TypeOK, InStep, SwitchCompletes, AllMapped, Loading
  <2> QED
    BY <2>1, <2>2
<1> QED
  BY StartHolds, <1>1, PTL DEF Spec

(* A switch over pages that are there is never cut off by a fault, whatever  *)
(* the ring it was begun in.                                                 *)
THEOREM SwitchIsWhole == Spec => []SwitchCompletes
<1>1. SInv => SwitchCompletes
  BY DEF SInv
<1> QED
  BY <1>1, SwitchInvariance, PTL

(* Whenever code runs in virtual 8086 mode it runs in ring 3.                *)
THEOREM VirtualIsRing3 == Spec => []V86IsRing3
<1>1. SInv => V86IsRing3
  BY DEF SInv, InStep, V86IsRing3, Loading
<1> QED
  BY <1>1, SwitchInvariance, PTL

(* Outside ring 0 the only way into virtual 8086 mode is a task switch.      *)
THEOREM OuterRingsSwitch == Spec => OnlyRing0EntersV86
<1>1. SInv /\ [Next]_vars => [vm' /\ ~vm => cpl = 0 \/ pc = "load"]_vars
  <2> SUFFICES ASSUME SInv, Next, vm' /\ ~vm PROVE cpl = 0 \/ pc = "load"
    OBVIOUS
  <2>1. CASE LoadState
    BY <2>1 DEF LoadState, At
  <2>2. ASSUME NEW v \in BOOLEAN, NEW r \in 0..3, Iret(v, r) PROVE cpl = 0
    BY <2>2 DEF Iret, ReturnsToV86, OrdinaryVm
  <2>3. CASE EntersKernel
    BY <2>3 DEF EntersKernel
  <2>4. CASE \/ Works \/ IretToTask \/ SwitchFaults
             \/ ClearBusy \/ SaveState \/ LoadTaskRegister
             \/ LoadLdt \/ LoadSegments \/ WriteLink \/ LoadCr3 \/ SetBusy \/ FinishSwitch
             \/ \E t \in Task : KernelSetsLink(t) \/ JumpsToTask(t) \/ CallsTask(t)
    BY <2>4 DEF Works, IretToTask, SwitchFaults, Faults, ClearBusy, SaveState,
                LoadTaskRegister, LoadLdt, LoadSegments, WriteLink, LoadCr3, SetBusy, FinishSwitch,
                KernelSetsLink, JumpsToTask, CallsTask, BeginSwitch, context
  <2> QED
    BY <2>1, <2>2, <2>3, <2>4 DEF Next
<1> QED
  BY <1>1, SwitchInvariance, PTL DEF Spec, OnlyRing0EntersV86

-----------------------------------------------------------------------------
(* Who is busy and whose context is where, at every step of a switch: the    *)
(* outgoing task gives up its descriptor first, its context is in the        *)
(* running registers until it is in its segment, and the incoming task is    *)
(* none of those that wait.                                                  *)
Outgoing == pc \in {"clear", "save", "register"}
Incoming == pc \in {"ldt", "load", "segments", "link", "cr3", "busy", "finish"}

Who ==
  /\ Outgoing => task = old_task /\ target # task
  /\ Incoming => task = target
  /\ Outgoing \/ Incoming => target \notin callers
  /\ pc = "run" => task \notin callers
BusyBits ==
  /\ pc = "run" => busy = callers \cup {task}
  /\ pc = "clear" => busy \ {target} = callers \cup {task} /\ task \notin callers
  /\ pc \in {"save", "register", "ldt", "load", "segments", "link", "cr3", "busy"} =>
        busy \ {target} = callers
  /\ pc = "finish" => busy = callers \cup {target}
Contexts ==
  /\ pc \in {"run", "clear", "save"} => \A t \in Task \ {task} : tss[t].saved = last[t]
  /\ pc \in {"clear", "save"} => last[task] = Running
  /\ pc = "register" \/ Incoming => \A t \in Task : tss[t].saved = last[t]
  /\ OutgoingKept

SwitchInv == Who /\ BusyBits /\ Contexts

LEMMA SwitchInvStarts == Init => SwitchInv
<1> SUFFICES ASSUME Init PROVE SwitchInv
  OBVIOUS
<1>1. Who /\ BusyBits
  BY DEF Init, Who, BusyBits, Outgoing, Incoming
<1>2. Contexts
  BY DEF Init, Contexts, Outgoing, Incoming, OutgoingKept
<1> QED
  BY <1>1, <1>2 DEF SwitchInv

(* Between switches no context and no descriptor is touched.                 *)
LEMMA RunKeepsSwitchInv ==
  ASSUME TypeOK, SwitchInv,
         Works \/ EntersKernel
         \/ (\E t \in Task : KernelSetsLink(t))
         \/ (\E v \in BOOLEAN, r \in 0..3 : Iret(v, r))
  PROVE  SwitchInv'
<1>1. /\ pc = "run" /\ pc' = "run"
      /\ UNCHANGED <<task, busy, callers, last>>
      /\ \A t \in Task : tss'[t].saved = tss[t].saved
  <2>1. ASSUME NEW t \in Task, KernelSetsLink(t)
        PROVE  \A u \in Task : tss'[u].saved = tss[u].saved
    BY <2>1 DEF KernelSetsLink, TypeOK
  <2> QED
    BY <2>1 DEF Works, EntersKernel, KernelSetsLink, Iret
<1> QED
  BY <1>1 DEF SwitchInv, Who, BusyBits, Contexts, Outgoing, Incoming, OutgoingKept

(* A switch starts to a task that neither runs nor waits.                    *)
LEMMA BeginKeepsSwitchInv ==
  ASSUME TypeOK, SwitchInv,
         IretToTask \/ (\E t \in Task : JumpsToTask(t) \/ CallsTask(t))
  PROVE  SwitchInv'
<1>1. PICK t \in Task, n \in BOOLEAN :
        /\ BeginSwitch(t, n) /\ pc = "run" /\ t # task /\ t \notin callers'
        /\ n => callers' = callers \cup {task} /\ t \notin busy
        /\ ~n => callers' \cup {t} = callers \cup {t}
        /\ ~n => t \notin busy \/ t \in callers
        /\ ~n => callers' = callers \ {t}
  <2>1. CASE IretToTask
    <3>1. tss[task].back \in Task
      BY DEF TypeOK
    <3>2. /\ BeginSwitch(tss[task].back, FALSE) /\ pc = "run"
          /\ tss[task].back # task /\ callers' = callers \ {tss[task].back}
          /\ tss[task].back \notin busy \/ tss[task].back \in callers
      BY <2>1 DEF IretToTask
    <3> QED
      BY <3>1, <3>2
  <2>2. ASSUME NEW t \in Task, JumpsToTask(t)
        PROVE  /\ BeginSwitch(t, FALSE) /\ pc = "run" /\ t # task
               /\ callers' = callers /\ t \notin callers /\ t \notin busy
    BY <2>2 DEF JumpsToTask, SwitchInv, BusyBits
  <2>3. ASSUME NEW t \in Task, CallsTask(t)
        PROVE  /\ BeginSwitch(t, TRUE) /\ pc = "run" /\ t # task
               /\ callers' = callers \cup {task} /\ t \notin callers' /\ t \notin busy
    BY <2>3 DEF CallsTask, SwitchInv, BusyBits
  <2>4. CASE \E t \in Task : JumpsToTask(t)
    <3>1. PICK t \in Task : JumpsToTask(t)
      BY <2>4
    <3>2. callers \ {t} = callers
      BY <2>2, <3>1
    <3> QED
      BY <2>2, <3>1, <3>2
  <2>5. CASE \E t \in Task : CallsTask(t)
    <3>1. PICK t \in Task : CallsTask(t)
      BY <2>5
    <3> QED
      BY <2>3, <3>1
  <2> QED
    BY <2>1, <2>4, <2>5
<1>2. /\ target' = t /\ old_task' = task /\ task' = task /\ busy' = busy /\ tss' = tss
      /\ pc' = IF n THEN "save" ELSE "clear"
      /\ busy = callers \cup {task} /\ task \notin callers
  BY <1>1 DEF BeginSwitch, SwitchInv, BusyBits, Who
<1>3. Who' /\ BusyBits'
  BY <1>1, <1>2 DEF Who, BusyBits, Outgoing, Incoming
<1>4. Contexts'
  <2>1. last' = [last EXCEPT ![task] = Running] /\ Running' = Running
    BY <1>1 DEF BeginSwitch, Running, context
  <2>2. last'[task] = Running /\ \A u \in Task \ {task} : last'[u] = last[u]
    BY <2>1 DEF TypeOK
  <2> QED
    BY <1>1, <1>2, <2>1, <2>2 DEF SwitchInv, Contexts, Outgoing, Incoming, OutgoingKept
<1> QED
  BY <1>3, <1>4 DEF SwitchInv

(* Each step of a switch hands on what the next one needs.                   *)
LEMMA StepsKeepSwitchInv ==
  ASSUME TypeOK, SwitchInv,
         ClearBusy \/ SaveState \/ LoadTaskRegister
         \/ LoadLdt \/ LoadState \/ LoadSegments \/ WriteLink \/ LoadCr3 \/ SetBusy \/ FinishSwitch
  PROVE  SwitchInv'
<1> USE DEF At, SwitchInv, Who, BusyBits, Contexts, Outgoing, Incoming, OutgoingKept
<1>1. CASE ClearBusy
  <2>1. Running' = Running
    BY <1>1 DEF ClearBusy, context, Running
  <2> QED
    BY <1>1, <2>1 DEF ClearBusy
<1>2. CASE SaveState
  <2>1. \A t \in Task : tss'[t].saved = IF t = task THEN Running ELSE tss[t].saved
    BY <1>2 DEF SaveState, TypeOK
  <2> QED
    BY <1>2, <2>1 DEF SaveState
<1>3. CASE LoadTaskRegister
  BY <1>3 DEF LoadTaskRegister
<1>4. CASE LoadState
  BY <1>4 DEF LoadState
<1>5. CASE WriteLink
  <2>1. \A t \in Task : tss'[t].saved = tss[t].saved
    BY <1>5 DEF WriteLink, TypeOK
  <2> QED
    BY <1>5, <2>1 DEF WriteLink
<1>6. CASE LoadCr3
  BY <1>6 DEF LoadCr3
<1>9. CASE LoadLdt
  BY <1>9 DEF LoadLdt
<1>10. CASE LoadSegments
  BY <1>10 DEF LoadSegments
<1>7. CASE SetBusy
  BY <1>7 DEF SetBusy
<1>8. CASE FinishSwitch
  BY <1>8 DEF FinishSwitch
<1> QED
  BY <1>1, <1>2, <1>3, <1>4, <1>5, <1>6, <1>7, <1>8, <1>9, <1>10

(* Wherever a switch is cut off, the outgoing context is still somewhere.    *)
LEMMA FaultKeepsSwitchInv == ASSUME TypeOK, SwitchInv, SwitchFaults PROVE SwitchInv'
<1>1. /\ pc' = "fault"
      /\ Outgoing \/ Incoming
      /\ UNCHANGED <<task, context, tss, busy, target, old_task, callers, last>>
  BY DEF SwitchFaults, Faults, Outgoing, Incoming
<1>2. Running' = Running
  BY <1>1 DEF context, Running
<1>3. last[old_task] \in {Running, tss[old_task].saved}
  BY <1>1 DEF SwitchInv, Who, Contexts, Outgoing, Incoming, TypeOK
<1> QED
  BY <1>1, <1>2, <1>3 DEF SwitchInv, Who, BusyBits, Contexts, Outgoing, Incoming, OutgoingKept

LEMMA SwitchInvHolds == Spec => []SwitchInv
<1>1. SInv /\ SwitchInv /\ [Next]_vars => SwitchInv'
  <2> SUFFICES ASSUME SInv, SwitchInv, [Next]_vars PROVE SwitchInv'
    OBVIOUS
  <2>1. TypeOK
    BY DEF SInv
  <2>2. CASE Next
    BY <2>1, <2>2, RunKeepsSwitchInv, BeginKeepsSwitchInv, StepsKeepSwitchInv,
       FaultKeepsSwitchInv DEF Next
  <2>3. CASE UNCHANGED vars
    BY <2>3 DEF vars, context, SwitchInv, Who, BusyBits, Contexts, Outgoing, Incoming,
                OutgoingKept, Running
  <2> QED
    BY <2>2, <2>3
<1> QED
  BY <1>1, SwitchInvStarts, SwitchInvariance, PTL DEF Spec

(* What of the incoming context the registers hold: all but its ring, with   *)
(* the NT flag set once a nested switch has written its link.                *)
Loaded ==
  /\ Loading => regs = tss[task].saved.regs
  /\ pc \in {"segments", "link"} => nt = tss[task].saved.nt
  /\ pc \in {"cr3", "busy", "finish"} => IF nested THEN nt = TRUE ELSE nt = tss[task].saved.nt
  /\ pc = "link" => nested

LEMMA LoadedHolds == Spec => []Loaded
<1>1. Init => Loaded
  BY DEF Init, Loaded, Loading
<1>2. SInv /\ Loaded /\ [Next]_vars => Loaded'
  <2> SUFFICES ASSUME SInv, Loaded, [Next]_vars PROVE Loaded'
    OBVIOUS
  <2>0. TypeOK
    BY DEF SInv
  <2>1. CASE \/ Works \/ EntersKernel \/ IretToTask \/ SwitchFaults
             \/ ClearBusy \/ SaveState \/ LoadTaskRegister \/ LoadLdt
             \/ \E t \in Task : KernelSetsLink(t) \/ JumpsToTask(t) \/ CallsTask(t)
             \/ \E v \in BOOLEAN, r \in 0..3 : Iret(v, r)
    <3>1. pc' \in {"run", "clear", "save", "register", "ldt", "load", "fault"}
      BY <2>1 DEF Works, EntersKernel, IretToTask, SwitchFaults, Faults, ClearBusy, SaveState,
                  LoadTaskRegister, LoadLdt, KernelSetsLink, JumpsToTask, CallsTask,
                  BeginSwitch, Iret
    <3> QED
      BY <3>1 DEF Loaded, Loading
  <2>2. CASE LoadState
    BY <2>2 DEF LoadState, Loaded, Loading
  <2>3. CASE LoadSegments
    BY <2>3, Zenon DEF LoadSegments, At, context, Loaded, Loading
  <2>4. CASE WriteLink
    <3>1. \A t \in Task : tss'[t].saved = tss[t].saved
      BY <2>0, <2>4 DEF WriteLink, TypeOK
    <3>2. pc = "link" /\ pc' = "cr3" /\ nt' = TRUE /\ UNCHANGED <<task, regs, nested>>
      BY <2>4 DEF WriteLink, At
    <3> QED
      BY <2>0, <3>1, <3>2 DEF Loaded, Loading, TypeOK
  <2>5. CASE LoadCr3 \/ SetBusy
    BY <2>5 DEF LoadCr3, SetBusy, At, context, Loaded, Loading
  <2>6. CASE FinishSwitch
    BY <2>6 DEF FinishSwitch, Loaded, Loading
  <2>7. CASE UNCHANGED vars
    BY <2>7 DEF vars, context, Loaded, Loading
  <2> QED
    BY <2>1, <2>2, <2>3, <2>4, <2>5, <2>6, <2>7 DEF Next
<1> QED
  BY <1>1, <1>2, SwitchInvariance, PTL DEF Spec

(* A resumed task runs on with the ring, the flags and the registers it was  *)
(* switched away with, and the NT flag if the switch nests (the accesses     *)
(* that save and load a context): its segment kept them while it waited, and *)
(* the running context has taken them all by the last step.                  *)
THEOREM TasksResume == Spec => ContextsComeBack
<1>1. SInv /\ SwitchInv /\ Loaded /\ [Next]_vars =>
        [pc = "finish" /\ pc' = "run" =>
           Running' = IF nested THEN [last[task] EXCEPT !.nt = TRUE] ELSE last[task]]_vars
  <2> SUFFICES ASSUME SInv, SwitchInv, Loaded, Next, pc = "finish", pc' = "run"
               PROVE  Running' = IF nested THEN [last[task] EXCEPT !.nt = TRUE] ELSE last[task]
    OBVIOUS
  <2>1. FinishSwitch
    BY DEF Next, Works, EntersKernel, IretToTask, SwitchFaults, Faults, At, ClearBusy, SaveState,
           LoadTaskRegister, LoadLdt, LoadState, LoadSegments, WriteLink, LoadCr3, SetBusy,
           KernelSetsLink, JumpsToTask, CallsTask, Iret
  <2>2. last[task] \in Context /\ tss[task].saved = last[task]
    BY DEF SInv, TypeOK, SwitchInv, Contexts, Incoming
  <2>3. cpl' = last[task].ring /\ vm' = vm /\ nt' = nt /\ regs' = regs
    BY <2>1, <2>2 DEF FinishSwitch
  <2>4. vm = last[task].vm /\ regs = last[task].regs
    BY <2>2 DEF SInv, InStep, Loaded, Loading
  <2>5. IF nested THEN nt = TRUE ELSE nt = last[task].nt
    BY <2>2 DEF Loaded
  <2>6. Running' = [ring |-> last[task].ring, vm |-> last[task].vm, nt |-> nt,
                    regs |-> last[task].regs]
    BY <2>3, <2>4, Zenon DEF Running
  <2>7. last[task] = [ring |-> last[task].ring, vm |-> last[task].vm, nt |-> last[task].nt,
                      regs |-> last[task].regs]
    BY <2>2 DEF Context
  <2>a. [last[task] EXCEPT !.nt = TRUE] = [ring |-> last[task].ring, vm |-> last[task].vm,
                                           nt |-> TRUE, regs |-> last[task].regs]
    <3> DEFINE linked == [last[task] EXCEPT !.nt = TRUE]
    <3>1. /\ linked \in Context /\ linked.ring = last[task].ring /\ linked.vm = last[task].vm
          /\ linked.nt = TRUE /\ linked.regs = last[task].regs
      BY <2>2 DEF Context
    <3>2. \A c \in Context : c = [ring |-> c.ring, vm |-> c.vm, nt |-> c.nt, regs |-> c.regs]
      BY DEF Context
    <3> HIDE DEF linked
    <3>3. linked = [ring |-> linked.ring, vm |-> linked.vm, nt |-> linked.nt, regs |-> linked.regs]
      BY <3>1, <3>2
    <3>4. linked = [ring |-> last[task].ring, vm |-> last[task].vm, nt |-> TRUE,
                    regs |-> last[task].regs]
      BY <3>1, <3>3, Zenon
    <3> QED
      BY <3>4 DEF linked
  <2>8. CASE nested
    <3>1. nt = TRUE
      BY <2>5, <2>8, Zenon
    <3> QED
      BY <2>6, <2>8, <2>a, <3>1, Zenon
  <2>9. CASE ~nested
    <3>1. nt = last[task].nt
      BY <2>5, <2>9, Zenon
    <3> QED
      BY <2>6, <2>7, <2>9, <3>1, Zenon
  <2> QED
    BY <2>8, <2>9
<1> QED
  BY <1>1, SwitchInvariance, SwitchInvHolds, LoadedHolds, PTL DEF Spec, ContextsComeBack

(* While code runs, exactly the running task and those that wait for a       *)
(* nested one are busy, through jumps, calls and returns in any order (the   *)
(* patched accesses to the descriptors).                                     *)
THEOREM BusyBitsAreRight == Spec => []BusyIsActive
<1>1. SwitchInv => BusyIsActive
  BY DEF SwitchInv, BusyBits, BusyIsActive
<1> QED
  BY <1>1, SwitchInvHolds, PTL

(* A fault at any access of a switch leaves the outgoing context running or  *)
(* in its segment (the order of the patched accesses).                       *)
THEOREM OutgoingSurvives == Spec => []OutgoingKept
<1>1. SwitchInv => OutgoingKept
  BY DEF SwitchInv, Contexts
<1> QED
  BY <1>1, SwitchInvHolds, PTL
=============================================================================
