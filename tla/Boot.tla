-------------------------------- MODULE Boot --------------------------------
(***************************************************************************)
(* From an image on the host to a running kernel: the loader               *)
(* (quickload_kernel), the reset (machine_reset, then the devices, then    *)
(* the timer behind hold_lines), the stub PROM that builds page tables and *)
(* jumps where the loader said, the kernel's reboot through port 0x8004    *)
(* (place_kernel), and the traps the stub reports through the same port.   *)
(*                                                                         *)
(* The loader and the stub share nothing but three words of RAM and the    *)
(* image itself.  RAM is a handful of areas, each holding one thing.       *)
(***************************************************************************)
EXTENDS Naturals, FiniteSets

CONSTANTS Images,       \* the files the user may load
          TrapVectors,  \* the exceptions a standalone program may raise
          MaxRequests   \* how many loads, resets and reboots a run makes

(* An image is too short, a raw diskette, no COFF file, a kernel, or a       *)
(* kernel with a section that runs past the end of the file.                 *)
ImageKind == {"short", "diskette", "nocoff", "kernel", "truncated"}
ASSUME ImagesAssumption == Images \subseteq ImageKind /\ MaxRequests \in Nat

IsCoff(image) == image \in {"kernel", "truncated"}

(* The areas: physical 0, the kernel's place for page tables (0x8000), the   *)
(* program from 0x1b000, the standalone's place for them (0x80000), and what *)
(* the program uses while it runs.                                           *)
Area == {"zero", "t8000", "program", "t80000", "free"}
Content == {"clear", "kernel", "standalone", "part", "junk", "tables", "used"}
DisketteAreas == {"zero", "t8000", "program", "t80000"}

VARIABLES
  m_kernel,       \* the driver's copy of the image
  mem,            \* RAM
  entry, paging, tables,   \* the three slots at 0x3f4000
  resetting,      \* "no", "scheduled", "devices", "timer": the reset under way
  cpu,            \* "stub", "entered", "lost", "halted"
  cause,          \* what the reset under way, or the last one, was for
  placed,         \* the image the last load or reboot was to start
  carrier,        \* the keyboard line shows carrier
  opened,         \* the kernel has opened the keyboard line since it started
  requests        \* loads, resets and reboots so far

slots == <<entry, paging, tables>>
memory == <<mem, slots>>
vars == <<m_kernel, memory, resetting, cpu, cause, placed, carrier, opened, requests>>

TypeOK ==
  /\ m_kernel \in Images \cup {"none"}
  /\ mem \in [Area -> Content]
  /\ entry \in {"zero", "program", "used"}
  /\ tables \in {"zero", "t8000", "t80000", "used"}
  /\ paging \in BOOLEAN
  /\ resetting \in {"no", "scheduled", "devices", "timer"}
  /\ cpu \in {"stub", "entered", "lost", "halted"}
  /\ cause \in {"power", "load", "reboot", "user"}
  /\ placed \in {"none", "diskette", "kernel"}
  /\ carrier \in BOOLEAN /\ opened \in BOOLEAN
  /\ requests \in 0..MaxRequests

(* Power on: the RAM is clear and the machine is about to reset.             *)
Init ==
  /\ m_kernel = "none" /\ mem = [a \in Area |-> "clear"]
  /\ entry = "zero" /\ paging = FALSE /\ tables = "zero"
  /\ resetting = "scheduled" /\ cpu = "stub" /\ cause = "power" /\ placed = "none"
  /\ carrier = FALSE /\ opened = FALSE /\ requests = 0

Fill(areas, what) == [a \in Area |-> IF a \in areas THEN what ELSE mem[a]]
SetSlots(e, p, t) == entry' = e /\ paging' = p /\ tables' = t

(* A soft reset is scheduled; it happens before the processor goes on.       *)
ScheduleReset(why) == resetting' = "scheduled" /\ cause' = why

Request == requests < MaxRequests /\ requests' = requests + 1

-----------------------------------------------------------------------------
(* The loader *)

(* (Mutation: the slots of the kernel are left as the program before left    *)
(* them.)                                                                    *)
KernelSlots_Forgotten == UNCHANGED slots

(* (Mutation: the kernel's entry left a virtual address.)                    *)
KernelSlots_Virtual == SetSlots("virtual", FALSE, "t8000")

(* Where the loader says a kernel starts, and where its tables may live.     *)
KernelSlots == SetSlots("program", FALSE, "t8000")

(* Where it says a standalone program starts: paging on, at 0.               *)
DisketteSlots == SetSlots("zero", TRUE, "t80000")

(* quickload_kernel.  The copy is taken as soon as the file is read, before  *)
(* anything is checked; a section that runs past the file is found after the *)
(* sections before it are in memory.  The user loads the first file at power *)
(* on and others when what was started has run.                              *)
quickload_kernel(image) ==
  /\ resetting = "no" /\ Request /\ (placed = "none" \/ cpu # "stub")
  /\ m_kernel' = IF image = "short" THEN m_kernel ELSE image
  /\ CASE image \in {"short", "nocoff"} ->
            UNCHANGED <<memory, resetting, cause, placed>>
       [] image = "diskette" ->
            /\ mem' = Fill(DisketteAreas, "standalone")
            /\ DisketteSlots
            /\ ScheduleReset("load") /\ placed' = image
       [] image = "truncated" ->
            /\ mem' = Fill({"program"}, "part")
            /\ UNCHANGED <<slots, resetting, cause, placed>>
       [] image = "kernel" ->
            /\ mem' = Fill({"program"}, "kernel")
            /\ KernelSlots
            /\ ScheduleReset("load") /\ placed' = image
  /\ UNCHANGED <<cpu, carrier, opened>>

(* (Mutation: the memory is cleared after the sections are written.)         *)
place_kernel_ClearsLast ==
  IF IsCoff(m_kernel)
    THEN mem' = [a \in Area |-> "clear"] /\ SetSlots("zero", FALSE, "zero")
    ELSE UNCHANGED memory

(* place_kernel: all of RAM is cleared, the three slots with it, and the     *)
(* sections are written again, without a look at where they end (what lies   *)
(* past the copy is whatever the host has there).                            *)
place_kernel ==
  IF IsCoff(m_kernel)
    THEN /\ mem' = [a \in Area |-> IF a # "program" THEN "clear"
                                   ELSE IF m_kernel = "kernel" THEN "kernel" ELSE "junk"]
         /\ SetSlots("zero", FALSE, "zero")
    ELSE UNCHANGED memory

-----------------------------------------------------------------------------
(* The reset *)

(* machine_reset: the driver resets before its devices, shows carrier on the *)
(* keyboard line, and starts the timer of hold_lines.                        *)
machine_reset ==
  /\ resetting = "scheduled"
  /\ resetting' = "devices"
  /\ cpu' = "stub" /\ carrier' = TRUE /\ opened' = FALSE
  /\ UNCHANGED <<m_kernel, memory, cause, placed, requests>>

(* The serial chip resets itself and forgets the state of its pins.          *)
DevicesReset ==
  /\ resetting = "devices"
  /\ resetting' = "timer" /\ carrier' = FALSE
  /\ UNCHANGED <<m_kernel, memory, cpu, cause, placed, opened, requests>>

(* (Mutation: the timer leaves the pins alone.)                              *)
hold_lines_NoCarrier ==
  /\ resetting = "timer"
  /\ resetting' = "no" /\ UNCHANGED carrier
  /\ UNCHANGED <<m_kernel, memory, cpu, cause, placed, opened, requests>>

(* hold_lines, at once after the reset and before the processor runs.        *)
hold_lines ==
  /\ resetting = "timer"
  /\ resetting' = "no" /\ carrier' = TRUE
  /\ UNCHANGED <<m_kernel, memory, cpu, cause, placed, opened, requests>>

(* The user's own soft reset. *)
UserReset ==
  /\ resetting = "no" /\ Request /\ ScheduleReset("user")
  /\ UNCHANGED <<m_kernel, memory, cpu, placed, carrier, opened>>

-----------------------------------------------------------------------------
(* The stub and what it starts *)

(* The areas a program must find as they were loaded when it is entered.     *)
(* The loader copies the whole diskette, the place of the tables at 0x80000  *)
(* with it, and the stub then writes its tables over that part: a standalone *)
(* program is assumed to end below it, and what is lost there to be the rest *)
(* of the diskette, which the program reads from the drive.                  *)
ProgramAreas(image) ==
  IF image = "diskette" THEN DisketteAreas \ {"t80000"} ELSE {"program"}

Text(image) == IF image = "diskette" THEN "standalone" ELSE image
TextWhole(image, m) == \A a \in ProgramAreas(image) : m[a] = Text(image)

(* The stub writes the page tables where the slot says, and jumps where the  *)
(* other slot says: into the program that was to be started, or anywhere.    *)
stub_pm ==
  /\ resetting = "no" /\ cpu = "stub"
  /\ mem' = IF tables = "used" THEN mem ELSE Fill({tables}, "tables")
  /\ cpu' = IF placed # "none" /\ TextWhole(placed, mem')
                 /\ entry = (IF placed = "diskette" THEN "zero" ELSE "program")
              THEN "entered" ELSE "lost"
  /\ UNCHANGED <<m_kernel, slots, resetting, cause, placed, carrier, opened, requests>>

Running(image) == resetting = "no" /\ cpu = "entered" /\ placed = image

(* The program runs: it uses the memory it was not loaded into, the three    *)
(* slots included.                                                           *)
ProgramUsesMemory ==
  /\ \E image \in Images : Running(image)
  /\ mem' = Fill({"t8000", "t80000", "free"}, "used")
  /\ SetSlots("used", paging, "used")
  /\ UNCHANGED <<m_kernel, resetting, cpu, cause, placed, carrier, opened, requests>>

(* consconfig opens the keyboard line, and the open waits for carrier.       *)
KernelOpensKeyboard ==
  /\ Running("kernel") /\ ~opened /\ carrier
  /\ opened' = TRUE
  /\ UNCHANGED <<m_kernel, memory, resetting, cpu, cause, placed, carrier, requests>>

(* A write of 1 to port 0x8004, whoever makes it, is a reboot.               *)
out_8004(data) ==
  IF data = 1
    THEN place_kernel /\ ScheduleReset("reboot")
    ELSE UNCHANGED <<memory, resetting, cause>>

(* The kernel reboots through the romvec; the stub then halts.               *)
KernelReboots ==
  /\ Running("kernel") /\ Request
  /\ out_8004(1)
  /\ cpu' = "halted"
  /\ UNCHANGED <<m_kernel, placed, carrier, opened>>

(* A program the stub started with paging on runs on the stub's interrupt    *)
(* table: an exception reports its vector to port 0x8004 and halts.          *)
StubTrap(vector) ==
  /\ Running("diskette") /\ paging /\ Request
  /\ out_8004(vector)
  /\ cpu' = "halted"
  /\ UNCHANGED <<m_kernel, placed, carrier, opened>>

Halt ==
  /\ \E image \in Images : Running(image)
  /\ cpu' = "halted"
  /\ UNCHANGED <<m_kernel, memory, resetting, cause, placed, carrier, opened, requests>>

Reset == machine_reset \/ DevicesReset \/ hold_lines

Next ==
  \/ machine_reset \/ DevicesReset \/ hold_lines \/ UserReset
  \/ stub_pm \/ ProgramUsesMemory \/ KernelOpensKeyboard \/ KernelReboots \/ Halt
  \/ \E image \in Images : quickload_kernel(image)
  \/ \E v \in TrapVectors : StubTrap(v)

(* The emulator carries a scheduled reset out, and the processor runs.       *)
Spec == Init /\ [][Next]_vars /\ WF_vars(Reset) /\ WF_vars(stub_pm)
             /\ WF_vars(KernelOpensKeyboard)

-----------------------------------------------------------------------------
(* A load that succeeds starts what was loaded: the page tables the stub     *)
(* writes are clear of the program, and the program is whole, whatever ran   *)
(* or failed to load before (quickload_kernel, stub_pm.py).                  *)
LoadStartsProgram == cause = "load" /\ resetting = "no" => cpu # "lost"

(* A reboot puts back what ran, unless another file was read since: one that *)
(* is refused replaces the driver's copy all the same.  A standalone program *)
(* that reboots by an exception - its vector may be 1, and goes to the same  *)
(* port - is left in place (place_kernel, quickload_kernel, port 0x8004).    *)
RebootRestores ==
  cause = "reboot" /\ resetting # "no" /\ m_kernel = placed =>
    mem["program"] = Text(placed)

(* Once the kernel runs, its open of the keyboard line finds carrier (the    *)
(* comments before hold_lines and in machine_reset: without it the open      *)
(* sleeps and init never runs).                                              *)
KeyboardOpens == (cpu = "entered" /\ placed = "kernel") ~> (opened \/ ~Running("kernel"))

(* After a reboot the kernel runs again: it was put back where it was (the   *)
(* comment before OFF_REBOOT in gen_stub.py).                                *)
RebootStartsKernel == cause = "reboot" /\ resetting = "no" => cpu # "lost"

-----------------------------------------------------------------------------
(* The inductive invariant behind the safety properties *)

(* From the load to the stub's jump, what was loaded lies whole where the    *)
(* slots say, and the page tables will be clear of it.                       *)
ReadyToStart == cause = "load" /\ (resetting # "no" \/ cpu = "stub") =>
  /\ placed \in {"diskette", "kernel"} /\ TextWhole(placed, mem)
  /\ entry = (IF placed = "diskette" THEN "zero" ELSE "program")
  /\ tables = (IF placed = "diskette" THEN "t80000" ELSE "t8000")

(* A program that runs is the driver's copy and in memory as it was loaded,  *)
(* unless another file was read since.                                       *)
StillThere == cpu = "entered" /\ m_kernel = placed => mem["program"] = Text(placed)

(* All of it: what holds between any two steps of the loader, the reset, the *)
(* stub and the programs.                                                    *)
BootInv == /\ TypeOK
           /\ resetting \in {"devices", "timer"} => cpu = "stub"
           /\ ReadyToStart /\ StillThere
           /\ LoadStartsProgram /\ RebootRestores
=============================================================================
