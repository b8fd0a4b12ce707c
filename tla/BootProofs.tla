----------------------------- MODULE BootProofs -----------------------------
(***************************************************************************)
(* Loading, resetting and rebooting, for any set of files, any exceptions  *)
(* and any number of requests: BootInv is inductive, so that what was loaded  *)
(* is what is entered, a reboot finds clean memory, and it puts back what  *)
(* ran.  One lemma per group of actions.                                   *)
(***************************************************************************)
EXTENDS Boot, StubImage, SequenceTheorems, TLAPS

(* A file of any kind is loaded, or refused (quickload_kernel). *)
LEMMA LoadKeeps == ASSUME BootInv, NEW image \in Images, quickload_kernel(image) PROVE BootInv'
<1> USE ImagesAssumption DEF BootInv, quickload_kernel, Request, memory, slots, ScheduleReset
<1>0. image \in ImageKind /\ m_kernel' \in Images \cup {"none"}
      /\ requests' \in 0..MaxRequests /\ resetting = "no"
  BY DEF TypeOK
<1>1. CASE image \in {"short", "nocoff"}
  <2>1. UNCHANGED <<memory, resetting, cause, placed, cpu, carrier, opened>>
    BY <1>1
  <2>2. m_kernel' = m_kernel \/ m_kernel' = "nocoff"
    BY <1>1
  <2>3. placed # "nocoff"
    BY DEF TypeOK
  <2>4. TypeOK'
    BY <1>0, <2>1 DEF TypeOK
  <2> QED BY <1>0, <2>1, <2>2, <2>3, <2>4 DEF ReadyToStart, StillThere, LoadStartsProgram,
             RebootRestores, TextWhole
<1>2. CASE image = "diskette"
  <2>1. mem' \in [Area -> Content] /\ \A a \in DisketteAreas : mem'[a] = "standalone"
    BY <1>2 DEF Fill, TypeOK, Content, Area, DisketteAreas
  <2> QED BY <1>0, <1>2, <2>1 DEF DisketteSlots, SetSlots, TypeOK, ReadyToStart, StillThere,
       LoadStartsProgram, RebootRestores, TextWhole, ProgramAreas, Text,
       DisketteAreas
<1>3. CASE image = "kernel"
  <2>1. mem' \in [Area -> Content] /\ mem'["program"] = "kernel"
    BY <1>3 DEF Fill, TypeOK, Content, Area
  <2> QED BY <1>0, <1>3, <2>1 DEF KernelSlots, SetSlots, TypeOK, ReadyToStart, StillThere,
       LoadStartsProgram, RebootRestores, TextWhole, ProgramAreas, Text
<1>4. CASE image = "truncated"
  <2>1. mem' \in [Area -> Content]
    BY <1>4 DEF Fill, TypeOK, Content, Area
  <2>2. ~(cause = "load" /\ cpu = "stub")
    BY <1>0 DEF ReadyToStart
  <2>3. m_kernel' = "truncated" /\ UNCHANGED <<resetting, cause, placed, cpu, slots>>
    BY <1>4
  <2>4. placed # "truncated"
    BY DEF TypeOK
  <2> QED BY <1>0, <1>4, <2>1, <2>2, <2>3, <2>4 DEF TypeOK, ReadyToStart, StillThere,
       LoadStartsProgram, RebootRestores
<1> QED BY <1>0, <1>1, <1>2, <1>3, <1>4 DEF ImageKind

(* The reset: the driver, then its devices, then the timer of hold_lines. *)
LEMMA ResetKeeps == ASSUME BootInv, Reset \/ UserReset PROVE BootInv'
<1> USE DEF BootInv, Reset, machine_reset, DevicesReset, hold_lines, UserReset, Request,
            ScheduleReset, memory, slots
<1>1. TypeOK'
  <2>1. carrier' \in BOOLEAN /\ opened' \in BOOLEAN
    BY Zenon DEF TypeOK
  <2>2. UNCHANGED <<m_kernel, memory, placed>> /\ requests' \in 0..MaxRequests
    BY ImagesAssumption DEF TypeOK
  <2>3. /\ resetting' \in {"no", "scheduled", "devices", "timer"}
        /\ cause' \in {"power", "load", "reboot", "user"}
        /\ cpu' \in {"stub", "entered", "lost", "halted"}
    BY DEF TypeOK
  <2> QED BY <2>1, <2>2, <2>3 DEF TypeOK
<1>2. ReadyToStart' /\ StillThere'
  BY DEF ReadyToStart, StillThere, TextWhole
<1>3. LoadStartsProgram' /\ RebootRestores'
  BY DEF LoadStartsProgram, RebootRestores
<1> QED BY <1>1, <1>2, <1>3

(* The stub's page tables are clear of the program it was told to start. *)
LEMMA StubKeeps == ASSUME BootInv, stub_pm PROVE BootInv'
<1> USE DEF BootInv, stub_pm, slots
<1>1. mem' \in [Area -> Content]
  BY DEF Fill, TypeOK, Content, Area
<1>2. cpu' \in {"entered", "lost"} /\ UNCHANGED <<resetting, cause, placed, m_kernel>>
  OBVIOUS
<1>3. cpu' = "entered" => TextWhole(placed, mem')
  OBVIOUS
<1>4. TypeOK'
  BY <1>1, <1>2 DEF TypeOK
<1>5. StillThere'
  BY <1>2, <1>3 DEF StillThere, TextWhole, ProgramAreas, DisketteAreas
<1>6. CASE cause = "load"
  <2>1. /\ placed \in {"diskette", "kernel"} /\ TextWhole(placed, mem)
        /\ entry = (IF placed = "diskette" THEN "zero" ELSE "program")
        /\ tables = (IF placed = "diskette" THEN "t80000" ELSE "t8000")
    BY <1>6 DEF ReadyToStart
  <2>2. \A a \in Area : a # tables => mem'[a] = mem[a]
    BY DEF Fill
  <2>3. TextWhole(placed, mem')
    BY <2>1, <2>2 DEF TextWhole, ProgramAreas, DisketteAreas, Area
  <2>4. cpu' = "entered"
    BY <2>1, <2>3
  <2> QED BY <1>2, <1>4, <1>5, <1>6, <2>4
          DEF ReadyToStart, LoadStartsProgram, RebootRestores
<1>7. CASE cause # "load"
  <2>1. ReadyToStart'
    BY <1>2 DEF ReadyToStart
  <2>2. LoadStartsProgram'
    BY <1>2, <1>7 DEF LoadStartsProgram
  <2>3. RebootRestores'
    BY <1>2 DEF RebootRestores
  <2> QED BY <1>4, <1>5, <2>1, <2>2, <2>3
<1> QED BY <1>6, <1>7

(* The program uses the memory it was not loaded into, opens the keyboard,   *)
(* or halts.                                                                 *)
LEMMA ProgramKeeps ==
  ASSUME BootInv, ProgramUsesMemory \/ KernelOpensKeyboard \/ Halt PROVE BootInv'
<1> USE DEF BootInv, ProgramUsesMemory, KernelOpensKeyboard, Halt, Running, memory, slots
<1>1. /\ resetting = "no" /\ cpu = "entered" /\ cpu' \in {"entered", "halted"}
      /\ UNCHANGED <<resetting, cause, placed, m_kernel, requests>>
  OBVIOUS
<1>2. mem' \in [Area -> Content] /\ mem'["program"] = mem["program"]
  BY DEF Fill, TypeOK, Content, Area
<1>3. TypeOK'
  <2>1. carrier' \in BOOLEAN /\ opened' \in BOOLEAN /\ paging' \in BOOLEAN
    BY Zenon DEF TypeOK, SetSlots
  <2>2. entry' \in {"zero", "program", "used"} /\ tables' \in {"zero", "t8000", "t80000", "used"}
    BY DEF TypeOK, SetSlots
  <2> QED BY <1>1, <1>2, <2>1, <2>2 DEF TypeOK
<1>4. StillThere'
  BY <1>1, <1>2 DEF StillThere
<1> QED BY <1>1, <1>3, <1>4
        DEF ReadyToStart, LoadStartsProgram, RebootRestores

(* A reboot clears the memory and puts the copy back (place_kernel); another *)
(* exception than 1 only reports and halts.                                  *)
LEMMA RebootKeeps ==
  ASSUME BootInv, KernelReboots \/ \E v \in TrapVectors : StubTrap(v) PROVE BootInv'
<1> USE DEF BootInv, Request, ScheduleReset, memory, slots
<1>1. /\ resetting = "no" /\ cpu = "entered" /\ cpu' = "halted"
      /\ UNCHANGED <<m_kernel, placed, carrier, opened>>
      /\ requests' \in 0..MaxRequests
  BY ImagesAssumption DEF KernelReboots, StubTrap, Running, TypeOK
<1>2. PICK data : out_8004(data)
  BY DEF KernelReboots, StubTrap
<1>3. CASE data # 1
  <2>1. UNCHANGED <<memory, resetting, cause>>
    BY <1>2, <1>3 DEF out_8004
  <2> QED BY <1>1, <2>1 DEF TypeOK, ReadyToStart, StillThere, LoadStartsProgram,
                            RebootRestores
<1>4. CASE data = 1
  <2>1. place_kernel /\ resetting' = "scheduled" /\ cause' = "reboot"
    BY <1>2, <1>4 DEF out_8004
  <2>2. CASE IsCoff(m_kernel)
    <3>1. /\ mem' \in [Area -> Content]
          /\ \A a \in Area \ {"program"} : mem'[a] = "clear"
          /\ m_kernel = "kernel" => mem'["program"] = "kernel"
          /\ entry' = "zero" /\ paging' = FALSE /\ tables' = "zero"
      BY <2>1, <2>2 DEF place_kernel, Area, Content, SetSlots
    <3>2. m_kernel = placed => m_kernel = "kernel"
      BY <2>2 DEF IsCoff, TypeOK
    <3> QED BY <1>1, <2>1, <3>1, <3>2 DEF TypeOK, ReadyToStart, StillThere, LoadStartsProgram,
                                       RebootRestores, Text
  <2>3. CASE ~IsCoff(m_kernel)
    <3>1. UNCHANGED memory
      BY <2>1, <2>3 DEF place_kernel
    <3> QED BY <1>1, <2>1, <2>3, <3>1 DEF TypeOK, ReadyToStart, StillThere, LoadStartsProgram,
               RebootRestores, IsCoff
  <2> QED BY <2>2, <2>3
<1> QED BY <1>3, <1>4

-----------------------------------------------------------------------------
(* BootInv holds in every state of every run. *)
THEOREM Invariance == Spec => []BootInv
<1>1. Init => BootInv
  <2> SUFFICES ASSUME Init PROVE BootInv
    OBVIOUS
  <2>1. mem \in [Area -> Content] /\ requests \in 0..MaxRequests
    BY ImagesAssumption DEF Init, Content
  <2> QED BY <2>1 DEF Init, BootInv, TypeOK, ReadyToStart, StillThere, LoadStartsProgram,
                      RebootRestores
<1>2. BootInv /\ [Next]_vars => BootInv'
  <2> SUFFICES ASSUME BootInv, [Next]_vars PROVE BootInv'
    OBVIOUS
  <2>1. ASSUME NEW image \in Images, quickload_kernel(image) PROVE BootInv'
    BY <2>1, LoadKeeps
  <2>2. CASE machine_reset \/ DevicesReset \/ hold_lines \/ UserReset
    BY <2>2, ResetKeeps DEF Reset
  <2>3. CASE stub_pm
    BY <2>3, StubKeeps
  <2>4. CASE ProgramUsesMemory \/ KernelOpensKeyboard \/ Halt
    BY <2>4, ProgramKeeps
  <2>5. CASE KernelReboots \/ \E v \in TrapVectors : StubTrap(v)
    BY <2>5, RebootKeeps
  <2>6. CASE UNCHANGED vars
    BY <2>6 DEF vars, memory, slots, BootInv, TypeOK, ReadyToStart, StillThere, TextWhole,
                LoadStartsProgram, RebootRestores
  <2> QED BY <2>1, <2>2, <2>3, <2>4, <2>5, <2>6 DEF Next
<1> QED BY <1>1, <1>2, PTL DEF Spec

(* A load that succeeds starts what was loaded: the stub never jumps into    *)
(* page tables, a part of a file or the program before (quickload_kernel).   *)
THEOREM LoadsStart == Spec => []LoadStartsProgram
<1>1. BootInv => LoadStartsProgram
  BY DEF BootInv
<1> QED BY <1>1, Invariance, PTL

(* A reboot puts back what ran, unless another file was read since           *)
(* (place_kernel, quickload_kernel).                                         *)
THEOREM RebootPutsBack == Spec => []RebootRestores
<1>1. BootInv => RebootRestores
  BY DEF BootInv
<1> QED BY <1>1, Invariance, PTL
-----------------------------------------------------------------------------
(* The PROM the machine starts from is the PROM that was built, whatever   *)
(* its size, its contents and the gap that ends a run (StubImage).         *)
USE ImageAssumption


(* A run that is cut from the image holds what the image holds there.        *)
LEMMA RunIsOfImage ==
  ASSUME ImageTypeOK, i < Size, i <= j
  PROVE  /\ RunOf(i, j) \in Run
         /\ \A b \in 0..RunOf(i, j).size-1 :
              i + b < Size /\ RunOf(i, j).data[b] = rom[i + b]
<1> DEFINE d == [n \in 0..(j-i)-1 |-> rom[i + n]]
<1>1. i \in Nat /\ j \in Nat /\ j <= Size /\ j - i \in 0..Size
  BY DEF ImageTypeOK
<1>2. \A n \in 0..(j-i)-1 : i + n \in Address
  BY <1>1 DEF Address
<1>3. \A n \in 0..(j-i)-1 : rom[i + n] \in Byte
  BY <1>2 DEF ImageTypeOK
<1>4. d \in [0..(j-i)-1 -> Byte]
  BY <1>3
<1>5. d \in Data
  BY <1>1, <1>4 DEF Data
<1>6. RunOf(i, j) = [offset |-> i, size |-> j - i, data |-> d]
  BY <1>1 DEF RunOf
<1>7. RunOf(i, j) \in Run
  BY <1>1, <1>5, <1>6 DEF Run, Address
<1>8. ASSUME NEW b \in 0..(j-i)-1
      PROVE  i + b < Size /\ d[b] = rom[i + b]
  BY <1>1
<1> QED
  BY <1>6, <1>7, <1>8

(* The search begins with an empty list of runs.                             *)
LEMMA ImageInitHolds == ImageInit => ImageInvariant
<1> SUFFICES ASSUME ImageInit PROVE ImageInvariant
  OBVIOUS
<1>1. ImageTypeOK
  BY DEF ImageInit, ImageTypeOK, Address
<1>2. RunsHoldImage
  BY DEF ImageInit, RunsHoldImage
<1>3. CopyHoldsImage
  BY DEF ImageInit, CopyHoldsImage, Address
<1>4. PhaseInStep
  BY DEF ImageInit, PhaseInStep
<1> QED
  BY <1>1, <1>2, <1>3, <1>4 DEF ImageInvariant

(* Every step of the encoder and of machine_start keeps the invariant.       *)
LEMMA ImageNextKeeps == ImageInvariant /\ [ImageNext]_encoder => ImageInvariant'
<1> SUFFICES ASSUME ImageInvariant, [ImageNext]_encoder PROVE ImageInvariant'
  OBVIOUS
<1>0. ImageTypeOK /\ RunsHoldImage /\ CopyHoldsImage /\ PhaseInStep
  BY DEF ImageInvariant
<1> USE <1>0
<1>1. CASE Seek
  <2>1. ImageTypeOK'
    BY <1>1 DEF Seek, ImageTypeOK
  <2>2. RunsHoldImage'
    <3>1. \A a \in 0..i'-1 : a \in 0..i-1 \/ a = i
      BY <1>1 DEF Seek, ImageTypeOK
    <3> QED
      BY <1>1, <3>1 DEF Seek, RunsHoldImage, Within
  <2>3. CopyHoldsImage'
    BY <1>1 DEF Seek, CopyHoldsImage, Within
  <2>4. PhaseInStep'
    BY <1>1 DEF Seek, PhaseInStep, ImageTypeOK
  <2> QED
    BY <2>1, <2>2, <2>3, <2>4 DEF ImageInvariant
<1>2. CASE StartRun
  <2>1. ImageTypeOK'
    BY <1>2 DEF StartRun, ImageTypeOK
  <2>2. RunsHoldImage' /\ CopyHoldsImage'
    BY <1>2 DEF StartRun, RunsHoldImage, CopyHoldsImage, Within
  <2>3. PhaseInStep'
    BY <1>2 DEF StartRun, PhaseInStep, ImageTypeOK
  <2> QED
    BY <2>1, <2>2, <2>3 DEF ImageInvariant
<1>3. CASE ExtendRun
  <2>1. ImageTypeOK'
    BY <1>3 DEF ExtendRun, ImageTypeOK
  <2>2. RunsHoldImage' /\ CopyHoldsImage'
    BY <1>3 DEF ExtendRun, RunsHoldImage, CopyHoldsImage, Within
  <2>3. PhaseInStep'
    BY <1>3 DEF ExtendRun, PhaseInStep, ImageTypeOK
  <2> QED
    BY <2>1, <2>2, <2>3 DEF ImageInvariant
<1>4. CASE EndRun
  <2> DEFINE r == RunOf(i, j)
  <2>0. i < Size /\ i <= j /\ k = 1 /\ phase = "run"
    BY <1>4 DEF EndRun, PhaseInStep
  <2>1. r \in Run /\ (\A b \in 0..r.size-1 : i + b < Size /\ r.data[b] = rom[i + b])
    BY <2>0, RunIsOfImage
  <2>2. r.offset = i /\ r.size = j - i
    BY DEF RunOf
  <2> HIDE DEF r
  <2>3. runs \in Seq(Run) /\ runs' = Append(runs, r)
    BY <1>4 DEF EndRun, ImageTypeOK, r
  <2>4. /\ runs' \in Seq(Run) /\ Len(runs') = Len(runs) + 1 /\ Len(runs) \in Nat
        /\ \A n \in 1..Len(runs) : runs'[n] = runs[n]
        /\ runs'[Len(runs) + 1] = r
    BY <2>1, <2>3
  <2>5. ImageTypeOK'
    BY <1>4, <2>0, <2>4 DEF EndRun, NextSeek, ImageTypeOK
  <2>6. RunsHoldImage'
    <3>1. ASSUME NEW n \in 1..Len(runs'), NEW b \in 0..runs'[n].size-1
          PROVE  runs'[n].offset + b < Size /\ runs'[n].data[b] = rom'[runs'[n].offset + b]
      <4>1. rom' = rom
        BY <1>4 DEF EndRun
      <4>2. CASE n = Len(runs) + 1
        BY <2>1, <2>2, <2>4, <4>1, <4>2
      <4>3. CASE n \in 1..Len(runs)
        BY <2>4, <4>1, <4>3 DEF RunsHoldImage
      <4> QED
        BY <2>4, <4>2, <4>3
    <3>2. ASSUME NEW a \in 0..i'-1, rom'[a] # FF
          PROVE  \E n \in 1..Len(runs') : Within(a, runs'[n])
      <4>1. rom' = rom /\ i' = j
        BY <1>4 DEF EndRun, NextSeek
      <4>2. CASE a < i
        <5>1. PICK n \in 1..Len(runs) : Within(a, runs[n])
          BY <3>2, <4>1, <4>2 DEF RunsHoldImage, ImageTypeOK
        <5>2. n \in 1..Len(runs') /\ Within(a, runs'[n])
          BY <2>4, <5>1
        <5> QED
          BY <5>2
      <4>3. CASE i <= a
        <5>1. Within(a, r)
          BY <2>2, <4>1, <4>3 DEF Within, ImageTypeOK
        <5> QED
          BY <2>4, <5>1
      <4> QED
        BY <4>1, <4>2, <4>3 DEF ImageTypeOK
    <3> QED
      BY <3>1, <3>2 DEF RunsHoldImage
  <2>7. CopyHoldsImage'
    <3>1. 1..k'-1 = {}
      BY <1>4, <2>0 DEF EndRun
    <3> QED
      BY <1>4, <3>1 DEF EndRun, CopyHoldsImage
  <2>8. PhaseInStep'
    BY <1>4, <2>0 DEF EndRun, PhaseInStep
  <2> QED
    BY <2>5, <2>6, <2>7, <2>8 DEF ImageInvariant
<1>5. CASE StartMachine
  <2>1. ImageTypeOK'
    BY <1>5 DEF StartMachine, ImageTypeOK
  <2>2. RunsHoldImage'
    BY <1>5 DEF StartMachine, RunsHoldImage, Within
  <2>3. CopyHoldsImage'
    BY <1>5 DEF StartMachine, CopyHoldsImage
  <2>4. PhaseInStep'
    BY <1>5 DEF StartMachine, PhaseInStep, ImageTypeOK
  <2> QED
    BY <2>1, <2>2, <2>3, <2>4 DEF ImageInvariant
<1>6. CASE CopyRun
  <2> DEFINE r == runs[k]
  <2>0. k \in 1..Len(runs) /\ k' = k + 1 /\ rom' = rom /\ runs' = runs /\ i' = i /\ j' = j
        /\ phase = "load" /\ phase' = "load"
    BY <1>6 DEF CopyRun, ImageTypeOK
  <2>1. r \in Run
    BY <2>0 DEF ImageTypeOK
  <2>2. ASSUME NEW a \in Address, Within(a, r)
        PROVE  r.data[a - r.offset] = rom[a]
    <3>1. r.offset \in Nat /\ r.size \in Nat /\ a \in Nat
      BY <2>1 DEF Run, Address
    <3>2. a - r.offset \in 0..r.size-1 /\ r.offset + (a - r.offset) = a
      BY <2>2, <3>1 DEF Within
    <3> QED
      BY <2>0, <3>2 DEF RunsHoldImage
  <2>3. \A a \in Address : prom'[a] = IF Within(a, r) THEN rom[a] ELSE prom[a]
    BY <1>6, <2>2 DEF CopyRun
  <2>4. ImageTypeOK'
    <3>1. prom' = [a \in Address |-> IF Within(a, r) THEN rom[a] ELSE prom[a]]
      BY <1>6, <2>2 DEF CopyRun
    <3>2. prom' \in [Address -> Byte]
      BY <3>1 DEF ImageTypeOK
    <3> QED
      BY <2>0, <3>2 DEF ImageTypeOK
  <2>5. RunsHoldImage'
    BY <2>0 DEF RunsHoldImage, Within
  <2>6. CopyHoldsImage'
    <3>1. \A a \in Address : prom'[a] \in {FF, rom'[a]}
      BY <2>0, <2>3 DEF CopyHoldsImage
    <3>2. ASSUME NEW n \in 1..k'-1, NEW a \in Address, Within(a, runs'[n])
          PROVE  prom'[a] = rom'[a]
      <4>1. n \in 1..k-1 \/ n = k
        BY <2>0
      <4> QED
        BY <2>0, <2>3, <3>2, <4>1 DEF CopyHoldsImage
    <3> QED
      BY <3>1, <3>2 DEF CopyHoldsImage
  <2>7. PhaseInStep'
    BY <2>0 DEF PhaseInStep
  <2> QED
    BY <2>4, <2>5, <2>6, <2>7 DEF ImageInvariant
<1>7. CASE Loaded
  <2>1. ImageTypeOK'
    BY <1>7 DEF Loaded, ImageTypeOK
  <2>2. RunsHoldImage' /\ CopyHoldsImage'
    BY <1>7 DEF Loaded, RunsHoldImage, CopyHoldsImage, Within
  <2>3. PhaseInStep'
    BY <1>7 DEF Loaded, PhaseInStep, ImageTypeOK
  <2> QED
    BY <2>1, <2>2, <2>3 DEF ImageInvariant
<1>8. CASE UNCHANGED encoder
  BY <1>8 DEF encoder, ImageInvariant, ImageTypeOK, RunsHoldImage, CopyHoldsImage, PhaseInStep, Within
<1> QED
  BY <1>1, <1>2, <1>3, <1>4, <1>5, <1>6, <1>7, <1>8 DEF ImageNext

(* Once all runs are copied nothing of the image can be missing: a byte in   *)
(* no run is erased, and was erased in the machine to begin with.            *)
LEMMA ImageInvariantSuffices == ImageInvariant => LoadedAsBuilt
<1> SUFFICES ASSUME ImageInvariant, phase = "done" PROVE prom = rom
  BY DEF LoadedAsBuilt
<1>1. ImageTypeOK /\ RunsHoldImage /\ CopyHoldsImage /\ i = Size /\ k = Len(runs) + 1
  BY DEF ImageInvariant, PhaseInStep
<1>2. ASSUME NEW a \in Address PROVE prom[a] = rom[a]
  <2>1. CASE rom[a] = FF
    BY <1>1, <2>1 DEF CopyHoldsImage
  <2>2. CASE rom[a] # FF
    <3>1. a \in 0..i-1
      BY <1>1 DEF Address
    <3>2. PICK n \in 1..Len(runs) : Within(a, runs[n])
      BY <1>1, <2>2, <3>1 DEF RunsHoldImage
    <3>3. n \in 1..k-1
      BY <1>1, <3>2 DEF ImageTypeOK
    <3> QED
      BY <1>1, <3>2, <3>3 DEF CopyHoldsImage
  <2> QED
    BY <2>1, <2>2
<1> QED
  BY <1>1, <1>2 DEF ImageTypeOK

(* The invariant holds in every reachable state. *)
THEOREM ImageInvariance == ImageSpec => []ImageInvariant
<1>1. QED
  BY ImageInitHolds, ImageNextKeeps, PTL DEF ImageSpec

(* The PROM of the machine is the PROM that gen_stub.py built, for every     *)
(* image, size and gap.                                                      *)
THEOREM RoundTrip == ImageSpec => []LoadedAsBuilt
<1>1. QED
  BY ImageInvariance, ImageInvariantSuffices, PTL
=============================================================================
