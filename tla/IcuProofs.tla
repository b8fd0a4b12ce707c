----------------------------- MODULE IcuProofs -----------------------------
(***************************************************************************)
(* The interrupt banks are programmed as written, the processor's line is  *)
(* never up for no bank, and the vectors taken are programmed ones: for    *)
(* any devices, either trigger mode, any interleaving of the three         *)
(* sequences and resets of the machine at any point of them.               *)
(***************************************************************************)
EXTENDS Icu, TLAPS

(* The shape of the variables the sequence is about. *)
Shape == /\ icw_state \in [Bank -> 0..2] /\ vecreg \in [Bank -> Nat]
         /\ stage \in [Bank -> {"ready", "icw2", "icw4"}] /\ base \in [Bank -> Nat]
         /\ mode86 \in [Bank -> BOOLEAN] /\ imr \in [Bank -> Nat]
         /\ doing \in [Bank -> Doing] /\ kmask \in [Bank -> KernelMask]

SeqInv == Shape /\ \A b \in Bank : InSequence(b)

(* A byte of the sequence, or a mask, passes through icu_w. *)
LEMMA SequenceSteps ==
  ASSUME SeqInv, NEW c \in Bank,
         \/ SetVector(c) \/ Icw1(c) \/ Icw2(c) \/ Icw4(c)
         \/ \E m \in KernelMask : SetMask(c, m)
  PROVE  SeqInv'
<1> USE DEF SeqInv, KernelMask
<1>1. CASE SetVector(c)
  BY <1>1 DEF SetVector, bank, Shape, InSequence, Bank, KernelVector, Doing
<1>2. CASE Icw1(c)
  BY <1>2 DEF Icw1, icu_w0_Icw1, PicIcw1, Shape, InSequence, Bank, Doing
<1>3. CASE Icw2(c)
  <2>1. /\ icw_state' = [icw_state EXCEPT ![c] = 2]
        /\ base' = [base EXCEPT ![c] = vecreg[c] - (vecreg[c] % 8)]
        /\ stage' = [stage EXCEPT ![c] = "icw4"]
        /\ doing' = [doing EXCEPT ![c] = "icw4"]
        /\ UNCHANGED <<vecreg, mode86, imr, kmask>>
    BY <1>3 DEF Icw2, icu_w1, PicWrite1, InSequence
  <2>2. vecreg[c] - (vecreg[c] % 8) = vecreg[c] /\ vecreg[c] \in Nat
    BY <1>3 DEF Icw2, InSequence, KernelVector, Bank, Shape
  <2>3. base' = [base EXCEPT ![c] = vecreg[c]]
    BY <2>1, <2>2
  <2>4. Shape'
    <3>1. icw_state' \in [Bank -> 0..2]
      BY <2>1 DEF Shape
    <3>2. stage' \in [Bank -> {"ready", "icw2", "icw4"}]
      BY <2>1 DEF Shape
    <3>3. base' \in [Bank -> Nat]
      BY <2>2, <2>3 DEF Shape
    <3>4. doing' \in [Bank -> Doing]
      BY <2>1 DEF Shape, Doing
    <3> QED BY <2>1, <3>1, <3>2, <3>3, <3>4, Zenon DEF Shape
  <2>5. \A b \in Bank : InSequence(b)'
    BY <1>3, <2>1, <2>3 DEF Shape, InSequence, Icw2
  <2> QED BY <2>4, <2>5
<1>4. CASE Icw4(c)
  <2>1. /\ icw_state' = [icw_state EXCEPT ![c] = 0]
        /\ mode86' = [mode86 EXCEPT ![c] = (0 + 1 - (0 % 2)) % 2 = 1]
        /\ stage' = [stage EXCEPT ![c] = "ready"]
        /\ doing' = [doing EXCEPT ![c] = "mask"]
        /\ UNCHANGED <<vecreg, base, imr, kmask>>
    BY <1>4 DEF Icw4, icu_w1, PicWrite1, InSequence
  <2>2. mode86' = [mode86 EXCEPT ![c] = TRUE]
    <3>1. ((0 + 1 - (0 % 2)) % 2 = 1) = TRUE
      OBVIOUS
    <3> QED BY <2>1, <3>1, Zenon
  <2>3. Shape'
    BY <2>1, <2>2 DEF Shape, Doing
  <2>4. \A b \in Bank : InSequence(b)'
    BY <1>4, <2>1, <2>2 DEF Shape, InSequence, Icw4
  <2> QED BY <2>3, <2>4
<1>5. ASSUME NEW m \in KernelMask, SetMask(c, m) PROVE SeqInv'
  <2>1. /\ imr' = [imr EXCEPT ![c] = m]
        /\ doing' = [doing EXCEPT ![c] = "on"]
        /\ kmask' = [kmask EXCEPT ![c] = m]
        /\ UNCHANGED <<icw_state, vecreg, stage, base, mode86>>
    BY <1>5 DEF SetMask, icu_w1, PicWrite1, InSequence
  <2> QED BY <1>5, <2>1 DEF Shape, InSequence, Doing, SetMask
<1> QED BY <1>1, <1>2, <1>3, <1>4, <1>5

LEMMA SequenceInvariance == Spec => []SeqInv
<1>1. Init => SeqInv
  BY DEF Init, SeqInv, Shape, InSequence, Bank, Doing, KernelMask
<1>2. SeqInv /\ [Next]_vars => SeqInv'
  <2> SUFFICES ASSUME SeqInv, [Next]_vars PROVE SeqInv'
    OBVIOUS
  <2>1. CASE CpuAck
    BY <2>1 DEF CpuAck, driver, SeqInv, Shape, InSequence
  <2>2. CASE MachineReset
    BY <2>2 DEF MachineReset, SeqInv, Shape, InSequence, Doing, KernelMask
  <2>3. ASSUME NEW b \in Bank, Eoi(b) \/ PicOut(b) PROVE SeqInv'
    BY <2>3 DEF Eoi, PicOut, driver, bank, kernel, SeqInv, Shape, InSequence
  <2>4. ASSUME NEW d \in Devices, DeviceAsserts(d) \/ DeviceServed(d) PROVE SeqInv'
    BY <2>4 DEF DeviceAsserts, DeviceServed, driver, kernel, SeqInv, Shape, InSequence
  <2>5. CASE UNCHANGED vars
    BY <2>5 DEF vars, driver, bank, kernel, SeqInv, Shape, InSequence
  <2> QED BY <2>1, <2>2, <2>3, <2>4, <2>5, SequenceSteps DEF Next
<1> QED BY <1>1, <1>2, PTL DEF Spec

(* Every bank the kernel has programmed is what the kernel made it (icu_w):  *)
(* the driver's count of the sequence and the bank's own never part, and a   *)
(* reset in the middle of a sequence does no harm, because the driver starts *)
(* its count afresh at every ICW1.                                           *)
THEOREM BanksAreProgrammed == Spec => []ProgrammedAsWritten
<1>1. SeqInv => ProgrammedAsWritten
  BY DEF SeqInv, InSequence, ProgrammedAsWritten
<1> QED BY <1>1, SequenceInvariance, PTL

-----------------------------------------------------------------------------
(* The wires: the request pins, what the banks have latched of them, the     *)
(* banks whose output is up, and the processor's line, which a reset lowers  *)
(* without them.                                                             *)
WireInv == /\ pin \in [Bank -> SUBSET Request] /\ irr \in [Bank -> SUBSET Request]
           /\ icu_int \subseteq Bank
           /\ irq0 => icu_int # {}

LEMMA Wires ==
  ASSUME NEW d \in Devices
  PROVE  BankOf(d) \in Bank /\ RequestOf(d) \in Request /\ RequestOf(d) \in {0, 1, 6}
BY DevicesAssumption DEF Wiring, BankOf, RequestOf, Request, Bank

(* The lowest of some banks, or of some requests, is one of them.            *)
LEMMA LowestIsMember ==
  ASSUME NEW S, S # {}, S \subseteq Bank \/ S \subseteq {0, 1, 6}
  PROVE  Min(S) \in S
<1>1. \E x \in S : \A y \in S : x <= y
  <2>1. CASE 0 \in S
    BY <2>1 DEF Bank
  <2>2. CASE 0 \notin S /\ 1 \in S
    BY <2>2 DEF Bank
  <2>3. CASE 0 \notin S /\ 1 \notin S
    BY <2>3 DEF Bank
  <2> QED BY <2>1, <2>2, <2>3
<1> QED BY <1>1 DEF Min

(* A device raises or lowers its request. *)
LEMMA DeviceSteps ==
  ASSUME WireInv, NEW d \in Devices, DeviceAsserts(d) \/ DeviceServed(d)
  PROVE  WireInv'
<1> DEFINE c == BankOf(d)
           q == RequestOf(d)
<1>0. c \in Bank /\ q \in Request
  BY Wires
<1>1. CASE DeviceAsserts(d)
  <2>1. /\ pin' = [pin EXCEPT ![c] = @ \cup {q}]
        /\ irr' = [irr EXCEPT ![c] = IF LevelTriggered \/ q \notin pin[c] THEN @ \cup {q} ELSE @]
        /\ icu_int' = icu_int /\ irq0' = irq0
    BY <1>1 DEF DeviceAsserts, IntWrite, SetPin, driver
  <2> QED BY <1>0, <2>1 DEF WireInv
<1>2. CASE DeviceServed(d)
  <2>1. /\ pin' = [pin EXCEPT ![c] = @ \ {q}]
        /\ irr' = [irr EXCEPT ![c] = @ \ {q}]
        /\ icu_int' = icu_int /\ irq0' = irq0
    BY <1>2 DEF DeviceServed, IntWrite, SetPin, driver
  <2> QED BY <1>0, <2>1 DEF WireInv
<1> QED BY <1>1, <1>2

LEMMA WireInvariance == Spec => []WireInv
<1>1. Init => WireInv
  BY DEF Init, WireInv
<1>2. WireInv /\ [Next]_vars => WireInv'
  <2> SUFFICES ASSUME WireInv, [Next]_vars PROVE WireInv'
    OBVIOUS
  <2>1. CASE CpuAck
    <3>1. irr' \in [Bank -> SUBSET Request]
      <4>1. AckBank \in Bank
        BY <2>1, LowestIsMember DEF CpuAck, AckBank, WireInv
      <4>2. PICK r : irr' = [irr EXCEPT ![AckBank] = IF LevelTriggered THEN @ ELSE @ \ {r}]
        BY <2>1 DEF CpuAck, Acknowledges, WireInv
      <4> QED BY <4>1, <4>2 DEF WireInv
    <3> QED BY <2>1, <3>1 DEF CpuAck, driver, WireInv
  <2>2. CASE MachineReset
    BY <2>2 DEF MachineReset, WireInv
  <2>3. ASSUME NEW b \in Bank, PicOut(b) PROVE WireInv'
    BY <2>3 DEF PicOut, icu_int_w, bank, WireInv
  <2>4. ASSUME NEW b \in Bank, Icw1(b) PROVE WireInv'
    <3>1. irr' \in [Bank -> SUBSET Request]
      BY <2>4 DEF Icw1, icu_w0_Icw1, PicIcw1, WireInv
    <3> QED BY <2>4, <3>1 DEF Icw1, icu_w0_Icw1, PicIcw1, WireInv
  <2>5. ASSUME NEW b \in Bank,
               \/ SetVector(b) \/ Icw2(b) \/ Icw4(b) \/ Eoi(b)
               \/ \E m \in KernelMask : SetMask(b, m)
        PROVE  WireInv'
    <3>1. UNCHANGED <<pin, irr, icu_int, irq0>>
      BY <2>5 DEF SetVector, Icw2, Icw4, SetMask, icu_w1, PicWrite1, Eoi, driver, bank
    <3> QED BY <3>1 DEF WireInv
  <2>6. CASE UNCHANGED vars
    BY <2>6 DEF vars, driver, bank, WireInv
  <2> QED BY <2>1, <2>2, <2>3, <2>4, <2>5, <2>6, DeviceSteps DEF Next
<1> QED BY <1>1, <1>2, PTL DEF Spec

-----------------------------------------------------------------------------
(* What the processor takes is the vector of a request of a programmed bank: *)
(* icu_ack finds a bank that is up and never returns its zero, although a    *)
(* reset keeps m_icu_int and lowers the processor's line; the kernel lets    *)
(* interrupts in only when all three banks are programmed; and a request     *)
(* that has gone is request 7 of the same bank.                              *)
THEOREM VectorsAreProgrammed == Spec => []VectorIsProgrammed
<1>1. Init => VectorIsProgrammed
  BY DEF Init, VectorIsProgrammed
<1>2. SeqInv /\ WireInv /\ VectorIsProgrammed /\ [Next]_vars => VectorIsProgrammed'
  <2> SUFFICES ASSUME SeqInv, WireInv, VectorIsProgrammed, [Next]_vars
               PROVE  VectorIsProgrammed'
    OBVIOUS
  <2>1. CASE CpuAck
    <3> DEFINE b == AckBank
               r == IF Wanting(b) = {} THEN 7 ELSE Min(Wanting(b))
    <3>0. icu_int # {}
      BY <2>1 DEF CpuAck, WireInv
    <3>1. b \in Bank
      BY <3>0, LowestIsMember DEF AckBank, WireInv
    <3>2. r \in 0..7
      <4>1. Wanting(b) \subseteq {0, 1, 6}
        BY <3>1, Wires DEF Wanting, WireInv, Request
      <4> QED BY <4>1, LowestIsMember
    <3>3. base[b] = KernelVector(b)
      BY <2>1, <3>1 DEF CpuAck, SeqInv, InSequence
    <3>4. taken' = KernelVector(b) + r
      BY <2>1, <3>0, <3>3 DEF CpuAck, Acknowledges
    <3> QED BY <3>1, <3>2, <3>4 DEF VectorIsProgrammed, KernelVector, Bank
  <2>2. CASE MachineReset
    BY <2>2 DEF MachineReset, VectorIsProgrammed
  <2>3. CASE UNCHANGED taken
    BY <2>3 DEF VectorIsProgrammed
  <2>4. ASSUME ~CpuAck, ~MachineReset PROVE UNCHANGED taken
    BY <2>4 DEF Next, vars, kernel, SetVector, Icw1, Icw2, Icw4, SetMask, Eoi, PicOut,
                DeviceAsserts, DeviceServed
  <2> QED BY <2>1, <2>2, <2>3, <2>4
<1> QED BY <1>1, <1>2, SequenceInvariance, WireInvariance, PTL DEF Spec
=============================================================================
