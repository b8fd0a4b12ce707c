-------------------------------- MODULE Icu --------------------------------
(***************************************************************************)
(* The interrupt unit of the 82380: three 8259 banks that the driver makes *)
(* out of MAME's pic8259.  The driver stands between the kernel and each   *)
(* bank while it is being programmed (icu_w follows the initialisation     *)
(* sequence to replace two of its bytes), joins the three interrupt        *)
(* outputs into the processor's one line (icu_int_w) and answers the       *)
(* processor's acknowledge (icu_ack).  The devices, the banks and the      *)
(* kernel take turns in any order, and the machine may be reset at any     *)
(* point of it.                                                            *)
(***************************************************************************)
EXTENDS Naturals, FiniteSets, FiniteSetsExt

CONSTANTS Devices,         \* the interrupting devices fitted
          LevelTriggered   \* the mode in which the kernel programs the banks

Bank == 0..2
Wiring == [scc    |-> <<0, 1>>, kbdscc |-> <<0, 1>>, fdc  |-> <<0, 6>>,
           timer  |-> <<1, 0>>, dma    |-> <<1, 1>>, scsi |-> <<2, 0>>]
ASSUME DevicesAssumption == Devices \subseteq DOMAIN Wiring
ASSUME ModeAssumption == LevelTriggered \in BOOLEAN

BankOf(d)    == Wiring[d][1]
RequestOf(d) == Wiring[d][2]
Request      == {RequestOf(d) : d \in Devices}

(* What the kernel writes into the vector register of request 0 of a bank,   *)
(* and the masks it uses: a zero enables a request.                          *)
KernelVector(b) == 32 + 8 * b
KernelMask == {0, 2}
Vectors == {KernelVector(b) : b \in Bank}

VARIABLES
  icw_state, icu_int, vecreg,             \* the driver (vecreg: m_atblock)
  irq0,                                   \* the processor's interrupt line
  stage, base, mode86, imr, pin, irr, isr,  \* the banks
  asserted,                               \* the devices that want service
  doing, kmask, taken                     \* the kernel: where it is with each
                                          \* bank, the mask it last wrote, the
                                          \* vector the processor took last

driver == <<icw_state, icu_int, vecreg, irq0>>
bank   == <<stage, base, mode86, imr, pin, irr, isr>>
kernel == <<doing, kmask, taken>>
vars   == <<driver, bank, asserted, kernel>>

Doing == {"nothing", "icw1", "icw2", "icw4", "mask", "on"}
None == 999

TypeOK ==
  /\ icw_state \in [Bank -> 0..2] /\ icu_int \subseteq Bank
  /\ vecreg \in [Bank -> Vectors \cup {0}] /\ irq0 \in BOOLEAN
  /\ stage \in [Bank -> {"ready", "icw2", "icw4"}]
  /\ base \in [Bank -> Vectors \cup {0}]
  /\ mode86 \in [Bank -> BOOLEAN] /\ imr \in [Bank -> 0..255]
  /\ pin \in [Bank -> SUBSET Request] /\ irr \in [Bank -> SUBSET Request]
  /\ isr \in [Bank -> SUBSET (Request \cup {7})]
  /\ asserted \subseteq Devices
  /\ doing \in [Bank -> Doing] /\ kmask \in [Bank -> KernelMask]
  /\ taken \in 0..64 \cup {None}

Init ==
  /\ icw_state = [b \in Bank |-> 0] /\ icu_int = {} /\ vecreg = [b \in Bank |-> 0]
  /\ irq0 = FALSE
  /\ stage = [b \in Bank |-> "ready"] /\ base = [b \in Bank |-> 0]
  /\ mode86 = [b \in Bank |-> FALSE] /\ imr = [b \in Bank |-> 0]
  /\ pin = [b \in Bank |-> {}] /\ irr = [b \in Bank |-> {}] /\ isr = [b \in Bank |-> {}]
  /\ asserted = {}
  /\ doing = [b \in Bank |-> "nothing"] /\ kmask = [b \in Bank |-> 0] /\ taken = None

-----------------------------------------------------------------------------
(* A bank, as MAME's pic8259 behaves towards the driver *)

Masked(m, r) == (m \div (2 ^ r)) % 2 = 1

(* A write to offset 0 with bit 4 set starts the initialisation afresh.      *)
PicIcw1(b) ==
  /\ stage' = [stage EXCEPT ![b] = "icw2"]
  /\ imr' = [imr EXCEPT ![b] = 0] /\ isr' = [isr EXCEPT ![b] = {}]
  /\ irr' = [irr EXCEPT ![b] = IF LevelTriggered THEN @ ELSE {}]
  /\ mode86' = [mode86 EXCEPT ![b] = FALSE]
  /\ UNCHANGED <<base, pin>>

(* A write to offset 1 is ICW2, ICW4 or the mask, by the bank's own count.   *)
PicWrite1(b, data) ==
  /\ CASE stage[b] = "icw2" ->
            /\ base' = [base EXCEPT ![b] = data - (data % 8)]
            /\ stage' = [stage EXCEPT ![b] = "icw4"]
            /\ UNCHANGED <<mode86, imr>>
       [] stage[b] = "icw4" ->
            /\ mode86' = [mode86 EXCEPT ![b] = data % 2 = 1]
            /\ stage' = [stage EXCEPT ![b] = "ready"]
            /\ UNCHANGED <<base, imr>>
       [] OTHER ->
            /\ imr' = [imr EXCEPT ![b] = data]
            /\ UNCHANGED <<stage, base, mode86>>
  /\ UNCHANGED <<pin, irr, isr>>

(* A request pin changes level. *)
SetPin(b, r, level) ==
  IF level
    THEN /\ pin' = [pin EXCEPT ![b] = @ \cup {r}]
         /\ irr' = [irr EXCEPT ![b] =
                      IF LevelTriggered \/ r \notin pin[b] THEN @ \cup {r} ELSE @]
    ELSE /\ pin' = [pin EXCEPT ![b] = @ \ {r}]
         /\ irr' = [irr EXCEPT ![b] = @ \ {r}]

(* The requests a bank would interrupt for: not masked, and above every one  *)
(* it has in service.                                                        *)
Wanting(b) == {r \in irr[b] : ~Masked(imr[b], r) /\ \A s \in isr[b] : r < s}

-----------------------------------------------------------------------------
(* The driver *)

(* (Mutation of icu_w: the sequence never ends.)                             *)
icu_w1_NeverEnds(b, data) ==
  CASE icw_state[b] = 1 -> /\ icw_state' = [icw_state EXCEPT ![b] = 2]
                           /\ PicWrite1(b, vecreg[b])
    [] icw_state[b] = 2 -> /\ UNCHANGED icw_state
                           /\ PicWrite1(b, data + 1 - (data % 2))
    [] OTHER            -> UNCHANGED icw_state /\ PicWrite1(b, data)

(* icu_w, offset 1: ICW2 becomes the vector register, ICW4 gets its bit 0,   *)
(* and any other byte passes.                                                *)
icu_w1(b, data) ==
  CASE icw_state[b] = 1 -> /\ icw_state' = [icw_state EXCEPT ![b] = 2]
                           /\ PicWrite1(b, vecreg[b])
    [] icw_state[b] = 2 -> /\ icw_state' = [icw_state EXCEPT ![b] = 0]
                           /\ PicWrite1(b, data + 1 - (data % 2))
    [] OTHER            -> UNCHANGED icw_state /\ PicWrite1(b, data)

(* icu_w, offset 0. *)
icu_w0_Icw1(b) == icw_state' = [icw_state EXCEPT ![b] = 1] /\ PicIcw1(b)

(* (Mutation: nothing lowers the processor's line.)                          *)
icu_int_w_LineStays(b, state) ==
  /\ icu_int' = IF state THEN icu_int \cup {b} ELSE icu_int \ {b}
  /\ irq0' = (irq0 \/ state)

(* icu_int_w: the processor's line is up while any bank's output is.         *)
icu_int_w(b, state) ==
  /\ icu_int' = IF state THEN icu_int \cup {b} ELSE icu_int \ {b}
  /\ irq0' = (icu_int' # {})

(* (Mutation: the last bank comes first.)                                    *)
AckBank_Last == Max(icu_int)

(* icu_ack asks the lowest bank whose output is up. *)
AckBank == Min(icu_int)

(* A device's interrupt output, wired straight to its request pin: what the  *)
(* last writer says is what the pin sees.                                    *)
IntWrite(d, level) == SetPin(BankOf(d), RequestOf(d), level)

-----------------------------------------------------------------------------
(* The kernel programs a bank: the vector register, then the sequence.       *)
SetVector(b) ==
  /\ doing[b] = "nothing"
  /\ vecreg' = [vecreg EXCEPT ![b] = KernelVector(b)]
  /\ doing' = [doing EXCEPT ![b] = "icw1"]
  /\ UNCHANGED <<icw_state, icu_int, irq0, bank, asserted, kmask, taken>>

Icw1(b) == /\ doing[b] = "icw1" /\ icu_w0_Icw1(b)
           /\ doing' = [doing EXCEPT ![b] = "icw2"]
           /\ UNCHANGED <<icu_int, irq0, vecreg, asserted, kmask, taken>>

Icw2(b) == /\ doing[b] = "icw2" /\ icu_w1(b, 0)
           /\ doing' = [doing EXCEPT ![b] = "icw4"]
           /\ UNCHANGED <<icu_int, irq0, vecreg, asserted, kmask, taken>>

Icw4(b) == /\ doing[b] = "icw4" /\ icu_w1(b, 0)
           /\ doing' = [doing EXCEPT ![b] = "mask"]
           /\ UNCHANGED <<icu_int, irq0, vecreg, asserted, kmask, taken>>

SetMask(b, m) == /\ doing[b] \in {"mask", "on"} /\ icu_w1(b, m)
                 /\ doing' = [doing EXCEPT ![b] = "on"]
                 /\ kmask' = [kmask EXCEPT ![b] = m]
                 /\ UNCHANGED <<icu_int, irq0, vecreg, asserted, taken>>

(* The end of an interrupt: a write to offset 0 without bit 4.  The banks    *)
(* are independent, so the handler ends the bank its vector came from.       *)
Eoi(b) == /\ isr[b] # {}
          /\ isr' = [isr EXCEPT ![b] = @ \ {Min(@)}]
          /\ UNCHANGED <<driver, stage, base, mode86, imr, pin, irr, asserted, kernel>>

-----------------------------------------------------------------------------
(* A bank's output follows its requests, but a little later (a timer of the  *)
(* pic8259): in between the request may have gone.                           *)
PicOut(b) == /\ stage[b] = "ready"
             /\ icu_int_w(b, Wanting(b) # {})
             /\ UNCHANGED <<icw_state, vecreg, bank, asserted, kernel>>

DeviceAsserts(d) == /\ d \notin asserted
                    /\ asserted' = asserted \cup {d} /\ IntWrite(d, TRUE)
                    /\ UNCHANGED <<driver, stage, base, mode86, imr, isr, kernel>>

DeviceServed(d) == /\ d \in asserted
                   /\ asserted' = asserted \ {d} /\ IntWrite(d, FALSE)
                   /\ UNCHANGED <<driver, stage, base, mode86, imr, isr, kernel>>

(* The processor acknowledges what it sees on its line, with interrupts      *)
(* enabled once every bank is programmed: icu_ack hands out the vector of    *)
(* the bank it asks, or zero if no bank's output is up.  A bank whose        *)
(* request has gone answers with request 7.                                  *)
Acknowledges(b) ==
  LET r == IF Wanting(b) = {} THEN 7 ELSE Min(Wanting(b))
  IN  /\ isr' = [isr EXCEPT ![b] = @ \cup {r}]
      /\ irr' = [irr EXCEPT ![b] = IF LevelTriggered THEN @ ELSE @ \ {r}]
      /\ taken' = base[b] + r

CpuAck ==
  /\ irq0 /\ \A b \in Bank : doing[b] = "on"
  /\ IF icu_int = {} THEN taken' = 0 /\ UNCHANGED <<isr, irr>> ELSE Acknowledges(AckBank)
  /\ UNCHANGED <<driver, stage, base, mode86, imr, pin, asserted, doing, kmask>>

(* machine_reset clears m_atblock, and the devices reset themselves, the     *)
(* processor with what it saw on its line; the driver keeps m_icw_state and  *)
(* m_icu_int.                                                                *)
MachineReset ==
  /\ vecreg' = [b \in Bank |-> 0]
  /\ stage' = [b \in Bank |-> "ready"] /\ base' = [b \in Bank |-> 0]
  /\ mode86' = [b \in Bank |-> FALSE] /\ imr' = [b \in Bank |-> 0]
  /\ pin' = [b \in Bank |-> {}] /\ irr' = [b \in Bank |-> {}] /\ isr' = [b \in Bank |-> {}]
  /\ asserted' = {} /\ irq0' = FALSE
  /\ doing' = [b \in Bank |-> "nothing"] /\ kmask' = [b \in Bank |-> 0] /\ taken' = None
  /\ UNCHANGED <<icw_state, icu_int>>

Next ==
  \/ CpuAck \/ MachineReset
  \/ \E b \in Bank : \/ SetVector(b) \/ Icw1(b) \/ Icw2(b) \/ Icw4(b)
                     \/ Eoi(b) \/ PicOut(b)
                     \/ \E m \in KernelMask : SetMask(b, m)
  \/ \E d \in Devices : DeviceAsserts(d) \/ DeviceServed(d)

Spec == Init /\ [][Next]_vars

(* A bank's output follows in the end, the processor acknowledges what it    *)
(* sees, and a handler ends.  Nothing makes a device ask or stop asking.     *)
Fairness == /\ WF_vars(CpuAck)
            /\ \A b \in Bank : WF_vars(PicOut(b)) /\ WF_vars(Eoi(b))
FairSpec == Spec /\ Fairness

-----------------------------------------------------------------------------
(* Where the driver, the bank and the kernel are in the sequence, together.  *)
InSequence(b) ==
  /\ doing[b] # "nothing" => vecreg[b] = KernelVector(b)
  /\ doing[b] = "icw2" => icw_state[b] = 1 /\ stage[b] = "icw2"
  /\ doing[b] = "icw4" => icw_state[b] = 2 /\ stage[b] = "icw4"
  /\ doing[b] \in {"icw4", "mask", "on"} => base[b] = vecreg[b]
  /\ doing[b] \in {"mask", "on"} => icw_state[b] = 0 /\ stage[b] = "ready" /\ mode86[b]
  /\ doing[b] = "on" => imr[b] = kmask[b]

(* A bank the kernel has programmed is what the kernel made it, wherever the *)
(* machine was reset before: its base comes from its own vector register,    *)
(* it is in 8086 mode, and its mask is the mask last written (the comment    *)
(* before icu_w).                                                            *)
ProgrammedAsWritten ==
  \A b \in Bank : doing[b] = "on" =>
    stage[b] = "ready" /\ mode86[b] /\ base[b] = vecreg[b] /\ imr[b] = kmask[b]

(* The processor never takes a vector that no bank was given: not the zero   *)
(* icu_ack returns when no bank is up (its line is never up without one,     *)
(* wherever a reset forgot the line and kept m_icu_int), nor one computed    *)
(* from a bank that is not programmed.                                       *)
VectorIsProgrammed ==
  taken # None => \E b \in Bank : KernelVector(b) <= taken /\ taken < KernelVector(b) + 8

(* A device whose request the bank can see: in edge mode, one it has latched *)
(* and not yet put in service.                                               *)
Asks(d) == d \in asserted /\ (LevelTriggered \/ RequestOf(d) \in irr[BankOf(d)])

(* It asks of banks that are programmed, is not masked, and no pin that goes *)
(* before its own is up.                                                     *)
Foremost(d) ==
  /\ Asks(d) /\ \A b \in Bank : doing[b] = "on"
  /\ ~Masked(imr[BankOf(d)], RequestOf(d))
  /\ \A b \in Bank : \A r \in pin[b] :
       ~(b < BankOf(d) \/ (b = BankOf(d) /\ r < RequestOf(d)))

(* Its pin was lowered for another device that is wired to it.               *)
Silenced(d) ==
  /\ RequestOf(d) \notin pin[BankOf(d)]
  /\ \E e \in Devices \ {d} : Wiring[e] = Wiring[d]

(* A device that asks is heard, whatever the banks behind it do, whatever    *)
(* was withdrawn before it was acknowledged and wherever the machine was     *)
(* reset: its request comes into service, unless it stops asking, is masked, *)
(* is overtaken by a request before it, or shares its pin and the fall of    *)
(* its partner took the request with it (icu_int_w, icu_ack; the two serial  *)
(* chips on one request in the machine configuration).                       *)
Heard ==
  \A d \in Devices :
    Foremost(d) ~> (RequestOf(d) \in isr[BankOf(d)] \/ ~Foremost(d) \/ Silenced(d))
=============================================================================
