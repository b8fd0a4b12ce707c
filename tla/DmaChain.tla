------------------------------ MODULE DmaChain ------------------------------
(***************************************************************************)
(* A disk transfer that spans several pages, on the DMA channels of the    *)
(* 82380: the driver's chaining interrupt (registers 0x19 and 0xd9 and the *)
(* three bytes behind them), the kernel's page-by-page reload, the 8237    *)
(* channels and the devices that feed them.                                *)
(*                                                                         *)
(* Four parties take turns: the base level of the kernel, which sets a     *)
(* transfer up, the kernel's interrupt handler, which reloads the channel, *)
(* the 8237 with its device, which moves the bytes, and the devices, which *)
(* end or fail; and the machine may be reset between any two steps.  The   *)
(* driver's handlers are operators, taken in the order the source calls    *)
(* them; the kernel and the devices are external and do what the driver's  *)
(* comments say they do.                                                   *)
(***************************************************************************)
EXTENDS Naturals, FiniteSets

CONSTANTS Channels,        \* the channels in use: group 0 channel 2, group 1 channel 3
          Floppy,          \* the one wired to the diskette controller
          PageBytes,       \* the most bytes one load of a channel can move
          MaxBytes,        \* the longest transfer asked for
          Sectors,         \* the sectors of one side of a track
          SizeCodes,       \* the size codes of the sectors, as commands carry them
          Smallest         \* the bytes of a sector of size code 0: 128, 1 << 7

ASSUME ChannelsAssumption == IsFiniteSet(Channels) /\ Floppy \in Channels
ASSUME BytesAssumption == /\ PageBytes \in Nat \ {0}
                          /\ MaxBytes \in Nat \ {0}
ASSUME SectorAssumption == /\ Sectors \in Nat \ {0} /\ SizeCodes \subseteq 0..7
                           /\ Smallest \in Nat \ {0}

VARIABLES
  \* the driver (m_dmaint, m_dmaen, m_dmafilled, m_fdmax, m_fdcount)
  dmaint, dmaen, dmafilled, fdmax, fdcount,
  \* request 1 of the second 8259 bank: its line, its request latch, and the
  \* mode the kernel's ICW1 gave the bank: level or edge triggered
  ir1, irr, level,
  \* (history) the channels whose page ended while the line was up for another
  \* one and the bank, in edge mode, took no request of it
  overtaken,
  \* the kernel: the channels its handler is serving, what it does next on a
  \* channel, whether the transfer needs more than one page, the bytes asked
  \* for and the bytes loaded into the channel so far
  served, kpc, chained, want, loaded,
  \* the 8237: bytes until terminal count (0: the channel has masked itself)
  count,
  \* the devices: the state of the transfer and the bytes moved; of the
  \* diskette controller also the direction, the bytes the command can still
  \* move, and whether the terminal count pin has been pulsed
  phase, got, reading, left, tcdone,
  \* the hold of the bus: the channels whose controller asks for it, and the
  \* one HALT line of the processor that both controllers drive
  hrq, halted

driver == <<dmaint, dmaen, dmafilled, fdmax, fdcount>>
pic    == <<ir1, irr, level, overtaken>>
kernel == <<served, kpc, chained, want, loaded>>
device == <<phase, got, reading, left, tcdone>>
bus    == <<hrq, halted>>
vars   == <<driver, pic, kernel, count, device, bus>>

Phase == {"idle", "setup", "busy", "done", "failed", "runoff"}
KernelStep == {"rest", "disarm", "arm", "close"}

TypeOK ==
  /\ dmaint \subseteq Channels /\ dmaen \subseteq Channels
  /\ dmafilled \subseteq Channels /\ served \subseteq Channels
  /\ fdmax \in Nat /\ fdcount \in Nat
  /\ ir1 \in BOOLEAN /\ irr \in BOOLEAN /\ level \in BOOLEAN
  /\ overtaken \subseteq Channels
  /\ kpc \in [Channels -> KernelStep]
  /\ chained \in [Channels -> BOOLEAN]
  /\ want \in [Channels -> 0..MaxBytes]
  /\ loaded \in [Channels -> 0..MaxBytes]
  /\ count \in [Channels -> 0..PageBytes]
  /\ phase \in [Channels -> Phase]
  /\ got \in [Channels -> 0..MaxBytes]
  /\ reading \in BOOLEAN /\ tcdone \in BOOLEAN
  /\ left \in Nat
  /\ hrq \subseteq Channels /\ halted \in BOOLEAN

Init ==
  /\ dmaint = {} /\ dmaen = {} /\ dmafilled = {} /\ served = {}
  /\ fdmax = 0 /\ fdcount = 0
  /\ ir1 = FALSE /\ irr = FALSE /\ level \in BOOLEAN /\ overtaken = {}
  /\ kpc = [c \in Channels |-> "rest"]
  /\ chained = [c \in Channels |-> FALSE]
  /\ want = [c \in Channels |-> 0] /\ loaded = [c \in Channels |-> 0]
  /\ count = [c \in Channels |-> 0]
  /\ phase = [c \in Channels |-> "idle"] /\ got = [c \in Channels |-> 0]
  /\ reading = FALSE /\ left = 0 /\ tcdone = FALSE
  /\ hrq = {} /\ halted = FALSE

-----------------------------------------------------------------------------
(* The parts around the driver *)

(* The request pin of the 8259: raising it latches a request (in edge mode   *)
(* only if it was low), lowering it drops the request.                       *)
Latches == irr \/ level \/ ~ir1

ir1_w(state) == ir1' = state /\ irr' = (state /\ Latches) /\ UNCHANGED level

(* A pulse on the terminal count pin of the diskette controller ends the     *)
(* command it is executing, and does nothing to one that executes none.      *)
PulseEndsCommand == phase[Floppy] = "busy"

-----------------------------------------------------------------------------
(* The driver *)

(* A write to the address or count register of a channel: the 8237 takes it, *)
(* which arms the channel to move n bytes, and the driver remembers that     *)
(* the base registers are no longer empty.                                   *)
LoadPage(c, n) ==
  /\ dmafilled' = dmafilled \cup {c}
  /\ count' = [count EXCEPT ![c] = n]
  /\ loaded' = [loaded EXCEPT ![c] = @ + n]

(* (Mutations of the disarm: the line falls whatever the other group has     *)
(* pending; the channel stays armed; the end is not passed on.)              *)
DisarmAs(c, en, lowers, ends) ==
  /\ dmaen' = en /\ dmaint' = dmaint \ {c}
  /\ IF lowers THEN ir1_w(FALSE) /\ UNCHANGED overtaken ELSE UNCHANGED pic
  /\ tcdone' = (tcdone \/ (ends /\ c \in dmaint /\ c \notin dmafilled /\ c = Floppy
                                /\ PulseEndsCommand))
Disarm_LowersAlways(c) == DisarmAs(c, dmaen \ {c}, TRUE, TRUE)
Disarm_StaysArmed(c)   == DisarmAs(c, dmaen, dmaint \subseteq {c}, TRUE)
Disarm_NoEnd(c)        == DisarmAs(c, dmaen \ {c}, dmaint \subseteq {c}, FALSE)

(* A write to 0x19 or 0xd9 with bit 2 clear. *)
Disarm(c) ==
  LET ending == c \in dmaint /\ c \notin dmafilled
  IN  /\ dmaen' = dmaen \ {c}
      /\ dmaint' = dmaint \ {c}
      /\ IF dmaint \subseteq {c} THEN ir1_w(FALSE) /\ UNCHANGED overtaken ELSE UNCHANGED pic
      /\ tcdone' = (tcdone \/ (ending /\ c = Floppy /\ PulseEndsCommand))

(* (Mutations: only the first group is wired to the interrupt; the base      *)
(* registers still count as written when their page has gone.)               *)
dma_tc_w_OneGroup(c) ==
  IF c \in dmaen /\ c = Floppy
    THEN /\ dmaint' = dmaint \cup {c}
         /\ dmafilled' = dmafilled \ {c}
         /\ ir1_w(TRUE) /\ UNCHANGED overtaken
    ELSE UNCHANGED <<dmaint, dmafilled, pic>>
dma_tc_w_StaysFilled(c) ==
  IF c \in dmaen
    THEN dmaint' = dmaint \cup {c} /\ ir1_w(TRUE) /\ UNCHANGED <<dmafilled, overtaken>>
    ELSE UNCHANGED <<dmaint, dmafilled, pic>>

(* dma_tc_w: the channel's count has run out. *)
dma_tc_w(c) ==
  IF c \in dmaen
    THEN /\ dmaint' = dmaint \cup {c}
         /\ dmafilled' = dmafilled \ {c}
         /\ ir1_w(TRUE)
         /\ overtaken' = IF Latches THEN overtaken ELSE overtaken \cup {c}
    ELSE UNCHANGED <<dmaint, dmafilled, pic>>

(* x << n, for the shifts a size code can ask for.                           *)
Shl(x, n) == x * <<1, 2, 4, 8, 16, 32, 64, 128>>[n + 1]

(* (Mutation: a sector more than the command reads.)                         *)
ReadLength_SectorMore(first, last, size) ==
  IF last < first THEN 0 ELSE Shl((last - first + 2) * Smallest, size)

(* fdc_cmd_byte, at the last byte of a read: the count its data has to stop  *)
(* at, from the command's first sector, last sector and size code.           *)
ReadLength(first, last, size) ==
  IF last < first THEN 0 ELSE Shl((last - first + 1) * Smallest, size)

(* dma_write counts the bytes of a read; LastOfTrack is the byte the count   *)
(* ends on.  Nothing counts the bytes of a write.                            *)
LastOfTrack == reading /\ fdmax # 0 /\ fdcount + 1 >= fdmax

CountByte ==
  /\ fdcount' = IF reading /\ fdmax # 0 THEN fdcount + 1 ELSE fdcount
  /\ fdmax' = IF LastOfTrack THEN 0 ELSE fdmax

(* (Mutation: every end of count is passed on.)                              *)
EopReachesFdc_Always == TRUE

(* (Mutation: dma2_hrq_w stops the processor and never lets it go on.)       *)
dma_hrq_w_NeverResumes(c, asks) ==
  /\ hrq' = IF asks THEN hrq \cup {c} ELSE hrq \ {c}
  /\ halted' = (asks \/ (halted /\ c # Floppy))

(* dma_hrq_w and dma2_hrq_w put their own request on the processor's HALT    *)
(* line, so that whichever lets go first lets the processor run.             *)
dma_hrq_w(c, asks) ==
  /\ hrq' = IF asks THEN hrq \cup {c} ELSE hrq \ {c}
  /\ halted' = asks

(* dma_eop_w lets the end of count through to the diskette controller only   *)
(* while the chaining interrupt is not armed.                                *)
EopReachesFdc == Floppy \notin dmaen

-----------------------------------------------------------------------------
(* The kernel: base level *)

(* dma_setup: program the first page.  The base level does not run while the *)
(* handler does, and the rest of the sequence follows with interrupts off.   *)
Setup(c) ==
  /\ ~halted /\ phase[c] = "idle" /\ served = {} /\ \A d \in Channels : kpc[d] = "rest"
  /\ \E n \in 1..MaxBytes, k \in 1..PageBytes :
       /\ k <= n
       /\ want' = [want EXCEPT ![c] = n]
       /\ chained' = [chained EXCEPT ![c] = k < n]
       /\ dmafilled' = dmafilled \cup {c}
       /\ count' = [count EXCEPT ![c] = k]
       /\ loaded' = [loaded EXCEPT ![c] = k]
  /\ phase' = [phase EXCEPT ![c] = "setup"]
  /\ got' = [got EXCEPT ![c] = 0]
  /\ kpc' = [kpc EXCEPT ![c] = "disarm"]
  /\ overtaken' = overtaken \ {c}
  /\ UNCHANGED <<dmaint, dmaen, fdmax, fdcount, ir1, irr, level, served,
                 reading, left, tcdone, bus>>

(* The sectors a command moves, as the diskette controller goes through      *)
(* them: from the first to the last of the side and, if the multi-track bit  *)
(* is set, the other side up to the same one.  (The driver does not look at  *)
(* that bit.)                                                                *)
SectorsMoved(first, last, both) ==
  Cardinality(first..last) + IF both THEN Cardinality(1..last) ELSE 0

(* The command is given to the device.  For the diskette the last byte of    *)
(* the command sets the length of a read (fdc_cmd_byte).  The kernel never   *)
(* asks one command for more than lies on the side from the first sector on. *)
KernelStaysOnSide(c, first, last, size) ==
  first <= last /\ want[c] <= Cardinality(first..last) * Shl(Smallest, size)

Issue(c) ==
  /\ ~halted /\ phase[c] = "setup" /\ served = {} /\ kpc[c] = "rest"
  /\ phase' = [phase EXCEPT ![c] = "busy"]
  /\ IF c = Floppy
       THEN \E first, last \in 1..Sectors, size \in SizeCodes, rd, both \in BOOLEAN :
              /\ KernelStaysOnSide(c, first, last, size)
              /\ reading' = rd
              /\ left' = SectorsMoved(first, last, both) * Shl(Smallest, size)
              /\ fdmax' = IF rd THEN ReadLength(first, last, size) ELSE 0
              /\ fdcount' = 0
              /\ tcdone' = FALSE
       ELSE UNCHANGED <<reading, left, fdmax, fdcount, tcdone>>
  /\ UNCHANGED <<dmaint, dmaen, dmafilled, pic, kernel, count, got, bus>>

(* The kernel has seen the transfer end: it masks the channel and forgets    *)
(* the transfer, as the device does.  It does not disarm the chaining        *)
(* interrupt.                                                                *)
Release(c) ==
  /\ ~halted /\ phase[c] \in {"done", "failed", "runoff"} /\ kpc[c] = "rest"
  /\ phase' = [phase EXCEPT ![c] = "idle"]
  /\ want' = [want EXCEPT ![c] = 0]
  /\ chained' = [chained EXCEPT ![c] = FALSE]
  /\ loaded' = [loaded EXCEPT ![c] = 0]
  /\ count' = [count EXCEPT ![c] = 0]
  /\ got' = [got EXCEPT ![c] = 0]
  /\ IF c = Floppy THEN reading' = FALSE /\ left' = 0 /\ tcdone' = FALSE
                   ELSE UNCHANGED <<reading, left, tcdone>>
  /\ UNCHANGED <<driver, pic, served, kpc, bus>>

-----------------------------------------------------------------------------
(* The kernel: the handler of the chaining interrupt *)

(* The processor acknowledges the interrupt and the handler reads 0x19 and   *)
(* 0xd9: it serves the channels it read, and no other until it is entered    *)
(* again.                                                                    *)
IsrEnter ==
  /\ ~halted /\ irr /\ served = {} /\ \A c \in Channels : kpc[c] = "rest"
  /\ served' = dmaint
  /\ irr' = (level /\ ir1)
  /\ overtaken' = overtaken \ dmaint
  /\ UNCHANGED <<driver, ir1, level, kpc, chained, want, loaded, count, device, bus>>

(* A page is left: it is loaded before the channel is disarmed. *)
IsrLoad(c) ==
  /\ ~halted /\ c \in served /\ kpc[c] = "rest" /\ loaded[c] < want[c]
  /\ \E k \in 1..PageBytes : loaded[c] + k <= want[c] /\ LoadPage(c, k)
  /\ kpc' = [kpc EXCEPT ![c] = "disarm"]
  /\ UNCHANGED <<dmaint, dmaen, fdmax, fdcount, pic, served, chained, want, device, bus>>

(* No page is left: the channel is disarmed, and that ends the transfer. *)
IsrClose(c) ==
  /\ ~halted /\ c \in served /\ kpc[c] = "rest" /\ loaded[c] = want[c]
  /\ kpc' = [kpc EXCEPT ![c] = "close"]
  /\ UNCHANGED <<driver, pic, served, chained, want, loaded, count, device, bus>>

KernelDisarms(c) ==
  /\ ~halted /\ kpc[c] \in {"disarm", "close"}
  /\ Disarm(c)
  /\ LET more == kpc[c] = "disarm" /\ chained[c]
     IN  /\ kpc' = [kpc EXCEPT ![c] = IF more THEN "arm" ELSE "rest"]
         /\ served' = IF more THEN served ELSE served \ {c}
  /\ UNCHANGED <<dmafilled, fdmax, fdcount, chained, want, loaded, count,
                 phase, got, reading, left, bus>>

(* A write to 0x19 or 0xd9 with bit 2 set. *)
KernelArms(c) ==
  /\ ~halted /\ kpc[c] = "arm"
  /\ dmaen' = dmaen \cup {c}
  /\ kpc' = [kpc EXCEPT ![c] = "rest"]
  /\ served' = served \ {c}
  /\ UNCHANGED <<dmaint, dmafilled, fdmax, fdcount, pic, chained, want, loaded,
                 count, device, bus>>

-----------------------------------------------------------------------------
(* The 8237 and the devices *)

(* The handler reloads and rearms a channel in less time than a page takes:  *)
(* the last byte of a page never moves while its channel is being loaded.    *)
IsrOutrunsPage(c) == count[c] = 1 => kpc[c] = "rest"

(* The device has a byte to give or to take and the channel can move it: the *)
(* diskette controller until its terminal count or the end of the track, the *)
(* SCSI controller, which counts its own bytes, until it has them all.       *)
Wants(c) == /\ phase[c] = "busy" /\ count[c] > 0 /\ IsrOutrunsPage(c)
            /\ IF c = Floppy THEN ~tcdone /\ left > 0 ELSE got[c] < want[c]

(* The controller asks for the bus before each byte, and gives it back after *)
(* the byte or when the device no longer asks.                               *)
AsksBus(c)  == /\ c \notin hrq /\ Wants(c) /\ dma_hrq_w(c, TRUE)
               /\ UNCHANGED <<driver, pic, kernel, count, device>>
LeavesBus(c) == /\ c \in hrq /\ ~Wants(c) /\ dma_hrq_w(c, FALSE)
                /\ UNCHANGED <<driver, pic, kernel, count, device>>

ByteMoves(c) ==
  /\ c \in hrq /\ Wants(c)
  /\ dma_hrq_w(c, FALSE)
  /\ got' = [got EXCEPT ![c] = @ + 1]
  /\ count' = [count EXCEPT ![c] = @ - 1]
  /\ IF count[c] = 1 THEN dma_tc_w(c) ELSE UNCHANGED <<dmaint, dmafilled, pic>>

(* One byte of the diskette: dma_write or dma_read, then the end of count.   *)
FdByte ==
  /\ ByteMoves(Floppy)
  /\ CountByte
  /\ left' = left - 1
  /\ tcdone' = (LastOfTrack \/ (count[Floppy] = 1 /\ EopReachesFdc))
  /\ UNCHANGED <<dmaen, kernel, phase, reading>>

(* The SCSI controller needs no terminal count.                              *)
ScsiByte(c) ==
  /\ c # Floppy
  /\ ByteMoves(c)
  /\ UNCHANGED <<dmaen, fdmax, fdcount, kernel, phase, reading, left, tcdone>>

(* The transfer of a device is over, and its command moves no more bytes.    *)
Ends(c, how) ==
  /\ phase[c] = "busy"
  /\ phase' = [phase EXCEPT ![c] = how]
  /\ left' = IF c = Floppy THEN 0 ELSE left
  /\ UNCHANGED <<driver, pic, kernel, count, got, reading, tcdone, bus>>

FdcSucceeds     == tcdone /\ Ends(Floppy, "done")
ScsiSucceeds(c) == c # Floppy /\ got[c] = want[c] /\ Ends(c, "done")

(* The head passes the last sector and the terminal count has not come: the  *)
(* controller answers 40 80.                                                 *)
FdcRunsOff == left = 0 /\ ~tcdone /\ Ends(Floppy, "runoff")

(* A defect, a deselected drive, a byte not fetched in time. *)
DeviceFails(c) == Ends(c, "failed")

-----------------------------------------------------------------------------
(* The reset of the machine.  The kernel starts over and knows of nothing,   *)
(* and the devices reset themselves: the channels are masked, the request    *)
(* pins are low, no command runs.  machine_reset clears neither m_dmaint nor *)
(* m_dmaen, m_dmafilled, m_fdmax and m_fdcount: they go on as they were.     *)
NothingUnderWay ==
  /\ served' = {} /\ kpc' = [c \in Channels |-> "rest"]
  /\ chained' = [c \in Channels |-> FALSE]
  /\ want' = [c \in Channels |-> 0] /\ loaded' = [c \in Channels |-> 0]
  /\ count' = [c \in Channels |-> 0] /\ got' = [c \in Channels |-> 0]
  /\ phase' = [c \in Channels |-> "idle"]
  /\ reading' = FALSE /\ left' = 0 /\ tcdone' = FALSE
  /\ hrq' = {} /\ halted' = FALSE

machine_reset ==
  /\ NothingUnderWay
  /\ ir1' = FALSE /\ irr' = FALSE /\ overtaken' = {}
  /\ UNCHANGED <<driver, level>>

-----------------------------------------------------------------------------
Isr(c) == IsrLoad(c) \/ IsrClose(c)
KernelStepOf(c) == KernelDisarms(c) \/ KernelArms(c)

Next ==
  \/ IsrEnter \/ FdByte \/ FdcSucceeds \/ FdcRunsOff \/ machine_reset
  \/ \E c \in Channels :
       \/ Setup(c) \/ Issue(c) \/ Release(c)
       \/ IsrLoad(c) \/ IsrClose(c) \/ KernelDisarms(c) \/ KernelArms(c)
       \/ AsksBus(c) \/ LeavesBus(c) \/ ScsiByte(c) \/ ScsiSucceeds(c) \/ DeviceFails(c)

(* The handler's code and the instructions after a programmed page run on    *)
(* their own; a pending request is taken whenever interrupts are enabled     *)
(* again, however often the base level disables them in between; and a       *)
(* device whose request is answered goes on.  Nothing obliges the kernel to  *)
(* ask for a transfer, a device to fail or the machine to be reset.          *)
Fairness ==
  /\ SF_vars(IsrEnter)
  /\ WF_vars(FdByte) /\ WF_vars(FdcSucceeds)
  /\ \A c \in Channels :
       /\ SF_vars(Issue(c))
       /\ WF_vars(Isr(c)) /\ WF_vars(KernelStepOf(c))
       /\ WF_vars(AsksBus(c)) /\ WF_vars(LeavesBus(c))
       /\ WF_vars(ScsiByte(c)) /\ WF_vars(ScsiSucceeds(c))

Spec == Init /\ [][Next]_vars
FairSpec == Spec /\ Fairness

-----------------------------------------------------------------------------
(* Properties *)

Active(c) == phase[c] \in {"setup", "busy"}

(* The two groups of channels share one interrupt line, and serving a        *)
(* channel of one must not silence a channel of the other: the line is down  *)
(* when no bit is set, and up for the bit of every transfer under way that   *)
(* the kernel has not reloaded (atblock_w).  A bit left by a transfer that a *)
(* reset broke off is set with the line down.                                *)
LineFollowsDmaint ==
  /\ ir1 => dmaint # {}
  /\ \A c \in dmaint : Active(c) /\ kpc[c] # "disarm" => ir1

(* The diskette controller never reports success for a transfer of which     *)
(* bytes are missing: no end of a page is taken for the end of the transfer  *)
(* (the comment in dma_eop_w: bar reads the zeros as the end of the archive  *)
(* and calls it a success).                                                  *)
NotCutShort == phase[Floppy] = "done" => got[Floppy] = want[Floppy]

(* A read never runs past its last sector, whatever its sectors and their    *)
(* size: its terminal count comes on the last byte at the latest, and not    *)
(* through the handler (the comment in fdc_cmd_byte).                        *)
ReadNeverRunsOff == reading => phase[Floppy] # "runoff"

(* A transfer that fits in one page does not interrupt, whatever the         *)
(* transfer before it left armed (the comment in atblock_w).                 *)
SinglePageQuiet ==
  \A c \in Channels : phase[c] = "busy" /\ ~chained[c] => c \notin dmaen \cup dmaint

(* A channel that has run out of its page in mid transfer is never left      *)
(* behind, in either mode of the bank: its bit is set, and a request is      *)
(* pending or the handler that is running has read the bit.  The one way to  *)
(* lose it is an edge the bank never saw: in edge mode, a page that ended    *)
(* while the line was up for another channel, whose request was taken        *)
(* (dma_tc_w raises a line that may be up; atblock_w lowers it at the last). *)
NeverStranded ==
  \A c \in Channels :
    phase[c] = "busy" /\ count[c] = 0 /\ got[c] < want[c]
      => c \in dmaint /\ (irr \/ c \in served \/ c \in overtaken)

(* A hold of the bus is always let go, whatever the devices do meanwhile and *)
(* although either controller may release what the other asked for: the      *)
(* processor never stands still for good (dma_hrq_w and dma2_hrq_w, which    *)
(* drive one line without looking at each other).                            *)
ProcessorResumes == halted ~> ~halted

-----------------------------------------------------------------------------
(* The inductive invariant behind the safety properties *)

(* What the channel has still to move is what was loaded and has not moved.  *)
Accounting(c) == /\ got[c] + count[c] = loaded[c] /\ loaded[c] <= want[c]
                 /\ Active(c) => want[c] > 0
                 /\ phase[c] = "setup" => got[c] = 0 /\ count[c] > 0

(* While the kernel is between two writes on a channel, the page it loaded   *)
(* is still in the channel, and it closes only what is loaded to the end.    *)
PageInHand(c) == /\ kpc[c] \in {"disarm", "arm"} => count[c] > 0
                 /\ kpc[c] = "disarm" => c \in dmafilled
                 /\ kpc[c] = "arm" => chained[c]
                 /\ kpc[c] = "close" => loaded[c] = want[c]

(* A transfer of one page never meets the handler. *)
OnePage(c) == ~chained[c] =>
  /\ loaded[c] = want[c]
  /\ Active(c) => /\ c \notin served /\ kpc[c] \in {"rest", "disarm"}
                  /\ kpc[c] = "rest" => c \notin dmaen \cup dmaint
  /\ phase[c] = "busy" => kpc[c] = "rest"

(* A bit that is set is a terminal count with nothing loaded since, but for  *)
(* the moment between a load and its disarm, and for a bit that a reset in   *)
(* that moment left behind: the channel is empty.  And the handler only ever *)
(* works on such channels.                                                   *)
Emptied(c) ==
  /\ c \in dmaint /\ kpc[c] # "disarm" /\ want[c] > 0 => c \notin dmafilled
  /\ c \in dmaint /\ c \notin dmafilled => count[c] = 0
  /\ c \in served /\ kpc[c] \in {"rest", "close"} => c \in dmaint

(* At rest, a channel is disarmed only when its last page is loaded, and an  *)
(* empty channel with pages to come has its bit set.                         *)
ArmedUntilLast(c) == Active(c) =>
  /\ kpc[c] = "rest" /\ c \notin dmaen => loaded[c] = want[c]
  /\ count[c] = 0 /\ loaded[c] < want[c] => c \in dmaint

ChannelInv(c) == /\ Accounting(c) /\ PageInHand(c) /\ OnePage(c)
                 /\ Emptied(c) /\ ArmedUntilLast(c)

(* The count of a read runs out before the sectors do, and not before all    *)
(* that was asked for has moved.                                             *)
TrackCounted == phase[Floppy] = "busy" =>
  /\ got[Floppy] + left >= want[Floppy]
  /\ reading /\ ~tcdone => /\ fdcount = got[Floppy] /\ got[Floppy] < fdmax
                           /\ want[Floppy] <= fdmax /\ fdmax <= got[Floppy] + left

(* The terminal count comes when every byte has moved. *)
TerminatedAtEnd == tcdone /\ phase[Floppy] \in {"busy", "done"} => got[Floppy] = want[Floppy]

(* All of it: what holds between any two steps of the kernel, the driver and *)
(* the devices.                                                              *)
ChainInv == /\ TypeOK
            /\ LineFollowsDmaint
            /\ level => irr = ir1 /\ overtaken = {}
            /\ \A c \in Channels : ChannelInv(c)
            /\ TrackCounted /\ TerminatedAtEnd
            /\ NotCutShort /\ ReadNeverRunsOff /\ NeverStranded

-----------------------------------------------------------------------------
(* What a channel looks like to who asked for the transfer. *)
Stage(c) == CASE phase[c] \in {"setup", "busy"} -> "moving"
              [] phase[c] = "runoff" -> "failed"
              [] OTHER -> phase[c]

Fd == INSTANCE DiskTransfer
        WITH stage <- Stage(Floppy), asked <- want[Floppy], moved <- got[Floppy]

(* The diskette channel carries out the transfer that was promised: every    *)
(* byte, one after the other, before success, and an end to every transfer   *)
(* in which the device does not fail; unless the channel stays overtaken for *)
(* ever, as in edge mode it may (dma_eop_w, dma_tc_w, atblock_w).            *)
FloppyTransfer == /\ Fd!Init /\ [][Fd!Next]_(Fd!vars)
                  /\ Fd!Progress \/ <>[](Floppy \in overtaken)
=============================================================================
