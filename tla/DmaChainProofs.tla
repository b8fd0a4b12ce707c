--------------------------- MODULE DmaChainProofs ---------------------------
(***************************************************************************)
(* DmaChain for any set of channels, any page and transfer sizes and either *)
(* mode of the interrupt controller: ChainInv is inductive, the safety          *)
(* properties follow from it, and every step on the diskette channel is a   *)
(* step of the transfer DiskTransfer promises.  One lemma per action, and   *)
(* in each one step per part of ChainInv the action can disturb.                *)
(***************************************************************************)
EXTENDS DmaChain, FiniteSetTheorems, TLAPS

(* Sectors have a length, and what the driver takes a read for (fdc_cmd_byte) *)
(* is what lies on the side from the first sector to the last.               *)
LEMMA Lengths ==
  ASSUME NEW first \in 1..Sectors, NEW last \in 1..Sectors, NEW size \in SizeCodes, first <= last
  PROVE  /\ Shl(Smallest, size) \in Nat \ {0}
         /\ ReadLength(first, last, size) = Cardinality(first..last) * Shl(Smallest, size)
         /\ ReadLength(first, last, size) \in Nat
         /\ \A both \in BOOLEAN : SectorsMoved(first, last, both) * Shl(Smallest, size) \in Nat
         /\ \A both \in BOOLEAN : ReadLength(first, last, size)
                                    <= SectorsMoved(first, last, both) * Shl(Smallest, size)
<1> USE SectorAssumption
<1> DEFINE p == <<1, 2, 4, 8, 16, 32, 64, 128>>[size + 1]
           n == Cardinality(first..last)
           m == Cardinality(1..last)
<1>1. p \in Nat \ {0}
  <2>1. size \in 0..7
    OBVIOUS
  <2> QED BY <2>1
<1>2. n = last - first + 1 /\ m = last
  BY FS_Interval
<1>3. n \in Nat /\ m \in Nat /\ Smallest \in Nat \ {0}
  BY <1>2
<1> HIDE DEF p, n, m
<1>4. /\ Shl(Smallest, size) = Smallest * p
      /\ ReadLength(first, last, size) = (n * Smallest) * p
      /\ \A both \in BOOLEAN : SectorsMoved(first, last, both) = n + IF both THEN m ELSE 0
  BY <1>2 DEF p, n, m, Shl, ReadLength, SectorsMoved
<1>5. Smallest * p \in Nat \ {0} /\ (n * Smallest) * p = n * (Smallest * p)
  BY <1>1, <1>3
<1>6. ASSUME NEW x \in Nat PROVE n * (Smallest * p) <= (n + x) * (Smallest * p)
  <2> DEFINE u == Smallest * p
  <2>1. u \in Nat
    BY <1>5
  <2> HIDE DEF u
  <2>2. (n + x) * u = n * u + x * u /\ x * u \in Nat /\ n * u \in Nat
    BY <2>1, <1>3
  <2>3. n * u <= (n + x) * u
    BY <2>2
  <2> QED BY <2>3 DEF u
<1>7. \A both \in BOOLEAN : /\ SectorsMoved(first, last, both) \in Nat
                            /\ ReadLength(first, last, size)
                                 <= SectorsMoved(first, last, both) * Shl(Smallest, size)
  BY <1>3, <1>4, <1>5, <1>6
<1>8. Cardinality(first..last) * Shl(Smallest, size) = n * (Smallest * p)
  BY <1>4 DEF n
<1>9. \A x \in Nat : x * (Smallest * p) \in Nat
  BY <1>5
<1>10. ReadLength(first, last, size) = Cardinality(first..last) * Shl(Smallest, size)
  BY <1>4, <1>5, <1>8
<1> QED BY <1>3, <1>4, <1>5, <1>7, <1>9, <1>10

(* A transfer is set up on a channel no handler is serving (dma_setup). *)
LEMMA SetupKeeps == ASSUME ChainInv, NEW c \in Channels, Setup(c) PROVE ChainInv'
<1> USE ChannelsAssumption, BytesAssumption
<1> USE DEF ChainInv, bus, Setup, pic
<1>1. TypeOK'
  BY DEF TypeOK, Phase, KernelStep, ChannelInv, TrackCounted, Accounting
<1>2. LineFollowsDmaint' /\ (level => irr = ir1 /\ overtaken = {})'
  BY DEF LineFollowsDmaint, TypeOK, Active, ChannelInv, PageInHand, Emptied
<1>3. ASSUME NEW d \in Channels PROVE ChannelInv(d)'
  <2> USE DEF ChannelInv, TypeOK, Active
  <2>1. Accounting(d)'
    BY DEF Accounting
  <2>2. PageInHand(d)'
    BY DEF PageInHand, OnePage
  <2>3. OnePage(d)'
    <3>1. CASE d = c
      <4>1. PICK n \in 1..MaxBytes, k \in 1..PageBytes :
              /\ k <= n /\ want' = [want EXCEPT ![c] = n]
              /\ chained' = [chained EXCEPT ![c] = k < n]
              /\ loaded' = [loaded EXCEPT ![c] = k]
        OBVIOUS
      <4>2. chained'[c] <=> k < n
        BY <4>1, Zenon DEF TypeOK
      <4>3. k < n \/ k = n
        BY <4>1
      <4> QED BY <3>1, <4>1, <4>2, <4>3 DEF OnePage
    <3>2. CASE d # c
      BY <3>2 DEF OnePage
    <3> QED BY <3>1, <3>2
  <2>4. Emptied(d)'
    BY DEF Emptied, PageInHand
  <2>5. ArmedUntilLast(d)'
    BY DEF ArmedUntilLast, Accounting, PageInHand, OnePage
  <2> QED BY <2>1, <2>2, <2>3, <2>4, <2>5
<1>4. TrackCounted' /\ TerminatedAtEnd'
  BY DEF TrackCounted, TerminatedAtEnd, TypeOK, ChannelInv, Accounting, ArmedUntilLast, Active, Emptied, PageInHand
<1>5. NotCutShort' /\ ReadNeverRunsOff' /\ NeverStranded'
  BY DEF NotCutShort, ReadNeverRunsOff, NeverStranded, TypeOK, ChannelInv, Accounting, PageInHand, ArmedUntilLast, Active
<1> QED BY <1>1, <1>2, <1>3, <1>4, <1>5

(* The command reaches the device: a read starts to count (fdc_cmd_byte). *)
LEMMA IssueKeeps == ASSUME ChainInv, NEW c \in Channels, Issue(c) PROVE ChainInv'
<1> USE ChannelsAssumption, BytesAssumption
<1> USE DEF ChainInv, bus, Issue, pic, kernel
<1>0. CASE c # Floppy
  BY <1>0 DEF TypeOK, Phase, LineFollowsDmaint, ChannelInv, Accounting, PageInHand, OnePage,
              Emptied, ArmedUntilLast, Active, TrackCounted, TerminatedAtEnd,
              NotCutShort, ReadNeverRunsOff, NeverStranded
<1> SUFFICES ASSUME c = Floppy PROVE ChainInv'
  BY <1>0
<1>a. PICK rd \in BOOLEAN, range \in Nat, reach \in Nat :
        /\ reading' = rd /\ left' = reach /\ fdmax' = IF rd THEN range ELSE 0
        /\ fdcount' = 0 /\ tcdone' = FALSE /\ want[c] <= range /\ range <= reach
  <2>1. PICK first \in 1..Sectors, last \in 1..Sectors, size \in SizeCodes,
             rd \in BOOLEAN, both \in BOOLEAN :
          /\ KernelStaysOnSide(c, first, last, size)
          /\ reading' = rd
          /\ left' = SectorsMoved(first, last, both) * Shl(Smallest, size)
          /\ fdmax' = IF rd THEN ReadLength(first, last, size) ELSE 0
          /\ fdcount' = 0 /\ tcdone' = FALSE
    OBVIOUS
  <2>2. want[c] <= ReadLength(first, last, size)
    BY <2>1, Lengths DEF KernelStaysOnSide
  <2>3. /\ ReadLength(first, last, size) \in Nat
        /\ SectorsMoved(first, last, both) * Shl(Smallest, size) \in Nat
        /\ ReadLength(first, last, size) <= SectorsMoved(first, last, both) * Shl(Smallest, size)
    BY <2>1, Lengths DEF KernelStaysOnSide
  <2> QED BY <2>1, <2>2, <2>3
<1>b. /\ want[c] \in 0..MaxBytes /\ want[c] > 0
      /\ got[c] \in 0..MaxBytes /\ range > 0 /\ reach > 0
  BY <1>a DEF TypeOK, ChannelInv, Accounting, Active
<1>1. TypeOK'
  <2>1. fdmax' \in Nat /\ fdcount' \in Nat /\ left' \in Nat
    BY <1>a, <1>b
  <2>2. phase' \in [Channels -> Phase]
    BY DEF TypeOK, Phase
  <2> QED BY <1>a, <2>1, <2>2 DEF TypeOK
<1>2. LineFollowsDmaint' /\ (level => irr = ir1 /\ overtaken = {})'
  BY DEF LineFollowsDmaint, TypeOK, Active, ChannelInv, PageInHand, Emptied
<1>3. ASSUME NEW d \in Channels PROVE ChannelInv(d)'
  <2> USE DEF ChannelInv, TypeOK, Active
  <2>1. Accounting(d)'
    BY DEF Accounting
  <2>2. PageInHand(d)'
    BY DEF PageInHand, OnePage
  <2>3. OnePage(d)'
    BY DEF OnePage, PageInHand
  <2>4. Emptied(d)'
    BY DEF Emptied, PageInHand
  <2>5. ArmedUntilLast(d)'
    BY DEF ArmedUntilLast, Accounting, PageInHand, OnePage
  <2> QED BY <2>1, <2>2, <2>3, <2>4, <2>5
<1>4. TrackCounted' /\ TerminatedAtEnd'
  <2>1. got[Floppy] = 0
    BY DEF ChannelInv, Accounting
  <2> QED BY <1>a, <1>b, <2>1 DEF TrackCounted, TerminatedAtEnd, TypeOK
<1>5. NotCutShort' /\ ReadNeverRunsOff' /\ NeverStranded'
  BY DEF NotCutShort, ReadNeverRunsOff, NeverStranded, TypeOK, ChannelInv, Accounting, PageInHand, ArmedUntilLast, Active
<1> QED BY <1>1, <1>2, <1>3, <1>4, <1>5

(* The kernel forgets a transfer that has ended. *)
LEMMA ReleaseKeeps == ASSUME ChainInv, NEW c \in Channels, Release(c) PROVE ChainInv'
<1> USE ChannelsAssumption, BytesAssumption
<1> USE DEF ChainInv, bus, Release, driver, pic
<1>1. TypeOK'
  <2>0. 0 \in 0..MaxBytes /\ 0 \in 0..PageBytes
    OBVIOUS
  <2>1. /\ want' \in [Channels -> 0..MaxBytes] /\ loaded' \in [Channels -> 0..MaxBytes]
        /\ count' \in [Channels -> 0..PageBytes] /\ got' \in [Channels -> 0..MaxBytes]
    BY <2>0, Zenon DEF TypeOK
  <2>2. phase' \in [Channels -> Phase]
    BY DEF TypeOK, Phase
  <2>3. reading' \in BOOLEAN /\ tcdone' \in BOOLEAN /\ left' \in Nat
    <3>1. CASE c = Floppy
      <4>1. reading' = FALSE /\ tcdone' = FALSE /\ left' = 0
        BY <3>1, Zenon
      <4> QED BY <4>1
    <3>2. CASE c # Floppy
      BY <3>2 DEF TypeOK
    <3> QED BY <3>1, <3>2
  <2> QED BY <2>1, <2>2, <2>3 DEF TypeOK
<1>2. LineFollowsDmaint' /\ (level => irr = ir1 /\ overtaken = {})'
  BY DEF LineFollowsDmaint, TypeOK, Active, ChannelInv, PageInHand, Emptied
<1>3. ASSUME NEW d \in Channels PROVE ChannelInv(d)'
  <2> USE DEF ChannelInv, TypeOK, Active
  <2>1. Accounting(d)'
    BY DEF Accounting
  <2>2. PageInHand(d)'
    BY DEF PageInHand, OnePage
  <2>3. OnePage(d)'
    BY DEF OnePage, PageInHand
  <2>4. Emptied(d)'
    BY DEF Emptied, PageInHand
  <2>5. ArmedUntilLast(d)'
    BY DEF ArmedUntilLast, Accounting, PageInHand, OnePage
  <2> QED BY <2>1, <2>2, <2>3, <2>4, <2>5
<1>4. TrackCounted' /\ TerminatedAtEnd'
  BY DEF TrackCounted, TerminatedAtEnd, TypeOK, ChannelInv, Accounting, ArmedUntilLast, Active, Emptied, PageInHand
<1>5. NotCutShort' /\ ReadNeverRunsOff' /\ NeverStranded'
  BY DEF NotCutShort, ReadNeverRunsOff, NeverStranded, TypeOK, ChannelInv, Accounting, PageInHand, ArmedUntilLast, Active
<1> QED BY <1>1, <1>2, <1>3, <1>4, <1>5

(* The handler reads 0x19 and 0xd9: what it serves is empty and waiting. *)
LEMMA IsrEnterKeeps == ASSUME ChainInv, IsrEnter PROVE ChainInv'
<1> USE ChannelsAssumption, BytesAssumption
<1> USE DEF ChainInv, bus, IsrEnter, driver, device
<1>1. TypeOK'
  BY DEF TypeOK, Phase, KernelStep, ChannelInv, TrackCounted, Accounting
<1>2. LineFollowsDmaint' /\ (level => irr = ir1 /\ overtaken = {})'
  BY DEF LineFollowsDmaint, TypeOK, Active, ChannelInv, PageInHand, Emptied
<1>3. ASSUME NEW d \in Channels PROVE ChannelInv(d)'
  <2> USE DEF ChannelInv, TypeOK, Active
  <2>1. Accounting(d)'
    BY DEF Accounting
  <2>2. PageInHand(d)'
    BY DEF PageInHand, OnePage
  <2>3. OnePage(d)'
    BY DEF OnePage, PageInHand
  <2>4. Emptied(d)'
    BY DEF Emptied, PageInHand
  <2>5. ArmedUntilLast(d)'
    BY DEF ArmedUntilLast, Accounting, PageInHand, OnePage
  <2> QED BY <2>1, <2>2, <2>3, <2>4, <2>5
<1>4. TrackCounted' /\ TerminatedAtEnd'
  BY DEF TrackCounted, TerminatedAtEnd, TypeOK, ChannelInv, Accounting, ArmedUntilLast, Active, Emptied, PageInHand
<1>5. NotCutShort' /\ ReadNeverRunsOff' /\ NeverStranded'
  BY DEF NotCutShort, ReadNeverRunsOff, NeverStranded, TypeOK, ChannelInv, Accounting, PageInHand, ArmedUntilLast, Active
<1> QED BY <1>1, <1>2, <1>3, <1>4, <1>5

(* The next page goes into a channel that is empty (atblock_w). *)
LEMMA IsrLoadKeeps == ASSUME ChainInv, NEW c \in Channels, IsrLoad(c) PROVE ChainInv'
<1> USE ChannelsAssumption, BytesAssumption
<1> USE DEF ChainInv, bus, IsrLoad, LoadPage, pic, device
<1>1. TypeOK'
  BY DEF TypeOK, Phase, KernelStep, ChannelInv, TrackCounted, Accounting
<1>2. LineFollowsDmaint' /\ (level => irr = ir1 /\ overtaken = {})'
  BY DEF LineFollowsDmaint, TypeOK, Active, ChannelInv, PageInHand, Emptied
<1>3. ASSUME NEW d \in Channels PROVE ChannelInv(d)'
  <2> USE DEF ChannelInv, TypeOK, Active
  <2>1. Accounting(d)'
    <3>1. PICK k \in 1..PageBytes : /\ loaded[c] + k <= want[c]
                                    /\ count' = [count EXCEPT ![c] = k]
                                    /\ loaded' = [loaded EXCEPT ![c] = @ + k]
      OBVIOUS
    <3>2. count[c] = 0
      BY DEF Emptied
    <3> QED BY <3>1, <3>2 DEF Accounting
  <2>2. PageInHand(d)'
    BY DEF PageInHand, OnePage
  <2>3. OnePage(d)'
    BY DEF OnePage, PageInHand
  <2>4. Emptied(d)'
    BY DEF Emptied, PageInHand
  <2>5. ArmedUntilLast(d)'
    BY DEF ArmedUntilLast, Accounting, PageInHand, OnePage
  <2> QED BY <2>1, <2>2, <2>3, <2>4, <2>5
<1>4. TrackCounted' /\ TerminatedAtEnd'
  BY DEF TrackCounted, TerminatedAtEnd, TypeOK, ChannelInv, Accounting, ArmedUntilLast, Active, Emptied, PageInHand
<1>5. NotCutShort' /\ ReadNeverRunsOff' /\ NeverStranded'
  BY DEF NotCutShort, ReadNeverRunsOff, NeverStranded, TypeOK, ChannelInv, Accounting, PageInHand, ArmedUntilLast, Active
<1> QED BY <1>1, <1>2, <1>3, <1>4, <1>5

(* The handler finds no page left. *)
LEMMA IsrCloseKeeps == ASSUME ChainInv, NEW c \in Channels, IsrClose(c) PROVE ChainInv'
<1> USE ChannelsAssumption, BytesAssumption
<1> USE DEF ChainInv, bus, IsrClose, driver, pic, device
<1>1. TypeOK'
  BY DEF TypeOK, Phase, KernelStep, ChannelInv, TrackCounted, Accounting
<1>2. LineFollowsDmaint' /\ (level => irr = ir1 /\ overtaken = {})'
  BY DEF LineFollowsDmaint, TypeOK, Active, ChannelInv, PageInHand, Emptied
<1>3. ASSUME NEW d \in Channels PROVE ChannelInv(d)'
  <2> USE DEF ChannelInv, TypeOK, Active
  <2>1. Accounting(d)'
    BY DEF Accounting
  <2>2. PageInHand(d)'
    BY DEF PageInHand, OnePage
  <2>3. OnePage(d)'
    BY DEF OnePage, PageInHand
  <2>4. Emptied(d)'
    BY DEF Emptied, PageInHand
  <2>5. ArmedUntilLast(d)'
    BY DEF ArmedUntilLast, Accounting, PageInHand, OnePage
  <2> QED BY <2>1, <2>2, <2>3, <2>4, <2>5
<1>4. TrackCounted' /\ TerminatedAtEnd'
  BY DEF TrackCounted, TerminatedAtEnd, TypeOK, ChannelInv, Accounting, ArmedUntilLast, Active, Emptied, PageInHand
<1>5. NotCutShort' /\ ReadNeverRunsOff' /\ NeverStranded'
  BY DEF NotCutShort, ReadNeverRunsOff, NeverStranded, TypeOK, ChannelInv, Accounting, PageInHand, ArmedUntilLast, Active
<1> QED BY <1>1, <1>2, <1>3, <1>4, <1>5

(* The disarm of a channel that was not reloaded ends a whole transfer (atblock_w). *)
LEMMA KernelDisarmsKeeps == ASSUME ChainInv, NEW c \in Channels, KernelDisarms(c) PROVE ChainInv'
<1> USE ChannelsAssumption, BytesAssumption
<1> USE DEF ChainInv, bus, KernelDisarms, Disarm, ir1_w, Latches, PulseEndsCommand, pic
<1>1. TypeOK'
  BY DEF TypeOK, Phase, KernelStep, ChannelInv, TrackCounted, Accounting
<1>2. LineFollowsDmaint' /\ (level => irr = ir1 /\ overtaken = {})'
  BY DEF LineFollowsDmaint, TypeOK, Active, ChannelInv, PageInHand, Emptied
<1>3. ASSUME NEW d \in Channels PROVE ChannelInv(d)'
  <2> USE DEF ChannelInv, TypeOK, Active
  <2>1. Accounting(d)'
    BY DEF Accounting
  <2>2. PageInHand(d)'
    BY DEF PageInHand, OnePage
  <2>3. OnePage(d)'
    BY DEF OnePage, PageInHand
  <2>4. Emptied(d)'
    BY DEF Emptied, PageInHand
  <2>5. ArmedUntilLast(d)'
    BY DEF ArmedUntilLast, Accounting, PageInHand, OnePage
  <2> QED BY <2>1, <2>2, <2>3, <2>4, <2>5
<1>4. TrackCounted' /\ TerminatedAtEnd'
  BY DEF TrackCounted, TerminatedAtEnd, TypeOK, ChannelInv, Accounting, ArmedUntilLast, Active, Emptied, PageInHand
<1>5. NotCutShort' /\ ReadNeverRunsOff' /\ NeverStranded'
  BY DEF NotCutShort, ReadNeverRunsOff, NeverStranded, TypeOK, ChannelInv, Accounting, PageInHand, ArmedUntilLast, Active
<1> QED BY <1>1, <1>2, <1>3, <1>4, <1>5

(* The channel is armed again with its page in hand (atblock_w). *)
LEMMA KernelArmsKeeps == ASSUME ChainInv, NEW c \in Channels, KernelArms(c) PROVE ChainInv'
<1> USE ChannelsAssumption, BytesAssumption
<1> USE DEF ChainInv, bus, KernelArms, pic, device
<1>1. TypeOK'
  BY DEF TypeOK, Phase, KernelStep, ChannelInv, TrackCounted, Accounting
<1>2. LineFollowsDmaint' /\ (level => irr = ir1 /\ overtaken = {})'
  BY DEF LineFollowsDmaint, TypeOK, Active, ChannelInv, PageInHand, Emptied
<1>3. ASSUME NEW d \in Channels PROVE ChannelInv(d)'
  <2> USE DEF ChannelInv, TypeOK, Active
  <2>1. Accounting(d)'
    BY DEF Accounting
  <2>2. PageInHand(d)'
    BY DEF PageInHand, OnePage
  <2>3. OnePage(d)'
    BY DEF OnePage, PageInHand
  <2>4. Emptied(d)'
    BY DEF Emptied, PageInHand
  <2>5. ArmedUntilLast(d)'
    BY DEF ArmedUntilLast, Accounting, PageInHand, OnePage
  <2> QED BY <2>1, <2>2, <2>3, <2>4, <2>5
<1>4. TrackCounted' /\ TerminatedAtEnd'
  BY DEF TrackCounted, TerminatedAtEnd, TypeOK, ChannelInv, Accounting, ArmedUntilLast, Active, Emptied, PageInHand
<1>5. NotCutShort' /\ ReadNeverRunsOff' /\ NeverStranded'
  BY DEF NotCutShort, ReadNeverRunsOff, NeverStranded, TypeOK, ChannelInv, Accounting, PageInHand, ArmedUntilLast, Active
<1> QED BY <1>1, <1>2, <1>3, <1>4, <1>5

(* A byte of the diskette, with all that dma_write and dma_eop_w do for it. *)
LEMMA FdByteKeeps == ASSUME ChainInv, FdByte PROVE ChainInv'
<1> USE ChannelsAssumption, BytesAssumption
<1> USE DEF ChainInv, bus, FdByte, ByteMoves, Wants, dma_hrq_w, dma_tc_w, ir1_w, Latches, CountByte, LastOfTrack, EopReachesFdc, IsrOutrunsPage, pic, kernel
<1>0. /\ got[Floppy] \in 0..MaxBytes /\ count[Floppy] \in 1..PageBytes
      /\ got[Floppy] + 1 <= MaxBytes /\ left \in Nat \ {0}
      /\ fdcount \in Nat /\ fdmax \in Nat
      /\ reading => fdmax <= got[Floppy] + left /\ fdcount = got[Floppy] /\ got[Floppy] < fdmax
  BY DEF TypeOK, ChannelInv, TrackCounted, Accounting
<1>1. TypeOK'
  <2>1. fdmax' \in Nat /\ fdcount' \in Nat /\ left' \in Nat
    BY <1>0
  <2>2. got' \in [Channels -> 0..MaxBytes] /\ count' \in [Channels -> 0..PageBytes]
    BY <1>0 DEF TypeOK
  <2> QED BY <2>1, <2>2 DEF TypeOK
<1>2. LineFollowsDmaint' /\ (level => irr = ir1 /\ overtaken = {})'
  BY DEF LineFollowsDmaint, TypeOK, Active, ChannelInv, PageInHand, Emptied
<1>3. ASSUME NEW d \in Channels PROVE ChannelInv(d)'
  <2> USE DEF ChannelInv, TypeOK, Active
  <2>1. Accounting(d)'
    BY DEF Accounting
  <2>2. PageInHand(d)'
    BY DEF PageInHand, OnePage
  <2>3. OnePage(d)'
    BY DEF OnePage, PageInHand
  <2>4. Emptied(d)'
    BY DEF Emptied, PageInHand
  <2>5. ArmedUntilLast(d)'
    BY DEF ArmedUntilLast, Accounting, PageInHand, OnePage
  <2> QED BY <2>1, <2>2, <2>3, <2>4, <2>5
<1>4. TrackCounted' /\ TerminatedAtEnd'
  BY DEF TrackCounted, TerminatedAtEnd, TypeOK, ChannelInv, Accounting, ArmedUntilLast, Active, Emptied, PageInHand
<1>5. NotCutShort' /\ ReadNeverRunsOff' /\ NeverStranded'
  <2>1. NotCutShort' /\ ReadNeverRunsOff'
    BY DEF NotCutShort, ReadNeverRunsOff, TypeOK
  <2>2. ASSUME NEW d \in Channels, (phase[d] = "busy" /\ count[d] = 0 /\ got[d] < want[d])'
        PROVE  (d \in dmaint /\ (irr \/ d \in served \/ d \in overtaken))'
    <3>1. CASE d = Floppy
      <4>1. loaded'[d] < want'[d]
        BY <2>2, <1>3, <1>1 DEF ChannelInv, Accounting, TypeOK
      <4>2. d \in dmaint'
        BY <2>2, <1>3, <4>1 DEF ChannelInv, ArmedUntilLast, Active
      <4>3. count[d] = 1 /\ d \in dmaen
        BY <2>2, <3>1, <4>1 DEF ChannelInv, ArmedUntilLast, Active, TypeOK
      <4> QED BY <3>1, <4>2, <4>3
    <3>2. CASE d # Floppy
      <4>1. phase[d] = "busy" /\ count[d] = 0 /\ got[d] < want[d]
        BY <2>2, <3>2 DEF TypeOK
      <4>2. d \in dmaint /\ (irr \/ d \in served \/ d \in overtaken)
        BY <4>1 DEF NeverStranded
      <4> QED BY <4>2, <3>2
    <3> QED BY <3>1, <3>2
  <2> QED BY <2>1, <2>2 DEF NeverStranded
<1> QED BY <1>1, <1>2, <1>3, <1>4, <1>5

(* A byte of the SCSI controller, with the terminal count of its page. *)
LEMMA ScsiByteKeeps == ASSUME ChainInv, NEW c \in Channels, ScsiByte(c) PROVE ChainInv'
<1> USE ChannelsAssumption, BytesAssumption
<1> USE DEF ChainInv, bus, ScsiByte, ByteMoves, Wants, dma_hrq_w, dma_tc_w, ir1_w, Latches, IsrOutrunsPage, pic, kernel
<1>0. got[c] \in 0..MaxBytes /\ count[c] \in 1..PageBytes /\ got[c] + 1 <= MaxBytes
  BY DEF TypeOK
<1>1. TypeOK'
  <2>1. got' \in [Channels -> 0..MaxBytes] /\ count' \in [Channels -> 0..PageBytes]
    BY <1>0 DEF TypeOK
  <2>2. dmaint' \subseteq Channels /\ dmafilled' \subseteq Channels
    BY DEF TypeOK
  <2>3. ir1' \in BOOLEAN /\ irr' \in BOOLEAN
    BY DEF TypeOK
  <2> QED BY <2>1, <2>2, <2>3 DEF TypeOK
<1>2. LineFollowsDmaint' /\ (level => irr = ir1 /\ overtaken = {})'
  BY DEF LineFollowsDmaint, TypeOK, Active, ChannelInv, PageInHand, Emptied
<1>3. ASSUME NEW d \in Channels PROVE ChannelInv(d)'
  <2> USE DEF ChannelInv, TypeOK, Active
  <2>1. Accounting(d)'
    BY DEF Accounting
  <2>2. PageInHand(d)'
    BY DEF PageInHand, OnePage
  <2>3. OnePage(d)'
    BY DEF OnePage, PageInHand
  <2>4. Emptied(d)'
    BY DEF Emptied, PageInHand
  <2>5. ArmedUntilLast(d)'
    BY DEF ArmedUntilLast, Accounting, PageInHand, OnePage
  <2> QED BY <2>1, <2>2, <2>3, <2>4, <2>5
<1>4. TrackCounted' /\ TerminatedAtEnd'
  BY DEF TrackCounted, TerminatedAtEnd, TypeOK, ChannelInv, Accounting, ArmedUntilLast, Active, Emptied, PageInHand
<1>5. NotCutShort' /\ ReadNeverRunsOff' /\ NeverStranded'
  <2>1. NotCutShort' /\ ReadNeverRunsOff'
    BY DEF NotCutShort, ReadNeverRunsOff, TypeOK
  <2>2. ASSUME NEW d \in Channels, (phase[d] = "busy" /\ count[d] = 0 /\ got[d] < want[d])'
        PROVE  (d \in dmaint /\ (irr \/ d \in served \/ d \in overtaken))'
    <3>1. CASE d = c
      <4>1. loaded'[d] < want'[d]
        BY <2>2, <1>3, <1>1 DEF ChannelInv, Accounting, TypeOK
      <4>2. d \in dmaint'
        BY <2>2, <1>3, <4>1 DEF ChannelInv, ArmedUntilLast, Active
      <4>3. count[d] = 1 /\ d \in dmaen
        BY <2>2, <3>1, <4>1 DEF ChannelInv, ArmedUntilLast, Active, TypeOK
      <4> QED BY <3>1, <4>2, <4>3
    <3>2. CASE d # c
      <4>1. phase[d] = "busy" /\ count[d] = 0 /\ got[d] < want[d]
        BY <2>2, <3>2 DEF TypeOK
      <4>2. d \in dmaint /\ (irr \/ d \in served \/ d \in overtaken)
        BY <4>1 DEF NeverStranded
      <4> QED BY <4>2, <3>2
    <3> QED BY <3>1, <3>2
  <2> QED BY <2>1, <2>2 DEF NeverStranded
<1> QED BY <1>1, <1>2, <1>3, <1>4, <1>5

(* A controller asks for the bus, or gives it back unused (dma_hrq_w). *)
LEMMA BusKeeps == ASSUME ChainInv, NEW c \in Channels, AsksBus(c) \/ LeavesBus(c) PROVE ChainInv'
<1> USE DEF ChainInv, AsksBus, LeavesBus, dma_hrq_w
<1>1. TypeOK'
  BY DEF TypeOK, driver, pic, kernel, device
<1>2. UNCHANGED <<driver, pic, kernel, count, device>>
  OBVIOUS
<1> QED
  BY <1>1, <1>2 DEF driver, pic, kernel, device, LineFollowsDmaint, ChannelInv, Accounting,
     PageInHand, OnePage, Emptied, ArmedUntilLast, Active, TrackCounted, TerminatedAtEnd,
     NotCutShort, ReadNeverRunsOff, NeverStranded

(* A transfer ends, by success, by running off the track or by failing. *)
LEMMA EndsKeeps ==
  ASSUME ChainInv, NEW c \in Channels, FdcSucceeds \/ ScsiSucceeds(c) \/ FdcRunsOff \/ DeviceFails(c)
  PROVE  ChainInv'
<1> USE ChannelsAssumption, BytesAssumption
<1> USE DEF ChainInv, bus, FdcSucceeds, ScsiSucceeds, FdcRunsOff, DeviceFails, Ends, driver, pic, kernel
<1>1. TypeOK'
  BY DEF TypeOK, Phase
<1>2. LineFollowsDmaint' /\ (level => irr = ir1 /\ overtaken = {})'
  BY DEF LineFollowsDmaint, Active, TypeOK, Phase
<1>3. ASSUME NEW d \in Channels PROVE ChannelInv(d)'
  BY DEF ChannelInv, Accounting, PageInHand, OnePage, Emptied, ArmedUntilLast, Active, TypeOK
<1>4. TrackCounted' /\ TerminatedAtEnd'
  BY DEF TrackCounted, TerminatedAtEnd, TypeOK
<1>5. NotCutShort' /\ ReadNeverRunsOff' /\ NeverStranded'
  BY DEF NotCutShort, ReadNeverRunsOff, NeverStranded, TypeOK, ChannelInv, Accounting, PageInHand, ArmedUntilLast, Active, TrackCounted, TerminatedAtEnd
<1> QED BY <1>1, <1>2, <1>3, <1>4, <1>5

(* A reset of the machine may leave bits set, channels armed and a read      *)
(* counted; no transfer is under way that they could harm (machine_reset).   *)
LEMMA ResetKeeps == ASSUME ChainInv, machine_reset PROVE ChainInv'
<1> USE ChannelsAssumption, BytesAssumption
<1> USE DEF ChainInv, bus, machine_reset, NothingUnderWay, driver
<1>0. 0 \in 0..MaxBytes /\ 0 \in 0..PageBytes
  OBVIOUS
<1>1. TypeOK'
  BY <1>0, Zenon DEF TypeOK, Phase, KernelStep
<1>2. LineFollowsDmaint' /\ (level => irr = ir1 /\ overtaken = {})'
  BY DEF LineFollowsDmaint, TypeOK, Active
<1>3. ASSUME NEW d \in Channels PROVE ChannelInv(d)'
  BY DEF ChannelInv, Accounting, PageInHand, OnePage, Emptied, ArmedUntilLast, Active
<1>4. TrackCounted' /\ TerminatedAtEnd'
  BY DEF TrackCounted, TerminatedAtEnd
<1>5. NotCutShort' /\ ReadNeverRunsOff' /\ NeverStranded'
  BY DEF NotCutShort, ReadNeverRunsOff, NeverStranded
<1> QED BY <1>1, <1>2, <1>3, <1>4, <1>5

-----------------------------------------------------------------------------
(* Every step of the kernel, the driver and the devices keeps the inductive  *)
(* invariant.                                                                *)
LEMMA NextKeeps == ChainInv /\ [Next]_vars => ChainInv'
<1> SUFFICES ASSUME ChainInv, [Next]_vars PROVE ChainInv'
  OBVIOUS
<1>1. CASE IsrEnter
  BY <1>1, IsrEnterKeeps
<1>2. CASE FdByte
  BY <1>2, FdByteKeeps
<1>3. CASE FdcSucceeds \/ FdcRunsOff
  BY <1>3, EndsKeeps, ChannelsAssumption
<1>4. ASSUME NEW c \in Channels, Setup(c) \/ Issue(c) \/ Release(c) PROVE ChainInv'
  BY <1>4, SetupKeeps, IssueKeeps, ReleaseKeeps
<1>5. ASSUME NEW c \in Channels, IsrLoad(c) \/ IsrClose(c) PROVE ChainInv'
  BY <1>5, IsrLoadKeeps, IsrCloseKeeps
<1>6. ASSUME NEW c \in Channels, KernelDisarms(c) \/ KernelArms(c) PROVE ChainInv'
  BY <1>6, KernelDisarmsKeeps, KernelArmsKeeps
<1>7. ASSUME NEW c \in Channels, ScsiByte(c) \/ ScsiSucceeds(c) \/ DeviceFails(c) PROVE ChainInv'
  BY <1>7, ScsiByteKeeps, EndsKeeps
<1>8. CASE machine_reset
  BY <1>8, ResetKeeps
<1>9. ASSUME NEW c \in Channels, AsksBus(c) \/ LeavesBus(c) PROVE ChainInv'
  BY <1>9, BusKeeps
<1>10. CASE UNCHANGED vars
  BY <1>10 DEF vars, driver, pic, kernel, device, bus, ChainInv, NeverStranded, TypeOK, LineFollowsDmaint, ChannelInv,
              Accounting, PageInHand, OnePage, Emptied, ArmedUntilLast, Active, TrackCounted,
              TerminatedAtEnd, NotCutShort, ReadNeverRunsOff
<1> QED BY <1>1, <1>2, <1>3, <1>4, <1>5, <1>6, <1>7, <1>8, <1>9, <1>10 DEF Next

(* The machine starts with nothing armed, pending or under way. *)
LEMMA InitHolds == Init => ChainInv
<1> SUFFICES ASSUME Init PROVE ChainInv
  OBVIOUS
<1> USE ChannelsAssumption, BytesAssumption DEF Init
<1>0. 0 \in 0..MaxBytes /\ 0 \in 0..PageBytes
  OBVIOUS
<1>1. TypeOK
  BY <1>0, Zenon DEF TypeOK, Phase, KernelStep
<1>2. ASSUME NEW c \in Channels PROVE ChannelInv(c)
  BY DEF ChannelInv, Accounting, PageInHand, OnePage, Emptied, ArmedUntilLast, Active
<1>3. LineFollowsDmaint /\ irr = ir1 /\ overtaken = {} /\ TrackCounted /\ TerminatedAtEnd
  BY DEF LineFollowsDmaint, Active, TrackCounted, TerminatedAtEnd
<1>4. NotCutShort /\ ReadNeverRunsOff /\ NeverStranded
  BY DEF NotCutShort, ReadNeverRunsOff, NeverStranded
<1> QED BY <1>1, <1>2, <1>3, <1>4 DEF ChainInv

(* ChainInv holds in every state of every run: the driver, the kernel's handler  *)
(* and the devices may take turns in any order.                              *)
THEOREM Invariance == Spec => []ChainInv
BY InitHolds, NextKeeps, PTL DEF Spec

(* The types of all the variables; in particular no counter of dma_write or  *)
(* of the channels goes below zero.                                          *)
THEOREM TypeCorrect == Spec => []TypeOK
<1>1. ChainInv => TypeOK
  BY DEF ChainInv
<1> QED BY <1>1, Invariance, PTL

(* The shared interrupt line is up for every bit of a transfer under way     *)
(* that waits for its page, and down when no bit is set (dma_tc_w, atblock_w). *)
THEOREM LineCorrect == Spec => []LineFollowsDmaint
<1>1. ChainInv => LineFollowsDmaint
  BY DEF ChainInv
<1> QED BY <1>1, Invariance, PTL

(* The diskette controller never reports success with bytes missing          *)
(* (dma_eop_w, atblock_w), for every page size and every length.             *)
THEOREM NeverCutShort == Spec => []NotCutShort
<1>1. ChainInv => NotCutShort
  BY DEF ChainInv
<1> QED BY <1>1, Invariance, PTL

(* A read never runs past its last sector (fdc_cmd_byte, dma_write).         *)
THEOREM ReadsEndInTime == Spec => []ReadNeverRunsOff
<1>1. ChainInv => ReadNeverRunsOff
  BY DEF ChainInv
<1> QED BY <1>1, Invariance, PTL

(* A transfer of one page never has its chaining interrupt armed or raised   *)
(* (atblock_w).                                                              *)
THEOREM OnePageIsQuiet == Spec => []SinglePageQuiet
<1>1. ChainInv => SinglePageQuiet
  BY DEF ChainInv, SinglePageQuiet, ChannelInv, OnePage, Active
<1> QED BY <1>1, Invariance, PTL

(* A channel that ran out of its page has a request pending or a handler     *)
(* that knows of it, in either mode of the bank, unless the bank took no     *)
(* request because the line was up (dma_tc_w, atblock_w); and that never     *)
(* happens to a level-triggered one.                                         *)
THEOREM NoneStranded == Spec => [](NeverStranded /\ (level => overtaken = {}))
<1>1. ChainInv => NeverStranded /\ (level => overtaken = {})
  BY DEF ChainInv
<1> QED BY <1>1, Invariance, PTL

-----------------------------------------------------------------------------
(* The transfer promised to who uses a channel, whichever it is.             *)
Transfer(c) == INSTANCE DiskTransfer
                 WITH stage <- Stage(c), asked <- want[c], moved <- got[c]

(* Each step of the system is a step of the transfer promised on a channel,  *)
(* or leaves it alone, whatever goes on in the others.                       *)
LEMMA TransferStep ==
  ASSUME NEW s \in Channels, ChainInv, [Next]_vars
  PROVE  [Transfer(s)!Next]_(Transfer(s)!vars)
<1> USE ChannelsAssumption DEF Transfer!Next, Transfer!vars, Stage
<1>1. ASSUME NEW c \in Channels, Setup(c) PROVE [Transfer(s)!Next]_(Transfer(s)!vars)
  BY <1>1 DEF Setup, Transfer!Ask, ChainInv, TypeOK
<1>2. ASSUME NEW c \in Channels, Issue(c) PROVE UNCHANGED Transfer(s)!vars
  BY <1>2 DEF Issue, kernel, ChainInv, TypeOK
<1>3. ASSUME NEW c \in Channels, Release(c) PROVE [Transfer(s)!Next]_(Transfer(s)!vars)
  BY <1>3 DEF Release, Transfer!Forget, ChainInv, TypeOK
<1>4. CASE IsrEnter \/ \E c \in Channels : IsrLoad(c) \/ IsrClose(c)
  BY <1>4 DEF IsrEnter, IsrLoad, IsrClose, device
<1>5. CASE \E c \in Channels : KernelDisarms(c) \/ KernelArms(c)
  BY <1>5 DEF KernelDisarms, KernelArms, device
<1>6. ASSUME NEW c \in Channels, ByteMoves(c), UNCHANGED <<kernel, phase>>
      PROVE  [Transfer(s)!Next]_(Transfer(s)!vars)
  <2>1. CASE c # s
    BY <1>6, <2>1 DEF ByteMoves, kernel, ChainInv, TypeOK
  <2>2. CASE c = s
    <3>1. phase[s] = "busy" /\ got[s] < want[s]
      BY <1>6, <2>2 DEF ByteMoves, Wants, ChainInv, TypeOK, ChannelInv, Accounting
    <3>2. got'[s] = got[s] + 1 /\ want' = want
      BY <1>6, <2>2 DEF ByteMoves, kernel, ChainInv, TypeOK
    <3> QED BY <1>6, <3>1, <3>2 DEF Transfer!Move
  <2> QED BY <2>1, <2>2
<1>7. CASE FdByte \/ \E c \in Channels : ScsiByte(c)
  BY <1>6, <1>7 DEF FdByte, ScsiByte
<1>8. CASE FdcSucceeds
  BY <1>8 DEF FdcSucceeds, Ends, kernel, Transfer!Succeed, ChainInv, TypeOK, TerminatedAtEnd
<1>9. ASSUME NEW c \in Channels, ScsiSucceeds(c) PROVE [Transfer(s)!Next]_(Transfer(s)!vars)
  BY <1>9 DEF ScsiSucceeds, Ends, kernel, Transfer!Succeed, ChainInv, TypeOK
<1>10. ASSUME NEW c \in Channels, FdcRunsOff \/ DeviceFails(c)
       PROVE  [Transfer(s)!Next]_(Transfer(s)!vars)
  BY <1>10 DEF FdcRunsOff, DeviceFails, Ends, kernel, Transfer!Fail, ChainInv, TypeOK
<1>11. CASE machine_reset
  BY <1>11 DEF machine_reset, NothingUnderWay, Transfer!Forget
<1>12. CASE \E c \in Channels : AsksBus(c) \/ LeavesBus(c)
  BY <1>12 DEF AsksBus, LeavesBus, kernel, device
<1>13. CASE UNCHANGED vars
  BY <1>13 DEF vars, kernel, device
<1> QED BY <1>1, <1>2, <1>3, <1>4, <1>5, <1>7, <1>8, <1>9, <1>10, <1>11, <1>12, <1>13 DEF Next

(* Every channel, the diskette's and the SCSI controller's, starts as the    *)
(* promised transfer starts and takes only its steps; that it also makes     *)
(* progress is in FloppyTransfer and ScsiTransfer, which the runs check      *)
(* (dma_eop_w, dma_tc_w, atblock_w).                                         *)
THEOREM ChannelsRefine ==
  ASSUME NEW s \in Channels
  PROVE  Spec => Transfer(s)!Init /\ [][Transfer(s)!Next]_(Transfer(s)!vars)
<1>1. Init => Transfer(s)!Init
  BY ChannelsAssumption DEF Init, Transfer!Init, Stage
<1>2. ChainInv /\ [Next]_vars => [Transfer(s)!Next]_(Transfer(s)!vars)
  BY TransferStep
<1> QED BY <1>1, <1>2, Invariance, PTL DEF Spec

(* The same of the diskette's channel, in the words of FloppyTransfer.       *)
THEOREM FloppyRefines == Spec => Fd!Init /\ [][Fd!Next]_(Fd!vars)
<1>1. Init => Fd!Init
  BY ChannelsAssumption DEF Init, Fd!Init, Stage
<1>2. ChainInv /\ [Next]_vars => [Fd!Next]_(Fd!vars)
  <2>1. ChainInv /\ [Next]_vars => [Transfer(Floppy)!Next]_(Transfer(Floppy)!vars)
    BY ChannelsAssumption, TransferStep
  <2> QED
    BY <2>1 DEF Transfer!Next, Transfer!vars, Transfer!Ask, Transfer!Move, Transfer!Succeed,
                Transfer!Fail, Transfer!Forget, Fd!Next, Fd!vars, Fd!Ask, Fd!Move, Fd!Succeed,
                Fd!Fail, Fd!Forget
<1> QED BY <1>1, <1>2, Invariance, PTL DEF Spec
=============================================================================
