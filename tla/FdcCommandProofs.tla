-------------------------- MODULE FdcCommandProofs --------------------------
(***************************************************************************)
(* The two parsers of the command port for any opcodes and parameters: the *)
(* driver's never leaves its array, and as long as the kernel gives no     *)
(* command of which the driver has the length wrong, it starts each        *)
(* command with the controller and counts it by its own bytes, but for     *)
(* the commands that are under way after a reset in mid command.           *)
(***************************************************************************)
EXTENDS FdcCommand, SequenceTheorems, FiniteSetTheorems, TLAPS

(* Every command takes between one and nine bytes (fdc_cmd_len).             *)
LEMMA LengthBounds == ASSUME NEW c PROVE fdc_cmd_len(c) \in 1..9 /\ ControllerLen(c) \in 1..9
BY DEF fdc_cmd_len, ControllerLen, SectorCommands

(* The driver and the controller give a command the same length, but for     *)
(* read track and the last of the scans (fdc_cmd_len).                       *)
LEMMA LengthsAgree ==
  ASSUME NEW c, c % 32 \notin {2, 29} PROVE ControllerLen(c) = fdc_cmd_len(c)
BY DEF ControllerLen, fdc_cmd_len, SectorCommands

(* Whatever the size code, the driver's shift gives a number (fdc_cmd_byte); *)
(* it is the length of a sector when the code is one.                        *)
LEMMA SectorIsWhole ==
  ASSUME NEW n \in 0..255
  PROVE  SectorBytes(n) \in Nat /\ (n \in 0..7 => SectorBytes(n) = SectorLength(n))
<1>1. /\ 2 ^ 7 = 128 /\ 2 ^ 8 = 256 /\ 2 ^ 9 = 512 /\ 2 ^ 10 = 1024 /\ 2 ^ 11 = 2048
      /\ 2 ^ 12 = 4096 /\ 2 ^ 13 = 8192 /\ 2 ^ 14 = 16384
  BY SMT
<1>2. n % 8 \in 0..7 /\ (n \in 0..7 => n % 8 = n)
  BY SMT
<1>3. ASSUME NEW k \in 0..7 PROVE 2 ^ (7 + k) \in Nat /\ 2 ^ (7 + k) = SectorLength(k)
  <2>1. CASE k = 0
    BY <1>1, <2>1 DEF SectorLength
  <2>2. CASE k = 1
    BY <1>1, <2>2 DEF SectorLength
  <2>3. CASE k = 2
    BY <1>1, <2>3 DEF SectorLength
  <2>4. CASE k = 3
    BY <1>1, <2>4 DEF SectorLength
  <2>5. CASE k = 4
    BY <1>1, <2>5 DEF SectorLength
  <2>6. CASE k = 5
    BY <1>1, <2>6 DEF SectorLength
  <2>7. CASE k = 6
    BY <1>1, <2>7 DEF SectorLength
  <2>8. CASE k = 7
    BY <1>1, <2>8 DEF SectorLength
  <2> QED BY <2>1, <2>2, <2>3, <2>4, <2>5, <2>6, <2>7, <2>8
<1> QED BY <1>2, <1>3 DEF SectorBytes

(* The bytes of the sectors from a to b, of any size.                        *)
LEMMA BytesOfSectors ==
  ASSUME NEW a \in 0..255, NEW b \in 0..255, NEW size \in Nat
  PROVE  /\ Cardinality(a..b) * size \in Nat
         /\ Cardinality(a..b) * size = IF b >= a THEN (b - a + 1) * size ELSE 0
<1> DEFINE sectors == Cardinality(a..b)
<1>1. sectors = IF a > b THEN 0 ELSE b - a + 1
  <2>1. a \in Int /\ b \in Int
    OBVIOUS
  <2> QED BY <2>1, FS_Interval
<1>2. sectors \in Nat
  BY <1>1
<1> HIDE DEF sectors
<1>3. sectors * size \in Nat /\ 0 * size = 0
  BY <1>2
<1>4. sectors * size = IF b >= a THEN (b - a + 1) * size ELSE 0
  <2>1. CASE b >= a
    <3>1. sectors = b - a + 1
      BY <1>1, <2>1
    <3> QED BY <2>1, <3>1
  <2>2. CASE ~(b >= a)
    <3>1. sectors = 0
      BY <1>1, <2>2
    <3> QED BY <1>3, <2>2, <3>1
  <2> QED BY <2>1, <2>2
<1> QED BY <1>3, <1>4 DEF sectors

(* The length of a read is the bytes of the sectors from the first to the    *)
(* last, and none when the last comes before the first (fdc_cmd_byte).       *)
LEMMA ReadLengthIsDelivered ==
  ASSUME NEW f \in [0..8 -> 0..255], NEW cmd,
         f[0] = cmd[1], f[4] = cmd[5], f[5] = cmd[6], f[6] = cmd[7]
  PROVE  /\ ReadLength(f) \in Nat
         /\ cmd[6] \in 0..7 => ReadLength(f) = IF IsRead(cmd[1]) THEN Delivered(cmd) ELSE 0
<1> DEFINE a == f[4]
           b == f[6]
           size == SectorBytes(f[5])
<1>1. a \in 0..255 /\ b \in 0..255 /\ size \in Nat
  BY SectorIsWhole
<1>2. cmd[6] \in 0..7 => Delivered(cmd) = Cardinality(a..b) * size
  <2>1. f[5] \in 0..255 /\ f[5] = cmd[6]
    OBVIOUS
  <2>2. cmd[6] \in 0..7 => size = SectorLength(cmd[6])
    BY <2>1, SectorIsWhole
  <2> HIDE DEF size
  <2> QED BY <2>2 DEF Delivered
<1>3. ReadLength(f) = IF IsRead(cmd[1]) /\ b >= a THEN (b - a + 1) * size ELSE 0
  BY DEF ReadLength
<1> HIDE DEF a, b, size
<1>4. /\ Cardinality(a..b) * size \in Nat
      /\ Cardinality(a..b) * size = IF b >= a THEN (b - a + 1) * size ELSE 0
  BY <1>1, BytesOfSectors
<1> QED BY <1>2, <1>3, <1>4

(* The length of a read is a number, whatever the nine bytes hold.           *)
LEMMA ReadLengthIsNat == ASSUME NEW f \in [0..8 -> 0..255] PROVE ReadLength(f) \in Nat
<1> DEFINE cmd == [i \in 1..9 |-> f[i - 1]]
<1>1. f[0] = cmd[1] /\ f[4] = cmd[5] /\ f[5] = cmd[6] /\ f[6] = cmd[7]
  OBVIOUS
<1> HIDE DEF cmd
<1> QED BY <1>1, ReadLengthIsDelivered

-----------------------------------------------------------------------------
(* The parser stays within m_fdcmd whatever bytes it is fed, and however the *)
(* controller is reset in between (fdc_cmd_byte, fdc_dor_w).                 *)
THEOREM ParserStaysInBounds == Spec => []ParserInBounds
<1> USE DEF ParserInBounds
<1>1. Init => ParserInBounds
  BY DEF Init
<1>2. ParserInBounds /\ [Next]_vars => ParserInBounds'
  <2> SUFFICES ASSUME ParserInBounds, [Next]_vars PROVE ParserInBounds'
    OBVIOUS
  <2>1. ASSUME NEW b, fdc_cmd_byte(b) PROVE ParserInBounds'
    <3>1. fdcmdlen' \in 1..9
      BY <2>1, LengthBounds DEF fdc_cmd_byte
    <3> QED BY <2>1, <3>1 DEF fdc_cmd_byte
  <2>2. CASE WriteByte
    BY <2>1, <2>2 DEF WriteByte
  <2>3. CASE CommandEnds \/ fdc_dor_w \/ UNCHANGED vars
    BY <2>3 DEF CommandEnds, fdc_dor_w, vars, driver
  <2> QED BY <2>2, <2>3 DEF Next
<1> QED BY <1>1, <1>2, PTL DEF Spec

-----------------------------------------------------------------------------
(* A byte of a command keeps the invariant: into the driver's parser, into   *)
(* the controller's, and what both make of the last one.                     *)
LEMMA ByteKeepsStep ==
  ASSUME \A c \in Opcodes : c % 32 \notin {2, 29}, ParsersInv, WriteByte
  PROVE  ParsersInv'
<1> USE DEF ParserInBounds
<1>1. PICK b \in IF command = <<>> THEN Opcodes ELSE Params[Len(command)] :
        fdc_cmd_byte(b) /\ fifo_w(b)
  BY DEF WriteByte
<1> DEFINE more == Append(command, b)
<1>2. /\ command \in Seq(0..255) /\ Len(command) \in 0..8 /\ executing = <<>>
      /\ command # <<>> => Len(command) \in 1..8
  <2>1. command \in Seq(0..255) /\ Len(command) < 9 /\ executing = <<>>
    BY DEF ParsersInv, TypeOK, WriteByte
  <2> DEFINE n == Len(command)
  <2>2. n \in Nat /\ n < 9 /\ (command # <<>> => n # 0)
    BY <2>1, EmptySeq, LenProperties
  <2> HIDE DEF n
  <2>3. n \in 0..8 /\ (command # <<>> => n \in 1..8)
    BY <2>2
  <2> QED BY <2>1, <2>3 DEF n
<1>3. b \in 0..255
  BY <1>1, <1>2, BytesAssumption
<1>4. /\ more \in Seq(0..255) /\ Len(more) = Len(command) + 1 /\ more # <<>>
      /\ \A i \in 1..Len(command) : more[i] = command[i]
      /\ more[Len(command) + 1] = b
  BY <1>2, <1>3, AppendProperties
<1>5. more[1] = IF command = <<>> THEN b ELSE command[1]
  <2>1. CASE command = <<>>
    BY <1>4, <2>1
  <2>2. CASE command # <<>>
    BY <1>2, <1>4, <2>2
  <2> QED BY <2>1, <2>2
<1>6. more[1] \in Opcodes
  BY <1>1, <1>5 DEF ParsersInv, ControllerWaits
<1>s. \A i \in 2..Len(more) : more[i] \in Params[i - 1]
  <2> SUFFICES ASSUME NEW i \in 2..Len(more) PROVE more[i] \in Params[i - 1]
    OBVIOUS
  <2> DEFINE n == Len(command)
  <2>1. n \in 0..8 /\ i \in 2..(n + 1)
    BY <1>2, <1>4
  <2> HIDE DEF n
  <2>2. CASE i = n + 1
    <3>1. command # <<>> /\ i - 1 = n
      BY <2>1, <2>2, <1>2, EmptySeq DEF n
    <3> QED BY <1>1, <1>4, <2>2, <3>1 DEF n
  <2>3. CASE i # n + 1
    <3>1. i \in 2..n
      BY <2>1, <2>3
    <3>2. more[i] = command[i]
      BY <1>4, <3>1, <2>1 DEF n
    <3> QED BY <3>1, <3>2 DEF n, ParsersInv, ControllerWaits
  <2> QED BY <2>2, <2>3
<1>7. ControllerLen(more[1]) = fdc_cmd_len(more[1]) /\ ControllerLen(more[1]) \in 1..9
  BY <1>6, LengthsAgree, LengthBounds
<1>8. Len(more) <= ControllerLen(more[1])
  <2>1. CASE command = <<>>
    BY <1>4, <1>7, <2>1
  <2>2. CASE command # <<>>
    BY <1>2, <1>4, <1>5, <1>7, <2>2 DEF ParsersInv, ControllerWaits
  <2> QED BY <2>1, <2>2
<1>9. /\ fdcmdlen' \in 1..9 /\ fdcmdpos \in 0..8 /\ fdcmdpos' \in Nat /\ fdcmdpos' < fdcmdlen'
      /\ fdcmd' \in [0..8 -> 0..255]
      /\ fdcmd' = [fdcmd EXCEPT ![fdcmdpos] = b] /\ fdcmd \in [0..8 -> 0..255]
  <2>1. fdcmdlen' \in 1..9
    BY <1>1, LengthBounds DEF fdc_cmd_byte, ParsersInv, TypeOK
  <2>2. fdcmdpos \in 0..8 /\ fdcmdpos \in Nat /\ fdcmd \in [0..8 -> 0..255]
    BY DEF ParsersInv, TypeOK
  <2>3. fdcmd' = [fdcmd EXCEPT ![fdcmdpos] = b]
    BY <1>1 DEF fdc_cmd_byte
  <2>4. fdcmdpos' = IF fdcmdpos + 1 >= fdcmdlen' THEN 0 ELSE fdcmdpos + 1
    BY <1>1 DEF fdc_cmd_byte
  <2>5. fdcmdpos' \in Nat /\ fdcmdpos' < fdcmdlen'
    BY <2>1, <2>2, <2>4
  <2>6. fdcmd' \in [0..8 -> 0..255]
    BY <1>3, <2>2, <2>3
  <2> QED BY <2>1, <2>2, <2>3, <2>5, <2>6
<1>10. fdmax' \in Nat
  <2>1. ReadLength(fdcmd') \in Nat
    BY <1>9, ReadLengthIsNat
  <2> QED BY <1>1, <2>1 DEF fdc_cmd_byte, ParsersInv, TypeOK
<1>11. /\ command' \in Seq(0..255) /\ Len(command') < 9
       /\ executing' \in Seq(0..255) /\ Len(executing') <= 9
       /\ ControllerWaits'
  <2>1. CASE Len(more) = ControllerLen(more[1])
    <3>1. command' = <<>> /\ executing' = more
      BY <1>1, <2>1 DEF fifo_w
    <3>2. Len(command') = 0
      BY <3>1, EmptySeq
    <3> QED BY <1>4, <1>7, <2>1, <3>1, <3>2 DEF ControllerWaits
  <2>2. CASE Len(more) # ControllerLen(more[1])
    <3>1. command' = more /\ executing' = <<>>
      BY <1>1, <1>2, <2>2 DEF fifo_w
    <3>2. Len(more) < ControllerLen(more[1])
      BY <1>2, <1>4, <1>7, <1>8, <2>2
    <3> QED BY <1>s, <1>4, <1>6, <1>7, <3>1, <3>2 DEF ControllerWaits
  <2> QED BY <2>1, <2>2
<1>12. TypeOK'
  BY <1>9, <1>10, <1>11 DEF TypeOK, ParsersInv, WriteByte
<1>13. ASSUME ~astray'
       PROVE  Together' /\ CountIsOfCommand'
  <2>1. /\ fdcmdpos = Len(command)
        /\ command # <<>> => fdcmdlen = fdc_cmd_len(command[1])
        /\ \A i \in 1..Len(command) : fdcmd[i - 1] = command[i]
    <3>1. CASE ~astray
      BY <3>1 DEF ParsersInv, Together
    <3>2. CASE command = <<>> /\ fdcmdpos = 0
      BY <3>2
    <3> QED BY <1>13, <3>1, <3>2 DEF WriteByte
  <2>2. fdcmdlen' = ControllerLen(more[1])
    BY <1>1, <1>2, <1>5, <1>7, <2>1 DEF fdc_cmd_byte
  <2>3. \A i \in 1..Len(more) : fdcmd'[i - 1] = more[i]
    <3> TAKE i \in 1..Len(more)
    <3> DEFINE n == Len(command)
    <3>n. n \in 0..8 /\ i \in 1..(n + 1) /\ fdcmdpos = n /\ more[n + 1] = b
      BY <1>2, <1>4, <2>1
    <3> HIDE DEF n
    <3>1. CASE i = n + 1
      <4>1. i - 1 = fdcmdpos
        BY <3>n, <3>1
      <4>2. fdcmd'[fdcmdpos] = b
        BY <1>9
      <4> QED BY <3>n, <3>1, <4>1, <4>2
    <3>2. CASE i # n + 1
      <4>1. i \in 1..n /\ i - 1 # fdcmdpos /\ i - 1 \in 0..8
        BY <3>n, <3>2
      <4>2. fdcmd[i - 1] = command[i] /\ more[i] = command[i]
        BY <1>4, <2>1, <4>1 DEF n
      <4> QED BY <1>9, <4>1, <4>2
    <3> QED BY <3>1, <3>2
  <2>4. CASE Len(more) = ControllerLen(more[1])
    <3>1. command' = <<>> /\ executing' = more
      BY <1>1, <2>4 DEF fifo_w
    <3>2. fdcmdpos' = 0 /\ fdmax' = IF fdcmdlen' = 9 THEN ReadLength(fdcmd') ELSE 0
      BY <1>1, <1>2, <1>4, <2>1, <2>2, <2>4 DEF fdc_cmd_byte
    <3>3. Together'
      BY <3>1, <3>2 DEF Together
    <3>4. fdmax' = IF IsRead(more[1]) THEN Delivered(more) ELSE 0
      <4>1. CASE Len(more) = 9
        <5>1. /\ fdcmd'[0] = more[1] /\ fdcmd'[4] = more[5]
              /\ fdcmd'[5] = more[6] /\ fdcmd'[6] = more[7]
          BY <2>3, <4>1
        <5>s. more[6] \in 0..7
          BY <1>s, <4>1, BytesAssumption
        <5>2. ReadLength(fdcmd') = IF IsRead(more[1]) THEN Delivered(more) ELSE 0
          BY <1>9, <5>1, <5>s, ReadLengthIsDelivered
        <5> QED BY <2>2, <2>4, <3>2, <4>1, <5>2
      <4>2. CASE Len(more) # 9
        <5>1. ~IsRead(more[1])
          BY <2>4, <4>2 DEF IsRead, ControllerLen, SectorCommands
        <5> QED BY <2>2, <2>4, <3>2, <4>2, <5>1
      <4> QED BY <4>1, <4>2
    <3> QED BY <3>1, <3>3, <3>4 DEF CountIsOfCommand
  <2>5. CASE Len(more) # ControllerLen(more[1])
    <3>1. command' = more /\ executing' = <<>>
      BY <1>1, <1>2, <2>5 DEF fifo_w
    <3>2. fdcmdpos' = fdcmdpos + 1
      BY <1>1, <1>2, <1>4, <1>7, <1>8, <2>1, <2>2, <2>5 DEF fdc_cmd_byte
    <3>3. fdcmdpos' = Len(more) /\ fdcmdlen' = fdc_cmd_len(more[1])
      BY <1>2, <1>4, <1>7, <2>1, <2>2, <3>2
    <3> QED BY <2>3, <3>1, <3>3 DEF Together, CountIsOfCommand
  <2> QED BY <2>4, <2>5
<1>14. Together' /\ CountIsOfCommand'
  BY <1>13 DEF Together, CountIsOfCommand
<1> QED BY <1>11, <1>12, <1>14 DEF ParsersInv

(* Every step of the kernel and the controller keeps the invariant.          *)
LEMMA StepKeepsStep ==
  ASSUME \A c \in Opcodes : c % 32 \notin {2, 29}, ParsersInv, [Next]_vars
  PROVE  ParsersInv'
<1> USE DEF ParsersInv, TypeOK, ParserInBounds, ControllerWaits, Together, CountIsOfCommand
<1>1. CASE WriteByte
  BY <1>1, ByteKeepsStep
<1>2. CASE CommandEnds
  BY <1>2 DEF CommandEnds
<1>3. CASE fdc_dor_w
  <2>1. <<>> \in Seq(0..255) /\ Len(<<>>) = 0
    BY EmptySeq
  <2>2. /\ command' = <<>> /\ executing' = <<>> /\ UNCHANGED <<fdcmd, fdcmdpos, fdcmdlen, fdmax>>
        /\ astray' \in BOOLEAN
        /\ ~astray' => fdcmdpos = 0
    BY <1>3, <2>1 DEF fdc_dor_w, driver
  <2> QED BY <2>1, <2>2
<1>4. CASE UNCHANGED vars
  BY <1>4 DEF vars, driver
<1> QED BY <1>1, <1>2, <1>3, <1>4 DEF Next

(* The invariant holds of every behaviour (fdc_cmd_byte, fdc_dor_w).         *)
THEOREM ParserInvariant ==
  ASSUME \A c \in Opcodes : c % 32 \notin {2, 29} PROVE Spec => []ParsersInv
<1>1. ASSUME Init PROVE ParsersInv
  <2>1. <<>> \in Seq(0..255) /\ Len(<<>>) = 0
    BY EmptySeq
  <2>2. TypeOK
    <3>1. command \in Seq(0..255) /\ executing \in Seq(0..255) /\ Len(command) = 0 /\ Len(executing) = 0
      BY <1>1, <2>1 DEF Init
    <3>2. /\ fdcmd \in [0..8 -> 0..255] /\ fdcmdpos = 0 /\ fdcmdlen = 1 /\ fdmax = 0
      BY <1>1 DEF Init
    <3>3. astray \in BOOLEAN
      BY <1>1, Zenon DEF Init
    <3> QED BY <3>1, <3>2, <3>3 DEF TypeOK, ParserInBounds
  <2>3. Together
    BY <1>1, <2>1 DEF Init, Together
  <2> QED BY <1>1, <2>2, <2>3 DEF Init, ParsersInv, ControllerWaits, CountIsOfCommand
<1>2. ParsersInv /\ [Next]_vars => ParsersInv'
  BY StepKeepsStep
<1> QED BY <1>1, <1>2, PTL DEF Spec

(* The driver and the controller start each command together, unless a reset *)
(* came in mid command and no command has begun in step since                *)
(* (fdc_cmd_byte, fdc_dor_w).                                                *)
THEOREM StaysSynchronised ==
  ASSUME \A c \in Opcodes : c % 32 \notin {2, 29} PROVE Spec => []Synchronised
<1>1. ParsersInv => Synchronised
  BY DEF ParsersInv, Together, Synchronised
<1> QED BY <1>1, ParserInvariant, PTL

(* The count is that of the command in execution: of a read the bytes        *)
(* between its first and last sector, of any other command none              *)
(* (fdc_cmd_byte).                                                           *)
THEOREM CountsItsOwn ==
  ASSUME \A c \in Opcodes : c % 32 \notin {2, 29} PROVE Spec => []CountIsOfCommand
<1>1. ParsersInv => CountIsOfCommand
  BY DEF ParsersInv
<1> QED BY <1>1, ParserInvariant, PTL
=============================================================================
