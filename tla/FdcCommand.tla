----------------------------- MODULE FdcCommand -----------------------------
(***************************************************************************)
(* The diskette controller's command port.  The driver watches the bytes   *)
(* the kernel writes to it (fdc_cmd_byte) to learn how many bytes a read   *)
(* can deliver, and the controller parses the same bytes on its own.  The  *)
(* two parsers are never told of each other: what keeps the driver's count *)
(* right is that they agree on where a command starts.  A reset, through   *)
(* the output register or of the machine, is told to the controller only.  *)
(***************************************************************************)
EXTENDS Naturals, Sequences, FiniteSets

CONSTANTS Opcodes,        \* the first bytes of the commands the kernel gives
          Params          \* the bytes it gives at each other place of a command

(* Byte 5 of a command, where it has one, is a size code.                    *)
ASSUME BytesAssumption == /\ Opcodes \subseteq 0..255
                          /\ Params \in [1..8 -> SUBSET (0..255)] /\ Params[5] \subseteq 0..7

VARIABLES fdcmd, fdcmdpos, fdcmdlen, fdmax,   \* the driver
          command,                            \* the bytes the controller holds
          executing,                          \* the command it executes, or <<>>
          astray                              \* history: a reset came in mid command,
                                              \* and no command began in step since

driver == <<fdcmd, fdcmdpos, fdcmdlen, fdmax>>
vars == <<driver, command, executing, astray>>

(* (Mutation: the length of SPECIFY and SEEK a byte short.)                  *)
fdc_cmd_len_Short(c) ==
  LET op == c % 32
  IN  CASE op \in {5, 6, 9, 12, 17, 22, 25} -> 9
        [] op = 13 -> 6
        [] op = 19 -> 4
        [] op \in {3, 4, 7, 10, 15, 18} -> 2
        [] OTHER -> 1

(* The bytes each command takes, as the driver has them: the low five bits   *)
(* say which command it is.                                                  *)
fdc_cmd_len(c) ==
  LET op == c % 32
  IN  CASE op \in {5, 6, 9, 12, 17, 22, 25} -> 9
        [] op = 13 -> 6
        [] op = 19 -> 4
        [] op \in {3, 15} -> 3
        [] op \in {4, 7, 10, 18} -> 2
        [] OTHER -> 1

(* As the controllers of the uPD765 family have them: the opcode, and        *)
(*   with every command that goes through sectors, scans and verify too, the *)
(*     drive, four bytes of the sector's identity, the last sector, the gap  *)
(*     and the data length;                                                  *)
(*   with format the drive, size, sectors, gap and filler;                   *)
(*   with configure three bytes, with specify two, with seek the drive and   *)
(*     the cylinder;                                                         *)
(*   with recalibrate, sense drive, read id and perpendicular mode one byte. *)
SectorCommands == {2, 5, 6, 9, 12, 17, 22, 25, 29}

ControllerLen(c) ==
  LET op == c % 32
  IN  1 + CASE op \in SectorCommands -> 8
            [] op = 13               -> 5
            [] op = 19               -> 3
            [] op \in {3, 15}        -> 2
            [] op \in {4, 7, 10, 18} -> 1
            [] OTHER                 -> 0

IsRead(c) == c % 32 = 6
SectorBytes(n) == 2 ^ (7 + (n % 8))

(* A read delivers the sectors from the first (byte 4) to the last of the    *)
(* track (byte 6), each of the size in byte 5; bytes are numbered from 0.    *)
ReadLength(cmd) ==
  IF IsRead(cmd[0]) /\ cmd[6] >= cmd[4]
    THEN (cmd[6] - cmd[4] + 1) * SectorBytes(cmd[5])
    ELSE 0

(* The parser never stores a byte outside m_fdcmd and never waits for more   *)
(* than nine, whatever it is fed.                                            *)
ParserInBounds == /\ fdcmdlen \in 1..9
                  /\ fdcmdpos \in Nat /\ fdcmdpos < fdcmdlen

TypeOK ==
  /\ ParserInBounds
  /\ fdcmd \in [0..8 -> 0..255]
  /\ fdmax \in Nat
  /\ command \in Seq(0..255) /\ Len(command) < 9
  /\ executing \in Seq(0..255) /\ Len(executing) <= 9
  /\ astray \in BOOLEAN

Init == /\ fdcmd = [i \in 0..8 |-> 0] /\ fdcmdpos = 0 /\ fdcmdlen = 1 /\ fdmax = 0
        /\ command = <<>> /\ executing = <<>> /\ astray = FALSE

(* (Mutation: what the command before counted is not forgotten.)             *)
fdc_cmd_byte_KeepsMax(b) ==
  /\ fdcmdlen' = IF fdcmdpos = 0 THEN fdc_cmd_len(b) ELSE fdcmdlen
  /\ fdcmd' = [fdcmd EXCEPT ![fdcmdpos] = b]
  /\ IF fdcmdpos + 1 >= fdcmdlen'
       THEN /\ fdcmdpos' = 0
            /\ fdmax' = IF fdcmdlen' = 9 /\ ReadLength(fdcmd') > 0 THEN ReadLength(fdcmd') ELSE fdmax
       ELSE fdcmdpos' = fdcmdpos + 1 /\ fdmax' = fdmax

(* (Mutation: the command ends a byte late.)                                 *)
fdc_cmd_byte_Late(b) ==
  /\ fdcmdlen' = IF fdcmdpos = 0 THEN fdc_cmd_len(b) ELSE fdcmdlen
  /\ fdcmd' = [fdcmd EXCEPT ![fdcmdpos] = b]
  /\ IF fdcmdpos + 1 > fdcmdlen'
       THEN fdcmdpos' = 0 /\ fdmax' = IF fdcmdlen' = 9 THEN ReadLength(fdcmd') ELSE 0
       ELSE fdcmdpos' = fdcmdpos + 1 /\ fdmax' = fdmax

(* The driver's parser.  Nothing is counted before the command is complete,  *)
(* and a complete command that is no read is not counted at all.             *)
fdc_cmd_byte(b) ==
  /\ fdcmdlen' = IF fdcmdpos = 0 THEN fdc_cmd_len(b) ELSE fdcmdlen
  /\ fdcmd' = [fdcmd EXCEPT ![fdcmdpos] = b]
  /\ IF fdcmdpos + 1 >= fdcmdlen'
       THEN fdcmdpos' = 0 /\ fdmax' = IF fdcmdlen' = 9 THEN ReadLength(fdcmd') ELSE 0
       ELSE fdcmdpos' = fdcmdpos + 1 /\ fdmax' = fdmax

(* The controller's parser. *)
fifo_w(b) ==
  LET more == Append(command, b)
  IN  IF Len(more) = ControllerLen(more[1])
        THEN command' = <<>> /\ executing' = more
        ELSE command' = more /\ UNCHANGED executing

(* The kernel writes a byte of a command, when the controller asks for one.  *)
WriteByte ==
  /\ executing = <<>>
  /\ \E b \in IF command = <<>> THEN Opcodes ELSE Params[Len(command)] :
       fdc_cmd_byte(b) /\ fifo_w(b)
  /\ astray' = (astray /\ ~(command = <<>> /\ fdcmdpos = 0))

(* The command ends and its results are read.  If it was a read, the count   *)
(* was used up (dma_write) or the read failed and it was not.                *)
CommandEnds ==
  /\ executing # <<>>
  /\ executing' = <<>>
  /\ fdmax' \in {0, fdmax}
  /\ UNCHANGED <<fdcmd, fdcmdpos, fdcmdlen, command, astray>>

(* The reset bit of the digital output register, or a reset of the machine:  *)
(* the controller forgets what it holds.  The driver passes the write on and *)
(* does nothing else, and machine_reset leaves its parser where it was.      *)
fdc_dor_w ==
  /\ command' = <<>> /\ executing' = <<>>
  /\ astray' = (astray \/ command # <<>>)
  /\ UNCHANGED driver

Next == WriteByte \/ CommandEnds \/ fdc_dor_w
Spec == Init /\ [][Next]_vars

-----------------------------------------------------------------------------
(* The two parsers agree on where a command starts (the comment on           *)
(* fdc_cmd_len: how many bytes each command takes, so the read parameters    *)
(* can be read off).  Only a reset in mid command parts them, and they stay  *)
(* together again from the first command both begin.                         *)
Synchronised == command = <<>> /\ ~astray => fdcmdpos = 0

(* What a read finds on the side it begins on: every sector from the first   *)
(* to the last, each of the length its size code stands for.  A multi-track  *)
(* read would go on to the other side, which the driver does not count.      *)
SectorLength(n) == 128 * <<1, 2, 4, 8, 16, 32, 64, 128>>[n + 1]
Delivered(cmd) == Cardinality(cmd[5]..cmd[7]) * SectorLength(cmd[6])

(* While a command executes the driver's count is that command's own: the    *)
(* bytes of the sectors the read finds, and nothing for a command that is no *)
(* read, whatever the one before left behind and wherever the controller was *)
(* reset (fdc_cmd_byte).                                                     *)
CountIsOfCommand ==
  executing # <<>> /\ ~astray =>
    fdmax = IF IsRead(executing[1]) THEN Delivered(executing) ELSE 0

-----------------------------------------------------------------------------
(* The controller waits for the rest of a command it has the length of, and  *)
(* holds the bytes the kernel gave.                                          *)
ControllerWaits ==
  /\ command # <<>> => command[1] \in Opcodes /\ Len(command) < ControllerLen(command[1])
  /\ \A i \in 2..Len(command) : command[i] \in Params[i - 1]

(* In step, both parsers hold the same bytes of the same command.            *)
Together ==
  ~astray => /\ fdcmdpos = Len(command)
             /\ command # <<>> => fdcmdlen = fdc_cmd_len(command[1])
             /\ \A i \in 1..Len(command) : fdcmd[i - 1] = command[i]

(* All of it: what holds after every byte, end of a command and reset, if no *)
(* opcode is one of which the driver has the length wrong.                   *)
ParsersInv == TypeOK /\ ControllerWaits /\ Together /\ CountIsOfCommand
=============================================================================
