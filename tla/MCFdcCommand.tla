---------------------------- MODULE MCFdcCommand ----------------------------
(* Commands of nine bytes, three and one, and parameters that are sector     *)
(* numbers, a size code and, taken for an opcode after a reset, a read       *)
(* without the MFM bit and a command of one byte.                            *)
EXTENDS FdcCommand

ReadData == 70
SenseInterrupt == 8
Seek == 15
Read == 6

KernelOpcodes == {ReadData, SenseInterrupt, Seek}
Parameters == [place \in 1..8 |-> CASE place = 2 -> {Read}
                                     [] place \in {4, 6} -> {Read, SenseInterrupt}
                                     [] place = 5 -> {2}
                                     [] OTHER -> {SenseInterrupt}]
=============================================================================
