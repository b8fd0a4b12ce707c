----------------------------- MODULE MCDmaChain -----------------------------
(* Two channels, as the kernel's tables assign them: the diskette on group 0 *)
(* channel 2 and the SCSI controller on group 1 channel 3.                   *)
EXTENDS DmaChain

CONSTANTS fd, sd

BothChannels == {fd, sd}
BothSizes    == {0, 1}

Sd == INSTANCE DiskTransfer
        WITH stage <- Stage(sd), asked <- want[sd], moved <- got[sd]

(* The SCSI channel, too, carries out the transfer that was promised: no     *)
(* terminal count ends it, and every page after the first comes only through *)
(* the chaining interrupt it shares with the diskette (dma_tc_w, atblock_w). *)
ScsiTransfer == /\ Sd!Init /\ [][Sd!Next]_(Sd!vars)
                /\ Sd!Progress \/ <>[](sd \in overtaken)
=============================================================================
