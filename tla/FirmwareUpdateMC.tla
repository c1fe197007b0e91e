-------------------------- MODULE FirmwareUpdateMC --------------------------
(* A slot of three cells in two erase blocks, and an update of each kind.  *)
EXTENDS FirmwareUpdate, TLC

CONSTANTS v1, v8   \* a short version text and one of exactly 8 characters

MCVersions    == {v1, v8}
MCShort       == {v1}
MCExact       == {v8}
MCSectorOf    == [c \in Cells |-> c \div 2]
MCImageBlocks == (v1 :> 2) @@ (v8 :> 1)
MCFullSlot    == (v1 :> LastCell + 1) @@ (v8 :> 1)
=============================================================================
