------------------------------- MODULE MCSpif -------------------------------
(* The flash driver on a chip of one block: two sectors of two pages of two  *)
(* bytes.                                                                    *)
EXTENDS Spif

Call(fns, ats, sizes, offsets) == [fn : fns, at : ats, size : sizes, offset : offsets]

(* Calls of every kind, whose offset does not cut a page; some go beyond the *)
(* end of the chip.                                                          *)
PlainCalls ==
    Call({"WriteAddress"}, 1 .. 3, {1, 4}, {0}) \cup
    Call({"WriteAddress"}, {4}, {6}, {0}) \cup
    Call({"WritePage"}, {1}, {1, 3}, {0, 1, 2}) \cup
    Call({"WriteSector"}, {0, 2}, {3}, {0, 2, 4}) \cup
    Call({"WriteBlock"}, {0}, {5}, {4}) \cup
    Call({"EraseSector"}, {1, 2}, {1}, {0}) \cup
    Call({"EraseBlock", "EraseChip"}, {0}, {1}, {0}) \cup
    Call({"ReadAddress"}, {3}, {4}, {0}) \cup
    Call({"ReadPage", "ReadSector", "ReadBlock"}, {0}, {9}, {0})

(* What local_storage.c calls. *)
GlueCalls ==
    Call({"WriteAddress"}, {1, 2}, {2, 5}, {0}) \cup
    Call({"EraseSector"}, {0, 1}, {1}, {0}) \cup
    Call({"ReadAddress"}, {1}, {4}, {0})

AnyFault    == FaultKinds
StatusFault == {"status"}
=============================================================================
