-------------------------------- MODULE Spif --------------------------------
(***************************************************************************)
(* The SPI flash driver Core/storage/spif/src/spif.c and the flash chip      *)
(* under it.                                                                *)
(*                                                                         *)
(* One action per SPI transaction of the driver (what happens between       *)
(* SPIF_CsPin(0) and SPIF_CsPin(1)); the chip, external to the repository,  *)
(* programs and erases on its own between them, and ignores every command   *)
(* but a status read while it does.  HAL may fail any transaction; the chip *)
(* may then have seen it or not, or a part of the data.                     *)
(*                                                                         *)
(* Bytes are abstract: byte i of the n-th call is the value <<n, i>>.       *)
(***************************************************************************)
EXTENDS Integers, FiniteSets

CONSTANTS
    PAGE, SECTOR, BLOCK,   \* sizes in bytes, each dividing the next
    CHIP_BLOCKS,           \* blocks the chip has
    KNOWN_SIZE,            \* its JEDEC size code is one of SPIF_FindChip's
    Calls,                 \* the calls a client may make
    Timeout,               \* status reads before SPIF_WaitForWriting gives up
    Faults,                \* what may go wrong: subset of FaultKinds
    MaxFaults, MaxCalls    \* bounds of the exploration

FaultKinds == {"command", "status", "slow"}
Writes == {"WriteAddress", "WritePage", "WriteSector", "WriteBlock"}
Erases == {"EraseSector", "EraseBlock", "EraseChip"}
Reads  == {"ReadAddress", "ReadPage", "ReadSector", "ReadBlock"}

ASSUME SpifAssumption ==
    /\ PAGE \in Nat \ {0} /\ SECTOR \in Nat \ {0} /\ BLOCK \in Nat \ {0}
    /\ SECTOR % PAGE = 0 /\ BLOCK % SECTOR = 0
    /\ CHIP_BLOCKS \in Nat \ {0} /\ KNOWN_SIZE \in BOOLEAN
    /\ Calls \subseteq [fn : Writes \cup Erases \cup Reads, at : Nat, size : Nat \ {0}, offset : Nat]
    /\ \A c \in Calls : c.fn \in Erases => c.offset = 0
    /\ Timeout \in Nat \ {0} /\ Faults \subseteq FaultKinds
    /\ MaxFaults \in Nat /\ MaxCalls \in Nat

VARIABLES
    pc,        \* where the driver is; "idle" between calls
    Inited, Lock, BlockCnt,    \* fields of SPIF_HandleTypeDef
    call,      \* the call in progress, or the last one
    page, pageOffset,          \* where the next SPIF_WriteFn goes
    remaining, index,          \* bytes left, bytes passed on
    ok,        \* retVal of the function in progress
    waited,    \* status reads of this SPIF_WaitForWriting
    rx,        \* bytes the last read delivered
    \* the chip
    mem,       \* what its bytes hold
    wel,       \* write enable latch
    pending,   \* bytes being programmed or erased, with their new values
    \* history and bounds
    before,    \* what the chip held, or was about to, when the call began
    early,     \* a write enable or a read has met a busy chip
    calls, faults

handle == <<Inited, Lock, BlockCnt>>
loop   == <<page, pageOffset, remaining, index>>
chip   == <<mem, wel, pending>>
vars   == <<pc, handle, call, loop, ok, waited, rx, chip, before, early, calls, faults>>

SectorCnt == BlockCnt * (BLOCK \div SECTOR)
PageCnt   == (SectorCnt * SECTOR) \div PAGE

Cells   == 0 .. (CHIP_BLOCKS * BLOCK - 1)
Erased  == <<0, 0>>
Garbled == <<0, 1>>                   \* ones of two values and-ed together
Data(i) == <<calls, i>>

Least(a, b) == IF a < b THEN a ELSE b
Busy == DOMAIN pending # {}
(* What the chip holds once it has finished what it is doing. *)
Settled == [c \in Cells |-> IF c \in DOMAIN pending THEN pending[c] ELSE mem[c]]
Nothing == [c \in {} |-> Erased]

Fault(kind) == kind \in Faults /\ faults < MaxFaults /\ faults' = faults + 1
NoFault == faults' = faults
-----------------------------------------------------------------------------
(* The chip. *)

(* A programmed bit can only go from 1 to 0. *)
Programmed(old, new) == IF old \in {Erased, new} THEN new ELSE Garbled

Accepts == wel /\ ~Busy

(* Page program: n bytes from index on, wrapping inside the page. *)
ProgramBytes(n) ==
    LET cell(i) == page * PAGE + ((pageOffset + i) % PAGE)
    IN  [c \in {cell(i) : i \in 0 .. n - 1} \cap Cells |->
            LET i == CHOOSE j \in 0 .. n - 1 : cell(j) = c
            IN  Programmed(mem[c], Data(index + i))]

EraseBytes(first, n) == [c \in first .. first + n - 1 |-> Erased]

Execute(bytes) == pending' = IF Accepts THEN bytes ELSE pending

ChipFinishes == /\ Busy
                /\ mem' = Settled /\ pending' = Nothing /\ wel' = FALSE
                /\ UNCHANGED <<pc, handle, call, loop, ok, waited, rx, before, early, calls, faults>>
-----------------------------------------------------------------------------
(* SPIF_Init and SPIF_FindChip. *)

SPIF_Init == /\ pc = "reset" /\ Inited = 0
             /\ pc' = "init"
             /\ UNCHANGED <<handle, call, loop, ok, waited, rx, chip, before, early, calls, faults>>

InitWriteDisable ==
    /\ pc = "init"
    /\ \/ NoFault /\ pc' = "find_chip"
       \/ Fault("command") /\ pc' = "failed"
    /\ wel' = FALSE
    /\ UNCHANGED <<handle, call, loop, ok, waited, rx, mem, pending, before, early, calls>>

(* An unknown size code leaves BlockCnt at 0, and is no error. *)
FindChip ==
    /\ pc = "find_chip"
    /\ \/ /\ NoFault /\ pc' = "idle"
          /\ Inited' = 1
          /\ BlockCnt' = IF KNOWN_SIZE THEN CHIP_BLOCKS ELSE 0
       \/ Fault("command") /\ pc' = "failed" /\ UNCHANGED <<Inited, BlockCnt>>
    /\ UNCHANGED <<Lock, call, loop, ok, waited, rx, chip, before, early, calls>>
-----------------------------------------------------------------------------
(* The API functions up to their first transaction. *)

Finish(result) == pc' = "unlock" /\ ok' = result

Enter == /\ pc = "idle" /\ calls < MaxCalls
         /\ \E c \in Calls : call' = c
         /\ calls' = calls + 1
         /\ before' = Settled
         /\ pc' = "lock"
         /\ UNCHANGED <<handle, loop, ok, waited, rx, chip, early, faults>>

(* while (Handle->Lock) SPIF_Delay(1); *)
TakeLock == /\ pc = "lock" /\ Lock = 0
            /\ Lock' = 1
            /\ pc' = "start"
            /\ UNCHANGED <<Inited, BlockCnt, call, loop, ok, waited, rx, chip, before, early, calls, faults>>

(* The unit a write's number counts: a byte, a page, a sector or a block. *)
Unit(fn) == CASE fn \in {"WriteAddress", "ReadAddress"} -> 1
              [] fn \in {"WritePage", "ReadPage"} -> PAGE
              [] fn \in {"WriteSector", "ReadSector", "EraseSector"} -> SECTOR
              [] OTHER -> BLOCK

StartWrite ==
    /\ pc = "start" /\ call.fn \in Writes
    /\ LET unit  == Unit(call.fn)
           first == call.at * unit + call.offset
       IN IF call.fn \in {"WriteSector", "WriteBlock"} /\ call.offset >= unit
          THEN Finish(FALSE) /\ UNCHANGED loop
          ELSE /\ page' = IF call.fn = "WritePage" THEN call.at ELSE first \div PAGE
               /\ pageOffset' = IF call.fn = "WritePage" THEN call.offset ELSE first % PAGE
               /\ remaining' = IF call.fn \in {"WriteSector", "WriteBlock"}
                               THEN Least(call.size, unit - call.offset) ELSE call.size
               /\ index' = 0
               /\ pc' = "write_fn" /\ UNCHANGED ok
    /\ UNCHANGED <<handle, call, waited, rx, chip, before, early, calls, faults>>

(* What the loop around SPIF_WriteFn asks it to write, and what of it        *)
(* SPIF_WriteFn writes: it cuts at the end of the page.                      *)
Asked_NoMin == PAGE - pageOffset                     \* mutant: the rest of the page, always
Asked_Page == Least(remaining, PAGE)                 \* mutant: the offset is forgotten

Asked == CASE call.fn = "WriteAddress" -> Least(remaining, PAGE - pageOffset)
           [] call.fn = "WritePage"    -> remaining
           [] OTHER                    -> Least(remaining, PAGE)
Length == Least(Asked, PAGE - pageOffset)

(* The checks of SPIF_WriteFn; even when they fail it ends with a            *)
(* SPIF_WriteDisable.                                                        *)
WriteFn ==
    /\ pc = "write_fn"
    /\ IF page >= PageCnt \/ pageOffset >= PAGE
       THEN pc' = "disable" /\ ok' = FALSE
       ELSE pc' = "enable" /\ UNCHANGED ok
    /\ UNCHANGED <<handle, call, loop, waited, rx, chip, before, early, calls, faults>>

StartErase ==
    /\ pc = "start" /\ call.fn \in Erases
    /\ LET count == CASE call.fn = "EraseSector" -> SectorCnt
                      [] call.fn = "EraseBlock"  -> BlockCnt
                      [] OTHER                   -> call.at + 1
       IN IF call.at >= count THEN pc' = "disable" /\ ok' = FALSE
                              ELSE pc' = "enable" /\ UNCHANGED ok
    /\ UNCHANGED <<handle, call, loop, waited, rx, chip, before, early, calls, faults>>
-----------------------------------------------------------------------------
(* The transactions. *)

WriteEnable ==
    /\ pc = "enable"
    /\ \/ NoFault /\ pc' = "command" /\ wel' = (wel \/ ~Busy) /\ UNCHANGED ok
       \/ /\ Fault("command") /\ pc' = "disable" /\ ok' = FALSE
          /\ wel' \in {wel, wel \/ ~Busy}
    /\ early' = (early \/ Busy)
    /\ UNCHANGED <<handle, call, loop, waited, rx, mem, pending, before, calls>>

(* SPIF_WriteFn sends command, address and data under one chip select.       *)
ProgramPage ==
    /\ pc = "command" /\ call.fn \in Writes
    /\ \/ NoFault /\ Execute(ProgramBytes(Length)) /\ pc' = "wait" /\ UNCHANGED ok
       \/ /\ Fault("command") /\ pc' = "disable" /\ ok' = FALSE
          /\ \E n \in 0 .. Length : Execute(ProgramBytes(n))
    /\ waited' = 0
    /\ UNCHANGED <<handle, call, loop, rx, mem, wel, before, early, calls>>

Erasing_Byte ==                                      \* mutant: the number is not scaled
    IF call.fn = "EraseChip" THEN EraseBytes(0, CHIP_BLOCKS * BLOCK)
    ELSE EraseBytes(call.at, Unit(call.fn))

Erasing == IF call.fn = "EraseChip" THEN EraseBytes(0, CHIP_BLOCKS * BLOCK)
           ELSE EraseBytes(call.at * Unit(call.fn), Unit(call.fn))
Erase ==
    /\ pc = "command" /\ call.fn \in Erases
    /\ \/ NoFault /\ Execute(Erasing) /\ pc' = "wait" /\ UNCHANGED ok
       \/ /\ Fault("command") /\ pc' = "disable" /\ ok' = FALSE
          /\ (Execute(Erasing) \/ UNCHANGED pending)
    /\ waited' = 0
    /\ UNCHANGED <<handle, call, loop, rx, mem, wel, before, early, calls>>

(* SPIF_ReadReg1 answers 0 when its transaction fails.                       *)
BusyBit(failed) == IF failed THEN FALSE ELSE Busy

(* One turn of SPIF_WaitForWriting.  A sound chip is done in time.           *)
WaitForWriting ==
    /\ pc = "wait"
    /\ \/ /\ waited = Timeout
          /\ ok' = FALSE /\ pc' = "disable" /\ NoFault /\ UNCHANGED waited
       \/ /\ waited < Timeout
          /\ \E failed \in BOOLEAN :
               \/ /\ BusyBit(failed)
                  /\ waited' = waited + 1 /\ UNCHANGED <<ok, pc>>
                  /\ \/ ~failed /\ waited' < Timeout /\ NoFault
                     \/ ~failed /\ waited' = Timeout /\ Fault("slow")
               \/ /\ ~BusyBit(failed)
                  /\ ok' = TRUE /\ pc' = "disable" /\ UNCHANGED waited
                  /\ \/ ~failed /\ NoFault
                     \/ failed /\ Fault("status")
    /\ UNCHANGED <<handle, call, loop, rx, chip, before, early, calls>>

(* SPIF_WriteDisable, its result ignored, then the loop of the caller.       *)
Disabled(next) ==
    /\ pc = "disable"
    /\ \/ NoFault /\ wel' = (wel /\ Busy)
       \/ Fault("command") /\ wel' \in {wel, wel /\ Busy}
    /\ pc' = next
    /\ UNCHANGED <<handle, call, waited, rx, mem, pending, before, early, calls>>

LastPage == \* exclusive bound of the loops in SPIF_WriteSector and SPIF_WriteBlock
    ((call.at + 1) * Unit(call.fn)) \div PAGE

GoesOn_Always == TRUE                                \* mutant: no break after a failure
GoesOn == ok

NextChunk ==
    /\ call.fn \in Writes /\ GoesOn
    /\ page' = page + 1 /\ pageOffset' = 0
    /\ index' = index + Asked
    /\ remaining' = remaining - Asked
    /\ IF \/ call.fn = "WritePage" \/ remaining' = 0
          \/ call.fn \in {"WriteSector", "WriteBlock"} /\ page' >= LastPage
       THEN Disabled("unlock") ELSE Disabled("write_fn")
    /\ UNCHANGED ok

Done == /\ call.fn \in Erases \/ ~GoesOn
        /\ Disabled("unlock")
        /\ UNCHANGED <<loop, ok>>

(* SPIF_ReadAddress and its kin: ReadPage, ReadSector and ReadBlock shorten  *)
(* the read by Offset but start at the first byte of the unit.  A busy chip  *)
(* answers nothing sensible, and nothing asks whether it is busy.            *)
ReadStart(c) == c.at * Unit(c.fn)
ReadSize(c)  == IF c.fn = "ReadAddress" \/ c.offset > Unit(c.fn)   \* SIZE - Offset wraps
                THEN c.size ELSE Least(c.size, Unit(c.fn) - c.offset)

Read ==
    /\ pc = "start" /\ call.fn \in Reads
    /\ \/ /\ NoFault /\ Finish(TRUE)
          /\ rx' = [i \in 0 .. ReadSize(call) - 1 |->
                       IF Busy THEN Garbled
                       ELSE mem[(ReadStart(call) + i) % Cardinality(Cells)]]
       \/ Fault("command") /\ Finish(FALSE) /\ UNCHANGED rx
    /\ early' = (early \/ Busy)
    /\ UNCHANGED <<handle, call, loop, waited, chip, before, calls>>

Released_OnSuccess == Lock' = IF ok THEN 0 ELSE Lock  \* mutant: an error path keeps the lock
Released == Lock' = 0

UnLock == /\ pc = "unlock"
          /\ Released /\ pc' = "idle"
          /\ UNCHANGED <<Inited, BlockCnt, call, loop, ok, waited, rx, chip, before, early, calls, faults>>

(* The client has made its calls, or the chip did not answer.                *)
Stopped == (pc = "failed" \/ (pc = "idle" /\ calls = MaxCalls)) /\ UNCHANGED vars

Init ==
    /\ pc = "reset" /\ Inited = 0 /\ Lock = 0 /\ BlockCnt = 0
    /\ call = [fn |-> "none", at |-> 0, size |-> 0, offset |-> 0]
    /\ page = 0 /\ pageOffset = 0 /\ remaining = 0 /\ index = 0
    /\ ok = FALSE /\ waited = 0 /\ rx = Nothing
    /\ mem = [c \in Cells |-> Erased] /\ wel = FALSE /\ pending = Nothing
    /\ before = mem /\ early = FALSE /\ calls = 0 /\ faults = 0

Driver == \/ SPIF_Init \/ InitWriteDisable \/ FindChip
          \/ TakeLock \/ StartWrite \/ WriteFn \/ StartErase \/ Read
          \/ WriteEnable \/ ProgramPage \/ Erase \/ WaitForWriting
          \/ NextChunk \/ Done \/ UnLock

Next == Enter \/ Driver \/ ChipFinishes \/ Stopped

Spec == Init /\ [][Next]_vars

(* The single thread of the program keeps running, and so does the chip.     *)
FairSpec == Spec /\ WF_vars(Driver) /\ WF_vars(ChipFinishes)
-----------------------------------------------------------------------------
TypeOK ==
    /\ pc \in {"reset", "init", "find_chip", "failed", "idle", "lock", "start", "write_fn",
               "enable", "command", "wait", "disable", "unlock"}
    /\ Inited \in {0, 1} /\ Lock \in {0, 1} /\ BlockCnt \in Nat
    /\ page \in Nat /\ pageOffset \in Nat /\ remaining \in Nat /\ index \in Nat
    /\ ok \in BOOLEAN /\ waited \in 0 .. Timeout
    /\ DOMAIN mem = Cells /\ wel \in BOOLEAN /\ DOMAIN pending \subseteq Cells
    /\ early \in BOOLEAN /\ calls \in 0 .. MaxCalls /\ faults \in 0 .. MaxFaults

(* The bytes a call names: from its unit's first byte plus its offset, at    *)
(* most to the end of the unit.                                              *)
First(c) == c.at * Unit(c.fn) + c.offset
Count(c) == IF c.fn \in {"WriteAddress", "ReadAddress"} THEN c.size
            ELSE Least(c.size, Unit(c.fn) - c.offset)
Touched(c) == CASE c.fn = "EraseChip" -> Cells
                [] c.fn \in Erases \ {"EraseChip"} -> First(c) .. First(c) + Unit(c.fn) - 1
                [] c.fn \in Writes -> First(c) .. First(c) + Count(c) - 1
                [] OTHER -> {}

Returned(fns) == pc = "unlock" /\ call.fn \in fns

(* A write that returned true wrote every byte it was given (spif.c 638:     *)
(* "BYTES WITERN DONE"), however the pages cut it.                           *)
WriteDone ==
    Returned(Writes) /\ ok =>
        \A i \in 0 .. Count(call) - 1 :
            Settled[First(call) + i] = Programmed(before[First(call) + i], Data(i))

(* An erase that returned true erased its unit (842, 905).                   *)
EraseDone == Returned(Erases) /\ ok => \A c \in Touched(call) : Settled[c] = Erased

(* A read that returned true delivered the bytes it names (692).             *)
ReadExact ==
    Returned(Reads) /\ ok =>
        rx = [i \in 0 .. Count(call) - 1 |-> before[First(call) + i]]

(* No call ever changes a byte outside those it names, not even when SPI     *)
(* fails in the middle of it (littlefs keeps other files in those bytes).    *)
Confined == calls > 0 => \A c \in Cells \ Touched(call) : Settled[c] = before[c]

(* A write that failed has written a beginning of its data, never a later    *)
(* part without an earlier one, if the chip was idle when it was asked.      *)
FailedWriteIsPrefix ==
    Returned({"WriteAddress"}) /\ ~ok /\ ~early =>
        \E n \in 0 .. call.size :
            \A i \in 0 .. call.size - 1 :
                LET c == First(call) + i
                IN  c \in Cells =>
                      Settled[c] = IF i < n THEN Programmed(before[c], Data(i)) ELSE before[c]

(* Whatever transactions fail, a call that returns true has done exactly what *)
(* it was asked, written, erased or delivered its bytes, as long as the       *)
(* driver has not sent a command to a busy chip.  That it does not wait is    *)
(* the only way to lose data.                                                *)
ExactOnIdleChip == ~early => WriteDone /\ EraseDone /\ ReadExact

(* Every call returns: no failure leaves the lock taken or the wait for the  *)
(* chip without end (74-88, 396-415).                                        *)
CallsEnd == pc = "lock" ~> pc = "idle"

=============================================================================
