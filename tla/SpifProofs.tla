----------------------------- MODULE SpifProofs ------------------------------
(***************************************************************************)
(* Proofs that the flash driver stays within the bytes it is called for, for *)
(* every page, sector, block and chip size, any calls and any failures.     *)
(***************************************************************************)
EXTENDS Spif, FiniteSetTheorems, TLAPS

(* A byte address as a page and an offset in it (927-929).                   *)
LEMMA Split ==
    \A n, k \in Nat : k > 0 =>
        n \div k \in Nat /\ n % k \in 0 .. k - 1 /\ (n \div k) * k + (n % k) = n
  OBVIOUS

LEMMA NextPage ==
    ASSUME NEW p \in Nat, NEW k \in Nat PROVE p * k \in Nat /\ (p + 1) * k = p * k + k
  BY SMT

LEMMA Monotone ==
    ASSUME NEW a \in Nat, NEW b \in Nat, a <= b, NEW k \in Nat
    PROVE  a * k \in Nat /\ b * k \in Nat /\ a * k <= b * k
<1> DEFINE d == b - a
<1>1. d \in Nat /\ b = a + d
  OBVIOUS
<1>2. b * k = a * k + d * k /\ a * k \in Nat /\ d * k \in Nat
  BY <1>1
<1> QED
  BY <1>2

LEMMA Units == ASSUME NEW fn PROVE Unit(fn) \in Nat /\ Unit(fn) > 0
  BY SpifAssumption DEF Unit

(* What a call is, as far as the driver's arithmetic goes.                   *)
LEMMA CallTyped ==
    ASSUME NEW c \in Calls
    PROVE  /\ c.fn \in Writes \cup Erases \cup Reads
           /\ c.at \in Nat /\ c.offset \in Nat /\ c.size \in Nat /\ c.size > 0
           /\ c.at * Unit(c.fn) \in Nat /\ First(c) \in Nat
           /\ First(c) = c.at * Unit(c.fn) + c.offset
<1>1. /\ c.fn \in Writes \cup Erases \cup Reads
      /\ c.at \in Nat /\ c.offset \in Nat /\ c.size \in Nat /\ c.size > 0
  BY SpifAssumption
<1>2. c.at * Unit(c.fn) \in Nat
  BY <1>1, Units, Monotone
<1> QED
  BY <1>1, <1>2 DEF First
-----------------------------------------------------------------------------
(* Where a call is: within the bytes it was made for, as long as it goes on.  *)
InCall  == {"lock", "start", "write_fn", "enable", "command", "wait", "disable", "unlock"}
Writing == {"write_fn", "enable", "command", "wait", "disable"}

Position == page * PAGE + pageOffset

OnTheChip == /\ call.fn = "EraseSector" => call.at < SectorCnt
             /\ call.fn = "EraseBlock"  => call.at < BlockCnt

WithinCall ==
    IF call.fn = "WritePage"
    THEN page = call.at /\ pageOffset = call.offset /\ remaining = call.size
    ELSE /\ pageOffset < PAGE
         /\ First(call) <= Position /\ Position + remaining <= First(call) + Count(call)

CallInv ==
    /\ BlockCnt \in {0, CHIP_BLOCKS}
    /\ pc \in InCall => call \in Calls /\ calls > 0
    /\ pc \in Writing /\ call.fn \in Writes => WithinCall
    /\ pc = "write_fn" => call.fn \in Writes
    /\ pc \in {"enable", "command"} =>
          IF call.fn \in Writes THEN pageOffset < PAGE ELSE call.fn \in Erases /\ OnTheChip

(* A write starts where its call says (918-937, 970-992).                    *)
LEMMA WriteStarts ==
    ASSUME TypeOK, call \in Calls, call.fn \in Writes, StartWrite
    PROVE  /\ page' \in Nat /\ pageOffset' \in Nat /\ remaining' \in Nat /\ index' \in Nat
           /\ pc' \in Writing => WithinCall'
<1> USE DEF TypeOK
<1> DEFINE first == call.at * Unit(call.fn) + call.offset
<1>0. PAGE \in Nat /\ PAGE > 0 /\ Unit(call.fn) \in Nat /\ Unit(call.fn) > 0
  BY SpifAssumption, Units
<1>1. first \in Nat /\ first = First(call) /\ call.at \in Nat /\ call.offset \in Nat /\ call.size \in Nat
  BY CallTyped
<1>2. /\ first \div PAGE \in Nat /\ first % PAGE \in 0 .. PAGE - 1
      /\ (first \div PAGE) * PAGE + (first % PAGE) = first
  BY <1>0, <1>1, Split
<1> HIDE DEF first
<1>3. CASE Finish(FALSE) /\ UNCHANGED loop
  BY <1>3 DEF Finish, loop, Writing
<1>4. CASE call.fn = "WritePage"
  <2>1. page' = call.at /\ pageOffset' = call.offset /\ remaining' = call.size /\ index' = 0
        /\ call' = call
    BY <1>4 DEF StartWrite
  <2> QED
    BY <1>1, <1>4, <2>1 DEF WithinCall
<1>5. CASE /\ call.fn # "WritePage"
           /\ ~(call.fn \in {"WriteSector", "WriteBlock"} /\ call.offset >= Unit(call.fn))
  <2>1. page' = first \div PAGE /\ pageOffset' = first % PAGE /\ index' = 0 /\ call' = call
    BY <1>5 DEF StartWrite, first
  <2>2. remaining' = Count(call) /\ remaining' \in Nat
    <3>1. remaining' = IF call.fn = "WriteAddress" THEN call.size
                       ELSE Least(call.size, Unit(call.fn) - call.offset)
      BY <1>5 DEF StartWrite, Writes
    <3>2. Count(call) = remaining'
      BY <1>5, <3>1 DEF Count, Writes
    <3>3. call.fn # "WriteAddress" => call.offset < Unit(call.fn)
      BY <1>0, <1>1, <1>5 DEF Writes
    <3> QED
      BY <1>0, <1>1, <3>1, <3>2, <3>3 DEF Least
  <2>3. Position' = first
    BY <1>2, <2>1 DEF Position
  <2>4. First(call') = first /\ Count(call') = Count(call) /\ call'.fn # "WritePage"
    BY <1>1, <1>5, <2>1
  <2>5. Count(call) \in Int
    BY <2>2
  <2>6. first <= Position' /\ Position' + remaining' <= first + Count(call) /\ pageOffset' < PAGE
    <3>1. first \in Nat /\ pageOffset' \in 0 .. PAGE - 1 /\ PAGE \in Nat
      BY <1>0, <1>1, <1>2, <2>1
    <3>2. remaining' = Count(call) /\ Position' = first
      BY <2>2, <2>3
    <3> QED
      BY <3>1, <3>2, <2>5
  <2>7. First(call') <= Position' /\ Position' + remaining' <= First(call') + Count(call')
    BY <2>4, <2>6
  <2>8. WithinCall'
    BY <2>4, <2>6, <2>7 DEF WithinCall
  <2> QED
    BY <1>2, <2>1, <2>2, <2>8
<1> QED
  BY <1>3, <1>4, <1>5 DEF StartWrite

(* ... and goes on page by page to where it ends (930-941, 985-1000).         *)
LEMMA WriteGoesOn ==
    ASSUME TypeOK, call \in Calls, WithinCall, pc = "disable", NextChunk
    PROVE  /\ page' \in Nat /\ pageOffset' \in Nat /\ remaining' \in Nat /\ index' \in Nat
           /\ pc' \in Writing => WithinCall' /\ pc' = "write_fn"
<1> USE DEF TypeOK
<1>0. PAGE \in Nat /\ PAGE > 0 /\ page \in Nat /\ call.size \in Nat
  BY SpifAssumption, CallTyped
<1>1. /\ page' = page + 1 /\ pageOffset' = 0 /\ index' = index + Asked
      /\ remaining' = remaining - Asked /\ call' = call
      /\ pc' \in {"unlock", "write_fn"}
      /\ pc' = "write_fn" => call.fn # "WritePage" /\ remaining' # 0
  BY DEF NextChunk, Disabled
<1>2. CASE call.fn = "WritePage"
  <2>1. Asked = remaining
    BY <1>2 DEF Asked
  <2> QED
    BY <1>0, <1>1, <1>2, <2>1 DEF Writing
<1>3. CASE call.fn # "WritePage"
  <2>1. /\ pageOffset < PAGE
        /\ First(call) <= Position /\ Position + remaining <= First(call) + Count(call)
    BY <1>3 DEF WithinCall
  <2>2. Asked \in Nat /\ Asked <= remaining
    BY <1>0, <1>3, <2>1 DEF Asked, Least
  <2>3. Asked # remaining => Asked >= PAGE - pageOffset
    BY <1>0, <1>3, <2>1 DEF Asked, Least
  <2>4. page * PAGE \in Nat /\ (page + 1) * PAGE = page * PAGE + PAGE
    BY <1>0, NextPage
  <2>5. Position = page * PAGE + pageOffset /\ Position' = page * PAGE + PAGE + 0
    BY <1>1, <2>4 DEF Position
  <2>6. First(call) \in Nat /\ Count(call) \in Int
    BY CallTyped, Units DEF Count, Least
  <2>7. remaining' # 0 =>
          /\ First(call) <= Position' /\ Position' + remaining' <= First(call) + Count(call)
    BY <1>0, <1>1, <2>1, <2>2, <2>3, <2>4, <2>5, <2>6
  <2>8. First(call') = First(call) /\ Count(call') = Count(call) /\ call'.fn # "WritePage"
    BY <1>1, <1>3
  <2>9. pc' = "write_fn" => WithinCall'
    BY <1>0, <1>1, <2>7, <2>8 DEF WithinCall
  <2> QED
    BY <1>0, <1>1, <2>2, <2>9 DEF Writing
<1> QED
  BY <1>2, <1>3
-----------------------------------------------------------------------------
(* The type invariant in two parts, as the provers want them. *)
Flags == ok \in BOOLEAN /\ wel \in BOOLEAN /\ early \in BOOLEAN

Numbers ==
    /\ pc \in {"reset", "init", "find_chip", "failed", "idle", "lock", "start", "write_fn",
               "enable", "command", "wait", "disable", "unlock"}
    /\ Inited \in {0, 1} /\ Lock \in {0, 1} /\ BlockCnt \in Nat
    /\ page \in Nat /\ pageOffset \in Nat /\ remaining \in Nat /\ index \in Nat
    /\ waited \in 0 .. Timeout
    /\ DOMAIN mem = Cells /\ DOMAIN pending \subseteq Cells
    /\ calls \in 0 .. MaxCalls /\ faults \in 0 .. MaxFaults

LEMMA Parts == TypeOK <=> Flags /\ Numbers
<1>1. TypeOK => Flags
  BY Zenon DEF TypeOK, Flags
<1>2. TypeOK => Numbers
  BY Zenon DEF TypeOK, Numbers
<1>3. Flags /\ Numbers => TypeOK
  BY Zenon DEF TypeOK, Flags, Numbers
<1> QED
  BY <1>1, <1>2, <1>3

LEMMA StartInv == Init => TypeOK /\ CallInv
<1> SUFFICES ASSUME Init PROVE TypeOK /\ CallInv
  OBVIOUS
<1>1. DOMAIN pending = {} /\ DOMAIN mem = Cells
  BY DEF Init, Nothing
<1>2. CallInv
  BY DEF Init, CallInv, InCall, Writing
<1>3. Numbers
  BY <1>1, SpifAssumption DEF Init, Numbers
<1>4. Flags
  BY Zenon DEF Init, Flags
<1> QED
  BY <1>2, <1>3, <1>4, Parts

LEMMA FlagsStep == Flags /\ [Next]_vars => Flags'
<1> SUFFICES ASSUME Flags, [Next]_vars PROVE Flags'
  OBVIOUS
<1> USE DEF Flags, handle, loop, chip
<1>1. CASE SPIF_Init         BY Zenon, <1>1 DEF SPIF_Init
<1>2. CASE InitWriteDisable  BY Zenon, <1>2 DEF InitWriteDisable
<1>3. CASE FindChip          BY Zenon, <1>3 DEF FindChip
<1>4. CASE Enter             BY Zenon, <1>4 DEF Enter
<1>5. CASE TakeLock          BY Zenon, <1>5 DEF TakeLock
<1>6. CASE StartWrite        BY Zenon, <1>6 DEF StartWrite, Finish
<1>7. CASE WriteFn           BY Zenon, <1>7 DEF WriteFn
<1>8. CASE StartErase        BY Zenon, <1>8 DEF StartErase
<1>9. CASE Read              BY Zenon, <1>9 DEF Read, Finish
<1>10. CASE WriteEnable      BY Zenon, <1>10 DEF WriteEnable
<1>11. CASE ProgramPage      BY Zenon, <1>11 DEF ProgramPage
<1>12. CASE Erase            BY Zenon, <1>12 DEF Erase
<1>13. CASE WaitForWriting   BY Zenon, <1>13 DEF WaitForWriting
<1>14. ASSUME NEW next, Disabled(next), UNCHANGED ok PROVE Flags'
  BY Zenon, <1>14 DEF Disabled
<1>15. CASE NextChunk \/ Done
  BY Zenon, <1>14, <1>15 DEF NextChunk, Done
<1>16. CASE UnLock           BY Zenon, <1>16 DEF UnLock
<1>17. CASE ChipFinishes     BY Zenon, <1>17 DEF ChipFinishes
<1>18. CASE UNCHANGED vars   BY Zenon, <1>18 DEF vars
<1> QED
  BY <1>1, <1>2, <1>3, <1>4, <1>5, <1>6, <1>7, <1>8, <1>9, <1>10, <1>11, <1>12, <1>13,
     <1>15, <1>16, <1>17, <1>18 DEF Next, Driver, Stopped

(* The bytes of a unit on the chip are bytes of the chip (68-82).            *)
LEMMA ErasesCells ==
    ASSUME TypeOK, CallInv, call \in Calls, call.fn \in Erases, OnTheChip
    PROVE  DOMAIN Erasing \subseteq Cells
<1> DEFINE unit == Unit(call.fn)
           all  == CHIP_BLOCKS * BLOCK
<1>1. /\ call.at \in Nat /\ BLOCK \in Nat /\ SECTOR \in Nat /\ SECTOR > 0 /\ BLOCK % SECTOR = 0
      /\ CHIP_BLOCKS \in Nat /\ BlockCnt \in {0, CHIP_BLOCKS}
  BY SpifAssumption, CallTyped DEF CallInv
<1>2. all \in Nat
  BY <1>1
<1>3. BLOCK \div SECTOR \in Nat /\ (BLOCK \div SECTOR) * SECTOR = BLOCK
  <2>1. (BLOCK \div SECTOR) * SECTOR + (BLOCK % SECTOR) = BLOCK /\ BLOCK \div SECTOR \in Nat
    BY <1>1, Split
  <2> DEFINE n == BLOCK \div SECTOR
  <2>2. n * SECTOR \in Nat
    BY <1>1, <2>1, Monotone
  <2> QED
    BY <1>1, <2>1, <2>2
<1>4. CASE call.fn = "EraseChip"
  BY <1>1, <1>2, <1>4 DEF Erasing, EraseBytes, Cells
<1>5. ASSUME NEW n \in Nat, NEW u \in Nat, call.at < n, n * u <= all, u = unit,
             call.fn # "EraseChip"
      PROVE  DOMAIN Erasing \subseteq Cells
  <2>1. call.at * u \in Nat /\ (call.at + 1) * u = call.at * u + u /\ (call.at + 1) * u <= n * u
    BY <1>1, <1>5, NextPage, Monotone
  <2>2. DOMAIN Erasing = call.at * u .. call.at * u + u - 1
    BY <1>5 DEF Erasing, EraseBytes
  <2>3. call.at * u + u <= all
    BY <1>2, <1>5, <2>1
  <2> QED
    BY <1>2, <2>1, <2>2, <2>3 DEF Cells
<1>6. CASE call.fn = "EraseSector"
  <2>1. unit = SECTOR /\ call.at < BlockCnt * (BLOCK \div SECTOR)
    BY <1>6 DEF Unit, OnTheChip, SectorCnt
  <2>2. BlockCnt = CHIP_BLOCKS
    BY <1>1, <1>3, <2>1
  <2> DEFINE q == BLOCK \div SECTOR
  <2>3. CHIP_BLOCKS * q \in Nat
    BY <1>1, <1>3, Monotone
  <2>4. (CHIP_BLOCKS * q) * SECTOR = CHIP_BLOCKS * (q * SECTOR)
    BY <1>1, <1>3
  <2>5. (CHIP_BLOCKS * q) * SECTOR = all
    BY <1>3, <2>4
  <2> QED
    BY <1>1, <1>2, <1>5, <1>6, <2>1, <2>2, <2>3, <2>5
<1>7. CASE call.fn = "EraseBlock"
  <2>1. unit = BLOCK /\ call.at < BlockCnt
    BY <1>7 DEF Unit, OnTheChip
  <2>2. BlockCnt = CHIP_BLOCKS
    BY <1>1, <2>1
  <2> QED
    BY <1>1, <1>2, <1>5, <1>7, <2>1, <2>2
<1> QED
  BY <1>4, <1>6, <1>7 DEF Erases

LEMMA NumbersStep == TypeOK /\ CallInv /\ [Next]_vars => Numbers'
<1> SUFFICES ASSUME TypeOK, CallInv, [Next]_vars PROVE Numbers'
  OBVIOUS
<1> Numbers
  BY Parts
<1> USE DEF handle, loop, chip, Fault, NoFault
<1>0. /\ MaxFaults \in Nat /\ MaxCalls \in Nat /\ Timeout \in Nat /\ CHIP_BLOCKS \in Nat
      /\ DOMAIN Settled = Cells /\ DOMAIN Nothing = {}
  BY SpifAssumption DEF Settled, Nothing
<1>1. CASE SPIF_Init
  BY <1>1 DEF SPIF_Init, Numbers
<1>2. CASE InitWriteDisable
  BY <1>0, <1>2 DEF InitWriteDisable, Numbers
<1>3. CASE FindChip
  BY <1>0, <1>3 DEF FindChip, Numbers
<1>4. CASE Enter
  BY <1>0, <1>4 DEF Enter, Numbers
<1>5. CASE TakeLock
  BY <1>5 DEF TakeLock, Numbers
<1>6. CASE StartWrite
  <2>1. call \in Calls /\ call.fn \in Writes
    BY <1>6 DEF StartWrite, CallInv, InCall
  <2>2. page' \in Nat /\ pageOffset' \in Nat /\ remaining' \in Nat /\ index' \in Nat
    BY <1>6, <2>1, WriteStarts
  <2>3. pc' \in {"unlock", "write_fn"} 
    BY <1>6 DEF StartWrite, Finish, Numbers
  <2>4. UNCHANGED <<handle, call, waited, rx, chip, before, early, calls, faults>>
    BY <1>6 DEF StartWrite
  <2> QED
    BY <2>2, <2>3, <2>4 DEF Numbers
<1>7. CASE WriteFn
  BY <1>7 DEF WriteFn, Numbers
<1>8. CASE StartErase
  BY <1>8 DEF StartErase, Numbers
<1>9. CASE Read
  BY <1>0, <1>9 DEF Read, Finish, Numbers
<1>10. CASE WriteEnable
  BY <1>0, <1>10 DEF WriteEnable, Numbers
<1>11. CASE ProgramPage
  <2>1. \A n : DOMAIN ProgramBytes(n) \subseteq Cells
    BY DEF ProgramBytes
  <2>2. DOMAIN pending' \subseteq Cells
    BY <1>11, <2>1 DEF ProgramPage, Execute, Numbers
  <2> QED
    BY <1>0, <1>11, <2>2 DEF ProgramPage, Numbers
<1>12. CASE Erase
  <2>1. call \in Calls /\ call.fn \in Erases /\ OnTheChip
    BY <1>12 DEF Erase, CallInv, InCall, Erases, Writes
  <2>2. DOMAIN pending' \subseteq Cells
    BY <1>12, <2>1, ErasesCells DEF Erase, Execute, Numbers
  <2> QED
    BY <1>0, <1>12, <2>2 DEF Erase, Numbers
<1>13. CASE WaitForWriting
  BY <1>0, <1>13 DEF WaitForWriting, Numbers
<1>14. CASE NextChunk
  <2>1. pc = "disable" /\ call \in Calls /\ WithinCall
    BY <1>14 DEF NextChunk, Disabled, CallInv, InCall, Writing
  <2>2. page' \in Nat /\ pageOffset' \in Nat /\ remaining' \in Nat /\ index' \in Nat
    BY <1>14, <2>1, WriteGoesOn
  <2>3. PICK next \in {"unlock", "write_fn"} : Disabled(next)
    BY <1>14 DEF NextChunk
  <2> QED
    BY <1>0, <2>2, <2>3 DEF Disabled, Numbers
<1>15. CASE Done
  BY <1>0, <1>15 DEF Done, Disabled, Numbers
<1>16. CASE UnLock
  BY <1>16 DEF UnLock, Released, Numbers
<1>17. CASE ChipFinishes
  BY <1>0, <1>17 DEF ChipFinishes, Numbers
<1>18. CASE UNCHANGED vars
  BY <1>18 DEF vars, Numbers
<1> QED
  BY <1>1, <1>2, <1>3, <1>4, <1>5, <1>6, <1>7, <1>8, <1>9, <1>10, <1>11, <1>12, <1>13, <1>14,
     <1>15, <1>16, <1>17, <1>18 DEF Next, Driver, Stopped

LEMMA CallStep == TypeOK /\ CallInv /\ [Next]_vars => CallInv'
<1> SUFFICES ASSUME TypeOK, CallInv, [Next]_vars PROVE CallInv'
  OBVIOUS
<1> USE DEF handle, loop, chip, Fault, NoFault, InCall, Writing
<1>0. call.fn \in Erases \cup Reads => call.fn \notin Writes
  BY DEF Writes, Erases, Reads
<1>1. CASE SPIF_Init \/ InitWriteDisable \/ FindChip
  BY <1>1 DEF SPIF_Init, InitWriteDisable, FindChip, CallInv
<1>4. CASE Enter
  <2>1. calls + 1 > 0
    BY <1>4 DEF TypeOK
  <2> QED
    BY <1>4, <2>1 DEF Enter, CallInv
<1>5. CASE TakeLock
  BY <1>5 DEF TakeLock, CallInv
<1>6. CASE StartWrite
  <2>1. call \in Calls /\ call.fn \in Writes
    BY <1>6 DEF StartWrite, CallInv
  <2>2. pc' \in {"unlock", "write_fn"} /\ pc = "start"
    BY <1>6 DEF StartWrite, Finish
  <2>3. pc' \in Writing => WithinCall'
    BY <1>6, <2>1, WriteStarts
  <2> QED
    BY <1>6, <2>1, <2>2, <2>3 DEF StartWrite, CallInv
<1> DEFINE Kept == UNCHANGED <<BlockCnt, call, loop, calls>>
<1>6a. Kept => WithinCall' = WithinCall /\ OnTheChip' = OnTheChip
  BY DEF WithinCall, Position, OnTheChip, SectorCnt
<1>7. CASE WriteFn
  <2>1. Kept /\ pc = "write_fn" /\ pc' \in {"disable", "enable"}
    BY <1>7 DEF WriteFn
  <2>2. pc' = "enable" => pageOffset' < PAGE
    BY <1>7, SpifAssumption DEF WriteFn, TypeOK
  <2> QED
    BY <1>6a, <2>1, <2>2 DEF CallInv
<1>8. CASE StartErase
  <2>1. Kept /\ pc = "start" /\ pc' \in {"disable", "enable"} /\ call.fn \in Erases
    BY <1>8 DEF StartErase
  <2>2. pc' = "enable" => OnTheChip
    <3> SUFFICES ASSUME pc' = "enable" PROVE OnTheChip
      OBVIOUS
    <3>1. call.at \in Nat /\ SectorCnt \in Int /\ BlockCnt \in Int
      <4>1. BlockCnt \in Nat /\ BLOCK \div SECTOR \in Nat
        BY SpifAssumption, Split DEF TypeOK
      <4> QED
        BY <2>1, <4>1, CallTyped, NextPage DEF CallInv, SectorCnt
    <3>2. CASE call.fn = "EraseSector"
      BY <1>8, <3>1, <3>2 DEF StartErase, OnTheChip
    <3>3. CASE call.fn = "EraseBlock"
      BY <1>8, <3>1, <3>3 DEF StartErase, OnTheChip
    <3> QED
      BY <3>2, <3>3 DEF OnTheChip
  <2> QED
    BY <1>0, <1>6a, <2>1, <2>2 DEF CallInv
<1>9. CASE Read
  <2>1. Kept /\ pc = "start" /\ pc' = "unlock"
    BY <1>9 DEF Read, Finish
  <2> QED
    BY <2>1 DEF CallInv
<1>10. CASE WriteEnable
  <2>1. Kept /\ pc = "enable" /\ pc' \in {"command", "disable"}
    BY <1>10 DEF WriteEnable
  <2> QED
    BY <1>6a, <2>1 DEF CallInv
<1>11. CASE ProgramPage \/ Erase
  <2>1. Kept /\ pc = "command" /\ pc' \in {"wait", "disable"}
    BY <1>11 DEF ProgramPage, Erase
  <2> QED
    BY <1>6a, <2>1 DEF CallInv
<1>13. CASE WaitForWriting
  <2>1. Kept /\ pc = "wait" /\ pc' \in {"wait", "disable"}
    BY <1>13 DEF WaitForWriting
  <2> QED
    BY <1>6a, <2>1 DEF CallInv
<1>14. CASE NextChunk
  <2>1. pc = "disable" /\ call \in Calls /\ call.fn \in Writes /\ WithinCall
    BY <1>14 DEF NextChunk, Disabled, CallInv
  <2>2. pc' \in {"unlock", "write_fn"} /\ UNCHANGED <<BlockCnt, call, calls>>
    BY <1>14 DEF NextChunk, Disabled
  <2>3. pc' \in Writing => WithinCall'
    BY <1>14, <2>1, WriteGoesOn
  <2> QED
    BY <2>1, <2>2, <2>3 DEF CallInv
<1>15. CASE Done \/ UnLock
  <2>1. Kept /\ pc \in {"disable", "unlock"} /\ pc' \in {"unlock", "idle"}
    BY <1>15 DEF Done, Disabled, UnLock
  <2> QED
    BY <2>1 DEF CallInv
<1>17. CASE ChipFinishes \/ UNCHANGED vars
  <2>1. Kept /\ pc' = pc
    BY <1>17 DEF ChipFinishes, vars
  <2> QED
    BY <1>6a, <2>1 DEF CallInv
<1> QED
  BY <1>1, <1>4, <1>5, <1>6, <1>7, <1>8, <1>9, <1>10, <1>11, <1>13, <1>14, <1>15, <1>17
     DEF Next, Driver, Stopped

LEMMA CallInvariant == Spec => [](TypeOK /\ CallInv)
<1>1. TypeOK /\ CallInv /\ [Next]_vars => TypeOK'
  <2>1. Flags' /\ Numbers' => TypeOK'
    BY Zenon DEF TypeOK, Flags, Numbers
  <2> QED
    BY <2>1, Parts, FlagsStep, NumbersStep
<1> QED
  BY <1>1, CallStep, StartInv, PTL DEF Spec

(* The handle, the loop counters and the chip stay in their ranges; nothing   *)
(* is ever programmed or erased that is not on the chip.                      *)
THEOREM TypeCorrect == Spec => []TypeOK
  BY CallInvariant, PTL
-----------------------------------------------------------------------------
(* What a command does to the chip's bytes.                                  *)
Outside == \A c \in Cells \ Touched(call) : Settled[c] = before[c]

LEMMA Programs ==
    ASSUME TypeOK, CallInv, pc = "command", call.fn \in Writes, NEW n \in 0 .. Length
    PROVE  DOMAIN ProgramBytes(n) \subseteq Touched(call)
<1>0. /\ call \in Calls /\ WithinCall /\ pageOffset < PAGE
      /\ PAGE \in Nat /\ PAGE > 0 /\ page \in Nat /\ pageOffset \in Nat /\ remaining \in Nat
  BY SpifAssumption DEF CallInv, InCall, Writing, TypeOK
<1>1. /\ First(call) \in Nat /\ Count(call) \in Int /\ page * PAGE \in Nat
      /\ call.at \in Nat /\ call.offset \in Nat /\ call.size \in Nat
  BY <1>0, CallTyped, Units, NextPage DEF Count, Least
<1>2. Touched(call) = First(call) .. First(call) + Count(call) - 1
  BY DEF Touched, Writes, Erases
<1>3. Asked \in Nat /\ (call.fn # "WritePage" => Asked <= remaining)
  BY <1>0 DEF Asked, Least
<1>4. n \in Nat /\ n <= Asked /\ n <= PAGE - pageOffset
  BY <1>0, <1>3 DEF Length, Least
<1>5. First(call) <= Position /\ Position + n <= First(call) + Count(call)
  <2>1. CASE call.fn = "WritePage"
    <3>1. Position = First(call)
      BY <1>0, <2>1 DEF WithinCall, Position, First, Unit
    <3>2. n <= call.size /\ n <= PAGE - call.offset
      BY <1>0, <1>4, <2>1 DEF WithinCall, Asked
    <3>3. Count(call) = Least(call.size, PAGE - call.offset)
      BY <2>1 DEF Count, Unit
    <3>4. n <= Count(call)
      BY <3>2, <3>3 DEF Least
    <3> QED
      BY <1>1, <1>4, <3>1, <3>4
  <2>2. CASE call.fn # "WritePage"
    <3>1. First(call) <= Position /\ Position + remaining <= First(call) + Count(call)
      BY <1>0, <2>2 DEF WithinCall
    <3>2. Position \in Nat
      BY <1>0, <1>1 DEF Position
    <3> QED
      BY <1>0, <1>1, <1>3, <1>4, <2>2, <3>1, <3>2
  <2> QED
    BY <2>1, <2>2
<1>6. ASSUME NEW i \in 0 .. n - 1
      PROVE  page * PAGE + ((pageOffset + i) % PAGE) = Position + i
  <2>1. pageOffset + i \in Nat /\ pageOffset + i < PAGE
    BY <1>0, <1>4
  <2>2. (pageOffset + i) % PAGE = pageOffset + i
    BY <1>0, <2>1
  <2> QED
    BY <1>0, <1>1, <1>4, <2>2 DEF Position
<1>7. DOMAIN ProgramBytes(n) = {page * PAGE + ((pageOffset + i) % PAGE) : i \in 0 .. n - 1} \cap Cells
  BY DEF ProgramBytes
<1>8. Position \in Nat
  BY <1>0, <1>1 DEF Position
<1>9. ASSUME NEW i \in 0 .. n - 1 PROVE Position + i \in Touched(call)
  BY <1>1, <1>2, <1>4, <1>5, <1>8
<1> QED
  BY <1>6, <1>7, <1>9

LEMMA LengthTyped ==
    ASSUME TypeOK, CallInv, pc = "command", call.fn \in Writes PROVE Length \in 0 .. Length
<1>1. /\ pageOffset < PAGE /\ PAGE \in Nat /\ pageOffset \in Nat /\ remaining \in Nat
  BY SpifAssumption DEF CallInv, TypeOK
<1>2. Asked \in Nat
  BY <1>1 DEF Asked, Least
<1> QED
  BY <1>1, <1>2 DEF Length, Least

LEMMA ErasesUnit ==
    ASSUME TypeOK, CallInv, pc = "command", call.fn \in Erases
    PROVE  DOMAIN Erasing \subseteq Touched(call)
<1>1. call \in Calls /\ call.offset = 0
  BY SpifAssumption DEF CallInv, InCall
<1>2. First(call) = call.at * Unit(call.fn)
  BY <1>1, CallTyped
<1>3. \A first, n : DOMAIN EraseBytes(first, n) = first .. first + n - 1
  BY DEF EraseBytes
<1>4. CASE call.fn = "EraseChip"
  <2>1. Erasing = EraseBytes(0, CHIP_BLOCKS * BLOCK)
    BY <1>4 DEF Erasing
  <2>2. CHIP_BLOCKS * BLOCK \in Nat
    BY SpifAssumption, Monotone
  <2>3. 0 + CHIP_BLOCKS * BLOCK - 1 = CHIP_BLOCKS * BLOCK - 1
    BY <2>2
  <2>4. DOMAIN Erasing = Cells
    BY <1>3, <2>1, <2>3 DEF Cells
  <2>5. Touched(call) = Cells
    BY <1>4 DEF Touched, Erases, Writes
  <2> QED
    BY <2>4, <2>5
<1>5. CASE call.fn # "EraseChip"
  <2>1. Erasing = EraseBytes(call.at * Unit(call.fn), Unit(call.fn))
    BY <1>5 DEF Erasing
  <2>2. Touched(call) = First(call) .. First(call) + Unit(call.fn) - 1
    BY <1>5 DEF Touched, Erases, Writes
  <2> QED
    BY <1>2, <1>3, <2>1, <2>2
<1> QED
  BY <1>4, <1>5

LEMMA CommandConfined ==
    ASSUME NEW bytes, Execute(bytes), UNCHANGED <<mem, call, before>>, Outside,
           DOMAIN bytes \subseteq Touched(call)
    PROVE  Outside'
<1> SUFFICES ASSUME NEW c \in Cells, c \notin Touched(call) PROVE Settled'[c] = before[c]
  BY DEF Outside
<1>1. Settled[c] = before[c]
  BY DEF Outside
<1>2. CASE Accepts
  <2>1. DOMAIN pending = {} /\ pending' = bytes
    BY <1>2 DEF Accepts, Busy, Execute
  <2> QED
    BY <1>1, <2>1 DEF Settled
<1>3. CASE ~Accepts
  BY <1>1, <1>3 DEF Execute, Settled
<1> QED
  BY <1>2, <1>3

LEMMA OutsideStep ==
    TypeOK /\ CallInv /\ (calls > 0 => Outside) /\ [Next]_vars => (calls' > 0 => Outside')
<1> SUFFICES ASSUME TypeOK, CallInv, calls > 0 => Outside, [Next]_vars, calls' > 0
             PROVE  Outside'
  OBVIOUS
<1> USE DEF handle, loop, chip
<1>1. CASE Enter
  BY <1>1 DEF Enter, Outside, Settled
<1>2. CASE ProgramPage
  <2>1. Outside /\ UNCHANGED <<mem, call, before>>
    BY <1>2 DEF ProgramPage, CallInv, InCall
  <2>2. PICK n \in 0 .. Length : Execute(ProgramBytes(n))
    <3>1. Length \in 0 .. Length
      BY <1>2, LengthTyped DEF ProgramPage
    <3> QED
      BY <1>2, <3>1 DEF ProgramPage
  <2> QED
    BY <1>2, <2>1, <2>2, Programs, CommandConfined DEF ProgramPage
<1>3. CASE Erase
  <2>1. Outside /\ UNCHANGED <<mem, call, before>>
    BY <1>3 DEF Erase, CallInv, InCall
  <2>2. CASE Execute(Erasing)
    BY <1>3, <2>1, <2>2, ErasesUnit, CommandConfined DEF Erase
  <2>3. CASE UNCHANGED pending
    BY <2>1, <2>3 DEF Outside, Settled
  <2> QED
    BY <1>3, <2>2, <2>3 DEF Erase
<1>4. CASE ChipFinishes
  <2>1. Outside /\ mem' = Settled /\ pending' = Nothing /\ UNCHANGED <<call, before>>
    BY <1>4 DEF ChipFinishes
  <2>2. Settled' = Settled
    BY <2>1 DEF Settled, Nothing
  <2> QED
    BY <2>1, <2>2 DEF Outside
<1>5. ASSUME UNCHANGED <<mem, pending, call, before, calls>> PROVE Outside'
  BY <1>5 DEF Outside, Settled
<1>6. CASE SPIF_Init \/ InitWriteDisable \/ FindChip \/ TakeLock \/ StartWrite \/ WriteFn
           \/ StartErase \/ Read \/ WriteEnable \/ WaitForWriting \/ UnLock \/ UNCHANGED vars
  BY <1>5, <1>6 DEF SPIF_Init, InitWriteDisable, FindChip, TakeLock, StartWrite, WriteFn,
                    StartErase, Read, WriteEnable, WaitForWriting, UnLock, vars
<1>7. CASE NextChunk \/ Done
  BY <1>5, <1>7 DEF NextChunk, Done, Disabled
<1> QED
  BY <1>1, <1>2, <1>3, <1>4, <1>6, <1>7 DEF Next, Driver, Stopped

(* No call changes a byte outside those it names, whatever transactions fail  *)
(* and whatever the chip is still doing when a command reaches it (562-646,   *)
(* 788-1048).                                                                *)
THEOREM NothingElse == Spec => []Confined
<1>1. Init => ~(calls > 0)
  BY DEF Init
<1>2. Confined <=> (calls > 0 => Outside)
  BY DEF Confined, Outside
<1>3. TypeOK /\ CallInv /\ Confined /\ [Next]_vars => Confined'
  BY OutsideStep DEF Confined, Outside
<1> QED
  BY <1>1, <1>2, <1>3, CallInvariant, PTL DEF Spec
-----------------------------------------------------------------------------
(* What a call has done so far, as long as no command met a busy chip.  The    *)
(* functions that copy through whole pages count what they ask for, not what   *)
(* is written, and the reads of a unit begin at its first byte whatever the     *)
(* offset (692-780, 992-1048): the calls whose result is exact are those that   *)
(* start at a page, or are addressed by the byte, as the file system's are      *)
(* (local_storage.c 115-127).                                                  *)
ExactCalls ==
    \A c \in Calls :
        /\ c.fn \in {"WriteSector", "WriteBlock"} => c.offset % PAGE = 0
        /\ c.fn \in Reads => c.offset = 0 /\ First(c) + Count(c) <= CHIP_BLOCKS * BLOCK

(* The first n bytes of a write are programmed, and nothing else is.           *)
Written(n) ==
    \A c \in Cells :
        Settled[c] = IF c \in First(call) .. First(call) + n - 1
                     THEN Programmed(before[c], Data(c - First(call))) ELSE before[c]

Chip  == CHIP_BLOCKS * BLOCK
Along == /\ index \in Nat /\ Position = First(call) + index
         /\ index > 0 => First(call) + index <= Chip
         /\ IF call.fn = "WritePage" THEN index = 0 ELSE remaining = Count(call) - index
         /\ call.fn \in {"WriteSector", "WriteBlock"} => pageOffset = 0
OnPage == page < PageCnt /\ pageOffset < PAGE

Complete == WriteDone /\ EraseDone /\ ReadExact
Prefix   == call.fn = "WriteAddress" => \E n \in 0 .. call.size : Written(n)
Blanked  == \A c \in Touched(call) : Settled[c] = Erased

WriteExact ==
    /\ pc \in Writing => Along
    /\ pc \in {"enable", "command", "wait"} => OnPage
    /\ pc \in {"write_fn", "enable", "command"} => Written(index)
    /\ pc = "wait" => Written(index + Length)
    /\ pc = "disable" => IF ok THEN OnPage /\ Written(index + Length) ELSE Prefix
    /\ pc = "unlock" /\ ~ok => Prefix

Exact ==
    /\ pc \in {"lock", "start"} => Settled = before
    /\ pc = "command" => Accepts
    /\ call.fn \in Writes => WriteExact
    /\ call.fn \in Erases /\ (pc = "wait" \/ (pc = "disable" /\ ok)) => Blanked
    /\ pc = "unlock" => Complete

ExactInv == ~early => Exact

(* The pages the driver knows of are those of the chip (68-82).                *)
LEMMA PagesOnChip ==
    ASSUME TypeOK, CallInv, page < PageCnt
    PROVE  page * PAGE \in Nat /\ page * PAGE + PAGE <= Chip /\ Chip \in Nat
<1>1. /\ PAGE \in Nat /\ PAGE > 0 /\ BLOCK \in Nat /\ SECTOR \in Nat /\ SECTOR > 0
      /\ BLOCK % SECTOR = 0 /\ CHIP_BLOCKS \in Nat /\ BlockCnt \in {0, CHIP_BLOCKS} /\ page \in Nat
  BY SpifAssumption DEF TypeOK, CallInv
<1> DEFINE q == BLOCK \div SECTOR
<1>2. q \in Nat /\ q * SECTOR = BLOCK
  <2>1. q \in Nat /\ q * SECTOR + (BLOCK % SECTOR) = BLOCK
    BY <1>1, Split
  <2>2. q * SECTOR \in Nat
    BY <1>1, <2>1, Monotone
  <2> QED
    BY <1>1, <2>1, <2>2
<1>3. Chip \in Nat
  BY <1>1, Monotone DEF Chip
<1>4. SectorCnt * SECTOR \in Nat /\ SectorCnt * SECTOR <= Chip
  <2>1. CASE BlockCnt = 0
    <3>1. SectorCnt = 0
      BY <1>2, <2>1 DEF SectorCnt
    <3> QED
      BY <1>1, <1>3, <3>1
  <2>2. CASE BlockCnt = CHIP_BLOCKS
    <3>1. (CHIP_BLOCKS * q) * SECTOR = CHIP_BLOCKS * (q * SECTOR)
      BY <1>1, <1>2
    <3> QED
      BY <1>2, <1>3, <2>2, <3>1 DEF SectorCnt, Chip
  <2> QED
    BY <1>1, <2>1, <2>2
<1> DEFINE s == SectorCnt * SECTOR
<1>5. /\ s \div PAGE \in Nat /\ (s \div PAGE) * PAGE + (s % PAGE) = s /\ s % PAGE \in Nat
  BY <1>1, <1>4, Split
<1>6. PageCnt = s \div PAGE
  BY DEF PageCnt
<1> HIDE DEF s
<1>7. page * PAGE \in Nat /\ (page + 1) * PAGE = page * PAGE + PAGE
  BY <1>1, NextPage
<1>8. page + 1 \in Nat /\ page + 1 <= PageCnt /\ PageCnt \in Nat
  BY <1>1, <1>5, <1>6
<1>9. (page + 1) * PAGE <= PageCnt * PAGE /\ PageCnt * PAGE \in Nat
  BY <1>1, <1>8, Monotone
<1>10. PageCnt * PAGE <= s /\ s \in Nat
  BY <1>4, <1>5, <1>6, <1>9 DEF s
<1>11. s <= Chip
  BY <1>4 DEF s
<1> QED
  BY <1>3, <1>7, <1>9, <1>10, <1>11, <1>1

LEMMA PagesTyped == ASSUME TypeOK PROVE PageCnt \in Int
<1> DEFINE n == BlockCnt * (BLOCK \div SECTOR)
<1>1. n * SECTOR \in Nat
  <2>1. BlockCnt \in Nat /\ BLOCK \div SECTOR \in Nat /\ SECTOR \in Nat
    BY SpifAssumption, Split DEF TypeOK
  <2> QED
    BY <2>1, NextPage
<1> QED
  BY <1>1, SpifAssumption, Split DEF PageCnt, SectorCnt

(* What a write is asked for of a page is what SPIF_WriteFn writes of it       *)
(* (562-646).                                                                  *)
LEMMA ChunkExact ==
    ASSUME ExactCalls, TypeOK, CallInv, Along, call.fn \in Writes, pc \in Writing, pageOffset < PAGE
    PROVE  /\ Length \in Nat /\ Length <= PAGE - pageOffset
           /\ call.fn # "WritePage" => Length = Asked /\ index + Length <= Count(call)
           /\ call.fn = "WritePage" => Length = Count(call)
           /\ Count(call) \in Nat
<1>1. /\ call \in Calls /\ WithinCall /\ PAGE \in Nat /\ PAGE > 0 /\ index \in Nat
      /\ pageOffset \in Nat /\ remaining \in Nat /\ page \in Nat /\ call.size \in Nat
  BY SpifAssumption, CallTyped DEF CallInv, InCall, Writing, TypeOK
<1>2. CASE call.fn = "WritePage"
  <2>1. Asked = call.size /\ pageOffset = call.offset
    BY <1>1, <1>2 DEF WithinCall, Asked
  <2>2. Count(call) = Least(call.size, PAGE - pageOffset)
    BY <1>2, <2>1 DEF Count, Unit
  <2> QED
    BY <1>1, <1>2, <2>1, <2>2 DEF Length, Least
<1>3. CASE call.fn = "WriteAddress"
  <2>1. Asked = Least(remaining, PAGE - pageOffset)
    BY <1>3 DEF Asked
  <2>2. Count(call) = call.size /\ remaining = Count(call) - index
    BY <1>3 DEF Count, Along
  <2> QED
    BY <1>1, <1>3, <2>1, <2>2 DEF Length, Least
<1>4. CASE call.fn \in {"WriteSector", "WriteBlock"}
  <2>1. Asked = Least(remaining, PAGE)
    BY <1>4 DEF Asked
  <2>2. remaining = Count(call) - index /\ pageOffset = 0
    BY <1>4 DEF Along
  <2>3. Count(call) = Least(call.size, Unit(call.fn) - call.offset) /\ Count(call) \in Int
    BY <1>1, <1>4, Units, CallTyped DEF Count, Least
  <2>4. Count(call) \in Nat
    BY <1>1, <2>2, <2>3
  <2>5. Length = Asked
    BY <1>1, <2>1, <2>2 DEF Length, Least
  <2> QED
    BY <1>1, <1>4, <2>1, <2>2, <2>3, <2>4, <2>5 DEF Least
<1> QED
  BY <1>2, <1>3, <1>4 DEF Writes

(* A page program writes the bytes after those already written.                *)
LEMMA ProgramExact ==
    ASSUME ExactCalls, TypeOK, CallInv, pc = "command", call.fn \in Writes, Accepts, Along, OnPage,
           Written(index), NEW n \in 0 .. Length, Execute(ProgramBytes(n)),
           UNCHANGED <<mem, call, before, calls, index>>
    PROVE  Written(index + n)'
<1>1. /\ call \in Calls /\ PAGE \in Nat /\ PAGE > 0 /\ page \in Nat /\ pageOffset \in Nat
      /\ index \in Nat /\ First(call) \in Nat /\ page * PAGE \in Nat
  BY SpifAssumption, CallTyped, PagesOnChip DEF CallInv, InCall, TypeOK, Along, OnPage
<1>2. n \in Nat /\ n <= PAGE - pageOffset
  BY <1>1, ChunkExact DEF OnPage, Writing
<1> DEFINE at == First(call) + index
<1>3. page * PAGE + pageOffset = at /\ at \in Nat
  BY <1>1 DEF Along, Position
<1>4. ASSUME NEW i \in 0 .. n - 1 PROVE page * PAGE + ((pageOffset + i) % PAGE) = at + i
  <2>1. pageOffset + i \in Nat /\ pageOffset + i < PAGE
    BY <1>1, <1>2
  <2>2. (pageOffset + i) % PAGE = pageOffset + i
    BY <1>1, <2>1
  <2> QED
    BY <1>1, <1>3, <2>2
<1>5. DOMAIN pending = {} /\ pending' = ProgramBytes(n) /\ Settled = [c \in Cells |-> mem[c]]
  BY DEF Accepts, Busy, Execute, Settled
<1> SUFFICES ASSUME NEW c \in Cells
             PROVE  Settled'[c] = IF c \in First(call) .. First(call) + (index + n) - 1
                                  THEN Programmed(before[c], <<calls, c - First(call)>>) ELSE before[c]
  BY DEF Written, Data
<1>6. c \in Int
  BY DEF Cells, Chip
<1>7. DOMAIN pending' = {page * PAGE + ((pageOffset + i) % PAGE) : i \in 0 .. n - 1} \cap Cells
  BY <1>5 DEF ProgramBytes
<1>8. c \in DOMAIN pending' <=> c \in at .. at + n - 1
  <2>1. ASSUME c \in at .. at + n - 1 PROVE c \in DOMAIN pending'
    <3>1. c - at \in 0 .. n - 1 /\ at + (c - at) = c
      BY <1>2, <1>3, <1>6, <2>1
    <3> QED
      BY <1>4, <1>7, <3>1
  <2>2. ASSUME c \in DOMAIN pending' PROVE c \in at .. at + n - 1
    BY <1>2, <1>3, <1>4, <1>7, <2>2
  <2> QED
    BY <2>1, <2>2
<1>9. Settled[c] = mem[c] /\ Settled'[c] = IF c \in DOMAIN pending' THEN pending'[c] ELSE mem[c]
  BY <1>5 DEF Settled
<1>10. mem[c] = IF c \in First(call) .. First(call) + index - 1
                THEN Programmed(before[c], <<calls, c - First(call)>>) ELSE before[c]
  BY <1>9 DEF Written, Data
<1>11. CASE c \in at .. at + n - 1
  <2> DEFINE j == CHOOSE i \in 0 .. n - 1 : page * PAGE + ((pageOffset + i) % PAGE) = c
  <2>1. c - at \in 0 .. n - 1 /\ at + (c - at) = c
    BY <1>2, <1>3, <1>6, <1>11
  <2>2. j \in 0 .. n - 1 /\ page * PAGE + ((pageOffset + j) % PAGE) = c
    BY <1>4, <2>1
  <2>3. at + j = c
    BY <1>4, <2>2
  <2>4. pending'[c] = Programmed(mem[c], <<calls, index + j>>)
    BY <1>5, <1>7, <1>8, <1>11 DEF ProgramBytes, Data
  <2> HIDE DEF j
  <2>5. index + j = c - First(call)
    BY <1>1, <1>2, <2>2, <2>3
  <2>6. mem[c] = before[c]
    BY <1>1, <1>10, <1>11
  <2>7. c \in First(call) .. First(call) + (index + n) - 1
    BY <1>1, <1>2, <1>6, <1>11
  <2> QED
    BY <1>8, <1>9, <1>11, <2>4, <2>5, <2>6, <2>7
<1>12. CASE c \notin at .. at + n - 1
  <2>1. c \in First(call) .. First(call) + (index + n) - 1
           <=> c \in First(call) .. First(call) + index - 1
    BY <1>1, <1>2, <1>6, <1>12
  <2> QED
    BY <1>8, <1>9, <1>10, <1>12, <2>1
<1> QED
  BY <1>11, <1>12

(* An accepted erase leaves its unit erased (842-905).                         *)
LEMMA EraseExact ==
    ASSUME TypeOK, CallInv, pc = "command", call.fn \in Erases, Accepts, Execute(Erasing),
           UNCHANGED <<mem, call>>
    PROVE  Blanked'
<1>1. call \in Calls /\ call.offset = 0
  BY SpifAssumption DEF CallInv, InCall
<1>2. First(call) = call.at * Unit(call.fn) /\ call.fn \notin Writes
  BY <1>1, CallTyped DEF Erases, Writes
<1>3. pending' = Erasing
  BY DEF Accepts, Execute
<1>4. \A first, m : EraseBytes(first, m) = [c \in first .. first + m - 1 |-> Erased]
  BY DEF EraseBytes
<1>5. CASE call.fn = "EraseChip"
  <2>1. CHIP_BLOCKS * BLOCK \in Nat
    BY SpifAssumption, Monotone
  <2>2. Erasing = [c \in 0 .. 0 + CHIP_BLOCKS * BLOCK - 1 |-> Erased]
    BY <1>4, <1>5 DEF Erasing
  <2>3. Erasing = [c \in Cells |-> Erased]
    BY <2>1, <2>2 DEF Cells
  <2>4. Touched(call) = Cells
    BY <1>5 DEF Touched, Erases, Writes
  <2> QED
    BY <1>3, <2>3, <2>4 DEF Blanked, Settled
<1>6. CASE call.fn # "EraseChip"
  <2>1. Erasing = [c \in call.at * Unit(call.fn) .. call.at * Unit(call.fn) + Unit(call.fn) - 1 |-> Erased]
    BY <1>4, <1>6 DEF Erasing
  <2>2. Touched(call) = First(call) .. First(call) + Unit(call.fn) - 1
    BY <1>6 DEF Touched, Erases, Writes
  <2>3. Erasing = [c \in Touched(call) |-> Erased]
    BY <1>2, <2>1, <2>2
  <2>4. Touched(call) \subseteq Cells
    <3>1. OnTheChip
      BY <1>2 DEF CallInv
    <3> QED
      BY <1>1, <2>3, <3>1, ErasesCells
  <2> QED
    BY <1>3, <2>3, <2>4 DEF Blanked, Settled
<1> QED
  BY <1>5, <1>6

(* A write that starts finds nothing written (918-937, 970-992).               *)
LEMMA StartExact ==
    ASSUME ExactCalls, TypeOK, call \in Calls, call.fn \in Writes, StartWrite, pc' = "write_fn"
    PROVE  Along'
<1> DEFINE unit  == Unit(call.fn)
           first == call.at * unit + call.offset
<1>0. PAGE \in Nat /\ PAGE > 0 /\ unit \in Nat /\ unit > 0
  BY SpifAssumption, Units
<1>1. /\ first \in Nat /\ first = First(call) /\ call.at \in Nat /\ call.offset \in Nat
      /\ call.size \in Nat /\ call.at * unit \in Nat
  BY CallTyped
<1>2. first % PAGE \in 0 .. PAGE - 1 /\ (first \div PAGE) * PAGE + (first % PAGE) = first
  BY <1>0, <1>1, Split
<1>3. index' = 0 /\ call' = call
  BY DEF StartWrite, Finish
<1>4. CASE call.fn = "WritePage"
  <2>1. page' = call.at /\ pageOffset' = call.offset
    BY <1>4 DEF StartWrite, Finish
  <2>2. Position' = First(call)
    BY <1>1, <1>4, <2>1 DEF Position, Unit
  <2> QED
    BY <1>1, <1>3, <1>4, <2>2 DEF Along
<1>5. CASE call.fn # "WritePage"
  <2>1. /\ page' = first \div PAGE /\ pageOffset' = first % PAGE
        /\ remaining' = IF call.fn \in {"WriteSector", "WriteBlock"}
                        THEN Least(call.size, unit - call.offset) ELSE call.size
    BY <1>5 DEF StartWrite, Finish
  <2>2. Position' = First(call)
    BY <1>1, <1>2, <2>1 DEF Position
  <2>3. remaining' = Count(call) - 0
    <3>1. Count(call) = remaining' /\ Count(call) \in Int
      BY <1>0, <1>1, <1>5, <2>1 DEF Count, Writes, Least
    <3> QED
      BY <3>1
  <2>4. call.fn \in {"WriteSector", "WriteBlock"} => pageOffset' = 0
    <3> SUFFICES ASSUME call.fn \in {"WriteSector", "WriteBlock"} PROVE first % PAGE = 0
      BY <2>1
    <3>1. SECTOR % PAGE = 0 /\ BLOCK % SECTOR = 0 /\ SECTOR \in Nat /\ BLOCK \in Nat /\ SECTOR > 0
      BY SpifAssumption
    <3> DEFINE s == SECTOR \div PAGE
               b == BLOCK \div SECTOR
               o == call.offset \div PAGE
    <3>2. s \in Nat /\ s * PAGE + (SECTOR % PAGE) = SECTOR
      BY <1>0, <3>1, Split
    <3>3. b \in Nat /\ b * SECTOR + (BLOCK % SECTOR) = BLOCK
      BY <3>1, Split
    <3>4. o \in Nat /\ o * PAGE + (call.offset % PAGE) = call.offset
      BY <1>0, <1>1, Split
    <3>5. call.offset % PAGE = 0
      BY DEF ExactCalls
    <3> HIDE DEF s, b, o
    <3>6. s * PAGE \in Nat /\ b * SECTOR \in Nat /\ o * PAGE \in Nat
      BY <1>0, <3>1, <3>2, <3>3, <3>4, Monotone
    <3>7. SECTOR = s * PAGE /\ BLOCK = b * SECTOR /\ call.offset = o * PAGE
      BY <3>1, <3>2, <3>3, <3>4, <3>5, <3>6
    <3>8. \E u \in Nat : unit = u * PAGE
      <4>1. CASE call.fn = "WriteSector"
        BY <3>2, <3>7, <4>1 DEF Unit
      <4>2. CASE call.fn = "WriteBlock"
        <5>1. BLOCK = (b * s) * PAGE /\ b * s \in Nat
          BY <1>0, <3>2, <3>3, <3>7
        <5> QED
          BY <4>2, <5>1 DEF Unit
      <4> QED
        BY <4>1, <4>2
    <3>9. PICK u \in Nat : unit = u * PAGE
      BY <3>8
    <3>10. call.at * (u * PAGE) = (call.at * u) * PAGE /\ call.at * u \in Nat
      BY <1>0, <1>1
    <3> DEFINE v == call.at * u
               k == v + o
    <3>11. first = v * PAGE + o * PAGE
      BY <3>7, <3>9, <3>10
    <3>12. v \in Nat
      BY <3>10
    <3> HIDE DEF v, first
    <3>13. k \in Nat /\ first = k * PAGE
      BY <1>0, <3>4, <3>11, <3>12
    <3> HIDE DEF k
    <3> QED
      BY <1>0, <3>13
  <2> QED
    BY <1>1, <1>3, <1>5, <2>2, <2>3, <2>4 DEF Along
<1> QED
  BY <1>4, <1>5

(* ... and one that goes on has written what it counts (930-941, 985-1000).    *)
LEMMA NextExact ==
    ASSUME ExactCalls, TypeOK, CallInv, Along, OnPage, pc = "disable", NextChunk
    PROVE  /\ pc' = "write_fn" => Along' /\ index' = index + Length
           /\ pc' = "unlock" => /\ index + Length = Count(call)
                               /\ First(call) + Count(call) <= Chip
<1>0. /\ call \in Calls /\ call.fn \in Writes /\ WithinCall /\ PAGE \in Nat /\ PAGE > 0
      /\ index \in Nat /\ pageOffset \in Nat /\ remaining \in Nat /\ page \in Nat
      /\ First(call) \in Nat /\ call.at \in Nat
  BY SpifAssumption, CallTyped DEF NextChunk, CallInv, InCall, Writing, TypeOK
<1>1. /\ page' = page + 1 /\ pageOffset' = 0 /\ index' = index + Asked
      /\ remaining' = remaining - Asked /\ call' = call
      /\ pc' = IF \/ call.fn = "WritePage" \/ remaining' = 0
                  \/ call.fn \in {"WriteSector", "WriteBlock"} /\ page' >= LastPage
               THEN "unlock" ELSE "write_fn"
  BY DEF NextChunk, Disabled
<1>2. /\ Length \in Nat /\ Length <= PAGE - pageOffset /\ Count(call) \in Nat
      /\ call.fn # "WritePage" => Length = Asked /\ index + Length <= Count(call)
      /\ call.fn = "WritePage" => Length = Count(call)
  BY <1>0, ChunkExact DEF OnPage, Writing
<1>3. page * PAGE \in Nat /\ page * PAGE + PAGE <= Chip /\ Chip \in Nat
  BY PagesOnChip DEF OnPage
<1>4. page * PAGE + pageOffset = First(call) + index
  BY DEF Along, Position
<1>5. First(call) + (index + Length) <= Chip
  BY <1>0, <1>2, <1>3, <1>4
<1>6. CASE call.fn = "WritePage"
  BY <1>0, <1>1, <1>2, <1>5, <1>6 DEF Along
<1>7. CASE call.fn # "WritePage"
  <2>1. remaining = Count(call) - index /\ Asked = Length
    BY <1>2, <1>7 DEF Along
  <2>2. remaining' = Count(call) - (index + Length) /\ index' = index + Length
    BY <1>0, <1>1, <1>2, <2>1
  <2>3. (page + 1) * PAGE = page * PAGE + PAGE
    BY <1>0, NextPage
  <2>4. remaining' # 0 => (page + 1) * PAGE = First(call) + (index + Length)
    <3> SUFFICES ASSUME remaining' # 0 PROVE Length = PAGE - pageOffset
      BY <1>0, <1>2, <1>3, <1>4, <2>3
    <3>1. Asked # remaining
      BY <1>0, <1>1
    <3> QED
      BY <1>0, <1>7, <2>1, <3>1 DEF Asked, Length, Least, Along, Writes
  <2>5. pc' = "write_fn" => Along'
    <3> SUFFICES ASSUME pc' = "write_fn" PROVE Along'
      OBVIOUS
    <3>1. remaining' # 0
      BY <1>1
    <3>2. Position' = First(call) + (index + Length)
      BY <1>0, <1>1, <1>3, <2>3, <2>4, <3>1 DEF Position
    <3> QED
      BY <1>0, <1>1, <1>2, <1>5, <1>7, <2>2, <3>2 DEF Along
  <2>6. pc' = "unlock" => remaining' = 0
    <3> SUFFICES ASSUME call.fn \in {"WriteSector", "WriteBlock"}, page' >= LastPage, remaining' # 0
                 PROVE  FALSE
      BY <1>1, <1>7
    <3> DEFINE unit == Unit(call.fn)
               end  == (call.at + 1) * unit
    <3>1. unit \in Nat /\ call.at * unit \in Nat /\ end = call.at * unit + unit
      BY <1>0, Units, NextPage
    <3> end \in Nat
      BY <3>1
    <3> HIDE DEF end
    <3>2. /\ end \div PAGE \in Nat /\ (end \div PAGE) * PAGE + (end % PAGE) = end
          /\ end % PAGE \in 0 .. PAGE - 1
      BY <1>0, Split
    <3>3. page + 1 >= end \div PAGE
      BY <1>1 DEF LastPage, end
    <3>4. First(call) + Count(call) <= end
      <4>1. Count(call) = Least(call.size, unit - call.offset)
        BY DEF Count
      <4>2. First(call) = call.at * unit + call.offset /\ call.offset \in Nat /\ call.size \in Nat
        BY <1>0, CallTyped
      <4> HIDE DEF unit
      <4> QED
        BY <1>2, <3>1, <4>1, <4>2 DEF Least
    <3>5. end % PAGE = 0
      <4>1. SECTOR % PAGE = 0 /\ BLOCK % SECTOR = 0 /\ SECTOR \in Nat /\ BLOCK \in Nat /\ SECTOR > 0
        BY SpifAssumption
      <4> DEFINE s == SECTOR \div PAGE
                 b == BLOCK \div SECTOR
      <4>2. s \in Nat /\ s * PAGE + (SECTOR % PAGE) = SECTOR
        BY <1>0, <4>1, Split
      <4>3. b \in Nat /\ b * SECTOR + (BLOCK % SECTOR) = BLOCK
        BY <4>1, Split
      <4> HIDE DEF s, b
      <4>4. s * PAGE \in Nat /\ b * SECTOR \in Nat
        BY <1>0, <4>1, <4>2, <4>3, Monotone
      <4>5. SECTOR = s * PAGE /\ BLOCK = b * SECTOR
        BY <4>1, <4>2, <4>3, <4>4
      <4>6. \E u \in Nat : unit = u * PAGE
        <5>1. CASE call.fn = "WriteSector"
          BY <4>2, <4>5, <5>1 DEF Unit
        <5>2. CASE call.fn = "WriteBlock"
          <6>1. BLOCK = (b * s) * PAGE /\ b * s \in Nat
            BY <1>0, <4>2, <4>3, <4>5
          <6> QED
            BY <5>2, <6>1 DEF Unit
        <5> QED
          BY <5>1, <5>2
      <4>7. PICK u \in Nat : unit = u * PAGE
        BY <4>6
      <4> DEFINE v == (call.at + 1) * u
      <4>8. v \in Nat /\ end = v * PAGE
        BY <1>0, <4>7 DEF end
      <4> HIDE DEF v
      <4> QED
        BY <1>0, <4>8
    <3>6. (end \div PAGE) * PAGE <= (page + 1) * PAGE /\ (end \div PAGE) * PAGE \in Nat
      BY <1>0, <3>2, <3>3, Monotone
    <3>7. First(call) + Count(call) <= (page + 1) * PAGE
      BY <1>0, <1>2, <1>3, <2>3, <3>2, <3>4, <3>5, <3>6
    <3> QED
      BY <1>0, <1>2, <2>2, <2>4, <3>7
  <2> QED
    BY <1>0, <1>1, <1>2, <1>5, <2>2, <2>5, <2>6
<1> QED
  BY <1>6, <1>7

(* A write that has written all it counts is done.                             *)
LEMMA WriteEnds ==
    ASSUME call \in Calls, call.fn \in Writes, Count(call) \in Nat, Written(Count(call)),
           First(call) + Count(call) <= Chip
    PROVE  \A i \in 0 .. Count(call) - 1 :
               Settled[First(call) + i] = Programmed(before[First(call) + i], Data(i))
<1> SUFFICES ASSUME NEW i \in 0 .. Count(call) - 1
             PROVE  Settled[First(call) + i] = Programmed(before[First(call) + i], Data(i))
  OBVIOUS
<1>1. First(call) \in Nat /\ Chip \in Nat
  BY SpifAssumption, CallTyped, Monotone DEF Chip
<1>2. /\ First(call) + i \in Cells /\ (First(call) + i) - First(call) = i
      /\ First(call) + i \in First(call) .. First(call) + Count(call) - 1
  BY <1>1 DEF Cells, Chip
<1> QED
  BY <1>2 DEF Written

(* A read from an idle chip delivers its bytes (660-780).                      *)
LEMMA ReadEnds ==
    ASSUME ExactCalls, TypeOK, call \in Calls, call.fn \in Reads, ~Busy, Settled = before,
           rx' = [i \in 0 .. ReadSize(call) - 1 |->
                     IF Busy THEN Garbled
                     ELSE mem[(ReadStart(call) + i) % Cardinality(Cells)]],
           UNCHANGED <<call, before>>
    PROVE  ReadExact'
<1> DEFINE first == First(call)
           count == Count(call)
<1>1. /\ call.at \in Nat /\ call.offset \in Nat /\ call.size \in Nat /\ first \in Nat
      /\ first = call.at * Unit(call.fn) + call.offset
      /\ Unit(call.fn) \in Nat /\ call.at * Unit(call.fn) \in Nat /\ Unit(call.fn) > 0
  BY CallTyped, Units
<1>2. first + count <= Chip /\ call.offset = 0 /\ Chip \in Nat
  BY SpifAssumption, Monotone DEF ExactCalls, Chip
<1>3. ReadStart(call) = first /\ ReadSize(call) = count /\ count \in Int
  <2>1. CASE call.fn = "ReadAddress"
    <3>1. Unit(call.fn) = 1
      BY <2>1 DEF Unit
    <3> QED
      BY <1>1, <1>2, <2>1, <3>1 DEF ReadStart, ReadSize, Count
  <2>2. CASE call.fn # "ReadAddress"
    <3>1. call.offset = 0 /\ ~(call.offset > Unit(call.fn))
      BY <1>1, <1>2, <2>2
    <3>2. Count(call) = Least(call.size, Unit(call.fn) - call.offset)
      BY <2>2 DEF Count, Reads, Writes
    <3> QED
      BY <1>1, <2>2, <3>1, <3>2 DEF ReadStart, ReadSize, Least
  <2> QED
    BY <2>1, <2>2
<1>4. Cardinality(Cells) = Chip
  BY <1>2, FS_Interval DEF Cells, Chip
<1>5. ASSUME NEW i \in 0 .. count - 1
      PROVE  mem[(ReadStart(call) + i) % Cardinality(Cells)] = before[first + i]
  <2>1. first + i \in 0 .. Chip - 1
    BY <1>1, <1>2, <1>3
  <2>2. (first + i) % Chip = first + i
    BY <1>2, <2>1
  <2>3. Settled[first + i] = mem[first + i]
    BY <2>1 DEF Settled, Busy, Cells, Chip
  <2> QED
    BY <1>3, <1>4, <2>2, <2>3
<1>6. rx' = [i \in 0 .. count - 1 |-> before[first + i]]
  <2>1. rx' = [i \in 0 .. count - 1 |-> mem[(ReadStart(call) + i) % Cardinality(Cells)]]
    BY <1>3
  <2>2. \A i \in 0 .. count - 1 : mem[(ReadStart(call) + i) % Cardinality(Cells)] = before[first + i]
    BY <1>5
  <2> HIDE DEF first, count
  <2> QED
    BY <2>1, <2>2
<1>7. First(call') = First(call) /\ Count(call') = Count(call)
  OBVIOUS
<1> QED
  BY <1>6, <1>7 DEF ReadExact

LEMMA SameBytes ==
    ASSUME Settled' = Settled, UNCHANGED <<before, call, calls>>
    PROVE  /\ \A n : Written(n) => Written(n)'
           /\ Prefix => Prefix'
           /\ Blanked => Blanked'
           /\ UNCHANGED <<pc, ok, rx>> /\ Complete => Complete'
<1>1. \A n : Written(n) => Written(n)'
  BY DEF Written, Data
<1>2. Prefix => Prefix'
  BY <1>1 DEF Prefix
<1>3. Blanked => Blanked'
  BY DEF Blanked
<1>4. UNCHANGED <<pc, ok, rx>> /\ Complete => Complete'
  BY DEF Complete, WriteDone, EraseDone, ReadExact, Returned, Data
<1> QED
  BY <1>1, <1>2, <1>3, <1>4

LEMMA SettledStill == ASSUME UNCHANGED <<mem, pending>> PROVE Settled' = Settled
  BY DEF Settled

LEMMA SameWritten ==
    ASSUME Settled' = Settled, UNCHANGED <<before, call, calls, loop>>
    PROVE  (Written(index) => Written(index)') /\ (Written(index + Length) => Written(index + Length)')
  BY DEF Written, Data, Length, Asked, loop

LEMMA NotDone == ASSUME ~ok' PROVE Complete'
  BY DEF Complete, WriteDone, EraseDone, ReadExact

LEMMA AlongStill ==
    ASSUME UNCHANGED <<call, loop, BlockCnt>>
    PROVE  (Along => Along') /\ (OnPage => OnPage') /\ Length' = Length
  BY DEF Along, OnPage, Position, PageCnt, SectorCnt, loop, Length, Asked

(* A write that fails has written the bytes it counts, and no others.          *)
LEMMA FailsShort ==
    ASSUME ExactCalls, TypeOK, CallInv, Along, call.fn \in Writes, pc \in Writing,
           NEW n, n = 0 \/ (pageOffset < PAGE /\ n \in 0 .. Length), Written(index + n)
    PROVE  Prefix
<1> SUFFICES ASSUME call.fn = "WriteAddress" PROVE index + n \in 0 .. call.size
  BY DEF Prefix
<1>1. index \in Nat /\ remaining \in Nat /\ remaining = call.size - index /\ call.size \in Nat
  BY CallTyped DEF Along, TypeOK, Count, CallInv, InCall, Writing
<1>2. CASE n = 0
  BY <1>1, <1>2
<1>3. CASE pageOffset < PAGE /\ n \in 0 .. Length
  <2>1. Length \in Nat /\ index + Length <= call.size
    BY <1>3, ChunkExact DEF Count
  <2> QED
    BY <1>1, <1>3, <2>1
<1> QED
  BY <1>2, <1>3

LEMMA ExactStep ==
    ASSUME ExactCalls PROVE TypeOK /\ CallInv /\ ExactInv /\ [Next]_vars => ExactInv'
<1> SUFFICES ASSUME TypeOK, CallInv, ExactInv, [Next]_vars, ~early' PROVE Exact'
  BY DEF ExactInv
<1> USE DEF handle, loop, chip
<1>0. Exact
  <2>1. ~early
    BY DEF Next, Driver, Stopped, SPIF_Init, InitWriteDisable, FindChip, Enter, TakeLock,
           StartWrite, WriteFn, StartErase, Read, WriteEnable, ProgramPage, Erase,
           WaitForWriting, NextChunk, Done, Disabled, UnLock, ChipFinishes, vars
  <2> QED
    BY <2>1 DEF ExactInv
<1>a. call.fn \in Erases \cup Reads => call.fn \notin Writes
  BY DEF Writes, Erases, Reads
<1>b. call.fn \in Reads => call.fn \notin Erases
  BY DEF Erases, Reads
<1> DEFINE Bytes == UNCHANGED <<mem, pending, before, call, calls>>
<1>c. Bytes => /\ Settled' = Settled /\ \A n : Written(n) => Written(n)'
               /\ (Prefix => Prefix') /\ (Blanked => Blanked')
  BY SettledStill, SameBytes
<1> HIDE DEF Bytes
<1>1. CASE pc' \in {"init", "find_chip", "failed", "idle"}
  BY <1>1 DEF Exact, WriteExact, Writing
<1>2. CASE Enter
  BY <1>2, SettledStill DEF Enter, Exact, WriteExact, Writing
<1>3. CASE TakeLock
  <2>1. pc = "lock" /\ pc' = "start" /\ Bytes
    BY <1>3 DEF TakeLock, Bytes
  <2>2. Settled' = before'
    BY <1>0, <1>c, <2>1 DEF Exact, Bytes
  <2> QED
    BY <2>1, <2>2 DEF Exact, WriteExact, Writing
<1>4. CASE StartWrite
  <2>1. pc = "start" /\ call.fn \in Writes /\ Bytes /\ call \in Calls /\ call' = call
    BY <1>4 DEF StartWrite, Bytes, CallInv, InCall
  <2>2. CASE pc' = "unlock"
    <3>1. ~ok' /\ call.fn \in {"WriteSector", "WriteBlock"}
      BY <1>4, <2>2 DEF StartWrite, Finish
    <3>2. Prefix'
      BY <2>1, <3>1 DEF Prefix
    <3> QED
      BY <2>2, <3>1, <3>2, NotDone DEF Exact, WriteExact, Writing
  <2>3. CASE pc' = "write_fn"
    <3>1. Along' /\ index' = 0
      BY <1>4, <2>1, <2>3, StartExact DEF StartWrite, Finish
    <3>2. First(call) \in Nat
      BY <2>1, CallTyped
    <3>3. Written(0)
      BY <1>0, <2>1, <3>2 DEF Exact, Written
    <3>4. Written(0)'
      BY <1>c, <2>1, <3>3
    <3>5. Written(index)'
      BY <3>1, <3>4 DEF Written
    <3> QED
      BY <2>1, <2>3, <3>1, <3>5, <1>a DEF Exact, WriteExact, Writing
  <2> QED
    BY <1>4, <2>2, <2>3 DEF StartWrite, Finish
<1>5. CASE WriteFn
  <2>1. /\ pc = "write_fn" /\ pc' \in {"disable", "enable"} /\ Bytes
        /\ UNCHANGED <<call, loop, BlockCnt>> /\ call.fn \in Writes
    BY <1>5 DEF WriteFn, Bytes, CallInv
  <2>1a. pc' = "disable" => ~ok'
    BY Zenon, <1>5 DEF WriteFn
  <2>1b. pc' = "enable" => OnPage
    BY <1>5, SpifAssumption, PagesTyped DEF WriteFn, OnPage, TypeOK
  <2>2. Along /\ Written(index)
    BY <1>0, <2>1 DEF Exact, WriteExact, Writing
  <2>3. Along' /\ (pc' = "enable" => OnPage') /\ Written(index)'
    <3>1. Written(index)'
      BY <1>c, <2>1, <2>2, SameWritten DEF Bytes
    <3> QED
      BY <2>1, <2>1b, <2>2, <3>1, AlongStill
  <2>4. Prefix'
    <3>1. index + 0 = index
      BY <2>2 DEF Along
    <3>2. Written(index + 0)
      BY <2>2, <3>1
    <3>3. pc \in Writing
      BY <2>1 DEF Writing
    <3> QED
      BY <1>c, <2>1, <2>2, <3>2, <3>3, FailsShort
  <2>5. call'.fn \in Writes /\ call'.fn \notin Erases
    BY <1>a, <2>1
  <2> QED
    BY <2>1, <2>1a, <2>3, <2>4, <2>5 DEF Exact, WriteExact, Writing
<1>6. CASE StartErase
  <2>1. pc = "start" /\ pc' \in {"disable", "enable"} /\ call.fn \in Erases /\ call' = call
    BY <1>6 DEF StartErase
  <2>2. pc' = "disable" => ~ok'
    BY Zenon, <1>6 DEF StartErase
  <2> QED
    BY <1>a, <2>1, <2>2 DEF Exact
<1>7. CASE Read
  <2>1. pc = "start" /\ pc' = "unlock" /\ call.fn \in Reads /\ call \in Calls /\ Bytes
    BY <1>7 DEF Read, Finish, CallInv, InCall, Bytes
  <2>2. ok' => Complete'
    <3> SUFFICES ASSUME ok' PROVE Complete'
      OBVIOUS
    <3>1. rx' = [i \in 0 .. ReadSize(call) - 1 |->
                    IF Busy THEN Garbled
                    ELSE mem[(ReadStart(call) + i) % Cardinality(Cells)]]
      BY Zenon, <1>7 DEF Read, Finish
    <3>2. ~Busy
      BY Zenon, <1>7 DEF Read
    <3>3. Settled = before
      BY <1>0, <2>1 DEF Exact
    <3>4. ReadExact'
      BY <2>1, <3>1, <3>2, <3>3, ReadEnds DEF Bytes
    <3> QED
      BY <1>a, <1>b, <2>1, <3>4 DEF Complete, WriteDone, EraseDone, Returned, Bytes
  <2> QED
    BY <1>a, <1>b, <2>1, <2>2, NotDone DEF Exact, Bytes
<1>8. CASE WriteEnable
  <2>1. /\ pc = "enable" /\ pc' \in {"command", "disable"} /\ Bytes
        /\ UNCHANGED <<call, loop, BlockCnt>>
    BY <1>8 DEF WriteEnable, Bytes
  <2>2. ~Busy
    BY Zenon, <1>8 DEF WriteEnable
  <2>3. pc' = "command" => Accepts'
    <3> SUFFICES ASSUME pc' = "command" PROVE Accepts'
      OBVIOUS
    <3>1. wel' = (wel \/ ~Busy)
      BY Zenon, <1>8 DEF WriteEnable
    <3>2. Busy' = Busy
      BY <2>1 DEF Busy, Bytes
    <3> QED
      BY Zenon, <2>2, <3>1, <3>2 DEF Accepts
  <2>4. pc' = "disable" => ~ok'
    BY Zenon, <1>8 DEF WriteEnable
  <2>5. CASE call.fn \in Writes
    <3>1. Along /\ OnPage /\ Written(index)
      BY <1>0, <2>1, <2>5 DEF Exact, WriteExact, Writing
    <3>2. Along' /\ OnPage' /\ Written(index)'
      BY <1>c, <2>1, <3>1, SameWritten, AlongStill DEF Bytes
    <3>3. Prefix'
      <4>1. index + 0 = index /\ pc \in Writing
        BY <2>1, <3>1 DEF Along, Writing
      <4>2. Written(index + 0)
        BY <3>1, <4>1
      <4> QED
        BY <1>c, <2>1, <2>5, <3>1, <4>1, <4>2, FailsShort
    <3>4. call'.fn \in Writes /\ call'.fn \notin Erases
      BY <1>a, <2>1, <2>5
    <3> QED
      BY <2>1, <2>3, <2>4, <3>2, <3>3, <3>4 DEF Exact, WriteExact, Writing
  <2>6. CASE call.fn \notin Writes
    BY <2>1, <2>3, <2>4, <2>6 DEF Exact
  <2> QED
    BY <2>5, <2>6
<1>9. CASE ProgramPage
  <2>1. /\ pc = "command" /\ call.fn \in Writes /\ pc' \in {"wait", "disable"}
        /\ UNCHANGED <<call, loop, BlockCnt>> /\ UNCHANGED <<mem, call, before, calls, index>>
    BY <1>9 DEF ProgramPage
  <2>2. Accepts /\ Along /\ OnPage /\ Written(index)
    BY <1>0, <2>1 DEF Exact, WriteExact, Writing
  <2>3. Along' /\ OnPage' /\ Length' = Length
    BY <2>1, <2>2, AlongStill
  <2>4. call'.fn \in Writes /\ call'.fn \notin Erases
    BY <1>a, <2>1
  <2>5. CASE pc' = "wait"
    <3>1. Execute(ProgramBytes(Length)) /\ Length \in 0 .. Length
      BY <1>9, <2>5, LengthTyped DEF ProgramPage
    <3>2. Written(index + Length)'
      <4>1. ASSUME NEW n, n = Length PROVE Written(index + n)'
        BY <2>1, <2>2, <3>1, <4>1, ProgramExact
      <4> QED
        BY <2>3, <4>1 DEF Written
    <3> QED
      BY <2>3, <2>4, <2>5, <3>2 DEF Exact, WriteExact, Writing
  <2>6. CASE pc' = "disable"
    <3>1. ~ok'
      BY Zenon, <1>9, <2>6 DEF ProgramPage
    <3>2. PICK n \in 0 .. Length : Execute(ProgramBytes(n))
      BY <1>9, <2>6 DEF ProgramPage
    <3>3. Written(index + n)'
      BY <2>1, <2>2, <3>2, ProgramExact
    <3>4. Prefix'
      <4> SUFFICES ASSUME call.fn = "WriteAddress" PROVE \E k \in 0 .. call.size : Written(k)'
        BY <2>1 DEF Prefix
      <4>1. index \in Nat /\ Length \in Nat /\ index + Length <= call.size /\ call.size \in Nat
        <5>1. call \in Calls
          BY <2>1 DEF CallInv, InCall
        <5> QED
          BY <2>1, <2>2, <5>1, ChunkExact, CallTyped DEF Count, Along, OnPage, Writing
      <4>2. index + n \in 0 .. call.size
        BY <4>1
      <4>3. ASSUME NEW k, k = index + n PROVE Written(k)'
        BY <2>1, <3>3, <4>3 DEF Written
      <4> QED
        BY <4>2, <4>3
    <3> QED
      BY <2>3, <2>4, <2>6, <3>1, <3>4 DEF Exact, WriteExact, Writing
  <2> QED
    BY <2>1, <2>5, <2>6
<1>10. CASE Erase
  <2>1. /\ pc = "command" /\ call.fn \in Erases /\ pc' \in {"wait", "disable"}
        /\ UNCHANGED <<mem, call>>
    BY <1>10 DEF Erase
  <2>2. pc' = "disable" => ~ok'
    BY Zenon, <1>10 DEF Erase
  <2>3. pc' = "wait" => Blanked'
    <3>1. pc' = "wait" => Execute(Erasing)
      BY <1>10 DEF Erase
    <3> QED
      BY <1>0, <2>1, <3>1, EraseExact DEF Exact
  <2> QED
    BY <1>a, <2>1, <2>2, <2>3 DEF Exact
<1>11. CASE WaitForWriting
  <2>1. /\ pc = "wait" /\ pc' \in {"wait", "disable"} /\ Bytes
        /\ UNCHANGED <<call, loop, BlockCnt>>
    BY <1>11 DEF WaitForWriting, Bytes
  <2>2. CASE call.fn \in Writes
    <3>1. Along /\ OnPage /\ Written(index + Length)
      BY <1>0, <2>1, <2>2 DEF Exact, WriteExact, Writing
    <3>2. Along' /\ OnPage' /\ Written(index + Length)'
      BY <1>c, <2>1, <3>1, SameWritten, AlongStill DEF Bytes
    <3>3. Prefix'
      <4>1. Length \in 0 .. Length /\ pc \in Writing
        BY <2>1, <2>2, <3>1, ChunkExact DEF OnPage, Writing
      <4>2. ASSUME NEW n, n = Length PROVE Prefix
        BY <2>2, <3>1, <4>1, <4>2, FailsShort DEF OnPage
      <4> QED
        BY <1>c, <2>1, <4>2
    <3>4. call'.fn \in Writes /\ call'.fn \notin Erases
      BY <1>a, <2>1, <2>2
    <3> QED
      BY <2>1, <3>2, <3>3, <3>4 DEF Exact, WriteExact, Writing
  <2>3. CASE call.fn \notin Writes
    <3>1. Blanked' \/ call'.fn \notin Erases
      BY <1>0, <1>c, <2>1 DEF Exact
    <3> QED
      BY <2>1, <2>3, <3>1 DEF Exact
  <2> QED
    BY <2>2, <2>3
<1>12. CASE NextChunk
  <2>1. pc = "disable" /\ call.fn \in Writes /\ ok /\ UNCHANGED ok /\ Bytes /\ UNCHANGED rx
        /\ pc' \in {"write_fn", "unlock"} /\ call \in Calls
    BY <1>12 DEF NextChunk, GoesOn, Disabled, Bytes, CallInv, InCall
  <2>2. OnPage /\ Written(index + Length) /\ Along
    BY <1>0, <2>1 DEF Exact, WriteExact, Writing
  <2>3. /\ pc' = "write_fn" => Along' /\ index' = index + Length
        /\ pc' = "unlock" => /\ index + Length = Count(call)
                            /\ First(call) + Count(call) <= Chip
    BY <1>12, <2>1, <2>2, NextExact
  <2>4. call' = call /\ call'.fn \in Writes /\ call'.fn \notin Erases /\ call'.fn \notin Reads
    BY <1>a, <2>1 DEF Bytes, Writes, Reads
  <2>5. CASE pc' = "write_fn"
    <3>1. Written(index)'
      <4>1. ASSUME NEW n, n = index + Length PROVE Written(n)'
        BY <1>c, <2>1, <2>2, <4>1
      <4> QED
        BY <2>3, <2>5, <4>1 DEF Written
    <3> QED
      BY <2>3, <2>4, <2>5, <3>1 DEF Exact, WriteExact, Writing
  <2>6. CASE pc' = "unlock"
    <3>1. \A i \in 0 .. Count(call) - 1 :
              Settled[First(call) + i] = Programmed(before[First(call) + i], Data(i))
      <4>1. Count(call) \in Nat
        BY <2>1, <2>2, ChunkExact DEF OnPage, Writing
      <4> QED
        BY <2>1, <2>2, <2>3, <2>6, <4>1, WriteEnds
    <3>2. WriteDone'
      BY <1>c, <2>1, <3>1 DEF WriteDone, Data, Bytes
    <3>3. Complete'
      BY <2>4, <3>2 DEF Complete, EraseDone, ReadExact, Returned
    <3> QED
      BY <2>1, <2>4, <2>6, <3>3 DEF Exact, WriteExact, Writing
  <2> QED
    BY <2>1, <2>5, <2>6
<1>13. CASE Done
  <2>1. /\ pc = "disable" /\ pc' = "unlock" /\ Bytes /\ UNCHANGED <<ok, rx>> /\ call' = call
        /\ call.fn \in Erases \/ ~ok
    BY <1>13 DEF Done, GoesOn, Disabled, Bytes
  <2>2. CASE call.fn \in Erases
    <3>1. ok => Blanked'
      BY <1>0, <1>c, <2>1, <2>2 DEF Exact
    <3>2. ok' => Complete'
      BY <1>a, <1>b, <2>1, <2>2, <3>1 DEF Complete, WriteDone, EraseDone, ReadExact, Returned, Blanked
    <3> QED
      BY <1>a, <2>1, <2>2, <3>2, NotDone DEF Exact
  <2>3. CASE ~ok /\ call.fn \notin Erases
    <3>1. call.fn \in Writes => Prefix'
      BY <1>0, <1>c, <2>1, <2>3 DEF Exact, WriteExact
    <3>2. ~ok'
      BY Zenon, <2>1, <2>3
    <3> QED
      BY <2>1, <2>3, <3>1, <3>2, NotDone DEF Exact, WriteExact, Writing
  <2> QED
    BY <2>1, <2>2, <2>3
<1>14. CASE ChipFinishes
  <2>1. /\ Busy /\ mem' = Settled /\ pending' = Nothing
        /\ UNCHANGED <<pc, handle, call, loop, ok, rx, before, calls>>
    BY <1>14 DEF ChipFinishes
  <2>2. Settled' = Settled
    BY <2>1 DEF Settled, Nothing
  <2>3. pc # "command"
    BY <1>0, <2>1 DEF Exact, Accepts
  <2> QED
    BY <1>0, <2>1, <2>2, <2>3, SameBytes, SameWritten, AlongStill DEF Exact, WriteExact
<1>15. CASE UNCHANGED vars
  <2>1. Settled' = Settled /\ Accepts' = Accepts
    BY <1>15 DEF Settled, Accepts, Busy, vars
  <2>2. UNCHANGED <<pc, handle, call, loop, ok, rx, before, calls>>
    BY <1>15 DEF vars
  <2> QED
    BY <1>0, <2>1, <2>2, SameBytes, SameWritten, AlongStill DEF Exact, WriteExact
<1>16. SPIF_Init \/ InitWriteDisable \/ FindChip \/ UnLock => pc' \in {"init", "find_chip", "failed", "idle"}
  BY DEF SPIF_Init, InitWriteDisable, FindChip, UnLock
<1> QED
  BY <1>1, <1>2, <1>3, <1>4, <1>5, <1>6, <1>7, <1>8, <1>9, <1>10, <1>11, <1>12, <1>13, <1>14,
     <1>15, <1>16 DEF Next, Driver, Stopped

LEMMA ExactInvariant == ASSUME ExactCalls PROVE Spec => []ExactInv
<1>1. Init => ExactInv
  BY DEF Init, ExactInv, Exact, WriteExact, Writing
<1>2. TypeOK /\ CallInv /\ ExactInv /\ [Next]_vars => ExactInv'
  BY ExactStep
<1> QED
  BY <1>1, <1>2, CallInvariant, PTL DEF Spec

(* As long as no command met a busy chip, a call that returns true has done    *)
(* exactly what it was asked, for every chip, every size and every             *)
(* transaction that may fail on the way (562-646, 788-1048).                   *)
THEOREM ExactWhenIdle == ASSUME ExactCalls PROVE Spec => []ExactOnIdleChip
<1>1. TypeOK /\ ExactInv => ExactOnIdleChip
  <2> SUFFICES ASSUME TypeOK, ExactInv, ~early, pc # "unlock" PROVE Complete
    BY DEF ExactInv, Exact, ExactOnIdleChip, Complete
  <2> QED
    BY DEF Complete, WriteDone, EraseDone, ReadExact, Returned
<1> QED
  BY <1>1, CallInvariant, ExactInvariant, PTL

(* ... and one that returns false has written a beginning of its data and      *)
(* nothing else (918-944).                                                     *)
THEOREM FailsInOrder == ASSUME ExactCalls PROVE Spec => []FailedWriteIsPrefix
<1>1. TypeOK /\ CallInv /\ ExactInv => FailedWriteIsPrefix
  <2> SUFFICES ASSUME TypeOK, CallInv, ExactInv, pc = "unlock", call.fn = "WriteAddress", ~ok, ~early
               PROVE  \E n \in 0 .. call.size :
                          \A i \in 0 .. call.size - 1 :
                              LET c == First(call) + i
                              IN  c \in Cells =>
                                    Settled[c] = IF i < n THEN Programmed(before[c], Data(i))
                                                 ELSE before[c]
    BY DEF FailedWriteIsPrefix, Returned
  <2>1. Prefix /\ call \in Calls
    BY DEF ExactInv, Exact, WriteExact, Writes, CallInv, InCall
  <2>2. PICK n \in 0 .. call.size : Written(n)
    BY <2>1 DEF Prefix
  <2>3. First(call) \in Nat /\ call.size \in Nat
    BY <2>1, CallTyped
  <2>4. ASSUME NEW i \in 0 .. call.size - 1, First(call) + i \in Cells
        PROVE  Settled[First(call) + i] =
                   IF i < n THEN Programmed(before[First(call) + i], Data(i)) ELSE before[First(call) + i]
    <3>1. /\ (First(call) + i) - First(call) = i
          /\ First(call) + i \in First(call) .. First(call) + n - 1 <=> i < n
      BY <2>2, <2>3
    <3> QED
      BY <2>2, <2>4, <3>1 DEF Written
  <2> QED
    BY <2>4
<1> QED
  BY <1>1, CallInvariant, ExactInvariant, PTL
=============================================================================
