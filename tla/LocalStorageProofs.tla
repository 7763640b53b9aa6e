------------------------- MODULE LocalStorageProofs -------------------------
(***************************************************************************)
(* Proofs about the record store, for every number of folders and files,    *)
(* any set of failing calls and any number of failures, resets and pushes:  *)
(* first of its seeks, then that it is the durable log it should be.        *)
(***************************************************************************)
EXTENDS LocalStorageLog, TLAPS

USE DEF FOLDER_SEEK_START, FILE_SEEK_START

(* Advancing a seek keeps it in the uint16_t range the seeks live in         *)
(* (local_storage.c 542-549, 629-636).                                       *)
LEMMA AdvanceTyped ==
    ASSUME NEW s \in Seeks
    PROVE  AdvanceWrite(s) \in Seeks /\ AdvanceRead(s) \in Seeks
  BY StorageAssumption
     DEF Seeks, Folders, FileNos, AdvanceWrite, AdvanceRead, NextFile, NextFolder

LEMMA StartTyped == ZeroSeeks \in Seeks /\ StartSeeks \in Seeks
  BY StorageAssumption DEF Seeks, Folders, FileNos, ZeroSeeks, StartSeeks

LEMMA SlotsTyped ==
    ASSUME NEW s \in Seeks PROVE WriteSlot(s) \in Slot /\ ReadSlot(s) \in Slot
  BY DEF Seeks, Slot, WriteSlot, ReadSlot

(* A file overwritten at its start is still a file (522, 535). *)
LEMMA OverwriteTyped ==
    ASSUME NEW old \in File, NEW new \in File PROVE Overwrite(old, new) \in File
  BY DEF Overwrite, File

LEMMA PushCloseFiles ==
    ASSUME PushClose, buffer \in File, DOMAIN files \subseteq Slot,
           \A s \in DOMAIN files : files[s] \in File
    PROVE  /\ DOMAIN files' = DOMAIN files
           /\ \A s \in DOMAIN files' : files'[s] \in File
<1>1. CASE UNCHANGED files
  BY <1>1
<1>2. CASE files' = [files EXCEPT ![WriteSlot(info)] =
                          Overwrite(files[WriteSlot(info)], buffer)]
  BY <1>2, OverwriteTyped
<1> QED
  BY <1>1, <1>2 DEF PushClose

(* What the type invariant needs besides itself: a record is read from a     *)
(* file that was found.                                                      *)
FileFound == pc = "pop_read" => ReadSlot(info) \in DOMAIN files

LEMMA EmptyTyped == EmptyFile \in File
  BY DEF EmptyFile, File, Record, NoRecord

LEMMA TypeInit == Init => TypeOK /\ FileFound
<1> SUFFICES ASSUME Init PROVE TypeOK /\ FileFound
  OBVIOUS
<1>1. pushed \in Seq(Record) /\ popped \in Seq(Record)
  BY DEF Init
<1>2. DOMAIN files = {}
  BY DEF Init, NoFiles
<1> QED
  BY <1>1, <1>2, StartTyped, EmptyTyped DEF Init, TypeOK, FileFound, PCs, Codes

LEMMA TypeStep == TypeOK /\ FileFound /\ [Next]_vars => TypeOK' /\ FileFound'
<1> SUFFICES ASSUME TypeOK, FileFound, [Next]_vars PROVE TypeOK' /\ FileFound'
  OBVIOUS
<1> USE StartTyped DEF TypeOK, FileFound, PCs, Codes, Fault, NoFault, Hang, Return,
                       ram, disk, hist, budget
<1>1. CASE PowerOn  BY <1>1 DEF PowerOn
<1>2. CASE Mount    BY <1>2 DEF Mount
<1>3. CASE Format
  <2>1. CASE Wipe("littlefs") /\ NoFault
    BY <1>3, <2>1 DEF Format, Wipe, NoFiles
  <2>2. CASE Wipe("blank") /\ Fault("format")
    BY <1>3, <2>2 DEF Format, Wipe, NoFiles
  <2>3. CASE UNCHANGED disk /\ Fault("format")
    BY <1>3, <2>3 DEF Format
  <2> QED
    BY <1>3, <2>1, <2>2, <2>3 DEF Format
<1>4. CASE Remount  BY <1>4 DEF Remount
<1>5. CASE GetStoreInfo  BY <1>5 DEF GetStoreInfo, StartAfresh
<1>6. CASE MakeFolder
  <2>1. dirs' \subseteq Nat
    BY <1>6 DEF MakeFolder
  <2>2. bcnt' \in Nat
    BY <1>6 DEF MakeFolder
  <2>3. pc' \in PCs \ {"pop_read"}
    BY <1>6 DEF MakeFolder
  <2>4. faults' \in Nat /\ crashes' \in Nat /\ attempts' \in Nat
    BY <1>6 DEF MakeFolder
  <2> QED
    BY <1>6, <2>1, <2>2, <2>3, <2>4 DEF MakeFolder
<1>7. CASE GetFirmwareInfo  BY <1>7 DEF GetFirmwareInfo
<1>8. CASE MakeFirmwareDir  BY <1>8 DEF MakeFirmwareDir
<1>9. CASE OpenFirmwareInfo  BY <1>9 DEF OpenFirmwareInfo
<1>10. CASE CloseFirmwareInfo  BY <1>10 DEF CloseFirmwareInfo
<1>11. CASE OpenInfo  BY <1>11 DEF OpenInfo, Rollback
<1>12. CASE CloseInfo  BY <1>12 DEF CloseInfo
<1>13. CASE InfoDone
  <2>1. buffer.rec \in Record
    BY DEF File
  <2>2. pushed' \in Seq(Record) /\ popped' \in Seq(Record)
    <3>1. Append(pushed, buffer.rec) \in Seq(Record) /\ Append(popped, buffer.rec) \in Seq(Record)
      BY <2>1
    <3> QED
      BY <1>13, <3>1 DEF InfoDone
  <2> QED
    BY <1>13, <2>2 DEF InfoDone
<1>15. CASE PushOpen
  <2>1. buffer' \in File
    <3>1. CASE UNCHANGED buffer
      BY <3>1
    <3>2. ASSUME NEW size \in Sizes, buffer' = [rec |-> attempts + 1, len |-> size]
          PROVE  buffer' \in File
      BY <3>2, StorageAssumption DEF File, Record
    <3> QED
      BY <1>15, <3>1, <3>2 DEF PushOpen, OpenRecord
  <2>2. DOMAIN files' \subseteq Slot /\ \A s \in DOMAIN files' : files'[s] \in File
    BY <1>15, EmptyTyped, SlotsTyped DEF PushOpen, OpenRecord
  <2> QED
    BY <1>15, <2>1, <2>2 DEF PushOpen, OpenRecord
<1>16. CASE PushWrite  BY <1>16 DEF PushWrite
<1>17. CASE PushClose
  <2>1. faults' \in Nat /\ crashes' \in Nat /\ attempts' \in Nat
    BY <1>17 DEF PushClose
  <2>2. DOMAIN files' \subseteq Slot /\ \A s \in DOMAIN files' : files'[s] \in File
    BY <1>17, PushCloseFiles
  <2>3. info' \in Seeks
    BY <1>17, AdvanceTyped DEF PushClose
  <2> QED
    BY <1>17, <2>1, <2>2, <2>3 DEF PushClose
<1>18. CASE PopEmpty  BY <1>18 DEF PopEmpty
<1>19. CASE PopOpen  BY <1>19 DEF PopOpen
<1>20. CASE PopRead  BY <1>20, AdvanceTyped DEF PopRead
<1>21. CASE Crash  BY <1>21 DEF Crash, File, EmptyFile, NoRecord, Record
<1>22. CASE UNCHANGED vars  BY <1>22 DEF vars
<1>23. CASE Stopped  BY <1>22, <1>23 DEF Stopped
<1> QED
  BY <1>1, <1>2, <1>3, <1>4, <1>5, <1>6, <1>7, <1>8, <1>9, <1>10, <1>11, <1>12, <1>13,
     <1>15, <1>16, <1>17, <1>18, <1>19, <1>20, <1>21, <1>22, <1>23
     DEF Next, BootStep, InfoStep, PushStep, PopStep

(* Type correctness of the record store, seeks included. *)
THEOREM TypeCorrect == Spec => []TypeOK
<1>1. Init => TypeOK /\ FileFound
  BY TypeInit
<1>2. TypeOK /\ FileFound /\ [Next]_vars => (TypeOK /\ FileFound)'
  BY TypeStep
<1> QED
  BY <1>1, <1>2, PTL DEF Spec
-----------------------------------------------------------------------------
(* The seeks.  From here on the code's own numbers are assumed to fit: the   *)
(* loop creates no folder beyond FOLDER_MAX_COUNT.                           *)

(* A reader behind the writer is at most level with it after one record, and *)
(* the slots still unread were there before (624-636).                       *)
LEMMA AdvanceReadSound ==
    ASSUME NEW s \in Seeks, NEW E, Sound(s, E), ~Empty(s)
    PROVE  Sound(AdvanceRead(s), E)
<1> USE StorageAssumption
<1> DEFINE t == AdvanceRead(s)
<1>1. WriteSlot(t) = WriteSlot(s) /\ Before(ReadSlot(s), ReadSlot(t))
  BY DEF Sound, ReaderNotAhead, NotWrapped, Before, Empty, WriteSlot, ReadSlot, AdvanceRead,
         NextFile, NextFolder, Seeks, Folders, FileNos
<1>2. ReaderNotAhead(t)
  BY DEF Sound, ReaderNotAhead, NotWrapped, Before, Empty, WriteSlot, ReadSlot, AdvanceRead,
         NextFile, NextFolder, Seeks, Folders, FileNos
<1>3. NotWrapped(t)
  BY DEF Sound, NotWrapped, AdvanceRead
<1>4. SlotsPresent(t, E)
  BY <1>1, AdvanceTyped
     DEF Sound, SlotsPresent, Before, Slot, ReadSlot, WriteSlot, Seeks, Folders, FileNos
<1> QED
  BY <1>2, <1>3, <1>4 DEF Sound

(* A writer in an existing folder leaves its slot filled, and moves to the   *)
(* very next slot (537-549).                                                 *)
LEMMA AdvanceWriteSound ==
    ASSUME NEW s \in Seeks, NEW E, Sound(s, E), s.w_folder_seek \in 1 .. FOLDER_MAX_COUNT,
           WriteSlot(s) \in E
    PROVE  Sound(AdvanceWrite(s), E)
<1> USE StorageAssumption
<1> DEFINE t == AdvanceWrite(s)
<1>1. ReadSlot(t) = ReadSlot(s) /\ Before(WriteSlot(s), WriteSlot(t))
  BY DEF Before, WriteSlot, ReadSlot, AdvanceWrite, NextFile, NextFolder, Seeks, Folders, FileNos
<1>2. ReaderNotAhead(t)
  BY <1>1 DEF Sound, ReaderNotAhead, Before, WriteSlot, ReadSlot, AdvanceWrite,
         NextFile, NextFolder, Seeks, Folders, FileNos
<1>3. NotWrapped(t)
  BY DEF NotWrapped, AdvanceWrite, NextFile, NextFolder, Seeks, Folders, FileNos
<1>4. \A x \in Slot : Before(x, WriteSlot(t)) => Before(x, WriteSlot(s)) \/ x = WriteSlot(s)
  BY DEF Before, WriteSlot, AdvanceWrite, NextFile, NextFolder, Seeks, Folders, FileNos, Slot
<1>5. SlotsPresent(t, E)
  BY <1>1, <1>4 DEF Sound, SlotsPresent
<1> QED
  BY <1>2, <1>3, <1>5 DEF Sound

(* A ring with the read seek at the write seek is sound whatever the files.  *)
LEMMA StartSound ==
    ASSUME NEW E PROVE Sound(ZeroSeeks, E) /\ Sound(StartSeeks, E)
  BY StorageAssumption
     DEF Sound, ReaderNotAhead, NotWrapped, SlotsPresent, Before, WriteSlot, ReadSlot,
         ZeroSeeks, StartSeeks, Slot, Folders, FileNos

(* More files do no harm.                                                    *)
LEMMA SoundStable ==
    ASSUME NEW s, NEW E, NEW F, E \subseteq F, Sound(s, E) PROVE Sound(s, F)
  BY DEF Sound, SlotsPresent

(* A sound ring is never full: with the seeks in one folder the write seek   *)
(* is the larger.                                                            *)
LEMMA SoundNotFull ==
    ASSUME NEW s \in Seeks, NEW E, Sound(s, E) PROVE ~Full(s)
  BY StorageAssumption DEF Sound, ReaderNotAhead, Before, Full, WriteSlot, ReadSlot,
         Seeks, Folders, FileNos

FoldersFit == FOLDERS_CREATED <= FOLDER_MAX_COUNT

LEMMA SeeksInit == Init => SeeksInv
  BY StartSound DEF Init, SeeksInv, NeverFull

(* What a step that creates no seeks has to show.                            *)
LEMMA SeeksKept ==
    ASSUME SeeksInv, UNCHANGED <<info, saved, diskInfo>>, DOMAIN files \subseteq DOMAIN files'
    PROVE  /\ Sound(info', DOMAIN files')
           /\ Sound(saved', DOMAIN files')
           /\ Sound(diskInfo', DOMAIN files')
  BY SoundStable DEF SeeksInv

LEMMA SeeksStep ==
    FoldersFit /\ TypeOK /\ SeeksInv /\ [Next]_vars => SeeksInv'
<1> SUFFICES ASSUME FoldersFit, TypeOK, SeeksInv, [Next]_vars PROVE SeeksInv'
  OBVIOUS
<1> USE DEF SeeksInv, NeverFull, Fault, NoFault, Hang, Return, ram, disk, hist, budget
<1>1. CASE PowerOn  BY <1>1, SeeksKept DEF PowerOn
<1>2. CASE Mount    BY <1>2, SeeksKept DEF Mount
<1>3. CASE Format
  <2>1. CASE UNCHANGED disk
    BY <1>3, <2>1, SeeksKept DEF Format
  <2>2. CASE ~UNCHANGED disk
    <3>1. info' = ZeroSeeks /\ saved' = ZeroSeeks /\ diskInfo' = StartSeeks /\ dirs' = {}
      BY <1>3, <2>2 DEF Format, Wipe
    <3> QED
      BY <1>3, <3>1, StartSound DEF Format
  <2> QED
    BY <2>1, <2>2
<1>4. CASE Remount  BY <1>4, SeeksKept DEF Remount
<1>5. CASE GetStoreInfo
  <2>1. UNCHANGED <<saved, diskInfo, dirs, files, ret, bcnt>>
    BY <1>5 DEF GetStoreInfo, StartAfresh
  <2>2. info' \in {info, diskInfo, StartSeeks}
    BY <1>5 DEF GetStoreInfo, StartAfresh
  <2>3. pc' \in {"get_firmware_info", "info_open", "hung"}
    BY <1>5 DEF GetStoreInfo, StartAfresh
  <2> QED
    BY <2>1, <2>2, <2>3, StartSound
<1>6. CASE MakeFolder
  <2>1. dirs' \subseteq 1 .. FOLDERS_CREATED
    BY <1>6 DEF MakeFolder
  <2>2. pc' = "mkdir" => bcnt' \in 1 .. FOLDERS_CREATED
    BY <1>6, StorageAssumption DEF MakeFolder
  <2>3. pc' \in {"mkdir", "get_firmware_info", "hung"}
    BY <1>6 DEF MakeFolder
  <2> QED
    BY <1>6, <2>1, <2>2, <2>3, SeeksKept DEF MakeFolder
<1>7. CASE GetFirmwareInfo  BY <1>7, SeeksKept DEF GetFirmwareInfo
<1>8. CASE MakeFirmwareDir  BY <1>8, SeeksKept DEF MakeFirmwareDir
<1>9. CASE OpenFirmwareInfo  BY <1>9, SeeksKept DEF OpenFirmwareInfo
<1>10. CASE CloseFirmwareInfo  BY <1>10, SeeksKept DEF CloseFirmwareInfo
<1>11. CASE OpenInfo
  <2>1. info' \in {info, saved} /\ UNCHANGED <<saved, diskInfo, dirs, files>>
    BY <1>11 DEF OpenInfo, Rollback
  <2>2. pc' \in {"info_close", "hung", "ready"} /\ ret' # "STORATE_FULL"
    BY <1>11 DEF OpenInfo, Rollback
  <2> QED
    BY <2>1, <2>2
<1>12. CASE CloseInfo
  <2>1. diskInfo' \in {info, diskInfo}
    BY <1>12 DEF CloseInfo
  <2> QED
    BY <1>12, <2>1 DEF CloseInfo
<1>13. CASE InfoDone
  <2>1. pc' \in {"mkdir", "ready"} /\ (pc' = "mkdir" => bcnt' = 1) /\ ret' # "STORATE_FULL"
    BY <1>13 DEF InfoDone
  <2>2. UNCHANGED <<info, saved, disk>>
    BY <1>13 DEF InfoDone
  <2> QED
    BY <2>1, <2>2, StorageAssumption
<1>15. CASE PushOpen
  <2>1. DOMAIN files \subseteq DOMAIN files'
    BY <1>15 DEF PushOpen, OpenRecord
  <2>2. pc' = "push_write" =>
            /\ info'.w_folder_seek \in dirs'
            /\ WriteSlot(info') \in DOMAIN files'
    BY <1>15 DEF PushOpen, OpenRecord, WriteSlot
  <2>3. pc' \in {"push_write", "ready"} /\ ret' # "STORATE_FULL"
    BY <1>15, SoundNotFull DEF TypeOK, PushOpen, OpenRecord
  <2>4. UNCHANGED <<info, saved, diskInfo, dirs>>
    BY <1>15 DEF PushOpen, OpenRecord
  <2> QED
    BY <2>1, <2>2, <2>3, <2>4, SeeksKept
<1>16. CASE PushWrite  BY <1>16, SeeksKept DEF PushWrite
<1>17. CASE PushClose
  <2>1. DOMAIN files' = DOMAIN files
    BY <1>17 DEF PushClose
  <2>2. Sound(AdvanceWrite(info), DOMAIN files)
    <3>1. info \in Seeks /\ Sound(info, DOMAIN files) /\ WriteSlot(info) \in DOMAIN files
      BY <1>17 DEF PushClose, TypeOK
    <3>2. info.w_folder_seek \in 1 .. FOLDERS_CREATED
      BY <1>17 DEF PushClose
    <3>3. info.w_folder_seek \in 1 .. FOLDER_MAX_COUNT
      BY <3>2, StorageAssumption DEF FoldersFit
    <3> HIDE DEF SeeksInv
    <3> QED
      BY <3>1, <3>3, AdvanceWriteSound
  <2> QED
    BY <1>17, <2>1, <2>2 DEF PushClose
<1>18. CASE PopEmpty  BY <1>18, SeeksKept DEF PopEmpty
<1>19. CASE PopOpen
  BY <1>19, SeeksKept DEF PopOpen
<1>20. CASE PopRead
  <2>1. Sound(AdvanceRead(info), DOMAIN files)
    BY <1>20, AdvanceReadSound DEF PopRead, TypeOK
  <2> QED
    BY <1>20, <2>1 DEF PopRead
<1>21. CASE Crash  BY <1>21, StartSound DEF Crash
<1>22. CASE UNCHANGED vars  BY <1>22, SeeksKept DEF vars
<1>23. CASE Stopped  BY <1>22, <1>23 DEF Stopped
<1> QED
  BY <1>1, <1>2, <1>3, <1>4, <1>5, <1>6, <1>7, <1>8, <1>9, <1>10, <1>11, <1>12, <1>13,
     <1>15, <1>16, <1>17, <1>18, <1>19, <1>20, <1>21, <1>22, <1>23
     DEF Next, BootStep, InfoStep, PushStep, PopStep

(* The three facts about the seeks hold in every state of every behaviour,   *)
(* however many calls fail and wherever the power is lost.                   *)
THEOREM SeeksInvariant == FoldersFit /\ Spec => [](TypeOK /\ SeeksInv)
<1> SUFFICES ASSUME FoldersFit PROVE Spec => [](TypeOK /\ SeeksInv)
  OBVIOUS
<1>1. TypeOK /\ SeeksInv /\ [Next]_vars => SeeksInv'
  BY SeeksStep
<1> QED
  BY <1>1, SeeksInit, TypeCorrect, PTL DEF Spec

(* The read seek never passes the write seek, in RAM or on the chip.         *)
THEOREM SeeksOrdered == FoldersFit /\ Spec => []ReaderBehindWriter
<1>1. SeeksInv => ReaderBehindWriter
  BY DEF SeeksInv, Sound, ReaderBehindWriter
<1> QED
  BY <1>1, SeeksInvariant, PTL

(* Every record the seeks on the chip promise has its file.                  *)
THEOREM RecordsThere == FoldersFit /\ Spec => []UnreadPresent
<1>1. SeeksInv => UnreadPresent
  BY DEF SeeksInv, Sound, UnreadPresent
<1> QED
  BY <1>1, SeeksInvariant, PTL

(* Push never answers STORATE_FULL: what stops it is the missing folder.     *)
THEOREM FullUnreachable == FoldersFit /\ Spec => []NeverFull
<1>1. SeeksInv => NeverFull
  BY DEF SeeksInv
<1> QED
  BY <1>1, SeeksInvariant, PTL
-----------------------------------------------------------------------------
(* Where pop looks there is a file: the slots between the seeks are present. *)
THEOREM RecordFound == FoldersFit /\ Spec => []PopFindsFile
<1>1. TypeOK /\ SeeksInv => PopFindsFile
  <2> SUFFICES ASSUME TypeOK, SeeksInv, pc = "ready", ~Empty(info)
               PROVE  ReadSlot(info) \in DOMAIN files
    BY DEF PopFindsFile
  <2>1. info \in Seeks /\ Sound(info, DOMAIN files)
    BY DEF TypeOK, SeeksInv
  <2>2. ReadSlot(info) \in Slot
    BY <2>1, SlotsTyped
  <2>3. Before(ReadSlot(info), WriteSlot(info)) /\ ~Before(ReadSlot(info), ReadSlot(info))
    BY <2>1 DEF Sound, ReaderNotAhead, Empty, Before, ReadSlot, WriteSlot, Seeks, Folders,
                FileNos
  <2> QED
    BY <2>1, <2>2, <2>3 DEF Sound, SlotsPresent
<1> QED
  BY <1>1, SeeksInvariant, PTL
-----------------------------------------------------------------------------
(* The numbers of the slots.                                                 *)
RealSlots == {t \in Slot : t[1] >= FOLDER_SEEK_START}

LEMMA Rows ==
    ASSUME NEW F \in Nat, NEW x \in Nat, NEW y \in Nat, x < y
    PROVE  x * F \in Nat /\ y * F \in Nat /\ x * F + F <= y * F
<1> DEFINE k == y - x - 1
<1>1. k \in Nat /\ y = x + 1 + k
  OBVIOUS
<1>2. y * F = x * F + F + k * F
  BY <1>1
<1>3. k * F >= 0 /\ k * F \in Nat /\ x * F \in Nat
  BY <1>1
<1> QED
  BY <1>2, <1>3

LEMMA PerFolder == FilesPerFolder \in Nat /\ FilesPerFolder > 0
  BY StorageAssumption DEF FilesPerFolder

LEMMA Columns ==
    ASSUME NEW t \in RealSlots
    PROVE  /\ t[1] \in Nat /\ t[1] - 1 \in Nat /\ t[2] \in 0 .. FilesPerFolder - 1
           /\ t = <<t[1], t[2]>>
           /\ t[1] <= FOLDER_MAX_COUNT + 1
  BY StorageAssumption DEF RealSlots, Slot, Folders, FileNos, FilesPerFolder

LEMMA IndexTyped ==
    ASSUME NEW t \in RealSlots PROVE IndexOf(t) \in Nat
<1>1. (t[1] - 1) * FilesPerFolder \in Nat
  BY Columns, PerFolder
<1> QED
  BY <1>1, Columns, PerFolder DEF IndexOf

(* The numbers follow the order in which the seeks visit the slots.          *)
LEMMA IndexOrder ==
    ASSUME NEW s \in RealSlots, NEW t \in RealSlots, Before(s, t)
    PROVE  IndexOf(s) < IndexOf(t)
<1> DEFINE a == s[1] - 1
           c == t[1] - 1
           F == FilesPerFolder
<1>1. a \in Nat /\ c \in Nat /\ s[2] \in 0 .. F - 1 /\ t[2] \in 0 .. F - 1 /\ F \in Nat
  BY Columns, PerFolder
<1>2. IndexOf(s) = a * F + s[2] /\ IndexOf(t) = c * F + t[2]
  BY DEF IndexOf
<1>3. CASE a = c /\ s[2] < t[2]
  <2>1. a * F \in Nat
    BY <1>1
  <2> QED
    BY <1>1, <1>2, <1>3, <2>1
<1>4. CASE a < c
  <2>1. a * F \in Nat /\ c * F \in Nat /\ a * F + F <= c * F
    BY <1>1, <1>4, Rows
  <2> QED
    BY <1>1, <1>2, <2>1
<1> QED
  BY <1>1, <1>3, <1>4, Columns DEF Before

LEMMA SlotOfNumber ==
    ASSUME NEW n \in Nat
    PROVE  /\ n \div FilesPerFolder \in Nat
           /\ n % FilesPerFolder \in 0 .. FilesPerFolder - 1
           /\ n = (n \div FilesPerFolder) * FilesPerFolder + (n % FilesPerFolder)
           /\ IndexOf(SlotAt(n)) = n
<1>1. \A F \in Nat : F > 0 => /\ n \div F \in Nat
                              /\ n % F \in 0 .. F - 1
                              /\ n = (n \div F) * F + (n % F)
  OBVIOUS
<1>2. IndexOf(SlotAt(n)) = (n \div FilesPerFolder) * FilesPerFolder + (n % FilesPerFolder)
  BY <1>1, PerFolder DEF IndexOf, SlotAt
<1> QED
  BY <1>1, <1>2, PerFolder

(* What is numbered below a slot comes before it.                            *)
LEMMA SlotBelow ==
    ASSUME NEW s \in RealSlots, NEW n \in Nat, n <= IndexOf(s)
    PROVE  /\ SlotAt(n) \in RealSlots
           /\ n < IndexOf(s) => Before(SlotAt(n), s)
           /\ n = IndexOf(s) => SlotAt(n) = s
<1> DEFINE q == n \div FilesPerFolder
           r == n % FilesPerFolder
           F == FilesPerFolder
           a == s[1] - 1
<1>1. q \in Nat /\ r \in 0 .. F - 1 /\ n = q * F + r /\ F \in Nat /\ F > 0
  BY SlotOfNumber, PerFolder
<1>2. a \in Nat /\ s[2] \in 0 .. F - 1 /\ IndexOf(s) = a * F + s[2]
  BY Columns DEF IndexOf
<1>3. q <= a
  <2> SUFFICES ASSUME a < q PROVE FALSE
    BY <1>1, <1>2
  <2>1. a * F \in Nat /\ q * F \in Nat /\ a * F + F <= q * F
    BY <1>1, <1>2, Rows
  <2> QED
    BY <1>1, <1>2, <2>1
<1>4. SlotAt(n) = <<q + 1, r>>
  BY <1>1 DEF SlotAt
<1>5. SlotAt(n) \in RealSlots
  BY <1>1, <1>2, <1>3, <1>4, Columns, StorageAssumption
     DEF RealSlots, Slot, Folders, FileNos, FilesPerFolder
<1>6. IndexOf(SlotAt(n)) = n
  BY SlotOfNumber
<1>7. ~Before(s, SlotAt(n))
  BY <1>5, <1>6, IndexOrder, IndexTyped
<1>8. SlotAt(n) = s \/ Before(SlotAt(n), s)
  BY <1>5, <1>7, Columns DEF Before
<1>9. Before(SlotAt(n), s) => n < IndexOf(s)
  BY <1>5, <1>6, IndexOrder
<1> QED
  BY <1>5, <1>6, <1>8, <1>9, IndexTyped

(* One advance of a seek is one number (542-549, 629-636).                    *)
LEMMA AdvanceNumber ==
    ASSUME NEW s \in Seeks
    PROVE  /\ s.w_folder_seek \in 1 .. FOLDER_MAX_COUNT =>
               /\ WriteSlot(s) \in RealSlots /\ WriteSlot(AdvanceWrite(s)) \in RealSlots
               /\ IndexOf(WriteSlot(AdvanceWrite(s))) = IndexOf(WriteSlot(s)) + 1
           /\ s.r_folder_seek \in 1 .. FOLDER_MAX_COUNT =>
               /\ ReadSlot(s) \in RealSlots /\ ReadSlot(AdvanceRead(s)) \in RealSlots
               /\ IndexOf(ReadSlot(AdvanceRead(s))) = IndexOf(ReadSlot(s)) + 1
<1> DEFINE F == FilesPerFolder
<1>1. \A k \in 1 .. FOLDER_MAX_COUNT : (k + 1 - 1) * F = (k - 1) * F + F /\ (k - 1) * F \in Nat
  <2> SUFFICES ASSUME NEW k \in 1 .. FOLDER_MAX_COUNT
               PROVE (k + 1 - 1) * F = (k - 1) * F + F /\ (k - 1) * F \in Nat
    OBVIOUS
  <2> QED
    BY PerFolder, StorageAssumption
<1>2. ASSUME NEW k \in 1 .. FOLDER_MAX_COUNT, NEW f \in FileNos
      PROVE  /\ <<k, f>> \in RealSlots /\ <<NextFolder(k, f), NextFile(f)>> \in RealSlots
             /\ IndexOf(<<NextFolder(k, f), NextFile(f)>>) = IndexOf(<<k, f>>) + 1
  <2>1. IndexOf(<<k, f>>) = (k - 1) * F + f
    BY DEF IndexOf
  <2>2. <<k, f>> \in RealSlots /\ <<NextFolder(k, f), NextFile(f)>> \in RealSlots
    BY <1>2, StorageAssumption DEF RealSlots, Slot, Folders, FileNos, NextFolder, NextFile
  <2>3. CASE f <= FILE_MAX_COUNT
    <3>1. NextFolder(k, f) = k /\ NextFile(f) = f + 1
      BY <2>3, StorageAssumption DEF NextFolder, NextFile, FileNos
    <3> QED
      BY <1>1, <2>1, <2>2, <3>1, <1>2, StorageAssumption DEF IndexOf, FileNos
  <2>4. CASE f = FILE_MAX_COUNT + 1
    <3>1. NextFolder(k, f) = k + 1 /\ NextFile(f) = 0 /\ F = f + 1
      BY <1>2, <2>4, StorageAssumption DEF NextFolder, NextFile, FilesPerFolder
    <3>2. IndexOf(<<k + 1, 0>>) = (k + 1 - 1) * F + 0
      BY DEF IndexOf
    <3> QED
      BY <1>1, <1>2, <2>1, <2>2, <2>4, <3>1, <3>2, StorageAssumption
  <2> QED
    BY <2>2, <2>3, <2>4, <1>2, StorageAssumption DEF FileNos
<1> QED
  BY <1>2 DEF Seeks, WriteSlot, ReadSlot, AdvanceWrite, AdvanceRead
-----------------------------------------------------------------------------
(* What is on the chip while a call goes on: the seeks of before, until the  *)
(* info file is closed.                                                      *)
Storing == {"info_open", "info_close"}
Settled == {"get_firmware_info", "fw_mkdir", "fw_open", "fw_close", "mkdir", "ready",
            "info_done", "push_write", "push_close", "pop_read"}

SeeksKnown ==
    /\ pc \in Settled => infoFile = "written" /\ diskInfo = info
    /\ pc \in Storing /\ caller # "init" => infoFile = "written" /\ diskInfo = saved

LEMMA SeeksKnownStep == "close" \notin Faults /\ SeeksKnown /\ [Next]_vars => SeeksKnown'
<1> SUFFICES ASSUME "close" \notin Faults, SeeksKnown, [Next]_vars PROVE SeeksKnown'
  OBVIOUS
<1> USE DEF SeeksKnown, Storing, Settled, Fault, NoFault, Hang, Return, ram, disk, hist, budget
<1>1. CASE PowerOn  BY <1>1 DEF PowerOn
<1>2. CASE Mount    BY <1>2 DEF Mount
<1>3. CASE Format   BY <1>3 DEF Format
<1>4. CASE Remount  BY <1>4 DEF Remount
<1>5. CASE GetStoreInfo  BY <1>5 DEF GetStoreInfo, StartAfresh
<1>6. CASE MakeFolder
  <2>1. UNCHANGED <<info, infoFile, diskInfo>>
    BY <1>6 DEF MakeFolder
  <2>2. pc = "mkdir" /\ pc' \in {"mkdir", "get_firmware_info", "hung"}
    BY <1>6 DEF MakeFolder
  <2> QED
    BY <2>1, <2>2
<1>7. CASE GetFirmwareInfo  BY <1>7 DEF GetFirmwareInfo
<1>8. CASE MakeFirmwareDir  BY <1>8 DEF MakeFirmwareDir
<1>9. CASE OpenFirmwareInfo  BY <1>9 DEF OpenFirmwareInfo
<1>10. CASE CloseFirmwareInfo  BY <1>10 DEF CloseFirmwareInfo
<1>11. CASE OpenInfo  BY <1>11 DEF OpenInfo, Rollback
<1>12. CASE CloseInfo  BY <1>12 DEF CloseInfo
<1>13. CASE InfoDone
  <2>1. UNCHANGED <<info, infoFile, diskInfo>> /\ pc' \in {"mkdir", "ready"}
    BY <1>13 DEF InfoDone
  <2> QED
    BY <1>13, <2>1 DEF InfoDone
<1>15. CASE PushOpen
  <2>1. UNCHANGED <<info, infoFile, diskInfo>> /\ pc' \in {"ready", "push_write"}
    BY <1>15 DEF PushOpen, OpenRecord
  <2> QED
    BY <1>15, <2>1 DEF PushOpen
<1>16. CASE PushWrite  BY <1>16 DEF PushWrite
<1>17. CASE PushClose  BY <1>17 DEF PushClose
<1>18. CASE PopEmpty  BY <1>18 DEF PopEmpty
<1>19. CASE PopOpen  BY <1>19 DEF PopOpen
<1>20. CASE PopRead  BY <1>20 DEF PopRead
<1>21. CASE Crash  BY <1>21 DEF Crash
<1>22. CASE UNCHANGED vars  BY <1>22 DEF vars
<1>23. CASE Stopped  BY <1>22, <1>23 DEF Stopped
<1> QED
  BY <1>1, <1>2, <1>3, <1>4, <1>5, <1>6, <1>7, <1>8, <1>9, <1>10, <1>11, <1>12, <1>13,
     <1>15, <1>16, <1>17, <1>18, <1>19, <1>20, <1>21, <1>22, <1>23
     DEF Next, BootStep, InfoStep, PushStep, PopStep

(* As long as closing the info file does not fail, the seeks in RAM are those *)
(* on the chip whenever a call can start: every rollback undoes its advance.  *)
THEOREM SeeksStored == "close" \notin Faults /\ Spec => []SeeksMatchDisk
<1> SUFFICES ASSUME "close" \notin Faults PROVE Spec => []SeeksMatchDisk
  OBVIOUS
<1>1. Init => SeeksKnown
  BY DEF Init, SeeksKnown, Storing, Settled
<1>2. SeeksKnown /\ [Next]_vars => SeeksKnown'
  BY SeeksKnownStep
<1>3. SeeksKnown => SeeksMatchDisk
  BY DEF SeeksKnown, Settled, SeeksMatchDisk
<1> QED
  BY <1>1, <1>2, <1>3, PTL DEF Spec
-----------------------------------------------------------------------------
(* The log.  Calls after the boot may fail, but nothing wipes the chip that    *)
(* has a file system, and the info file is closed.                            *)
NoWipe == Faults \cap {"mount", "format", "boot", "close"} = {}

Pushed == 1 .. MaxPushes
Recorded(s) == \A t \in RealSlots : Before(t, WriteSlot(s)) =>
                                         t \in DOMAIN files /\ files[t].rec \in Pushed
Started(s)  == s.w_folder_seek >= FOLDER_SEEK_START /\ s.r_folder_seek >= FOLDER_SEEK_START

Booted   == pc \notin {"off", "mount", "format", "remount", "hung"}
BootInv  ==
    /\ chip = "blank" => infoFile = "absent"
    /\ pc = "format" => chip = "blank"
    /\ Booted => chip = "littlefs"
    /\ pc \in Storing /\ caller = "init" => infoFile # "written" /\ info = StartSeeks

PushInv ==
    /\ pc \in {"push_write", "push_close"} => buffer.rec \in Pushed
    /\ pc \in Storing \cup {"info_done"} /\ caller = "push" =>
          /\ info = AdvanceWrite(saved) /\ saved.w_folder_seek \in 1 .. FOLDERS_CREATED
          /\ WriteSlot(saved) \in DOMAIN files
          /\ files[WriteSlot(saved)].rec = buffer.rec /\ buffer.rec \in Pushed
PopInv ==
    pc \in Storing \cup {"info_done"} /\ caller = "pop" =>
          /\ info = AdvanceRead(saved) /\ ~Empty(saved)
          /\ files[ReadSlot(saved)].rec = buffer.rec /\ buffer.rec \in Pushed
DiskInv == infoFile = "written" => Started(diskInfo) /\ Recorded(diskInfo)

LogInv == SeeksKnown /\ BootInv /\ PushInv /\ PopInv /\ DiskInv

LEMMA BootInvStep == NoWipe /\ BootInv /\ [Next]_vars => BootInv'
<1> SUFFICES ASSUME NoWipe, BootInv, [Next]_vars PROVE BootInv'
  OBVIOUS
<1> USE DEF NoWipe, BootInv, Booted, Storing, Fault, NoFault, Hang, Return, ram, disk, hist,
            budget
<1>1. CASE PowerOn  BY <1>1 DEF PowerOn
<1>2. CASE Mount    BY <1>2 DEF Mount
<1>3. CASE Format   BY <1>3 DEF Format, Wipe
<1>4. CASE Remount  BY <1>4 DEF Remount
<1>5. CASE GetStoreInfo  BY <1>5 DEF GetStoreInfo, StartAfresh
<1>6. CASE MakeFolder
  <2>1. UNCHANGED <<infoFile, chip>>
    BY <1>6 DEF MakeFolder
  <2>2. pc = "mkdir" /\ pc' \in {"mkdir", "get_firmware_info", "hung"}
    BY <1>6 DEF MakeFolder
  <2> QED
    BY <2>1, <2>2
<1>7. CASE GetFirmwareInfo  BY <1>7 DEF GetFirmwareInfo
<1>8. CASE MakeFirmwareDir  BY <1>8 DEF MakeFirmwareDir
<1>9. CASE OpenFirmwareInfo  BY <1>9 DEF OpenFirmwareInfo
<1>10. CASE CloseFirmwareInfo  BY <1>10 DEF CloseFirmwareInfo
<1>11. CASE OpenInfo  BY <1>11 DEF OpenInfo, Rollback
<1>12. CASE CloseInfo  BY <1>12 DEF CloseInfo
<1>13. CASE InfoDone
  <2>1. UNCHANGED <<infoFile, chip>> /\ pc' \in {"mkdir", "ready"}
    BY <1>13 DEF InfoDone
  <2> QED
    BY <1>13, <2>1 DEF InfoDone
<1>15. CASE PushOpen
  <2>1. UNCHANGED <<infoFile, chip>> /\ pc' \in {"ready", "push_write"}
    BY <1>15 DEF PushOpen, OpenRecord
  <2> QED
    BY <1>15, <2>1 DEF PushOpen
<1>16. CASE PushWrite  BY <1>16 DEF PushWrite
<1>17. CASE PushClose  BY <1>17 DEF PushClose
<1>18. CASE PopEmpty  BY <1>18 DEF PopEmpty
<1>19. CASE PopOpen  BY <1>19 DEF PopOpen
<1>20. CASE PopRead  BY <1>20 DEF PopRead
<1>21. CASE Crash  BY <1>21 DEF Crash
<1>22. CASE UNCHANGED vars  BY <1>22 DEF vars
<1>23. CASE Stopped  BY <1>22, <1>23 DEF Stopped
<1> QED
  BY <1>1, <1>2, <1>3, <1>4, <1>5, <1>6, <1>7, <1>8, <1>9, <1>10, <1>11, <1>12, <1>13,
     <1>15, <1>16, <1>17, <1>18, <1>19, <1>20, <1>21, <1>22, <1>23
     DEF Next, BootStep, InfoStep, PushStep, PopStep

CallInv == PushInv /\ PopInv /\ DiskInv

(* A step outside the calls that store something.                            *)
LEMMA CallInvKept ==
    ASSUME CallInv, UNCHANGED <<files, infoFile, diskInfo>>,
           pc' \in Storing \cup {"info_done"} => caller' = "init",
           pc' \in {"push_write", "push_close"} => pc = "push_write" /\ buffer' = buffer
    PROVE  CallInv'
  BY DEF CallInv, PushInv, PopInv, DiskInv, Recorded, Started, Storing

(* Between the seeks the read seek is before the write seek, in slots that    *)
(* hold records.                                                             *)
LEMMA NextRead ==
    ASSUME TypeOK, SeeksInv, LogInv, infoFile = "written", ~Empty(diskInfo)
    PROVE  /\ ReadSlot(diskInfo) \in RealSlots
           /\ Before(ReadSlot(diskInfo), WriteSlot(diskInfo))
           /\ files[ReadSlot(diskInfo)].rec \in Pushed
           /\ diskInfo.r_folder_seek \in 1 .. FOLDER_MAX_COUNT
<1>1. diskInfo \in Seeks /\ Sound(diskInfo, DOMAIN files)
  BY DEF TypeOK, SeeksInv
<1>2. Started(diskInfo) /\ Recorded(diskInfo)
  BY DEF LogInv, DiskInv
<1>3. ReadSlot(diskInfo) \in RealSlots
  BY <1>1, <1>2, SlotsTyped DEF RealSlots, Started, ReadSlot
<1>4. Before(ReadSlot(diskInfo), WriteSlot(diskInfo))
  BY <1>1 DEF Sound, ReaderNotAhead, Empty, Before, ReadSlot, WriteSlot, Seeks, Folders, FileNos
<1>5. diskInfo.r_folder_seek \in 1 .. FOLDER_MAX_COUNT
  BY <1>1, <1>2, <1>4, StorageAssumption
     DEF Sound, NotWrapped, Started, Before, ReadSlot, WriteSlot, Seeks, Folders, FileNos
<1> QED
  BY <1>2, <1>3, <1>4, <1>5 DEF Recorded

LEMMA StoreWrite ==
    ASSUME TypeOK, SeeksInv, LogInv, FoldersFit, pc = "info_close", caller = "push"
    PROVE  Started(info) /\ Recorded(info)
<1>1. /\ infoFile = "written" /\ diskInfo = saved /\ info = AdvanceWrite(saved)
      /\ Started(saved) /\ Recorded(saved)
  BY DEF LogInv, SeeksKnown, PushInv, DiskInv, Storing
<1>2. /\ saved.w_folder_seek \in 1 .. FOLDER_MAX_COUNT /\ saved \in Seeks
      /\ WriteSlot(saved) \in DOMAIN files /\ files[WriteSlot(saved)].rec \in Pushed
  BY StorageAssumption DEF LogInv, PushInv, Storing, FoldersFit, TypeOK
<1>3. Started(info)
  BY <1>1, <1>2, StorageAssumption
     DEF Started, AdvanceWrite, NextFolder, Seeks, Folders, FileNos
<1>4. \A x \in Slot : Before(x, WriteSlot(info)) =>
                           Before(x, WriteSlot(saved)) \/ x = WriteSlot(saved)
  BY <1>1, <1>2, StorageAssumption
     DEF Before, WriteSlot, AdvanceWrite, NextFile, NextFolder, Seeks, Folders, FileNos, Slot
<1> QED
  BY <1>1, <1>2, <1>3, <1>4 DEF Recorded, RealSlots

LEMMA StoreRead ==
    ASSUME TypeOK, SeeksInv, LogInv, pc = "info_close", caller = "pop"
    PROVE  Started(info) /\ Recorded(info)
<1>1. /\ infoFile = "written" /\ diskInfo = saved /\ info = AdvanceRead(saved)
      /\ Started(saved) /\ Recorded(saved)
  BY DEF LogInv, SeeksKnown, PopInv, DiskInv, Storing
<1>2. saved \in Seeks
  BY DEF TypeOK
<1>3. Started(info)
  BY <1>1, <1>2, StorageAssumption DEF Started, AdvanceRead, NextFolder, Seeks, Folders, FileNos
<1> QED
  BY <1>1, <1>3 DEF Recorded, WriteSlot, AdvanceRead

LEMMA StoreStart == Started(StartSeeks) /\ Recorded(StartSeeks)
  BY DEF Started, Recorded, StartSeeks, WriteSlot, Before, RealSlots, Slot, Folders, FileNos

LEMMA CallInvStep ==
    NoWipe /\ FoldersFit /\ TypeOK /\ SeeksInv /\ LogInv /\ [Next]_vars => CallInv'
<1> SUFFICES ASSUME NoWipe, FoldersFit, TypeOK, SeeksInv, LogInv, [Next]_vars PROVE CallInv'
  OBVIOUS
<1>0. CallInv
  BY DEF LogInv, CallInv
<1> USE DEF Storing, Fault, NoFault, Hang, Return, ram, disk, hist, budget
<1>1. CASE PowerOn  BY <1>0, <1>1, CallInvKept DEF PowerOn
<1>2. CASE Mount    BY <1>0, <1>2, CallInvKept DEF Mount
<1>3. CASE Format
  <2>1. infoFile' = "absent" /\ pc' = "remount"
    BY <1>3 DEF Format, Wipe, NoWipe
  <2> QED
    BY <2>1 DEF CallInv, PushInv, PopInv, DiskInv
<1>4. CASE Remount  BY <1>0, <1>4, CallInvKept DEF Remount
<1>5. CASE GetStoreInfo  BY <1>0, <1>5, CallInvKept DEF GetStoreInfo, StartAfresh
<1>6. CASE MakeFolder
  <2>1. UNCHANGED <<files, infoFile, diskInfo>> /\ pc' \in {"mkdir", "get_firmware_info", "hung"}
    BY <1>6 DEF MakeFolder
  <2> QED
    BY <1>0, <2>1, CallInvKept
<1>7. CASE GetFirmwareInfo  BY <1>0, <1>7, CallInvKept DEF GetFirmwareInfo
<1>8. CASE MakeFirmwareDir  BY <1>0, <1>8, CallInvKept DEF MakeFirmwareDir
<1>9. CASE OpenFirmwareInfo  BY <1>0, <1>9, CallInvKept DEF OpenFirmwareInfo
<1>10. CASE CloseFirmwareInfo  BY <1>0, <1>10, CallInvKept DEF CloseFirmwareInfo
<1>11. CASE OpenInfo
  <2>1. UNCHANGED <<files, diskInfo, buffer, saved, caller>> /\ pc = "info_open"
    BY <1>11 DEF OpenInfo
  <2>2. infoFile' = "written" => infoFile = "written"
    BY <1>11 DEF OpenInfo
  <2>3. (pc' = "info_close" /\ info' = info) \/ pc' \in {"hung", "ready"}
    BY <1>11 DEF OpenInfo
  <2> QED
    BY <1>0, <2>1, <2>2, <2>3 DEF CallInv, PushInv, PopInv, DiskInv, Recorded, Started
<1>12. CASE CloseInfo
  <2>1. /\ UNCHANGED <<files, info, buffer, saved, caller>> /\ pc = "info_close"
        /\ pc' = "info_done" /\ diskInfo' = info
    BY <1>12 DEF CloseInfo, NoWipe
  <2>2. Started(info) /\ Recorded(info)
    BY <2>1, StoreStart, StoreWrite, StoreRead DEF TypeOK, LogInv, BootInv
  <2> QED
    BY <1>0, <2>1, <2>2 DEF CallInv, PushInv, PopInv, DiskInv, Recorded, Started
<1>13. CASE InfoDone
  <2>1. UNCHANGED <<files, infoFile, diskInfo>> /\ pc' \in {"mkdir", "ready"}
    BY <1>13 DEF InfoDone
  <2> QED
    BY <1>0, <2>1, CallInvKept
<1>15. CASE PushOpen
  <2>1. /\ UNCHANGED <<infoFile, diskInfo>> /\ pc' \in {"ready", "push_write"}
        /\ \A t \in DOMAIN files : t \in DOMAIN files' /\ files'[t] = files[t]
    BY <1>15 DEF PushOpen, OpenRecord
  <2>2. pc' = "push_write" => buffer'.rec \in Pushed
    <3>1. attempts + 1 \in Pushed
      BY <1>15, StorageAssumption DEF PushOpen, Pushed, TypeOK
    <3>2. pc' = "push_write" => \E size \in Sizes : buffer' = [rec |-> attempts + 1, len |-> size]
      BY <1>15 DEF PushOpen, OpenRecord, Return
    <3> QED
      BY <3>1, <3>2
  <2> QED
    BY <1>0, <2>1, <2>2 DEF CallInv, PushInv, PopInv, DiskInv, Recorded, Started
<1>16. CASE PushWrite  BY <1>0, <1>16, CallInvKept DEF PushWrite
<1>17. CASE PushClose
  <2> DEFINE slot == WriteSlot(info)
  <2>1. /\ UNCHANGED <<infoFile, diskInfo, buffer>> /\ pc = "push_close" /\ pc' = "info_open"
        /\ saved' = info /\ info' = AdvanceWrite(info) /\ caller' = "push"
        /\ files' = [files EXCEPT ![slot] = Overwrite(files[slot], buffer)]
    BY <1>17 DEF PushClose, NoWipe
  <2>2. slot \in DOMAIN files /\ info.w_folder_seek \in 1 .. FOLDERS_CREATED
    BY <2>1 DEF SeeksInv
  <2>3. diskInfo = info /\ buffer.rec \in Pushed
    BY <2>1 DEF LogInv, SeeksKnown, Settled, PushInv
  <2>4. files'[slot].rec = buffer.rec /\ slot \in DOMAIN files'
    BY <2>1, <2>2 DEF Overwrite
  <2>5. PushInv' /\ PopInv'
    <3>1. PopInv'
      BY <2>1 DEF PopInv
    <3>2. slot = WriteSlot(saved)' /\ buffer' = buffer
      BY <2>1 DEF WriteSlot
    <3> HIDE DEF slot
    <3>3. PushInv'
      BY <2>1, <2>2, <2>3, <2>4, <3>2 DEF PushInv
    <3> QED
      BY <3>1, <3>3
  <2>6. ~Before(slot, slot)
    <3>1. info.w_folder_seek \in Nat /\ info.w_file_seek \in Nat
      <4>1. info \in Seeks
        BY DEF TypeOK
      <4> QED
        BY <4>1, StorageAssumption DEF Seeks, Folders, FileNos
    <3> QED
      BY <3>1 DEF Before, WriteSlot
  <2>7. DiskInv'
    BY <1>0, <2>1, <2>2, <2>3, <2>6 DEF CallInv, DiskInv, Recorded, Started
  <2> QED
    BY <2>5, <2>7 DEF CallInv
<1>18. CASE PopEmpty  BY <1>0, <1>18, CallInvKept DEF PopEmpty
<1>19. CASE PopOpen  BY <1>0, <1>19, CallInvKept DEF PopOpen
<1>20. CASE PopRead
  <2>1. CASE pc' # "info_open"
    BY <1>0, <1>20, <2>1, CallInvKept DEF PopRead
  <2>2. CASE pc' = "info_open"
    <3>1. /\ UNCHANGED <<files, infoFile, diskInfo>> /\ pc = "pop_read" /\ caller' = "pop"
          /\ buffer' = files[ReadSlot(info)] /\ saved' = info /\ info' = AdvanceRead(info)
      BY <1>20, <2>2 DEF PopRead
    <3>2. infoFile = "written" /\ diskInfo = info /\ ~Empty(info)
      BY <3>1 DEF LogInv, SeeksKnown, Settled, SeeksInv
    <3>3. files[ReadSlot(info)].rec \in Pushed
      BY <3>2, NextRead
    <3> QED
      BY <1>0, <2>2, <3>1, <3>2, <3>3
         DEF CallInv, PushInv, PopInv, DiskInv, Recorded, Started
  <2> QED
    BY <2>1, <2>2
<1>21. CASE Crash  BY <1>0, <1>21, CallInvKept DEF Crash
<1>22. CASE UNCHANGED vars
  BY <1>0, <1>22 DEF vars, CallInv, PushInv, PopInv, DiskInv, Recorded, Started
<1>23. CASE Stopped  BY <1>22, <1>23 DEF Stopped
<1> QED
  BY <1>1, <1>2, <1>3, <1>4, <1>5, <1>6, <1>7, <1>8, <1>9, <1>10, <1>11, <1>12, <1>13,
     <1>15, <1>16, <1>17, <1>18, <1>19, <1>20, <1>21, <1>22, <1>23
     DEF Next, BootStep, InfoStep, PushStep, PopStep

LEMMA LogInvariant == NoWipe /\ FoldersFit /\ Spec => [](TypeOK /\ SeeksInv /\ LogInv)
<1> SUFFICES ASSUME NoWipe, FoldersFit PROVE Spec => [](TypeOK /\ SeeksInv /\ LogInv)
  OBVIOUS
<1>1. Init => LogInv
  BY DEF Init, LogInv, SeeksKnown, BootInv, PushInv, PopInv, DiskInv, Booted, Storing, Settled
<1>2. TypeOK /\ SeeksInv /\ LogInv /\ [Next]_vars => LogInv'
  <2>1. "close" \notin Faults
    BY DEF NoWipe
  <2> QED
    BY <2>1, SeeksKnownStep, BootInvStep, CallInvStep DEF LogInv, CallInv
<1> QED
  BY <1>1, <1>2, SeeksInvariant, PTL DEF Spec
-----------------------------------------------------------------------------
(* The refinement: the log, and what is taken of it, change when the info     *)
(* file is closed and at no other step.                                       *)
Held == IF InPop THEN buffer.rec ELSE NoRecord

LEMMA LogInit == Init => Log!Init
  BY DEF Init, Log!Init, StoredLog, StoredTaken, InPush, InPop, NoRecord

(* The numbers of the log are those of slots that hold records.               *)
LEMMA Numbered ==
    ASSUME TypeOK, SeeksInv, LogInv, infoFile = "written"
    PROVE  /\ WriteSlot(diskInfo) \in RealSlots /\ ReadSlot(diskInfo) \in RealSlots
           /\ IndexOf(WriteSlot(diskInfo)) \in Nat /\ IndexOf(ReadSlot(diskInfo)) \in Nat
           /\ \A n \in 1 .. IndexOf(WriteSlot(diskInfo)) :
                 /\ SlotAt(n - 1) \in DOMAIN files /\ files[SlotAt(n - 1)].rec \in Pushed
                 /\ SlotAt(n - 1) # WriteSlot(diskInfo)
           /\ Len(StoredLog) = IndexOf(WriteSlot(diskInfo))
<1>1. diskInfo \in Seeks /\ Started(diskInfo) /\ Recorded(diskInfo)
  BY DEF TypeOK, LogInv, DiskInv
<1>2. WriteSlot(diskInfo) \in RealSlots /\ ReadSlot(diskInfo) \in RealSlots
  BY <1>1, SlotsTyped DEF RealSlots, Started, ReadSlot, WriteSlot
<1>3. IndexOf(WriteSlot(diskInfo)) \in Nat /\ IndexOf(ReadSlot(diskInfo)) \in Nat
  BY <1>2, IndexTyped
<1>4. ASSUME NEW n \in 1 .. IndexOf(WriteSlot(diskInfo))
      PROVE  SlotAt(n - 1) \in RealSlots /\ Before(SlotAt(n - 1), WriteSlot(diskInfo))
  <2>1. n - 1 \in Nat /\ n - 1 < IndexOf(WriteSlot(diskInfo))
    BY <1>3
  <2> QED
    BY <1>2, <1>3, <2>1, SlotBelow
<1>5. \A t \in RealSlots : ~Before(t, t)
  BY Columns DEF Before
<1>6. Len(StoredLog) = IndexOf(WriteSlot(diskInfo))
  BY <1>3 DEF StoredLog
<1> QED
  BY <1>1, <1>2, <1>3, <1>4, <1>5, <1>6 DEF Recorded

(* A step that changes no record of the log, and not the seeks on the chip.   *)
LEMMA LogKept ==
    ASSUME TypeOK, SeeksInv, LogInv,
           infoFile' = "written" <=> infoFile = "written",
           infoFile = "written" =>
               /\ diskInfo' = diskInfo
               /\ \A t \in DOMAIN files : t # WriteSlot(diskInfo) => files'[t] = files[t]
    PROVE  StoredLog' = StoredLog /\ StoredTaken' = StoredTaken
<1>1. CASE infoFile # "written"
  BY <1>1 DEF StoredLog, StoredTaken
<1>2. CASE infoFile = "written"
  <2> DEFINE top == IndexOf(WriteSlot(diskInfo))
  <2>1. \A n \in 1 .. top : files'[SlotAt(n - 1)] = files[SlotAt(n - 1)]
    BY <1>2, Numbered
  <2>2. StoredLog = [n \in 1 .. top |-> files[SlotAt(n - 1)].rec]
    BY <1>2 DEF StoredLog
  <2>3. StoredLog' = [n \in 1 .. top |-> files'[SlotAt(n - 1)].rec]
    BY <1>2 DEF StoredLog
  <2>4. StoredTaken' = StoredTaken
    BY <1>2 DEF StoredTaken
  <2> QED
    BY <2>1, <2>2, <2>3, <2>4
<1> QED
  BY <1>1, <1>2

(* ... and neither starts nor ends the answer to a call.                      *)
LEMMA Stutter ==
    ASSUME StoredLog' = StoredLog, StoredTaken' = StoredTaken, UNCHANGED hist,
           pc # "info_done", pc' # "info_done"
    PROVE  UNCHANGED Log!vars
  BY DEF hist, Log!vars, InPush, InPop

(* The close of the info file appends what was pushed ...                     *)
LEMMA CloseAppends ==
    ASSUME NoWipe, FoldersFit, TypeOK, SeeksInv, LogInv, TypeOK', SeeksInv', LogInv',
           CloseInfo, caller = "push"
    PROVE  Log!AppendRecord
<1>1. /\ pc = "info_close" /\ pc' = "info_done" /\ infoFile' = "written" /\ diskInfo' = info
      /\ UNCHANGED <<caller, buffer, saved, info, files, pushed, popped>>
  BY DEF CloseInfo, Fault, NoWipe, ram, hist
<1>2. /\ infoFile = "written" /\ diskInfo = saved /\ info = AdvanceWrite(saved)
      /\ saved.w_folder_seek \in 1 .. FOLDERS_CREATED /\ saved \in Seeks
      /\ files[WriteSlot(saved)].rec = buffer.rec /\ buffer.rec \in Pushed
  BY <1>1 DEF LogInv, SeeksKnown, PushInv, Storing, TypeOK
<1> DEFINE top == IndexOf(WriteSlot(diskInfo))
<1>3. top \in Nat /\ WriteSlot(diskInfo) \in RealSlots /\ Len(StoredLog) = top
  BY <1>2, Numbered
<1>4. IndexOf(WriteSlot(info)) = top + 1
  BY <1>2, AdvanceNumber, StorageAssumption DEF FoldersFit
<1>5. SlotAt(top) = WriteSlot(diskInfo)
  BY <1>3, SlotBelow
<1>6. StoredLog = [n \in 1 .. top |-> files[SlotAt(n - 1)].rec]
  BY <1>2 DEF StoredLog
<1>7. StoredLog' = [n \in 1 .. top + 1 |-> files[SlotAt(n - 1)].rec]
  BY <1>1, <1>4 DEF StoredLog
<1>8. StoredLog' = Append(StoredLog, buffer.rec)
  <2>1. Append(StoredLog, buffer.rec) =
            [n \in 1 .. top + 1 |-> IF n = top + 1 THEN buffer.rec ELSE StoredLog[n]]
    BY <1>3, <1>6
  <2>2. ASSUME NEW n \in 1 .. top + 1
        PROVE  files[SlotAt(n - 1)].rec = IF n = top + 1 THEN buffer.rec ELSE StoredLog[n]
    BY <1>2, <1>3, <1>5, <1>6
  <2> QED
    BY <1>7, <2>1, <2>2
<1>9. top < FOLDERS_CREATED * FilesPerFolder
  <2>1. top = (saved.w_folder_seek - 1) * FilesPerFolder + saved.w_file_seek
    BY <1>2 DEF IndexOf, WriteSlot
  <2>2. saved.w_file_seek \in 0 .. FilesPerFolder - 1
    BY <1>2, StorageAssumption DEF Seeks, FileNos, FilesPerFolder
  <2> DEFINE before == (saved.w_folder_seek - 1) * FilesPerFolder
             all    == FOLDERS_CREATED * FilesPerFolder
  <2>3. before \in Nat /\ all \in Nat /\ before + FilesPerFolder <= all
    BY <1>2, Rows, PerFolder, StorageAssumption
  <2>4. top = before + saved.w_file_seek
    BY <2>1
  <2> HIDE DEF before, all, top
  <2>5. top < all
    BY <2>2, <2>3, <2>4, PerFolder
  <2> QED
    BY <2>5 DEF all, top
<1>10. StoredTaken' = StoredTaken
  BY <1>1, <1>2 DEF StoredTaken, ReadSlot, AdvanceWrite
<1> QED
  BY <1>1, <1>2, <1>3, <1>8, <1>9, <1>10
     DEF Log!AppendRecord, Log!Quiet, InPush, InPop, Pushed

(* ... or takes what was popped ...                                           *)
LEMMA CloseTakes ==
    ASSUME NoWipe, FoldersFit, TypeOK, SeeksInv, LogInv, CloseInfo, caller = "pop"
    PROVE  Log!TakeOldest
<1>1. /\ pc = "info_close" /\ pc' = "info_done" /\ infoFile' = "written" /\ diskInfo' = info
      /\ UNCHANGED <<caller, buffer, saved, info, files, pushed, popped>>
  BY DEF CloseInfo, Fault, NoWipe, ram, hist
<1>2. /\ infoFile = "written" /\ diskInfo = saved /\ info = AdvanceRead(saved)
      /\ saved \in Seeks /\ ~Empty(saved)
      /\ files[ReadSlot(saved)].rec = buffer.rec
  BY <1>1 DEF LogInv, SeeksKnown, PopInv, Storing, TypeOK
<1> DEFINE top  == IndexOf(WriteSlot(diskInfo))
           next == IndexOf(ReadSlot(diskInfo))
<1>3. /\ ReadSlot(diskInfo) \in RealSlots /\ WriteSlot(diskInfo) \in RealSlots
      /\ top \in Nat /\ next \in Nat /\ Len(StoredLog) = top
  BY <1>2, Numbered
<1>4. next < top
  BY <1>2, <1>3, NextRead, IndexOrder
<1>5. IndexOf(ReadSlot(info)) = next + 1
  BY <1>2, NextRead, AdvanceNumber
<1>6. SlotAt(next) = ReadSlot(diskInfo)
  BY <1>3, SlotBelow
<1>7. StoredTaken = next /\ StoredTaken' = next + 1
  BY <1>1, <1>2, <1>5 DEF StoredTaken
<1>8. StoredLog = [n \in 1 .. top |-> files[SlotAt(n - 1)].rec]
  BY <1>2 DEF StoredLog
<1>9. StoredLog[next + 1] = buffer.rec
  BY <1>2, <1>3, <1>4, <1>6, <1>8
<1>10. StoredLog' = StoredLog
  BY <1>1, <1>2 DEF StoredLog, WriteSlot, AdvanceRead
<1> QED
  BY <1>1, <1>3, <1>4, <1>7, <1>9, <1>10 DEF Log!TakeOldest, Log!Quiet, InPush, InPop

(* ... or stores the seeks of an empty store.                                 *)
LEMMA CloseStarts ==
    ASSUME NoWipe, LogInv, CloseInfo, caller = "init"
    PROVE  UNCHANGED Log!vars
<1>1. /\ pc = "info_close" /\ pc' = "info_done" /\ infoFile' = "written" /\ diskInfo' = info
      /\ UNCHANGED <<caller, buffer, files, pushed, popped>>
  BY DEF CloseInfo, Fault, NoWipe, ram, hist
<1>2. infoFile # "written" /\ info = StartSeeks
  BY <1>1 DEF LogInv, BootInv, Storing
<1>3. IndexOf(<<1, 0>>) = 0
  <2>1. IndexOf(<<1, 0>>) = (1 - 1) * FilesPerFolder + 0
    BY DEF IndexOf
  <2> QED
    BY <2>1, PerFolder
<1>4. StoredTaken = 0 /\ StoredTaken' = 0
  BY <1>1, <1>2, <1>3 DEF StoredTaken, ReadSlot, StartSeeks
<1>5. StoredLog = << >>
  BY <1>2 DEF StoredLog
<1>6. StoredLog' = [n \in 1 .. 0 |-> files[SlotAt(n - 1)].rec]
  BY <1>1, <1>2, <1>3 DEF StoredLog, WriteSlot, StartSeeks
<1> QED
  BY <1>1, <1>4, <1>5, <1>6 DEF Log!vars, InPush, InPop

LEMMA LogStep ==
    NoWipe /\ FoldersFit /\ TypeOK /\ SeeksInv /\ LogInv /\ TypeOK' /\ SeeksInv' /\ LogInv'
        /\ [Next]_vars => [Log!Next]_(Log!vars)
<1> SUFFICES ASSUME NoWipe, FoldersFit, TypeOK, SeeksInv, LogInv, TypeOK', SeeksInv', LogInv',
                    [Next]_vars
             PROVE  Log!Next \/ UNCHANGED Log!vars
  OBVIOUS
<1> USE DEF Fault, NoFault, Hang, Return, ram, disk, budget
<1>1. CASE PowerOn  BY <1>1, LogKept, Stutter DEF PowerOn
<1>2. CASE Mount    BY <1>2, LogKept, Stutter DEF Mount
<1>3. CASE Format
  <2>1. infoFile = "absent" /\ infoFile' = "absent" /\ pc = "format" /\ pc' = "remount"
        /\ UNCHANGED hist
    BY <1>3 DEF Format, Wipe, NoWipe, LogInv, BootInv
  <2> QED
    BY <2>1, LogKept, Stutter
<1>4. CASE Remount  BY <1>4, LogKept, Stutter DEF Remount
<1>5. CASE GetStoreInfo  BY <1>5, LogKept, Stutter DEF GetStoreInfo, StartAfresh
<1>6. CASE MakeFolder
  <2>1. UNCHANGED <<files, infoFile, diskInfo, hist>> /\ pc = "mkdir"
        /\ pc' \in {"mkdir", "get_firmware_info", "hung"}
    BY <1>6 DEF MakeFolder
  <2> QED
    BY <2>1, LogKept, Stutter
<1>7. CASE GetFirmwareInfo  BY <1>7, LogKept, Stutter DEF GetFirmwareInfo
<1>8. CASE MakeFirmwareDir  BY <1>8, LogKept, Stutter DEF MakeFirmwareDir
<1>9. CASE OpenFirmwareInfo  BY <1>9, LogKept, Stutter DEF OpenFirmwareInfo
<1>10. CASE CloseFirmwareInfo  BY <1>10, LogKept, Stutter DEF CloseFirmwareInfo
<1>11. CASE OpenInfo
  <2>1. UNCHANGED <<files, diskInfo, hist>> /\ pc = "info_open"
        /\ pc' \in {"info_close", "hung", "ready"}
        /\ (infoFile' = "written" <=> infoFile = "written")
    BY <1>11 DEF OpenInfo
  <2> QED
    BY <2>1, LogKept, Stutter
<1>12. CASE CloseInfo
  <2>1. caller \in {"init", "push", "pop"}
    BY DEF TypeOK
  <2> QED
    BY <1>12, <2>1, CloseStarts, CloseAppends, CloseTakes DEF Log!Next
<1>13. CASE InfoDone
  <2>1. /\ UNCHANGED <<caller, files, infoFile, diskInfo, buffer, info, saved>>
        /\ pc = "info_done" /\ pc' \in {"mkdir", "ready"}
    BY <1>13 DEF InfoDone
  <2>2. /\ infoFile = "written" /\ diskInfo = info
    BY <2>1 DEF LogInv, SeeksKnown, Settled
  <2>3. StoredLog' = StoredLog /\ StoredTaken' = StoredTaken
    BY <2>1, LogKept
  <2>4. CASE caller = "init"
    BY <1>13, <2>1, <2>3, <2>4 DEF InfoDone, hist, Log!vars, InPush, InPop
  <2>5. CASE caller = "push"
    <3>1. /\ info = AdvanceWrite(saved) /\ saved \in Seeks
          /\ saved.w_folder_seek \in 1 .. FOLDER_MAX_COUNT
          /\ files[WriteSlot(saved)].rec = buffer.rec
      BY <2>1, <2>5, StorageAssumption DEF LogInv, PushInv, TypeOK, FoldersFit
    <3> DEFINE top == IndexOf(WriteSlot(saved))
    <3>2. /\ WriteSlot(saved) \in RealSlots /\ top \in Nat
          /\ IndexOf(WriteSlot(diskInfo)) = top + 1
      BY <2>2, <3>1, AdvanceNumber, IndexTyped
    <3>3. SlotAt(top) = WriteSlot(saved)
      BY <3>2, SlotBelow
    <3>4. StoredLog = [n \in 1 .. top + 1 |-> files[SlotAt(n - 1)].rec]
      BY <2>2, <3>2 DEF StoredLog
    <3>5. Len(StoredLog) = top + 1
      BY <2>2, <3>2, Numbered
    <3>6. StoredLog[Len(StoredLog)] = buffer.rec
      BY <3>1, <3>2, <3>3, <3>4, <3>5
    <3>7. pushed' = Append(pushed, buffer.rec) /\ popped' = popped
      BY <1>13, <2>5 DEF InfoDone
    <3> QED
      BY <2>1, <2>3, <2>5, <3>6, <3>7 DEF Log!Next, Log!Acknowledge, InPush, InPop
  <2>6. CASE caller = "pop"
    <3>1. buffer.rec # NoRecord
      BY <2>1, <2>6, StorageAssumption DEF LogInv, PopInv, Pushed, NoRecord
    <3>2. popped' = Append(popped, buffer.rec) /\ pushed' = pushed
      BY <1>13, <2>6 DEF InfoDone
    <3> QED
      BY <2>1, <2>3, <2>6, <3>1, <3>2 DEF Log!Next, Log!Deliver, InPush, InPop
  <2> QED
    BY <2>4, <2>5, <2>6 DEF TypeOK
<1>15. CASE PushOpen
  <2>1. /\ UNCHANGED <<infoFile, diskInfo, hist>> /\ pc = "ready"
        /\ pc' \in {"ready", "push_write"}
        /\ \A t \in DOMAIN files : files'[t] = files[t]
    BY <1>15 DEF PushOpen, OpenRecord
  <2> QED
    BY <2>1, LogKept, Stutter
<1>16. CASE PushWrite  BY <1>16, LogKept, Stutter DEF PushWrite
<1>17. CASE PushClose
  <2>1. /\ UNCHANGED <<infoFile, diskInfo, hist>> /\ pc = "push_close" /\ pc' = "info_open"
        /\ \A t \in DOMAIN files : t # WriteSlot(info) => files'[t] = files[t]
    BY <1>17 DEF PushClose
  <2>2. diskInfo = info
    BY <2>1 DEF LogInv, SeeksKnown, Settled
  <2> QED
    BY <2>1, <2>2, LogKept, Stutter
<1>18. CASE PopEmpty  BY <1>18, LogKept, Stutter DEF PopEmpty
<1>19. CASE PopOpen  BY <1>19, LogKept, Stutter DEF PopOpen
<1>20. CASE PopRead  BY <1>20, LogKept, Stutter DEF PopRead
<1>21. CASE Crash
  <2>1. /\ UNCHANGED <<files, infoFile, diskInfo, hist>> /\ pc' = "off"
    BY <1>21 DEF Crash
  <2>2. StoredLog' = StoredLog /\ StoredTaken' = StoredTaken
    BY <2>1, LogKept
  <2>3. CASE ~InPush /\ ~InPop
    BY <2>1, <2>2, <2>3 DEF hist, Log!vars, InPush, InPop
  <2>4. CASE InPush
    BY <2>1, <2>2, <2>4 DEF hist, Log!Next, Log!LoseAnswer, Log!Quiet, InPush, InPop
  <2>5. CASE InPop
    <3>1. buffer.rec # NoRecord
      BY <2>5, StorageAssumption DEF InPop, LogInv, PopInv, Pushed, NoRecord
    <3> QED
      BY <2>1, <2>2, <2>5, <3>1
         DEF hist, Log!Next, Log!LoseAnswer, Log!Quiet, InPush, InPop
  <2> QED
    BY <2>3, <2>4, <2>5
<1>22. CASE UNCHANGED vars
  BY <1>22 DEF vars, hist, Log!vars, StoredLog, StoredTaken, InPush, InPop
<1>23. CASE Stopped  BY <1>22, <1>23 DEF Stopped
<1> QED
  BY <1>1, <1>2, <1>3, <1>4, <1>5, <1>6, <1>7, <1>8, <1>9, <1>10, <1>11, <1>12, <1>13,
     <1>15, <1>16, <1>17, <1>18, <1>19, <1>20, <1>21, <1>22, <1>23
     DEF Next, BootStep, InfoStep, PushStep, PopStep

(* A record whose push was answered STORAGE_OK is in the log for good, and     *)
(* records are taken once and in order (485-652), wherever power is lost and   *)
(* whatever opens, reads and writes fail.                                     *)
THEOREM LogImplemented == NoWipe /\ FoldersFit /\ Spec => ImplementsLog
<1> SUFFICES ASSUME NoWipe, FoldersFit PROVE Spec => Log!Init /\ [][Log!Next]_(Log!vars)
  BY DEF ImplementsLog, Log!Spec
<1>1. Init => Log!Init
  BY LogInit
<1>2. TypeOK /\ SeeksInv /\ LogInv /\ (TypeOK /\ SeeksInv /\ LogInv)' /\ [Next]_vars
          => [Log!Next]_(Log!vars)
  BY LogStep
<1> QED
  BY <1>1, <1>2, LogInvariant, PTL DEF Spec
=============================================================================
