---------------------------- MODULE LocalStorage ----------------------------
(***************************************************************************)
(* The record store of Core/storage/local_storage.c: a ring of files        *)
(* "<folder>/<file>.txt" with a write seek and a read seek, the seeks       *)
(* persisted in "info_storage.txt", and the boot sequence (init_storage)    *)
(* that mounts or formats the chip and creates what the store needs.        *)
(*                                                                         *)
(* One action per littlefs call, because every one of them can fail and     *)
(* power can be lost between any two of them.  littlefs is external here:   *)
(* a call that changes the disk commits it in one atomic step (the modules  *)
(* about littlefs justify that), or fails and leaves the disk as it was.    *)
(* In particular lfs_file_open with LFS_O_CREAT commits an empty file, and  *)
(* what lfs_file_write wrote reaches the disk when lfs_file_close commits.  *)
(***************************************************************************)
EXTENDS Integers, Sequences, TLC

CONSTANTS
    FOLDER_MAX_COUNT,   \* the folder seeks are compared with it (12)
    FOLDERS_CREATED,    \* the literal bound of the loop that creates folders (12)
    FILE_MAX_COUNT,     \* highest file number the seeks are compared with (2048)
    DEBUG,              \* built with -DDEBUG: most failures end in while(1)
    Sizes,              \* sizes a caller pushes
    Faults,             \* littlefs calls that may fail: subset of FaultKinds
    MaxFaults, MaxCrashes, MaxPushes   \* bounds of the exploration

(* "boot" is a failing open or read of an existing info file by init_storage; *)
(* the other kinds are named after the call.                                  *)
FaultKinds == {"mount", "format", "boot", "open", "read", "write", "close", "mkdir"}

ASSUME StorageAssumption ==
    /\ FOLDER_MAX_COUNT \in Nat \ {0}
    /\ FILE_MAX_COUNT \in Nat
    /\ FOLDERS_CREATED \in Nat \ {0}
    /\ FOLDER_MAX_COUNT + 2 < 65536 /\ FILE_MAX_COUNT + 2 < 65536  \* uint16_t seeks
    /\ DEBUG \in BOOLEAN
    /\ Sizes \subseteq Nat
    /\ Faults \subseteq FaultKinds
    /\ MaxFaults \in Nat /\ MaxCrashes \in Nat /\ MaxPushes \in Nat

FOLDER_SEEK_START == 1
FILE_SEEK_START == 0

VARIABLES
    pc,         \* where init_storage, push or pop is; "ready" between calls
    caller,     \* who called set_store_info: "init", "push" or "pop"
    info,       \* _info_storage: the seeks in RAM
    saved,      \* the seeks push and pop keep for a rollback
    buffer,     \* the record being pushed or popped
    bcnt,       \* the loop counter of the folder creation
    ret,        \* what the last call of push or pop returned
    chip,       \* "littlefs" when it can be mounted, else "blank"
    infoFile,   \* "info_storage.txt": absent, created but empty, or written
    diskInfo,   \* the seeks in it, when written
    dirs,       \* folders on the chip
    files,      \* record files on the chip: slot -> file
    fwDir,      \* the firmware directory: absent or present
    fwFile,     \* the firmware info file: absent, empty or written
    pushed,     \* history: records push returned STORAGE_OK for
    popped,     \* history: records pop returned STORAGE_OK for
    faults, crashes, attempts     \* budgets used

ram    == <<caller, info, saved, buffer, bcnt, ret>>
disk   == <<chip, infoFile, diskInfo, dirs, files, fwDir, fwFile>>
hist   == <<pushed, popped>>
budget == <<faults, crashes, attempts>>
vars   == <<pc, ram, disk, hist, budget>>

Folders  == 0 .. (FOLDER_MAX_COUNT + 1)
FileNos  == 0 .. (FILE_MAX_COUNT + 1)
Seeks    == [w_folder_seek : Folders, w_file_seek : FileNos,
             r_folder_seek : Folders, r_file_seek : FileNos]
Slot     == Folders \X FileNos
NoRecord == 0
Record   == Nat
(* A record file: the record whose bytes start it, and its length.  A file   *)
(* longer than its record ends with bytes of a record it held before.        *)
File     == [rec : Record, len : Nat]
EmptyFile == [rec |-> NoRecord, len |-> 0]
NoFiles == [s \in {} |-> EmptyFile]

ZeroSeeks == [w_folder_seek |-> 0, w_file_seek |-> 0,
              r_folder_seek |-> 0, r_file_seek |-> 0]
StartSeeks == [w_folder_seek |-> FOLDER_SEEK_START, w_file_seek |-> FILE_SEEK_START,
               r_folder_seek |-> FOLDER_SEEK_START, r_file_seek |-> FILE_SEEK_START]

WriteSlot(s) == <<s.w_folder_seek, s.w_file_seek>>
ReadSlot(s)  == <<s.r_folder_seek, s.r_file_seek>>

(* if(file_seek++ > FILE_MAX_COUNT) { file_seek = 0;                         *)
(*    if(folder_seek++ > FOLDER_MAX_COUNT) folder_seek = 1; }                *)
(* The comparisons see the values before the increments.                     *)
NextFile_NoReset(file) == file + 1                   \* mutant: no return to 0
NextFolder_Early(folder, file) ==                    \* mutant: compared after the increment
    IF file <= FILE_MAX_COUNT THEN folder
    ELSE IF folder >= FOLDER_MAX_COUNT THEN FOLDER_SEEK_START ELSE folder + 1

NextFile(file) == IF file > FILE_MAX_COUNT THEN FILE_SEEK_START ELSE file + 1
NextFolder(folder, file) ==
    IF file <= FILE_MAX_COUNT THEN folder
    ELSE IF folder > FOLDER_MAX_COUNT THEN FOLDER_SEEK_START ELSE folder + 1

(* mutant: the file seek is advanced before the folder is decided            *)
AdvanceWrite_Order(s) ==
    [s EXCEPT !.w_folder_seek = NextFolder(s.w_folder_seek, NextFile(s.w_file_seek)),
              !.w_file_seek = NextFile(s.w_file_seek)]

AdvanceWrite(s) == [w_folder_seek |-> NextFolder(s.w_folder_seek, s.w_file_seek),
                    w_file_seek |-> NextFile(s.w_file_seek),
                    r_folder_seek |-> s.r_folder_seek, r_file_seek |-> s.r_file_seek]
AdvanceRead(s)  == [w_folder_seek |-> s.w_folder_seek, w_file_seek |-> s.w_file_seek,
                    r_folder_seek |-> NextFolder(s.r_folder_seek, s.r_file_seek),
                    r_file_seek |-> NextFile(s.r_file_seek)]

Empty_Ahead(s) == /\ s.w_folder_seek = s.r_folder_seek  \* mutant: > for ==
                  /\ s.r_file_seek > s.w_file_seek

Full(s) == /\ s.w_folder_seek = s.r_folder_seek
           /\ s.r_file_seek > s.w_file_seek
           /\ s.r_file_seek - s.w_file_seek < 2
Empty(s) == WriteSlot(s) = ReadSlot(s)

(* Writing a record at offset 0 of a file opened without LFS_O_TRUNC.        *)
Overwrite_Keep(old, new) ==                          \* mutant: written behind the old bytes
    [rec |-> IF old.len > 0 THEN old.rec ELSE new.rec, len |-> old.len + new.len]

Overwrite(old, new) == [rec |-> new.rec,
                        len |-> IF old.len > new.len THEN old.len ELSE new.len]

Fault(kind) == /\ kind \in Faults
               /\ faults < MaxFaults
               /\ faults' = faults + 1
               /\ UNCHANGED <<crashes, attempts>>
NoFault == UNCHANGED budget

Rollback_None == info' = info                        \* mutant: the advance is not undone

Rollback == info' = saved

Hang == pc' = "hung"
Return(code) == pc' = "ready" /\ ret' = code
-----------------------------------------------------------------------------
(* init_storage.  Whatever it returns but STORAGE_OK, main() stops in        *)
(* while(1) (main.c 121-124), and with DEBUG init_storage stops itself: both *)
(* are "hung", which only a reset leaves.                                    *)

PowerOn == /\ pc = "off"
           /\ pc' = "mount"
           /\ NoFault
           /\ UNCHANGED <<ram, disk, hist>>

(* mount(), first lfs_mount: any error at all leads to lfs_format.           *)
Mount ==
    /\ pc = "mount"
    /\ \/ chip = "littlefs" /\ pc' = "get_store_info" /\ NoFault
       \/ chip = "blank" /\ pc' = "format" /\ NoFault
       \/ chip = "littlefs" /\ pc' = "format" /\ Fault("mount")
    /\ UNCHANGED <<ram, disk, hist>>

(* lfs_format, its result ignored: it wipes the disk, or fails with the old  *)
(* file system intact or without any.                                        *)
Wipe(result) == /\ chip' = result
                /\ infoFile' = "absent" /\ diskInfo' = StartSeeks
                /\ dirs' = {} /\ files' = NoFiles
                /\ fwDir' = "absent" /\ fwFile' = "absent"
Format ==
    /\ pc = "format"
    /\ pc' = "remount"
    /\ \/ NoFault /\ Wipe("littlefs")
       \/ Fault("format") /\ (Wipe("blank") \/ UNCHANGED disk)
    /\ UNCHANGED <<ram, hist>>

Remount ==
    /\ pc = "remount"
    /\ \/ chip = "littlefs" /\ pc' = "get_store_info" /\ NoFault
       \/ chip = "blank" /\ Hang /\ NoFault
       \/ chip = "littlefs" /\ Hang /\ Fault("mount")
    /\ UNCHANGED <<ram, disk, hist>>

(* get_store_info during init: success only when the file opens, reads and   *)
(* holds the last key; otherwise the seeks start afresh.                     *)
StartAfresh == /\ info' = StartSeeks
               /\ caller' = "init"
               /\ pc' = "info_open"
               /\ UNCHANGED <<saved, buffer, bcnt, ret>>
GetStoreInfo ==
    /\ pc = "get_store_info"
    /\ \/ /\ infoFile = "written" /\ NoFault
          /\ info' = diskInfo
          /\ pc' = "get_firmware_info"
          /\ UNCHANGED <<caller, saved, buffer, bcnt, ret>>
       \/ infoFile # "written" /\ NoFault /\ StartAfresh
       \/ infoFile # "absent" /\ Fault("boot") /\ StartAfresh     \* lfs_file_open
       \/ infoFile # "absent" /\ Fault("boot")                    \* lfs_file_read
            /\ IF DEBUG THEN Hang /\ UNCHANGED ram ELSE StartAfresh
    /\ UNCHANGED <<disk, hist>>

(* The loop over lfs_mkdir("1") .. lfs_mkdir("12"), reached only when the    *)
(* info file was just written: one folder at a time.                         *)
MakeFolder ==
    /\ pc = "mkdir"
    /\ \/ /\ bcnt \notin dirs /\ NoFault
          /\ dirs' = dirs \cup {bcnt}
          /\ bcnt' = bcnt + 1
          /\ pc' = IF bcnt < FOLDERS_CREATED THEN "mkdir" ELSE "get_firmware_info"
       \/ /\ (bcnt \in dirs /\ NoFault) \/ (bcnt \notin dirs /\ Fault("mkdir"))
          /\ Hang /\ UNCHANGED <<dirs, bcnt>>
    /\ UNCHANGED <<caller, info, saved, buffer, ret, chip, infoFile, diskInfo,
                   files, fwDir, fwFile, hist>>

GetFirmwareInfo ==
    /\ pc = "get_firmware_info"
    /\ \/ fwFile = "written" /\ NoFault /\ pc' = "ready"
       \/ fwFile # "written" /\ NoFault /\ pc' = "fw_mkdir"
       \/ fwFile # "absent" /\ Fault("boot") /\ pc' = "fw_mkdir"
       \/ fwFile # "absent" /\ Fault("boot") /\ pc' = IF DEBUG THEN "hung" ELSE "fw_mkdir"
    /\ UNCHANGED <<ram, disk, hist>>

MakeFirmwareDir ==
    /\ pc = "fw_mkdir"
    /\ \/ fwDir = "absent" /\ NoFault /\ fwDir' = "present" /\ pc' = "fw_open"
       \/ fwDir = "present" /\ NoFault /\ Hang /\ UNCHANGED fwDir
       \/ fwDir = "absent" /\ Fault("mkdir") /\ Hang /\ UNCHANGED fwDir
    /\ UNCHANGED <<ram, chip, infoFile, diskInfo, dirs, files, fwFile, hist>>

(* set_firmware_info during init: open, then write and close.                *)
OpenFirmwareInfo ==
    /\ pc = "fw_open"
    /\ \/ /\ NoFault /\ pc' = "fw_close"
          /\ fwFile' = IF fwFile = "absent" THEN "empty" ELSE fwFile
       \/ Fault("open") /\ Hang /\ UNCHANGED fwFile
    /\ UNCHANGED <<ram, chip, infoFile, diskInfo, dirs, files, fwDir, hist>>

CloseFirmwareInfo ==
    /\ pc = "fw_close"
    /\ pc' = "ready"
    /\ \/ NoFault /\ fwFile' = "written"
       \/ Fault("close") /\ UNCHANGED fwFile
    /\ UNCHANGED <<ram, chip, infoFile, diskInfo, dirs, files, fwDir, hist>>
-----------------------------------------------------------------------------
(* set_store_info, called by init_storage, push and pop.                     *)

OpenInfo ==
    /\ pc = "info_open"
    /\ \/ /\ NoFault
          /\ infoFile' = IF infoFile = "absent" THEN "empty" ELSE infoFile
          /\ pc' = "info_close"
          /\ UNCHANGED <<info, ret>>
       \/ /\ Fault("open")
          /\ UNCHANGED infoFile
          /\ IF caller = "init" \/ DEBUG
             THEN Hang /\ UNCHANGED <<info, ret>>
             ELSE Return("STORAGE_WRITE_FAIL") /\ Rollback
    /\ UNCHANGED <<caller, saved, buffer, bcnt, chip, diskInfo, dirs, files,
                   fwDir, fwFile, hist>>

(* The write cannot fail (the string stays in the file's inline cache); the  *)
(* close that commits it can, and its result is ignored.                     *)
CloseInfo ==
    /\ pc = "info_close"
    /\ pc' = "info_done"
    /\ \/ NoFault /\ infoFile' = "written" /\ diskInfo' = info
       \/ Fault("close") /\ UNCHANGED <<infoFile, diskInfo>>
    /\ UNCHANGED <<ram, chip, dirs, files, fwDir, fwFile, hist>>

(* set_store_info returns 1 to its caller.                                   *)
InfoDone ==
    /\ pc = "info_done"
    /\ \/ /\ caller = "init"
          /\ pc' = "mkdir" /\ bcnt' = 1
          /\ UNCHANGED <<ret, hist>>
       \/ /\ caller = "push"
          /\ Return("STORAGE_OK")
          /\ pushed' = Append(pushed, buffer.rec)
          /\ UNCHANGED <<bcnt, popped>>
       \/ /\ caller = "pop"
          /\ Return("STORAGE_OK")
          /\ popped' = Append(popped, buffer.rec)
          /\ UNCHANGED <<bcnt, pushed>>
    /\ NoFault
    /\ UNCHANGED <<caller, info, saved, buffer, disk>>
-----------------------------------------------------------------------------
(* save_data (push).                                                         *)

(* The check for a full store, then lfs_file_open(RDWR | CREAT), which fails *)
(* when the folder is not there.                                             *)
OpenRecord(slot) ==
    \/ /\ slot[1] \in dirs
       /\ \E size \in Sizes : buffer' = [rec |-> attempts + 1, len |-> size]
       /\ attempts' = attempts + 1
       /\ files' = [s \in DOMAIN files \cup {slot} |->
                       IF s \in DOMAIN files THEN files[s] ELSE EmptyFile]
       /\ pc' = "push_write"
       /\ UNCHANGED <<ret, faults, crashes>>
    \/ /\ (slot[1] \notin dirs /\ NoFault) \/ (slot[1] \in dirs /\ Fault("open"))
       /\ Return("STORAGE_FILE_OPEN_FAIL")
       /\ UNCHANGED <<buffer, files>>

PushOpen ==
    /\ pc = "ready" /\ attempts < MaxPushes
    /\ IF Full(info)
       THEN Return("STORATE_FULL") /\ NoFault /\ UNCHANGED <<buffer, files>>
       ELSE OpenRecord(WriteSlot(info))
    /\ UNCHANGED <<caller, info, saved, bcnt, chip, infoFile, diskInfo, dirs,
                   fwDir, fwFile, hist>>

(* lfs_file_write; after a failed one the close commits nothing.             *)
PushWrite ==
    /\ pc = "push_write"
    /\ \/ NoFault /\ pc' = "push_close" /\ UNCHANGED ret
       \/ Fault("write") /\ IF DEBUG THEN Hang /\ UNCHANGED ret
                            ELSE Return("STORAGE_WRITE_FAIL")
    /\ UNCHANGED <<caller, info, saved, buffer, bcnt, disk, hist>>

(* lfs_file_close, its result ignored, then the seek is advanced in RAM.     *)
PushClose ==
    /\ pc = "push_close"
    /\ LET slot == WriteSlot(info) IN
       \/ NoFault /\ files' = [files EXCEPT ![slot] = Overwrite(@, buffer)]
       \/ Fault("close") /\ UNCHANGED files
    /\ saved' = info
    /\ info' = AdvanceWrite(info)
    /\ caller' = "push"
    /\ pc' = "info_open"
    /\ UNCHANGED <<buffer, bcnt, ret, chip, infoFile, diskInfo, dirs, fwDir,
                   fwFile, hist>>
-----------------------------------------------------------------------------
(* read_data (pop).                                                          *)

PopEmpty == /\ pc = "ready" /\ Empty(info)
            /\ Return("STORATE_EMPTY")
            /\ NoFault
            /\ UNCHANGED <<caller, info, saved, buffer, bcnt, disk, hist>>

PopOpen ==
    /\ pc = "ready" /\ ~Empty(info)
    /\ LET slot == ReadSlot(info) IN
       \/ slot \in DOMAIN files /\ NoFault /\ pc' = "pop_read" /\ UNCHANGED ret
       \/ /\ (slot \notin DOMAIN files /\ NoFault) \/ (slot \in DOMAIN files /\ Fault("open"))
          /\ IF DEBUG THEN Hang /\ UNCHANGED ret ELSE Return("STORAGE_FILE_OPEN_FAIL")
    /\ UNCHANGED <<caller, info, saved, buffer, bcnt, disk, hist>>

(* lfs_file_read; the close of an unmodified file changes nothing.           *)
PopRead ==
    /\ pc = "pop_read"
    /\ \/ /\ NoFault
          /\ buffer' = files[ReadSlot(info)]
          /\ saved' = info
          /\ info' = AdvanceRead(info)
          /\ caller' = "pop"
          /\ pc' = "info_open"
          /\ UNCHANGED ret
       \/ /\ Fault("read")
          /\ UNCHANGED <<caller, info, saved, buffer>>
          /\ IF DEBUG THEN Hang /\ UNCHANGED ret ELSE Return("STORAGE_WRITE_FAIL")
    /\ UNCHANGED <<bcnt, disk, hist>>
-----------------------------------------------------------------------------
(* Power is lost or the board is reset: the RAM goes, the disk stays.        *)
Crash ==
    /\ pc # "off" /\ crashes < MaxCrashes
    /\ pc' = "off"
    /\ crashes' = crashes + 1
    /\ caller' = "init" /\ info' = ZeroSeeks /\ saved' = ZeroSeeks
    /\ buffer' = EmptyFile /\ bcnt' = 0 /\ ret' = "none"
    /\ UNCHANGED <<disk, hist, faults, attempts>>

(* The loops main() never leaves.                                            *)
Stopped == pc = "hung" /\ UNCHANGED vars

Init ==
    /\ pc = "off"
    /\ caller = "init" /\ info = ZeroSeeks /\ saved = ZeroSeeks
    /\ buffer = EmptyFile /\ bcnt = 0 /\ ret = "none"
    /\ chip = "blank"
    /\ infoFile = "absent" /\ diskInfo = StartSeeks
    /\ dirs = {} /\ files = NoFiles
    /\ fwDir = "absent" /\ fwFile = "absent"
    /\ pushed = << >> /\ popped = << >>
    /\ faults = 0 /\ crashes = 0 /\ attempts = 0

BootStep == \/ PowerOn \/ Mount \/ Format \/ Remount \/ GetStoreInfo \/ MakeFolder
            \/ GetFirmwareInfo \/ MakeFirmwareDir \/ OpenFirmwareInfo \/ CloseFirmwareInfo
InfoStep == OpenInfo \/ CloseInfo \/ InfoDone
PushStep == PushOpen \/ PushWrite \/ PushClose
PopStep  == PopEmpty \/ PopOpen \/ PopRead

Next == BootStep \/ InfoStep \/ PushStep \/ PopStep \/ Crash \/ Stopped

Spec == Init /\ [][Next]_vars
-----------------------------------------------------------------------------
PCs == {"off", "mount", "format", "remount", "get_store_info", "mkdir",
        "get_firmware_info", "fw_mkdir", "fw_open", "fw_close", "ready", "hung",
        "info_open", "info_close", "info_done", "push_write", "push_close", "pop_read"}
Codes == {"none", "STORAGE_OK", "STORATE_FULL", "STORATE_EMPTY",
          "STORAGE_FILE_OPEN_FAIL", "STORAGE_WRITE_FAIL"}

(* Every variable has its type; in particular the seeks stay in uint16_t.    *)
TypeOK ==
    /\ pc \in PCs
    /\ caller \in {"init", "push", "pop"}
    /\ info \in Seeks /\ saved \in Seeks
    /\ buffer \in File
    /\ bcnt \in Nat
    /\ ret \in Codes
    /\ chip \in {"blank", "littlefs"}
    /\ infoFile \in {"absent", "empty", "written"}
    /\ diskInfo \in Seeks
    /\ dirs \subseteq Nat
    /\ DOMAIN files \subseteq Slot /\ \A s \in DOMAIN files : files[s] \in File
    /\ fwDir \in {"absent", "present"}
    /\ fwFile \in {"absent", "empty", "written"}
    /\ pushed \in Seq(Record) /\ popped \in Seq(Record)
    /\ faults \in Nat /\ crashes \in Nat /\ attempts \in Nat

(* Slots in the order the seeks visit them. *)
Before(s, t) == s[1] < t[1] \/ (s[1] = t[1] /\ s[2] < t[2])

ReaderNotAhead(s) == ~Before(WriteSlot(s), ReadSlot(s))

(* Every slot from the read seek up to the write seek is in "existing".       *)
SlotsPresent(s, existing) ==
    \A t \in Slot : /\ ~Before(t, ReadSlot(s))
                    /\ Before(t, WriteSlot(s))
                    => t \in existing

(* The read seek never passes the write seek, in RAM or on the chip, across  *)
(* failures of littlefs, rollbacks, formats and lost power at any step       *)
(* (local_storage.c 537-557, 624-643).                                       *)
ReaderBehindWriter == ReaderNotAhead(info) /\ ReaderNotAhead(diskInfo)

(* Every record between the seeks on the chip has its file, so that pop does *)
(* not fail, or hang, on a record the seeks promise (599-604).               *)
UnreadPresent == infoFile = "written" => SlotsPresent(diskInfo, DOMAIN files)

(* Push never answers STORATE_FULL (495-499): the folder after the last one  *)
(* does not exist, so the write seek stops there and never comes round to    *)
(* the read seek.  The ring is a log that is used once.                      *)
NeverFull == ret # "STORATE_FULL"

-----------------------------------------------------------------------------
(* The inductive invariant behind them.                                      *)

(* The write seek enters the folder after the last, and stays at its start.  *)
NotWrapped(s) == s.w_folder_seek > FOLDER_MAX_COUNT => s.w_file_seek = FILE_SEEK_START

Sound(s, existing) == ReaderNotAhead(s) /\ NotWrapped(s) /\ SlotsPresent(s, existing)

SeeksInv ==
    /\ Sound(info, DOMAIN files)
    /\ Sound(saved, DOMAIN files)
    /\ Sound(diskInfo, DOMAIN files)
    /\ dirs \subseteq 1 .. FOLDERS_CREATED
    /\ pc \in {"off", "mount", "format", "remount"} => info = ZeroSeeks /\ saved = ZeroSeeks
    /\ pc \in {"push_write", "push_close"} =>
           info.w_folder_seek \in dirs /\ WriteSlot(info) \in DOMAIN files
    /\ pc = "pop_read" => ~Empty(info) /\ ReadSlot(info) \in DOMAIN files
    /\ pc = "mkdir" => bcnt \in 1 .. FOLDERS_CREATED
    /\ NeverFull
=============================================================================
