-------------------------- MODULE LocalStorageLog ---------------------------
(***************************************************************************)
(* The record store implements the durable log of RecordLog.  The log is    *)
(* what the files hold from the first slot up to the write seek on the      *)
(* chip, and what has been taken is what lies before the read seek on the   *)
(* chip: both change at one littlefs commit, the close of the info file.    *)
(***************************************************************************)
EXTENDS LocalStorage

FilesPerFolder == FILE_MAX_COUNT + 2      \* 0 .. FILE_MAX_COUNT + 1
IndexOf(slot)  == (slot[1] - FOLDER_SEEK_START) * FilesPerFolder + slot[2]
SlotAt(n)      == <<FOLDER_SEEK_START + (n \div FilesPerFolder), n % FilesPerFolder>>

StoredLog   == IF infoFile = "written"
               THEN [n \in 1 .. IndexOf(WriteSlot(diskInfo)) |-> files[SlotAt(n - 1)].rec]
               ELSE << >>
StoredTaken == IF infoFile = "written" THEN IndexOf(ReadSlot(diskInfo)) ELSE 0
InPush      == pc = "info_done" /\ caller = "push"
InPop       == pc = "info_done" /\ caller = "pop"

Log == INSTANCE RecordLog WITH
           Record     <- 1 .. MaxPushes,
           None       <- NoRecord,
           Capacity   <- FOLDERS_CREATED * FilesPerFolder,
           log        <- StoredLog,
           taken      <- StoredTaken,
           unanswered <- InPush,
           held       <- IF InPop THEN buffer.rec ELSE NoRecord,
           acked      <- pushed,
           delivered  <- popped

(* Records are taken once and in the order they were pushed, and a push that *)
(* was answered STORAGE_OK is in the log for good, wherever the power is     *)
(* lost between the calls push and pop make (485-652).                       *)
ImplementsLog == Log!Spec

(* Between calls the seeks in RAM are those on the chip: a call that failed  *)
(* has undone its advance (550-553, 637-640).                                *)
SeeksMatchDisk == pc = "ready" => infoFile = "written" /\ diskInfo = info

(* When pop goes for a record, its file is there (580, 599).                 *)
PopFindsFile == pc = "ready" /\ ~Empty(info) => ReadSlot(info) \in DOMAIN files

(* When push or pop is told the info was stored, it was (562: "info updated  *)
(* successfully").                                                           *)
InfoStored == pc = "info_done" => infoFile = "written" /\ diskInfo = info

(* A push that littlefs did not fail succeeds, or reports a full store.      *)
PushSucceeds == pc = "ready" => ret # "STORAGE_FILE_OPEN_FAIL"

(* Losing power never leaves a store that cannot start again.                *)
BootSucceeds == pc # "hung"
=============================================================================
