--------------------------- MODULE MCLocalStorage ---------------------------
(* The record store on small instances: which littlefs calls may fail.      *)
EXTENDS LocalStorageLog

AnyCall      == FaultKinds
NoCall       == {}
AfterBoot    == {"open", "read", "write", "mkdir"}
CloseOnly    == {"close"}
=============================================================================
