------------------------------- MODULE FileBox ------------------------------
(***************************************************************************)
(* What littlefs promises of open files: a sequence of words that each call *)
(* changes or reads at the position, and a disk that changes only when a    *)
(* file is synced or closed, and then all at once.  A call may fail for     *)
(* want of space; then the disk keeps what it had, or what the file held    *)
(* before the call.                                                        *)
(***************************************************************************)
EXTENDS Integers, Sequences

CONSTANT Files

VARIABLES
    disk,        \* what a mount would find
    box,         \* the open files: mode, view and position
    io           \* the last call: [call, f, arg, words, err]

vars == <<disk, box, io>>

Lower(a, b)   == IF a < b THEN a ELSE b
Upper(a, b)   == IF a > b THEN a ELSE b
First(s, n)   == SubSeq(s, 1, Lower(n, Len(s)))
Sized(s, n)   == [i \in 1 .. n |-> IF i <= Len(s) THEN s[i] ELSE 0]
Closed        == [mode |-> "closed", view |-> << >>, pos |-> 0]

Called(f, call) == io'.call = call /\ io'.f = f /\ io'.err = "ok"
Usable(f)       == box[f].mode \in {"rw", "append"}
Become(f, s, p) == box' = [box EXCEPT ![f].view = s, ![f].pos = p]
OnDisk(f, s)    == disk' = [disk EXCEPT ![f] = s]

Init == /\ box = [f \in Files |-> Closed]
        /\ \A f \in Files : disk[f] \in Seq(Int)

Open(f, mode) ==
    /\ box[f].mode = "closed" /\ Called(f, mode)
    /\ box' = [box EXCEPT ![f] = [mode |-> mode, pos |-> 0,
                  view |-> IF io'.arg = 1 THEN << >> ELSE disk[f]]]
    /\ UNCHANGED disk

Read(f) ==
    /\ Usable(f) /\ Called(f, "read")
    /\ io'.words = SubSeq(box[f].view, box[f].pos + 1,
                          Lower(box[f].pos + io'.arg, Len(box[f].view)))
    /\ Become(f, box[f].view, box[f].pos + Len(io'.words))
    /\ UNCHANGED disk

(* At the position, or at the end in append mode, behind zeros if need be.    *)
Write(f) ==
    LET v == box[f].view
        p == IF box[f].mode = "append" THEN Upper(box[f].pos, Len(v)) ELSE box[f].pos
    IN /\ Usable(f) /\ Called(f, "write")
       /\ Become(f, Sized(v, p) \o io'.words \o SubSeq(v, p + io'.arg + 1, Len(v)),
                 p + io'.arg)
       /\ UNCHANGED disk

Seek(f) == /\ Usable(f) /\ Called(f, "seek")
           /\ Become(f, box[f].view, io'.arg) /\ UNCHANGED disk

Truncate(f) == /\ Usable(f) /\ Called(f, "truncate")
               /\ Become(f, Sized(box[f].view, io'.arg), box[f].pos) /\ UNCHANGED disk

Sync(f) == /\ Usable(f) /\ Called(f, "sync")
           /\ OnDisk(f, box[f].view) /\ UNCHANGED box

Close(f) == /\ Usable(f) /\ Called(f, "close")
            /\ OnDisk(f, box[f].view) /\ box' = [box EXCEPT ![f] = Closed]

Fail(f) == /\ Usable(f) /\ io'.err = "nospc" /\ io'.f = f
           /\ \/ box' = [box EXCEPT ![f].mode = "failed", ![f].pos = box'[f].pos]
              \/ io'.call = "close" /\ box' = [box EXCEPT ![f] = Closed]
           /\ UNCHANGED disk

CloseFailed(f) ==
    /\ box[f].mode = "failed" /\ io'.call = "close"
    /\ UNCHANGED disk \/ OnDisk(f, box[f].view)
    /\ box' = [box EXCEPT ![f] = Closed]

PowerCut == /\ io'.call = "cut" /\ box' = [f \in Files |-> Closed] /\ UNCHANGED disk

Next == PowerCut \/ \E f \in Files :
    \/ \E mode \in {"rw", "append"} : Open(f, mode)
    \/ Read(f) \/ Write(f) \/ Seek(f) \/ Truncate(f) \/ Sync(f) \/ Close(f)
    \/ Fail(f) \/ CloseFailed(f)

Spec == Init /\ [][Next]_vars
=============================================================================
