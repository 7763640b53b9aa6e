----------------------------- MODULE RecordLog ------------------------------
(***************************************************************************)
(* What the record store of local_storage.c promises its callers, whatever  *)
(* the power does: a log that survives, to which push appends and from      *)
(* which pop takes each record once, oldest first.                          *)
(*                                                                         *)
(* An append is durable before the push returns; a take is durable before   *)
(* the pop returns.  Losing power in between loses the answer of the call,  *)
(* so a record may be in the log without its push having returned, and a    *)
(* record may be taken without anyone having received it.                   *)
(***************************************************************************)
EXTENDS Integers, Sequences

CONSTANTS Record,    \* what can be pushed
          None,      \* no record
          Capacity   \* how many records the store takes in its whole life

VARIABLES
    log,         \* every record appended, in order
    taken,       \* how many of them have been taken
    unanswered,  \* the last append has not been answered yet
    held,        \* the record taken by the pop in progress, or None
    acked,       \* records whose push was answered
    delivered    \* records a pop handed to its caller

vars == <<log, taken, unanswered, held, acked, delivered>>

Init == /\ log = << >> /\ taken = 0
        /\ unanswered = FALSE /\ held = None
        /\ acked = << >> /\ delivered = << >>

Quiet == ~unanswered /\ held = None

AppendRecord == /\ Quiet /\ Len(log) < Capacity
                /\ \E r \in Record : log' = Append(log, r)
                /\ unanswered' = TRUE
                /\ UNCHANGED <<taken, held, acked, delivered>>

Acknowledge == /\ unanswered
               /\ unanswered' = FALSE
               /\ acked' = Append(acked, log[Len(log)])
               /\ UNCHANGED <<log, taken, held, delivered>>

TakeOldest == /\ Quiet /\ taken < Len(log)
              /\ taken' = taken + 1
              /\ held' = log[taken + 1]
              /\ UNCHANGED <<log, unanswered, acked, delivered>>

Deliver == /\ held # None
           /\ held' = None
           /\ delivered' = Append(delivered, held)
           /\ UNCHANGED <<log, taken, unanswered, acked>>

(* Power is lost between the durable step and the answer. *)
LoseAnswer == /\ ~Quiet
              /\ unanswered' = FALSE /\ held' = None
              /\ UNCHANGED <<log, taken, acked, delivered>>

Next == AppendRecord \/ Acknowledge \/ TakeOldest \/ Deliver \/ LoseAnswer

Spec == Init /\ [][Next]_vars
=============================================================================
