------------------------------ MODULE BlockPool -----------------------------
(***************************************************************************)
(* What a block allocator without a free list promises a copy-on-write      *)
(* file system: every block it hands out is one nobody refers to, neither   *)
(* the file system's tree on disk nor an operation that has blocks in       *)
(* flight.                                                                  *)
(***************************************************************************)

CONSTANT NoBlock      \* nothing has been handed out

VARIABLES
    tree,       \* blocks that can be reached from the root, or an open file
    inflight,   \* blocks handed out and not yet reachable
    block       \* the block just handed out, or NoBlock

vars == <<tree, inflight, block>>

Init == tree = {} /\ inflight = {} /\ block = NoBlock

Ask == block' = NoBlock /\ UNCHANGED <<tree, inflight>>

HandOut == /\ block' # NoBlock
           /\ block' \notin tree \cup inflight
           /\ inflight' = inflight \cup {block'}
           /\ UNCHANGED tree

(* Blocks in flight become reachable, or are given up. *)
Settle == \E linked \in SUBSET inflight :
             /\ tree' = tree \cup linked
             /\ inflight' \subseteq inflight \ linked
             /\ UNCHANGED block

(* Blocks nobody refers to any more; the device may be unplugged as well.    *)
Release == /\ tree' \subseteq tree
           /\ inflight' \in {inflight, {}}
           /\ block' \in {block, NoBlock}

Next == Ask \/ HandOut \/ Settle \/ Release

Spec == Init /\ [][Next]_vars
=============================================================================
