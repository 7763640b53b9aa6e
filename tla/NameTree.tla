------------------------------ MODULE NameTree ------------------------------
(***************************************************************************)
(* What littlefs promises of its directories: a tree of names in which a    *)
(* call shows its effect once and as a whole, or not at all when power is   *)
(* lost before, and nothing else shows.                                     *)
(***************************************************************************)
EXTENDS Naturals, Sequences, SequencesExt

CONSTANTS Names, Files

VARIABLES
    tree,        \* the nodes, [path, type]
    call         \* the last call asked for, and whether its effect is still due

IsAt(p)       == \E x \in tree : x.path = p
TypeAt(p)     == (CHOOSE x \in tree : x.path = p).type
IsDirAt(p)    == IsAt(p) /\ TypeAt(p) = "dir"
IsEmpty(p)    == \A x \in tree : IsPrefix(p, x.path) => x.path = p
Under(p)      == {x \in tree : IsPrefix(p, x.path)}
Moved(x, p, q) == [x EXCEPT !.path = q \o SubSeq(@, Len(p) + 1, Len(@))]

Init == /\ tree = {[path |-> << >>, type |-> "dir"]}
        /\ call = [n |-> 0, does |-> "nothing", path |-> << >>, to |-> << >>, due |-> FALSE]

Paths == {Append(x.path, n) : x \in {y \in tree : y.type = "dir"}, n \in Names}

Make(p, types) == /\ p \in Paths /\ ~IsAt(p)
                  /\ \E t \in types : tree' = tree \cup {[path |-> p, type |-> t]}

Delete(p) == /\ p \in Paths /\ IsAt(p) /\ IsEmpty(p)
             /\ tree' = tree \ Under(p)

(* A file may replace a file, a directory an empty directory.                *)
Rename(p, q) ==
    /\ p \in Paths /\ q \in Paths
    /\ IsAt(p) /\ ~IsPrefix(p, q)
    /\ IsAt(q) => IsEmpty(q) /\ IsDirAt(q) = IsDirAt(p)
    /\ tree' = (tree \ (Under(p) \cup Under(q))) \cup {Moved(x, p, q) : x \in Under(p)}

Effect(c) == \/ c.does = "create" /\ Make(c.path, Files)
             \/ c.does = "mkdir"  /\ Make(c.path, {"dir"})
             \/ c.does = "remove" /\ Delete(c.path)
             \/ c.does = "rename" /\ Rename(c.path, c.to)
             \/ c.does = "nothing" /\ UNCHANGED tree

(* A call begins when the one before has ended, and may show its effect at   *)
(* once.                                                                     *)
Calls(k) == [n : {k}, does : {"nothing", "create", "mkdir", "remove", "rename"},
             path : Paths \cup {<< >>}, to : Paths \cup {<< >>}, due : BOOLEAN]
Ask == /\ ~call.due
       /\ call' \in Calls(call.n + 1)
       /\ IF call'.due THEN UNCHANGED tree ELSE Effect(call')

Done   == call' = [call EXCEPT !.due = FALSE]
Finish == call.due /\ Effect(call) /\ Done
GiveUp == call.due /\ UNCHANGED tree /\ Done      \* power is lost

Next == Ask \/ Finish \/ GiveUp

Spec == Init /\ [][Next]_<<tree, call>>
=============================================================================
