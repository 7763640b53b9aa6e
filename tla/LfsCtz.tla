-------------------------------- MODULE LfsCtz ------------------------------
(***************************************************************************)
(* The lists that hold the data of files: the arithmetic of LfsCtzIndex,    *)
(* and what is read of the blocks.                                          *)
(***************************************************************************)
EXTENDS LfsCache

(* A pointer as it stands in a block, apart from the words of data.           *)
Ptr(b)    == 1000 + b
Target(w) == IF w >= 1000 THEN w - 1000 ELSE Null

INSTANCE LfsCtzIndex

At(m, b, off) == [m EXCEPT !.at = [block |-> b, off |-> off]]

(* To where the pointer in word k of block b leads.                           *)
Follow(d, data) ==
    [d EXCEPT !.at.block = IF Ok(d) THEN Target(d.data[1]) ELSE Null, !.data = data]
Pointer(m, p, r, b, k) == Follow(BdRead([m EXCEPT !.data = << >>], p, r, b, k, 1), m.data)

(* lfs_ctz_find: where position pos of the list is.                           *)
RECURSIVE Walk(_, _, _, _, _)
Walk(m, p, r, from, to) ==
    IF ~Ok(m) \/ from <= to THEN m
    ELSE Walk(Pointer(m, p, r, m.at.block, Skip(from, to)), p, r, from - Pow2[Skip(from, to)], to)

CtzFind(m, p, r, head, size, pos) ==
    IF size = 0 THEN At(m, Null, 0)
    ELSE Walk(At(m, head, CtzOff(pos)), p, r, CtzIndex(size - 1), CtzIndex(pos))

(* lfs_ctz_traverse: the blocks of the list, added to m.used.                 *)
Use(m) == [m EXCEPT !.used = @ \cup {m.at.block}]

RECURSIVE Visit(_, _, _)
Visit(m, p, index) ==
    LET next == Pointer(Use(m), p, "rc", m.at.block, 0)
    IN IF ~Ok(m) \/ index = 0 THEN Use(m)
       ELSE IF index % 2 = 1 THEN Visit(next, p, index - 1)
       ELSE Visit(Pointer(Use(next), p, "rc", m.at.block, 1), p, index - 2)

CtzTraverse(m, p, head, size) ==
    IF size = 0 THEN m ELSE Visit(At(m, head, 0), p, CtzIndex(size - 1))
=============================================================================
