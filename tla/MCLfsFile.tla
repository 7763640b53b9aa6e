------------------------------ MODULE MCLfsFile -----------------------------
EXTENDS LfsFile

At0(n)     == [size |-> n, first |-> 0]
How(t, x)  == [trunc |-> t, mode |-> x]
OneFile    == {("a" :> At0(13))}
TwoFiles   == {("a" :> At0(13) @@ "b" :> At0(2))}
FiveCalls  == "a" :> 5
FiveAndTwo == "a" :> 5 @@ "b" :> 2
JustOpen   == {How(FALSE, "rw")}
AllOpens   == {How(FALSE, "rw"), How(FALSE, "append"), How(TRUE, "rw")}
=============================================================================
