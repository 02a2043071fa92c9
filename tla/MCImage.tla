------------------------------- MODULE MCImage -------------------------------
(***************************************************************************)
(* Host directories for the image run: three names in the root, two of them *)
(* too long for an entry and equal in the part it holds; files that end in  *)
(* the direct, indirect and double indirect blocks or are too big for       *)
(* mksfs, hard links, a symbolic link, a special file, a subdirectory with  *)
(* a hidden file.                                                           *)
(***************************************************************************)
EXTENDS Image

a == <<3, 0>>
long1 == <<4, 5>>
long2 == <<4, 6>>
long == <<4, 0>>
tooLong == <<4, 5, 6>>
hidden == <<HiddenName, 0>>

MCNames == {a, long, long1, tooLong, hidden, Dot, DotDot}

Tree(x, y, z, p, q) ==
    (Root :> (a :> x @@ long1 :> y @@ long2 :> z)) @@ ("D" :> (a :> p @@ hidden :> q))

\* Without a directory D its contents do not matter.
Trees ==
    {Tree(x, y, z, None, None) : x \in {None, "A", "B", "L", "S"}, y \in {None, "A", "B"},
                                 z \in {None, "A", "B", "L"}} \cup
    {Tree("D", y, z, p, q) : y \in {None, "A", "B"}, z \in {None, "A", "L"},
                             p \in {None, "A", "L"}, q \in {None, "A"}} \cup
    {Tree(x, "D", z, p, None) : x \in {None, "A", "S"}, z \in {None, "A", "B"},
                                p \in {None, "A", "B"}}

Host(t, b) ==
    [tree |-> t,
     type |-> [o \in {"A", "B", "D", "L", "S"} |->
                   CASE o \in {"A", "B"} -> "file" [] o = "D" -> "dir"
                     [] o = "L" -> "link" [] OTHER -> "special"],
     size |-> [A |-> 4, B |-> b, L |-> 2],
     base |-> [A |-> 100, B |-> 200, L |-> 300]]

Holds(t, o) == \E d \in DOMAIN t : \E n \in DOMAIN t[d] : t[d][n] = o

MCHosts == {Host(t, 25) : t \in Trees} \cup {Host(t, 28) : t \in {u \in Trees : Holds(u, "B")}}

MCImgBlocks == {3, NrBlocks + 3}
=============================================================================
