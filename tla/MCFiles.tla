------------------------------- MODULE MCFiles -------------------------------
\* Instances of Files for TLC.
EXTENDS Files, TLC

CONSTANTS root, sub, file, stdin, p1, p2

MCParent == [n \in SfsNodes |-> root]

Flags(acc, creat, excl, trunc, append) ==
    [acc |-> acc, creat |-> creat, excl |-> excl, trunc |-> trunc, append |-> append]

MCFlags == {RDONLY, Flags("O_WRONLY", FALSE, FALSE, TRUE, FALSE),
            Flags("O_RDONLY", TRUE, FALSE, FALSE, FALSE),
            Flags("O_RDONLY", TRUE, TRUE, FALSE, FALSE)}

Path(from, name) == [from |-> from, name |-> name]

MCPaths == {Path("cwd", file), Path("cwd", ".."), Path("cwd", "nothing"), Path("boot", sub),
            Path("fs", ""), Path(stdin, "")}

Symmetry == Permutations({p1, p2})
=============================================================================
