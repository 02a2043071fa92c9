------------------------------ MODULE ByteFiles ------------------------------
(***************************************************************************)
(* What the file system promises its users: a file is a sequence of words,  *)
(* a descriptor a position in it.  Descriptors share the file and not the   *)
(* position, also after dup.                                                *)
(***************************************************************************)
EXTENDS Integers, Sequences, FiniteSetsExt

CONSTANTS
    Files, Fds, NoFile,
    Lens,       \* the lengths of reads and writes
    Seeks,      \* the arguments of seeks: an offset and where it counts from
    MaxSize     \* the limit on the size of a file

VARIABLES
    content,    \* the words of each file
    file, pos,  \* the file and the position of each descriptor
    out,        \* what the last read returned
    full        \* the disk has been full at some time

vars == <<content, file, pos, out, full>>

NoRead == <<>>

\* The words a writer of len words has in its buffer.
Data(len) == [i \in 1..len |-> i]

\* c2 is c with data at offset p.  A gap is filled with zeros, unless the disk
\* has been full: then it may hold what was in the file before.
Overlays(c2, c, p, data) ==
    /\ Len(c2) = Max({Len(c), p + Len(data)})
    /\ \A i \in 1..Len(c2) :
           IF i \in (p + 1)..(p + Len(data)) THEN c2[i] = data[i - p]
           ELSE IF i <= Len(c) THEN c2[i] = c[i]
           ELSE c2[i] = 0 \/ full'

Overlay(f, p, data) ==
    /\ Overlays(content'[f], content[f], p, data)
    /\ \A g \in Files \ {f} : content'[g] = content[g]

Init ==
    /\ content = [f \in Files |-> <<>>]
    /\ file = [d \in Fds |-> NoFile]
    /\ pos = [d \in Fds |-> 0]
    /\ out = NoRead
    /\ full = FALSE

Open(d, f) ==
    /\ file[d] = NoFile
    /\ file' = [file EXCEPT ![d] = f]
    /\ \E c \in {<<>>, content[f]} :
           /\ content' = [content EXCEPT ![f] = c]
           /\ \E p \in {0, Len(c)} : pos' = [pos EXCEPT ![d] = p]
    /\ out' = NoRead
    /\ UNCHANGED full

Dup(d, e) ==
    /\ file[d] # NoFile
    /\ file[e] = NoFile
    /\ file' = [file EXCEPT ![e] = file[d]]
    /\ pos' = [pos EXCEPT ![e] = pos[d]]
    /\ out' = NoRead
    /\ UNCHANGED <<content, full>>

Close(d) ==
    /\ file[d] # NoFile
    /\ file' = [file EXCEPT ![d] = NoFile]
    /\ pos' = [pos EXCEPT ![d] = 0]
    /\ out' = NoRead
    /\ UNCHANGED <<content, full>>

\* A write is short only if the disk is full or the file too large.
Write(d) ==
    /\ file[d] # NoFile
    /\ full => full'
    /\ \E len \in Lens : \E n \in 0..len :
           /\ n < len => full' \/ pos[d] + n >= MaxSize
           /\ Overlay(file[d], pos[d], SubSeq(Data(len), 1, n))
           /\ pos' = [pos EXCEPT ![d] = @ + n]
    /\ out' = NoRead
    /\ UNCHANGED file

\* A read returns the words at the position, all there are unless it has to
\* allocate a block of the gap a failed write has left.
Read(d) ==
    /\ file[d] # NoFile
    /\ full => full'
    /\ \E len \in Lens : \E n \in 0..len :
           /\ pos[d] + n <= Max({pos[d], Len(content[file[d]])})
           /\ n < len => pos[d] + n >= Len(content[file[d]]) \/ full'
           /\ out' = SubSeq(content[file[d]], pos[d] + 1, pos[d] + n)
           /\ pos' = [pos EXCEPT ![d] = @ + n]
    /\ UNCHANGED <<content, file>>

\* A seek that fails changes nothing; one beyond the end extends the file.
Seek(d) ==
    /\ file[d] # NoFile
    /\ full => full'
    /\ \E s \in Seeks :
           LET p == s[1] + CASE s[2] = "SET" -> 0
                             [] s[2] = "CUR" -> pos[d]
                             [] s[2] = "END" -> Len(content[file[d]])
           IN  \/ /\ p \in 0..(MaxSize - 1)
                  /\ Overlay(file[d], p, <<>>)
                  /\ pos' = [pos EXCEPT ![d] = p]
               \/ /\ full' \/ p \notin 0..(MaxSize - 1)
                  /\ UNCHANGED <<content, pos>>
    /\ out' = NoRead
    /\ UNCHANGED file

Next ==
    \E d \in Fds :
        \/ \E f \in Files : Open(d, f)
        \/ \E e \in Fds : Dup(d, e)
        \/ Close(d) \/ Write(d) \/ Read(d) \/ Seek(d)

Spec == Init /\ [][Next]_vars
=============================================================================
