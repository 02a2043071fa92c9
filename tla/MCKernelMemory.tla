---------------------------- MODULE MCKernelMemory ----------------------------
\* An instance of KernelMemory for TLC.
EXTENDS KernelMemory

\* Low memory, behind the kernel; a hole; the rest, a reserved entry, and memory
\* beyond the end of what the kernel maps.
BiosMap ==
    <<[addr |-> 0, size |-> 37, arm |-> TRUE],
      [addr |-> 37, size |-> 4, arm |-> FALSE],
      [addr |-> 41, size |-> 30, arm |-> TRUE],
      [addr |-> 90, size |-> 20, arm |-> TRUE]>>
=============================================================================
