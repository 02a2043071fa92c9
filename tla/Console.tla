------------------------------- MODULE Console -------------------------------
(***************************************************************************)
(* The input side of kern/driver/console.c: the keyboard and the serial     *)
(* port, their interrupts, the decoding of scan codes and the ring buffer   *)
(* that cons_getc takes one character from per interrupt.                   *)
(*                                                                          *)
(* The hardware is external.  A device holds one byte at a time (the FIFO   *)
(* of the serial port is off), and asks for an interrupt when it presents   *)
(* one.  The interrupt controller latches one request per device: a byte    *)
(* presented while a request is latched gets none of its own.               *)
(*                                                                          *)
(* A byte of the keyboard is a key and whether it is released, or the       *)
(* prefix E0; the keys stand for the scan codes with the same entries in    *)
(* the tables.  Characters are short strings, NO is the code's 0.           *)
(***************************************************************************)
EXTENDS Integers, Sequences, SequencesExt, FiniteSets

CONSTANTS
    CONSBUFSIZE,
    Scripts,        \* what comes in: [KBD |-> presses and releases, COM1 |-> bytes]
    MaxDrained,     \* bound on the keyboard's bytes before kbd_init
    MaxBurst        \* bound on the bytes a device adds during one loop

ASSUME ConsoleAssumption ==
    /\ CONSBUFSIZE \in Nat \ {0}
    /\ \A s \in Scripts : DOMAIN s = {"KBD", "COM1"}
    /\ MaxDrained \in Nat /\ MaxBurst \in Nat

VARIABLES
    script,         \* what comes in during this behaviour
    sent,           \* the number of bytes each device has presented
    ready,          \* the devices that hold a byte not read yet
    irr,            \* the interrupts requested and not taken
    coalesced,      \* history: a byte was read that has no interrupt of its own
    cons            \* the ring, kbd_proc_data's shift, and their history

consVars == <<script, sent, ready, irr, coalesced, cons>>

Devices == {"KBD", "COM1"}
NO == "NO"

-----------------------------------------------------------------------------
(* The hardware.                                                            *)

Scan(key, up) == [key |-> key, up |-> up]
E0 == Scan("E0", FALSE)

\* The bytes of an event [key, up]: the right-hand modifiers and the Delete key
\* send the code of another key after E0.
ScanCodes(e) ==
    CASE e.key = "rctl" -> <<E0, Scan("lctl", e.up)>>
      [] e.key = "ralt" -> <<E0, Scan("lalt", e.up)>>
      [] e.key = "del"  -> <<E0, Scan("kpdot", e.up)>>
      [] OTHER          -> <<Scan(e.key, e.up)>>

AllScanCodes(events) == FlattenSeq([i \in DOMAIN events |-> ScanCodes(events[i])])

Bytes(d) == IF d = "KBD" THEN AllScanCodes(script.KBD) ELSE script.COM1

More(d) == Len(Bytes(d)) - sent[d]

\* A device presents its next byte and asks for an interrupt.
Present(d) ==
    /\ d \notin ready /\ More(d) > 0
    /\ sent' = [sent EXCEPT ![d] = @ + 1]
    /\ ready' = ready \cup {d}
    /\ coalesced' = (coalesced \/ d \in irr)
    /\ irr' = irr \cup {d}
    /\ UNCHANGED <<script, cons>>

-----------------------------------------------------------------------------
(* The keyboard.  A scan code in the tables is <<key, whether E0 came first>>. *)

shiftcode(code) ==
    CASE code \in {<<"lshift", FALSE>>, <<"rshift", FALSE>>} -> {"SHIFT"}
      [] code[1] = "lctl" -> {"CTL"}
      [] code[1] = "lalt" -> {"ALT"}
      [] OTHER            -> {}

togglecode(code) == IF code = <<"caps", FALSE>> THEN {"CAPSLOCK"} ELSE {}

normalmap(code) ==
    CASE code = <<"a", FALSE>>     -> "a"
      [] code = <<"1", FALSE>>     -> "1"
      [] code = <<"kpdot", FALSE>> -> "."
      [] code = <<"kpdot", TRUE>>  -> "KEY_DEL"
      [] OTHER                     -> NO

shiftmap(code) ==
    CASE code = <<"a", FALSE>> -> "A"
      [] code = <<"1", FALSE>> -> "!"
      [] OTHER                 -> normalmap(code)

ctlmap(code) ==
    CASE code = <<"a", FALSE>>    -> "^A"
      [] code = <<"kpdot", TRUE>> -> "KEY_DEL"
      [] OTHER                    -> NO

charcode(shift, code) ==
    IF "CTL" \in shift THEN ctlmap(code)
    ELSE IF "SHIFT" \in shift THEN shiftmap(code) ELSE normalmap(code)

Capslock(shift, c) ==
    IF "CAPSLOCK" \notin shift THEN c
    ELSE CASE c = "a" -> "A" [] c = "A" -> "a" [] OTHER -> c

Pressed(shift, code) ==
    LET held == (shift \ {"E0ESC"}) \cup shiftcode(code)
    IN  SymDiff(held, togglecode(code))

Typed(shift, code) ==
    LET c == Capslock(shift, charcode(shift, code))
    IN  [shift |-> shift, c |-> c, reset |-> {"CTL", "ALT"} \subseteq shift /\ c = "KEY_DEL"]

\* Fault: the release of a key leaves the prefix in force.
KbdReleaseKeepsE0(shift, b) ==
    LET code == <<b.key, "E0ESC" \in shift>>
    IN  IF b = E0 THEN [shift |-> shift \cup {"E0ESC"}, c |-> NO, reset |-> FALSE]
        ELSE IF b.up
        THEN [shift |-> shift \ shiftcode(code), c |-> NO, reset |-> FALSE]
        ELSE Typed(Pressed(shift, code), code)

\* The new shift, the character that byte b finishes, and whether it resets the
\* machine (Ctrl-Alt-Del).
kbd_proc_data(shift, b) ==
    LET code == <<b.key, "E0ESC" \in shift>>
    IN  IF b = E0 THEN [shift |-> shift \cup {"E0ESC"}, c |-> NO, reset |-> FALSE]
        ELSE IF b.up
        THEN [shift |-> shift \ (shiftcode(code) \cup {"E0ESC"}), c |-> NO, reset |-> FALSE]
        ELSE Typed(Pressed(shift, code), code)

serial_proc_data(b) == IF b = "RUBOUT" THEN "BS" ELSE b

-----------------------------------------------------------------------------
(* The ring.  Nothing looks whether it is full: the character that fills it  *)
(* makes it look empty.                                                      *)

Put(k, c) ==
    LET wpos == (k.wpos + 1) % CONSBUFSIZE
    IN  IF c = NO THEN k
        ELSE [k EXCEPT !.buf[k.wpos] = c, !.wpos = wpos,
                       !.accepted = Append(@, c), !.wrapped = @ \/ wpos = k.rpos]

\* What one byte of device d does: serial_proc_data or kbd_proc_data, and the ring.
Feed(k, d, b) ==
    IF d = "COM1" THEN Put(k, serial_proc_data(b))
    ELSE LET data == kbd_proc_data(k.shift, b)
         IN  [Put(k, data.c) EXCEPT !.shift = data.shift, !.reset = @ \/ data.reset]

\* The loop of cons_intr over the bytes a device presents while it runs.
cons_intr(k, d, bytes) ==
    LET after[i \in 0..Len(bytes)] == IF i = 0 THEN k ELSE Feed(after[i - 1], d, bytes[i])
    IN  after[Len(bytes)]

serial_intr(k, bytes) == cons_intr(k, "COM1", bytes)
kbd_intr(k, bytes) == cons_intr(k, "KBD", bytes)

\* What a device gives when n more bytes arrive during its loop: those after the
\* ones that were read.
Incoming(d, n) ==
    LET read == IF d \in ready THEN sent[d] - 1 ELSE sent[d]
    IN  [i \in 1..(sent[d] + n - read) |-> Bytes(d)[read + i]]

\* The character cons_getc returns, and what it leaves.
Grab(k) ==
    IF k.rpos = k.wpos THEN [c |-> NO, cons |-> k]
    ELSE [c |-> k.buf[k.rpos], cons |-> [k EXCEPT !.rpos = (@ + 1) % CONSBUFSIZE]]

\* Fault: the character is taken before the devices are polled.
GetcGrabsFirst(n) ==
    LET g == Grab(cons)
    IN  [g EXCEPT !.cons = kbd_intr(serial_intr(@, Incoming("COM1", n.COM1)), Incoming("KBD", n.KBD))]

\* cons_getc, with n[d] bytes presented by d after the interrupt was taken and
\* before the loop over d ends.
cons_getc(n) ==
    Grab(kbd_intr(serial_intr(cons, Incoming("COM1", n.COM1)), Incoming("KBD", n.KBD)))

\* The hardware's side of an interrupt of device d in which cons_getc reads all
\* that is ready and n more bytes.
Acknowledge(d, n) ==
    LET left == irr \ {d}
        new  == {e \in Devices : n[e] > 0}
    IN  /\ sent' = [e \in Devices |-> sent[e] + n[e]]
        /\ ready' = {}
        /\ irr' = left \cup new
        /\ coalesced' = (coalesced \/ left \cap new # {} \/ \E e \in Devices : n[e] > 1)
        /\ UNCHANGED script

\* The ways a burst of bytes falls into the loops.
Bursts == {n \in [Devices -> 0..MaxBurst] : \A d \in Devices : n[d] <= More(d)}

-----------------------------------------------------------------------------
\* cons_init: kbd_init reads what the keyboard holds, before interrupts are on.
ConsInit ==
    /\ script \in Scripts
    /\ \E n \in 0..MaxDrained :
          /\ n <= Len(AllScanCodes(script.KBD))
          /\ sent = [d \in Devices |-> IF d = "KBD" THEN n ELSE 0]
          /\ cons = kbd_intr([buf |-> [i \in 0..(CONSBUFSIZE - 1) |-> NO], rpos |-> 0, wpos |-> 0,
                              shift |-> {}, reset |-> FALSE, accepted |-> <<>>, wrapped |-> FALSE],
                             [i \in 1..n |-> AllScanCodes(script.KBD)[i]])
          /\ coalesced = (n > 0)
    /\ ready = {} /\ irr = {}

-----------------------------------------------------------------------------
ConsTypeOK ==
    /\ script \in Scripts
    /\ sent \in [Devices -> Nat]
    /\ ready \subseteq Devices /\ irr \subseteq Devices
    /\ coalesced \in BOOLEAN
    /\ cons.buf \in [0..(CONSBUFSIZE - 1) -> STRING]
    /\ cons.rpos \in 0..(CONSBUFSIZE - 1) /\ cons.wpos \in 0..(CONSBUFSIZE - 1)
    /\ cons.shift \subseteq {"SHIFT", "CTL", "ALT", "CAPSLOCK", "E0ESC"}
    /\ cons.reset \in BOOLEAN /\ cons.wrapped \in BOOLEAN
    /\ cons.accepted \in Seq(STRING)

(* What the properties compare with.                                        *)

\* The characters in the ring, oldest first.
Waiting ==
    [i \in 1..((cons.wpos - cons.rpos) % CONSBUFSIZE) |->
        cons.buf[(cons.rpos + i - 1) % CONSBUFSIZE]]

\* The two keys of a modifier.
SHIFTs == {"lshift", "rshift"}
CTLs == {"lctl", "rctl"}
ALTs == {"lalt", "ralt"}

\* A key is down after the first i events.
Down(key, i) ==
    \E j \in 1..i : /\ script.KBD[j] = [key |-> key, up |-> FALSE]
                    /\ \A k \in (j + 1)..i : script.KBD[k] # [key |-> key, up |-> TRUE]

Held(keys, i) == \E key \in keys : Down(key, i)

\* The number of events whose bytes have all been read.
EventsRead ==
    LET bytes == sent.KBD - Cardinality(ready \cap {"KBD"})
    IN  Cardinality({i \in DOMAIN script.KBD : Len(AllScanCodes(SubSeq(script.KBD, 1, i))) <= bytes})

\* What the i-th event types, from the keys that are down and the number of
\* times Caps Lock was pressed.
Meaning(i) ==
    LET e     == script.KBD[i]
        ctl   == Held(CTLs, i)
        shift == Held(SHIFTs, i)
        caps  == Cardinality({j \in 1..i : script.KBD[j] = [key |-> "caps", up |-> FALSE]}) % 2 = 1
    IN  CASE e.up           -> <<>>
          [] e.key = "a"    -> IF ctl THEN <<"^A">> ELSE IF shift # caps THEN <<"A">> ELSE <<"a">>
          [] e.key = "1"    -> IF ctl THEN <<>> ELSE IF shift THEN <<"!">> ELSE <<"1">>
          [] e.key = "kpdot" -> IF ctl THEN <<>> ELSE <<".">>
          [] e.key = "del"  -> <<"KEY_DEL">>
          [] OTHER          -> <<>>

\* No two keys of one modifier have been down together: the code has one bit
\* for both, which the release of either clears.
OneOfEach ==
    \A keys \in {SHIFTs, CTLs, ALTs} : \A i \in 0..EventsRead :
        \E key \in keys : ~Down(key, i)

\* Every press is decoded by the keys that are really down when it happens,
\* though bytes are read in bursts, in other devices' interrupts and with a
\* prefix in one interrupt and its code in the next; the machine is reset by
\* Ctrl-Alt-Del and by nothing else.
KeysExact ==
    OneOfEach =>
        /\ SelectSeq(cons.accepted, LAMBDA c : c \notin Range(script.COM1) \cup {"BS"}) =
              FlattenSeq([i \in 1..EventsRead |-> Meaning(i)])
        /\ cons.reset <=> \E i \in 1..EventsRead :
              script.KBD[i] = [key |-> "del", up |-> FALSE] /\ Held(CTLs, i) /\ Held(ALTs, i)
=============================================================================
