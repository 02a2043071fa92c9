------------------------------- MODULE MCStdin -------------------------------
\* Instances of Stdin for TLC.
EXTENDS Stdin, TLC

CONSTANTS idle, u1, u2

TwoUsers == {idle, u1, u2}

\* The user processes run the same code.
UserSymmetry == Permutations(Users)

Dn(key) == [key |-> key, up |-> FALSE]
Up(key) == [key |-> key, up |-> TRUE]

\* What is typed on the keyboard: modifiers released before and after the keys
\* they are meant for, both keys of one modifier, prefixed keys next to plain
\* ones, Caps Lock with Shift, keys without a character, Ctrl-Alt-Del.
KeyScripts == {
    <<Dn("a"), Up("a"), Dn("1"), Dn("a")>>,
    <<Dn("lshift"), Dn("a"), Up("lshift"), Dn("a")>>,
    <<Dn("rshift"), Dn("1"), Up("rshift"), Dn("1")>>,
    <<Dn("rctl"), Dn("a"), Up("rctl"), Dn("a")>>,
    <<Dn("rctl"), Dn("1"), Up("rctl"), Dn("kpdot")>>,
    <<Dn("caps"), Dn("lshift"), Dn("a"), Up("lshift"), Dn("a")>>,
    <<Dn("caps"), Up("caps"), Dn("1"), Dn("caps"), Dn("a")>>,
    <<Dn("del"), Up("del"), Dn("kpdot")>>,
    <<Dn("lshift"), Dn("rshift"), Up("rshift"), Dn("a")>>,
    <<Dn("lctl"), Dn("ralt"), Dn("del")>>,
    <<Dn("lctl"), Dn("ralt"), Up("lctl"), Dn("del")>>}

\* One device at a time, and both at once.
InputScripts ==
    [KBD : KeyScripts, COM1 : {<<>>}]
        \cup [KBD : {<<>>}, COM1 : {<<"x", "RUBOUT", "x">>}]
        \cup [KBD : {<<Dn("a"), Dn("1")>>}, COM1 : {<<"x", "RUBOUT">>}]
        \cup [KBD : {<<Dn("rctl"), Dn("a")>>}, COM1 : {<<"x">>}]
=============================================================================
