---------------------------- MODULE ContentStore ----------------------------
(***************************************************************************)
(* What a vault promises about the content of its files: a register per    *)
(* file.  A user operation is asked for, then takes effect in one step or  *)
(* not at all; nothing else changes what a file holds.                     *)
(***************************************************************************)
CONSTANTS
    Files,
    Contents,  \* what a file may hold
    Gone       \* no file, or nothing asked for

VARIABLES
    content,   \* what each file holds
    asked      \* the content an operation in flight will give it

vars == <<content, asked>>

Init ==
    /\ content \in [Files -> Contents \cup {Gone}]
    /\ asked = [f \in Files |-> Gone]

Ask(f, v) ==
    /\ asked[f] = Gone
    /\ asked' = [asked EXCEPT ![f] = v]
    /\ UNCHANGED content

TakeEffect(f) ==
    /\ asked[f] # Gone
    /\ content' = [content EXCEPT ![f] = asked[f]]
    /\ asked' = [asked EXCEPT ![f] = Gone]

\* A failed operation, or all of them when the daemon dies.
Abandon(S) ==
    /\ asked' = [f \in Files |-> IF f \in S THEN Gone ELSE asked[f]]
    /\ UNCHANGED content

Remove(f) ==
    /\ content[f] # Gone /\ asked[f] = Gone
    /\ content' = [content EXCEPT ![f] = Gone]
    /\ UNCHANGED asked

Next ==
    \/ \E f \in Files :
         \/ \E v \in Contents : Ask(f, v)
         \/ TakeEffect(f)
         \/ Remove(f)
    \/ \E S \in SUBSET Files : Abandon(S)

Spec == Init /\ [][Next]_vars
=============================================================================
