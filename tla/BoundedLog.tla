------------------------------ MODULE BoundedLog ------------------------------
(***************************************************************************)
(* What a ring buffer promises: a queue of at most Size bytes that forgets *)
(* its oldest byte to make room for a new one.                             *)
(***************************************************************************)
EXTENDS Naturals, Sequences

CONSTANTS Byte, Size

VARIABLES
    log,   \* the bytes written and neither read nor forgotten, oldest first
    out    \* the bytes that were read, in order

Init == log = <<>> /\ out = <<>>

Write(b) ==
    /\ log' = Append(IF Len(log) = Size THEN Tail(log) ELSE log, b)
    /\ UNCHANGED out

Read ==
    /\ log # <<>>
    /\ out' = Append(out, Head(log))
    /\ log' = Tail(log)

Next == (\E b \in Byte : Write(b)) \/ Read

Spec == Init /\ [][Next]_<<log, out>>
=============================================================================
