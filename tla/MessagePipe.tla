------------------------------ MODULE MessagePipe ------------------------------
(***************************************************************************)
(* What the reader of the language server's output promises: messages      *)
(* written at one end are handed on at the other in their order, none is    *)
(* lost, repeated or made up.  One read may hand on several of them.         *)
(***************************************************************************)
EXTENDS Naturals, Sequences

CONSTANT Body  \* what can be written

VARIABLES
    queue,  \* written and not yet handed on
    taken   \* handed on, in order

Init ==
    /\ queue = <<>>
    /\ taken = <<>>

Write(body) ==
    /\ queue' = Append(queue, body)
    /\ UNCHANGED taken

Take(n) ==
    /\ taken' = taken \o SubSeq(queue, 1, n)
    /\ queue' = SubSeq(queue, n + 1, Len(queue))

Next ==
    \/ \E body \in Body : Write(body)
    \/ \E n \in 1..Len(queue) : Take(n)

Spec == Init /\ [][Next]_<<queue, taken>>
=============================================================================
