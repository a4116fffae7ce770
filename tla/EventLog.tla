------------------------------ MODULE EventLog ------------------------------
(***************************************************************************)
(* What HACEP promises of the session of one group: the facts inserted     *)
(* into it form a log that only grows, by one fact at a time, and that has *)
(* no fact twice, whatever happens to the nodes that keep it.              *)
(***************************************************************************)
EXTENDS Sequences

CONSTANT Facts

VARIABLE log

Init == log = <<>>

Insert(f) ==
    /\ \A i \in DOMAIN log : log[i] # f
    /\ log' = Append(log, f)

Next == \E f \in Facts : Insert(f)

Spec == Init /\ [][Next]_log
=============================================================================
