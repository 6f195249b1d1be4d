----------------------------- MODULE SpecShelf -----------------------------
(* What specs/ promises its readers, with upstreams, retries and the writing  *)
(* of a file taken away: "append-only: a snapshot is never rewritten".  A     *)
(* file that is on the shelf stays there as it is; one that was damaged while *)
(* it was put there stays damaged, and damage is never without a fault.       *)
EXTENDS Naturals

CONSTANT Files

VARIABLES
    shelf,      \* each file: absent, whole or damaged
    mishaps     \* the faults so far

vars == <<shelf, mishaps>>

Init == shelf = [f \in Files |-> "absent"] /\ mishaps = 0

Put(f, how) == shelf[f] = "absent" /\ shelf' = [shelf EXCEPT ![f] = how]

Add == (\E f \in Files : Put(f, "whole")) /\ UNCHANGED mishaps

Damage == (\E f \in Files : Put(f, "damaged")) /\ mishaps' = mishaps + 1

Mishap == mishaps' = mishaps + 1 /\ UNCHANGED shelf

Next == Add \/ Damage \/ Mishap

Spec == Init /\ [][Next]_vars
=============================================================================
