------------------------------ MODULE MCGnttab ------------------------------
(* Instance of Gnttab for TLC: two client processes, p1 with two threads   *)
(* that can race on one request id, p2 with one thread; two context        *)
(* slots; NumberPages up to 2.                                             *)
EXTENDS Gnttab, TLC

CONSTANTS p1, p2, t1, t2, t3, c1, c2

MCOwner == [t \in Threads |-> IF t = t3 THEN p2 ELSE p1]

\* Slots are interchangeable, and so are the two threads of p1.
MCSymmetry == Permutations(Ctx) \cup Permutations({t1, t2})

=============================================================================
