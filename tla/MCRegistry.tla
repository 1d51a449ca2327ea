----------------------------- MODULE MCRegistry -----------------------------
(* Instances of Registry for TLC.  Threads, file objects, contexts, CPUs   *)
(* and ports are model values.                                             *)
EXTENDS Registry, TLC

CONSTANTS t1, t2, f1, f2, c1, c2, w1, w2, p1, p2, q1, q2

\* Contexts, watches, CPUs, ports and threads are interchangeable.
MCSymmetry == Permutations(Chans) \cup Permutations(Watches) \cup Permutations(Cpus)
              \cup Permutations(Ports) \cup Permutations(Threads)

=============================================================================
