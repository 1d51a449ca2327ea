----------------------------- MODULE GnttabInv -----------------------------
(***************************************************************************)
(* The inductive invariant behind the safety properties of Gnttab in a    *)
(* checked build.  It says, for every slot state, exactly what the slot   *)
(* holds and which of its pages are shared, and ties a slot under         *)
(* construction to the one thread building it.                           *)
(***************************************************************************)
EXTENDS Gnttab

\* The pages of context c currently granted to the foreign domain.
SharedOf(c) == {p \in Pages : <<c, p>> \in shared}

\* What a grant context holds while its sharing loop runs.
BuildRes == {"ctx", "grants", "kva", "mdl"}

Building == {"pf_share", "mf_build"}

\* A context in the CSQ or handed to the work item is fully built and its
\* IRP not yet completed.
QueuedInv(c) ==
    /\ held[c] = FullRes(c)
    /\ SharedOf(c) = IF ctx[c].kind = "grant" THEN 0 .. (ctx[c].n - 1) ELSE {}
    /\ completions[c] = 0
    /\ ctx[c].n \in 1 .. MaxPages
    /\ ctx[c].proc \in Procs

CtxInv(c) ==
    /\ ctx[c].state \in {"unused", "freed"} => held[c] = {} /\ SharedOf(c) = {}
    /\ ctx[c].state = "unused" => completions[c] = 0
    /\ ctx[c].state = "freed" => completions[c] <= 1
    /\ ctx[c].state \in {"pending", "cancelling"} => QueuedInv(c)
    /\ ctx[c].state = "building" =>
           /\ completions[c] = 0
           /\ \E t \in Threads : pc[t] \in Building /\ cur[t] = c

\* A thread inside a build handler owns a context under construction.
ThreadInv(t) ==
    LET c == cur[t] IN
    /\ pc[t] = "pf_share" =>
           /\ ctx[c].state = "building" /\ ctx[c].kind = "grant"
           /\ ctx[c].proc \in Procs /\ ctx[c].n \in 1 .. MaxPages
           /\ held[c] = BuildRes
           /\ page[t] <= ctx[c].n
           /\ SharedOf(c) = 0 .. (page[t] - 1)
    /\ pc[t] = "mf_build" =>
           /\ ctx[c].state = "building" /\ ctx[c].kind = "map"
           /\ ctx[c].proc \in Procs /\ ctx[c].n \in 1 .. MaxPages
           /\ held[c] = {"ctx"}
           /\ SharedOf(c) = {}

\* No two threads build the same context.
BuildersDistinct ==
    \A t, u \in Threads :
        pc[t] \in Building /\ pc[u] \in Building /\ cur[t] = cur[u] => t = u

IInv ==
    /\ TypeOK
    /\ \A t \in Threads : pc[t] # "idle" => cur[t] \in Ctx
    /\ \A c \in Ctx : CtxInv(c)
    /\ \A t \in Threads : ThreadInv(t)
    /\ BuildersDistinct
    /\ UniquePending

=============================================================================
