--------------------------- MODULE EvtchnLifecycle ---------------------------
(***************************************************************************)
(* What the event-channel registry of XENIFACE (src/src/xeniface/ioctls.c) *)
(* promises about the life of one XENIFACE_EVTCHN_CONTEXT, seen from the   *)
(* notification DPCs that read it.                                         *)
(*                                                                         *)
(* A context is allocated and opened by a bind, taken off EvtchnList by    *)
(* IoctlEvtchnClose or XenIfaceCleanup, and freed by EvtchnFree.  Between  *)
(* open and free the interrupt handler may hand it to a per-CPU DPC, which *)
(* holds it until it has run.  The promise: a DPC takes only a context     *)
(* that is open or closing, and a context is freed only after it left the  *)
(* list and while no DPC holds it.  A freed context is never reused.       *)
(***************************************************************************)
CONSTANTS Chans   \* the context allocations

VARIABLES
    life,   \* life[c]: "unused", "open", "closing" or "freed"
    held    \* the contexts some queued or running DPC has as its argument

absVars == <<life, held>>

Lives == {"unused", "open", "closing", "freed"}

Init ==
    /\ life = [c \in Chans |-> "unused"]
    /\ held = {}

\* A bind allocates c and opens its channel.
Open(c) ==
    /\ life[c] = "unused"
    /\ life' = [life EXCEPT ![c] = "open"]
    /\ UNCHANGED held

\* Close unlinks one context, cleanup every context of a handle, all under
\* one hold of EvtchnLock.
Detach(S) ==
    /\ S # {}
    /\ \A c \in S : life[c] = "open"
    /\ life' = [c \in Chans |-> IF c \in S THEN "closing" ELSE life[c]]
    /\ UNCHANGED held

\* The interrupt handler queues a DPC with c as its argument.
Hold(c) ==
    /\ life[c] \in {"open", "closing"}
    /\ held' = held \cup {c}
    /\ UNCHANGED life

\* The last DPC that had c finishes with it.
Release(c) ==
    /\ c \in held
    /\ held' = held \ {c}
    /\ UNCHANGED life

\* EvtchnFree releases an unlinked context no DPC holds.
Free(c) ==
    /\ life[c] = "closing"
    /\ c \notin held
    /\ life' = [life EXCEPT ![c] = "freed"]
    /\ UNCHANGED held

Next ==
    \/ \E S \in SUBSET Chans : Detach(S)
    \/ \E c \in Chans : Open(c) \/ Hold(c) \/ Release(c) \/ Free(c)

Spec == Init /\ [][Next]_absVars

\* No DPC holds a freed context: what NoDpcAfterFree says of the driver.
HeldLive == \A c \in held : life[c] \in {"open", "closing"}

=============================================================================
