---------------------------- MODULE GnttabRequests ----------------------------
(***************************************************************************)
(* What the grant-table ioctls of XENIFACE (src/src/xeniface/ioctls.c)     *)
(* promise a client about its requests, seen through the cancel-safe      *)
(* queue that parks their IRPs.                                            *)
(*                                                                         *)
(* A built request is parked under a key (process, request id, kind) that  *)
(* no parked request has.  It leaves the queue once: taken by its key      *)
(* (RevokeForeignAccess / UnmapForeignPages), which completes its IRP, or  *)
(* cancelled, after which the work item completes it.  An IRP is completed *)
(* exactly when its request leaves for good, and a request is parked once. *)
(***************************************************************************)
EXTENDS Naturals

CONSTANTS
    Ctx,    \* the request contexts
    Keys    \* the keys requests are found by

VARIABLES
    queue,      \* <<c, k>>: request c is parked under key k
    cancelled,  \* the requests cancelled whose IRP is not yet completed
    completed   \* completed[c]: times the IRP of request c was completed

reqVars == <<queue, cancelled, completed>>

Parked == {e[1] : e \in queue}

Init ==
    /\ queue = {}
    /\ cancelled = {}
    /\ completed = [c \in Ctx |-> 0]

\* IoCsqInsertIrpEx parks a new request under a key no parked request has.
Park(c, k) ==
    /\ c \notin Parked \cup cancelled
    /\ completed[c] = 0
    /\ \A e \in queue : e[2] # k
    /\ queue' = queue \cup {<<c, k>>}
    /\ UNCHANGED <<cancelled, completed>>

\* Revoke / Unmap removes the request parked under k and completes it.
Take(k) ==
    \E c \in Ctx :
        /\ <<c, k>> \in queue
        /\ queue' = queue \ {<<c, k>>}
        /\ completed' = [completed EXCEPT ![c] = @ + 1]
        /\ UNCHANGED cancelled

\* The I/O manager cancels a parked IRP; the queue lets go of it.
Cancel(c) ==
    \E k \in Keys :
        /\ <<c, k>> \in queue
        /\ queue' = queue \ {<<c, k>>}
        /\ cancelled' = cancelled \cup {c}
        /\ UNCHANGED completed

\* The work item completes a cancelled IRP.
Finish(c) ==
    /\ c \in cancelled
    /\ cancelled' = cancelled \ {c}
    /\ completed' = [completed EXCEPT ![c] = @ + 1]
    /\ UNCHANGED queue

Next ==
    \/ \E c \in Ctx, k \in Keys : Park(c, k)
    \/ \E k \in Keys : Take(k)
    \/ \E c \in Ctx : Cancel(c) \/ Finish(c)

Spec == Init /\ [][Next]_reqVars

\* The queue pairs requests with keys, and completions are counts.
TypeOK ==
    /\ queue \subseteq Ctx \X Keys
    /\ cancelled \subseteq Ctx
    /\ completed \in [Ctx -> Nat]

\* No two parked requests share a key, a request is parked under one key,
\* and no IRP is completed twice or while its request is still queued.
RequestsSound ==
    /\ \A e, f \in queue : (e[1] = f[1] \/ e[2] = f[2]) => e = f
    /\ Parked \cap cancelled = {}
    /\ \A c \in Ctx : /\ completed[c] <= 1
                      /\ c \in Parked \cup cancelled => completed[c] = 0

=============================================================================
