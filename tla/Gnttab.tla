------------------------------- MODULE Gnttab -------------------------------
(***************************************************************************)
(* The grant-table half of the XENIFACE interface driver                  *)
(* (src/src/xeniface/ioctls.c, split out as ioctl_gnttab.c): a client     *)
(* process shares N pages with a foreign domain (PermitForeignAccess) or   *)
(* maps N foreign pages (MapForeignPages).  The ioctl thread builds a      *)
(* context, then parks its IRP in the cancel-safe queue (CSQ) keyed by     *)
(* (process, request id, kind) and returns STATUS_PENDING.  The context    *)
(* is torn down exactly once: by RevokeForeignAccess / UnmapForeignPages,  *)
(* or by cancellation of the IRP, which hands it to the CompleteGnttabIrp  *)
(* work item.                                                              *)
(*                                                                         *)
(* Contexts are allocation slots (Ctx), each used at most once, so the    *)
(* number of contexts a behaviour can allocate is bounded by |Ctx|.       *)
(* A context's resources are the names of what it holds (held); the      *)
(* pages it has shared with the foreign domain are pairs <<c, page>> in   *)
(* shared.  The CSQ is the set of contexts in state "pending".            *)
(***************************************************************************)
EXTENDS Naturals, FiniteSets

CONSTANTS
    Procs,           \* client processes (the Id.Process of a context)
    System,          \* the process system worker threads run in
    Threads,         \* user threads issuing ioctls
    Owner,           \* Owner[t]: the process thread t belongs to
    RequestIds,      \* caller-chosen request ids
    Ctx,             \* context allocation slots (bound on allocations)
    NoCtx,           \* cur[t] of a thread that is building nothing
    MaxPages,        \* the upper bound on NumberPages (1024 * 1024 in the code)
    AssertEvaluates  \* TRUE in a checked build: ASSERT(e) evaluates e

ASSUME GnttabAssumption ==
    /\ Procs # {} /\ System \notin Procs
    /\ Owner \in [Threads -> Procs]
    /\ RequestIds # {}
    /\ Ctx # {} /\ NoCtx \notin Ctx
    /\ MaxPages \in Nat \ {0}
    /\ AssertEvaluates \in BOOLEAN

Kinds      == {"grant", "map"}
Pages      == 0 .. (MaxPages - 1)
PageCounts == 0 .. (MaxPages + 1)   \* NumberPages inputs, invalid ones included

\* What a grant context and a map context hold when fully built.
GrantRes == {"ctx", "grants", "kva", "mdl", "umap"}
MapRes   == {"ctx", "hvmap", "kmap", "mdl", "umap"}
Res      == GrantRes \cup MapRes

CtxStates == {"unused", "building", "pending", "cancelling", "freed"}
PcValues  == {"idle", "pf_share", "mf_build", "returning"}
Status    == {"none", "pending", "success", "invalid", "not_found", "error"}

CtxRec == [state : CtxStates, proc : Procs \cup {System},
           rid : RequestIds, kind : Kinds, n : 0 .. MaxPages]

VARIABLES
    ctx,          \* ctx[c]: the XENIFACE_GRANT_CONTEXT / XENIFACE_MAP_CONTEXT in slot c
    held,         \* held[c]: the resources slot c currently holds
    shared,       \* <<c, p>>: page p of context c is granted to the foreign domain
    completions,  \* completions[c]: times the IRP parked with context c was completed
    pc,           \* pc[t]: where thread t is in its ioctl
    cur,          \* cur[t]: the context thread t is building
    page,         \* page[t]: the loop counter Page of PermitForeignAccess
    ret           \* ret[t]: the status the last ioctl of thread t returned

vars == <<ctx, held, shared, completions, pc, cur, page, ret>>

-----------------------------------------------------------------------------
(* Helpers                                                                 *)

Key(c) == <<ctx[c].proc, ctx[c].rid, ctx[c].kind>>

\* The IRPs parked in the CSQ.
Csq == {c \in Ctx : ctx[c].state = "pending"}

\* FindGnttabIrp / CsqPeekNextIrp: the parked context with this key, if any.
FindGnttabIrp(key) == {c \in Csq : Key(c) = key}

\* Mutant: the insert callback accepts every IRP.
CsqInsertNeverFails(c) == FALSE

\* IoCsqInsertIrpEx fails when an IRP with the same id is already queued
\* (the CsqInsertIrp callback, irp_queue.c).
CsqInsertFails(c) == \E d \in Csq : Key(d) = Key(c)

FreeSlots == {c \in Ctx : ctx[c].state = "unused"}

\* The goto ladders at the end of the two build handlers: a failure jumps to
\* label lbl and falls through every label below it, releasing what each
\* releases.  A release written inside ASSERT(...) happens only in a
\* checked build.
GrantLadder ==
    << [lbl |-> 11, res |-> {"umap"}],
       [lbl |-> 8,  res |-> {"mdl"}],
       [lbl |-> 7,  res |-> {"kva"}],
       [lbl |-> 6,  res |-> {"grants"}],
       [lbl |-> 4,  res |-> {"ctx"}] >>

MapLadder ==
    << [lbl |-> 11, res |-> {"umap"}],
       [lbl |-> 9,  res |-> {"mdl"}],
       [lbl |-> 8,  res |-> {"kmap"}],
       [lbl |-> 7,  res |-> IF AssertEvaluates THEN {"hvmap"} ELSE {}],
       [lbl |-> 5,  res |-> {"ctx"}] >>

Released(ladder, lbl) ==
    UNION {ladder[i].res : i \in {j \in DOMAIN ladder : ladder[j].lbl <= lbl}}

\* Mutant: the unwinding loop revokes Grants[Page] instead of Grants[Page - 1].
UnwindRevokedOffByOne(c, k) ==
    IF AssertEvaluates THEN {<<c, p>> : p \in 1 .. k} ELSE {}

\* The loop at fail8: while (Page > 0) { ASSERT(Revoke(Grants[Page - 1])); --Page; }
UnwindRevoked(c, k) ==
    IF AssertEvaluates THEN {<<c, p - 1>> : p \in 1 .. k} ELSE {}

\* Unwind a failed grant build of c that holds acq and has shared k pages.
GrantUnwind(c, acq, lbl, k) ==
    /\ held' = [held EXCEPT ![c] = acq \ Released(GrantLadder, lbl)]
    /\ shared' = IF lbl >= 8 THEN shared \ UnwindRevoked(c, k) ELSE shared

MapUnwind(c, acq, lbl) ==
    /\ held' = [held EXCEPT ![c] = acq \ Released(MapLadder, lbl)]
    /\ UNCHANGED shared

\* The allocations after the id check, in order, and the label each failure
\* jumps to.
GrantAllocs    == <<"grants", "kva", "mdl">>
GrantAllocGoto == <<5, 6, 7>>
MapSteps       == <<"hvmap", "kmap", "mdl", "umap">>
MapStepGoto    == <<6, 7, 8, 9>>
Acquired(steps, i) == {"ctx"} \cup {steps[j] : j \in 1 .. (i - 1)}

\* MmUnmapLockedPages(UserVa) removes the owner's user mapping only when it
\* runs in the owner's address space.
UserUnmap(c, space) == IF space = ctx[c].proc THEN {"umap"} ELSE {}

\* GnttabFreeGrant: notify, unmap from user space, revoke every page (the
\* revoke is outside ASSERT), free Mdl, KernelVa, Grants and the context.
GnttabFreeGrant(c, space) ==
    /\ held' = [held EXCEPT ![c] = @ \ ({"ctx", "grants", "kva", "mdl"} \cup UserUnmap(c, space))]
    /\ shared' = shared \ {<<c, p>> : p \in 0 .. (ctx[c].n - 1)}
    /\ ctx' = [ctx EXCEPT ![c].state = "freed"]

\* GnttabFreeMap: notify, unmap user space, free Mdl, unmap kernel space,
\* undo the foreign mapping, free the context.
GnttabFreeMap(c, space) ==
    /\ held' = [held EXCEPT ![c] = @ \ ({"ctx", "mdl", "kmap", "hvmap"} \cup UserUnmap(c, space))]
    /\ ctx' = [ctx EXCEPT ![c].state = "freed"]
    /\ UNCHANGED shared

GnttabFree(c, space) ==
    IF ctx[c].kind = "grant" THEN GnttabFreeGrant(c, space) ELSE GnttabFreeMap(c, space)

Complete(c) == completions' = [completions EXCEPT ![c] = @ + 1]

Return(t, s) ==
    /\ pc' = [pc EXCEPT ![t] = "idle"]
    /\ ret' = [ret EXCEPT ![t] = s]

SetState(c, s) == ctx' = [ctx EXCEPT ![c].state = s]

-----------------------------------------------------------------------------
(* The specification                                                       *)

Init ==
    /\ ctx = [c \in Ctx |-> [state |-> "unused", proc |-> System,
                             rid |-> CHOOSE r \in RequestIds : TRUE,
                             kind |-> "grant", n |-> 0]]
    /\ held = [c \in Ctx |-> {}]
    /\ shared = {}
    /\ completions = [c \in Ctx |-> 0]
    /\ pc = [t \in Threads |-> "idle"]
    /\ cur = [t \in Threads |-> NoCtx]
    /\ page = [t \in Threads |-> 0]
    /\ ret = [t \in Threads |-> "none"]

\* A request rejected before any context exists (bad NumberPages, or the
\* context allocation fails).
Reject(t, s) ==
    /\ ret' = [ret EXCEPT ![t] = s]
    /\ UNCHANGED <<ctx, held, shared, completions, pc, cur, page>>

\* IoctlGnttabPermitForeignAccess up to the sharing loop: validate
\* NumberPages, allocate the context, reject an id already parked
\* (FindGnttabIrp), then allocate Grants, KernelVa and the Mdl.
PermitForeignAccess(t, rid, n) ==
    /\ pc[t] = "idle"
    /\ \/ n \notin 1 .. MaxPages /\ Reject(t, "invalid")
       \/ n \in 1 .. MaxPages /\ Reject(t, "error")
       \/ /\ n \in 1 .. MaxPages
          /\ FindGnttabIrp(<<Owner[t], rid, "grant">>) # {}
          /\ Reject(t, "invalid")
       \/ /\ n \in 1 .. MaxPages
          /\ \E c \in FreeSlots :
              LET new == [state |-> "building", proc |-> Owner[t], rid |-> rid,
                          kind |-> "grant", n |-> n]
              IN
              \/ /\ FindGnttabIrp(<<Owner[t], rid, "grant">>) = {}
                 /\ \E i \in DOMAIN GrantAllocs :
                      /\ ctx' = [ctx EXCEPT ![c] = [new EXCEPT !.state = "freed"]]
                      /\ GrantUnwind(c, Acquired(GrantAllocs, i), GrantAllocGoto[i], 0)
                      /\ ret' = [ret EXCEPT ![t] = "error"]
                      /\ UNCHANGED <<completions, pc, cur, page>>
              \/ /\ FindGnttabIrp(<<Owner[t], rid, "grant">>) = {}
                 /\ ctx' = [ctx EXCEPT ![c] = new]
                 /\ held' = [held EXCEPT ![c] = {"ctx", "grants", "kva", "mdl"}]
                 /\ pc' = [pc EXCEPT ![t] = "pf_share"]
                 /\ cur' = [cur EXCEPT ![t] = c]
                 /\ page' = [page EXCEPT ![t] = 0]
                 /\ UNCHANGED <<shared, completions, ret>>

\* Mutants of the loop condition Page < NumberPages.
SharingLoopPastEnd(t) == page[t] <= ctx[cur[t]].n
SharingLoopStopsEarly(t) == page[t] + 1 < ctx[cur[t]].n

\* for (Page = 0; Page < Context->NumberPages; Page++)
SharingLoopRuns(t) == page[t] < ctx[cur[t]].n

\* One turn of the sharing loop: XENBUS_GNTTAB(PermitForeignAccess) for
\* page Page; on failure goto fail8.
PermitShare(t) ==
    LET c == cur[t] IN
    /\ pc[t] = "pf_share"
    /\ SharingLoopRuns(t)
    /\ \/ /\ shared' = shared \cup {<<c, page[t]>>}
          /\ page' = [page EXCEPT ![t] = @ + 1]
          /\ UNCHANGED <<ctx, held, completions, pc, cur, ret>>
       \/ /\ GrantUnwind(c, held[c], 8, page[t])
          /\ SetState(c, "freed")
          /\ Return(t, "error")
          /\ UNCHANGED <<completions, cur, page>>

\* After the loop: map the buffer into user space, then IoCsqInsertIrpEx,
\* which checks the id again; return STATUS_PENDING.
PermitQueue(t) ==
    LET c == cur[t] IN
    /\ pc[t] = "pf_share"
    /\ ~SharingLoopRuns(t)
    /\ \/ /\ GrantUnwind(c, held[c], 9, page[t])      \* user mapping fails
          /\ SetState(c, "freed")
          /\ Return(t, "error")
       \/ /\ CsqInsertFails(c)                        \* duplicate id raced in
          /\ GrantUnwind(c, held[c] \cup {"umap"}, 11, page[t])
          /\ SetState(c, "freed")
          /\ Return(t, "invalid")
       \/ /\ ~CsqInsertFails(c)
          /\ held' = [held EXCEPT ![c] = @ \cup {"umap"}]
          /\ SetState(c, "pending")
          /\ pc' = [pc EXCEPT ![t] = "returning"]
          /\ UNCHANGED <<shared, ret>>
    /\ UNCHANGED <<completions, cur, page>>

\* IoctlGnttabMapForeignPages up to the id check.
MapForeignPages(t, rid, n) ==
    /\ pc[t] = "idle"
    /\ \/ n \notin 1 .. MaxPages /\ Reject(t, "invalid")
       \/ n \in 1 .. MaxPages /\ Reject(t, "error")
       \/ /\ n \in 1 .. MaxPages
          /\ FindGnttabIrp(<<Owner[t], rid, "map">>) # {}
          /\ Reject(t, "invalid")
       \/ /\ n \in 1 .. MaxPages
          /\ \E c \in FreeSlots :
              LET new == [state |-> "building", proc |-> Owner[t], rid |-> rid,
                          kind |-> "map", n |-> n]
              IN
              \/ /\ FindGnttabIrp(<<Owner[t], rid, "map">>) = {}
                 /\ ctx' = [ctx EXCEPT ![c] = new]
                 /\ held' = [held EXCEPT ![c] = {"ctx"}]
                 /\ pc' = [pc EXCEPT ![t] = "mf_build"]
                 /\ cur' = [cur EXCEPT ![t] = c]
                 /\ UNCHANGED <<shared, completions, page, ret>>

\* The rest of IoctlGnttabMapForeignPages: XENBUS_GNTTAB(MapForeignPages),
\* MmMapIoSpace, IoAllocateMdl, the user mapping, then IoCsqInsertIrpEx.
MapQueue(t) ==
    LET c == cur[t] IN
    /\ pc[t] = "mf_build"
    /\ \/ \E i \in DOMAIN MapSteps :
            /\ MapUnwind(c, Acquired(MapSteps, i), MapStepGoto[i])
            /\ SetState(c, "freed")
            /\ Return(t, "error")
       \/ /\ CsqInsertFails(c)
          /\ MapUnwind(c, MapRes, 11)
          /\ SetState(c, "freed")
          /\ Return(t, "invalid")
       \/ /\ ~CsqInsertFails(c)
          /\ held' = [held EXCEPT ![c] = MapRes]
          /\ SetState(c, "pending")
          /\ pc' = [pc EXCEPT ![t] = "returning"]
          /\ UNCHANGED <<shared, ret>>
    /\ UNCHANGED <<completions, cur, page>>

\* XenIfaceIoctl after the handler returned STATUS_PENDING: it stores the
\* status into Irp->IoStatus.Status.
DispatchReturn(t) ==
    /\ pc[t] = "returning"
    /\ Return(t, "pending")
    /\ UNCHANGED <<ctx, held, shared, completions, cur, page>>

\* IoctlGnttabGetGrantResult / IoctlGnttabGetMapResult: peek under the CSQ
\* lock; a grant result also fails when OutLen does not match NumberPages.
GetResult(t, rid, kind) ==
    /\ pc[t] = "idle"
    /\ \/ /\ FindGnttabIrp(<<Owner[t], rid, kind>>) # {}
          /\ \/ ret' = [ret EXCEPT ![t] = "success"]
             \/ kind = "grant" /\ ret' = [ret EXCEPT ![t] = "invalid"]
       \/ /\ FindGnttabIrp(<<Owner[t], rid, kind>>) = {}
          /\ ret' = [ret EXCEPT ![t] = "not_found"]
    /\ UNCHANGED <<ctx, held, shared, completions, pc, cur, page>>

\* IoctlGnttabRevokeForeignAccess / IoctlGnttabUnmapForeignPages:
\* IoCsqRemoveNextIrp, tear the context down in the caller's address
\* space, complete the parked IRP with STATUS_SUCCESS.
Release(t, rid, kind) ==
    /\ pc[t] = "idle"
    /\ \/ \E c \in FindGnttabIrp(<<Owner[t], rid, kind>>) :
            /\ GnttabFree(c, Owner[t])
            /\ Complete(c)
            /\ ret' = [ret EXCEPT ![t] = "success"]
       \/ /\ FindGnttabIrp(<<Owner[t], rid, kind>>) = {}
          /\ ret' = [ret EXCEPT ![t] = "not_found"]
          /\ UNCHANGED <<ctx, held, shared, completions>>
    /\ UNCHANGED <<pc, cur, page>>

\* Mutant: the cancel routine stays armed after the IRP left the queue, so
\* an IRP that Revoke/Unmap already removed and completed can be cancelled.
CancelAfterRemove(c) ==
    /\ ctx[c].state \in {"pending", "freed"}
    /\ SetState(c, "cancelling")
    /\ UNCHANGED <<held, shared, completions, pc, cur, page, ret>>

\* The I/O manager cancels a parked IRP (CancelIo, thread or process exit):
\* the CSQ removes it under its lock and CsqCompleteCanceledIrp queues the
\* CompleteGnttabIrp work item (irp_queue.c).
CancelIrp(c) ==
    /\ ctx[c].state = "pending"
    /\ SetState(c, "cancelling")
    /\ UNCHANGED <<held, shared, completions, pc, cur, page, ret>>

\* Mutant: the work item frees the context but never completes the IRP.
CompleteWithoutIoComplete(c) ==
    LET changeProcess == System # ctx[c].proc
        space == IF changeProcess THEN ctx[c].proc ELSE System
    IN
    /\ ctx[c].state = "cancelling"
    /\ GnttabFree(c, space)
    /\ UNCHANGED <<completions, pc, cur, page, ret>>

\* CompleteGnttabIrp: runs in a system worker thread; attaches to the owning
\* process when it is not already there, frees, completes STATUS_CANCELLED.
CompleteGnttabIrp(c) ==
    LET changeProcess == System # ctx[c].proc
        space == IF changeProcess THEN ctx[c].proc ELSE System
    IN
    /\ ctx[c].state = "cancelling"
    /\ GnttabFree(c, space)
    /\ Complete(c)
    /\ UNCHANGED <<pc, cur, page, ret>>

Next ==
    \/ \E t \in Threads :
        \/ \E r \in RequestIds, n \in PageCounts :
              PermitForeignAccess(t, r, n) \/ MapForeignPages(t, r, n)
        \/ PermitShare(t) \/ PermitQueue(t) \/ MapQueue(t) \/ DispatchReturn(t)
        \/ \E r \in RequestIds, k \in Kinds : GetResult(t, r, k) \/ Release(t, r, k)
    \/ \E c \in Ctx : CancelIrp(c) \/ CompleteGnttabIrp(c)

\* A thread inside the driver keeps running, and system worker threads run
\* queued work items; the client's own requests and cancellations are not
\* forced.
Fairness ==
    /\ \A t \in Threads :
        WF_vars(PermitShare(t) \/ PermitQueue(t) \/ MapQueue(t) \/ DispatchReturn(t))
    /\ \A c \in Ctx : WF_vars(CompleteGnttabIrp(c))

Spec == Init /\ [][Next]_vars /\ Fairness

-----------------------------------------------------------------------------
(* Properties                                                              *)

TypeOK ==
    /\ ctx \in [Ctx -> CtxRec]
    /\ held \in [Ctx -> SUBSET Res]
    /\ shared \subseteq Ctx \X Pages
    /\ completions \in [Ctx -> Nat]
    /\ pc \in [Threads -> PcValues]
    /\ cur \in [Threads -> Ctx \cup {NoCtx}]
    /\ page \in [Threads -> 0 .. MaxPages]
    /\ ret \in [Threads -> Status]

\* Spec 3: a context is reachable through its request id only once it is
\* fully built: every resource acquired and, for a grant, every page shared.
FullRes(c) == IF ctx[c].kind = "grant" THEN GrantRes ELSE MapRes
PendingFullyBuilt ==
    \A c \in Csq :
        /\ held[c] = FullRes(c)
        /\ ctx[c].kind = "grant" => \A p \in 0 .. (ctx[c].n - 1) : <<c, p>> \in shared

\* Spec 1, 3 and 7: no exit path leaks.  A context that no longer exists
\* holds nothing and has no page still shared with the foreign domain.
NoLeak ==
    \A c \in Ctx : ctx[c].state \in {"unused", "freed"} =>
        /\ held[c] = {}
        /\ \A p \in Pages : <<c, p>> \notin shared

\* Spec 3 and 4.1: the check in FindGnttabIrp and the insertion are separate
\* steps, so two threads of one process can race with the same id; the CSQ
\* insertion re-check must keep request ids unique among parked IRPs.
UniquePending ==
    \A c, d \in Csq : Key(c) = Key(d) => c = d

\* Spec 4.1 and 5: a Revoke/Unmap racing the cancellation of the same IRP:
\* exactly one of them tears the context down and completes the IRP.
CompletedOnce ==
    \A c \in Ctx :
        /\ completions[c] <= 1
        /\ ctx[c].state # "freed" => completions[c] = 0

\* Action property.  XenIfaceIoctl stores STATUS_PENDING into the IRP only
\* while the IRP is still its own: no Revoke/Unmap or cancellation may have
\* completed it (and the I/O manager freed it) before the dispatch routine
\* writes Irp->IoStatus.Status.
IrpWrittenBeforeCompletion ==
    [][\A t \in Threads :
         pc[t] = "returning" /\ pc'[t] = "idle" => completions[cur[t]] = 0]_vars


-----------------------------------------------------------------------------
(* Refinement of GnttabRequests                                            *)

\* The parked IRPs with their keys, the cancelled ones whose work item has
\* not yet run, and the completion counts.
ReqQueue     == {<<c, Key(c)>> : c \in Csq}
ReqCancelled == {c \in Ctx : ctx[c].state = "cancelling"}

Req == INSTANCE GnttabRequests
         WITH Keys <- (Procs \cup {System}) \X RequestIds \X Kinds,
              queue <- ReqQueue, cancelled <- ReqCancelled, completed <- completions

\* The handlers implement GnttabRequests: IoCsqInsertIrpEx parks a built
\* context only under a fresh key; Revoke/Unmap take the IRP of a key and
\* complete it; a cancelled IRP is completed by CompleteGnttabIrp; no other
\* step touches the queue or a completion, in a checked or a free build.
RequestsRefined == Req!Spec

=============================================================================
