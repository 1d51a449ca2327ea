---------------------------- MODULE GnttabProofs ----------------------------
(***************************************************************************)
(* Machine-checked proofs about the grant-table model Gnttab.              *)
(***************************************************************************)
EXTENDS Gnttab, TLAPS

\* TypeOK is not inductive on its own: a thread inside a build handler
\* indexes ctx with cur[t], so cur[t] must then be a slot.
TypeInv ==
    /\ TypeOK
    /\ \A t \in Threads : pc[t] # "idle" => cur[t] \in Ctx

\* The initial state is well typed.
LEMMA InitTypeInv == Init => TypeInv
<1> SUFFICES ASSUME Init PROVE TypeInv
  OBVIOUS
<1>1. (CHOOSE r \in RequestIds : TRUE) \in RequestIds
  BY GnttabAssumption
<1>2. ctx \in [Ctx -> CtxRec]
  BY <1>1, GnttabAssumption DEF Init, CtxRec, CtxStates, Kinds
<1>3. QED
  BY <1>2, GnttabAssumption DEF Init, TypeInv, TypeOK, PcValues, Status

\* The unwinding of a failed build and the teardown only ever shrink what
\* a slot holds and what is shared, so they keep the types of held and shared.
LEMMA GrantUnwindType ==
    ASSUME TypeOK, NEW c \in Ctx, NEW acq \in SUBSET Res, NEW lbl \in Nat, NEW k,
           GrantUnwind(c, acq, lbl, k)
    PROVE  held' \in [Ctx -> SUBSET Res] /\ shared' \subseteq shared
<1>1. held' \in [Ctx -> SUBSET Res]
  BY DEF GrantUnwind, TypeOK
<1>2. shared' \subseteq shared
  BY DEF GrantUnwind
<1>3. QED
  BY <1>1, <1>2

\* Unwinding a map build keeps held and shared well typed.
LEMMA MapUnwindType ==
    ASSUME TypeOK, NEW c \in Ctx, NEW acq \in SUBSET Res, NEW lbl,
           MapUnwind(c, acq, lbl)
    PROVE  held' \in [Ctx -> SUBSET Res] /\ shared' = shared
BY DEF MapUnwind, TypeOK

\* GnttabFreeGrant and GnttabFreeMap keep held and shared well typed.
LEMMA GnttabFreeType ==
    ASSUME TypeOK, NEW c \in Ctx, NEW space, GnttabFree(c, space)
    PROVE  /\ ctx' \in [Ctx -> CtxRec]
           /\ held' \in [Ctx -> SUBSET Res]
           /\ shared' \subseteq shared
<1>1. CASE ctx[c].kind = "grant"
  <2>1. GnttabFreeGrant(c, space)
    BY <1>1 DEF GnttabFree
  <2>2. ctx' \in [Ctx -> CtxRec]
    BY <2>1 DEF GnttabFreeGrant, TypeOK, CtxRec, CtxStates
  <2>3. held' \in [Ctx -> SUBSET Res]
    BY <2>1 DEF GnttabFreeGrant, TypeOK
  <2>4. QED
    BY <2>1, <2>2, <2>3 DEF GnttabFreeGrant
<1>2. CASE ctx[c].kind # "grant"
  <2>1. GnttabFreeMap(c, space)
    BY <1>2 DEF GnttabFree
  <2>2. ctx' \in [Ctx -> CtxRec]
    BY <2>1 DEF GnttabFreeMap, TypeOK, CtxRec, CtxStates
  <2>3. held' \in [Ctx -> SUBSET Res]
    BY <2>1 DEF GnttabFreeMap, TypeOK
  <2>4. QED
    BY <2>1, <2>2, <2>3 DEF GnttabFreeMap
<1>3. QED
  BY <1>1, <1>2


\* A rejection changes only ret.
LEMMA RejectType ==
    ASSUME TypeInv, NEW t \in Threads, NEW st \in Status, Reject(t, st)
    PROVE  TypeInv'
BY DEF Reject, TypeInv, TypeOK

\* IoctlGnttabPermitForeignAccess up to the sharing loop is well typed.
LEMMA PermitForeignAccessType ==
    ASSUME TypeInv, NEW t \in Threads, NEW r \in RequestIds, NEW n \in PageCounts,
           PermitForeignAccess(t, r, n)
    PROVE  TypeInv'
<1> USE GnttabAssumption
<1> DEFINE new == [state |-> "building", proc |-> Owner[t], rid |-> r,
                   kind |-> "grant", n |-> n]
<1>1. CASE \E st \in Status : Reject(t, st)
  BY <1>1, RejectType
<1>2. CASE /\ n \in 1 .. MaxPages
           /\ \E c \in FreeSlots :
                /\ \E i \in DOMAIN GrantAllocs :
                     /\ ctx' = [ctx EXCEPT ![c] = [new EXCEPT !.state = "freed"]]
                     /\ GrantUnwind(c, Acquired(GrantAllocs, i), GrantAllocGoto[i], 0)
                     /\ ret' = [ret EXCEPT ![t] = "error"]
                     /\ UNCHANGED <<completions, pc, cur, page>>
  <2>1. PICK c \in FreeSlots, i \in DOMAIN GrantAllocs :
                     /\ ctx' = [ctx EXCEPT ![c] = [new EXCEPT !.state = "freed"]]
                     /\ GrantUnwind(c, Acquired(GrantAllocs, i), GrantAllocGoto[i], 0)
                     /\ ret' = [ret EXCEPT ![t] = "error"]
                     /\ UNCHANGED <<completions, pc, cur, page>>
    BY <1>2
  <2>2. c \in Ctx /\ i \in 1 .. 3
    BY DEF FreeSlots, GrantAllocs
  <2>3. Acquired(GrantAllocs, i) \in SUBSET Res /\ GrantAllocGoto[i] \in Nat
    BY <2>2 DEF Acquired, GrantAllocs, GrantAllocGoto, Res, GrantRes, MapRes
  <2>4. held' \in [Ctx -> SUBSET Res] /\ shared' \subseteq shared
    BY <2>1, <2>2, <2>3, GrantUnwindType DEF TypeInv
  <2>5. [new EXCEPT !.state = "freed"] \in CtxRec
    <3>1. Owner[t] \in Procs /\ n \in 0 .. MaxPages
      BY <1>2
    <3>2. [new EXCEPT !.state = "freed"]
            = [state |-> "freed", proc |-> Owner[t], rid |-> r, kind |-> "grant", n |-> n]
      OBVIOUS
    <3>3. QED
      BY <3>1, <3>2 DEF CtxRec, CtxStates, Kinds
  <2>6. ctx' \in [Ctx -> CtxRec]
    BY <2>1, <2>2, <2>5 DEF TypeInv, TypeOK
  <2>7. QED
    BY <2>1, <2>4, <2>6 DEF TypeInv, TypeOK, Status
<1>3. CASE /\ n \in 1 .. MaxPages
           /\ \E c \in FreeSlots :
                /\ ctx' = [ctx EXCEPT ![c] = new]
                /\ held' = [held EXCEPT ![c] = {"ctx", "grants", "kva", "mdl"}]
                /\ pc' = [pc EXCEPT ![t] = "pf_share"]
                /\ cur' = [cur EXCEPT ![t] = c]
                /\ page' = [page EXCEPT ![t] = 0]
                /\ UNCHANGED <<shared, completions, ret>>
  <2>1. PICK c \in FreeSlots :
                /\ ctx' = [ctx EXCEPT ![c] = new]
                /\ held' = [held EXCEPT ![c] = {"ctx", "grants", "kva", "mdl"}]
                /\ pc' = [pc EXCEPT ![t] = "pf_share"]
                /\ cur' = [cur EXCEPT ![t] = c]
                /\ page' = [page EXCEPT ![t] = 0]
                /\ UNCHANGED <<shared, completions, ret>>
    BY <1>3
  <2>2. c \in Ctx
    BY DEF FreeSlots
  <2>3. ctx' \in [Ctx -> CtxRec]
    BY <1>3, <2>1, <2>2 DEF TypeInv, TypeOK, CtxRec, CtxStates, Kinds
  <2>4. held' \in [Ctx -> SUBSET Res]
    BY <2>1, <2>2 DEF TypeInv, TypeOK, Res, GrantRes
  <2>5. pc' \in [Threads -> PcValues] /\ cur' \in [Threads -> Ctx \cup {NoCtx}]
        /\ page' \in [Threads -> 0 .. MaxPages]
    BY <2>1, <2>2 DEF TypeInv, TypeOK, PcValues
  <2>6. \A u \in Threads : pc'[u] # "idle" => cur'[u] \in Ctx
    BY <2>1, <2>2 DEF TypeInv, TypeOK
  <2>7. QED
    BY <2>1, <2>3, <2>4, <2>5, <2>6 DEF TypeInv, TypeOK
<1>4. QED
  <2>1. \/ \E st \in Status : Reject(t, st)
        \/ /\ n \in 1 .. MaxPages
           /\ \E c \in FreeSlots :
                /\ \E i \in DOMAIN GrantAllocs :
                     /\ ctx' = [ctx EXCEPT ![c] = [new EXCEPT !.state = "freed"]]
                     /\ GrantUnwind(c, Acquired(GrantAllocs, i), GrantAllocGoto[i], 0)
                     /\ ret' = [ret EXCEPT ![t] = "error"]
                     /\ UNCHANGED <<completions, pc, cur, page>>
        \/ /\ n \in 1 .. MaxPages
           /\ \E c \in FreeSlots :
                /\ ctx' = [ctx EXCEPT ![c] = new]
                /\ held' = [held EXCEPT ![c] = {"ctx", "grants", "kva", "mdl"}]
                /\ pc' = [pc EXCEPT ![t] = "pf_share"]
                /\ cur' = [cur EXCEPT ![t] = c]
                /\ page' = [page EXCEPT ![t] = 0]
                /\ UNCHANGED <<shared, completions, ret>>
    BY Zenon DEF PermitForeignAccess, Status
  <2>2. QED
    BY <2>1, <1>1, <1>2, <1>3


\* IoctlGnttabMapForeignPages up to the context allocation is well typed.
LEMMA MapForeignPagesType ==
    ASSUME TypeInv, NEW t \in Threads, NEW r \in RequestIds, NEW n \in PageCounts,
           MapForeignPages(t, r, n)
    PROVE  TypeInv'
<1> USE GnttabAssumption
<1> DEFINE new == [state |-> "building", proc |-> Owner[t], rid |-> r,
                   kind |-> "map", n |-> n]
<1>1. CASE \E st \in Status : Reject(t, st)
  BY <1>1, RejectType
<1>2. CASE /\ n \in 1 .. MaxPages
           /\ \E c \in FreeSlots :
                /\ ctx' = [ctx EXCEPT ![c] = new]
                /\ held' = [held EXCEPT ![c] = {"ctx"}]
                /\ pc' = [pc EXCEPT ![t] = "mf_build"]
                /\ cur' = [cur EXCEPT ![t] = c]
                /\ UNCHANGED <<shared, completions, page, ret>>
  <2>1. PICK c \in FreeSlots :
                /\ ctx' = [ctx EXCEPT ![c] = new]
                /\ held' = [held EXCEPT ![c] = {"ctx"}]
                /\ pc' = [pc EXCEPT ![t] = "mf_build"]
                /\ cur' = [cur EXCEPT ![t] = c]
                /\ UNCHANGED <<shared, completions, page, ret>>
    BY <1>2
  <2>2. c \in Ctx
    BY DEF FreeSlots
  <2>3. ctx' \in [Ctx -> CtxRec]
    BY <1>2, <2>1, <2>2 DEF TypeInv, TypeOK, CtxRec, CtxStates, Kinds
  <2>4. held' \in [Ctx -> SUBSET Res]
    BY <2>1, <2>2 DEF TypeInv, TypeOK, Res, GrantRes
  <2>5. pc' \in [Threads -> PcValues] /\ cur' \in [Threads -> Ctx \cup {NoCtx}]
    BY <2>1, <2>2 DEF TypeInv, TypeOK, PcValues
  <2>6. \A u \in Threads : pc'[u] # "idle" => cur'[u] \in Ctx
    BY <2>1, <2>2 DEF TypeInv, TypeOK
  <2>7. QED
    BY <2>1, <2>3, <2>4, <2>5, <2>6 DEF TypeInv, TypeOK
<1>3. QED
  <2>1. \/ \E st \in Status : Reject(t, st)
        \/ /\ n \in 1 .. MaxPages
           /\ \E c \in FreeSlots :
                /\ ctx' = [ctx EXCEPT ![c] = new]
                /\ held' = [held EXCEPT ![c] = {"ctx"}]
                /\ pc' = [pc EXCEPT ![t] = "mf_build"]
                /\ cur' = [cur EXCEPT ![t] = c]
                /\ UNCHANGED <<shared, completions, page, ret>>
    BY Zenon DEF MapForeignPages, Status
  <2>2. QED
    BY <2>1, <1>1, <1>2

\* Freeing a slot while a thread returns: only the state field of ctx changes.
LEMMA SetStateType ==
    ASSUME TypeOK, NEW c \in Ctx, NEW st \in CtxStates, SetState(c, st)
    PROVE  ctx' \in [Ctx -> CtxRec]
BY DEF SetState, TypeOK, CtxRec

\* A turn of the sharing loop, or its failure, is well typed.
LEMMA PermitShareType ==
    ASSUME TypeInv, NEW t \in Threads, PermitShare(t)
    PROVE  TypeInv'
<1> USE GnttabAssumption
<1> DEFINE c == cur[t]
<1>1. c \in Ctx /\ pc[t] = "pf_share" /\ page[t] < ctx[c].n
  BY DEF PermitShare, SharingLoopRuns, TypeInv
<1>2. page[t] \in Pages /\ page[t] + 1 \in 0 .. MaxPages
  BY <1>1 DEF TypeInv, TypeOK, CtxRec, Pages
<1>3. CASE /\ shared' = shared \cup {<<c, page[t]>>}
           /\ page' = [page EXCEPT ![t] = @ + 1]
           /\ UNCHANGED <<ctx, held, completions, pc, cur, ret>>
  BY <1>1, <1>2, <1>3 DEF TypeInv, TypeOK
<1>4. CASE /\ GrantUnwind(c, held[c], 8, page[t])
           /\ SetState(c, "freed")
           /\ Return(t, "error")
           /\ UNCHANGED <<completions, cur, page>>
  <2>1. held' \in [Ctx -> SUBSET Res] /\ shared' \subseteq shared
    BY <1>1, <1>4, GrantUnwindType DEF TypeInv, TypeOK
  <2>2. ctx' \in [Ctx -> CtxRec]
    BY <1>1, <1>4, SetStateType DEF TypeInv, CtxStates
  <2>3. QED
    BY <1>1, <1>4, <2>1, <2>2 DEF TypeInv, TypeOK, Return, PcValues, Status
<1>5. QED
  BY <1>3, <1>4 DEF PermitShare

\* The end of a grant build is well typed.
LEMMA PermitQueueType ==
    ASSUME TypeInv, NEW t \in Threads, PermitQueue(t)
    PROVE  TypeInv'
<1> USE GnttabAssumption
<1> DEFINE c == cur[t]
<1>1. c \in Ctx /\ pc[t] = "pf_share" /\ UNCHANGED <<completions, cur, page>>
  BY DEF PermitQueue, TypeInv
<1>2. held[c] \cup {"umap"} \in SUBSET Res
  BY <1>1 DEF TypeInv, TypeOK, Res, GrantRes
<1>3. CASE /\ \/ GrantUnwind(c, held[c], 9, page[t])
              \/ GrantUnwind(c, held[c] \cup {"umap"}, 11, page[t])
           /\ SetState(c, "freed")
           /\ \E st \in Status : Return(t, st)
  <2>1. held' \in [Ctx -> SUBSET Res] /\ shared' \subseteq shared
    BY <1>1, <1>2, <1>3, GrantUnwindType DEF TypeInv, TypeOK
  <2>2. ctx' \in [Ctx -> CtxRec]
    BY <1>1, <1>3, SetStateType DEF TypeInv, CtxStates
  <2>3. QED
    BY <1>1, <1>3, <2>1, <2>2 DEF TypeInv, TypeOK, Return, PcValues
<1>4. CASE /\ held' = [held EXCEPT ![c] = @ \cup {"umap"}]
           /\ SetState(c, "pending")
           /\ pc' = [pc EXCEPT ![t] = "returning"]
           /\ UNCHANGED <<shared, ret>>
  <2>1. ctx' \in [Ctx -> CtxRec]
    BY <1>1, <1>4, SetStateType DEF TypeInv, CtxStates
  <2>2. QED
    BY <1>1, <1>2, <1>4, <2>1 DEF TypeInv, TypeOK, PcValues
<1>5. QED
  BY <1>3, <1>4 DEF PermitQueue, Status


\* The end of a map build is well typed.
LEMMA MapQueueType ==
    ASSUME TypeInv, NEW t \in Threads, MapQueue(t)
    PROVE  TypeInv'
<1> USE GnttabAssumption
<1> DEFINE c == cur[t]
<1>1. c \in Ctx /\ pc[t] = "mf_build" /\ UNCHANGED <<completions, cur, page>>
  BY DEF MapQueue, TypeInv
<1>2. MapRes \in SUBSET Res
  BY DEF Res
<1>3. CASE /\ \/ \E i \in DOMAIN MapSteps : MapUnwind(c, Acquired(MapSteps, i), MapStepGoto[i])
              \/ MapUnwind(c, MapRes, 11)
           /\ SetState(c, "freed")
           /\ \E st \in Status : Return(t, st)
  <2>1. \A i \in DOMAIN MapSteps : Acquired(MapSteps, i) \in SUBSET Res
    BY DEF MapSteps, Acquired, Res, MapRes
  <2>2. held' \in [Ctx -> SUBSET Res] /\ shared' = shared
    BY <1>1, <1>2, <1>3, <2>1, MapUnwindType DEF TypeInv
  <2>3. ctx' \in [Ctx -> CtxRec]
    BY <1>1, <1>3, SetStateType DEF TypeInv, CtxStates
  <2>4. QED
    BY <1>1, <1>3, <2>2, <2>3 DEF TypeInv, TypeOK, Return, PcValues
<1>4. CASE /\ held' = [held EXCEPT ![c] = MapRes]
           /\ SetState(c, "pending")
           /\ pc' = [pc EXCEPT ![t] = "returning"]
           /\ UNCHANGED <<shared, ret>>
  <2>1. ctx' \in [Ctx -> CtxRec]
    BY <1>1, <1>4, SetStateType DEF TypeInv, CtxStates
  <2>2. QED
    BY <1>1, <1>2, <1>4, <2>1 DEF TypeInv, TypeOK, PcValues
<1>5. QED
  BY <1>3, <1>4 DEF MapQueue, Status

\* Revoke/Unmap is well typed.
LEMMA ReleaseType ==
    ASSUME TypeInv, NEW t \in Threads, NEW r \in RequestIds, NEW k \in Kinds,
           Release(t, r, k)
    PROVE  TypeInv'
<1>1. CASE \E c \in FindGnttabIrp(<<Owner[t], r, k>>) :
              /\ GnttabFree(c, Owner[t])
              /\ Complete(c)
              /\ ret' = [ret EXCEPT ![t] = "success"]
  <2>1. PICK c \in FindGnttabIrp(<<Owner[t], r, k>>) :
              /\ GnttabFree(c, Owner[t])
              /\ Complete(c)
              /\ ret' = [ret EXCEPT ![t] = "success"]
    BY <1>1
  <2>2. c \in Ctx
    BY DEF FindGnttabIrp, Csq
  <2>3. /\ ctx' \in [Ctx -> CtxRec]
        /\ held' \in [Ctx -> SUBSET Res]
        /\ shared' \subseteq shared
    BY <2>1, <2>2, GnttabFreeType DEF TypeInv
  <2>4. completions' \in [Ctx -> Nat]
    BY <2>1, <2>2 DEF Complete, TypeInv, TypeOK
  <2>5. QED
    BY <2>1, <2>3, <2>4 DEF Release, TypeInv, TypeOK, Status
<1>2. CASE /\ ret' = [ret EXCEPT ![t] = "not_found"]
           /\ UNCHANGED <<ctx, held, shared, completions>>
  BY <1>2 DEF Release, TypeInv, TypeOK, Status
<1>3. QED
  BY <1>1, <1>2 DEF Release

\* The CompleteGnttabIrp work item is well typed.
LEMMA CompleteGnttabIrpType ==
    ASSUME TypeInv, NEW c \in Ctx, CompleteGnttabIrp(c)
    PROVE  TypeInv'
<1> DEFINE space == IF System # ctx[c].proc THEN ctx[c].proc ELSE System
<1>1. GnttabFree(c, space) /\ Complete(c) /\ UNCHANGED <<pc, cur, page, ret>>
  BY DEF CompleteGnttabIrp
<1>2. /\ ctx' \in [Ctx -> CtxRec]
      /\ held' \in [Ctx -> SUBSET Res]
      /\ shared' \subseteq shared
  BY <1>1, GnttabFreeType DEF TypeInv
<1>3. completions' \in [Ctx -> Nat]
  BY <1>1 DEF Complete, TypeInv, TypeOK
<1>4. QED
  BY <1>1, <1>2, <1>3 DEF TypeInv, TypeOK

\* Every step keeps the strengthened type invariant.
LEMMA NextTypeInv == TypeInv /\ [Next]_vars => TypeInv'
<1> SUFFICES ASSUME TypeInv, [Next]_vars PROVE TypeInv'
  OBVIOUS
<1>1. ASSUME NEW t \in Threads, NEW r \in RequestIds, NEW n \in PageCounts,
             PermitForeignAccess(t, r, n) \/ MapForeignPages(t, r, n)
      PROVE TypeInv'
  BY <1>1, PermitForeignAccessType, MapForeignPagesType
<1>2. ASSUME NEW t \in Threads, PermitShare(t) \/ PermitQueue(t) \/ MapQueue(t)
      PROVE TypeInv'
  BY <1>2, PermitShareType, PermitQueueType, MapQueueType
<1>3. ASSUME NEW t \in Threads, DispatchReturn(t) PROVE TypeInv'
  BY <1>3 DEF DispatchReturn, Return, TypeInv, TypeOK, PcValues, Status
<1>4. ASSUME NEW t \in Threads, NEW r \in RequestIds, NEW k \in Kinds,
             GetResult(t, r, k) \/ Release(t, r, k)
      PROVE TypeInv'
  <2>1. CASE GetResult(t, r, k)
    BY <2>1 DEF GetResult, TypeInv, TypeOK, Status
  <2>2. CASE Release(t, r, k)
    BY <2>2, ReleaseType
  <2>3. QED
    BY <1>4, <2>1, <2>2
<1>5. ASSUME NEW c \in Ctx, CancelIrp(c) PROVE TypeInv'
  BY <1>5, SetStateType DEF CancelIrp, TypeInv, TypeOK, CtxStates
<1>6. ASSUME NEW c \in Ctx, CompleteGnttabIrp(c) PROVE TypeInv'
  BY <1>6, CompleteGnttabIrpType
<1>7. CASE UNCHANGED vars
  BY <1>7 DEF vars, TypeInv, TypeOK
<1>8. QED
  BY <1>1, <1>2, <1>3, <1>4, <1>5, <1>6, <1>7 DEF Next

\* Type correctness of the grant-table model for every instance of the
\* constants: every reachable state of the ioctl handlers, the CSQ and the
\* CompleteGnttabIrp work item is well typed.
THEOREM TypeCorrect == Spec => []TypeOK
<1>1. TypeInv => TypeOK
  BY DEF TypeInv
<1>2. QED
  BY <1>1, InitTypeInv, NextTypeInv, PTL DEF Spec



=============================================================================
