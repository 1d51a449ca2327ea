---------------------------- MODULE GnttabSafety ----------------------------
(***************************************************************************)
(* Proof that, in a checked build, the grant-table model never leaks,     *)
(* never parks two IRPs with one id, never exposes a half-built context   *)
(* and completes every IRP at most once: IInv (module GnttabInv) is       *)
(* inductive and implies the four safety invariants of gnttab_safety.     *)
(***************************************************************************)
EXTENDS GnttabInv, GnttabProofs

-----------------------------------------------------------------------------
(* The unwinding ladders release everything the failed step acquired.     *)

\* Falling through from label lbl releases what every label at or below it
\* releases.
LEMMA ReleasedMember ==
    ASSUME NEW L, NEW lbl, NEW i \in DOMAIN L, L[i].lbl <= lbl, NEW x \in L[i].res
    PROVE  x \in Released(L, lbl)
BY DEF Released

\* A failed allocation of Grants, KernelVa or the Mdl (gotos fail5, fail6,
\* fail7) releases the context and what was allocated before it.
LEMMA GrantAllocUnwound ==
    ASSUME NEW i \in DOMAIN GrantAllocs
    PROVE  Acquired(GrantAllocs, i) \subseteq Released(GrantLadder, GrantAllocGoto[i])
<1>1. i \in {1, 2, 3}
  BY DEF GrantAllocs
<1>2. "ctx" \in Released(GrantLadder, GrantAllocGoto[i])
  BY <1>1, ReleasedMember DEF GrantLadder, GrantAllocGoto
<1>3. i >= 2 => "grants" \in Released(GrantLadder, GrantAllocGoto[i])
  <2>1. 4 \in DOMAIN GrantLadder /\ GrantLadder[4].lbl = 6 /\ "grants" \in GrantLadder[4].res
    BY DEF GrantLadder
  <2>2. i >= 2 => GrantAllocGoto[i] >= 6
    BY <1>1 DEF GrantAllocGoto
  <2>3. QED
    BY <2>1, <2>2, ReleasedMember
<1>4. i >= 3 => "kva" \in Released(GrantLadder, GrantAllocGoto[i])
  <2>1. 3 \in DOMAIN GrantLadder /\ GrantLadder[3].lbl = 7 /\ "kva" \in GrantLadder[3].res
    BY DEF GrantLadder
  <2>2. i >= 3 => GrantAllocGoto[i] >= 7
    BY <1>1 DEF GrantAllocGoto
  <2>3. QED
    BY <2>1, <2>2, ReleasedMember
<1>5. QED
  BY <1>1, <1>2, <1>3, <1>4 DEF Acquired, GrantAllocs


\* A failure in or after the sharing loop (fail8, fail9, fail10) releases
\* the Mdl, KernelVa, Grants and the context; fail11 also the user mapping.
LEMMA GrantBuiltUnwound ==
    ASSUME NEW lbl \in Nat, lbl >= 8
    PROVE  /\ BuildRes \subseteq Released(GrantLadder, lbl)
           /\ lbl >= 11 => GrantRes \subseteq Released(GrantLadder, lbl)
<1>1. /\ {2, 3, 4, 5} \subseteq DOMAIN GrantLadder
      /\ GrantLadder[2].lbl = 8 /\ GrantLadder[3].lbl = 7
      /\ GrantLadder[4].lbl = 6 /\ GrantLadder[5].lbl = 4
  BY DEF GrantLadder
<1>2. /\ "mdl" \in GrantLadder[2].res /\ "kva" \in GrantLadder[3].res
      /\ "grants" \in GrantLadder[4].res /\ "ctx" \in GrantLadder[5].res
  BY DEF GrantLadder
<1>3. BuildRes \subseteq Released(GrantLadder, lbl)
  <2>1. "mdl" \in Released(GrantLadder, lbl)
    <3>1. 2 \in DOMAIN GrantLadder /\ GrantLadder[2].lbl <= lbl /\ "mdl" \in GrantLadder[2].res
      BY <1>1, <1>2
    <3>2. QED
      BY <3>1, ReleasedMember
  <2>2. "kva" \in Released(GrantLadder, lbl)
    <3>1. 3 \in DOMAIN GrantLadder /\ GrantLadder[3].lbl <= lbl /\ "kva" \in GrantLadder[3].res
      BY <1>1, <1>2
    <3>2. QED
      BY <3>1, ReleasedMember
  <2>3. "grants" \in Released(GrantLadder, lbl)
    <3>1. 4 \in DOMAIN GrantLadder /\ GrantLadder[4].lbl <= lbl /\ "grants" \in GrantLadder[4].res
      BY <1>1, <1>2
    <3>2. QED
      BY <3>1, ReleasedMember
  <2>4. "ctx" \in Released(GrantLadder, lbl)
    <3>1. 5 \in DOMAIN GrantLadder /\ GrantLadder[5].lbl <= lbl /\ "ctx" \in GrantLadder[5].res
      BY <1>1, <1>2
    <3>2. QED
      BY <3>1, ReleasedMember
  <2>5. QED
    BY <2>1, <2>2, <2>3, <2>4 DEF BuildRes
<1>4. lbl >= 11 => "umap" \in Released(GrantLadder, lbl)
  <2>1. 1 \in DOMAIN GrantLadder /\ GrantLadder[1].lbl = 11 /\ "umap" \in GrantLadder[1].res
    BY DEF GrantLadder
  <2>2. QED
    BY <2>1, ReleasedMember
<1>5. QED
  BY <1>3, <1>4 DEF BuildRes, GrantRes

\* In a checked build, a failure of any step of the map build (fail6 to
\* fail9) releases what the steps before it acquired, and fail11 releases
\* everything a built map context holds.
LEMMA MapStepUnwound ==
    ASSUME AssertEvaluates = TRUE, NEW i \in DOMAIN MapSteps
    PROVE  Acquired(MapSteps, i) \subseteq Released(MapLadder, MapStepGoto[i])
<1>1. i \in 1 .. 4
  BY DEF MapSteps
<1>2. /\ {1, 2, 3, 4, 5} \subseteq DOMAIN MapLadder
      /\ "umap" \in MapLadder[1].res /\ "mdl" \in MapLadder[2].res
      /\ "kmap" \in MapLadder[3].res /\ "hvmap" \in MapLadder[4].res
      /\ "ctx" \in MapLadder[5].res
      /\ MapLadder[1].lbl = 11 /\ MapLadder[2].lbl = 9 /\ MapLadder[3].lbl = 8
      /\ MapLadder[4].lbl = 7 /\ MapLadder[5].lbl = 5
  BY DEF MapLadder
<1>3. MapStepGoto[i] = i + 5
  BY <1>1 DEF MapStepGoto
<1>4. /\ "ctx" \in Released(MapLadder, MapStepGoto[i])
      /\ i >= 2 => "hvmap" \in Released(MapLadder, MapStepGoto[i])
      /\ i >= 3 => "kmap" \in Released(MapLadder, MapStepGoto[i])
      /\ i >= 4 => "mdl" \in Released(MapLadder, MapStepGoto[i])
  <2>1. MapStepGoto[i] >= 6 => "ctx" \in Released(MapLadder, MapStepGoto[i])
    <3>1. 5 \in DOMAIN MapLadder /\ MapLadder[5].lbl <= 6 /\ "ctx" \in MapLadder[5].res
      BY <1>2
    <3>2. ASSUME MapStepGoto[i] >= 6 PROVE MapLadder[5].lbl <= MapStepGoto[i]
      BY <1>1, <1>2, <1>3, <3>2
    <3>3. QED
      BY <3>1, <3>2, ReleasedMember
  <2>2. MapStepGoto[i] >= 7 => "hvmap" \in Released(MapLadder, MapStepGoto[i])
    <3>1. 4 \in DOMAIN MapLadder /\ MapLadder[4].lbl <= 7 /\ "hvmap" \in MapLadder[4].res
      BY <1>2
    <3>2. ASSUME MapStepGoto[i] >= 7 PROVE MapLadder[4].lbl <= MapStepGoto[i]
      BY <1>1, <1>2, <1>3, <3>2
    <3>3. QED
      BY <3>1, <3>2, ReleasedMember
  <2>3. MapStepGoto[i] >= 8 => "kmap" \in Released(MapLadder, MapStepGoto[i])
    <3>1. 3 \in DOMAIN MapLadder /\ MapLadder[3].lbl <= 8 /\ "kmap" \in MapLadder[3].res
      BY <1>2
    <3>2. ASSUME MapStepGoto[i] >= 8 PROVE MapLadder[3].lbl <= MapStepGoto[i]
      BY <1>1, <1>2, <1>3, <3>2
    <3>3. QED
      BY <3>1, <3>2, ReleasedMember
  <2>4. MapStepGoto[i] >= 9 => "mdl" \in Released(MapLadder, MapStepGoto[i])
    <3>1. 2 \in DOMAIN MapLadder /\ MapLadder[2].lbl <= 9 /\ "mdl" \in MapLadder[2].res
      BY <1>2
    <3>2. ASSUME MapStepGoto[i] >= 9 PROVE MapLadder[2].lbl <= MapStepGoto[i]
      BY <1>1, <1>2, <1>3, <3>2
    <3>3. QED
      BY <3>1, <3>2, ReleasedMember
  <2>5. QED
    BY <1>1, <1>3, <2>1, <2>2, <2>3, <2>4
<1>5. \A j \in 1 .. (i - 1) : MapSteps[j] \in Released(MapLadder, MapStepGoto[i])
  BY <1>1, <1>4 DEF MapSteps
<1>6. QED
  BY <1>4, <1>5 DEF Acquired

\* fail11 of the map build releases everything a built map context holds (checked build).
LEMMA MapQueuedUnwound ==
    ASSUME AssertEvaluates = TRUE
    PROVE  MapRes \subseteq Released(MapLadder, 11)
<1>1. /\ \A k \in 1 .. 5 : k \in DOMAIN MapLadder /\ MapLadder[k].lbl <= 11
      /\ "umap" \in MapLadder[1].res /\ "mdl" \in MapLadder[2].res
      /\ "kmap" \in MapLadder[3].res /\ "hvmap" \in MapLadder[4].res
      /\ "ctx" \in MapLadder[5].res
  BY DEF MapLadder
<1>2. QED
  BY <1>1, ReleasedMember DEF MapRes


-----------------------------------------------------------------------------
(* The invariant holds initially and implies the safety properties.        *)

LEMMA InitIInv == Init => IInv
<1> SUFFICES ASSUME Init PROVE IInv
  OBVIOUS
<1>1. TypeInv
  BY InitTypeInv
<1>2. \A c \in Ctx : ctx[c].state = "unused" /\ held[c] = {} /\ SharedOf(c) = {}
                     /\ completions[c] = 0
  BY DEF Init, SharedOf
<1>3. \A t \in Threads : pc[t] = "idle"
  BY DEF Init
<1>4. UniquePending
  BY <1>2 DEF UniquePending, Csq
<1>5. QED
  BY <1>1, <1>2, <1>3, <1>4 DEF IInv, TypeInv, CtxInv, ThreadInv, BuildersDistinct, Building

\* The four invariants the run gnttab_safety checks besides TypeOK.
Safety == PendingFullyBuilt /\ NoLeak /\ UniquePending /\ CompletedOnce

\* The inductive invariant implies the four safety invariants.
LEMMA IInvSafety == IInv => Safety
<1> SUFFICES ASSUME IInv PROVE Safety
  OBVIOUS
<1>1. PendingFullyBuilt
  <2> SUFFICES ASSUME NEW c \in Csq
               PROVE  /\ held[c] = FullRes(c)
                      /\ ctx[c].kind = "grant" =>
                            \A p \in 0 .. (ctx[c].n - 1) : <<c, p>> \in shared
    BY DEF PendingFullyBuilt
  <2>1. c \in Ctx /\ QueuedInv(c)
    BY DEF Csq, IInv, CtxInv
  <2>2. QED
    BY <2>1 DEF QueuedInv, SharedOf
<1>2. NoLeak
  BY DEF NoLeak, IInv, CtxInv, SharedOf
<1>3. CompletedOnce
  <2> SUFFICES ASSUME NEW c \in Ctx
               PROVE  completions[c] <= 1 /\ (ctx[c].state # "freed" => completions[c] = 0)
    BY DEF CompletedOnce
  <2>1. ctx[c].state \in CtxStates /\ CtxInv(c)
    BY DEF IInv, TypeOK, CtxRec
  <2>2. QED
    BY <2>1 DEF CtxInv, QueuedInv, CtxStates
<1>4. QED
  BY <1>1, <1>2, <1>3 DEF Safety, IInv

\* How SharedOf changes when shared gains or loses pages of one context.
LEMMA SharedOfAdd ==
    ASSUME NEW c0, NEW p0 \in Pages, shared' = shared \cup {<<c0, p0>>}, NEW c
    PROVE  SharedOf(c)' = IF c = c0 THEN SharedOf(c) \cup {p0} ELSE SharedOf(c)
BY DEF SharedOf

LEMMA SharedOfRemove ==
    ASSUME NEW c0, NEW S, shared' = shared \ {<<c0, p>> : p \in S}, NEW c
    PROVE  SharedOf(c)' = IF c = c0 THEN SharedOf(c) \ S ELSE SharedOf(c)
BY DEF SharedOf


-----------------------------------------------------------------------------
(* Each action preserves IInv.                                             *)

\* Removing IRPs from the CSQ without changing any key keeps ids unique.
LEMMA UniqueFrame ==
    ASSUME UniquePending, Csq' \subseteq Csq, \A c \in Ctx : Key(c)' = Key(c)
    PROVE  UniquePending'
<1> SUFFICES ASSUME NEW c \in Csq', NEW d \in Csq', Key(c)' = Key(d)' PROVE c = d
  BY DEF UniquePending
<1>1. c \in Csq /\ d \in Csq /\ c \in Ctx /\ d \in Ctx
  BY DEF Csq
<1>2. Key(c) = Key(d)
  BY <1>1
<1>3. QED
  BY <1>1, <1>2 DEF UniquePending

\* IInv contains the inductive type invariant of GnttabProofs.
LEMMA IInvTypeInv == IInv => TypeInv
BY DEF IInv, TypeInv

\* A handler returning an error before it allocates anything.
LEMMA RejectIInv ==
    ASSUME IInv, NEW t \in Threads, NEW st \in Status, Reject(t, st)
    PROVE  IInv'
<1>1. TypeInv'
  BY IInvTypeInv, RejectType
<1>2. UNCHANGED <<ctx, held, shared, completions, pc, cur, page>>
  BY DEF Reject
<1>3. QED
  BY <1>1, <1>2 DEF IInv, TypeInv, CtxInv, QueuedInv, ThreadInv, BuildersDistinct,
                    UniquePending, SharedOf, FullRes, Csq, Key

\* XenIfaceIoctl storing STATUS_PENDING into the IRP.
LEMMA DispatchReturnIInv ==
    ASSUME IInv, NEW t \in Threads, DispatchReturn(t)
    PROVE  IInv'
<1>1. TypeInv'
  BY IInvTypeInv, NextTypeInv DEF Next
<1>2. /\ pc[t] = "returning" /\ pc' = [pc EXCEPT ![t] = "idle"]
      /\ UNCHANGED <<ctx, held, shared, completions, cur, page>>
  BY DEF DispatchReturn, Return
<1>3. \A u \in Threads : pc[u] \in Building => u # t /\ pc'[u] = pc[u]
  BY <1>2 DEF Building, IInv, TypeOK
<1>4. \A u \in Threads : pc'[u] \in Building => pc[u] = pc'[u]
  BY <1>2 DEF Building, IInv, TypeOK
<1>5. \A c \in Ctx : CtxInv(c)'
  BY <1>2, <1>3 DEF IInv, CtxInv, QueuedInv, SharedOf, FullRes
<1>6. \A u \in Threads : ThreadInv(u)'
  BY <1>2, <1>4 DEF IInv, ThreadInv, SharedOf, Building
<1>7. BuildersDistinct'
  BY <1>2, <1>4 DEF IInv, BuildersDistinct
<1>8. UniquePending'
  BY <1>2 DEF IInv, UniquePending, Csq, Key
<1>9. QED
  BY <1>1, <1>5, <1>6, <1>7, <1>8 DEF IInv, TypeInv

\* IoctlGnttabGetGrantResult / GetMapResult only read.
LEMMA GetResultIInv ==
    ASSUME IInv, NEW t \in Threads, NEW r \in RequestIds, NEW k \in Kinds, GetResult(t, r, k)
    PROVE  IInv'
<1>1. TypeInv'
  BY IInvTypeInv, NextTypeInv DEF Next
<1>2. UNCHANGED <<ctx, held, shared, completions, pc, cur, page>>
  BY DEF GetResult
<1>3. QED
  BY <1>1, <1>2 DEF IInv, TypeInv, CtxInv, QueuedInv, ThreadInv, BuildersDistinct,
                    UniquePending, SharedOf, FullRes, Csq, Key

\* The CSQ cancel routine moves a parked IRP to the work item.
LEMMA CancelIrpIInv ==
    ASSUME IInv, NEW c0 \in Ctx, CancelIrp(c0)
    PROVE  IInv'
<1>1. TypeInv'
  BY IInvTypeInv, NextTypeInv DEF Next
<1>2. /\ ctx[c0].state = "pending"
      /\ ctx' = [ctx EXCEPT ![c0].state = "cancelling"]
      /\ UNCHANGED <<held, shared, completions, pc, cur, page>>
  BY DEF CancelIrp, SetState
<1>3. \A c \in Ctx : /\ ctx'[c].kind = ctx[c].kind /\ ctx'[c].n = ctx[c].n
                     /\ ctx'[c].proc = ctx[c].proc /\ ctx'[c].rid = ctx[c].rid
                     /\ ctx'[c].state = IF c = c0 THEN "cancelling" ELSE ctx[c].state
  BY <1>2 DEF IInv, TypeOK
<1>4. \A c \in Ctx : CtxInv(c)'
  BY <1>2, <1>3 DEF IInv, CtxInv, QueuedInv, SharedOf, FullRes
<1>5. \A u \in Threads : ThreadInv(u)'
  <2> SUFFICES ASSUME NEW u \in Threads PROVE ThreadInv(u)'
    OBVIOUS
  <2>1. pc[u] \in Building => cur[u] \in Ctx /\ cur[u] # c0
    BY <1>2 DEF IInv, ThreadInv, Building
  <2>2. QED
    BY <1>2, <1>3, <2>1 DEF IInv, ThreadInv, SharedOf, Building
<1>6. BuildersDistinct'
  BY <1>2 DEF IInv, BuildersDistinct
<1>7. UniquePending'
  <2>1. Csq' \subseteq Csq
    BY <1>3 DEF Csq
  <2>2. \A c \in Ctx : Key(c)' = Key(c)
    BY <1>3 DEF Key
  <2>3. QED
    BY <2>1, <2>2, UniqueFrame DEF IInv
<1>8. QED
  BY <1>1, <1>4, <1>5, <1>6, <1>7 DEF IInv, TypeInv


\* Tearing down a queued context in its owner's address space leaves the
\* slot holding nothing and sharing nothing.
LEMMA FreeQueued ==
    ASSUME IInv, NEW c0 \in Ctx, ctx[c0].state \in {"pending", "cancelling"},
           GnttabFree(c0, ctx[c0].proc)
    PROVE  /\ ctx' = [ctx EXCEPT ![c0].state = "freed"]
           /\ held' = [held EXCEPT ![c0] = {}]
           /\ \A c \in Ctx : SharedOf(c)' = IF c = c0 THEN {} ELSE SharedOf(c)
<1>1. QueuedInv(c0)
  BY DEF IInv, CtxInv
<1>2. UserUnmap(c0, ctx[c0].proc) = {"umap"}
  BY DEF UserUnmap
<1>3. CASE ctx[c0].kind = "grant"
  <2>1. GnttabFreeGrant(c0, ctx[c0].proc)
    BY <1>3 DEF GnttabFree
  <2>2. held[c0] = GrantRes /\ SharedOf(c0) = 0 .. (ctx[c0].n - 1)
    BY <1>1, <1>3 DEF QueuedInv, FullRes
  <2>3. held' = [held EXCEPT ![c0] = {}]
    BY <1>2, <2>1, <2>2 DEF GnttabFreeGrant, GrantRes
  <2>4. \A c \in Ctx : SharedOf(c)' = IF c = c0 THEN SharedOf(c) \ (0 .. (ctx[c0].n - 1))
                                                ELSE SharedOf(c)
    BY <2>1, SharedOfRemove DEF GnttabFreeGrant
  <2>5. QED
    BY <2>1, <2>2, <2>3, <2>4 DEF GnttabFreeGrant
<1>4. CASE ctx[c0].kind # "grant"
  <2>1. GnttabFreeMap(c0, ctx[c0].proc)
    BY <1>4 DEF GnttabFree
  <2>2. held[c0] = MapRes /\ SharedOf(c0) = {}
    BY <1>1, <1>4 DEF QueuedInv, FullRes
  <2>3. held' = [held EXCEPT ![c0] = {}]
    BY <1>2, <2>1, <2>2 DEF GnttabFreeMap, MapRes
  <2>4. QED
    BY <2>1, <2>2, <2>3 DEF GnttabFreeMap, SharedOf
<1>5. QED
  BY <1>3, <1>4

\* The state after a teardown of queued context c0 that completes its IRP.
LEMMA FreedStepIInv ==
    ASSUME IInv, NEW c0 \in Ctx, ctx[c0].state \in {"pending", "cancelling"},
           TypeInv',
           ctx' = [ctx EXCEPT ![c0].state = "freed"],
           held' = [held EXCEPT ![c0] = {}],
           \A c \in Ctx : SharedOf(c)' = IF c = c0 THEN {} ELSE SharedOf(c),
           completions' = [completions EXCEPT ![c0] = @ + 1],
           UNCHANGED <<pc, cur, page>>
    PROVE  IInv'
<1>1. completions[c0] = 0
  BY DEF IInv, CtxInv, QueuedInv
<1>2. \A c \in Ctx : /\ ctx'[c].kind = ctx[c].kind /\ ctx'[c].n = ctx[c].n
                     /\ ctx'[c].proc = ctx[c].proc /\ ctx'[c].rid = ctx[c].rid
                     /\ ctx'[c].state = IF c = c0 THEN "freed" ELSE ctx[c].state
  BY DEF IInv, TypeOK
<1>3. \A c \in Ctx : CtxInv(c)'
  <2> SUFFICES ASSUME NEW c \in Ctx PROVE CtxInv(c)'
    OBVIOUS
  <2>1. CASE c = c0
    BY <1>1, <1>2, <2>1 DEF CtxInv, IInv, TypeOK
  <2>2. CASE c # c0
    <3>1. held'[c] = held[c] /\ completions'[c] = completions[c] /\ SharedOf(c)' = SharedOf(c)
      BY <2>2 DEF IInv, TypeOK
    <3>2. QED
      BY <1>2, <2>2, <3>1 DEF CtxInv, IInv, QueuedInv, FullRes
  <2>3. QED
    BY <2>1, <2>2
<1>4. \A u \in Threads : ThreadInv(u)'
  <2> SUFFICES ASSUME NEW u \in Threads PROVE ThreadInv(u)'
    OBVIOUS
  <2>1. pc[u] \in Building => cur[u] \in Ctx /\ cur[u] # c0
    BY DEF IInv, ThreadInv, Building
  <2>2. pc[u] \in Building => /\ held'[cur[u]] = held[cur[u]]
                              /\ SharedOf(cur[u])' = SharedOf(cur[u])
    BY <2>1 DEF IInv, TypeOK
  <2>3. QED
    BY <1>2, <2>1, <2>2 DEF IInv, ThreadInv, Building
<1>5. BuildersDistinct'
  BY DEF IInv, BuildersDistinct
<1>6. UniquePending'
  <2>1. Csq' \subseteq Csq
    BY <1>2 DEF Csq
  <2>2. \A c \in Ctx : Key(c)' = Key(c)
    BY <1>2 DEF Key
  <2>3. QED
    BY <2>1, <2>2, UniqueFrame DEF IInv
<1>7. QED
  BY <1>3, <1>4, <1>5, <1>6 DEF IInv, TypeInv

\* A step that leaves the contexts, the CSQ, the sharing and every thread's
\* control state alone (it may change only a return value) keeps IInv.
LEMMA FrozenIInv ==
    ASSUME IInv, TypeOK', UNCHANGED <<ctx, held, shared, completions>>,
           UNCHANGED <<pc, cur, page>>
    PROVE  IInv'
<1>1. \A c \in Ctx : SharedOf(c)' = SharedOf(c)
  BY DEF SharedOf
<1>2. TypeOK'
  OBVIOUS
<1>3. \A c \in Ctx : CtxInv(c)'
  BY <1>1 DEF IInv, CtxInv, QueuedInv, FullRes
<1>4. \A t \in Threads : ThreadInv(t)'
  BY <1>1 DEF IInv, ThreadInv
<1>5. BuildersDistinct' /\ UniquePending'
  BY DEF IInv, BuildersDistinct, UniquePending, Csq, Key
<1>6. QED
  BY <1>2, <1>3, <1>4, <1>5 DEF IInv

\* Revoke/Unmap: remove from the CSQ, free, complete.
LEMMA ReleaseIInv ==
    ASSUME IInv, NEW t \in Threads, NEW r \in RequestIds, NEW k \in Kinds, Release(t, r, k)
    PROVE  IInv'
<1>1. TypeInv'
  BY IInvTypeInv, NextTypeInv DEF Next
<1>2. CASE \E c \in FindGnttabIrp(<<Owner[t], r, k>>) :
              /\ GnttabFree(c, Owner[t])
              /\ Complete(c)
              /\ ret' = [ret EXCEPT ![t] = "success"]
  <2>1. PICK c0 \in FindGnttabIrp(<<Owner[t], r, k>>) :
              GnttabFree(c0, Owner[t]) /\ Complete(c0)
    BY <1>2
  <2>2. c0 \in Ctx /\ ctx[c0].state = "pending" /\ ctx[c0].proc = Owner[t]
    BY DEF FindGnttabIrp, Csq, Key
  <2>3. GnttabFree(c0, ctx[c0].proc)
    BY <2>1, <2>2
  <2>4. UNCHANGED <<pc, cur, page>>
    BY DEF Release
  <2>5. QED
    BY <1>1, <2>1, <2>2, <2>3, <2>4, FreeQueued, FreedStepIInv DEF Complete
<1>3. CASE UNCHANGED <<ctx, held, shared, completions>> /\ UNCHANGED <<pc, cur, page>>
  <2>1. TypeOK'
    BY <1>1 DEF TypeInv
  <2>2. QED
    BY <1>3, <2>1, FrozenIInv
<1>4. QED
  BY <1>2, <1>3 DEF Release

\* The CompleteGnttabIrp work item frees a cancelled context and completes its IRP.
LEMMA CompleteGnttabIrpIInv ==
    ASSUME IInv, NEW c0 \in Ctx, CompleteGnttabIrp(c0)
    PROVE  IInv'
<1>1. TypeInv'
  BY IInvTypeInv, NextTypeInv DEF Next
<1>2. ctx[c0].state = "cancelling" /\ ctx[c0].proc \in Procs
  BY DEF CompleteGnttabIrp, IInv, CtxInv, QueuedInv
<1>3. System # ctx[c0].proc
  BY <1>2, GnttabAssumption
<1>4. GnttabFree(c0, ctx[c0].proc) /\ Complete(c0) /\ UNCHANGED <<pc, cur, page>>
  BY <1>3 DEF CompleteGnttabIrp
<1>5. QED
  BY <1>1, <1>2, <1>4, FreeQueued, FreedStepIInv DEF Complete


\* A step that changes only slot c0 and thread t0, where t0 is the only
\* thread that may be building c0, preserves IInv as soon as it preserves
\* the parts of IInv about c0 and t0 and inserts c0 in the CSQ only under
\* a fresh key.
LEMMA FrameStep ==
    ASSUME IInv, TypeInv', NEW c0 \in Ctx, NEW t0 \in Threads,
           \A c \in Ctx \ {c0} : /\ ctx'[c] = ctx[c] /\ held'[c] = held[c]
                                 /\ completions'[c] = completions[c]
                                 /\ SharedOf(c)' = SharedOf(c),
           \A u \in Threads \ {t0} : pc'[u] = pc[u] /\ cur'[u] = cur[u] /\ page'[u] = page[u],
           pc[t0] \in Building => cur[t0] = c0,
           pc'[t0] \in Building => cur'[t0] = c0,
           \A u \in Threads \ {t0} : pc[u] \in Building => cur[u] # c0,
           CtxInv(c0)', ThreadInv(t0)',
           ctx'[c0].state = "pending" =>
               \A d \in Csq \ {c0} : Key(d) # <<ctx'[c0].proc, ctx'[c0].rid, ctx'[c0].kind>>
    PROVE  IInv'
<1>1. \A c \in Ctx : CtxInv(c)'
  <2> SUFFICES ASSUME NEW c \in Ctx, c # c0 PROVE CtxInv(c)'
    OBVIOUS
  <2>1. ctx[c].state = "building" => \E u \in Threads \ {t0} : pc[u] \in Building /\ cur[u] = c
    BY DEF IInv, CtxInv
  <2>2. /\ ctx'[c] = ctx[c] /\ held'[c] = held[c] /\ completions'[c] = completions[c]
        /\ SharedOf(c)' = SharedOf(c)
    OBVIOUS
  <2>3. QueuedInv(c)' = QueuedInv(c)
    BY <2>2 DEF QueuedInv, FullRes
  <2>4. ctx[c].state = "building" => \E u \in Threads : pc'[u] \in Building /\ cur'[u] = c
    BY <2>1
  <2>5. CtxInv(c)
    BY DEF IInv
  <2>6. QED
    BY <2>2, <2>3, <2>4, <2>5 DEF CtxInv
<1>2. \A u \in Threads : ThreadInv(u)'
  <2> SUFFICES ASSUME NEW u \in Threads, u # t0 PROVE ThreadInv(u)'
    OBVIOUS
  <2>1. pc[u] \in Building => cur[u] \in Ctx \ {c0}
    BY DEF IInv, TypeInv, Building
  <2>2. pc[u] \in Building => /\ ctx'[cur[u]] = ctx[cur[u]]
                              /\ held'[cur[u]] = held[cur[u]]
                              /\ SharedOf(cur[u])' = SharedOf(cur[u])
    BY <2>1
  <2>3. pc'[u] = pc[u] /\ cur'[u] = cur[u] /\ page'[u] = page[u]
    OBVIOUS
  <2>4. ThreadInv(u)
    BY DEF IInv
  <2>5. QED
    BY <2>2, <2>3, <2>4 DEF ThreadInv, Building
<1>3. BuildersDistinct'
  <2> SUFFICES ASSUME NEW u \in Threads, NEW v \in Threads, u # v,
                      pc'[u] \in Building, pc'[v] \in Building, cur'[u] = cur'[v]
               PROVE  FALSE
    BY DEF BuildersDistinct
  <2>1. CASE u = t0
    BY <2>1
  <2>2. CASE v = t0
    BY <2>2
  <2>3. CASE u # t0 /\ v # t0
    BY <2>3 DEF IInv, BuildersDistinct
  <2>4. QED
    BY <2>1, <2>2, <2>3
<1>4. UniquePending'
  <2> SUFFICES ASSUME NEW c \in Csq', NEW d \in Csq', Key(c)' = Key(d)', c # d PROVE FALSE
    BY DEF UniquePending
  <2>1. c \in Ctx /\ d \in Ctx
    BY DEF Csq
  <2>2. CASE c # c0 /\ d # c0
    BY <2>1, <2>2 DEF Csq, Key, IInv, UniquePending
  <2>3. CASE c = c0
    BY <2>1, <2>3 DEF Csq, Key
  <2>4. CASE d = c0
    BY <2>1, <2>4 DEF Csq, Key
  <2>5. QED
    BY <2>2, <2>3, <2>4
<1>5. QED
  BY <1>1, <1>2, <1>3, <1>4 DEF IInv, TypeInv


\* Nobody builds a slot that is not in state building.
LEMMA NoBuilder ==
    ASSUME IInv, NEW c0 \in Ctx, ctx[c0].state # "building"
    PROVE  \A u \in Threads : pc[u] \in Building => cur[u] # c0
BY DEF IInv, ThreadInv, Building

\* IoctlGnttabPermitForeignAccess up to the sharing loop, failures included.
LEMMA PermitForeignAccessIInv ==
    ASSUME IInv, NEW t \in Threads, NEW r \in RequestIds, NEW n \in PageCounts,
           PermitForeignAccess(t, r, n)
    PROVE  IInv'
<1> DEFINE new == [state |-> "building", proc |-> Owner[t], rid |-> r,
                   kind |-> "grant", n |-> n]
<1>1. TypeInv'
  BY IInvTypeInv, PermitForeignAccessType
<1>2. pc[t] = "idle"
  BY DEF PermitForeignAccess
<1>3. CASE \E st \in Status : Reject(t, st)
  BY <1>3, RejectIInv
<1>4. CASE /\ n \in 1 .. MaxPages
           /\ \E c \in FreeSlots :
                /\ \E i \in DOMAIN GrantAllocs :
                     /\ ctx' = [ctx EXCEPT ![c] = [new EXCEPT !.state = "freed"]]
                     /\ GrantUnwind(c, Acquired(GrantAllocs, i), GrantAllocGoto[i], 0)
                     /\ ret' = [ret EXCEPT ![t] = "error"]
                     /\ UNCHANGED <<completions, pc, cur, page>>
  <2>1. PICK c0 \in FreeSlots, i \in DOMAIN GrantAllocs :
                     /\ ctx' = [ctx EXCEPT ![c0] = [new EXCEPT !.state = "freed"]]
                     /\ GrantUnwind(c0, Acquired(GrantAllocs, i), GrantAllocGoto[i], 0)
                     /\ UNCHANGED <<completions, pc, cur, page>>
    BY <1>4
  <2>2. c0 \in Ctx /\ ctx[c0].state = "unused" /\ i \in 1 .. 3
    BY DEF FreeSlots, GrantAllocs
  <2>3. held' = [held EXCEPT ![c0] = {}]
    BY <2>1, GrantAllocUnwound DEF GrantUnwind
  <2>4. shared' = shared
    BY <2>1, <2>2 DEF GrantUnwind, GrantAllocGoto
  <2>5. ctx'[c0].state = "freed"
    BY <2>1, <2>2 DEF IInv, TypeOK
  <2>6. CtxInv(c0)'
    BY <2>2, <2>3, <2>4, <2>5, <2>1 DEF CtxInv, IInv, TypeOK, SharedOf
  <2>7. ThreadInv(t)'
    BY <1>2, <2>1 DEF ThreadInv
  <2>8. QED
    BY <1>1, <1>2, <2>1, <2>2, <2>3, <2>4, <2>5, <2>6, <2>7, NoBuilder, FrameStep
       DEF Building, SharedOf, IInv, TypeOK
<1>5. CASE /\ n \in 1 .. MaxPages
           /\ \E c \in FreeSlots :
                /\ FindGnttabIrp(<<Owner[t], r, "grant">>) = {}
                /\ ctx' = [ctx EXCEPT ![c] = new]
                /\ held' = [held EXCEPT ![c] = {"ctx", "grants", "kva", "mdl"}]
                /\ pc' = [pc EXCEPT ![t] = "pf_share"]
                /\ cur' = [cur EXCEPT ![t] = c]
                /\ page' = [page EXCEPT ![t] = 0]
                /\ UNCHANGED <<shared, completions, ret>>
  <2>1. PICK c0 \in FreeSlots :
                /\ ctx' = [ctx EXCEPT ![c0] = new]
                /\ held' = [held EXCEPT ![c0] = {"ctx", "grants", "kva", "mdl"}]
                /\ pc' = [pc EXCEPT ![t] = "pf_share"]
                /\ cur' = [cur EXCEPT ![t] = c0]
                /\ page' = [page EXCEPT ![t] = 0]
                /\ UNCHANGED <<shared, completions, ret>>
    BY <1>5
  <2>2. c0 \in Ctx /\ ctx[c0].state = "unused" /\ SharedOf(c0) = {} /\ completions[c0] = 0
    BY DEF FreeSlots, IInv, CtxInv
  <2>3. ctx'[c0] = new /\ held'[c0] = BuildRes /\ pc'[t] = "pf_share" /\ cur'[t] = c0
        /\ page'[t] = 0
    BY <2>1, <2>2 DEF IInv, TypeOK, BuildRes
  <2>4. SharedOf(c0)' = {}
    BY <2>1, <2>2 DEF SharedOf
  <2>5. CtxInv(c0)'
    <3>1. ctx'[c0].state = "building"
      <4>1. ctx'[c0] = new
        BY <2>3
      <4>2. new.state = "building"
        BY DEF new
      <4>3. QED
        BY <4>1, <4>2
    <3>2. completions'[c0] = 0
      BY <2>1, <2>2
    <3>3. pc'[t] \in Building /\ cur'[t] = c0
      BY <2>3 DEF Building
    <3>4. QED
      BY <3>1, <3>2, <3>3 DEF CtxInv
  <2>6. ThreadInv(t)'
    <3>1. Owner[t] \in Procs /\ 0 .. (0 - 1) = {}
      BY GnttabAssumption
    <3>2. /\ ctx'[c0].state = "building" /\ ctx'[c0].kind = "grant"
          /\ ctx'[c0].proc \in Procs /\ ctx'[c0].n \in 1 .. MaxPages
          /\ page'[t] <= ctx'[c0].n
      BY <1>5, <2>3, <3>1, GnttabAssumption
    <3>3. SharedOf(c0)' = 0 .. (page'[t] - 1)
      BY <2>3, <2>4, <3>1
    <3>4. QED
      BY <2>3, <3>2, <3>3 DEF ThreadInv
  <2>7. QED
    BY <1>1, <1>2, <2>1, <2>2, <2>3, <2>5, <2>6, NoBuilder, FrameStep
       DEF Building, SharedOf, IInv, TypeOK
<1>6. QED
  BY <1>3, <1>4, <1>5, Zenon DEF PermitForeignAccess, Status


\* IoctlGnttabMapForeignPages up to the id check and context allocation.
LEMMA MapForeignPagesIInv ==
    ASSUME IInv, NEW t \in Threads, NEW r \in RequestIds, NEW n \in PageCounts,
           MapForeignPages(t, r, n)
    PROVE  IInv'
<1> DEFINE new == [state |-> "building", proc |-> Owner[t], rid |-> r,
                   kind |-> "map", n |-> n]
<1>1. TypeInv'
  BY IInvTypeInv, MapForeignPagesType
<1>2. pc[t] = "idle"
  BY DEF MapForeignPages
<1>3. CASE \E st \in Status : Reject(t, st)
  BY <1>3, RejectIInv
<1>4. CASE /\ n \in 1 .. MaxPages
           /\ \E c \in FreeSlots :
                /\ FindGnttabIrp(<<Owner[t], r, "map">>) = {}
                /\ ctx' = [ctx EXCEPT ![c] = new]
                /\ held' = [held EXCEPT ![c] = {"ctx"}]
                /\ pc' = [pc EXCEPT ![t] = "mf_build"]
                /\ cur' = [cur EXCEPT ![t] = c]
                /\ UNCHANGED <<shared, completions, page, ret>>
  <2>1. PICK c0 \in FreeSlots :
                /\ ctx' = [ctx EXCEPT ![c0] = new]
                /\ held' = [held EXCEPT ![c0] = {"ctx"}]
                /\ pc' = [pc EXCEPT ![t] = "mf_build"]
                /\ cur' = [cur EXCEPT ![t] = c0]
                /\ UNCHANGED <<shared, completions, page, ret>>
    BY <1>4
  <2>2. c0 \in Ctx /\ ctx[c0].state = "unused" /\ SharedOf(c0) = {} /\ completions[c0] = 0
    BY DEF FreeSlots, IInv, CtxInv
  <2>3. ctx'[c0] = new /\ held'[c0] = {"ctx"} /\ pc'[t] = "mf_build" /\ cur'[t] = c0
    BY <2>1, <2>2 DEF IInv, TypeOK
  <2>4. SharedOf(c0)' = {}
    BY <2>1, <2>2 DEF SharedOf
  <2>5. CtxInv(c0)'
    <3>1. ctx'[c0].state = "building"
      <4>1. ctx'[c0] = new
        BY <2>3
      <4>2. new.state = "building"
        BY DEF new
      <4>3. QED
        BY <4>1, <4>2
    <3>2. completions'[c0] = 0
      BY <2>1, <2>2
    <3>3. pc'[t] \in Building /\ cur'[t] = c0
      BY <2>3 DEF Building
    <3>4. QED
      BY <3>1, <3>2, <3>3 DEF CtxInv
  <2>6. ThreadInv(t)'
    <3>1. Owner[t] \in Procs
      BY GnttabAssumption
    <3>2. /\ ctx'[c0].state = "building" /\ ctx'[c0].kind = "map"
          /\ ctx'[c0].proc \in Procs /\ ctx'[c0].n \in 1 .. MaxPages
      BY <1>4, <2>3, <3>1
    <3>3. QED
      BY <2>3, <2>4, <3>2 DEF ThreadInv
  <2>7. QED
    BY <1>1, <1>2, <2>1, <2>2, <2>3, <2>5, <2>6, NoBuilder, FrameStep
       DEF Building, SharedOf, IInv, TypeOK
<1>5. QED
  BY <1>3, <1>4, Zenon DEF MapForeignPages, Status

\* The thread t building grant context cur[t] in the sharing loop.
LEMMA PfShareFacts ==
    ASSUME IInv, NEW t \in Threads, pc[t] = "pf_share"
    PROVE  LET c == cur[t] IN
           /\ c \in Ctx
           /\ ctx[c].state = "building" /\ ctx[c].kind = "grant"
           /\ held[c] = BuildRes /\ ctx[c].n \in 1 .. MaxPages
           /\ ctx[c].proc \in Procs
           /\ page[t] \in 0 .. ctx[c].n
           /\ SharedOf(c) = 0 .. (page[t] - 1)
           /\ completions[c] = 0
           /\ \A u \in Threads \ {t} : pc[u] \in Building => cur[u] # c
<1>1. cur[t] \in Ctx /\ page[t] \in Nat
  BY DEF IInv, TypeOK
<1>2. QED
  BY <1>1 DEF IInv, ThreadInv, CtxInv, BuildersDistinct, Building

\* In a checked build the unwind revokes exactly the k pages shared so far.
LEMMA RevokeAll ==
    ASSUME AssertEvaluates = TRUE, NEW c0, NEW k \in Nat,
           shared' = shared \ UnwindRevoked(c0, k), SharedOf(c0) = 0 .. (k - 1)
    PROVE  \A c : SharedOf(c)' = IF c = c0 THEN {} ELSE SharedOf(c)
<1>1. UnwindRevoked(c0, k) = {<<c0, p>> : p \in 0 .. (k - 1)}
  <2>1. ASSUME NEW p \in 1 .. k PROVE p - 1 \in 0 .. (k - 1)
    OBVIOUS
  <2>2. ASSUME NEW q \in 0 .. (k - 1) PROVE q + 1 \in 1 .. k /\ q = (q + 1) - 1
    OBVIOUS
  <2>3. QED
    BY <2>1, <2>2, Zenon DEF UnwindRevoked
<1>2. \A c : SharedOf(c)' = IF c = c0 THEN SharedOf(c) \ (0 .. (k - 1)) ELSE SharedOf(c)
  BY <1>1, SharedOfRemove
<1>3. QED
  BY <1>2

\* A failed build step: the builder t frees c0, which ends up holding
\* nothing and sharing nothing, and t returns.
LEMMA BuildFailIInv ==
    ASSUME IInv, TypeInv', NEW t \in Threads, NEW c0 \in Ctx, NEW st,
           pc[t] \in Building, cur[t] = c0,
           held' = [held EXCEPT ![c0] = {}],
           \A c \in Ctx : SharedOf(c)' = IF c = c0 THEN {} ELSE SharedOf(c),
           SetState(c0, "freed"), Return(t, st), UNCHANGED <<completions, cur, page>>
    PROVE  IInv'
<1>1. ctx[c0].state = "building" /\ completions[c0] = 0
  BY DEF IInv, ThreadInv, CtxInv, Building
<1>2. \A u \in Threads \ {t} : pc[u] \in Building => cur[u] # c0
  BY DEF IInv, BuildersDistinct
<1>3. ctx'[c0].state = "freed" /\ pc'[t] = "idle"
  BY DEF SetState, Return, IInv, TypeOK
<1>4. CtxInv(c0)'
  <2>1. held'[c0] = {} /\ SharedOf(c0)' = {} /\ completions'[c0] = 0
    BY <1>1 DEF IInv, TypeOK
  <2>2. completions'[c0] <= 1
    BY <2>1
  <2>3. QED
    BY <1>3, <2>1, <2>2 DEF CtxInv
<1>5. ThreadInv(t)'
  BY <1>3 DEF ThreadInv
<1>6. \A c \in Ctx \ {c0} : /\ ctx'[c] = ctx[c] /\ held'[c] = held[c]
                            /\ completions'[c] = completions[c]
                            /\ SharedOf(c)' = SharedOf(c)
  BY DEF SetState
<1>7. \A u \in Threads \ {t} : pc'[u] = pc[u] /\ cur'[u] = cur[u] /\ page'[u] = page[u]
  BY DEF Return
<1>8. pc'[t] \notin Building
  BY <1>3 DEF Building
<1>9. QED
  BY <1>2, <1>3, <1>4, <1>5, <1>6, <1>7, <1>8, FrameStep

\* One turn of the sharing loop, or its failure to fail8.
LEMMA PermitShareIInv ==
    ASSUME AssertEvaluates = TRUE, IInv, NEW t \in Threads, PermitShare(t)
    PROVE  IInv'
<1>1. TypeInv'
  BY IInvTypeInv, PermitShareType
<1>2. PICK c0 \in Ctx : c0 = cur[t]
  BY DEF PermitShare, IInv
<1>3. pc[t] = "pf_share" /\ page[t] < ctx[c0].n
  BY <1>2 DEF PermitShare, SharingLoopRuns
<1>4. /\ ctx[c0].state = "building" /\ ctx[c0].kind = "grant"
      /\ held[c0] = BuildRes /\ ctx[c0].n \in 1 .. MaxPages
      /\ ctx[c0].proc \in Procs
      /\ page[t] \in 0 .. ctx[c0].n
      /\ SharedOf(c0) = 0 .. (page[t] - 1)
      /\ completions[c0] = 0
      /\ \A u \in Threads \ {t} : pc[u] \in Building => cur[u] # c0
  BY <1>2, <1>3, PfShareFacts
<1>5. page[t] \in Pages /\ page[t] \in Nat
  BY <1>3, <1>4, GnttabAssumption DEF Pages
<1>6. CASE /\ shared' = shared \cup {<<c0, page[t]>>}
           /\ page' = [page EXCEPT ![t] = @ + 1]
           /\ UNCHANGED <<ctx, held, completions, pc, cur, ret>>
  <2>1. \A c \in Ctx : SharedOf(c)' = IF c = c0 THEN SharedOf(c) \cup {page[t]} ELSE SharedOf(c)
    BY <1>5, <1>6, SharedOfAdd
  <2>2. page'[t] = page[t] + 1
    BY <1>6 DEF IInv, TypeOK
  <2>3. (0 .. (page[t] - 1)) \cup {page[t]} = 0 .. (page'[t] - 1)
    BY <1>5, <2>2
  <2>4. SharedOf(c0)' = 0 .. (page'[t] - 1)
    BY <1>4, <2>1, <2>3
  <2>5. CtxInv(c0)'
    BY <1>3, <1>4, <1>6, <1>2 DEF CtxInv, Building
  <2>6. ThreadInv(t)'
    <3>1. page'[t] <= ctx'[c0].n
      BY <1>3, <1>4, <1>5, <1>6, <2>2, GnttabAssumption
    <3>2. QED
      BY <1>2, <1>3, <1>4, <1>6, <2>4, <3>1 DEF ThreadInv
  <2>7. \A c \in Ctx \ {c0} : /\ ctx'[c] = ctx[c] /\ held'[c] = held[c]
                              /\ completions'[c] = completions[c]
                              /\ SharedOf(c)' = SharedOf(c)
    BY <1>6, <2>1
  <2>8. \A u \in Threads \ {t} : pc'[u] = pc[u] /\ cur'[u] = cur[u] /\ page'[u] = page[u]
    BY <1>6 DEF IInv, TypeOK
  <2>9. ctx'[c0].state # "pending"
    BY <1>4, <1>6
  <2>10. QED
    BY <1>1, <1>2, <1>4, <1>6, <2>5, <2>6, <2>7, <2>8, <2>9, FrameStep
<1>7. CASE /\ GrantUnwind(c0, held[c0], 8, page[t])
           /\ SetState(c0, "freed")
           /\ Return(t, "error")
           /\ UNCHANGED <<completions, cur, page>>
  <2>1. BuildRes \subseteq Released(GrantLadder, 8)
    BY GrantBuiltUnwound
  <2>2. held' = [held EXCEPT ![c0] = {}]
    BY <1>4, <1>7, <2>1 DEF GrantUnwind
  <2>3. shared' = shared \ UnwindRevoked(c0, page[t])
    BY <1>7 DEF GrantUnwind
  <2>4. \A c \in Ctx : SharedOf(c)' = IF c = c0 THEN {} ELSE SharedOf(c)
    BY <1>4, <1>5, <2>3, RevokeAll
  <2>5. pc[t] \in Building
    BY <1>3 DEF Building
  <2>6. QED
    BY <1>1, <1>2, <1>7, <2>2, <2>4, <2>5, BuildFailIInv, Zenon
<1>8. QED
  BY <1>2, <1>6, <1>7 DEF PermitShare


\* A build that reaches IoCsqInsertIrpEx with a fresh key: c0 becomes
\* pending, fully built, and t goes on to the tail of XenIfaceIoctl.
LEMMA QueueIInv ==
    ASSUME IInv, TypeInv', NEW t \in Threads, NEW c0 \in Ctx,
           pc[t] \in Building, cur[t] = c0, ~CsqInsertFails(c0),
           held' = [held EXCEPT ![c0] = FullRes(c0)],
           SharedOf(c0) = IF ctx[c0].kind = "grant" THEN 0 .. (ctx[c0].n - 1) ELSE {},
           SetState(c0, "pending"), pc' = [pc EXCEPT ![t] = "returning"],
           UNCHANGED <<shared, completions, cur, page, ret>>
    PROVE  IInv'
<1>1. /\ ctx[c0].state = "building" /\ completions[c0] = 0
      /\ ctx[c0].n \in 1 .. MaxPages /\ ctx[c0].proc \in Procs
  BY DEF IInv, ThreadInv, CtxInv, Building
<1>2. \A u \in Threads \ {t} : pc[u] \in Building => cur[u] # c0
  BY DEF IInv, BuildersDistinct
<1>3. ctx'[c0] = [ctx[c0] EXCEPT !.state = "pending"]
  BY DEF SetState, IInv, TypeOK
<1>4. /\ ctx'[c0].state = "pending" /\ ctx'[c0].kind = ctx[c0].kind
      /\ ctx'[c0].n = ctx[c0].n /\ ctx'[c0].proc = ctx[c0].proc
      /\ ctx'[c0].rid = ctx[c0].rid
  BY <1>3 DEF IInv, TypeOK, CtxRec
<1>5. \A c : SharedOf(c)' = SharedOf(c)
  BY DEF SharedOf
<1>6. CtxInv(c0)'
  <2>1. held'[c0] = FullRes(c0)'
    BY <1>4 DEF FullRes, IInv, TypeOK
  <2>2. QueuedInv(c0)'
    BY <1>1, <1>4, <1>5, <2>1 DEF QueuedInv
  <2>3. QED
    BY <1>4, <2>2 DEF CtxInv
<1>7. ThreadInv(t)'
  BY DEF ThreadInv, IInv, TypeOK
<1>8. \A d \in Csq \ {c0} : Key(d) # <<ctx'[c0].proc, ctx'[c0].rid, ctx'[c0].kind>>
  BY <1>4 DEF CsqInsertFails, Key
<1>9. \A c \in Ctx \ {c0} : /\ ctx'[c] = ctx[c] /\ held'[c] = held[c]
                            /\ completions'[c] = completions[c]
                            /\ SharedOf(c)' = SharedOf(c)
  BY <1>5 DEF SetState
<1>10. \A u \in Threads \ {t} : pc'[u] = pc[u] /\ cur'[u] = cur[u] /\ page'[u] = page[u]
  OBVIOUS
<1>11. pc'[t] \notin Building
  BY DEF Building, IInv, TypeOK
<1>12. QED
  BY <1>2, <1>6, <1>7, <1>8, <1>9, <1>10, <1>11, FrameStep

\* The user mapping and IoCsqInsertIrpEx of a grant build (fail9, fail11, success).
LEMMA PermitQueueIInv ==
    ASSUME AssertEvaluates = TRUE, IInv, NEW t \in Threads, PermitQueue(t)
    PROVE  IInv'
<1>1. TypeInv'
  BY IInvTypeInv, PermitQueueType
<1>2. PICK c0 \in Ctx : c0 = cur[t]
  BY DEF PermitQueue, IInv
<1>3. pc[t] = "pf_share" /\ ~(page[t] < ctx[c0].n) /\ pc[t] \in Building
  BY <1>2 DEF PermitQueue, SharingLoopRuns, Building
<1>4. /\ ctx[c0].kind = "grant" /\ held[c0] = BuildRes
      /\ page[t] \in 0 .. ctx[c0].n /\ ctx[c0].n \in 1 .. MaxPages
      /\ SharedOf(c0) = 0 .. (page[t] - 1)
  BY <1>2, <1>3, PfShareFacts
<1>5. page[t] = ctx[c0].n /\ page[t] \in Nat
  <2>1. page[t] \in Nat /\ ctx[c0].n \in Nat
    BY <1>4, GnttabAssumption
  <2>2. QED
    BY <1>3, <1>4, <2>1
<1>6. UNCHANGED <<completions, cur, page>>
  BY DEF PermitQueue
<1>7. CASE /\ GrantUnwind(c0, held[c0], 9, page[t])
           /\ SetState(c0, "freed")
           /\ Return(t, "error")
  <2>1. BuildRes \subseteq Released(GrantLadder, 9)
    BY GrantBuiltUnwound
  <2>2. held' = [held EXCEPT ![c0] = {}]
    BY <1>4, <1>7, <2>1 DEF GrantUnwind
  <2>3. \A c \in Ctx : SharedOf(c)' = IF c = c0 THEN {} ELSE SharedOf(c)
    <3>1. shared' = shared \ UnwindRevoked(c0, page[t])
      BY <1>7 DEF GrantUnwind
    <3>2. QED
      BY <1>4, <1>5, <3>1, RevokeAll
  <2>4. QED
    BY <1>1, <1>2, <1>3, <1>6, <1>7, <2>2, <2>3, BuildFailIInv, Zenon
<1>8. CASE /\ CsqInsertFails(c0)
           /\ GrantUnwind(c0, held[c0] \cup {"umap"}, 11, page[t])
           /\ SetState(c0, "freed")
           /\ Return(t, "invalid")
  <2>1. GrantRes \subseteq Released(GrantLadder, 11)
    BY GrantBuiltUnwound
  <2>2. held' = [held EXCEPT ![c0] = {}]
    BY <1>4, <1>8, <2>1 DEF GrantUnwind, BuildRes, GrantRes
  <2>3. \A c \in Ctx : SharedOf(c)' = IF c = c0 THEN {} ELSE SharedOf(c)
    <3>1. shared' = shared \ UnwindRevoked(c0, page[t])
      BY <1>8 DEF GrantUnwind
    <3>2. QED
      BY <1>4, <1>5, <3>1, RevokeAll
  <2>4. QED
    BY <1>1, <1>2, <1>3, <1>6, <1>8, <2>2, <2>3, BuildFailIInv, Zenon
<1>9. CASE /\ ~CsqInsertFails(c0)
           /\ held' = [held EXCEPT ![c0] = @ \cup {"umap"}]
           /\ SetState(c0, "pending")
           /\ pc' = [pc EXCEPT ![t] = "returning"]
           /\ UNCHANGED <<shared, ret>>
  <2>1. held' = [held EXCEPT ![c0] = FullRes(c0)]
    BY <1>4, <1>9 DEF FullRes, BuildRes, GrantRes
  <2>2. SharedOf(c0) = IF ctx[c0].kind = "grant" THEN 0 .. (ctx[c0].n - 1) ELSE {}
    BY <1>4, <1>5
  <2>3. QED
    BY <1>1, <1>2, <1>3, <1>6, <1>9, <2>1, <2>2, QueueIInv
<1>10. QED
  BY <1>2, <1>7, <1>8, <1>9 DEF PermitQueue

\* The rest of a map build: the four steps, IoCsqInsertIrpEx, and their failures.
LEMMA MapQueueIInv ==
    ASSUME AssertEvaluates = TRUE, IInv, NEW t \in Threads, MapQueue(t)
    PROVE  IInv'
<1>1. TypeInv'
  BY IInvTypeInv, MapQueueType
<1>2. PICK c0 \in Ctx : c0 = cur[t]
  BY DEF MapQueue, IInv
<1>3. pc[t] = "mf_build" /\ pc[t] \in Building
  BY DEF MapQueue, Building
<1>4. /\ ctx[c0].kind = "map" /\ held[c0] = {"ctx"} /\ SharedOf(c0) = {}
  BY <1>2, <1>3 DEF IInv, ThreadInv
<1>5. UNCHANGED <<completions, cur, page>>
  BY DEF MapQueue
<1>6. ASSUME UNCHANGED shared
      PROVE  \A c \in Ctx : SharedOf(c)' = IF c = c0 THEN {} ELSE SharedOf(c)
  BY <1>4, <1>6 DEF SharedOf
<1>7. CASE \E i \in DOMAIN MapSteps :
            /\ MapUnwind(c0, Acquired(MapSteps, i), MapStepGoto[i])
            /\ SetState(c0, "freed")
            /\ Return(t, "error")
  <2>1. PICK i \in DOMAIN MapSteps :
            /\ MapUnwind(c0, Acquired(MapSteps, i), MapStepGoto[i])
            /\ SetState(c0, "freed")
            /\ Return(t, "error")
    BY <1>7
  <2>2. held' = [held EXCEPT ![c0] = {}]
    BY <2>1, MapStepUnwound DEF MapUnwind
  <2>3. QED
    BY <1>1, <1>2, <1>3, <1>5, <1>6, <2>1, <2>2, BuildFailIInv, Zenon DEF MapUnwind
<1>8. CASE /\ CsqInsertFails(c0)
           /\ MapUnwind(c0, MapRes, 11)
           /\ SetState(c0, "freed")
           /\ Return(t, "invalid")
  <2>1. held' = [held EXCEPT ![c0] = {}]
    BY <1>8, MapQueuedUnwound DEF MapUnwind
  <2>2. QED
    BY <1>1, <1>2, <1>3, <1>5, <1>6, <1>8, <2>1, BuildFailIInv, Zenon DEF MapUnwind
<1>9. CASE /\ ~CsqInsertFails(c0)
           /\ held' = [held EXCEPT ![c0] = MapRes]
           /\ SetState(c0, "pending")
           /\ pc' = [pc EXCEPT ![t] = "returning"]
           /\ UNCHANGED <<shared, ret>>
  <2>1. held' = [held EXCEPT ![c0] = FullRes(c0)]
    BY <1>4, <1>9 DEF FullRes
  <2>2. SharedOf(c0) = IF ctx[c0].kind = "grant" THEN 0 .. (ctx[c0].n - 1) ELSE {}
    BY <1>4
  <2>3. UNCHANGED <<shared, completions, cur, page, ret>>
    BY <1>5, <1>9
  <2>4. QED
    BY <1>1, <1>2, <1>3, <1>9, <2>1, <2>2, <2>3, QueueIInv
<1>10. QED
  BY <1>2, <1>7, <1>8, <1>9 DEF MapQueue


-----------------------------------------------------------------------------
(* Induction.                                                              *)

LEMMA StutterIInv == IInv /\ UNCHANGED vars => IInv'
<1> SUFFICES ASSUME IInv, UNCHANGED vars PROVE IInv'
  OBVIOUS
<1>1. UNCHANGED <<ctx, held, shared, completions>> /\ UNCHANGED <<pc, cur, page>>
  BY DEF vars
<1>2. TypeOK'
  BY DEF vars, IInv, TypeOK
<1>3. QED
  BY <1>1, <1>2, FrozenIInv

\* Every step of the model preserves IInv in a checked build.
LEMMA NextIInv ==
    ASSUME AssertEvaluates = TRUE, IInv, [Next]_vars
    PROVE  IInv'
<1>1. ASSUME NEW t \in Threads, NEW r \in RequestIds, NEW n \in PageCounts,
             PermitForeignAccess(t, r, n) \/ MapForeignPages(t, r, n)
      PROVE  IInv'
  BY <1>1, PermitForeignAccessIInv, MapForeignPagesIInv
<1>2. ASSUME NEW t \in Threads,
             PermitShare(t) \/ PermitQueue(t) \/ MapQueue(t) \/ DispatchReturn(t)
      PROVE  IInv'
  BY <1>2, PermitShareIInv, PermitQueueIInv, MapQueueIInv, DispatchReturnIInv
<1>3. ASSUME NEW t \in Threads, NEW r \in RequestIds, NEW k \in Kinds,
             GetResult(t, r, k) \/ Release(t, r, k)
      PROVE  IInv'
  BY <1>3, GetResultIInv, ReleaseIInv
<1>4. ASSUME NEW c \in Ctx, CancelIrp(c) \/ CompleteGnttabIrp(c)
      PROVE  IInv'
  BY <1>4, CancelIrpIInv, CompleteGnttabIrpIInv
<1>5. CASE UNCHANGED vars
  BY <1>5, StutterIInv
<1>6. QED
  BY <1>1, <1>2, <1>3, <1>4, <1>5 DEF Next

\* In a checked build (ASSERT evaluates its argument), every reachable state
\* of the grant and map handlers, the CSQ and the CompleteGnttabIrp work item
\* satisfies PendingFullyBuilt, NoLeak, UniquePending and CompletedOnce, for
\* every number of processes, threads, request ids, slots and pages.
THEOREM SafetyCorrect ==
    ASSUME AssertEvaluates = TRUE
    PROVE  Spec => [](PendingFullyBuilt /\ NoLeak /\ UniquePending /\ CompletedOnce)
<1>1. Init => IInv
  BY InitIInv
<1>2. IInv /\ [Next]_vars => IInv'
  BY NextIInv
<1>3. IInv => PendingFullyBuilt /\ NoLeak /\ UniquePending /\ CompletedOnce
  BY IInvSafety DEF Safety
<1>4. QED
  BY <1>1, <1>2, <1>3, PTL DEF Spec

\* A failed grant or map build, at any label of the goto ladder, and every
\* teardown leave the slot holding nothing and no page granted (checked build).
COROLLARY NoLeakCorrect ==
    ASSUME AssertEvaluates = TRUE PROVE Spec => []NoLeak
BY SafetyCorrect, PTL

\* The id check in the handlers and the re-check in IoCsqInsertIrpEx never
\* let two parked IRPs share (process, request id, kind).
COROLLARY UniquePendingCorrect ==
    ASSUME AssertEvaluates = TRUE PROVE Spec => []UniquePending
BY SafetyCorrect, PTL

\* Revoke/Unmap racing the cancel routine and CompleteGnttabIrp never
\* complete an IRP twice, nor before its context is freed.
COROLLARY CompletedOnceCorrect ==
    ASSUME AssertEvaluates = TRUE PROVE Spec => []CompletedOnce
BY SafetyCorrect, PTL

\* A context found by request id holds every resource of a finished build and,
\* for a grant, shares every page.
COROLLARY PendingFullyBuiltCorrect ==
    ASSUME AssertEvaluates = TRUE PROVE Spec => []PendingFullyBuilt
BY SafetyCorrect, PTL

=============================================================================
