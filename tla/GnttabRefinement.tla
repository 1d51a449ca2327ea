-------------------------- MODULE GnttabRefinement --------------------------
(***************************************************************************)
(* Proof that the grant-table handlers of Gnttab implement GnttabRequests  *)
(* under the mapping ReqQueue / ReqCancelled, in a checked and in a free   *)
(* build alike, and that a parked key is therefore unique and an IRP       *)
(* completed at most once whatever ASSERT does.                            *)
(***************************************************************************)
EXTENDS GnttabSafety

\* A thread inside a build handler works on a context still being built.
BuildOwned ==
    \A t \in Threads : pc[t] \in Building => ctx[cur[t]].state = "building"

\* What the refinement proof assumes of a state.  Unlike IInv it says
\* nothing of what a slot holds, so it does not depend on the unwinding
\* that ASSERT performs only in a checked build.
RefInv ==
    /\ TypeInv
    /\ BuildOwned
    /\ BuildersDistinct
    /\ UniquePending
    /\ CompletedOnce

-----------------------------------------------------------------------------
(* Lemmas about the mapping                                                *)

\* SetState changes the state of one slot and no key.
LEMMA SetStateFacts ==
    ASSUME TypeOK, NEW c0 \in Ctx, NEW s, SetState(c0, s)
    PROVE  \A c \in Ctx : /\ Key(c)' = Key(c)
                          /\ ctx'[c].state = IF c = c0 THEN s ELSE ctx[c].state
                          /\ c # c0 => ctx'[c] = ctx[c]
BY DEF SetState, TypeOK, Key

\* Both teardowns mark the context freed and touch no other field.
LEMMA GnttabFreeFreed ==
    ASSUME NEW c0, NEW space, GnttabFree(c0, space)
    PROVE  SetState(c0, "freed")
BY DEF GnttabFree, GnttabFreeGrant, GnttabFreeMap, SetState

\* A step that changes one slot, which is neither parked nor cancelled
\* before or after, and no completion, leaves the queue untouched.
LEMMA QueueStutter ==
    ASSUME NEW c0 \in Ctx,
           \A c \in Ctx \ {c0} : ctx'[c] = ctx[c],
           ctx[c0].state \notin {"pending", "cancelling"},
           ctx'[c0].state \notin {"pending", "cancelling"},
           UNCHANGED completions
    PROVE  UNCHANGED Req!reqVars
<1>1. Csq' = Csq
  BY DEF Csq
<1>2. \A c \in Csq : Key(c)' = Key(c)
  BY DEF Csq, Key
<1>3. ReqQueue' = ReqQueue
  BY <1>1, <1>2 DEF ReqQueue
<1>4. ReqCancelled' = ReqCancelled
  BY DEF ReqCancelled
<1>5. QED
  BY <1>3, <1>4 DEF Req!reqVars

\* The parked requests of the abstraction are the contexts in the CSQ.
LEMMA ParkedIsCsq == Req!Parked = Csq
<1>1. \A c \in Csq : <<c, Key(c)>> \in ReqQueue /\ <<c, Key(c)>>[1] = c
  BY DEF ReqQueue
<1>2. Csq \subseteq Req!Parked
  BY <1>1 DEF Req!Parked
<1>3. \A e \in ReqQueue : e[1] \in Csq
  BY DEF ReqQueue
<1>4. Req!Parked \subseteq Csq
  BY <1>3 DEF Req!Parked
<1>5. QED
  BY <1>2, <1>4

-----------------------------------------------------------------------------
(* Lemmas about the parts of RefInv                                        *)

\* Only a context being built can be some builder's.
LEMMA NotBuilt ==
    ASSUME TypeInv, BuildOwned, NEW c0 \in Ctx, ctx[c0].state # "building"
    PROVE  \A u \in Threads : pc[u] \in Building => cur[u] # c0
BY DEF BuildOwned, TypeInv, Building

\* A step that changes the state of slot c0 only, starts no builder and
\* moves no builder, where no builder that stays one works on c0, keeps
\* the builders on contexts of their own that are still being built.
LEMMA BuildKept ==
    ASSUME TypeInv, BuildOwned, BuildersDistinct, NEW c0 \in Ctx,
           \A c \in Ctx \ {c0} : ctx'[c].state = ctx[c].state,
           \A u \in Threads : pc'[u] \in Building =>
                                 pc[u] \in Building /\ cur'[u] = cur[u] /\ cur[u] # c0
    PROVE  BuildOwned' /\ BuildersDistinct'
<1>1. BuildOwned'
  BY DEF BuildOwned, TypeInv, Building
<1>2. BuildersDistinct'
  BY DEF BuildersDistinct
<1>3. QED
  BY <1>1, <1>2

\* Dropping IRPs from the CSQ while the keys of those that stay are kept
\* keeps the keys unique.
LEMMA UniqueKept ==
    ASSUME UniquePending, Csq' \subseteq Csq, \A c \in Csq' : Key(c)' = Key(c)
    PROVE  UniquePending'
BY DEF UniquePending, Csq

\* A step that changes the state and completion count of slot c0 only
\* keeps CompletedOnce when c0 ends within it.
LEMMA CompletedKept ==
    ASSUME CompletedOnce, NEW c0 \in Ctx,
           \A c \in Ctx \ {c0} : ctx'[c].state = ctx[c].state /\ completions'[c] = completions[c],
           completions'[c0] <= 1,
           ctx'[c0].state # "freed" => completions'[c0] = 0
    PROVE  CompletedOnce'
BY DEF CompletedOnce

\* Every key is one of the abstraction's keys.
LEMMA KeyInKeys ==
    ASSUME TypeOK, NEW c \in Ctx
    PROVE  Key(c) \in (Procs \cup {System}) \X RequestIds \X Kinds
BY DEF TypeOK, CtxRec, Key

\* Taking c0 out of the CSQ, keys kept, takes its pair out of the queue.
LEMMA QueueRemove ==
    ASSUME NEW c0 \in Csq, Csq' = Csq \ {c0}, \A c \in Csq' : Key(c)' = Key(c)
    PROVE  ReqQueue' = ReqQueue \ {<<c0, Key(c0)>>}
<1>1. ReqQueue' = {<<c, Key(c)>> : c \in Csq \ {c0}}
  BY DEF ReqQueue
<1>2. QED
  BY <1>1 DEF ReqQueue

\* Putting c0 into the CSQ, keys kept, adds its pair to the queue.
LEMMA QueueAdd ==
    ASSUME NEW c0, c0 \notin Csq, Csq' = Csq \cup {c0}, \A c \in Csq' : Key(c)' = Key(c)
    PROVE  ReqQueue' = ReqQueue \cup {<<c0, Key(c0)>>}
<1>1. ReqQueue' = {<<c, Key(c)>> : c \in Csq \cup {c0}}
  BY DEF ReqQueue
<1>2. QED
  BY <1>1 DEF ReqQueue

-----------------------------------------------------------------------------
(* Each action keeps RefInv and is a step of GnttabRequests or a stutter   *)

\* What each action lemma establishes.
RefStep == RefInv' /\ [Req!Next]_Req!reqVars

\* A step that changes no context, no completion and no cur, and starts no
\* builder: a rejected request, a dispatch return, a result query, a
\* Revoke/Unmap that finds nothing, a page shared.
LEMMA QuietStep ==
    ASSUME RefInv, TypeInv', UNCHANGED <<ctx, completions, cur>>,
           \A u \in Threads : pc'[u] \in Building => pc[u] \in Building
    PROVE  RefStep
<1>1. BuildOwned' /\ BuildersDistinct'
  BY DEF RefInv, BuildOwned, BuildersDistinct
<1>2. UniquePending' /\ CompletedOnce'
  BY DEF RefInv, UniquePending, CompletedOnce, Csq, Key
<1>3. UNCHANGED Req!reqVars
  BY DEF Req!reqVars, ReqQueue, ReqCancelled, Csq, Key
<1>4. QED
  BY <1>1, <1>2, <1>3 DEF RefStep, RefInv

\* The I/O manager cancels a parked IRP: Cancel of the abstraction.
LEMMA CancelIrpRefines ==
    ASSUME RefInv, NEW c0 \in Ctx, CancelIrp(c0)
    PROVE  RefStep
<1>1. TypeInv'
  BY NextTypeInv DEF RefInv, Next
<1>2. /\ ctx[c0].state = "pending" /\ SetState(c0, "cancelling")
      /\ UNCHANGED <<completions, pc, cur>>
  BY DEF CancelIrp
<1>3. \A c \in Ctx : /\ Key(c)' = Key(c)
                     /\ ctx'[c].state = IF c = c0 THEN "cancelling" ELSE ctx[c].state
  BY <1>2, SetStateFacts DEF RefInv, TypeInv
<1>4. BuildOwned' /\ BuildersDistinct'
  BY <1>2, <1>3, NotBuilt, BuildKept DEF RefInv
<1>5. Csq' = Csq \ {c0} /\ c0 \in Csq
  BY <1>2, <1>3 DEF Csq
<1>6. UniquePending'
  BY <1>3, <1>5, UniqueKept DEF RefInv, Csq
<1>7. CompletedOnce'
  BY <1>2, <1>3, CompletedKept DEF RefInv, CompletedOnce
<1>8. Req!Cancel(c0)
  <2>1. ReqQueue' = ReqQueue \ {<<c0, Key(c0)>>}
    <3>1. \A c \in Csq' : Key(c)' = Key(c)
      BY <1>3 DEF Csq
    <3>2. QED
      BY <1>5, <3>1, QueueRemove
  <2>5. <<c0, Key(c0)>> \in ReqQueue
    BY <1>5 DEF ReqQueue
  <2>2. ReqCancelled' = ReqCancelled \cup {c0}
    BY <1>3 DEF ReqCancelled
  <2>3. Key(c0) \in (Procs \cup {System}) \X RequestIds \X Kinds
    BY KeyInKeys DEF RefInv, TypeInv
  <2>4. QED
    BY <1>2, <2>1, <2>2, <2>3, <2>5 DEF Req!Cancel
<1>9. QED
  BY <1>1, <1>4, <1>6, <1>7, <1>8 DEF RefStep, RefInv, Req!Next

\* The CompleteGnttabIrp work item: Finish of the abstraction.
LEMMA CompleteGnttabIrpRefines ==
    ASSUME RefInv, NEW c0 \in Ctx, CompleteGnttabIrp(c0)
    PROVE  RefStep
<1> DEFINE space == IF System # ctx[c0].proc THEN ctx[c0].proc ELSE System
<1>1. TypeInv'
  BY NextTypeInv DEF RefInv, Next
<1>2. /\ ctx[c0].state = "cancelling" /\ GnttabFree(c0, space) /\ Complete(c0)
      /\ UNCHANGED <<pc, cur>>
  BY DEF CompleteGnttabIrp
<1>3. \A c \in Ctx : /\ Key(c)' = Key(c)
                     /\ ctx'[c].state = IF c = c0 THEN "freed" ELSE ctx[c].state
  BY <1>2, GnttabFreeFreed, SetStateFacts DEF RefInv, TypeInv
<1>4. BuildOwned' /\ BuildersDistinct'
  BY <1>2, <1>3, NotBuilt, BuildKept DEF RefInv
<1>5. Csq' = Csq
  BY <1>2, <1>3 DEF Csq
<1>6. UniquePending'
  BY <1>3, <1>5, UniqueKept DEF RefInv, Csq
<1>7. completions[c0] = 0 /\ completions' = [completions EXCEPT ![c0] = @ + 1]
  BY <1>2 DEF RefInv, CompletedOnce, Complete
<1>8. CompletedOnce'
  BY <1>3, <1>7, CompletedKept DEF RefInv, TypeInv, TypeOK
<1>9. Req!Finish(c0)
  <2>1. ReqQueue' = ReqQueue
    BY <1>3, <1>5 DEF ReqQueue, Csq
  <2>2. ReqCancelled' = ReqCancelled \ {c0} /\ c0 \in ReqCancelled
    BY <1>2, <1>3 DEF ReqCancelled
  <2>3. QED
    BY <1>7, <2>1, <2>2 DEF Req!Finish
<1>10. QED
  BY <1>1, <1>4, <1>6, <1>8, <1>9 DEF RefStep, RefInv, Req!Next


\* Revoke/Unmap: Take of the abstraction, or a stutter when nothing is
\* parked under the key.
LEMMA ReleaseRefines ==
    ASSUME RefInv, NEW t \in Threads, NEW r \in RequestIds, NEW k \in Kinds,
           Release(t, r, k)
    PROVE  RefStep
<1> DEFINE key == <<Owner[t], r, k>>
<1>1. TypeInv'
  BY NextTypeInv DEF RefInv, Next
<1>2. UNCHANGED <<pc, cur>>
  BY DEF Release
<1>3. CASE \E c \in FindGnttabIrp(key) :
              GnttabFree(c, Owner[t]) /\ Complete(c)
  <2>1. PICK c0 \in FindGnttabIrp(key) : GnttabFree(c0, Owner[t]) /\ Complete(c0)
    BY <1>3
  <2>2. c0 \in Ctx /\ c0 \in Csq /\ ctx[c0].state = "pending" /\ Key(c0) = key
    BY DEF FindGnttabIrp, Csq
  <2>3. \A c \in Ctx : /\ Key(c)' = Key(c)
                       /\ ctx'[c].state = IF c = c0 THEN "freed" ELSE ctx[c].state
    BY <2>1, <2>2, GnttabFreeFreed, SetStateFacts DEF RefInv, TypeInv
  <2>4. BuildOwned' /\ BuildersDistinct'
    BY <1>2, <2>2, <2>3, NotBuilt, BuildKept DEF RefInv
  <2>5. Csq' = Csq \ {c0}
    BY <2>2, <2>3 DEF Csq
  <2>6. UniquePending'
    BY <2>3, <2>5, UniqueKept DEF RefInv, Csq
  <2>7. completions[c0] = 0 /\ completions' = [completions EXCEPT ![c0] = @ + 1]
    BY <2>1, <2>2 DEF RefInv, CompletedOnce, Complete
  <2>8. CompletedOnce'
    BY <2>2, <2>3, <2>7, CompletedKept DEF RefInv, TypeInv, TypeOK
  <2>9. Req!Take(key)
    <3>1. ReqQueue' = ReqQueue \ {<<c0, key>>}
      <4>1. \A c \in Csq' : Key(c)' = Key(c)
        BY <2>3 DEF Csq
      <4>2. QED
        BY <2>2, <2>5, <4>1, QueueRemove
    <3>2. <<c0, key>> \in ReqQueue
      BY <2>2 DEF ReqQueue
    <3>3. ReqCancelled' = ReqCancelled
      BY <2>2, <2>3 DEF ReqCancelled
    <3>4. QED
      BY <2>2, <2>7, <3>1, <3>2, <3>3 DEF Req!Take
  <2>10. key \in (Procs \cup {System}) \X RequestIds \X Kinds
    BY GnttabAssumption
  <2>11. QED
    BY <1>1, <2>4, <2>6, <2>8, <2>9, <2>10 DEF RefStep, RefInv, Req!Next
<1>4. CASE UNCHANGED <<ctx, held, shared, completions>>
  BY <1>1, <1>2, <1>4, QuietStep
<1>5. QED
  BY <1>3, <1>4 DEF Release


\* A build that fails after the allocation: its context is freed, its
\* thread leaves the handler.  Nothing parked or completed changes.
LEMMA BuildFailRefines ==
    ASSUME RefInv, TypeInv', NEW t \in Threads, pc[t] \in Building,
           SetState(cur[t], "freed"), pc'[t] \notin Building,
           \A u \in Threads \ {t} : pc'[u] = pc[u],
           UNCHANGED <<completions, cur>>
    PROVE  RefStep
<1> DEFINE c0 == cur[t]
<1>1. c0 \in Ctx /\ ctx[c0].state = "building"
  BY DEF RefInv, TypeInv, BuildOwned, Building
<1>2. \A c \in Ctx : /\ Key(c)' = Key(c)
                     /\ ctx'[c].state = IF c = c0 THEN "freed" ELSE ctx[c].state
                     /\ c # c0 => ctx'[c] = ctx[c]
  BY <1>1, SetStateFacts DEF RefInv, TypeInv
<1>3. \A u \in Threads : pc'[u] \in Building =>
                            pc[u] \in Building /\ cur'[u] = cur[u] /\ cur[u] # c0
  BY DEF RefInv, BuildersDistinct
<1>4. BuildOwned' /\ BuildersDistinct'
  BY <1>1, <1>2, <1>3, BuildKept DEF RefInv
<1>5. Csq' = Csq
  BY <1>1, <1>2 DEF Csq
<1>6. UniquePending'
  BY <1>2, <1>5, UniqueKept DEF RefInv, Csq
<1>7. CompletedOnce'
  BY <1>1, <1>2, CompletedKept DEF RefInv, CompletedOnce
<1>8. UNCHANGED Req!reqVars
  BY <1>1, <1>2, QueueStutter
<1>9. QED
  BY <1>4, <1>6, <1>7, <1>8 DEF RefStep, RefInv

\* IoCsqInsertIrpEx parks a built context under a key no parked IRP has:
\* Park of the abstraction.
LEMMA QueueRefines ==
    ASSUME RefInv, TypeInv', NEW t \in Threads, pc[t] \in Building,
           ~CsqInsertFails(cur[t]), SetState(cur[t], "pending"),
           pc' = [pc EXCEPT ![t] = "returning"],
           UNCHANGED <<completions, cur>>
    PROVE  RefStep
<1> DEFINE c0 == cur[t]
<1>1. c0 \in Ctx /\ ctx[c0].state = "building"
  BY DEF RefInv, TypeInv, BuildOwned, Building
<1>2. \A c \in Ctx : /\ Key(c)' = Key(c)
                     /\ ctx'[c].state = IF c = c0 THEN "pending" ELSE ctx[c].state
  BY <1>1, SetStateFacts DEF RefInv, TypeInv
<1>3. \A u \in Threads : pc'[u] \in Building =>
                            pc[u] \in Building /\ cur'[u] = cur[u] /\ cur[u] # c0
  BY DEF RefInv, BuildersDistinct, TypeInv, TypeOK, Building
<1>4. BuildOwned' /\ BuildersDistinct'
  BY <1>1, <1>2, <1>3, BuildKept DEF RefInv
<1>5. Csq' = Csq \cup {c0} /\ c0 \notin Csq
  BY <1>1, <1>2 DEF Csq
<1>6. \A d \in Csq : Key(d) # Key(c0)
  BY DEF CsqInsertFails
<1>7. UniquePending'
  BY <1>2, <1>5, <1>6 DEF RefInv, UniquePending, Csq
<1>8. completions[c0] = 0
  BY <1>1 DEF RefInv, CompletedOnce
<1>9. CompletedOnce'
  BY <1>1, <1>2, <1>8, CompletedKept DEF RefInv, CompletedOnce
<1>10. Req!Park(c0, Key(c0))
  <2>1. c0 \notin Req!Parked \cup ReqCancelled
    BY <1>1, <1>5, ParkedIsCsq DEF ReqCancelled
  <2>2. \A e \in ReqQueue : e[2] # Key(c0)
    BY <1>6 DEF ReqQueue
  <2>3. ReqQueue' = ReqQueue \cup {<<c0, Key(c0)>>}
    <3>1. \A c \in Csq' : Key(c)' = Key(c)
      BY <1>2 DEF Csq
    <3>2. QED
      BY <1>5, <3>1, QueueAdd
  <2>4. ReqCancelled' = ReqCancelled
    BY <1>1, <1>2 DEF ReqCancelled
  <2>5. QED
    BY <1>8, <2>1, <2>2, <2>3, <2>4 DEF Req!Park
<1>11. Key(c0) \in (Procs \cup {System}) \X RequestIds \X Kinds
  BY <1>1, KeyInKeys DEF RefInv, TypeInv
<1>12. Req!Next
  BY <1>1, <1>10, <1>11 DEF Req!Next
<1>13. QED
  BY <1>4, <1>7, <1>9, <1>12 DEF RefStep, RefInv

\* A context allocated from a free slot: either the build starts, with the
\* allocating thread as the one builder of the slot, or an allocation
\* fails and the slot is freed at once.  Neither touches the queue.
LEMMA AllocRefines ==
    ASSUME RefInv, TypeInv', NEW t \in Threads, pc[t] = "idle",
           NEW c0 \in FreeSlots, NEW R, ctx' = [ctx EXCEPT ![c0] = R],
           UNCHANGED completions,
           \/ R.state = "freed" /\ UNCHANGED <<pc, cur>>
           \/ /\ R.state = "building"
              /\ pc' = [pc EXCEPT ![t] = "pf_share"] \/ pc' = [pc EXCEPT ![t] = "mf_build"]
              /\ cur' = [cur EXCEPT ![t] = c0]
    PROVE  RefStep
<1>1. c0 \in Ctx /\ ctx[c0].state = "unused" /\ completions[c0] = 0
  BY DEF FreeSlots, RefInv, CompletedOnce
<1>2. \A c \in Ctx \ {c0} : ctx'[c] = ctx[c]
  BY DEF RefInv, TypeInv, TypeOK
<1>3. ctx'[c0].state \in {"freed", "building"}
  BY DEF RefInv, TypeInv, TypeOK
<1>4. \A u \in Threads : pc[u] \in Building => cur[u] # c0
  BY <1>1, NotBuilt DEF RefInv
<1>5. BuildOwned' /\ BuildersDistinct'
  <2>1. CASE R.state = "freed" /\ UNCHANGED <<pc, cur>>
    BY <1>1, <1>2, <1>4, <2>1, BuildKept DEF RefInv
  <2>2. CASE /\ R.state = "building"
             /\ pc' = [pc EXCEPT ![t] = "pf_share"] \/ pc' = [pc EXCEPT ![t] = "mf_build"]
             /\ cur' = [cur EXCEPT ![t] = c0]
    <3>1. ctx'[c0].state = "building"
      BY <2>2 DEF RefInv, TypeInv, TypeOK
    <3>2. BuildOwned'
      BY <1>2, <1>4, <2>2, <3>1 DEF RefInv, BuildOwned, TypeInv, TypeOK, Building
    <3>3. BuildersDistinct'
      BY <1>4, <2>2 DEF RefInv, BuildersDistinct, TypeInv, TypeOK, Building
    <3>4. QED
      BY <3>2, <3>3
  <2>3. QED
    BY <2>1, <2>2
<1>6. Csq' = Csq /\ \A c \in Csq : Key(c)' = Key(c)
  BY <1>1, <1>2, <1>3 DEF Csq, Key
<1>7. UniquePending'
  BY <1>6, UniqueKept DEF RefInv
<1>8. CompletedOnce'
  BY <1>1, <1>2, CompletedKept DEF RefInv, CompletedOnce
<1>9. UNCHANGED Req!reqVars
  BY <1>1, <1>2, <1>3, QueueStutter
<1>10. QED
  BY <1>5, <1>7, <1>8, <1>9 DEF RefStep, RefInv


\* IoctlGnttabPermitForeignAccess up to the sharing loop.
LEMMA PermitForeignAccessRefines ==
    ASSUME RefInv, NEW t \in Threads, NEW r \in RequestIds, NEW n \in PageCounts,
           PermitForeignAccess(t, r, n)
    PROVE  RefStep
<1> DEFINE new == [state |-> "building", proc |-> Owner[t], rid |-> r,
                   kind |-> "grant", n |-> n]
<1>1. TypeInv' /\ pc[t] = "idle"
  BY PermitForeignAccessType DEF RefInv, PermitForeignAccess
<1>2. CASE \E st \in Status : Reject(t, st)
  BY <1>1, <1>2, QuietStep DEF Reject
<1>3. CASE \E c \in FreeSlots :
             /\ \E i \in DOMAIN GrantAllocs :
                  ctx' = [ctx EXCEPT ![c] = [new EXCEPT !.state = "freed"]]
             /\ UNCHANGED <<completions, pc, cur>>
  <2>1. PICK c \in FreeSlots :
             /\ ctx' = [ctx EXCEPT ![c] = [new EXCEPT !.state = "freed"]]
             /\ UNCHANGED <<completions, pc, cur>>
    BY <1>3
  <2>2. [new EXCEPT !.state = "freed"].state = "freed"
    OBVIOUS
  <2>3. QED
    BY <1>1, <2>1, <2>2, AllocRefines
<1>4. CASE \E c \in FreeSlots :
             /\ ctx' = [ctx EXCEPT ![c] = new]
             /\ pc' = [pc EXCEPT ![t] = "pf_share"]
             /\ cur' = [cur EXCEPT ![t] = c]
             /\ UNCHANGED completions
  <2>1. PICK c \in FreeSlots :
             /\ ctx' = [ctx EXCEPT ![c] = new]
             /\ pc' = [pc EXCEPT ![t] = "pf_share"]
             /\ cur' = [cur EXCEPT ![t] = c]
             /\ UNCHANGED completions
    BY <1>4
  <2>2. new.state = "building"
    OBVIOUS
  <2>3. QED
    BY <1>1, <2>1, <2>2, AllocRefines
<1>5. QED
  BY <1>2, <1>3, <1>4 DEF PermitForeignAccess, Status

\* IoctlGnttabMapForeignPages up to the id check.
LEMMA MapForeignPagesRefines ==
    ASSUME RefInv, NEW t \in Threads, NEW r \in RequestIds, NEW n \in PageCounts,
           MapForeignPages(t, r, n)
    PROVE  RefStep
<1> DEFINE new == [state |-> "building", proc |-> Owner[t], rid |-> r,
                   kind |-> "map", n |-> n]
<1>1. TypeInv' /\ pc[t] = "idle"
  BY MapForeignPagesType DEF RefInv, MapForeignPages
<1>2. CASE \E st \in Status : Reject(t, st)
  BY <1>1, <1>2, QuietStep DEF Reject
<1>3. CASE \E c \in FreeSlots :
             /\ ctx' = [ctx EXCEPT ![c] = new]
             /\ pc' = [pc EXCEPT ![t] = "mf_build"]
             /\ cur' = [cur EXCEPT ![t] = c]
             /\ UNCHANGED completions
  <2>1. PICK c \in FreeSlots :
             /\ ctx' = [ctx EXCEPT ![c] = new]
             /\ pc' = [pc EXCEPT ![t] = "mf_build"]
             /\ cur' = [cur EXCEPT ![t] = c]
             /\ UNCHANGED completions
    BY <1>3
  <2>2. new.state = "building"
    OBVIOUS
  <2>3. QED
    BY <1>1, <2>1, <2>2, AllocRefines
<1>4. QED
  BY <1>2, <1>3 DEF MapForeignPages, Status

\* A turn of the sharing loop, or its failure.
LEMMA PermitShareRefines ==
    ASSUME RefInv, NEW t \in Threads, PermitShare(t)
    PROVE  RefStep
<1>1. TypeInv' /\ pc[t] = "pf_share" /\ pc[t] \in Building
  BY PermitShareType DEF RefInv, PermitShare, Building
<1>2. CASE UNCHANGED <<ctx, completions, pc, cur>>
  BY <1>1, <1>2, QuietStep
<1>3. CASE SetState(cur[t], "freed") /\ Return(t, "error") /\ UNCHANGED <<completions, cur>>
  <2>1. pc' = [pc EXCEPT ![t] = "idle"]
    BY <1>3 DEF Return
  <2>2. pc'[t] \notin Building /\ \A u \in Threads \ {t} : pc'[u] = pc[u]
    BY <2>1 DEF RefInv, TypeInv, TypeOK, Building
  <2>3. QED
    BY <1>1, <1>3, <2>2, BuildFailRefines
<1>4. QED
  BY <1>2, <1>3 DEF PermitShare

\* The end of a grant build: a failure, or the IRP parked.
LEMMA PermitQueueRefines ==
    ASSUME RefInv, NEW t \in Threads, PermitQueue(t)
    PROVE  RefStep
<1>1. TypeInv' /\ pc[t] = "pf_share" /\ pc[t] \in Building /\ UNCHANGED <<completions, cur>>
  BY PermitQueueType DEF RefInv, PermitQueue, Building
<1>2. CASE SetState(cur[t], "freed") /\ \E st \in Status : Return(t, st)
  <2>1. pc' = [pc EXCEPT ![t] = "idle"]
    BY <1>2 DEF Return
  <2>2. pc'[t] \notin Building /\ \A u \in Threads \ {t} : pc'[u] = pc[u]
    BY <2>1 DEF RefInv, TypeInv, TypeOK, Building
  <2>3. QED
    BY <1>1, <1>2, <2>2, BuildFailRefines
<1>3. CASE ~CsqInsertFails(cur[t]) /\ SetState(cur[t], "pending")
           /\ pc' = [pc EXCEPT ![t] = "returning"]
  BY <1>1, <1>3, QueueRefines
<1>4. QED
  BY <1>2, <1>3 DEF PermitQueue, Status

\* The end of a map build: a failure, or the IRP parked.
LEMMA MapQueueRefines ==
    ASSUME RefInv, NEW t \in Threads, MapQueue(t)
    PROVE  RefStep
<1>1. TypeInv' /\ pc[t] = "mf_build" /\ pc[t] \in Building /\ UNCHANGED <<completions, cur>>
  BY MapQueueType DEF RefInv, MapQueue, Building
<1>2. CASE SetState(cur[t], "freed") /\ \E st \in Status : Return(t, st)
  <2>1. pc' = [pc EXCEPT ![t] = "idle"]
    BY <1>2 DEF Return
  <2>2. pc'[t] \notin Building /\ \A u \in Threads \ {t} : pc'[u] = pc[u]
    BY <2>1 DEF RefInv, TypeInv, TypeOK, Building
  <2>3. QED
    BY <1>1, <1>2, <2>2, BuildFailRefines
<1>3. CASE ~CsqInsertFails(cur[t]) /\ SetState(cur[t], "pending")
           /\ pc' = [pc EXCEPT ![t] = "returning"]
  BY <1>1, <1>3, QueueRefines
<1>4. QED
  BY <1>2, <1>3 DEF MapQueue, Status


-----------------------------------------------------------------------------
(* The refinement                                                          *)

\* The initial state maps to the initial state of GnttabRequests.
LEMMA InitRefines == Init => Req!Init /\ RefInv
<1> SUFFICES ASSUME Init PROVE Req!Init /\ RefInv
  OBVIOUS
<1>1. Csq = {}
  BY DEF Init, Csq
<1>2. Req!Init
  BY <1>1 DEF Req!Init, ReqQueue, ReqCancelled, Init
<1>3. BuildOwned /\ BuildersDistinct
  BY DEF Init, BuildOwned, BuildersDistinct, Building
<1>4. UniquePending /\ CompletedOnce
  BY <1>1 DEF Init, UniquePending, CompletedOnce
<1>5. QED
  BY <1>2, <1>3, <1>4, InitTypeInv DEF RefInv

\* Every step keeps RefInv and is a step of GnttabRequests or a stutter.
LEMMA NextRefines ==
    ASSUME RefInv, [Next]_vars
    PROVE  RefStep
<1>1. ASSUME NEW t \in Threads, NEW r \in RequestIds, NEW n \in PageCounts,
             PermitForeignAccess(t, r, n) \/ MapForeignPages(t, r, n)
      PROVE RefStep
  BY <1>1, PermitForeignAccessRefines, MapForeignPagesRefines
<1>2. ASSUME NEW t \in Threads, PermitShare(t) \/ PermitQueue(t) \/ MapQueue(t)
      PROVE RefStep
  BY <1>2, PermitShareRefines, PermitQueueRefines, MapQueueRefines
<1>3. ASSUME NEW t \in Threads, DispatchReturn(t) PROVE RefStep
  <2>1. TypeInv'
    BY <1>3, NextTypeInv DEF RefInv, Next
  <2>2. \A u \in Threads : pc'[u] \in Building => pc[u] \in Building
    BY <1>3 DEF DispatchReturn, Return, RefInv, TypeInv, TypeOK, Building
  <2>3. QED
    BY <1>3, <2>1, <2>2, QuietStep DEF DispatchReturn
<1>4. ASSUME NEW t \in Threads, NEW r \in RequestIds, NEW k \in Kinds,
             GetResult(t, r, k) \/ Release(t, r, k)
      PROVE RefStep
  <2>1. CASE GetResult(t, r, k)
    <3>1. TypeInv'
      BY <2>1, NextTypeInv DEF RefInv, Next
    <3>2. QED
      BY <2>1, <3>1, QuietStep DEF GetResult
  <2>2. CASE Release(t, r, k)
    BY <2>2, ReleaseRefines
  <2>3. QED
    BY <1>4, <2>1, <2>2
<1>5. ASSUME NEW c \in Ctx, CancelIrp(c) \/ CompleteGnttabIrp(c) PROVE RefStep
  BY <1>5, CancelIrpRefines, CompleteGnttabIrpRefines
<1>6. CASE UNCHANGED vars
  <2>1. TypeInv'
    BY <1>6, NextTypeInv DEF RefInv
  <2>2. QED
    BY <1>6, <2>1, QuietStep DEF vars
<1>7. QED
  BY <1>1, <1>2, <1>3, <1>4, <1>5, <1>6 DEF Next

\* The grant-table handlers of ioctls.c implement GnttabRequests for any
\* numbers of threads, processes, ids and slots, in a checked build and in
\* a free build: IoCsqInsertIrpEx parks a built context only under a key
\* no parked IRP has, Revoke/Unmap take the IRP of their key and complete
\* it, the I/O manager's cancellation hands the IRP to CompleteGnttabIrp,
\* which completes it, and no other step touches the CSQ or a completion.
THEOREM RequestsRefinedCorrect == Spec => RequestsRefined
<1>1. Init => Req!Init /\ RefInv
  BY InitRefines
<1>2. RefInv /\ [Next]_vars => RefInv' /\ [Req!Next]_Req!reqVars
  BY NextRefines DEF RefStep
<1>3. QED
  BY <1>1, <1>2, PTL DEF Spec, RequestsRefined, Req!Spec

\* Whatever ASSERT does, no two parked IRPs share a (process, id, kind)
\* key, despite the race between the FindGnttabIrp check and
\* IoCsqInsertIrpEx, and no IRP is completed twice, despite a
\* Revoke/Unmap racing the cancellation of the same IRP.  SafetyCorrect
\* shows this for a checked build only, as part of IInv.
THEOREM UniqueAndOnceAnyBuild == Spec => [](UniquePending /\ CompletedOnce)
<1>1. Init => RefInv
  BY InitRefines
<1>2. RefInv /\ [Next]_vars => RefInv'
  BY NextRefines DEF RefStep
<1>3. RefInv => UniquePending /\ CompletedOnce
  BY DEF RefInv
<1>4. QED
  BY <1>1, <1>2, <1>3, PTL DEF Spec


-----------------------------------------------------------------------------
(* What GnttabRequests promises, and what it means for the driver          *)

\* RequestsSound holds in every behaviour of GnttabRequests: Park takes a
\* fresh key and a request that is neither parked nor completed, Take and
\* Cancel remove the one pair of their request, Finish the one cancelled
\* request, and each completes a request that was parked or cancelled.
LEMMA RequestsSoundHolds == Req!Spec => [](Req!TypeOK /\ Req!RequestsSound)
<1> DEFINE K == (Procs \cup {System}) \X RequestIds \X Kinds
           I == Req!TypeOK /\ Req!RequestsSound
<1>1. Req!Init => I
  BY DEF Req!Init, Req!TypeOK, Req!RequestsSound, Req!Parked
<1>2. I /\ [Req!Next]_Req!reqVars => I'
  <2> SUFFICES ASSUME I, [Req!Next]_Req!reqVars PROVE I'
    OBVIOUS
  <2> USE DEF Req!TypeOK, Req!RequestsSound, Req!Parked
  <2>1. ASSUME NEW c \in Ctx, NEW k \in K, Req!Park(c, k) PROVE I'
    BY <2>1 DEF Req!Park
  <2>2. ASSUME NEW k \in K, Req!Take(k) PROVE I'
    <3>1. PICK c \in Ctx : /\ <<c, k>> \in ReqQueue
                           /\ ReqQueue' = ReqQueue \ {<<c, k>>}
                           /\ completions' = [completions EXCEPT ![c] = @ + 1]
                           /\ ReqCancelled' = ReqCancelled
      BY <2>2 DEF Req!Take
    <3>2. completions[c] = 0 /\ c \notin ReqCancelled
      BY <3>1
    <3>3. \A e \in ReqQueue' : e[1] # c
      BY <3>1
    <3>4. QED
      BY <3>1, <3>2, <3>3
  <2>3. ASSUME NEW c \in Ctx, Req!Cancel(c) PROVE I'
    <3>1. PICK k \in K : /\ <<c, k>> \in ReqQueue
                         /\ ReqQueue' = ReqQueue \ {<<c, k>>}
                         /\ ReqCancelled' = ReqCancelled \cup {c}
                         /\ UNCHANGED completions
      BY <2>3 DEF Req!Cancel
    <3>2. \A e \in ReqQueue' : e[1] # c
      BY <3>1
    <3>3. completions[c] = 0
      BY <3>1
    <3>4. QED
      BY <3>1, <3>2, <3>3
  <2>4. ASSUME NEW c \in Ctx, Req!Finish(c) PROVE I'
    <3>1. c \in ReqCancelled /\ completions[c] = 0 /\ \A e \in ReqQueue : e[1] # c
      BY <2>4 DEF Req!Finish
    <3>2. QED
      BY <2>4, <3>1 DEF Req!Finish
  <2>5. CASE UNCHANGED Req!reqVars
    BY <2>5 DEF Req!reqVars
  <2>6. QED
    BY <2>1, <2>2, <2>3, <2>4, <2>5 DEF Req!Next
<1>3. QED
  BY <1>1, <1>2, PTL DEF Req!Spec

\* Carried to ioctls.c by the refinement, in any build: a request is
\* completed at most once, and not while its IRP is parked in the CSQ or
\* waits for CompleteGnttabIrp; the IRPs in the CSQ have distinct keys.
THEOREM DriverRequestsSound == Spec => []Req!RequestsSound
<1>1. Spec => [](Req!TypeOK /\ Req!RequestsSound)
  BY RequestsRefinedCorrect, RequestsSoundHolds DEF RequestsRefined
<1>2. QED
  BY <1>1, PTL

=============================================================================
