-------------------------- MODULE RegistryRefinement --------------------------
(***************************************************************************)
(* Proof that the event-channel registry of Registry implements            *)
(* EvtchnLifecycle under the mapping AbsLife / AbsHeld: every step of the  *)
(* driver is a step of the lifecycle or leaves it unchanged.               *)
(***************************************************************************)
EXTENDS RegistryProofs

\* A context that was never bound has no open channel behind it: only a
\* bind opens one, and it takes an unused context with it.
UnusedClosed == \A c \in Chans : chan[c].st = "unused" => ~bus[c].open

\* What the refinement proof assumes of a state.
RefInv == DpcInv /\ UnusedClosed

-----------------------------------------------------------------------------
(* Lemmas about the mapping                                                *)

\* A step that keeps every context's life and every DPC's argument is a
\* stutter of the lifecycle.
LEMMA LifeStutter ==
    ASSUME \A c \in Chans : LifeOf(chan'[c].st) = LifeOf(chan[c].st),
           UNCHANGED <<dpc, run>>
    PROVE  UNCHANGED Life!absVars
BY DEF Life!absVars, AbsLife, AbsHeld

\* A step that keeps every life and only lets go of c is a Release of c
\* or a stutter.
LEMMA HeldShrinks ==
    ASSUME NEW c \in Chans,
           \A d \in Chans : LifeOf(chan'[d].st) = LifeOf(chan[d].st),
           AbsHeld' \subseteq AbsHeld,
           AbsHeld \ AbsHeld' \subseteq {c}
    PROVE  [Life!Next]_Life!absVars
<1>1. AbsLife' = AbsLife
  BY DEF AbsLife
<1>2. CASE AbsHeld' = AbsHeld
  BY <1>1, <1>2 DEF Life!absVars
<1>3. CASE AbsHeld' # AbsHeld
  <2>1. c \in AbsHeld /\ AbsHeld' = AbsHeld \ {c}
    BY <1>3
  <2>2. Life!Release(c)
    BY <1>1, <2>1 DEF Life!Release
  <2>3. QED
    BY <2>2 DEF Life!Next
<1>4. QED
  BY <1>2, <1>3

\* The lives of the states a context can be in.
LEMMA LifeOfStates ==
    /\ LifeOf("unused") = "unused"
    /\ LifeOf("bound") = "open"
    /\ LifeOf("listed") = "open"
    /\ LifeOf("detached") = "closing"
    /\ LifeOf("freed") = "freed"
BY DEF LifeOf

-----------------------------------------------------------------------------
(* UnusedClosed is invariant                                               *)

\* A step after which a context still unused was unused before and has no
\* channel opened for it.
StepKeepsUnused ==
    \A c \in Chans : chan'[c].st = "unused" =>
                        chan[c].st = "unused" /\ (bus'[c].open => bus[c].open)

LEMMA UnusedClosedKept ==
    ASSUME UnusedClosed, StepKeepsUnused
    PROVE  UnusedClosed'
BY DEF UnusedClosed, StepKeepsUnused

\* Only a bind opens a channel, and it binds the unused context it opens it
\* for; nothing makes a context unused again.
LEMMA NextUnusedClosed ==
    ASSUME DpcInv, UnusedClosed, [Next]_vars
    PROVE  UnusedClosed'
<1> USE DEF DpcInv, ChanTypeOK
<1>1. CASE \E t \in Threads : ThreadStep(t)
  <2> PICK t \in Threads : ThreadStep(t)
    BY <1>1
  <2>1. CASE BindInsert(t) \/ BindActivate(t) \/ FreeDeactivate(t) \/ FreeRelease(t)
    <3>1. pc[t] \in ChanStages
      BY <2>1 DEF BindInsert, BindActivate, FreeDeactivate, FreeRelease, ChanStages
    <3>2. cur[t] \in Chans
      BY <3>1
    <3>3. /\ UNCHANGED bus
          /\ \/ chan' = [chan EXCEPT ![cur[t]].st = "listed"]
             \/ chan' = [chan EXCEPT ![cur[t]].active = TRUE]
             \/ chan' = [chan EXCEPT ![cur[t]].active = FALSE]
             \/ chan' = [chan EXCEPT ![cur[t]].st = "freed"]
      BY <2>1 DEF BindInsert, BindActivate, FreeDeactivate, FreeRelease
    <3>4. StepKeepsUnused
      BY <3>2, <3>3 DEF StepKeepsUnused, ChanRec
    <3>5. QED
      BY <3>4, UnusedClosedKept
  <2>2. CASE BindUnmask(t) \/ FreeClose(t)
    <3>1. cur[t] \in Chans
      BY <2>2 DEF BindUnmask, FreeClose, ChanStages
    <3>2. /\ UNCHANGED chan
          /\ \/ bus' = [bus EXCEPT ![cur[t]].masked = FALSE]
             \/ bus' = [bus EXCEPT ![cur[t]] = [open |-> FALSE, masked |-> TRUE, pending |-> FALSE]]
      BY <2>2 DEF BindUnmask, FreeClose
    <3>3. StepKeepsUnused
      BY <3>1, <3>2 DEF StepKeepsUnused, BusRec
    <3>4. QED
      BY <3>3, UnusedClosedKept
  <2>3. CASE CleanupDetach(t)
    <3>1. StepKeepsUnused
      BY <2>3 DEF CleanupDetach, Listed, StepKeepsUnused
    <3>2. QED
      BY <3>1, UnusedClosedKept
  <2>4. CASE AddWatchInsert(t) \/ StoreFreeWatch(t)
    <3>1. UNCHANGED <<chan, bus>>
      BY <2>4 DEF AddWatchInsert, StoreFreeWatch, chanVars
    <3>2. QED
      BY <3>1 DEF UnusedClosed
  <2>5. QED
    BY <2>1, <2>2, <2>3, <2>4 DEF ThreadStep
<1>2. CASE \E t \in Threads, f \in FOs, m \in BOOLEAN :
             IoctlEvtchnBindUnbound(t, f, m) \/ IoctlEvtchnBindInterdomain(t, f, m)
  <2>1. StepKeepsUnused
    BY <1>2 DEF IoctlEvtchnBindUnbound, IoctlEvtchnBindInterdomain, StepKeepsUnused
  <2>2. QED
    BY <2>1, UnusedClosedKept
<1>3. CASE \E t \in Threads, f \in FOs, port \in Ports :
             IoctlEvtchnClose(t, f, port) \/ IoctlEvtchnUnmask(t, f, port)
  <2> PICK t \in Threads, f \in FOs, port \in Ports :
           IoctlEvtchnClose(t, f, port) \/ IoctlEvtchnUnmask(t, f, port)
    BY <1>3
  <2>1. CASE IoctlEvtchnClose(t, f, port)
    <3>1. PICK c \in EvtchnFindChannel(port, f) : chan' = [chan EXCEPT ![c].st = "detached"]
      BY <2>1 DEF IoctlEvtchnClose
    <3>2. UNCHANGED bus /\ c \in Chans
      BY <2>1 DEF IoctlEvtchnClose, EvtchnFindChannel
    <3>3. StepKeepsUnused
      BY <3>1, <3>2 DEF StepKeepsUnused, ChanRec
    <3>4. QED
      BY <3>3, UnusedClosedKept
  <2>2. CASE IoctlEvtchnUnmask(t, f, port)
    <3>1. PICK c \in EvtchnFindChannel(port, f) : bus' = [bus EXCEPT ![c].masked = FALSE]
      BY <2>2 DEF IoctlEvtchnUnmask
    <3>2. UNCHANGED chan /\ c \in Chans
      BY <2>2 DEF IoctlEvtchnUnmask, EvtchnFindChannel
    <3>3. StepKeepsUnused
      BY <3>1, <3>2 DEF StepKeepsUnused, BusRec
    <3>4. QED
      BY <3>3, UnusedClosedKept
  <2>3. QED
    BY <2>1, <2>2
<1>4. CASE \E t \in Threads, f \in FOs :
             \/ IoctlStoreAddWatch(t, f)
             \/ \E w \in Watches : IoctlStoreRemoveWatch(t, f, w)
             \/ CleanupWatches(t, f)
  <2>1. UNCHANGED <<chan, bus>>
    BY <1>4 DEF IoctlStoreAddWatch, IoctlStoreRemoveWatch, CleanupWatches, chanVars
  <2>2. QED
    BY <2>1 DEF UnusedClosed
<1>5. CASE \E c \in Chans : RemoteSend(c) \/ \E p \in Cpus : EvtchnInterruptHandler(c, p)
  <2>1. StepKeepsUnused
    BY <1>5 DEF RemoteSend, EvtchnInterruptHandler, StepKeepsUnused
  <2>2. QED
    BY <2>1, UnusedClosedKept
<1>6. CASE \E p \in Cpus : EvtchnNotificationDpc(p)
  <2>1. UNCHANGED <<chan, bus>>
    BY <1>6 DEF EvtchnNotificationDpc
  <2>2. QED
    BY <2>1 DEF UnusedClosed
<1>7. CASE \E p \in Cpus : DpcUnmask(p)
  <2> PICK p \in Cpus : DpcUnmask(p)
    BY <1>7
  <2>1. run[p] \in Chans
    BY DEF DpcUnmask
  <2>2. StepKeepsUnused
    BY <2>1 DEF DpcUnmask, StepKeepsUnused
  <2>3. QED
    BY <2>2, UnusedClosedKept
<1>8. CASE UNCHANGED vars
  BY <1>8 DEF vars, UnusedClosed
<1>9. QED
  BY <1>1, <1>2, <1>3, <1>4, <1>5, <1>6, <1>7, <1>8 DEF Next


-----------------------------------------------------------------------------
(* Each step of the driver is a lifecycle step or a stutter                *)

\* Initially every context is unused and no DPC is queued.
LEMMA InitRefines ==
    ASSUME Init
    PROVE  Life!Init /\ RefInv
<1>1. AbsLife = [c \in Chans |-> "unused"]
  BY LifeOfStates DEF Init, AbsLife
<1>2. AbsHeld = {}
  BY RegistryAssumption DEF Init, AbsHeld
<1>3. UnusedClosed
  BY DEF Init, UnusedClosed
<1>4. QED
  BY <1>1, <1>2, <1>3, InitDpcInv DEF Life!Init, RefInv

\* IoctlEvtchnBindUnbound opens an unused context.
LEMMA BindUnboundRefines ==
    ASSUME RefInv, NEW t \in Threads, NEW f \in FOs, NEW m \in BOOLEAN,
           IoctlEvtchnBindUnbound(t, f, m)
    PROVE  [Life!Next]_Life!absVars
<1>1. PICK c \in Chans, port \in Ports \ PortsInUse :
          /\ chan[c].st = "unused"
          /\ chan' = [chan EXCEPT ![c] = [st |-> "bound", fo |-> f, port |-> port,
                                          active |-> FALSE]]
  BY DEF IoctlEvtchnBindUnbound
<1>2. UNCHANGED <<dpc, run>>
  BY DEF IoctlEvtchnBindUnbound
<1>3. \A d \in Chans : chan'[d].st = IF d = c THEN "bound" ELSE chan[d].st
  BY <1>1 DEF RefInv, DpcInv, ChanTypeOK
<1>4. AbsLife[c] = "unused"
  BY <1>1, LifeOfStates DEF AbsLife
<1>5. AbsLife' = [d \in Chans |-> IF d = c THEN "open" ELSE AbsLife[d]]
  BY <1>3, LifeOfStates DEF AbsLife
<1>6. AbsLife' = [AbsLife EXCEPT ![c] = "open"]
  BY <1>5 DEF AbsLife
<1>7. AbsHeld' = AbsHeld
  BY <1>2 DEF AbsHeld
<1>8. Life!Open(c)
  BY <1>4, <1>7, <1>6 DEF Life!Open
<1>9. QED
  BY <1>8 DEF Life!Next

\* Publishing a bound context on EvtchnList leaves it open.
LEMMA BindInsertRefines ==
    ASSUME RefInv, NEW t \in Threads, BindInsert(t)
    PROVE  [Life!Next]_Life!absVars
<1>1. /\ cur[t] \in Chans /\ chan[cur[t]].st = "bound"
      /\ chan' = [chan EXCEPT ![cur[t]].st = "listed"]
      /\ UNCHANGED <<dpc, run>>
  BY DEF BindInsert, RefInv, DpcInv, ChanTypeOK, ChanStages, InsertOwned
<1>2. \A c \in Chans : LifeOf(chan'[c].st) = LifeOf(chan[c].st)
  BY <1>1, LifeOfStates DEF RefInv, DpcInv, ChanTypeOK, ChanRec
<1>3. QED
  BY <1>1, <1>2, LifeStutter

\* IoctlEvtchnClose unlinks the one context it found.
LEMMA CloseRefines ==
    ASSUME RefInv, NEW t \in Threads, NEW f \in FOs, NEW port \in Ports,
           IoctlEvtchnClose(t, f, port)
    PROVE  [Life!Next]_Life!absVars
<1>1. PICK c \in Chans :
          /\ chan[c].st = "listed"
          /\ chan' = [chan EXCEPT ![c].st = "detached"]
  BY DEF IoctlEvtchnClose, EvtchnFindChannel, Listed
<1>2. UNCHANGED <<dpc, run>>
  BY DEF IoctlEvtchnClose
<1>3. \A d \in Chans : chan'[d].st = IF d = c THEN "detached" ELSE chan[d].st
  BY <1>1 DEF RefInv, DpcInv, ChanTypeOK, ChanRec
<1>4. AbsLife[c] = "open"
  BY <1>1, LifeOfStates DEF AbsLife
<1>5. AbsLife' = [d \in Chans |-> IF d \in {c} THEN "closing" ELSE AbsLife[d]]
  BY <1>3, LifeOfStates DEF AbsLife
<1>6. AbsHeld' = AbsHeld
  BY <1>2 DEF AbsHeld
<1>7. Life!Detach({c})
  BY <1>4, <1>5, <1>6 DEF Life!Detach
<1>8. QED
  BY <1>7 DEF Life!Next


\* XenIfaceCleanup unlinks every listed context of the handle at once.
LEMMA CleanupDetachRefines ==
    ASSUME RefInv, NEW t \in Threads, CleanupDetach(t)
    PROVE  [Life!Next]_Life!absVars
<1> DEFINE mine == {c \in Chans : Listed(c) /\ chan[c].fo = fo[t]}
<1>1. /\ chan' = [c \in Chans |-> IF c \in mine THEN [chan[c] EXCEPT !.st = "detached"]
                                                ELSE chan[c]]
      /\ UNCHANGED <<dpc, run>>
  BY DEF CleanupDetach
<1>2. \A d \in Chans : chan'[d].st = IF d \in mine THEN "detached" ELSE chan[d].st
  BY <1>1 DEF RefInv, DpcInv, ChanTypeOK, ChanRec
<1>3. CASE mine = {}
  <2>1. \A d \in Chans : LifeOf(chan'[d].st) = LifeOf(chan[d].st)
    BY <1>2, <1>3
  <2>2. QED
    BY <1>1, <2>1, LifeStutter
<1>4. CASE mine # {}
  <2>1. \A c \in mine : AbsLife[c] = "open"
    BY LifeOfStates DEF AbsLife, Listed
  <2>2. AbsLife' = [d \in Chans |-> IF d \in mine THEN "closing" ELSE AbsLife[d]]
    BY <1>2, LifeOfStates DEF AbsLife
  <2>3. AbsHeld' = AbsHeld
    BY <1>1 DEF AbsHeld
  <2>4. Life!Detach(mine)
    BY <1>4, <2>1, <2>2, <2>3 DEF Life!Detach
  <2>5. QED
    BY <2>4 DEF Life!Next
<1>5. QED
  BY <1>3, <1>4

\* EvtchnFree, once KeFlushQueuedDpcs returned, frees an unlinked context
\* that no DPC holds; freeing one already freed changes no life.
LEMMA FreeReleaseRefines ==
    ASSUME RefInv, NEW t \in Threads, FreeRelease(t)
    PROVE  [Life!Next]_Life!absVars
<1> DEFINE c0 == cur[t]
<1>1. /\ pc[t] = "free_release" /\ c0 \in Chans /\ flushWait[t] = {}
      /\ chan' = [chan EXCEPT ![c0].st = "freed"]
      /\ UNCHANGED <<dpc, run>>
  BY DEF FreeRelease, RefInv, DpcInv, ChanTypeOK, ChanStages
<1>2. chan[c0].st \in {"detached", "freed"}
  BY <1>1 DEF RefInv, DpcInv, FreeingGone, Gone, FreeStages
<1>3. c0 \notin AbsHeld
  BY <1>1 DEF RefInv, DpcInv, FlushPending, FlushCovers, AbsHeld
<1>4. \A d \in Chans : chan'[d].st = IF d = c0 THEN "freed" ELSE chan[d].st
  BY <1>1 DEF RefInv, DpcInv, ChanTypeOK, ChanRec
<1>5. CASE chan[c0].st = "freed"
  <2>1. \A d \in Chans : LifeOf(chan'[d].st) = LifeOf(chan[d].st)
    BY <1>4, <1>5
  <2>2. QED
    BY <1>1, <2>1, LifeStutter
<1>6. CASE chan[c0].st = "detached"
  <2>1. AbsLife[c0] = "closing"
    BY <1>1, <1>6, LifeOfStates DEF AbsLife
  <2>2. AbsLife' = [d \in Chans |-> IF d = c0 THEN "freed" ELSE AbsLife[d]]
    BY <1>4, LifeOfStates DEF AbsLife
  <2>3. AbsLife' = [AbsLife EXCEPT ![c0] = "freed"]
    BY <2>2 DEF AbsLife
  <2>4. AbsHeld' = AbsHeld
    BY <1>1 DEF AbsHeld
  <2>5. Life!Free(c0)
    BY <1>3, <2>1, <2>3, <2>4 DEF Life!Free
  <2>6. QED
    BY <1>1, <2>5 DEF Life!Next
<1>7. QED
  BY <1>2, <1>5, <1>6


\* The ISR runs only for an open channel, whose context is bound, listed or
\* unlinked but not yet freed; queueing the CPU's DPC makes it held.
LEMMA InterruptRefines ==
    ASSUME RefInv, NEW c \in Chans, NEW p \in Cpus, EvtchnInterruptHandler(c, p)
    PROVE  [Life!Next]_Life!absVars
<1>1. /\ bus[c].open
      /\ \/ dpc' = [dpc EXCEPT ![p] = IF @ = None THEN c ELSE @]
         \/ dpc' = dpc
      /\ UNCHANGED <<chan, run>>
  BY DEF EvtchnInterruptHandler
<1>2. AbsLife' = AbsLife
  BY <1>1 DEF AbsLife
<1>3. CASE dpc' = dpc
  BY <1>1, <1>2, <1>3 DEF AbsHeld, Life!absVars
<1>4. CASE dpc' # dpc
  <2>1. dpc[p] = None /\ dpc' = [dpc EXCEPT ![p] = c]
    BY <1>1, <1>4 DEF RefInv, DpcInv, ChanTypeOK
  <2>2. AbsHeld' = AbsHeld \cup {c}
    <3>1. \A q \in Cpus : dpc'[q] = IF q = p THEN c ELSE dpc[q]
      BY <2>1 DEF RefInv, DpcInv, ChanTypeOK
    <3>2. c \in AbsHeld'
      BY <1>1, <3>1 DEF AbsHeld
    <3>3. AbsHeld \subseteq AbsHeld'
      BY <1>1, <2>1, <3>1, RegistryAssumption DEF AbsHeld
    <3>4. AbsHeld' \subseteq AbsHeld \cup {c}
      BY <1>1, <3>1 DEF AbsHeld
    <3>5. QED
      BY <3>2, <3>3, <3>4
  <2>3. chan[c].st \in {"bound", "listed", "detached"}
    BY <1>1 DEF RefInv, DpcInv, ChanTypeOK, ChanRec, ChanStates, FreedClosed, UnusedClosed
  <2>4. AbsLife[c] \in {"open", "closing"}
    BY <2>3, LifeOfStates DEF AbsLife
  <2>5. Life!Hold(c)
    BY <1>2, <2>2, <2>4 DEF Life!Hold
  <2>6. QED
    BY <2>5 DEF Life!Next
<1>5. QED
  BY <1>3, <1>4

\* The DPC of CPU p takes its argument off the queue: it either keeps it
\* while it runs or, with Active clear, is done with it.
LEMMA NotificationDpcRefines ==
    ASSUME RefInv, NEW p \in Cpus, EvtchnNotificationDpc(p)
    PROVE  [Life!Next]_Life!absVars
<1> DEFINE c == dpc[p]
<1>1. /\ c \in Chans /\ run[p] = None
      /\ dpc' = [dpc EXCEPT ![p] = None]
      /\ run' = [run EXCEPT ![p] = c] \/ run' = run
      /\ UNCHANGED chan
  BY DEF EvtchnNotificationDpc, RefInv, DpcInv, ChanTypeOK
<1>2. \A q \in Cpus : /\ dpc'[q] = IF q = p THEN None ELSE dpc[q]
                      /\ run'[q] = run[q] \/ (q = p /\ run'[q] = c)
  BY <1>1 DEF RefInv, DpcInv, ChanTypeOK
<1>3. AbsHeld' \subseteq AbsHeld
  BY <1>2, RegistryAssumption DEF AbsHeld
<1>4. AbsHeld \ AbsHeld' \subseteq {c}
  BY <1>1, <1>2, RegistryAssumption DEF AbsHeld
<1>5. QED
  BY <1>1, <1>3, <1>4, HeldShrinks

\* The end of EvtchnNotificationDpc: the DPC is done with its context.
LEMMA DpcUnmaskRefines ==
    ASSUME RefInv, NEW p \in Cpus, DpcUnmask(p)
    PROVE  [Life!Next]_Life!absVars
<1> DEFINE c == run[p]
<1>1. /\ c \in Chans
      /\ run' = [run EXCEPT ![p] = None]
      /\ UNCHANGED <<chan, dpc>>
  BY DEF DpcUnmask, RefInv, DpcInv, ChanTypeOK
<1>2. \A q \in Cpus : run'[q] = IF q = p THEN None ELSE run[q]
  BY <1>1 DEF RefInv, DpcInv, ChanTypeOK
<1>3. AbsHeld' \subseteq AbsHeld
  BY <1>1, <1>2, RegistryAssumption DEF AbsHeld
<1>4. AbsHeld \ AbsHeld' \subseteq {c}
  BY <1>1, <1>2, RegistryAssumption DEF AbsHeld
<1>5. QED
  BY <1>1, <1>3, <1>4, HeldShrinks


\* Every step of the registry is a step of EvtchnLifecycle or leaves the
\* lives and the held contexts alone.
LEMMA NextRefines ==
    ASSUME RefInv, [Next]_vars
    PROVE  [Life!Next]_Life!absVars
<1> USE DEF RefInv, DpcInv, ChanTypeOK
<1>1. CASE \E t \in Threads : ThreadStep(t)
  <2> PICK t \in Threads : ThreadStep(t)
    BY <1>1
  <2>1. CASE BindInsert(t)
    BY <2>1, BindInsertRefines
  <2>2. CASE BindActivate(t) \/ FreeDeactivate(t)
    <3>1. cur[t] \in Chans
      BY <2>2 DEF BindActivate, FreeDeactivate, ChanStages
    <3>2. /\ \/ chan' = [chan EXCEPT ![cur[t]].active = TRUE]
             \/ chan' = [chan EXCEPT ![cur[t]].active = FALSE]
          /\ UNCHANGED <<dpc, run>>
      BY <2>2 DEF BindActivate, FreeDeactivate
    <3>3. \A c \in Chans : chan'[c].st = chan[c].st
      BY <3>1, <3>2 DEF ChanRec
    <3>4. QED
      BY <3>2, <3>3, LifeStutter
  <2>3. CASE BindUnmask(t) \/ FreeClose(t) \/ AddWatchInsert(t) \/ StoreFreeWatch(t)
    <3>1. UNCHANGED <<chan, dpc, run>>
      BY <2>3 DEF BindUnmask, FreeClose, AddWatchInsert, StoreFreeWatch, chanVars
    <3>2. QED
      BY <3>1, LifeStutter
  <2>4. CASE FreeRelease(t)
    BY <2>4, FreeReleaseRefines
  <2>5. CASE CleanupDetach(t)
    BY <2>5, CleanupDetachRefines
  <2>6. QED
    BY <2>1, <2>2, <2>3, <2>4, <2>5 DEF ThreadStep
<1>2. CASE \E t \in Threads, f \in FOs, m \in BOOLEAN :
             IoctlEvtchnBindUnbound(t, f, m) \/ IoctlEvtchnBindInterdomain(t, f, m)
  BY <1>2, BindUnboundRefines DEF IoctlEvtchnBindInterdomain
<1>3. CASE \E t \in Threads, f \in FOs, port \in Ports : IoctlEvtchnClose(t, f, port)
  BY <1>3, CloseRefines
<1>4. CASE \/ \E t \in Threads, f \in FOs, port \in Ports : IoctlEvtchnUnmask(t, f, port)
           \/ \E t \in Threads, f \in FOs :
                \/ IoctlStoreAddWatch(t, f)
                \/ \E w \in Watches : IoctlStoreRemoveWatch(t, f, w)
                \/ CleanupWatches(t, f)
           \/ \E c \in Chans : RemoteSend(c)
  <2>1. UNCHANGED <<chan, dpc, run>>
    BY <1>4 DEF IoctlEvtchnUnmask, IoctlStoreAddWatch, IoctlStoreRemoveWatch,
                CleanupWatches, RemoteSend, chanVars
  <2>2. QED
    BY <2>1, LifeStutter
<1>5. CASE \E c \in Chans, p \in Cpus : EvtchnInterruptHandler(c, p)
  BY <1>5, InterruptRefines
<1>6. CASE \E p \in Cpus : EvtchnNotificationDpc(p)
  BY <1>6, NotificationDpcRefines
<1>7. CASE \E p \in Cpus : DpcUnmask(p)
  BY <1>7, DpcUnmaskRefines
<1>8. CASE UNCHANGED vars
  BY <1>8, LifeStutter DEF vars
<1>9. QED
  BY <1>1, <1>2, <1>3, <1>4, <1>5, <1>6, <1>7, <1>8 DEF Next

\* The event-channel registry of ioctls.c implements EvtchnLifecycle, for
\* any numbers of threads, handles, contexts and CPUs: binds open contexts,
\* IoctlEvtchnClose and XenIfaceCleanup unlink them, EvtchnInterruptHandler
\* queues a DPC only for a context that is open or being closed, and
\* EvtchnFree frees a context only after it was unlinked and while no DPC
\* holds it.
THEOREM LifecycleRefinedCorrect == Spec => LifecycleRefined
<1>1. Init => Life!Init /\ RefInv
  BY InitRefines
<1>2. RefInv /\ [Next]_vars => RefInv'
  BY NextDpcInv, NextUnusedClosed DEF RefInv
<1>3. RefInv /\ [Next]_vars => [Life!Next]_Life!absVars
  BY NextRefines
<1>4. QED
  BY <1>1, <1>2, <1>3, PTL DEF Spec, LifecycleRefined, Life!Spec


\* In EvtchnLifecycle itself a held context is always open or closing:
\* Hold takes only such a context and Free requires it not held.
LEMMA LifecycleHeldLive ==
    Life!Spec => []Life!HeldLive
<1>1. Life!Init => Life!HeldLive
  BY DEF Life!Init, Life!HeldLive
<1>2. Life!HeldLive /\ [Life!Next]_Life!absVars => Life!HeldLive'
  <2> SUFFICES ASSUME Life!HeldLive, [Life!Next]_Life!absVars
               PROVE  Life!HeldLive'
    OBVIOUS
  <2>1. CASE \E S \in SUBSET Chans : Life!Detach(S)
    BY <2>1 DEF Life!Detach, Life!HeldLive, AbsHeld
  <2>2. CASE \E c \in Chans : Life!Open(c) \/ Life!Free(c)
    BY <2>2 DEF Life!Open, Life!Free, Life!HeldLive, AbsLife, AbsHeld
  <2>3. CASE \E c \in Chans : Life!Hold(c) \/ Life!Release(c)
    BY <2>3 DEF Life!Hold, Life!Release, Life!HeldLive
  <2>4. CASE UNCHANGED Life!absVars
    BY <2>4 DEF Life!absVars, Life!HeldLive
  <2>5. QED
    BY <2>1, <2>2, <2>3, <2>4 DEF Life!Next
<1>3. QED
  BY <1>1, <1>2, PTL DEF Life!Spec

\* No notification DPC, queued or running, has as its argument a context
\* that was never bound or that EvtchnFree released: what the lifecycle
\* guarantees, carried to ioctls.c by the refinement.
THEOREM DpcHoldsLiveContext ==
    Spec => [](\A c \in AbsHeld : chan[c].st \in {"bound", "listed", "detached"})
<1>1. Spec => []Life!HeldLive
  BY LifecycleRefinedCorrect, LifecycleHeldLive DEF LifecycleRefined
<1>2. Life!HeldLive /\ DpcInv => \A c \in AbsHeld : chan[c].st \in {"bound", "listed", "detached"}
  BY LifeOfStates DEF Life!HeldLive, AbsLife, AbsHeld, DpcInv, ChanTypeOK, ChanRec, ChanStates
<1>3. QED
  BY <1>1, <1>2, DpcInvariant, PTL

=============================================================================
