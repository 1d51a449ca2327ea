---------------------------- MODULE RegistryProofs ----------------------------
(***************************************************************************)
(* Proof that EvtchnFree never frees a channel context a DPC still holds:  *)
(* Spec => []NoDpcAfterFree, for all values of the constants.              *)
(*                                                                         *)
(* NoDpcAfterFree is not inductive: whether FreeRelease may free cur[t]    *)
(* depends on what KeFlushQueuedDpcs waits for, and whether the ISR may    *)
(* queue a context depends on its channel being open.  DpcInv adds:        *)
(*   - a freed context's channel is closed (the ISR never sees it);        *)
(*   - a context in EvtchnFree or on ToFree is detached or freed, so no    *)
(*     bind, Close or cleanup can put it back on EvtchnList;               *)
(*   - from XENBUS Close until the free, the channel is closed and every   *)
(*     DPC queued or running with the context is one the flush waits for;  *)
(*   - a bind about to insert holds its own context, still "bound".        *)
(***************************************************************************)
EXTENDS Registry, TLAPS

\* The part of TypeOK the channel registry needs.
ChanTypeOK ==
    /\ chan \in [Chans -> ChanRec]
    /\ bus \in [Chans -> BusRec]
    /\ dpc \in [Cpus -> Chans \cup {None}]
    /\ run \in [Cpus -> Chans \cup {None}]
    /\ pc \in [Threads -> PcValues]
    /\ cur \in [Threads -> Chans \cup Watches \cup {None}]
    /\ tofree \in [Threads -> SUBSET Chans]
    /\ flushWait \in [Threads -> SUBSET FlushItems]
    /\ \A t \in Threads : pc[t] \in ChanStages => cur[t] \in Chans

FreeStages == {"free_deact", "free_close", "free_release"}

\* Off EvtchnList for good: unlinked by Close or cleanup, or freed.
Gone(c) == chan[c].st \in {"detached", "freed"}

\* Every DPC that holds cur[t] is one KeFlushQueuedDpcs of t waits for.
FlushCovers(t) ==
    \A p \in Cpus :
        /\ dpc[p] = cur[t] => <<p, "queued">> \in flushWait[t]
        /\ run[p] = cur[t] => <<p, "running">> \in flushWait[t]

\* The ISR queues only contexts of open channels; a freed one is closed.
FreedClosed == \A c \in Chans : chan[c].st = "freed" => ~bus[c].open

\* Contexts being torn down are off EvtchnList for good.
FreeingGone ==
    /\ \A t \in Threads : pc[t] \in FreeStages => Gone(cur[t])
    /\ \A t \in Threads : \A c \in tofree[t] : Gone(c)

\* Between XENBUS Close and the free, the flush covers every DPC holding
\* the context.
FlushPending ==
    \A t \in Threads : pc[t] = "free_release" => ~bus[cur[t]].open /\ FlushCovers(t)

\* A bind about to insert owns its context, which nothing else can reach.
InsertOwned ==
    /\ \A t \in Threads : pc[t] = "bind_insert" => chan[cur[t]].st = "bound"
    /\ \A t, u \in Threads :
         (t # u /\ pc[t] = "bind_insert" /\ pc[u] = "bind_insert") => cur[t] # cur[u]

DpcInv ==
    /\ ChanTypeOK
    /\ NoDpcAfterFree
    /\ FreedClosed
    /\ FreeingGone
    /\ FlushPending
    /\ InsertOwned

-----------------------------------------------------------------------------

\* The initial state: nothing is bound, queued or being freed.
\* Setting the state of one channel context keeps chan well typed.
LEMMA ChanStUpdate ==
    ASSUME NEW f \in [Chans -> ChanRec], NEW c \in Chans, NEW s \in ChanStates
    PROVE  [f EXCEPT ![c].st = s] \in [Chans -> ChanRec]
<1>1. [f[c] EXCEPT !.st = s] \in ChanRec
  BY DEF ChanRec
<1>2. [f EXCEPT ![c].st = s] = [f EXCEPT ![c] = [f[c] EXCEPT !.st = s]]
  OBVIOUS
<1>3. QED
  BY <1>1, <1>2

\* Clearing or setting Active of one channel context keeps chan well typed.
LEMMA ChanActiveUpdate ==
    ASSUME NEW f \in [Chans -> ChanRec], NEW c \in Chans, NEW b \in BOOLEAN
    PROVE  [f EXCEPT ![c].active = b] \in [Chans -> ChanRec]
<1>1. [f[c] EXCEPT !.active = b] \in ChanRec
  BY DEF ChanRec
<1>2. [f EXCEPT ![c].active = b] = [f EXCEPT ![c] = [f[c] EXCEPT !.active = b]]
  OBVIOUS
<1>3. QED
  BY <1>1, <1>2

\* The ISR's update of a bus channel keeps bus well typed.
LEMMA BusMaskUpdate ==
    ASSUME NEW f \in [Chans -> BusRec], NEW c \in Chans
    PROVE  [f EXCEPT ![c].masked = TRUE, ![c].pending = FALSE] \in [Chans -> BusRec]
<1>1. [[f[c] EXCEPT !.masked = TRUE] EXCEPT !.pending = FALSE] \in BusRec
  BY DEF BusRec
<1>2. [f EXCEPT ![c].masked = TRUE, ![c].pending = FALSE]
        = [f EXCEPT ![c] = [[f[c] EXCEPT !.masked = TRUE] EXCEPT !.pending = FALSE]]
  OBVIOUS
<1>3. QED
  BY <1>1, <1>2

LEMMA InitDpcInv == Init => DpcInv
<1> SUFFICES ASSUME Init PROVE DpcInv
  OBVIOUS
<1>1. ChanTypeOK
  BY RegistryAssumption DEF Init, ChanTypeOK, ChanRec, ChanStates, BusRec, PcValues, ChanStages
<1>2. NoDpcAfterFree /\ FreedClosed /\ FreeingGone /\ FlushPending /\ InsertOwned
  BY DEF Init, NoDpcAfterFree, FreedClosed, FreeingGone, FlushPending, InsertOwned, FreeStages
<1>3. QED
  BY <1>1, <1>2 DEF DpcInv

\* Opening a channel takes an unused context, which no DPC, teardown or
\* other bind holds.
LEMMA BindUnboundDpcInv ==
    ASSUME DpcInv, NEW t \in Threads, NEW f \in FOs, NEW m \in BOOLEAN,
           IoctlEvtchnBindUnbound(t, f, m)
    PROVE  DpcInv'
<1> PICK c \in Chans, port \in Ports \ PortsInUse :
        /\ chan[c].st = "unused"
        /\ chan' = [chan EXCEPT ![c] = [st |-> "bound", fo |-> f, port |-> port,
                                        active |-> FALSE]]
        /\ bus' = [bus EXCEPT ![c] = [open |-> TRUE, masked |-> TRUE, pending |-> FALSE]]
        /\ cur' = [cur EXCEPT ![t] = c]
  BY DEF IoctlEvtchnBindUnbound
<1>1. pc[t] = "idle" /\ pc' = [pc EXCEPT ![t] = "bind_insert"]
      /\ UNCHANGED <<dpc, run, tofree, flushWait>>
  BY DEF IoctlEvtchnBindUnbound, Goto
<1>2. ChanTypeOK'
  BY <1>1 DEF DpcInv, ChanTypeOK, ChanRec, ChanStates, BusRec, PcValues, ChanStages
<1>3. NoDpcAfterFree'
  BY <1>1 DEF DpcInv, ChanTypeOK, NoDpcAfterFree
<1>4. FreedClosed'
  BY <1>1 DEF DpcInv, ChanTypeOK, FreedClosed
<1>5. FreeingGone'
  BY <1>1 DEF DpcInv, ChanTypeOK, FreeingGone, Gone, FreeStages
<1>6. FlushPending'
  BY <1>1 DEF DpcInv, ChanTypeOK, FlushPending, FlushCovers, FreeingGone, Gone, FreeStages
<1>7. InsertOwned'
  BY <1>1 DEF DpcInv, ChanTypeOK, InsertOwned
<1>8. QED
  BY <1>2, <1>3, <1>4, <1>5, <1>6, <1>7 DEF DpcInv


\* The insert publishes the bind's own context; nothing else changes.
LEMMA BindInsertDpcInv ==
    ASSUME DpcInv, NEW t \in Threads, BindInsert(t)
    PROVE  DpcInv'
<1>1. /\ pc[t] = "bind_insert" /\ cur[t] \in Chans /\ chan[cur[t]].st = "bound"
      /\ chan' = [chan EXCEPT ![cur[t]].st = "listed"]
      /\ pc' = [pc EXCEPT ![t] = "bind_activate"]
      /\ UNCHANGED <<bus, dpc, run, cur, tofree, flushWait>>
  BY DEF BindInsert, Goto, DpcInv, InsertOwned, ChanTypeOK, ChanStages
<1>2. ChanTypeOK'
  <2>1. chan' \in [Chans -> ChanRec]
    BY <1>1, ChanStUpdate DEF DpcInv, ChanTypeOK, ChanStates
  <2>2. pc' \in [Threads -> PcValues]
    BY <1>1 DEF DpcInv, ChanTypeOK, PcValues
  <2>3. \A u \in Threads : pc'[u] \in ChanStages => cur'[u] \in Chans
    BY <1>1 DEF DpcInv, ChanTypeOK, ChanStages
  <2>4. QED
    BY <1>1, <2>1, <2>2, <2>3 DEF DpcInv, ChanTypeOK
<1>3. NoDpcAfterFree' /\ FreedClosed'
  BY <1>1 DEF DpcInv, ChanTypeOK, NoDpcAfterFree, FreedClosed
<1>4. FreeingGone' /\ FlushPending'
  BY <1>1 DEF DpcInv, ChanTypeOK, FreeingGone, Gone, FreeStages, FlushPending, FlushCovers
<1>5. InsertOwned'
  BY <1>1 DEF DpcInv, ChanTypeOK, InsertOwned
<1>6. QED
  BY <1>2, <1>3, <1>4, <1>5 DEF DpcInv

\* Active = 1 changes neither a list state nor a channel.
LEMMA BindActivateDpcInv ==
    ASSUME DpcInv, NEW t \in Threads, BindActivate(t)
    PROVE  DpcInv'
<1>1. /\ pc[t] = "bind_activate" /\ cur[t] \in Chans
      /\ chan' = [chan EXCEPT ![cur[t]].active = TRUE]
      /\ pc'[t] \in {"idle", "bind_unmask"}
      /\ \A u \in Threads \ {t} : pc'[u] = pc[u]
      /\ pc' \in [Threads -> PcValues]
      /\ UNCHANGED <<bus, dpc, run, cur, tofree, flushWait>>
  BY DEF BindActivate, Goto, DpcInv, ChanTypeOK, ChanStages, PcValues
<1>2. ChanTypeOK'
  <2>1. chan' \in [Chans -> ChanRec]
    BY <1>1, ChanActiveUpdate DEF DpcInv, ChanTypeOK
  <2>2. \A u \in Threads : pc'[u] \in ChanStages => cur'[u] \in Chans
    BY <1>1 DEF DpcInv, ChanTypeOK, ChanStages
  <2>3. QED
    BY <1>1, <2>1, <2>2 DEF DpcInv, ChanTypeOK
<1>3. QED
  BY <1>1, <1>2 DEF DpcInv, ChanTypeOK, NoDpcAfterFree, FreedClosed, FreeingGone, Gone,
                    FreeStages, FlushPending, FlushCovers, InsertOwned

\* The bind's unmask changes only the masked bit of the bus's channel.
LEMMA BindUnmaskDpcInv ==
    ASSUME DpcInv, NEW t \in Threads, BindUnmask(t)
    PROVE  DpcInv'
<1>1. /\ pc[t] = "bind_unmask" /\ cur[t] \in Chans
      /\ bus' = [bus EXCEPT ![cur[t]].masked = FALSE]
      /\ pc' = [pc EXCEPT ![t] = "idle"]
      /\ UNCHANGED <<chan, dpc, run, cur, tofree, flushWait>>
  BY DEF BindUnmask, Goto, DpcInv, ChanTypeOK, ChanStages
<1>2. ChanTypeOK'
  BY <1>1 DEF DpcInv, ChanTypeOK, BusRec, PcValues, ChanStages
<1>3. QED
  BY <1>1, <1>2 DEF DpcInv, ChanTypeOK, NoDpcAfterFree, FreedClosed, FreeingGone, Gone,
                    FreeStages, FlushPending, FlushCovers, InsertOwned

\* IoctlEvtchnClose detaches a listed context, which no bind is inserting.
LEMMA CloseDpcInv ==
    ASSUME DpcInv, NEW t \in Threads, NEW f \in FOs, NEW port \in Ports,
           IoctlEvtchnClose(t, f, port)
    PROVE  DpcInv'
<1> PICK c \in EvtchnFindChannel(port, f) :
        /\ chan' = [chan EXCEPT ![c].st = "detached"]
        /\ cur' = [cur EXCEPT ![t] = c]
  BY DEF IoctlEvtchnClose
<1>1. /\ c \in Chans /\ chan[c].st = "listed"
      /\ pc[t] = "idle" /\ pc' = [pc EXCEPT ![t] = "free_deact"]
      /\ UNCHANGED <<bus, dpc, run, tofree, flushWait>>
  BY DEF IoctlEvtchnClose, Goto, EvtchnFindChannel, Listed
<1>2. ChanTypeOK'
  <2>1. chan' \in [Chans -> ChanRec]
    BY <1>1, ChanStUpdate DEF DpcInv, ChanTypeOK, ChanStates
  <2>2. pc' \in [Threads -> PcValues] /\ cur' \in [Threads -> Chans \cup Watches \cup {None}]
    BY <1>1 DEF DpcInv, ChanTypeOK, PcValues
  <2>3. \A u \in Threads : pc'[u] \in ChanStages => cur'[u] \in Chans
    BY <1>1 DEF DpcInv, ChanTypeOK, ChanStages
  <2>4. QED
    BY <1>1, <2>1, <2>2, <2>3 DEF DpcInv, ChanTypeOK
<1>3. NoDpcAfterFree' /\ FreedClosed'
  BY <1>1 DEF DpcInv, ChanTypeOK, NoDpcAfterFree, FreedClosed
<1>4. FreeingGone'
  BY <1>1 DEF DpcInv, ChanTypeOK, FreeingGone, Gone, FreeStages
<1>5. FlushPending'
  BY <1>1 DEF DpcInv, ChanTypeOK, FlushPending, FlushCovers
<1>6. InsertOwned'
  BY <1>1 DEF DpcInv, ChanTypeOK, InsertOwned
<1>7. QED
  BY <1>2, <1>3, <1>4, <1>5, <1>6 DEF DpcInv

\* IoctlEvtchnUnmask changes only the masked bit of a listed channel.
LEMMA UnmaskDpcInv ==
    ASSUME DpcInv, NEW t \in Threads, NEW f \in FOs, NEW port \in Ports,
           IoctlEvtchnUnmask(t, f, port)
    PROVE  DpcInv'
<1> PICK c \in EvtchnFindChannel(port, f) : bus' = [bus EXCEPT ![c].masked = FALSE]
  BY DEF IoctlEvtchnUnmask
<1>1. c \in Chans /\ UNCHANGED <<chan, dpc, run, pc, cur, tofree, flushWait>>
  BY DEF IoctlEvtchnUnmask, EvtchnFindChannel, threadVars
<1>2. ChanTypeOK'
  BY <1>1 DEF DpcInv, ChanTypeOK, BusRec
<1>3. QED
  BY <1>1, <1>2 DEF DpcInv, ChanTypeOK, NoDpcAfterFree, FreedClosed, FreeingGone, Gone,
                    FreeStages, FlushPending, FlushCovers, InsertOwned


\* Active = 0 leaves every list state and channel as it was.
LEMMA FreeDeactivateDpcInv ==
    ASSUME DpcInv, NEW t \in Threads, FreeDeactivate(t)
    PROVE  DpcInv'
<1>1. /\ pc[t] = "free_deact" /\ cur[t] \in Chans
      /\ chan' = [chan EXCEPT ![cur[t]].active = FALSE]
      /\ pc' = [pc EXCEPT ![t] = "free_close"]
      /\ UNCHANGED <<bus, dpc, run, cur, tofree, flushWait>>
  BY DEF FreeDeactivate, Goto, DpcInv, ChanTypeOK, ChanStages
<1>2. ChanTypeOK'
  <2>1. chan' \in [Chans -> ChanRec]
    BY <1>1, ChanActiveUpdate DEF DpcInv, ChanTypeOK
  <2>2. pc' \in [Threads -> PcValues]
    BY <1>1 DEF DpcInv, ChanTypeOK, PcValues
  <2>3. \A u \in Threads : pc'[u] \in ChanStages => cur'[u] \in Chans
    BY <1>1 DEF DpcInv, ChanTypeOK, ChanStages
  <2>4. QED
    BY <1>1, <2>1, <2>2, <2>3 DEF DpcInv, ChanTypeOK
<1>3. QED
  BY <1>1, <1>2 DEF DpcInv, ChanTypeOK, NoDpcAfterFree, FreedClosed, FreeingGone, Gone,
                    FreeStages, FlushPending, FlushCovers, InsertOwned

\* XENBUS Close closes the channel, and the snapshot KeFlushQueuedDpcs
\* takes holds every DPC queued or running at that moment.
LEMMA FreeCloseDpcInv ==
    ASSUME DpcInv, NEW t \in Threads, FreeClose(t)
    PROVE  DpcInv'
<1>1. /\ pc[t] = "free_close" /\ cur[t] \in Chans /\ Gone(cur[t])
      /\ bus' = [bus EXCEPT ![cur[t]] = [open |-> FALSE, masked |-> TRUE, pending |-> FALSE]]
      /\ flushWait' = [flushWait EXCEPT ![t] =
                        {<<p, "queued">> : p \in {q \in Cpus : dpc[q] # None}}
                        \cup {<<p, "running">> : p \in {q \in Cpus : run[q] # None}}]
      /\ pc' = [pc EXCEPT ![t] = "free_release"]
      /\ UNCHANGED <<chan, dpc, run, cur, tofree>>
  BY DEF FreeClose, Goto, DpcInv, ChanTypeOK, ChanStages, FreeingGone, FreeStages
<1>2. ChanTypeOK'
  BY <1>1 DEF DpcInv, ChanTypeOK, BusRec, PcValues, ChanStages, FlushItems
<1>3. NoDpcAfterFree' /\ FreedClosed' /\ FreeingGone' /\ InsertOwned'
  BY <1>1 DEF DpcInv, ChanTypeOK, NoDpcAfterFree, FreedClosed, FreeingGone, Gone,
              FreeStages, InsertOwned
<1>4. FlushCovers(t)'
  BY <1>1, RegistryAssumption DEF DpcInv, ChanTypeOK, FlushCovers
<1>5. FlushPending'
  BY <1>1, <1>4 DEF DpcInv, ChanTypeOK, FlushPending, FlushCovers
<1>6. QED
  BY <1>2, <1>3, <1>5 DEF DpcInv

\* The flush has returned: no DPC holds cur[t], whose channel is closed,
\* so freeing it keeps every conjunct; the ToFree loop then takes a
\* context that is already off the list.
LEMMA FreeReleaseDpcInv ==
    ASSUME DpcInv, NEW t \in Threads, FreeRelease(t)
    PROVE  DpcInv'
<1> DEFINE c0 == cur[t]
<1>1. /\ pc[t] = "free_release" /\ c0 \in Chans /\ flushWait[t] = {}
      /\ chan' = [chan EXCEPT ![c0].st = "freed"]
      /\ UNCHANGED <<bus, dpc, run, flushWait>>
  BY DEF FreeRelease, DpcInv, ChanTypeOK, ChanStages
<1>2. /\ ~bus[c0].open
      /\ \A p \in Cpus : dpc[p] # c0 /\ run[p] # c0
  BY <1>1 DEF DpcInv, FlushPending, FlushCovers
<1>3. /\ \A u \in Threads \ {t} : pc'[u] = pc[u] /\ cur'[u] = cur[u] /\ tofree'[u] = tofree[u]
      /\ \/ pc'[t] = "idle" /\ tofree'[t] = tofree[t]
         \/ pc'[t] = "free_deact" /\ cur'[t] \in tofree[t] /\ tofree'[t] = tofree[t] \ {cur'[t]}
      /\ pc' \in [Threads -> PcValues]
      /\ cur' \in [Threads -> Chans \cup Watches \cup {None}]
      /\ tofree' \in [Threads -> SUBSET Chans]
  BY <1>1 DEF FreeRelease, Goto, DpcInv, ChanTypeOK, PcValues
<1>4. ChanTypeOK'
  <2>1. chan' \in [Chans -> ChanRec]
    BY <1>1, ChanStUpdate DEF DpcInv, ChanTypeOK, ChanStates
  <2>2. \A u \in Threads : pc'[u] \in ChanStages => cur'[u] \in Chans
    BY <1>1, <1>3 DEF DpcInv, ChanTypeOK, ChanStages
  <2>3. QED
    BY <1>1, <1>3, <2>1, <2>2 DEF DpcInv, ChanTypeOK
<1>5. NoDpcAfterFree' /\ FreedClosed'
  BY <1>1, <1>2 DEF DpcInv, ChanTypeOK, NoDpcAfterFree, FreedClosed
<1>6. FreeingGone'
  BY <1>1, <1>3 DEF DpcInv, ChanTypeOK, FreeingGone, Gone, FreeStages
<1>7. FlushPending'
  BY <1>1, <1>3 DEF DpcInv, ChanTypeOK, FlushPending, FlushCovers
<1>8. InsertOwned'
  <2>1. \A u \in Threads : pc[u] = "bind_insert" => cur[u] # c0
    BY <1>1 DEF DpcInv, InsertOwned, FreeingGone, Gone, FreeStages
  <2>2. QED
    BY <1>1, <1>3, <2>1 DEF DpcInv, ChanTypeOK, InsertOwned
<1>9. QED
  BY <1>4, <1>5, <1>6, <1>7, <1>8 DEF DpcInv


\* The ISR fires only for an open channel, so it never queues a freed
\* context nor one a finishing EvtchnFree has already closed.
LEMMA InterruptDpcInv ==
    ASSUME DpcInv, NEW c \in Chans, NEW p \in Cpus, EvtchnInterruptHandler(c, p)
    PROVE  DpcInv'
<1>1. /\ bus[c].open
      /\ bus' = [bus EXCEPT ![c].masked = TRUE, ![c].pending = FALSE]
      /\ \/ dpc' = [dpc EXCEPT ![p] = IF @ = None THEN c ELSE @]
         \/ dpc' = dpc
      /\ UNCHANGED <<chan, run, pc, cur, tofree, flushWait>>
  BY DEF EvtchnInterruptHandler, threadVars
<1>2. chan[c].st # "freed"
  BY <1>1 DEF DpcInv, FreedClosed
<1>3. \A t \in Threads : pc[t] = "free_release" => cur[t] # c
  BY <1>1 DEF DpcInv, FlushPending
<1>4. /\ dpc' \in [Cpus -> Chans \cup {None}]
      /\ \A q \in Cpus : dpc'[q] = dpc[q] \/ (dpc[q] = None /\ dpc'[q] = c)
  BY <1>1 DEF DpcInv, ChanTypeOK
<1>5. ChanTypeOK'
  <2>1. bus' \in [Chans -> BusRec]
    BY <1>1, BusMaskUpdate DEF DpcInv, ChanTypeOK
  <2>2. QED
    BY <1>1, <1>4, <2>1 DEF DpcInv, ChanTypeOK
<1>6. NoDpcAfterFree'
  BY <1>1, <1>2, <1>4 DEF DpcInv, NoDpcAfterFree
<1>7. \A d \in Chans : bus'[d].open = bus[d].open
  BY <1>1 DEF DpcInv, ChanTypeOK, BusRec
<1>8. FlushPending'
  <2> SUFFICES ASSUME NEW t \in Threads, pc'[t] = "free_release"
               PROVE  ~bus'[cur'[t]].open /\ FlushCovers(t)'
    BY DEF FlushPending
  <2>1. pc[t] = "free_release" /\ cur'[t] = cur[t] /\ cur[t] \in Chans /\ cur[t] # c
    BY <1>1, <1>3 DEF DpcInv, ChanTypeOK, ChanStages
  <2>2. ~bus[cur[t]].open /\ FlushCovers(t)
    BY <2>1 DEF DpcInv, FlushPending
  <2>3. ~bus'[cur'[t]].open
    BY <1>7, <2>1, <2>2
  <2>4. FlushCovers(t)'
    BY <1>1, <1>4, <2>1, <2>2 DEF FlushCovers
  <2>5. QED
    BY <2>3, <2>4
<1>9. QED
  BY <1>1, <1>5, <1>6, <1>7, <1>8 DEF DpcInv, FreedClosed, FreeingGone, Gone, FreeStages,
                                      InsertOwned

\* A remote send only sets the pending bit.
LEMMA RemoteSendDpcInv ==
    ASSUME DpcInv, NEW c \in Chans, RemoteSend(c)
    PROVE  DpcInv'
<1>1. bus' = [bus EXCEPT ![c].pending = TRUE]
      /\ UNCHANGED <<chan, dpc, run, pc, cur, tofree, flushWait>>
  BY DEF RemoteSend, threadVars
<1>2. ChanTypeOK'
  BY <1>1 DEF DpcInv, ChanTypeOK, BusRec
<1>3. QED
  BY <1>1, <1>2 DEF DpcInv, ChanTypeOK, NoDpcAfterFree, FreedClosed, FreeingGone, Gone,
                    FreeStages, FlushPending, FlushCovers, InsertOwned

\* The DPC starts: the queued context moves to run[p] (if Active) and every
\* flush waiting for the queued DPC now waits for the running one.
LEMMA NotificationDpcDpcInv ==
    ASSUME DpcInv, NEW p \in Cpus, EvtchnNotificationDpc(p)
    PROVE  DpcInv'
<1> PICK c \in Chans : c = dpc[p]
  BY DEF EvtchnNotificationDpc, DpcInv, ChanTypeOK
<1>1. /\ run[p] = None /\ chan[c].st # "freed"
      /\ dpc' = [dpc EXCEPT ![p] = None]
      /\ UNCHANGED <<chan, bus, pc, cur, tofree>>
  BY DEF EvtchnNotificationDpc, DpcInv, NoDpcAfterFree
<1>2. CASE chan[c].active
  <2>1. /\ run' = [run EXCEPT ![p] = c]
        /\ flushWait' = [t \in Threads |->
                IF <<p, "queued">> \in flushWait[t]
                   THEN (flushWait[t] \ {<<p, "queued">>}) \cup {<<p, "running">>}
                   ELSE flushWait[t]]
    BY <1>2 DEF EvtchnNotificationDpc
  <2>2. ChanTypeOK'
    BY <1>1, <2>1 DEF DpcInv, ChanTypeOK, FlushItems
  <2>3. NoDpcAfterFree'
    BY <1>1, <2>1 DEF DpcInv, ChanTypeOK, NoDpcAfterFree
  <2>4. FlushPending'
    <3> SUFFICES ASSUME NEW t \in Threads, pc'[t] = "free_release"
                 PROVE  ~bus'[cur'[t]].open /\ FlushCovers(t)'
      BY DEF FlushPending
    <3>1. pc[t] = "free_release" /\ cur[t] \in Chans /\ ~bus[cur[t]].open /\ FlushCovers(t)
      BY <1>1 DEF DpcInv, ChanTypeOK, ChanStages, FlushPending
    <3>2. ASSUME NEW q \in Cpus PROVE dpc'[q] = cur[t] => <<q, "queued">> \in flushWait'[t]
      <4>1. q # p \/ dpc'[q] # cur[t]
        BY <1>1, <3>1, RegistryAssumption DEF DpcInv, ChanTypeOK
      <4>2. QED
        BY <1>1, <2>1, <3>1, <4>1 DEF FlushCovers, DpcInv, ChanTypeOK
    <3>3. ASSUME NEW q \in Cpus PROVE run'[q] = cur[t] => <<q, "running">> \in flushWait'[t]
      <4>1. CASE q = p
        BY <1>1, <2>1, <3>1, <4>1 DEF FlushCovers, DpcInv, ChanTypeOK
      <4>2. CASE q # p
        BY <1>1, <2>1, <3>1, <4>2 DEF FlushCovers, DpcInv, ChanTypeOK
      <4>3. QED
        BY <4>1, <4>2
    <3>4. QED
      BY <1>1, <3>1, <3>2, <3>3 DEF FlushCovers
  <2>5. QED
    BY <1>1, <2>2, <2>3, <2>4 DEF DpcInv, FreedClosed, FreeingGone, Gone, FreeStages,
                                  InsertOwned
<1>3. CASE ~chan[c].active
  <2>1. /\ run' = run
        /\ flushWait' = [t \in Threads |-> flushWait[t] \ {<<p, "queued">>}]
    BY <1>3 DEF EvtchnNotificationDpc
  <2>2. ChanTypeOK'
    BY <1>1, <2>1 DEF DpcInv, ChanTypeOK
  <2>3. NoDpcAfterFree'
    BY <1>1, <2>1 DEF DpcInv, ChanTypeOK, NoDpcAfterFree
  <2>4. FlushPending'
    <3> SUFFICES ASSUME NEW t \in Threads, pc'[t] = "free_release"
                 PROVE  ~bus'[cur'[t]].open /\ FlushCovers(t)'
      BY DEF FlushPending
    <3>1. pc[t] = "free_release" /\ cur[t] \in Chans /\ ~bus[cur[t]].open /\ FlushCovers(t)
      BY <1>1 DEF DpcInv, ChanTypeOK, ChanStages, FlushPending
    <3>2. ASSUME NEW q \in Cpus PROVE dpc'[q] = cur[t] => <<q, "queued">> \in flushWait'[t]
      <4>1. q # p \/ dpc'[q] # cur[t]
        BY <1>1, <3>1, RegistryAssumption DEF DpcInv, ChanTypeOK
      <4>2. QED
        BY <1>1, <2>1, <3>1, <4>1 DEF FlushCovers, DpcInv, ChanTypeOK
    <3>3. ASSUME NEW q \in Cpus PROVE run'[q] = cur[t] => <<q, "running">> \in flushWait'[t]
      BY <1>1, <2>1, <3>1 DEF FlushCovers, DpcInv, ChanTypeOK
    <3>4. QED
      BY <1>1, <3>1, <3>2, <3>3 DEF FlushCovers
  <2>5. QED
    BY <1>1, <2>2, <2>3, <2>4 DEF DpcInv, FreedClosed, FreeingGone, Gone, FreeStages,
                                  InsertOwned
<1>4. QED
  BY <1>2, <1>3

\* The DPC's unmask ends it: run[p] and the flushes' running items go.
LEMMA DpcUnmaskDpcInv ==
    ASSUME DpcInv, NEW p \in Cpus, DpcUnmask(p)
    PROVE  DpcInv'
<1>1. /\ run[p] \in Chans
      /\ bus' = [bus EXCEPT ![run[p]].masked = FALSE]
      /\ run' = [run EXCEPT ![p] = None]
      /\ flushWait' = [t \in Threads |-> flushWait[t] \ {<<p, "running">>}]
      /\ UNCHANGED <<chan, dpc, pc, cur, tofree>>
  BY DEF DpcUnmask, DpcInv, ChanTypeOK
<1>2. ChanTypeOK'
  BY <1>1 DEF DpcInv, ChanTypeOK, BusRec
<1>3. NoDpcAfterFree' /\ FreedClosed'
  BY <1>1 DEF DpcInv, ChanTypeOK, NoDpcAfterFree, FreedClosed
<1>4. \A d \in Chans : bus'[d].open = bus[d].open
  BY <1>1 DEF DpcInv, ChanTypeOK, BusRec
<1>5. FlushPending'
  <2> SUFFICES ASSUME NEW t \in Threads, pc'[t] = "free_release"
               PROVE  ~bus'[cur'[t]].open /\ FlushCovers(t)'
    BY DEF FlushPending
  <2>1. pc[t] = "free_release" /\ cur[t] \in Chans /\ ~bus[cur[t]].open /\ FlushCovers(t)
    BY <1>1 DEF DpcInv, ChanTypeOK, ChanStages, FlushPending
  <2>2. ~bus'[cur'[t]].open
    BY <1>1, <1>4, <2>1
  <2>3. ASSUME NEW q \in Cpus PROVE run'[q] = cur[t] => <<q, "running">> \in flushWait'[t]
    <3>1. q # p \/ run'[q] # cur[t]
      BY <1>1, <2>1, RegistryAssumption DEF DpcInv, ChanTypeOK
    <3>2. QED
      BY <1>1, <2>1, <3>1 DEF FlushCovers, DpcInv, ChanTypeOK
  <2>4. QED
    BY <1>1, <2>1, <2>2, <2>3 DEF FlushCovers
<1>6. QED
  BY <1>1, <1>2, <1>3, <1>4, <1>5 DEF DpcInv, FreeingGone, Gone, FreeStages, InsertOwned


\* A step of a thread outside the channel stages that changes no channel
\* variable (the watch handlers and the first half of cleanup) keeps DpcInv.
LEMMA NonChanStepDpcInv ==
    ASSUME DpcInv, NEW t \in Threads, NEW l \in PcValues \ ChanStages,
           pc[t] \notin ChanStages,
           pc' = [pc EXCEPT ![t] = l],
           cur' \in [Threads -> Chans \cup Watches \cup {None}],
           \A u \in Threads \ {t} : cur'[u] = cur[u],
           UNCHANGED <<chan, bus, dpc, run, tofree, flushWait>>
    PROVE  DpcInv'
<1>1. ChanTypeOK'
  BY DEF DpcInv, ChanTypeOK
<1>2. \A u \in Threads : pc'[u] \in ChanStages => pc[u] = pc'[u] /\ cur'[u] = cur[u] /\ u # t
  BY DEF DpcInv, ChanTypeOK
<1>3. NoDpcAfterFree' /\ FreedClosed'
  BY DEF DpcInv, NoDpcAfterFree, FreedClosed
<1>4. FreeingGone'
  BY <1>2 DEF DpcInv, FreeingGone, Gone, FreeStages, ChanStages
<1>5. FlushPending'
  BY <1>2 DEF DpcInv, FlushPending, FlushCovers, ChanStages
<1>6. InsertOwned'
  BY <1>2 DEF DpcInv, InsertOwned, ChanStages
<1>7. QED
  BY <1>1, <1>3, <1>4, <1>5, <1>6 DEF DpcInv

\* IoctlStoreAddWatch up to WatchAdd.
LEMMA AddWatchDpcInv ==
    ASSUME DpcInv, NEW t \in Threads, NEW f \in FOs, IoctlStoreAddWatch(t, f)
    PROVE  DpcInv'
<1> PICK w \in Watches : cur' = [cur EXCEPT ![t] = w]
  BY DEF IoctlStoreAddWatch
<1>1. pc[t] = "idle" /\ pc' = [pc EXCEPT ![t] = "add_insert"]
      /\ UNCHANGED <<chan, bus, dpc, run, tofree, flushWait>>
  BY DEF IoctlStoreAddWatch, Goto, chanVars
<1>2. QED
  BY <1>1, NonChanStepDpcInv DEF DpcInv, ChanTypeOK, PcValues, ChanStages

\* The insert into StoreWatchList.
LEMMA AddWatchInsertDpcInv ==
    ASSUME DpcInv, NEW t \in Threads, AddWatchInsert(t)
    PROVE  DpcInv'
<1>1. pc[t] = "add_insert" /\ pc' = [pc EXCEPT ![t] = "idle"]
      /\ UNCHANGED <<chan, bus, dpc, run, cur, tofree, flushWait>>
  BY DEF AddWatchInsert, Goto, chanVars
<1>2. QED
  BY <1>1, NonChanStepDpcInv DEF DpcInv, ChanTypeOK, PcValues, ChanStages

\* The walk of IoctlStoreRemoveWatch.
LEMMA RemoveWatchDpcInv ==
    ASSUME DpcInv, NEW t \in Threads, NEW f \in FOs, NEW w \in Watches,
           IoctlStoreRemoveWatch(t, f, w)
    PROVE  DpcInv'
<1>1. pc[t] = "idle" /\ pc' = [pc EXCEPT ![t] = "rw_free"] /\ cur' = [cur EXCEPT ![t] = w]
      /\ UNCHANGED <<chan, bus, dpc, run, tofree, flushWait>>
  BY DEF IoctlStoreRemoveWatch, Goto, chanVars
<1>2. QED
  BY <1>1, NonChanStepDpcInv DEF DpcInv, ChanTypeOK, PcValues, ChanStages

\* StoreFreeWatch after the walk.
LEMMA StoreFreeWatchDpcInv ==
    ASSUME DpcInv, NEW t \in Threads, StoreFreeWatch(t)
    PROVE  DpcInv'
<1>1. pc[t] = "rw_free" /\ pc' = [pc EXCEPT ![t] = "idle"]
      /\ UNCHANGED <<chan, bus, dpc, run, cur, tofree, flushWait>>
  BY DEF StoreFreeWatch, Goto, chanVars
<1>2. QED
  BY <1>1, NonChanStepDpcInv DEF DpcInv, ChanTypeOK, PcValues, ChanStages

\* The watch sweep of XenIfaceCleanup.
LEMMA CleanupWatchesDpcInv ==
    ASSUME DpcInv, NEW t \in Threads, NEW f \in FOs, CleanupWatches(t, f)
    PROVE  DpcInv'
<1>1. pc[t] = "idle" /\ pc' = [pc EXCEPT ![t] = "cl_detach"]
      /\ UNCHANGED <<chan, bus, dpc, run, cur, tofree, flushWait>>
  BY DEF CleanupWatches, Goto, chanVars
<1>2. QED
  BY <1>1, NonChanStepDpcInv DEF DpcInv, ChanTypeOK, PcValues, ChanStages

\* The channel sweep of XenIfaceCleanup detaches listed contexts only:
\* none of them is freed, being freed or being inserted by a bind.
LEMMA CleanupDetachDpcInv ==
    ASSUME DpcInv, NEW t \in Threads, CleanupDetach(t)
    PROVE  DpcInv'
<1> DEFINE mine == {c \in Chans : Listed(c) /\ chan[c].fo = fo[t]}
<1>1. /\ pc[t] = "cl_detach"
      /\ chan' = [c \in Chans |-> IF c \in mine THEN [chan[c] EXCEPT !.st = "detached"]
                                                ELSE chan[c]]
      /\ UNCHANGED <<bus, dpc, run, flushWait>>
      /\ \/ pc' = [pc EXCEPT ![t] = "idle"] /\ UNCHANGED <<cur, tofree>>
         \/ \E c \in mine : /\ cur' = [cur EXCEPT ![t] = c]
                            /\ tofree' = [tofree EXCEPT ![t] = mine \ {c}]
                            /\ pc' = [pc EXCEPT ![t] = "free_deact"]
  BY DEF CleanupDetach, Goto
<1>2. /\ chan' \in [Chans -> ChanRec]
      /\ \A c \in Chans : chan'[c].st = chan[c].st \/ (c \in mine /\ chan'[c].st = "detached")
  <2>1. \A c \in Chans : [chan[c] EXCEPT !.st = "detached"] \in ChanRec
    BY DEF DpcInv, ChanTypeOK, ChanRec, ChanStates
  <2>2. chan' \in [Chans -> ChanRec]
    BY <1>1, <2>1 DEF DpcInv, ChanTypeOK
  <2>3. \A c \in Chans : chan'[c].st = chan[c].st \/ (c \in mine /\ chan'[c].st = "detached")
    BY <1>1 DEF DpcInv, ChanTypeOK, ChanRec
  <2>4. QED
    BY <2>2, <2>3
<1>3. \A c \in mine : chan[c].st = "listed"
  BY DEF Listed
<1>4. ChanTypeOK'
  BY <1>1, <1>2 DEF DpcInv, ChanTypeOK, PcValues, ChanStages
<1>5. \A c \in Chans : /\ chan'[c].st = "freed" <=> chan[c].st = "freed"
                       /\ Gone(c) => Gone(c)'
                       /\ chan[c].st = "bound" => chan'[c].st = "bound"
  BY <1>2, <1>3 DEF Gone
<1>6. NoDpcAfterFree' /\ FreedClosed'
  BY <1>1, <1>5 DEF DpcInv, ChanTypeOK, NoDpcAfterFree, FreedClosed
<1>7. FreeingGone'
  <2>1. \A u \in Threads, d \in Chans : pc[u] \in FreeStages /\ cur[u] = d => Gone(d)'
    BY <1>5 DEF DpcInv, FreeingGone
  <2>2. \A u \in Threads, d \in Chans : d \in tofree[u] => Gone(d)'
    BY <1>5 DEF DpcInv, FreeingGone
  <2>3. CASE pc' = [pc EXCEPT ![t] = "idle"] /\ UNCHANGED <<cur, tofree>>
    <3>1. \A u \in Threads : pc'[u] \in FreeStages => pc[u] = pc'[u] /\ cur'[u] = cur[u]
      BY <2>3 DEF DpcInv, ChanTypeOK, FreeStages
    <3>2. \A u \in Threads : pc'[u] \in FreeStages => cur[u] \in Chans
      BY <3>1 DEF DpcInv, ChanTypeOK, FreeStages, ChanStages
    <3>3. QED
      BY <2>1, <2>2, <2>3, <3>1, <3>2 DEF DpcInv, ChanTypeOK, FreeingGone
  <2>4. CASE \E c \in mine : /\ cur' = [cur EXCEPT ![t] = c]
                              /\ tofree' = [tofree EXCEPT ![t] = mine \ {c}]
                              /\ pc' = [pc EXCEPT ![t] = "free_deact"]
    <3> PICK c \in mine : /\ cur' = [cur EXCEPT ![t] = c]
                          /\ tofree' = [tofree EXCEPT ![t] = mine \ {c}]
                          /\ pc' = [pc EXCEPT ![t] = "free_deact"]
      BY <2>4
    <3>1. \A d \in mine : Gone(d)'
      BY <1>1 DEF Gone, DpcInv, ChanTypeOK, ChanRec
    <3>2. \A u \in Threads \ {t} : pc'[u] = pc[u] /\ cur'[u] = cur[u] /\ tofree'[u] = tofree[u]
      BY DEF DpcInv, ChanTypeOK
    <3>3. cur'[t] = c /\ tofree'[t] = mine \ {c}
      BY DEF DpcInv, ChanTypeOK
    <3>4. \A u \in Threads \ {t} : pc'[u] \in FreeStages => cur[u] \in Chans
      BY <3>2 DEF DpcInv, ChanTypeOK, FreeStages, ChanStages
    <3>5. \A u \in Threads : pc'[u] \in FreeStages => Gone(cur[u])'
      BY <2>1, <3>1, <3>2, <3>3, <3>4 DEF DpcInv, ChanTypeOK
    <3>6. \A u \in Threads : \A d \in tofree'[u] : Gone(d)'
      BY <2>2, <3>1, <3>2, <3>3 DEF DpcInv, ChanTypeOK
    <3>7. QED
      BY <3>5, <3>6 DEF FreeingGone
  <2>5. QED
    BY <1>1, <2>3, <2>4
<1>8. FlushPending'
  BY <1>1 DEF DpcInv, ChanTypeOK, FlushPending, FlushCovers
<1>9. InsertOwned'
  <2>1. \A u \in Threads : pc'[u] = "bind_insert" => pc[u] = "bind_insert" /\ cur'[u] = cur[u]
    BY <1>1 DEF DpcInv, ChanTypeOK
  <2>2. \A u \in Threads : pc'[u] = "bind_insert" => chan'[cur'[u]].st = "bound"
    BY <2>1, <1>5 DEF DpcInv, ChanTypeOK, InsertOwned, ChanStages
  <2>3. QED
    BY <2>1, <2>2 DEF DpcInv, InsertOwned
<1>10. QED
  BY <1>4, <1>6, <1>7, <1>8, <1>9 DEF DpcInv


\* Stuttering keeps DpcInv.
LEMMA StutterDpcInv ==
    ASSUME DpcInv, UNCHANGED vars
    PROVE  DpcInv'
  BY DEF DpcInv, vars, ChanTypeOK, NoDpcAfterFree, FreedClosed, FreeingGone, Gone,
         FlushPending, FlushCovers, InsertOwned

\* Every step of a thread inside the driver keeps DpcInv.
LEMMA ThreadStepDpcInv ==
    ASSUME DpcInv, NEW t \in Threads, ThreadStep(t)
    PROVE  DpcInv'
  BY BindInsertDpcInv, BindActivateDpcInv, BindUnmaskDpcInv, FreeDeactivateDpcInv,
     FreeCloseDpcInv, FreeReleaseDpcInv, AddWatchInsertDpcInv, StoreFreeWatchDpcInv,
     CleanupDetachDpcInv DEF ThreadStep

\* Every step of the registry, ioctl, ISR, DPC or peer, keeps DpcInv.
LEMMA NextDpcInv ==
    ASSUME DpcInv, [Next]_vars
    PROVE  DpcInv'
<1>1. CASE \E t \in Threads : ThreadStep(t)
  BY <1>1, ThreadStepDpcInv
<1>2. CASE \E t \in Threads, f \in FOs, m \in BOOLEAN :
             IoctlEvtchnBindUnbound(t, f, m) \/ IoctlEvtchnBindInterdomain(t, f, m)
  BY <1>2, BindUnboundDpcInv DEF IoctlEvtchnBindInterdomain
<1>3. CASE \E t \in Threads, f \in FOs, port \in Ports :
             IoctlEvtchnClose(t, f, port) \/ IoctlEvtchnUnmask(t, f, port)
  BY <1>3, CloseDpcInv, UnmaskDpcInv
<1>4. CASE \E t \in Threads, f \in FOs :
             \/ IoctlStoreAddWatch(t, f)
             \/ \E w \in Watches : IoctlStoreRemoveWatch(t, f, w)
             \/ CleanupWatches(t, f)
  BY <1>4, AddWatchDpcInv, RemoveWatchDpcInv, CleanupWatchesDpcInv
<1>5. CASE \E c \in Chans : RemoteSend(c) \/ \E p \in Cpus : EvtchnInterruptHandler(c, p)
  BY <1>5, RemoteSendDpcInv, InterruptDpcInv
<1>6. CASE \E p \in Cpus : EvtchnNotificationDpc(p) \/ DpcUnmask(p)
  BY <1>6, NotificationDpcDpcInv, DpcUnmaskDpcInv
<1>7. CASE UNCHANGED vars
  BY <1>7, StutterDpcInv
<1>8. QED
  BY <1>1, <1>2, <1>3, <1>4, <1>5, <1>6, <1>7 DEF Next

\* DpcInv holds in every state of every behaviour of the registry.
THEOREM DpcInvariant == Spec => []DpcInv
<1>1. Init => DpcInv
  BY InitDpcInv
<1>2. DpcInv /\ [Next]_vars => DpcInv'
  BY NextDpcInv
<1>3. QED
  BY <1>1, <1>2, PTL DEF Spec

\* EvtchnFree (ioctls.c) never releases a channel context that a notification
\* DPC still has queued or running on any CPU, whatever the numbers of
\* threads, handles, channels and CPUs: the flush in EvtchnFree, after the
\* XENBUS Close, waits for every such DPC.
THEOREM NoDpcAfterFreeCorrect == Spec => []NoDpcAfterFree
  BY DpcInvariant, PTL DEF DpcInv


\* The step of a context into "freed", in the form of FreeAfterQuiesce.
FreedQuiet(c) ==
    (chan[c].st # "freed" /\ chan'[c].st = "freed") =>
        /\ ~bus[c].open
        /\ \A p \in Cpus : dpc[p] # c /\ run[p] # c

\* Only FreeRelease frees, and it frees cur[t] after the flush snapshot
\* has drained: FlushPending then says the channel is closed and no DPC
\* holds the context.
LEMMA FreeReleaseQuiet ==
    ASSUME DpcInv, NEW t \in Threads, FreeRelease(t)
    PROVE  \A c \in Chans : FreedQuiet(c)
<1>1. /\ pc[t] = "free_release" /\ flushWait[t] = {} /\ cur[t] \in Chans
      /\ chan' = [chan EXCEPT ![cur[t]].st = "freed"]
  BY DEF FreeRelease, DpcInv, ChanTypeOK, ChanStages
<1>2. ~bus[cur[t]].open /\ \A p \in Cpus : dpc[p] # cur[t] /\ run[p] # cur[t]
  BY <1>1 DEF DpcInv, FlushPending, FlushCovers
<1>3. \A c \in Chans \ {cur[t]} : chan'[c] = chan[c]
  BY <1>1 DEF DpcInv, ChanTypeOK
<1>4. QED
  BY <1>2, <1>3 DEF FreedQuiet

\* Every other step sets no context to "freed".
LEMMA OtherStepsFreeNothing ==
    ASSUME DpcInv, [Next]_vars, ~\E t \in Threads : FreeRelease(t)
    PROVE  \A c \in Chans : chan'[c].st = "freed" => chan[c].st = "freed"
<1> USE DEF DpcInv, ChanTypeOK, ChanRec
<1>1. CASE \E t \in Threads, f \in FOs, m \in BOOLEAN : IoctlEvtchnBindUnbound(t, f, m)
  BY <1>1 DEF IoctlEvtchnBindUnbound
<1>2. CASE \E t \in Threads : BindInsert(t) \/ BindActivate(t) \/ BindUnmask(t)
  BY <1>2 DEF BindInsert, BindActivate, BindUnmask
<1>3. CASE \E t \in Threads : FreeDeactivate(t) \/ FreeClose(t) \/ CleanupDetach(t)
  <2>1. CASE \E t \in Threads : FreeDeactivate(t) \/ FreeClose(t)
    BY <2>1 DEF FreeDeactivate, FreeClose
  <2>2. ASSUME NEW t \in Threads, CleanupDetach(t)
        PROVE  \A c \in Chans : chan'[c].st = "freed" => chan[c].st = "freed"
    <3> DEFINE mine == {c \in Chans : Listed(c) /\ chan[c].fo = fo[t]}
    <3>1. chan' = [c \in Chans |-> IF c \in mine THEN [chan[c] EXCEPT !.st = "detached"]
                                                 ELSE chan[c]]
      BY <2>2 DEF CleanupDetach
    <3>2. QED
      BY <3>1
  <2>3. QED
    BY <1>3, <2>1, <2>2
<1>4. CASE \E t \in Threads, f \in FOs, port \in Ports :
             IoctlEvtchnClose(t, f, port) \/ IoctlEvtchnUnmask(t, f, port)
  <2>1. ASSUME NEW t \in Threads, NEW f \in FOs, NEW port \in Ports,
               IoctlEvtchnClose(t, f, port)
        PROVE  \A c \in Chans : chan'[c].st = "freed" => chan[c].st = "freed"
    <3>1. PICK c0 \in EvtchnFindChannel(port, f) : chan' = [chan EXCEPT ![c0].st = "detached"]
      BY <2>1 DEF IoctlEvtchnClose
    <3>2. QED
      BY <3>1
  <2>2. ASSUME NEW t \in Threads, NEW f \in FOs, NEW port \in Ports,
               IoctlEvtchnUnmask(t, f, port)
        PROVE  \A c \in Chans : chan'[c].st = "freed" => chan[c].st = "freed"
    BY <2>2 DEF IoctlEvtchnUnmask
  <2>3. QED
    BY <1>4, <2>1, <2>2
<1>5. CASE \E t \in Threads : AddWatchInsert(t) \/ StoreFreeWatch(t)
  BY <1>5 DEF AddWatchInsert, StoreFreeWatch, chanVars
<1>6. CASE \E t \in Threads, f \in FOs :
             \/ IoctlStoreAddWatch(t, f)
             \/ \E w \in Watches : IoctlStoreRemoveWatch(t, f, w)
             \/ CleanupWatches(t, f)
  BY <1>6 DEF IoctlStoreAddWatch, IoctlStoreRemoveWatch, CleanupWatches, chanVars
<1>7. CASE \/ \E c \in Chans : RemoteSend(c) \/ \E p \in Cpus : EvtchnInterruptHandler(c, p)
           \/ \E p \in Cpus : EvtchnNotificationDpc(p) \/ DpcUnmask(p)
  BY <1>7 DEF RemoteSend, EvtchnInterruptHandler, EvtchnNotificationDpc, DpcUnmask
<1>8. CASE UNCHANGED vars
  BY <1>8 DEF vars
<1>9. QED
  BY <1>1, <1>2, <1>3, <1>4, <1>5, <1>6, <1>7, <1>8 DEF Next, ThreadStep,
     IoctlEvtchnBindInterdomain

\* EvtchnFree (ioctls.c) releases a channel context only when it is
\* quiescent, for every number of threads, channels and CPUs: in the step
\* that frees it the bus channel is closed and no DPC has it queued or
\* running.
THEOREM FreeAfterQuiesceCorrect == Spec => FreeAfterQuiesce
<1>1. DpcInv /\ [Next]_vars => \A c \in Chans : FreedQuiet(c)
  BY FreeReleaseQuiet, OtherStepsFreeNothing DEF FreedQuiet
<1>2. QED
  BY <1>1, DpcInvariant, PTL DEF Spec, FreeAfterQuiesce, FreedQuiet

=============================================================================
