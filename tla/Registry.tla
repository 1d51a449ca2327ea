------------------------------ MODULE Registry ------------------------------
(***************************************************************************)
(* The per-driver registries of XENIFACE (src/src/xeniface/ioctls.c): the  *)
(* event-channel list with its interrupt handler and per-CPU DPC, the      *)
(* store-watch list, and XenIfaceCleanup, which drains both for a closing  *)
(* file object.                                                            *)
(*                                                                         *)
(* A thread runs one ioctl at a time; the steps of a handler between which *)
(* another thread, an interrupt or a DPC can run are separate actions.     *)
(* The bus (XENBUS_EVTCHN / XENBUS_STORE) is the environment: it opens     *)
(* channels masked, delivers a pending event of an open unmasked channel   *)
(* by masking it and calling the registered handler, and closing masks the *)
(* port and stops delivery.                                                *)
(***************************************************************************)
EXTENDS Naturals, FiniteSets

CONSTANTS
    Threads,     \* threads issuing ioctls (and closing handles)
    FOs,         \* file objects (open handles to the device)
    Chans,       \* XENIFACE_EVTCHN_CONTEXT allocations
    Watches,     \* XENIFACE_STORE_CONTEXT allocations
    Cpus,        \* processors; Fdo->EvtchnDpc[ProcIndex] is one DPC each
    Ports,       \* local port numbers the bus hands out
    None         \* no context / no file object / no port

ASSUME RegistryAssumption ==
    /\ None \notin Threads \cup FOs \cup Chans \cup Watches \cup Ports
    /\ Chans \cap Watches = {}
    /\ Cpus # {}

VARIABLES
    chan,        \* chan[c]: the channel context c
    bus,         \* bus[c]: the bus's channel object behind Context->Channel
    undelivered, \* undelivered[c]: an interrupt of c was taken, event not yet set
    dpc,         \* dpc[p]: Argument1 of the queued DPC of CPU p, or None
    run,         \* run[p]: context whose DPC on CPU p still has to unmask, or None
    watch,       \* watch[w]: the store-watch context w
    wlist,       \* the entries on Fdo->StoreWatchList
    wpos,        \* wpos[w]: w's place in list order (0 until inserted)
    winserts,    \* insertions at the tail of StoreWatchList so far
    wfrees,      \* wfrees[w]: how often StoreFreeWatch freed w
    pc,          \* pc[t]: where thread t is
    cur,         \* cur[t]: the context thread t works on
    fo,          \* fo[t]: the FileObject of t's current request
    mask,        \* mask[t]: In->Mask of t's bind request
    tofree,      \* tofree[t]: XenIfaceCleanup's ToFree list
    flushWait,   \* flushWait[t]: DPCs KeFlushQueuedDpcs still waits for
    closed,      \* file objects whose handle was closed (cleanup started)
    cleaned      \* file objects whose cleanup detached everything

vars == <<chan, bus, undelivered, dpc, run, watch, wlist, wpos, winserts, wfrees,
          pc, cur, fo, mask, tofree, flushWait, closed, cleaned>>

ChanStates  == {"unused", "bound", "listed", "detached", "freed"}
WatchStates == {"unused", "registered", "listed", "freed"}
ChanStages  == {"bind_insert", "bind_activate", "bind_unmask", "free_deact",
                "free_close", "free_release"}
PcValues    == {"idle", "bind_insert", "bind_activate", "bind_unmask",
                "free_deact", "free_close", "free_release", "cl_detach",
                "add_insert", "rw_free"}
\* A DPC KeFlushQueuedDpcs waits for: the one queued or the one running on p.
FlushItems  == Cpus \X {"queued", "running"}

ChanRec  == [st : ChanStates, fo : FOs \cup {None}, port : Ports \cup {None},
             active : BOOLEAN]
BusRec   == [open : BOOLEAN, masked : BOOLEAN, pending : BOOLEAN]
WatchRec == [st : WatchStates, fo : FOs \cup {None}]

Init ==
    /\ chan = [c \in Chans |-> [st |-> "unused", fo |-> None, port |-> None,
                                active |-> FALSE]]
    /\ bus = [c \in Chans |-> [open |-> FALSE, masked |-> TRUE, pending |-> FALSE]]
    /\ undelivered = [c \in Chans |-> FALSE]
    /\ dpc = [p \in Cpus |-> None]
    /\ run = [p \in Cpus |-> None]
    /\ watch = [w \in Watches |-> [st |-> "unused", fo |-> None]]
    /\ wlist = {}
    /\ wpos = [w \in Watches |-> 0]
    /\ winserts = 0
    /\ wfrees = [w \in Watches |-> 0]
    /\ pc = [t \in Threads |-> "idle"]
    /\ cur = [t \in Threads |-> None]
    /\ fo = [t \in Threads |-> None]
    /\ mask = [t \in Threads |-> FALSE]
    /\ tofree = [t \in Threads |-> {}]
    /\ flushWait = [t \in Threads |-> {}]
    /\ closed = {}
    /\ cleaned = {}

chanVars   == <<chan, bus, undelivered, dpc, run>>
watchVars  == <<watch, wlist, wpos, winserts, wfrees>>
threadVars == <<pc, cur, fo, mask, tofree, flushWait>>

Goto(t, l) == pc' = [pc EXCEPT ![t] = l]

Listed(c) == chan[c].st = "listed"

\* EvtchnFindChannel: the listed context with this port and file object.
EvtchnFindChannel(port, f) == {c \in Chans : Listed(c) /\ chan[c].port = port /\ chan[c].fo = f}

PortsInUse == {chan[c].port : c \in {d \in Chans : bus[d].open}}

-----------------------------------------------------------------------------
(* Event channels                                                          *)

\* IoctlEvtchnBindUnbound up to XENBUS_EVTCHN(GetPort): allocate and zero
\* the context, reference the event, open the channel (masked, and masked
\* again by the bus before each callback) and take its local port.  A
\* failure at any of these frees what it took and changes nothing else.
IoctlEvtchnBindUnbound(t, f, m) ==
    /\ pc[t] = "idle" /\ f \notin closed
    /\ \E c \in Chans, port \in Ports \ PortsInUse :
        /\ chan[c].st = "unused"
        /\ chan' = [chan EXCEPT ![c] = [st |-> "bound", fo |-> f, port |-> port,
                                        active |-> FALSE]]
        /\ bus' = [bus EXCEPT ![c] = [open |-> TRUE, masked |-> TRUE, pending |-> FALSE]]
        /\ cur' = [cur EXCEPT ![t] = c]
    /\ Goto(t, "bind_insert")
    /\ mask' = [mask EXCEPT ![t] = m]
    /\ UNCHANGED <<undelivered, dpc, run, watchVars, fo, tofree, flushWait, closed, cleaned>>

\* IoctlEvtchnBindInterdomain takes the same steps with an inter-domain
\* channel to In->RemotePort; the rest of it is BindInsert onwards.
IoctlEvtchnBindInterdomain(t, f, m) == IoctlEvtchnBindUnbound(t, f, m)

\* ExInterlockedInsertTailList(&Fdo->EvtchnList, ...): the context is now
\* visible to Close, Notify, Unmask and cleanup.
BindInsert(t) ==
    /\ pc[t] = "bind_insert"
    /\ chan' = [chan EXCEPT ![cur[t]].st = "listed"]
    /\ Goto(t, "bind_activate")
    /\ UNCHANGED <<bus, undelivered, dpc, run, watchVars, cur, fo, mask, tofree,
                   flushWait, closed, cleaned>>

\* InterlockedExchange8(&Context->Active, 1); return unless !In->Mask.
BindActivate(t) ==
    /\ pc[t] = "bind_activate"
    /\ chan' = [chan EXCEPT ![cur[t]].active = TRUE]
    /\ Goto(t, IF mask[t] THEN "idle" ELSE "bind_unmask")
    /\ UNCHANGED <<bus, undelivered, dpc, run, watchVars, cur, fo, mask, tofree,
                   flushWait, closed, cleaned>>

\* if (!In->Mask) XENBUS_EVTCHN(Unmask, ..., Context->Channel, FALSE).
BindUnmask(t) ==
    /\ pc[t] = "bind_unmask"
    /\ bus' = [bus EXCEPT ![cur[t]].masked = FALSE]
    /\ Goto(t, "idle")
    /\ UNCHANGED <<chan, undelivered, dpc, run, watchVars, cur, fo, mask, tofree,
                   flushWait, closed, cleaned>>

\* A variant of IoctlEvtchnClose that frees the channel it finds without
\* unlinking it from EvtchnList.
IoctlEvtchnCloseNoUnlink(t, f, port) ==
    /\ pc[t] = "idle" /\ f \notin closed
    /\ \E c \in EvtchnFindChannel(port, f) : cur' = [cur EXCEPT ![t] = c]
    /\ Goto(t, "free_deact")
    /\ UNCHANGED <<chan, bus, undelivered, dpc, run, watchVars, fo, mask, tofree, flushWait,
                   closed, cleaned>>

\* IoctlEvtchnClose: under EvtchnLock find and unlink the channel, then
\* EvtchnFree it.  (STATUS_NOT_FOUND when there is none changes nothing.)
IoctlEvtchnClose(t, f, port) ==
    /\ pc[t] = "idle" /\ f \notin closed
    /\ \E c \in EvtchnFindChannel(port, f) :
         /\ chan' = [chan EXCEPT ![c].st = "detached"]
         /\ cur' = [cur EXCEPT ![t] = c]
    /\ Goto(t, "free_deact")
    /\ UNCHANGED <<bus, undelivered, dpc, run, watchVars, fo, mask, tofree, flushWait,
                   closed, cleaned>>

\* IoctlEvtchnUnmask: under EvtchnLock find the channel and unmask it.
\* (STATUS_INVALID_PARAMETER when there is none changes nothing.)
IoctlEvtchnUnmask(t, f, port) ==
    /\ pc[t] = "idle" /\ f \notin closed
    /\ \E c \in EvtchnFindChannel(port, f) :
          bus' = [bus EXCEPT ![c].masked = FALSE]
    /\ UNCHANGED <<chan, undelivered, dpc, run, watchVars, threadVars, closed, cleaned>>

\* EvtchnFree, first step: InterlockedExchange8(&Context->Active, 0).
FreeDeactivate(t) ==
    /\ pc[t] = "free_deact"
    /\ chan' = [chan EXCEPT ![cur[t]].active = FALSE]
    /\ Goto(t, "free_close")
    /\ UNCHANGED <<bus, undelivered, dpc, run, watchVars, cur, fo, mask, tofree,
                   flushWait, closed, cleaned>>

\* A variant of FreeClose that flushes without XENBUS Close: the bus may
\* still deliver and queue the context after the flush.
FreeCloseNoBusClose(t) ==
    /\ pc[t] = "free_close"
    /\ flushWait' = [flushWait EXCEPT ![t] =
                        {<<p, "queued">> : p \in {q \in Cpus : dpc[q] # None}}
                        \cup {<<p, "running">> : p \in {q \in Cpus : run[q] # None}}]
    /\ Goto(t, "free_release")
    /\ UNCHANGED <<chan, bus, undelivered, dpc, run, watchVars, cur, fo, mask, tofree,
                   closed, cleaned>>

\* XENBUS_EVTCHN(Close) stops delivery; KeFlushQueuedDpcs then waits for
\* every DPC queued or running at the time of the call.
FreeClose(t) ==
    /\ pc[t] = "free_close"
    /\ bus' = [bus EXCEPT ![cur[t]] = [open |-> FALSE, masked |-> TRUE, pending |-> FALSE]]
    /\ flushWait' = [flushWait EXCEPT ![t] =
                        {<<p, "queued">> : p \in {q \in Cpus : dpc[q] # None}}
                        \cup {<<p, "running">> : p \in {q \in Cpus : run[q] # None}}]
    /\ Goto(t, "free_release")
    /\ UNCHANGED <<chan, undelivered, dpc, run, watchVars, cur, fo, mask, tofree,
                   closed, cleaned>>

\* A variant of FreeRelease without KeFlushQueuedDpcs: the context is
\* freed as soon as the channel is closed.
FreeReleaseNoFlush(t) ==
    /\ pc[t] = "free_release"
    /\ chan' = [chan EXCEPT ![cur[t]].st = "freed"]
    /\ \/ /\ tofree[t] = {}
          /\ Goto(t, "idle")
          /\ UNCHANGED <<cur, tofree>>
       \/ \E c \in tofree[t] :
            /\ cur' = [cur EXCEPT ![t] = c]
            /\ tofree' = [tofree EXCEPT ![t] = @ \ {c}]
            /\ Goto(t, "free_deact")
    /\ UNCHANGED <<bus, undelivered, dpc, run, watchVars, fo, mask, flushWait,
                   closed, cleaned>>

\* KeFlushQueuedDpcs returns; ObDereferenceObject(Context->Event) and free
\* the context.  XenIfaceCleanup then frees the next context of ToFree.
FreeRelease(t) ==
    /\ pc[t] = "free_release"
    /\ flushWait[t] = {}
    /\ chan' = [chan EXCEPT ![cur[t]].st = "freed"]
    /\ \/ /\ tofree[t] = {}
          /\ Goto(t, "idle")
          /\ UNCHANGED <<cur, tofree>>
       \/ \E c \in tofree[t] :
            /\ cur' = [cur EXCEPT ![t] = c]
            /\ tofree' = [tofree EXCEPT ![t] = @ \ {c}]
            /\ Goto(t, "free_deact")
    /\ UNCHANGED <<bus, undelivered, dpc, run, watchVars, fo, mask, flushWait,
                   closed, cleaned>>

\* The bus delivers a pending event of an open, unmasked channel on CPU p:
\* it masks the port and calls EvtchnInterruptHandler, which queues the
\* CPU's DPC if Context->Active.  KeInsertQueueDpc of a DPC already queued
\* does nothing.
EvtchnInterruptHandler(c, p) ==
    /\ bus[c].open /\ bus[c].pending /\ ~bus[c].masked
    /\ bus' = [bus EXCEPT ![c].masked = TRUE, ![c].pending = FALSE]
    /\ IF chan[c].active
          THEN /\ dpc' = [dpc EXCEPT ![p] = IF @ = None THEN c ELSE @]
               /\ undelivered' = [undelivered EXCEPT ![c] = TRUE]
          ELSE UNCHANGED <<dpc, undelivered>>
    /\ UNCHANGED <<chan, run, watchVars, threadVars, closed, cleaned>>

\* The remote domain signals an open channel.
RemoteSend(c) ==
    /\ bus[c].open /\ ~bus[c].pending
    /\ bus' = [bus EXCEPT ![c].pending = TRUE]
    /\ UNCHANGED <<chan, undelivered, dpc, run, watchVars, threadVars, closed, cleaned>>

\* The queued DPC of CPU p starts (once the previous one finished) and runs
\* EvtchnNotificationDpc up to the unmask: if Context->Active it sets the
\* user's event.
EvtchnNotificationDpc(p) ==
    /\ dpc[p] # None /\ run[p] = None
    /\ LET c == dpc[p] IN
       /\ dpc' = [dpc EXCEPT ![p] = None]
       /\ IF chan[c].active
             THEN /\ run' = [run EXCEPT ![p] = c]
                  /\ undelivered' = [undelivered EXCEPT ![c] = FALSE]
                  /\ flushWait' = [t \in Threads |->
                        IF <<p, "queued">> \in flushWait[t]
                           THEN (flushWait[t] \ {<<p, "queued">>}) \cup {<<p, "running">>}
                           ELSE flushWait[t]]
             ELSE /\ UNCHANGED <<run, undelivered>>
                  /\ flushWait' = [t \in Threads |-> flushWait[t] \ {<<p, "queued">>}]
    /\ UNCHANGED <<chan, bus, watchVars, pc, cur, fo, mask, tofree, closed, cleaned>>

\* The rest of EvtchnNotificationDpc: XENBUS_EVTCHN(Unmask, ..., Context->Channel).
DpcUnmask(p) ==
    /\ run[p] # None
    /\ bus' = [bus EXCEPT ![run[p]].masked = FALSE]
    /\ run' = [run EXCEPT ![p] = None]
    /\ flushWait' = [t \in Threads |-> flushWait[t] \ {<<p, "running">>}]
    /\ UNCHANGED <<chan, undelivered, dpc, watchVars, pc, cur, fo, mask, tofree,
                   closed, cleaned>>

-----------------------------------------------------------------------------
(* Store watches                                                           *)

\* IoctlStoreAddWatch up to XENBUS_STORE(WatchAdd); a failure unwinds and
\* changes nothing.
IoctlStoreAddWatch(t, f) ==
    /\ pc[t] = "idle" /\ f \notin closed
    /\ \E w \in Watches :
        /\ watch[w].st = "unused"
        /\ watch' = [watch EXCEPT ![w] = [st |-> "registered", fo |-> f]]
        /\ cur' = [cur EXCEPT ![t] = w]
    /\ Goto(t, "add_insert")
    /\ UNCHANGED <<chanVars, wlist, wpos, winserts, wfrees, fo, mask, tofree, flushWait, closed, cleaned>>

\* ExInterlockedInsertTailList(&Fdo->StoreWatchList, ...); return.
AddWatchInsert(t) ==
    /\ pc[t] = "add_insert"
    /\ watch' = [watch EXCEPT ![cur[t]].st = "listed"]
    /\ wlist' = wlist \cup {cur[t]}
    /\ wpos' = [wpos EXCEPT ![cur[t]] = winserts + 1]
    /\ winserts' = winserts + 1
    /\ Goto(t, "idle")
    /\ UNCHANGED <<chanVars, wfrees, cur, fo, mask, tofree, flushWait, closed, cleaned>>

\* The list walk of IoctlStoreRemoveWatch under StoreWatchLock.  It unlinks
\* the entry that is In->Context and belongs to FileObject; otherwise it
\* ends with Context at the last entry visited (NULL on an empty list).
OnWatchList(w) == w \in wlist

Matches(f, w) == OnWatchList(w) /\ watch[w].fo = f

\* Entries are inserted at the tail and unlinked in place, so list order is
\* insertion order: the last entry is the listed one inserted last.
LastEntry == CHOOSE v \in wlist : \A u \in wlist : wpos[u] <= wpos[v]

WalkResult(f, w) ==
    IF Matches(f, w) THEN w
    ELSE IF wlist = {} THEN None ELSE LastEntry

Unlink(s, w) == s \ {w}

\* A variant that finds the entry but forgets RemoveEntryList.
IoctlStoreRemoveWatchNoUnlink(t, f, w) ==
    /\ pc[t] = "idle" /\ f \notin closed
    /\ WalkResult(f, w) = w
    /\ cur' = [cur EXCEPT ![t] = w]
    /\ Goto(t, "rw_free")
    /\ UNCHANGED <<chanVars, watchVars, fo, mask, tofree, flushWait, closed, cleaned>>

\* After the walk, only Context == In->Context is checked before
\* StoreFreeWatch.  (STATUS_NOT_FOUND otherwise changes nothing.)
IoctlStoreRemoveWatch(t, f, w) ==
    /\ pc[t] = "idle" /\ f \notin closed
    /\ WalkResult(f, w) = w
    /\ wlist' = IF Matches(f, w) THEN Unlink(wlist, w) ELSE wlist
    /\ cur' = [cur EXCEPT ![t] = w]
    /\ Goto(t, "rw_free")
    /\ UNCHANGED <<chanVars, watch, wpos, winserts, wfrees, fo, mask, tofree, flushWait, closed, cleaned>>

\* StoreFreeWatch: XENBUS_STORE(WatchRemove), dereference the event, free.
FreeWatch(w) ==
    /\ watch' = [watch EXCEPT ![w].st = "freed"]
    /\ wfrees' = [wfrees EXCEPT ![w] = @ + 1]

StoreFreeWatch(t) ==
    /\ pc[t] = "rw_free"
    /\ FreeWatch(cur[t])
    /\ Goto(t, "idle")
    /\ UNCHANGED <<chanVars, wlist, wpos, winserts, cur, fo, mask, tofree, flushWait, closed, cleaned>>

-----------------------------------------------------------------------------
(* XenIfaceCleanup                                                         *)

\* The handle of f is closed; XenIfaceCleanup first walks the watch list
\* under StoreWatchLock, unlinking and freeing every watch of f.
CleanupWatches(t, f) ==
    /\ pc[t] = "idle" /\ f \notin closed
    /\ closed' = closed \cup {f}
    /\ LET mine == {w \in Watches : Matches(f, w)} IN
       /\ wlist' = wlist \ mine
       /\ watch' = [w \in Watches |-> IF w \in mine THEN [watch[w] EXCEPT !.st = "freed"]
                                                    ELSE watch[w]]
       /\ wfrees' = [w \in Watches |-> IF w \in mine THEN wfrees[w] + 1 ELSE wfrees[w]]
    /\ fo' = [fo EXCEPT ![t] = f]
    /\ Goto(t, "cl_detach")
    /\ UNCHANGED <<chanVars, wpos, winserts, cur, mask, tofree, flushWait, cleaned>>

\* A variant whose ToFree loop runs its body once even on an empty list,
\* taking the list head for a context.
CleanupDetachEmptyBody(t) ==
    /\ pc[t] = "cl_detach"
    /\ LET mine == {c \in Chans : Listed(c) /\ chan[c].fo = fo[t]} IN
       /\ chan' = [c \in Chans |-> IF c \in mine THEN [chan[c] EXCEPT !.st = "detached"]
                                                 ELSE chan[c]]
       /\ cur' = [cur EXCEPT ![t] = IF mine = {} THEN None ELSE CHOOSE c \in mine : TRUE]
       /\ tofree' = [tofree EXCEPT ![t] = mine \ {cur'[t]}]
       /\ Goto(t, "free_deact")
    /\ cleaned' = cleaned \cup {fo[t]}
    /\ UNCHANGED <<bus, undelivered, dpc, run, watchVars, fo, mask, flushWait, closed>>

\* Then, under EvtchnLock, it moves every channel of f to ToFree, and
\* after releasing the lock runs EvtchnFree on each.
CleanupDetach(t) ==
    /\ pc[t] = "cl_detach"
    /\ LET mine == {c \in Chans : Listed(c) /\ chan[c].fo = fo[t]} IN
       /\ chan' = [c \in Chans |-> IF c \in mine THEN [chan[c] EXCEPT !.st = "detached"]
                                                 ELSE chan[c]]
       /\ \/ /\ mine = {}
             /\ Goto(t, "idle")
             /\ UNCHANGED <<cur, tofree>>
          \/ \E c \in mine :
               /\ cur' = [cur EXCEPT ![t] = c]
               /\ tofree' = [tofree EXCEPT ![t] = mine \ {c}]
               /\ Goto(t, "free_deact")
    /\ cleaned' = cleaned \cup {fo[t]}
    /\ UNCHANGED <<bus, undelivered, dpc, run, watchVars, fo, mask, flushWait, closed>>

-----------------------------------------------------------------------------

ThreadStep(t) ==
    \/ BindInsert(t) \/ BindActivate(t) \/ BindUnmask(t)
    \/ FreeDeactivate(t) \/ FreeClose(t) \/ FreeRelease(t)
    \/ AddWatchInsert(t) \/ StoreFreeWatch(t) \/ CleanupDetach(t)

Next ==
    \/ \E t \in Threads :
        \/ ThreadStep(t)
        \/ \E f \in FOs :
             \/ \E m \in BOOLEAN :
                  IoctlEvtchnBindUnbound(t, f, m) \/ IoctlEvtchnBindInterdomain(t, f, m)
             \/ \E port \in Ports : IoctlEvtchnClose(t, f, port) \/ IoctlEvtchnUnmask(t, f, port)
             \/ IoctlStoreAddWatch(t, f)
             \/ \E w \in Watches : IoctlStoreRemoveWatch(t, f, w)
             \/ CleanupWatches(t, f)
    \/ \E c \in Chans : RemoteSend(c) \/ \E p \in Cpus : EvtchnInterruptHandler(c, p)
    \/ \E p \in Cpus : EvtchnNotificationDpc(p) \/ DpcUnmask(p)

\* A thread inside the driver runs on; a DPC that is queued runs; the bus
\* delivers a pending unmasked event.  New requests, handle closes and
\* remote sends are the client's and the peer's choice.
Fairness ==
    /\ \A t \in Threads : WF_vars(ThreadStep(t))
    /\ \A p \in Cpus : WF_vars(EvtchnNotificationDpc(p)) /\ WF_vars(DpcUnmask(p))
    /\ \A c \in Chans : WF_vars(\E p \in Cpus : EvtchnInterruptHandler(c, p))

Spec == Init /\ [][Next]_vars /\ Fairness

-----------------------------------------------------------------------------
(* Properties                                                              *)

TypeOK ==
    /\ chan \in [Chans -> ChanRec]
    /\ bus \in [Chans -> BusRec]
    /\ undelivered \in [Chans -> BOOLEAN]
    /\ dpc \in [Cpus -> Chans \cup {None}]
    /\ run \in [Cpus -> Chans \cup {None}]
    /\ watch \in [Watches -> WatchRec]
    /\ wlist \subseteq Watches
    /\ wpos \in [Watches -> Nat]
    /\ winserts \in Nat
    /\ wfrees \in [Watches -> Nat]
    /\ pc \in [Threads -> PcValues]
    /\ cur \in [Threads -> Chans \cup Watches \cup {None}]
    /\ fo \in [Threads -> FOs \cup {None}]
    /\ mask \in [Threads -> BOOLEAN]
    /\ tofree \in [Threads -> SUBSET Chans]
    /\ flushWait \in [Threads -> SUBSET FlushItems]
    /\ closed \subseteq FOs /\ cleaned \subseteq closed
    /\ \A t \in Threads :
         /\ pc[t] \in ChanStages => cur[t] \in Chans
         /\ pc[t] \in {"add_insert", "rw_free"} => cur[t] \in Watches

\* EvtchnFree frees no context that a DPC will still read: a context queued
\* on a CPU's DPC (Argument1) or being handled by a running DPC is never
\* freed.  This rests on Active being cleared before XENBUS Close and on
\* KeFlushQueuedDpcs running before ExFreePoolWithTag.
NoDpcAfterFree ==
    \A p \in Cpus :
        /\ dpc[p] # None => chan[dpc[p]].st # "freed"
        /\ run[p] # None => chan[run[p]].st # "freed"

\* IoctlEvtchnBind* does not touch its context after another thread freed
\* it: once ExInterlockedInsertTailList has published it, a concurrent
\* IoctlEvtchnClose or XenIfaceCleanup may free it before the bind writes
\* Active = 1 and unmasks Context->Channel.
BindNoUseAfterFree ==
    \A t \in Threads :
        pc[t] \in {"bind_activate", "bind_unmask"} => chan[cur[t]].st # "freed"

\* StoreFreeWatch frees a watch at most once, and never one that is still on
\* StoreWatchList (IoctlStoreRemoveWatch and XenIfaceCleanup).
WatchFreedOnce ==
    /\ \A w \in Watches : wfrees[w] <= 1
    /\ \A w \in wlist : watch[w].st = "listed"

\* The bus's channel is only unmasked while it is open: neither the DPC
\* (EvtchnNotificationDpc) nor a bind unmasks a channel that EvtchnFree
\* has already closed (XENBUS Close frees the bus's channel object).
UnmaskOpenOnly ==
    [][\A c \in Chans : (bus[c].masked /\ ~bus'[c].masked) => bus[c].open]_vars

\* EvtchnFree releases a context only once it is quiescent: in the step
\* that frees it, XENBUS Close has already stopped the bus delivering its
\* events and no CPU's DPC has it queued or running (KeFlushQueuedDpcs
\* waited for them).
FreeAfterQuiesce ==
    [][\A c \in Chans :
         (chan[c].st # "freed" /\ chan'[c].st = "freed") =>
             /\ ~bus[c].open
             /\ \A p \in Cpus : dpc[p] # c /\ run[p] # c]_vars

\* An interrupt taken for an active channel eventually sets the user's
\* event through the DPC, unless the channel is being closed: the ISR
\* queues the per-CPU DPC and the DPC calls KeSetEvent.
EventNotLost ==
    \A c \in Chans : (undelivered[c] /\ chan[c].active) ~> (~undelivered[c] \/ ~chan[c].active)

\* Once a handle is closed, every channel and watch it owns is eventually
\* freed: XenIfaceCleanup removes the watches and runs EvtchnFree on every
\* channel of the file object.
Owned(f) == {c \in Chans : chan[c].fo = f /\ chan[c].st \in {"bound", "listed", "detached"}}
            \cup {w \in Watches : watch[w].fo = f /\ watch[w].st \in {"registered", "listed"}}

ClosedHandleReleased ==
    \A f \in FOs : f \in closed ~> Owned(f) = {}


-----------------------------------------------------------------------------
(* Refinement of EvtchnLifecycle                                           *)

\* A context's life as EvtchnLifecycle sees it: bound and listed contexts
\* are open, one unlinked by Close or cleanup is closing.
LifeOf(s) ==
    CASE s = "unused"              -> "unused"
      [] s \in {"bound", "listed"} -> "open"
      [] s = "detached"            -> "closing"
      [] s = "freed"               -> "freed"

AbsLife == [c \in Chans |-> LifeOf(chan[c].st)]

\* The contexts a queued DPC has as Argument1 or a running one still reads.
AbsHeld == {c \in Chans : \E p \in Cpus : dpc[p] = c \/ run[p] = c}

Life == INSTANCE EvtchnLifecycle WITH life <- AbsLife, held <- AbsHeld

\* The registry implements EvtchnLifecycle: binds open contexts, Close and
\* cleanup unlink them, the ISR hands only open or closing contexts to a
\* DPC, and EvtchnFree frees only an unlinked context no DPC holds.
LifecycleRefined == Life!Spec

=============================================================================
