# Formal models of the XENIFACE interface driver

This directory holds TLA+ models of the Windows XENIFACE driver in
`src/src/xeniface/`. It also holds the TLC configurations that model-check
them and the TLAPS proofs about them. `PROJECT.json` lists the components,
runs, mutants, source map, findings, hazards and theorems in machine-readable
form.

## The system

XENIFACE gives user processes access to Xen services through ioctls. All of
them are dispatched by `XenIfaceIoctl` (`ioctls.c:1802`).

| Part | Code | Shared state |
|---|---|---|
| Grant manager | `IoctlGnttabPermitForeignAccess`, `...GetGrantResult`, `...RevokeForeignAccess`, `GnttabFreeGrant` | grant contexts, grants held by the foreign domain |
| Map manager | `IoctlGnttabMapForeignPages`, `...GetMapResult`, `...UnmapForeignPages`, `GnttabFreeMap` | map contexts, foreign mappings |
| Correlation queue | the cancel-safe queue `Fdo->IrpQueue` (`irp_queue.c`, not in `src/`), `FindGnttabIrp`, `CompleteGnttabIrp` | parked IRPs keyed by (process, request id, kind) |
| Event-channel registry | `IoctlEvtchnBind*`, `...Close`, `...Notify`, `...Unmask`, `EvtchnInterruptHandler`, `EvtchnNotificationDpc`, `EvtchnFree` | `EvtchnList`, per-CPU DPCs, `Active` flags |
| Store watches | `IoctlStoreAddWatch`, `IoctlStoreRemoveWatch`, `StoreFreeWatch` | `StoreWatchList` |
| Cleanup | `XenIfaceCleanup` | drains both lists for a closing file object |
| Store pass-through | `IoctlStoreRead/Write/Directory/Remove/SetPermissions` | none (forwarding) |

The grant-table handlers exist twice. They are static functions in
`ioctls.c` (lines 726-779 and 1128-1800), and a split-out copy lives in
`ioctl_gnttab.c`. Both files define the non-static `CompleteGnttabIrp` and
`GnttabAcquireLock`, so only one of them can be linked. The two copies
behave the same; they differ only in formatting and in the order of the
functions. The source map cites the `ioctls.c` copy, which `XenIfaceIoctl`
calls.

How the parts interact:

- A grant or map request builds a context, parks its IRP in the queue and
  returns `STATUS_PENDING`.
- Later ioctls of the same process find the context by request id: a
  GetResult reads it, and a Revoke or Unmap removes it, frees it and
  completes the parked IRP.
- If the IRP is cancelled instead, the queue hands it to the
  `CompleteGnttabIrp` work item. The work item attaches to the owner
  process, frees the context and completes the IRP with `STATUS_CANCELLED`.
- Freeing a grant context may notify an event channel (`EvtchnNotify`).
- Closing a file object runs `XenIfaceCleanup` over the watches and
  channels.

## Modules

### `Gnttab.tla`: grant and map managers with the correlation queue

Constants:

- `Procs`, `Threads`, `Owner`: the client processes, their threads, and the
  process each thread belongs to.
- `System`: the process of the system worker threads.
- `RequestIds`: the request ids a client can use.
- `Ctx`: the context allocation slots. Each slot is used at most once, which
  bounds the number of allocations.
- `MaxPages`: the page limit.
- `AssertEvaluates`: whether this is a checked build.

State:

- `ctx[c]`: a context's state, owner, id, kind and page count.
- `held[c]`: the resources the context holds: the context itself, the
  Grants array, KernelVa, the MDL, the user mapping, the foreign mapping,
  the kernel mapping.
- `shared`: the pages currently granted to the foreign domain.
- `completions[c]`: how many times the context's IRP was completed.
- `pc`, `cur`, `page`, `ret`: each thread's position in its handler, the
  context it is building, the sharing loop counter, and the last status it
  returned.

The queue is the set of contexts in state `pending`.

The actions follow the handlers:

- `PermitForeignAccess` covers validation, the context allocation, the id
  check and the allocations of Grants, KernelVa and the MDL. Each failure
  runs the `goto` ladder (`GrantUnwind`).
- `PermitShare` is one turn of the sharing loop, including its `fail8`
  unwinding.
- `PermitQueue` is the user mapping and `IoCsqInsertIrpEx`, with the
  failures at `fail9` to `fail11`.
- `MapForeignPages` and `MapQueue` are the same structure for maps.
- `DispatchReturn` is the tail of `XenIfaceIoctl`, which writes
  `IoStatus.Status`.
- `GetResult` is a read-only lookup.
- `Release` is Revoke/Unmap: remove, free in the caller's process, complete.
- `CancelIrp` is the queue's cancellation.
- `CompleteGnttabIrp` is the work item.

The unwinding ladders are data. `GrantLadder` and `MapLadder` give each label
and what it releases. `Released(ladder, lbl)` is what falling through from
`lbl` releases. The releases written inside `ASSERT(...)` depend on
`AssertEvaluates`.

### `GnttabArith.tla`: validation and sizing

This module models the checks on `NumberPages` and `NotifyOffset`, and the
byte count `NumberPages * PAGE_SIZE` as a ULONG (`% 2^Width`). In the
driver, `PAGE_SIZE = 2^12`, the page limit is `2^20` and `Width = 32`, so
the product wraps exactly at the largest accepted count. The instance keeps
that ratio (`PageSize = 4`, `MaxPages = 4`, `Width = 4`).

The module has one run, `gnttab_arith_wrap`, and no passing run or proof.
The checks it models are the code's own guard at 1243-1247. An invariant
restating that guard, or bounding a value by the `%` that computes it, would
show nothing about the code. What can go wrong here is the wrap itself, and
the violation run shows it. The constraints on the constants (positive
sizes, `MaxPages * PageSize <= 2^Width`) are stated in a comment rather
than an `ASSUME`, since no passing run evaluates the module.

### `Registry.tla`: event channels, store watches and cleanup

Constants: `Threads`, `FOs` (file objects, i.e. open handles), `Chans` and
`Watches` (allocation slots for `XENIFACE_EVTCHN_CONTEXT` and
`XENIFACE_STORE_CONTEXT`, each used at most once), `Cpus` (one
`Fdo->EvtchnDpc[p]` each), `Ports` (local ports the bus hands out) and
`None`.

State:

- `chan[c]`: the context's list state (`bound` after the bus opened it,
  `listed` on `EvtchnList`, `detached` by Close or cleanup, `freed`), its
  `FileObject`, `LocalPort` and `Active` flag.
- `bus[c]`: the bus's channel object: open, masked, event pending.
- `dpc[p]`: the `Argument1` of CPU p's queued DPC; `run[p]`: the context
  of a DPC on p that has set the event and has still to unmask.
- `watch[w]`, `wlist` (the entries on `StoreWatchList`), `wpos[w]` and
  `winserts`, and `wfrees[w]` (how often `StoreFreeWatch` freed w). The
  list is only ever inserted into at the tail and unlinked from, so its
  order is the order of insertion: `AddWatchInsert` gives the new entry
  position `winserts + 1`, and the last entry of the walk (`LastEntry`) is
  the one with the largest position. The model keeps this set-and-position
  form, not a sequence, because the list lemmas it needs are about
  membership and the maximum. Facts about `SelectSeq` would need induction
  over sequences, which the provers cannot do here.
- per thread: `pc`, `cur`, `mask` (`In->Mask`), `tofree` (cleanup's
  `ToFree`), `flushWait` (the DPCs `KeFlushQueuedDpcs` still waits for).
- `closed`/`cleaned`: handles whose cleanup started/finished its sweeps.
- `undelivered[c]`: a history variable, set when the ISR takes an interrupt
  of an active channel and cleared when a DPC sets its event.

Each action is one step of a handler between which other threads, the ISR
or a DPC can run. A list operation done under a spin lock is one step.

- Bind (`IoctlEvtchnBindUnbound`, `...Interdomain`): open the channel and
  take a port; `BindInsert` (`ExInterlockedInsertTailList`);
  `BindActivate` (`Active = 1`); `BindUnmask` if `!In->Mask`.
- `IoctlEvtchnClose` (find and unlink under the lock) and
  `IoctlEvtchnUnmask` (find and unmask under the lock). Notify changes no
  driver state and is left out.
- `EvtchnFree` is `FreeDeactivate` (`Active = 0`), `FreeClose` (XENBUS
  Close, then the snapshot `KeFlushQueuedDpcs` waits for: every DPC queued
  or running) and `FreeRelease` (the flush has returned; free, and go on
  with the next context of `ToFree`).
- `EvtchnInterruptHandler(c, p)`: the bus delivers a pending event of an
  open unmasked channel, masking it first; if `Active`, the handler queues
  CPU p's DPC with c, which does nothing if that DPC is already queued.
- `EvtchnNotificationDpc(p)` dequeues the DPC and, if `Active`, sets the
  event; `DpcUnmask(p)` is its unmask.
- `IoctlStoreAddWatch` then `AddWatchInsert`; `IoctlStoreRemoveWatch`
  (the walk and the `Context == In->Context` re-check, `WalkResult`) then
  `StoreFreeWatch`.
- `CleanupWatches` (the handle is closed; remove and free its watches) and
  `CleanupDetach` (move its channels to `ToFree`), then the `EvtchnFree`
  steps for each.
- `RemoteSend(c)`: the peer signals an open channel.

Assumptions about the bus, which is not in `src/`: a channel opens
masked; with the `Mask` argument `TRUE` it is masked before each callback;
XENBUS Close stops callbacks and frees the bus's channel object; ports of
open channels are distinct. Failure paths that only undo their own
allocations are not actions: they leave the modelled state unchanged.

### `EvtchnLifecycle.tla`: what the channel registry promises

This is an abstract specification of one channel context's life, as the
notification DPCs see it. It has two variables:

- `life[c]`: one of `unused`, `open`, `closing`, `freed`;
- `held`: the contexts some DPC has as its argument.

Its actions:

- `Open(c)`: a bind.
- `Detach(S)`: Close unlinks one context, or cleanup unlinks all the
  contexts of a handle, under one hold of the lock.
- `Hold(c)`: the ISR queues a DPC with an open or closing context.
- `Release(c)`: the last DPC with c is done.
- `Free(c)`: `EvtchnFree` frees a closing context that no DPC holds.

`Registry.tla` instantiates it as `Life == INSTANCE EvtchnLifecycle WITH
life <- AbsLife, held <- AbsHeld`:

- `AbsLife[c]` is `LifeOf(chan[c].st)`. Bound and listed contexts are open;
  detached ones are closing.
- `AbsHeld` is the set of contexts that some CPU's queued or running DPC
  has.

The property `LifecycleRefined == Life!Spec` states that the registry
implements the lifecycle.

### `GnttabRequests.tla`: what the grant-table ioctls promise

This is an abstract specification of a client's requests, as the
cancel-safe queue sees them. It has three variables:

- `queue`: pairs `<<c, k>>`, meaning request `c` is parked under key `k`
  (process, request id, kind);
- `cancelled`: the cancelled requests whose IRP is not yet completed;
- `completed[c]`: how often the IRP of request `c` was completed.

Its actions:

- `Park(c, k)`: `IoCsqInsertIrpEx` parks a new request under a key no
  parked request has.
- `Take(k)`: Revoke/Unmap removes the request parked under `k` and
  completes its IRP.
- `Cancel(c)`: the I/O manager cancels a parked IRP, and the queue lets go
  of it.
- `Finish(c)`: the `CompleteGnttabIrp` work item completes a cancelled IRP.

`Gnttab.tla` instantiates it as `Req`. The mapping is:

- `ReqQueue` is the contexts in the CSQ, each with its `Key`;
- `ReqCancelled` is the cancelling contexts;
- `completed` is `completions`.

The property `RequestsRefined == Req!Spec` states that the handlers
implement it. Allocation, the sharing loop and every failed build are
stutters, because they touch only contexts that are not queued.

### `GnttabProofs.tla`, `GnttabInv.tla`, `GnttabSafety.tla`: proofs

- `GnttabProofs` proves type correctness.
- `GnttabInv` defines the inductive invariant `IInv` behind the safety
  properties.
- `GnttabSafety` proves `IInv` inductive and derives the four safety
  invariants of `gnttab_safety` from it. See "Proofs" below.

### Registry proofs

- `RegistryProofs.tla` proves `NoDpcAfterFree` and `FreeAfterQuiesce` for
  every instance of `Registry`, through the inductive invariant `DpcInv`.
- `RegistryWatchProofs.tla` proves `Registry`'s `TypeOK`.
- `RegistryRefinement.tla` proves that `Registry` implements
  `EvtchnLifecycle`.
- `GnttabRefinement.tla` proves that `Gnttab` implements `GnttabRequests`
  in every build.

See "Proofs" below.

## Runs

| Run | Config | Expect | What it shows |
|---|---|---|---|
| gnttab_safety | `MCGnttab.cfg` | pass | `TypeOK`, `CompletedOnce`, `UniquePending`, `PendingFullyBuilt`, `NoLeak` hold in a checked build, and the handlers implement `GnttabRequests` (`RequestsRefined`) (261,394 distinct states) |
| gnttab_free_build | `MCGnttabFree.cfg` | violation | `NoLeak` fails in a free build: the grant unwind's revocations and the map unwind's `UnmapForeignPages` (1627) sit inside `ASSERT` |
| gnttab_irp_write | `MCGnttabIrp.cfg` | violation | `IrpWrittenBeforeCompletion` fails: `XenIfaceIoctl` writes into an IRP that another thread may already have completed |
| gnttab_arith_wrap | `MCGnttabArithWrap.cfg` | violation | `BufferHoldsPages` fails at `NumberPages = 2^20`: the byte count wraps to 0 |
| registry_safety | `MCRegistry.cfg` | pass | `TypeOK`, `NoDpcAfterFree`, `WatchFreedOnce`, `FreeAfterQuiesce`, `LifecycleRefined`: no context is freed while a DPC has it queued or running or its channel is open; with one handle the watch is freed once and never while listed; the registry implements `EvtchnLifecycle` (2,141,025 distinct states) |
| registry_watch_cross_handle | `MCRegistryWatchFO.cfg` | violation | `WatchFreedOnce` fails with two handles: RemoveWatch frees another handle's linked watch |
| registry_cleanup_leak | `MCRegistryLeak.cfg` | violation | `ClosedHandleReleased` fails: an AddWatch or a bind in flight during cleanup is inserted after the sweep and leaks |
| registry_event_lost | `MCRegistryLost.cfg` | violation | `EventNotLost` fails: the shared per-CPU DPC drops a second channel's event |
| registry_dpc_unmask | `MCRegistryDpcUnmask.cfg` | violation | `UnmaskOpenOnly` fails: the DPC unmasks a channel EvtchnFree has closed |
| registry_bind_race | `MCRegistryBind.cfg` | violation | `BindNoUseAfterFree` fails: a Close frees a context the bind still writes |

The properties:

- **UniquePending**: no two parked IRPs share a key. The id check and the
  insert are separate steps, so two threads of one process can both pass the
  check. This property exercises the queue's re-check.
- **PendingFullyBuilt**: a context that can be found by id holds all of its
  resources, and a grant context has all of its pages shared.
- **NoLeak**: a freed or unused slot holds nothing and has no page granted.
  It covers every exit of the eleven-label ladder and the teardown.
- **CompletedOnce**: an IRP is completed at most once, and only when its
  context is freed. This is Revoke/Unmap racing cancellation.
- **RequestsRefined**: the refinement of `GnttabRequests`. A context
  enters the CSQ only under a fresh key. It leaves once, by Revoke/Unmap
  or by cancellation. Its IRP is completed exactly then, or by the work
  item after the cancellation. TLC also checked it on the free-build
  instance (293,014 states).
- **IrpWrittenBeforeCompletion**: an action property. The dispatch routine
  writes only into an IRP nobody has completed yet.
- **NoDpcAfterFree**: no context queued on a DPC or being handled by a
  running DPC is freed. It rests on the order in `EvtchnFree` (Active off,
  Close, flush, free) across CPUs.
- **FreeAfterQuiesce**: an action property. A step that frees a channel
  context happens after XENBUS Close and while no DPC on any CPU has the
  context queued or running.
- **LifecycleRefined**: the refinement of `EvtchnLifecycle`. Contexts are
  opened by binds and unlinked before they are freed. A DPC takes only an
  open or closing context. A context is freed only while no DPC holds it.
  The property looks only at the lifecycle and the DPCs, so the bind's
  own write into a freed context (`BindNoUseAfterFree`, found violated)
  is a stutter of the lifecycle.
- **BindNoUseAfterFree**: a bind does not write into its context after
  another thread freed it.
- **WatchFreedOnce**: a watch is freed at most once and never while on
  `StoreWatchList`.
- **UnmaskOpenOnly**: an action property; only an open channel is unmasked.
- **EventNotLost**: an interrupt of an active channel eventually sets its
  event, unless the channel is being closed.
- **ClosedHandleReleased**: after a handle is closed, every channel and
  watch it owns is eventually freed.

Every property of a passing run has a mutant in `PROJECT.json`: a plausible
bug in the mapped code that TLC catches under the run's configuration.

### Bounds

The safety instance has:

- two processes;
- three threads: two of `p1`, so they can race on one id, and one of `p2`,
  so keys differ by process;
- one request id, so every pair of requests collides;
- two context slots;
- `MaxPages = 2`, so the loop runs zero, one or two turns and the unwind
  revokes a partial set.

Symmetry is over the slots and over the two threads of `p1`.

The registry instances:

- `registry_safety`: two threads, one handle, two channels, one watch, two
  CPUs, two ports. Two threads are enough for a bind to race a close or a
  cleanup; two channels make the ToFree loop go round and let a DPC be
  queued for one channel while the other is freed; two CPUs let a DPC run
  while another is queued. Symmetry is over every set of model values.
  The watch is enough for RemoveWatch to race cleanup's sweep of the same
  list (a list with two watches and two CPUs together takes over three
  minutes); the last-element path of the walk needs a second handle and is
  the violation run `registry_watch_cross_handle`.
- The violation instances are the smallest that show each bug.

### Fairness

`Gnttab`'s `Spec` assumes weak fairness for each thread's in-driver steps
(`PermitShare`, `PermitQueue`, `MapQueue`, `DispatchReturn`) and for the
`CompleteGnttabIrp` work item, which a system worker thread runs once it is
queued. No Gnttab liveness property is checked. The only one the
work item offers, that a cancelled IRP is eventually completed, would
restate the fairness assumed of the very action that completes it. What
the model checks of the work item is its safety: it completes only a
cancelled IRP, once (`CompletedOnce`, `RequestsRefined`).

The registry's liveness properties (`EventNotLost`, `ClosedHandleReleased`,
both found violated) are checked under weak fairness for each thread's steps
inside a handler, for each CPU's DPC (a queued DPC runs), and for the bus
delivering an unmasked pending event (the hypervisor raises the upcall).
New requests, handle closes and remote sends are not fair. The registry
runs disable the deadlock check: once every handle is closed and every
context freed there is nothing left to do.

## Proofs

`GnttabProofs.tla` proves `THEOREM TypeCorrect == Spec => []TypeOK` for all
values of the constants, under `GnttabAssumption`.

`TypeOK` is not inductive by itself, because a thread inside a build handler
indexes `ctx` with `cur[t]`. The inductive invariant `TypeInv` adds
`pc[t] # "idle" => cur[t] \in Ctx`.

The proof is laid out as follows:

- `InitTypeInv` and `NextTypeInv` are the two halves of the induction.
- `NextTypeInv` has one lemma per action.
- Those lemmas rest on helper lemmas: `GrantUnwindType`, `MapUnwindType`,
  `GnttabFreeType` and `SetStateType`. They state that unwinding and
  teardown only shrink `held` and `shared`.

`GnttabSafety.tla` proves `THEOREM SafetyCorrect`. In a checked build
(`AssertEvaluates = TRUE`), every reachable state satisfies
`PendingFullyBuilt`, `NoLeak`, `UniquePending` and `CompletedOnce`. The
corollaries `NoLeakCorrect`, `UniquePendingCorrect`, `CompletedOnceCorrect`
and `PendingFullyBuiltCorrect` state each property on its own. The
assumption matters: in a free build `NoLeak` is false (run
`gnttab_free_build`), because the revocations of the unwind sit inside
`ASSERT`.

None of the four properties is inductive by itself. A leak-freedom step,
for example, depends on how many pages the failing build has already
shared. The inductive invariant `IInv` (`GnttabInv.tla`) describes every
slot state and ties a slot under construction to its builder:

- `CtxInv(c)`:
  - an unused or freed slot holds nothing and shares nothing;
  - an unused slot has no completion, and a freed one at most one;
  - a pending or cancelling slot is fully built: it holds `FullRes`, a grant
    shares exactly pages `0 .. n-1`, and its IRP is not yet completed;
  - a building slot has a thread building it.
- `ThreadInv(t)`:
  - a thread in the sharing loop owns a building grant slot that holds
    Grants, KernelVa and the MDL, with pages `0 .. page[t]-1` shared;
  - a thread in the map build owns a building map slot that holds only the
    context.
- `BuildersDistinct`: no two threads build the same slot.
- `UniquePending`.

Before the proof, TLC checked `IInv` as an invariant of the
`gnttab_safety` instance.

The proof has these parts:

- `InitIInv` and `NextIInv`.
- One lemma per action. Common steps are factored out into lemmas:
  - `FrameStep`: a step that changes one slot and one thread preserves the
    invariant elsewhere;
  - `BuildFailIInv`: a failed build step frees the slot;
  - `QueueIInv`: `IoCsqInsertIrpEx` succeeds with a fresh key;
  - `FreedStepIInv`: Revoke/Unmap or the work item frees a queued slot.
- The ladder lemmas `GrantAllocUnwound`, `GrantBuiltUnwound`,
  `MapStepUnwound` and `MapQueuedUnwound`. They show that every `goto`
  target releases everything acquired before the failure. The map lemmas
  need a checked build, because `ASSERT` hides two releases.
- `RevokeAll`: the unwind's `UnwindRevoked(c, Page)` revokes exactly the
  pages shared so far.

### `RegistryProofs`: no DPC holds a freed channel context

`THEOREM NoDpcAfterFreeCorrect == Spec => []NoDpcAfterFree` holds for every
value of the constants, under `RegistryAssumption` (`None` is distinct from
the real threads, handles, channels, watches and ports). This is the
property `registry_safety` checks. `NoDpcAfterFree` is not inductive by
itself. Whether `EvtchnFree` may free its context depends on what
`KeFlushQueuedDpcs` waits for, and whether the ISR may queue a context
depends on its channel being open. `DpcInv` therefore adds:

- `ChanTypeOK`: the typing of the channel-side variables;
- `FreedClosed`: a freed context's bus channel is closed, so the ISR never
  queues it again;
- `FreeingGone`: a context in `EvtchnFree`, or on a cleanup's `ToFree`
  list, is detached or freed, so no bind, Close or cleanup can reach it
  through `EvtchnList`;
- `FlushPending`: from the XENBUS Close until the free, the channel is
  closed and every DPC queued or running with the context is one that the
  flush snapshot waits for;
- `InsertOwned`: a bind about to insert into the list holds its own
  context, still `bound`.

TLC checked `DpcInv` as an invariant of the `registry_safety` instance
before the proof. The proof has one lemma per action: `InitDpcInv`, and
`...DpcInv` for each handler, the ISR, the DPC and its unmask. The watch
handlers and the first half of cleanup share `NonChanStepDpcInv`: a step
outside the channel stages that changes no channel variable. `NextDpcInv`
combines the lemmas. `DpcInvariant` is the temporal induction, and
`NoDpcAfterFreeCorrect` follows from it.

`RegistryProofs` also proves `THEOREM FreeAfterQuiesceCorrect == Spec =>
FreeAfterQuiesce`, the action property:

- `FreeReleaseQuiet`: a `FreeRelease` step frees only a context whose
  channel is closed and that no DPC holds. It follows from `FlushPending`:
  the flush has nothing left to wait for.
- `OtherStepsFreeNothing`: no other step moves a context to `freed`.

The temporal step combines these with `DpcInvariant`.

### `RegistryWatchProofs`: typing

`THEOREM RegistryTypeCorrect == Spec => []TypeOK` holds for every value of
the constants. Its inductive invariant is `TypeInv`, which is `TypeOK` plus
one fact: a thread in the middle of cleanup works on a handle in `closed`.
The proof also uses `DpcInv`, for the channel stages.

`WatchFreedOnce` is not proved. The driver serves any number of handles,
and with two the property is false: the run `registry_watch_cross_handle`
shows `IoctlStoreRemoveWatch` freeing another handle's watch that is still
linked. A theorem restricted to one handle would leave out exactly that
case.

### `RegistryRefinement`: the registry implements `EvtchnLifecycle`

`THEOREM LifecycleRefinedCorrect == Spec => LifecycleRefined` is the
refinement, for every value of the constants. It is laid out as in the
TLAPS examples:

- `Init` maps to `Life!Init` (`InitRefines`).
- An invariant `RefInv` holds throughout.
- Under `RefInv`, every `[Next]_vars` step maps to a `[Life!Next]` step or
  a stutter (`NextRefines`).

`RefInv` is `DpcInv` plus one new fact, `UnusedClosed`: a context never
bound has no open channel. `UnusedClosed` is needed because the ISR step
must be a `Hold`, which requires the context to be open or closing. The ISR
needs an open channel, and `FreedClosed` and `UnusedClosed` together rule
out `freed` and `unused`. TLC checked `UnusedClosed` on the
`registry_safety` instance first.

The step lemmas, one per kind of driver step:

- `BindUnboundRefines` (Open);
- `CloseRefines` and `CleanupDetachRefines` (Detach of one context, or of
  all the handle's listed contexts);
- `FreeReleaseRefines`: Free. The context is `detached` by `FreeingGone`
  and unheld by `FlushPending`.
- `InterruptRefines` (Hold);
- `NotificationDpcRefines` and `DpcUnmaskRefines`: Release or stutter,
  through `HeldShrinks`;
- `BindInsertRefines`: bound to listed is open to open.

Every other step keeps each context's life and each DPC's argument, and
`LifeStutter` makes it a stutter.

The lifecycle's own invariant `HeldLive` (a held context is open or
closing) is proved in the abstract (`LifecycleHeldLive`). It is carried to
the driver by the refinement: `THEOREM DpcHoldsLiveContext` states that no
DPC's argument is an unused or freed context.

### `GnttabRefinement`: the handlers implement `GnttabRequests`

`THEOREM RequestsRefinedCorrect == Spec => RequestsRefined` holds for every
value of the constants. It has no assumption on `AssertEvaluates`, so it
covers checked and free builds. It has the same three parts as the
registry refinement: `InitRefines`, an invariant, and `NextRefines`.

`IInv` cannot serve here, because it depends on what `ASSERT` releases.
The invariant `RefInv` says nothing of what a slot holds. It is:

- `TypeInv`;
- `BuildOwned`: a thread in a build handler works on a slot still in
  state `building`;
- `BuildersDistinct`;
- `UniquePending`;
- `CompletedOnce`.

Why each part is needed:

- `BuildOwned` and `BuildersDistinct` let a failed build free its slot
  without touching any queued context or any other builder.
- `CompletedOnce` gives the zero count that `Park`, `Take` and `Finish`
  require.
- `UniquePending` makes `Take(key)` remove exactly the pair of the context
  that Revoke/Unmap found.

TLC checked `RefInv` on both build instances before the proof.

The step lemmas:

- `AllocRefines`: an allocation, which succeeds or fails at once, is a
  stutter.
- `BuildFailRefines`: a failed build is a stutter, through `QueueStutter`.
- `QueueRefines`: `IoCsqInsertIrpEx` is `Park`, and `~CsqInsertFails` gives
  the fresh key.
- `ReleaseRefines`: Revoke/Unmap is `Take`.
- `CancelIrpRefines`: a cancellation is `Cancel`.
- `CompleteGnttabIrpRefines`: the work item is `Finish`.
- `QuietStep`: every other step is a stutter.

`QueueAdd` and `QueueRemove` relate `ReqQueue` to the CSQ. `ParkedIsCsq`
relates the abstraction's parked set to the CSQ.

Two corollaries follow. `THEOREM UniqueAndOnceAnyBuild` gives
`UniquePending` and `CompletedOnce` in every build, where `SafetyCorrect`
needs a checked build. `RequestsSoundHolds` proves the abstraction's own
invariant `RequestsSound` of `GnttabRequests`: keys are unique, and nothing
is completed while parked or cancelled. `THEOREM DriverRequestsSound`
carries it to the driver.

### What stays with TLC

Some properties are checked only with TLC:

- The liveness properties `EventNotLost` and `ClosedHandleReleased` (both
  found violated). They need
  fairness and `ENABLED` reasoning, which this prover does not do.
- The violation runs. Each is a counterexample on a small instance, not a
  theorem.
- `WatchFreedOnce`: it holds on the one-handle instance of
  `registry_safety` and is false with two handles.
- `LifecycleRefined`, `FreeAfterQuiesce` and `RequestsRefined` are
  checked by TLC and also proved.

## Not modelled (yet)

- Buffer-length checks, including the `&&` in `IoctlGnttabUnmapForeignPages`.
- The notify side effects of the free routines (`EvtchnNotify` from
  `GnttabFreeGrant`), and `IoctlEvtchnNotify`, which changes no driver
  state.
- Reuse of freed context memory: each allocation slot is used once.
- The store pass-through ioctls (stateless forwarding).
- User-buffer capture and string validation (byte-level parsing).

## Plan

1. The composition of `GnttabFreeGrant`'s notify with the channel registry.
2. A refinement for the store-watch list: an abstract set of watches per
   handle. `Registry` implements it only when `RemoveWatch` is given a
   watch of the caller's handle, so the refinement would check how far the
   cross-handle bug reaches.
