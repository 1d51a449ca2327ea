------------------------- MODULE RegistryWatchProofs -------------------------
(***************************************************************************)
(* Type correctness of the whole registry: the channel side through        *)
(* DpcInv (RegistryProofs), the store-watch list and the handles here.     *)
(***************************************************************************)
EXTENDS RegistryProofs

\* TypeOK and what makes it inductive: a thread in the channel sweep of
\* XenIfaceCleanup works for a handle already marked closed.
TypeInv ==
    /\ TypeOK
    /\ \A t \in Threads : pc[t] = "cl_detach" => fo[t] \in closed

-----------------------------------------------------------------------------
(* Type correctness.  The channel-side variables are typed by DpcInv       *)
(* (RegistryProofs); the lemmas below add the watch and handle variables.  *)

LEMMA InitTypeInv == Init => TypeInv
  BY DEF Init, TypeInv, TypeOK, ChanRec, ChanStates, BusRec, WatchRec, WatchStates,
         PcValues, ChanStages

\* TypeInv' from the channel typing and the typing of each other variable.
LEMMA TypeParts ==
    ASSUME ChanTypeOK',
           undelivered' \in [Chans -> BOOLEAN],
           watch' \in [Watches -> WatchRec],
           wlist' \subseteq Watches,
           wpos' \in [Watches -> Nat],
           winserts' \in Nat,
           wfrees' \in [Watches -> Nat],
           fo' \in [Threads -> FOs \cup {None}],
           mask' \in [Threads -> BOOLEAN],
           closed' \subseteq FOs, cleaned' \subseteq closed',
           \A t \in Threads : pc'[t] \in {"add_insert", "rw_free"} => cur'[t] \in Watches,
           \A t \in Threads : pc'[t] = "cl_detach" => fo'[t] \in closed'
    PROVE  TypeInv'
  BY DEF TypeInv, TypeOK, ChanTypeOK

\* A step that changes none of the watch and handle variables, and moves
\* threads only into channel stages or idle, keeps TypeInv.
LEMMA ChanOnlyTypeInv ==
    ASSUME TypeInv, ChanTypeOK',
           \A u \in Threads : (pc'[u] = pc[u] /\ cur'[u] = cur[u])
                              \/ pc'[u] \in ChanStages \cup {"idle"},
           undelivered' \in [Chans -> BOOLEAN], mask' \in [Threads -> BOOLEAN],
           UNCHANGED <<watch, wlist, wpos, winserts, wfrees, fo, closed, cleaned>>
    PROVE  TypeInv'
<1>1. \A u \in Threads : pc'[u] \in {"add_insert", "rw_free", "cl_detach"} =>
                          pc'[u] = pc[u] /\ cur'[u] = cur[u]
  BY DEF ChanStages
<1>2. QED
  BY <1>1, TypeParts DEF TypeInv, TypeOK

\* The event-channel handlers, the ISR, the DPC and the peer.
LEMMA ChanActionTypeInv ==
    ASSUME TypeInv, ChanTypeOK',
           \/ \E t \in Threads, f \in FOs, m \in BOOLEAN : IoctlEvtchnBindUnbound(t, f, m)
           \/ \E t \in Threads : \/ BindInsert(t) \/ BindActivate(t) \/ BindUnmask(t)
                               \/ FreeDeactivate(t) \/ FreeClose(t) \/ FreeRelease(t)
           \/ \E t \in Threads, f \in FOs, port \in Ports :
                IoctlEvtchnClose(t, f, port) \/ IoctlEvtchnUnmask(t, f, port)
           \/ \E c \in Chans : RemoteSend(c) \/ \E p \in Cpus : EvtchnInterruptHandler(c, p)
           \/ \E p \in Cpus : EvtchnNotificationDpc(p) \/ DpcUnmask(p)
    PROVE  TypeInv'
<1> USE DEF TypeInv, TypeOK
<1>1. CASE \E t \in Threads, f \in FOs, m \in BOOLEAN : IoctlEvtchnBindUnbound(t, f, m)
  <2>1. PICK t \in Threads, f \in FOs, m \in BOOLEAN : IoctlEvtchnBindUnbound(t, f, m)
    BY <1>1
  <2>2. /\ pc' = [pc EXCEPT ![t] = "bind_insert"]
        /\ mask' = [mask EXCEPT ![t] = m]
        /\ UNCHANGED <<undelivered, watch, wlist, wpos, winserts, wfrees, fo, closed, cleaned>>
    BY <2>1 DEF IoctlEvtchnBindUnbound, Goto, watchVars
  <2>3. \E c \in Chans : cur' = [cur EXCEPT ![t] = c]
    BY <2>1 DEF IoctlEvtchnBindUnbound
  <2>4. \A u \in Threads : (pc'[u] = pc[u] /\ cur'[u] = cur[u])
                            \/ pc'[u] \in ChanStages \cup {"idle"}
    BY <2>2, <2>3 DEF ChanStages
  <2>5. undelivered' \in [Chans -> BOOLEAN] /\ mask' \in [Threads -> BOOLEAN]
    BY <2>2
  <2>6. QED
    BY <2>2, <2>4, <2>5, ChanOnlyTypeInv
<1>2. CASE \E t \in Threads : \/ BindInsert(t) \/ BindActivate(t) \/ BindUnmask(t)
                             \/ FreeDeactivate(t) \/ FreeClose(t) \/ FreeRelease(t)
  <2>1. ASSUME NEW t \in Threads, BindInsert(t) PROVE TypeInv'
    BY <2>1, ChanOnlyTypeInv DEF BindInsert, Goto, watchVars, ChanStages
  <2>2. ASSUME NEW t \in Threads, BindActivate(t) PROVE TypeInv'
    BY <2>2, ChanOnlyTypeInv DEF BindActivate, Goto, watchVars, ChanStages
  <2>3. ASSUME NEW t \in Threads, BindUnmask(t) PROVE TypeInv'
    BY <2>3, ChanOnlyTypeInv DEF BindUnmask, Goto, watchVars, ChanStages
  <2>4. ASSUME NEW t \in Threads, FreeDeactivate(t) PROVE TypeInv'
    BY <2>4, ChanOnlyTypeInv DEF FreeDeactivate, Goto, watchVars, ChanStages
  <2>5. ASSUME NEW t \in Threads, FreeClose(t) PROVE TypeInv'
    BY <2>5, ChanOnlyTypeInv DEF FreeClose, Goto, watchVars, ChanStages
  <2>6. ASSUME NEW t \in Threads, FreeRelease(t) PROVE TypeInv'
    BY <2>6, ChanOnlyTypeInv DEF FreeRelease, Goto, watchVars, ChanStages
  <2>7. QED
    BY <1>2, <2>1, <2>2, <2>3, <2>4, <2>5, <2>6
<1>3. CASE \E t \in Threads, f \in FOs, port \in Ports :
             IoctlEvtchnClose(t, f, port) \/ IoctlEvtchnUnmask(t, f, port)
  <2>1. ASSUME NEW t \in Threads, NEW f \in FOs, NEW port \in Ports,
               IoctlEvtchnClose(t, f, port)
        PROVE  TypeInv'
    BY <2>1, ChanOnlyTypeInv DEF IoctlEvtchnClose, Goto, watchVars, ChanStages
  <2>2. ASSUME NEW t \in Threads, NEW f \in FOs, NEW port \in Ports,
               IoctlEvtchnUnmask(t, f, port)
        PROVE  TypeInv'
    BY <2>2, ChanOnlyTypeInv DEF IoctlEvtchnUnmask, watchVars, threadVars
  <2>3. QED
    BY <1>3, <2>1, <2>2
<1>4. CASE \E c \in Chans : RemoteSend(c) \/ \E p \in Cpus : EvtchnInterruptHandler(c, p)
  <2>1. ASSUME NEW c \in Chans, RemoteSend(c) PROVE TypeInv'
    BY <2>1, ChanOnlyTypeInv DEF RemoteSend, watchVars, threadVars
  <2>2. ASSUME NEW c \in Chans, NEW p \in Cpus, EvtchnInterruptHandler(c, p)
        PROVE  TypeInv'
    <3>1. UNCHANGED <<pc, cur, mask, watch, wlist, wpos, winserts, wfrees, fo, closed, cleaned>>
      BY <2>2 DEF EvtchnInterruptHandler, watchVars, threadVars
    <3>2. undelivered' \in [Chans -> BOOLEAN]
      BY <2>2 DEF EvtchnInterruptHandler
    <3>3. QED
      BY <3>1, <3>2, ChanOnlyTypeInv
  <2>3. QED
    BY <1>4, <2>1, <2>2
<1>5. CASE \E p \in Cpus : EvtchnNotificationDpc(p) \/ DpcUnmask(p)
  BY <1>5, ChanOnlyTypeInv DEF EvtchnNotificationDpc, DpcUnmask, watchVars
<1>6. QED
  BY <1>1, <1>2, <1>3, <1>4, <1>5


\* IoctlStoreAddWatch registers an unused watch for an open handle.
LEMMA AddWatchTypeInv ==
    ASSUME TypeInv, ChanTypeOK', NEW t \in Threads, NEW f \in FOs, IoctlStoreAddWatch(t, f)
    PROVE  TypeInv'
<1> PICK w \in Watches : /\ watch' = [watch EXCEPT ![w] = [st |-> "registered", fo |-> f]]
                         /\ cur' = [cur EXCEPT ![t] = w]
  BY DEF IoctlStoreAddWatch
<1>1. pc' = [pc EXCEPT ![t] = "add_insert"]
      /\ UNCHANGED <<undelivered, wlist, wpos, winserts, wfrees, fo, mask, closed, cleaned>>
  BY DEF IoctlStoreAddWatch, Goto, chanVars
<1>2. watch' \in [Watches -> WatchRec]
  BY DEF TypeInv, TypeOK, WatchRec, WatchStates
<1>3. QED
  BY <1>1, <1>2, TypeParts DEF TypeInv, TypeOK

\* The tail insert gives the watch the next list position.
LEMMA AddWatchInsertTypeInv ==
    ASSUME TypeInv, ChanTypeOK', NEW t \in Threads, AddWatchInsert(t)
    PROVE  TypeInv'
<1>1. /\ pc[t] = "add_insert" /\ cur[t] \in Watches
      /\ pc' = [pc EXCEPT ![t] = "idle"]
      /\ watch' = [watch EXCEPT ![cur[t]].st = "listed"]
      /\ wlist' = wlist \cup {cur[t]}
      /\ wpos' = [wpos EXCEPT ![cur[t]] = winserts + 1]
      /\ winserts' = winserts + 1
      /\ UNCHANGED <<undelivered, wfrees, cur, fo, mask, closed, cleaned>>
  BY DEF AddWatchInsert, Goto, chanVars, TypeInv, TypeOK
<1>2. watch' \in [Watches -> WatchRec]
  BY <1>1 DEF TypeInv, TypeOK, WatchRec, WatchStates
<1>3. QED
  BY <1>1, <1>2, TypeParts DEF TypeInv, TypeOK

\* The walk of IoctlStoreRemoveWatch only shrinks the list.
LEMMA RemoveWatchTypeInv ==
    ASSUME TypeInv, ChanTypeOK', NEW t \in Threads, NEW f \in FOs, NEW w \in Watches,
           IoctlStoreRemoveWatch(t, f, w)
    PROVE  TypeInv'
<1>1. /\ pc' = [pc EXCEPT ![t] = "rw_free"] /\ cur' = [cur EXCEPT ![t] = w]
      /\ wlist' \subseteq wlist
      /\ UNCHANGED <<undelivered, watch, wpos, winserts, wfrees, fo, mask, closed, cleaned>>
  BY DEF IoctlStoreRemoveWatch, Unlink, Goto, chanVars
<1>2. QED
  BY <1>1, TypeParts DEF TypeInv, TypeOK

\* StoreFreeWatch marks the watch freed and counts the free.
LEMMA StoreFreeWatchTypeInv ==
    ASSUME TypeInv, ChanTypeOK', NEW t \in Threads, StoreFreeWatch(t)
    PROVE  TypeInv'
<1>1. /\ pc[t] = "rw_free" /\ cur[t] \in Watches
      /\ pc' = [pc EXCEPT ![t] = "idle"]
      /\ watch' = [watch EXCEPT ![cur[t]].st = "freed"]
      /\ wfrees' = [wfrees EXCEPT ![cur[t]] = @ + 1]
      /\ UNCHANGED <<undelivered, wlist, wpos, winserts, cur, fo, mask, closed, cleaned>>
  BY DEF StoreFreeWatch, FreeWatch, Goto, chanVars, TypeInv, TypeOK
<1>2. watch' \in [Watches -> WatchRec] /\ wfrees' \in [Watches -> Nat]
  BY <1>1 DEF TypeInv, TypeOK, WatchRec, WatchStates
<1>3. QED
  BY <1>1, <1>2, TypeParts DEF TypeInv, TypeOK

\* The watch sweep of XenIfaceCleanup marks the handle closed.
LEMMA CleanupWatchesTypeInv ==
    ASSUME TypeInv, ChanTypeOK', NEW t \in Threads, NEW f \in FOs, CleanupWatches(t, f)
    PROVE  TypeInv'
<1> DEFINE mine == {w \in Watches : Matches(f, w)}
<1>1. /\ pc' = [pc EXCEPT ![t] = "cl_detach"] /\ fo' = [fo EXCEPT ![t] = f]
      /\ closed' = closed \cup {f}
      /\ wlist' = wlist \ mine
      /\ watch' = [w \in Watches |-> IF w \in mine THEN [watch[w] EXCEPT !.st = "freed"]
                                                   ELSE watch[w]]
      /\ wfrees' = [w \in Watches |-> IF w \in mine THEN wfrees[w] + 1 ELSE wfrees[w]]
      /\ UNCHANGED <<undelivered, wpos, winserts, cur, mask, cleaned>>
  BY DEF CleanupWatches, Goto, chanVars
<1>2. watch' \in [Watches -> WatchRec] /\ wfrees' \in [Watches -> Nat]
  BY <1>1 DEF TypeInv, TypeOK, WatchRec, WatchStates
<1>3. QED
  BY <1>1, <1>2, TypeParts DEF TypeInv, TypeOK

\* The channel sweep records the handle as cleaned: it was closed by the
\* watch sweep before.
LEMMA CleanupDetachTypeInv ==
    ASSUME TypeInv, ChanTypeOK', NEW t \in Threads, CleanupDetach(t)
    PROVE  TypeInv'
<1>1. /\ pc[t] = "cl_detach"
      /\ pc'[t] \in {"idle", "free_deact"}
      /\ \A u \in Threads \ {t} : pc'[u] = pc[u] /\ cur'[u] = cur[u]
      /\ cleaned' = cleaned \cup {fo[t]}
      /\ UNCHANGED <<undelivered, watch, wlist, wpos, winserts, wfrees, fo, mask, closed>>
  BY DEF CleanupDetach, Goto, watchVars, TypeInv, TypeOK
<1>2. fo[t] \in closed
  BY <1>1 DEF TypeInv
<1>3. QED
  BY <1>1, <1>2, TypeParts DEF TypeInv, TypeOK


\* Every step of the registry keeps TypeInv, given DpcInv for the
\* channel-side typing.
LEMMA NextTypeInv ==
    ASSUME TypeInv, DpcInv, [Next]_vars
    PROVE  TypeInv'
<1>1. ChanTypeOK'
  BY NextDpcInv DEF DpcInv
<1>2. CASE \E t \in Threads : \/ AddWatchInsert(t) \/ StoreFreeWatch(t) \/ CleanupDetach(t)
  BY <1>1, <1>2, AddWatchInsertTypeInv, StoreFreeWatchTypeInv, CleanupDetachTypeInv
<1>3. CASE \E t \in Threads, f \in FOs :
             \/ IoctlStoreAddWatch(t, f)
             \/ \E w \in Watches : IoctlStoreRemoveWatch(t, f, w)
             \/ CleanupWatches(t, f)
  BY <1>1, <1>3, AddWatchTypeInv, RemoveWatchTypeInv, CleanupWatchesTypeInv
<1>4. CASE UNCHANGED vars
  BY <1>4 DEF vars, TypeInv, TypeOK
<1>5. CASE \/ \E t \in Threads, f \in FOs, m \in BOOLEAN : IoctlEvtchnBindUnbound(t, f, m)
           \/ \E t \in Threads : \/ BindInsert(t) \/ BindActivate(t) \/ BindUnmask(t)
                               \/ FreeDeactivate(t) \/ FreeClose(t) \/ FreeRelease(t)
           \/ \E t \in Threads, f \in FOs, port \in Ports :
                IoctlEvtchnClose(t, f, port) \/ IoctlEvtchnUnmask(t, f, port)
           \/ \E c \in Chans : RemoteSend(c) \/ \E p \in Cpus : EvtchnInterruptHandler(c, p)
           \/ \E p \in Cpus : EvtchnNotificationDpc(p) \/ DpcUnmask(p)
  BY <1>1, <1>5, ChanActionTypeInv
<1>6. QED
  BY <1>2, <1>3, <1>4, <1>5 DEF Next, ThreadStep, IoctlEvtchnBindInterdomain

\* Every variable of Registry keeps its type in every reachable state, for
\* every number of threads, handles, channels, watches, CPUs and ports:
\* the handlers, the ISR, the DPC and cleanup only ever store contexts,
\* states, file objects and counts of the right kind.
THEOREM RegistryTypeCorrect == Spec => []TypeOK
<1>1. Init => TypeInv /\ DpcInv
  BY InitTypeInv, InitDpcInv
<1>2. TypeInv /\ DpcInv /\ [Next]_vars => (TypeInv /\ DpcInv)'
  BY NextTypeInv, NextDpcInv
<1>3. QED
  BY <1>1, <1>2, PTL DEF Spec, TypeInv


=============================================================================
