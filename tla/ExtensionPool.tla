---------------------------- MODULE ExtensionPool ----------------------------
(***************************************************************************)
(* The pool of extension workers (crates/extension/src/pool.rs): requests  *)
(* scheduled on the least loaded worker, broadcasts that give every worker *)
(* the same bootstrap state, adaptive growth, the replacement of workers   *)
(* that died, and the terminal reduction and shutdown.                     *)
(*                                                                         *)
(* WorkerPool is shared by reference: requesters, broadcasters, the        *)
(* capacity thread and closers run concurrently.  A worker is here what    *)
(* ExtensionWorker shows it to be from outside: it runs until it fails or  *)
(* is stopped, for good, and a request on it returns.  Worker processes    *)
(* are numbered in the order of their creation.                            *)
(***************************************************************************)
EXTENDS Integers, Sequences, FiniteSets, FiniteSetsExt

CONSTANTS
    Requesters,   \* invocations of WorkerPool::request_inner
    Broadcasters, \* invocations of broadcast_inner, each with payloads of its own
    Grouped,      \* those of broadcast_sequence, all of one group
    Growers,      \* invocations of prepare_capacity
    Closers,      \* invocations of WorkerPool::shutdown
    Nobody,
    Capacity,     \* number of slots
    Initial,      \* workers started eagerly
    Reduction,    \* worker_reduction is enabled
    MaxCrashes    \* bound: worker processes that die by themselves

Threads == Requesters \cup Broadcasters \cup Growers \cup Closers
Slots   == 0..(Capacity - 1)

ASSUME PoolAssumption ==
    /\ Capacity \in Nat \ {0} /\ Initial \in 1..Capacity
    /\ Reduction \in BOOLEAN /\ MaxCrashes \in Nat
    /\ Nobody \notin Threads /\ IsFiniteSet(Threads)
    /\ Grouped \subseteq Broadcasters
    /\ Requesters \cap Broadcasters = {} /\ Growers \cap Closers = {}
    /\ (Requesters \cup Broadcasters) \cap (Growers \cup Closers) = {}

VARIABLES
    state,      \* WorkerPool::state
    slot,       \* WorkerSlot::worker: a worker's number, 0 for None
    slotLock,   \* holder of WorkerSlot::restart and WorkerSlot::worker
    active,     \* active_workers
    growth,     \* holder of the growth mutex
    preparing,  \* capacity_preparation
    bootstraps, \* the broadcasts recorded for replay
    workers,    \* every worker ever spawned
    th,         \* the locals of each thread
    crashes     \* worker processes that died by themselves

pool == <<state, slot, slotLock, active, growth, preparing, bootstraps>>
vars == <<pool, workers, th, crashes>>

\* A process of slot `home`, with the bootstrap state it has applied and its
\* requests in flight.
NewWorker(i) == [home |-> i, state |-> "running", applied |-> bootstraps, load |-> 0]
Running(w)   == workers[w].state = "running"

NoPick == [slot |-> 0, worker |-> 0, load |-> 0]
Idle   == [pc |-> "idle", back |-> "idle", left |-> {}, idx |-> 0, old |-> 0,
           new |-> {}, pick |-> NoPick, team |-> {}, bad |-> {}, seen |-> 0, ok |-> TRUE]

Init ==
    /\ state = "running"
    /\ slot = [i \in Slots |-> IF i < Initial THEN i + 1 ELSE 0]
    /\ slotLock = [i \in Slots |-> Nobody]
    /\ active = Initial
    /\ growth = Nobody /\ preparing = FALSE
    /\ bootstraps = {}
    /\ workers = [w \in 1..Initial |-> [home |-> w - 1, state |-> "running",
                                        applied |-> {}, load |-> 0]]
    /\ th = [t \in Threads |-> Idle]
    /\ crashes = 0

\* A broadcast adds to what is recorded; one of a group replaces the group.
Record(bs, b) == {b} \cup (IF b \in Grouped THEN bs \ Grouped ELSE bs)

At(t, step)   == th[t].pc = step
Goto(t, step) == th' = [th EXCEPT ![t].pc = step]

\* Worker::shutdown on a set of workers.
Stopped(ws) == [w \in DOMAIN workers |->
                   IF w \in ws THEN [workers[w] EXCEPT !.state = "stopped"] ELSE workers[w]]
\* WorkerReservation: taken and dropped.
Loaded(ws, n) == [w \in DOMAIN workers |->
                     IF w \in ws THEN [workers[w] EXCEPT !.load = @ + n] ELSE workers[w]]

-----------------------------------------------------------------------------
(* ensure_running, restart and spawn_initialized, for requesters and       *)
(* broadcasters.  `back` tells where the thread continues: the scan of the *)
(* slots, or the recovery after a failed exchange.                         *)

\* The scan goes on with the worker found in slot i; a requester keeps the
\* least loaded one, a broadcaster keeps them all.
Found(t, i, w) ==
    LET p == th[t].pick
        better == p.worker = 0 \/ workers[w].load < p.load
    IN  th' = [th EXCEPT ![t].pc = "scan", ![t].left = @ \ {i},
                         ![t].pick = IF better THEN [slot |-> i, worker |-> w,
                                                     load |-> workers[w].load] ELSE p,
                         ![t].team = IF t \in Broadcasters THEN @ \cup {<<i, w>>} ELSE @]

\* restart returned an error: a requester tries the other slots, a broadcaster
\* gives up.
NotFound(t, i) ==
    th' = [th EXCEPT ![t].left = @ \ {i},
                     ![t].pc = IF t \in Broadcasters THEN "unlock" ELSE "scan",
                     ![t].ok = IF t \in Broadcasters THEN FALSE ELSE @]

\* After a recovery: only its error matters.
Recovered(t, ok) == th' = [th EXCEPT ![t].pc = "release", ![t].ok = @ /\ ok]

Restarted(t, w) == IF th[t].back = "scan" THEN Found(t, th[t].idx, w) ELSE Recovered(t, TRUE)
NotRestarted(t) == IF th[t].back = "scan" THEN NotFound(t, th[t].idx) ELSE Recovered(t, FALSE)

\* A broadcaster visits the slots in order; a requester starts anywhere (the
\* cursor or the hash of its affinity key), and its order is left open.
Visits(t, i) == i \in th[t].left /\ (t \in Broadcasters => i = Min(th[t].left))

ScanLive(t) ==
    /\ At(t, "scan")
    /\ \E i \in th[t].left :
          /\ Visits(t, i) /\ slotLock[i] = Nobody /\ Running(slot[i])
          /\ Found(t, i, slot[i])
    /\ UNCHANGED <<pool, workers, crashes>>

ScanDead(t) ==
    /\ At(t, "scan")
    /\ \E i \in th[t].left :
          /\ Visits(t, i) /\ slotLock[i] = Nobody /\ ~Running(slot[i])
          /\ th' = [th EXCEPT ![t].pc = "restart", ![t].back = "scan",
                              ![t].idx = i, ![t].old = slot[i]]
    /\ UNCHANGED <<pool, workers, crashes>>

\* Someone else has replaced the failed worker in the meantime.
RestartReuse(t) ==
    LET i == th[t].idx IN
    /\ At(t, "restart") /\ slotLock[i] = Nobody
    /\ slot[i] # th[t].old /\ Running(slot[i])
    /\ Restarted(t, slot[i])
    /\ UNCHANGED <<pool, workers, crashes>>

\* Mutant: what the slot holds is not looked at again under the locks.
RestartBlind(t) ==
    LET i == th[t].idx IN
    /\ At(t, "restart") /\ slotLock[i] = Nobody
    /\ slotLock' = [slotLock EXCEPT ![i] = t]
    /\ workers' = Stopped({th[t].old})
    /\ Goto(t, "spawn")
    /\ UNCHANGED <<state, slot, active, growth, preparing, bootstraps, crashes>>

\* Both mutexes of the slot stay locked from here to the installation.
RestartBegin(t) ==
    LET i == th[t].idx IN
    /\ At(t, "restart") /\ slotLock[i] = Nobody
    /\ ~(slot[i] # th[t].old /\ Running(slot[i]))
    /\ slotLock' = [slotLock EXCEPT ![i] = t]
    /\ workers' = Stopped({th[t].old})
    /\ Goto(t, "spawn")
    /\ UNCHANGED <<state, slot, active, growth, preparing, bootstraps, crashes>>

\* Worker::spawn, and the clone of the bootstraps that will be replayed.
RestartSpawn(t) ==
    /\ At(t, "spawn")
    /\ workers' = Append(workers, NewWorker(th[t].idx))
    /\ th' = [th EXCEPT ![t].pc = "install", ![t].new = {Len(workers) + 1}]
    /\ UNCHANGED <<pool, crashes>>

\* Mutant: the error path keeps the locks of the slot.
SpawnFailsLocked(t) ==
    /\ At(t, "spawn")
    /\ NotRestarted(t)
    /\ UNCHANGED <<pool, workers, crashes>>

SpawnFails(t) ==
    /\ At(t, "spawn")
    /\ slotLock' = [slotLock EXCEPT ![th[t].idx] = Nobody]
    /\ NotRestarted(t)
    /\ UNCHANGED <<state, slot, active, growth, preparing, bootstraps, workers, crashes>>

\* A replayed request fails or is answered otherwise than it was.
ReplayFails(t) ==
    /\ At(t, "install")
    /\ workers' = Stopped(th[t].new)
    /\ slotLock' = [slotLock EXCEPT ![th[t].idx] = Nobody]
    /\ NotRestarted(t)
    /\ UNCHANGED <<state, slot, active, growth, preparing, bootstraps, crashes>>

RestartInstall(t) ==
    /\ At(t, "install")
    /\ \E w \in th[t].new :
          slot' = [slot EXCEPT ![th[t].idx] = w] /\ Restarted(t, w)
    /\ slotLock' = [slotLock EXCEPT ![th[t].idx] = Nobody]
    /\ UNCHANGED <<state, active, growth, preparing, bootstraps, workers, crashes>>

RestartStep(t) == \/ ScanLive(t) \/ ScanDead(t) \/ RestartReuse(t) \/ RestartBegin(t)
                  \/ RestartSpawn(t) \/ SpawnFails(t) \/ ReplayFails(t) \/ RestartInstall(t)

-----------------------------------------------------------------------------
(* request_inner: reserve_worker, the exchange, recover_if_needed.         *)

RequestRefused(r) ==
    /\ At(r, "idle") /\ state # "running"
    /\ Goto(r, "done")
    /\ UNCHANGED <<pool, workers, crashes>>

RequestStart(r) ==
    /\ At(r, "idle") /\ state = "running"
    /\ th' = [th EXCEPT ![r].pc = "scan", ![r].left = 0..(active - 1), ![r].seen = active]
    /\ UNCHANGED <<pool, workers, crashes>>

NoneFound(r) ==
    /\ At(r, "scan") /\ th[r].left = {} /\ th[r].pick.worker = 0
    /\ Goto(r, "done")
    /\ UNCHANGED <<pool, workers, crashes>>

\* The samples of should_grow say that requests are long, or they do not: a
\* choice.  A pool that prepares its capacity in the background does not grow.
\* try_lock, and the checks made again under the lock.
TryGrow(r) ==
    /\ At(r, "scan") /\ th[r].left = {} /\ th[r].pick.load > 0
    /\ ~preparing /\ growth = Nobody /\ state = "running"
    /\ active = th[r].seen /\ active < Capacity
    /\ growth' = r
    /\ th' = [th EXCEPT ![r].pc = "grow", ![r].new = {}]
    /\ UNCHANGED <<state, slot, slotLock, active, preparing, bootstraps, workers, crashes>>

GrowOne(r) ==
    /\ At(r, "grow")
    /\ workers' = Append(workers, NewWorker(active))
    /\ th' = [th EXCEPT ![r].pc = "store", ![r].new = {Len(workers) + 1}]
    /\ UNCHANGED <<pool, crashes>>

\* spawn_initialized failed: the request returns the error.
GrowOneFails(r) ==
    /\ At(r, "grow") \/ At(r, "store")
    /\ workers' = Stopped(th[r].new)
    /\ growth' = Nobody
    /\ Goto(r, "done")
    /\ UNCHANGED <<state, slot, slotLock, active, preparing, bootstraps, crashes>>

GrowOneStore(r) ==
    /\ At(r, "store") /\ slotLock[active] = Nobody
    /\ \E w \in th[r].new :
          /\ slot' = [slot EXCEPT ![active] = w]
          /\ th' = [th EXCEPT ![r].pc = "publish",
                              ![r].pick = [slot |-> active, worker |-> w, load |-> 0]]
    /\ UNCHANGED <<state, slotLock, active, growth, preparing, bootstraps, workers, crashes>>

\* active_workers is stored, then the growth lock is dropped.
GrowOnePublish(r) ==
    /\ At(r, "publish")
    /\ active' = active + 1
    /\ growth' = Nobody
    /\ Goto(r, "reserve")
    /\ UNCHANGED <<state, slot, slotLock, preparing, bootstraps, workers, crashes>>

KeepPick(r) ==
    /\ At(r, "scan") /\ th[r].left = {} /\ th[r].pick.worker # 0
    /\ Goto(r, "reserve")
    /\ UNCHANGED <<pool, workers, crashes>>

\* The reservation is taken first and the state is checked after it.
Reserve(r) ==
    /\ At(r, "reserve")
    /\ workers' = Loaded({th[r].pick.worker}, 1)
    /\ Goto(r, "recheck")
    /\ UNCHANGED <<pool, crashes>>

\* Mutant: the state is not checked again once the reservation is held.
ReserveUnchecked(r) ==
    /\ At(r, "recheck")
    /\ Goto(r, "exchange")
    /\ UNCHANGED <<pool, workers, crashes>>

ReserveChecked(r) ==
    /\ At(r, "recheck") /\ state = "running"
    /\ Goto(r, "exchange")
    /\ UNCHANGED <<pool, workers, crashes>>

\* Mutant: the early return leaks the reservation.
ReserveLeaked(r) ==
    /\ At(r, "recheck") /\ state # "running"
    /\ Goto(r, "done")
    /\ UNCHANGED <<pool, workers, crashes>>

ReserveDropped(r) ==
    /\ At(r, "recheck") /\ state # "running"
    /\ workers' = Loaded({th[r].pick.worker}, -1)
    /\ Goto(r, "done")
    /\ UNCHANGED <<pool, crashes>>

ExchangeOk(r) ==
    /\ At(r, "exchange") /\ Running(th[r].pick.worker)
    /\ Goto(r, "release")
    /\ UNCHANGED <<pool, workers, crashes>>

\* An error of the remote side, or of a worker that is gone.
ExchangeFails(r) ==
    /\ At(r, "exchange")
    /\ Goto(r, "recover")
    /\ UNCHANGED <<pool, workers, crashes>>

\* recover_if_needed, after a request and for each worker of a broadcast.
RecoverSkip(t) ==
    /\ At(t, "recover") /\ (Running(th[t].pick.worker) \/ state # "running")
    /\ Goto(t, "release")
    /\ UNCHANGED <<pool, workers, crashes>>

Recover(t) ==
    /\ At(t, "recover") /\ ~Running(th[t].pick.worker) /\ state = "running"
    /\ Goto(t, "match")
    /\ UNCHANGED <<pool, workers, crashes>>

\* Mutant: whatever the slot holds now is taken for the worker that failed.
RecoverAny(t) ==
    LET p == th[t].pick IN
    /\ At(t, "match") /\ slotLock[p.slot] = Nobody
    /\ th' = [th EXCEPT ![t].pc = "restart", ![t].back = "recover",
                        ![t].idx = p.slot, ![t].old = slot[p.slot]]
    /\ UNCHANGED <<pool, workers, crashes>>

\* Only the worker that failed is replaced, not one that replaced it.
RecoverMatch(t) ==
    LET p == th[t].pick IN
    /\ At(t, "match") /\ slotLock[p.slot] = Nobody
    /\ IF slot[p.slot] = p.worker
       THEN th' = [th EXCEPT ![t].pc = "restart", ![t].back = "recover",
                             ![t].idx = p.slot, ![t].old = p.worker]
       ELSE Goto(t, "release")
    /\ UNCHANGED <<pool, workers, crashes>>

\* Mutant: the reservation is counted down twice.
ReleaseTwice(t) ==
    LET p == th[t].pick IN
    /\ At(t, "release")
    /\ workers' = Loaded({p.worker}, -2)
    /\ th' = [th EXCEPT ![t].pc = IF t \in Broadcasters THEN "settle" ELSE "done",
                        ![t].team = @ \ {<<p.slot, p.worker>>}]
    /\ UNCHANGED <<pool, crashes>>

\* The reservation is dropped; a broadcast goes on with the next worker.
Release(t) ==
    LET p == th[t].pick IN
    /\ At(t, "release")
    /\ workers' = Loaded({p.worker}, -1)
    /\ th' = [th EXCEPT ![t].pc = IF t \in Broadcasters THEN "settle" ELSE "done",
                        ![t].team = @ \ {<<p.slot, p.worker>>}]
    /\ UNCHANGED <<pool, crashes>>

RecoverStep(t) == RecoverSkip(t) \/ Recover(t) \/ RecoverMatch(t) \/ Release(t)

RequestStep(r) ==
    \/ RestartStep(r) \/ RecoverStep(r) \/ NoneFound(r) \/ TryGrow(r) \/ GrowOne(r)
    \/ GrowOneFails(r) \/ GrowOneStore(r) \/ GrowOnePublish(r) \/ KeepPick(r)
    \/ Reserve(r) \/ ReserveChecked(r) \/ ReserveDropped(r) \/ ExchangeOk(r)
    \/ ExchangeFails(r)

-----------------------------------------------------------------------------
(* broadcast_inner.                                                        *)

\* The pool is not running, there is nothing to send, or it is too large.
BroadcastRefused(b) ==
    /\ At(b, "idle")
    /\ Goto(b, "done")
    /\ UNCHANGED <<pool, workers, crashes>>

BroadcastStart(b) ==
    /\ At(b, "idle") /\ state = "running"
    /\ Goto(b, "lock")
    /\ UNCHANGED <<pool, workers, crashes>>

\* Mutant: the broadcast does not hold the growth lock.
BroadcastUnlocked(b) ==
    /\ At(b, "lock")
    /\ IF state = "running"
       THEN th' = [th EXCEPT ![b].pc = "scan", ![b].left = 0..(active - 1)]
       ELSE Goto(b, "done")
    /\ UNCHANGED <<pool, workers, crashes>>

BroadcastLock(b) ==
    /\ At(b, "lock") /\ growth = Nobody
    /\ IF state = "running"
       THEN /\ growth' = b
            /\ th' = [th EXCEPT ![b].pc = "scan", ![b].left = 0..(active - 1)]
       ELSE Goto(b, "done") /\ UNCHANGED growth
    /\ UNCHANGED <<state, slot, slotLock, active, preparing, bootstraps, workers, crashes>>

\* One coordinator thread per worker, each with its reservation.
BroadcastSpread(b) ==
    /\ At(b, "scan") /\ th[b].left = {}
    /\ workers' = Loaded({m[2] : m \in th[b].team}, 1)
    /\ th' = [th EXCEPT ![b].pc = "ask", ![b].left = {m[1] : m \in th[b].team}]
    /\ UNCHANGED <<pool, crashes>>

\* A worker answers, and has applied the payload.
BroadcastAnswered(b) ==
    /\ At(b, "ask")
    /\ \E m \in th[b].team :
          /\ m[1] \in th[b].left /\ Running(m[2])
          /\ workers' = [workers EXCEPT ![m[2]].applied = Record(@, b)]
          /\ th' = [th EXCEPT ![b].left = @ \ {m[1]}]
    /\ UNCHANGED <<pool, crashes>>

\* It does not: it is gone, or it has answered with an error, having applied
\* the payload or not.
BroadcastFailed(b) ==
    /\ At(b, "ask")
    /\ \E m \in th[b].team, applied \in BOOLEAN :
          /\ m[1] \in th[b].left
          /\ workers' = IF applied /\ Running(m[2])
                        THEN [workers EXCEPT ![m[2]].applied = Record(@, b)] ELSE workers
          /\ th' = [th EXCEPT ![b].left = @ \ {m[1]}, ![b].bad = @ \cup {m[1]},
                              ![b].ok = FALSE]
    /\ UNCHANGED <<pool, crashes>>

\* All coordinators are joined before the first result is looked at.
BroadcastJoin(b) ==
    /\ At(b, "ask") /\ th[b].left = {}
    /\ Goto(b, "settle")
    /\ UNCHANGED <<pool, workers, crashes>>

BroadcastSettle(b) ==
    /\ At(b, "settle")
    /\ \E m \in th[b].team :
          /\ \A n \in th[b].team : m[1] <= n[1]
          /\ th' = [th EXCEPT ![b].pick = [slot |-> m[1], worker |-> m[2], load |-> 0],
                              ![b].pc = IF m[1] \in th[b].bad THEN "recover" ELSE "release"]
    /\ UNCHANGED <<pool, workers, crashes>>

\* A broadcast without an error is recorded for the workers started later.
BroadcastEnd(b) ==
    /\ At(b, "unlock") \/ (At(b, "settle") /\ th[b].team = {})
    /\ bootstraps' = IF th[b].ok THEN Record(bootstraps, b) ELSE bootstraps
    /\ growth' = Nobody
    /\ Goto(b, "done")
    /\ UNCHANGED <<state, slot, slotLock, active, preparing, workers, crashes>>

BroadcastStep(b) ==
    \/ RestartStep(b) \/ RecoverStep(b) \/ BroadcastLock(b) \/ BroadcastSpread(b)
    \/ BroadcastAnswered(b) \/ BroadcastFailed(b) \/ BroadcastJoin(b)
    \/ BroadcastSettle(b) \/ BroadcastEnd(b)

-----------------------------------------------------------------------------
(* prepare_capacity and grow_to.                                           *)

Target == (Capacity + 1) \div 2

PrepareSkip(g) ==
    /\ At(g, "idle") /\ (Target <= active \/ preparing)
    /\ Goto(g, "done")
    /\ UNCHANGED <<pool, workers, crashes>>

PrepareStart(g) ==
    /\ At(g, "idle") /\ Target > active /\ ~preparing
    /\ preparing' = TRUE
    /\ Goto(g, "lock")
    /\ UNCHANGED <<state, slot, slotLock, active, growth, bootstraps, workers, crashes>>

\* The thread could not be started.
PrepareFails(g) ==
    /\ At(g, "lock")
    /\ preparing' = FALSE
    /\ Goto(g, "done")
    /\ UNCHANGED <<state, slot, slotLock, active, growth, bootstraps, workers, crashes>>

GrowLock(g) ==
    /\ At(g, "lock") /\ growth = Nobody
    /\ IF state = "running" /\ Target > active
       THEN growth' = g /\ Goto(g, "grow")
       ELSE Goto(g, "done") /\ UNCHANGED growth
    /\ UNCHANGED <<state, slot, slotLock, active, preparing, bootstraps, workers, crashes>>

\* Mutant: active_workers is published before the slots are filled.
GrowSpawnPublishes(g) ==
    /\ At(g, "grow")
    /\ workers' = workers \o [k \in 1..(Target - active) |-> NewWorker(active + k - 1)]
    /\ th' = [th EXCEPT ![g].pc = "store",
                        ![g].new = (Len(workers) + 1)..(Len(workers) + Target - active)]
    /\ active' = Target
    /\ UNCHANGED <<state, slot, slotLock, growth, preparing, bootstraps, crashes>>

\* One thread per missing worker; they all replay the same bootstraps, which
\* do not change while the growth lock is held.
GrowSpawn(g) ==
    /\ At(g, "grow")
    /\ workers' = workers \o [k \in 1..(Target - active) |-> NewWorker(active + k - 1)]
    /\ th' = [th EXCEPT ![g].pc = "store",
                        ![g].new = (Len(workers) + 1)..(Len(workers) + Target - active)]
    /\ UNCHANGED <<pool, crashes>>

\* One of them failed: the others are stopped, and growth may be tried again.
GrowFails(g) ==
    /\ At(g, "store")
    /\ workers' = Stopped(th[g].new)
    /\ preparing' = FALSE /\ growth' = Nobody
    /\ Goto(g, "done")
    /\ UNCHANGED <<state, slot, slotLock, active, bootstraps, crashes>>

GrowStore(g) ==
    /\ At(g, "store")
    /\ slot' = [i \in Slots |-> IF \E w \in th[g].new : workers[w].home = i
                                THEN CHOOSE w \in th[g].new : workers[w].home = i
                                ELSE slot[i]]
    /\ Goto(g, "publish")
    /\ UNCHANGED <<state, slotLock, active, growth, preparing, bootstraps, workers, crashes>>

GrowPublish(g) ==
    /\ At(g, "publish")
    /\ active' = Target
    /\ growth' = Nobody
    /\ Goto(g, "done")
    /\ UNCHANGED <<state, slot, slotLock, preparing, bootstraps, workers, crashes>>

GrowStep(g) == GrowLock(g) \/ GrowSpawn(g) \/ GrowFails(g) \/ GrowStore(g) \/ GrowPublish(g)

-----------------------------------------------------------------------------
(* WorkerPool::shutdown and reduce_worker_state.                           *)

CloseSkip(z) ==
    /\ At(z, "idle") /\ state # "running"
    /\ Goto(z, "done")
    /\ UNCHANGED <<pool, workers, crashes>>

CloseStart(z) ==
    /\ At(z, "idle") /\ state = "running"
    /\ state' = "finalizing"
    /\ Goto(z, "lock")
    /\ UNCHANGED <<slot, slotLock, active, growth, preparing, bootstraps, workers, crashes>>

\* Mutant: the reduction does not wait for a growth that is under way.
CloseUnlocked(z) ==
    /\ At(z, "lock")
    /\ th' = [th EXCEPT ![z].pc = IF Reduction THEN "gather" ELSE "halt",
                        ![z].left = 0..(active - 1)]
    /\ UNCHANGED <<pool, workers, crashes>>

CloseLock(z) ==
    /\ At(z, "lock") /\ growth = Nobody
    /\ growth' = z
    /\ th' = [th EXCEPT ![z].pc = IF Reduction THEN "gather" ELSE "halt",
                        ![z].left = 0..(active - 1)]
    /\ UNCHANGED <<state, slot, slotLock, active, preparing, bootstraps, workers, crashes>>

\* Every active worker, in order; one that is not running ends the reduction.
Gather(z) ==
    /\ At(z, "gather") /\ th[z].left # {}
    /\ LET i == Min(th[z].left) IN
          /\ slotLock[i] = Nobody
          /\ IF Running(slot[i])
             THEN th' = [th EXCEPT ![z].left = @ \ {i}, ![z].team = @ \cup {<<i, slot[i]>>}]
             ELSE Goto(z, "halt")
    /\ UNCHANGED <<pool, workers, crashes>>

\* The wait until no collected worker has a request in flight.
Drained(z) ==
    /\ At(z, "gather") /\ th[z].left = {}
    /\ \A m \in th[z].team : workers[m[2]].load = 0
    /\ Goto(z, "collect")
    /\ UNCHANGED <<pool, workers, crashes>>

\* Every worker hands over its state and has reducers: the followers stop.
Collect(z) ==
    /\ At(z, "collect") /\ \A m \in th[z].team : Running(m[2])
    /\ workers' = Stopped({m[2] : m \in {n \in th[z].team : n[1] > 0}})
    /\ Goto(z, "reduce")
    /\ UNCHANGED <<pool, crashes>>

\* One does not answer, or there are no reducers.
CollectSkip(z) ==
    /\ At(z, "collect")
    /\ Goto(z, "halt")
    /\ UNCHANGED <<pool, workers, crashes>>

\* The leader has answered the reduce request, or failed to.
Reduce(z) ==
    /\ At(z, "reduce")
    /\ Goto(z, "halt")
    /\ UNCHANGED <<pool, workers, crashes>>

Halt(z) ==
    /\ At(z, "halt")
    /\ state' = "stopping"
    /\ th' = [th EXCEPT ![z].pc = "sweep", ![z].left = Slots, ![z].team = {}]
    /\ UNCHANGED <<slot, slotLock, active, growth, preparing, bootstraps, workers, crashes>>

\* The workers of all slots, each read under its lock.
Sweep(z) ==
    /\ At(z, "sweep") /\ th[z].left # {}
    /\ LET i == Min(th[z].left) IN
          /\ slotLock[i] = Nobody
          /\ th' = [th EXCEPT ![z].left = @ \ {i}, ![z].team = @ \cup {<<i, slot[i]>>}]
    /\ UNCHANGED <<pool, workers, crashes>>

StopAll(z) ==
    /\ At(z, "sweep") /\ th[z].left = {}
    /\ workers' = Stopped({m[2] : m \in th[z].team})
    /\ state' = "stopped" /\ growth' = Nobody
    /\ Goto(z, "done")
    /\ UNCHANGED <<slot, slotLock, active, preparing, bootstraps, crashes>>

CloseStep(z) == \/ CloseLock(z) \/ Gather(z) \/ Drained(z) \/ Collect(z) \/ CollectSkip(z)
                \/ Reduce(z) \/ Halt(z) \/ Sweep(z) \/ StopAll(z)

-----------------------------------------------------------------------------

\* A worker process dies, or misses a deadline: ExtensionWorker's "failed".
Crash ==
    /\ crashes < MaxCrashes
    /\ \E w \in DOMAIN workers :
          Running(w) /\ workers' = [workers EXCEPT ![w].state = "failed"]
    /\ crashes' = crashes + 1
    /\ UNCHANGED <<pool, th>>

Finished ==
    /\ \A t \in Threads : At(t, "done")
    /\ UNCHANGED vars

Next ==
    \/ \E r \in Requesters : RequestRefused(r) \/ RequestStart(r) \/ RequestStep(r)
    \/ \E b \in Broadcasters : BroadcastRefused(b) \/ BroadcastStart(b) \/ BroadcastStep(b)
    \/ \E g \in Growers : PrepareSkip(g) \/ PrepareStart(g) \/ PrepareFails(g) \/ GrowStep(g)
    \/ \E z \in Closers : CloseSkip(z) \/ CloseStart(z) \/ CloseStep(z)
    \/ Crash \/ Finished

Spec == Init /\ [][Next]_vars

\* Every thread that has started is scheduled, and a request on a worker
\* returns.  Workers are not assumed to stay alive.
FairSpec ==
    /\ Spec
    /\ \A r \in Requesters : WF_vars(RequestStep(r))
    /\ \A b \in Broadcasters : WF_vars(BroadcastStep(b))
    /\ \A g \in Growers : WF_vars(GrowStep(g))
    /\ \A z \in Closers : WF_vars(CloseStep(z))

-----------------------------------------------------------------------------
(* Properties.                                                             *)

TypeOK ==
    /\ state \in {"running", "finalizing", "stopping", "stopped"}
    /\ slot \in [Slots -> 0..Len(workers)]
    /\ slotLock \in [Slots -> Threads \cup {Nobody}]
    /\ active \in 1..Capacity
    /\ growth \in Threads \cup {Nobody}
    /\ preparing \in BOOLEAN
    /\ bootstraps \subseteq Broadcasters
    /\ \A w \in DOMAIN workers :
          /\ workers[w].home \in Slots
          /\ workers[w].state \in {"running", "failed", "stopped"}
          /\ workers[w].applied \subseteq Broadcasters
          /\ workers[w].load \in 0..Cardinality(Threads)
    /\ crashes \in 0..MaxCrashes

\* A slot below active_workers always holds a worker of its own index.  The
\* number is published after the slot is filled: a reader that trusts it never
\* finds an empty slot, which reserve_worker would report as unavailable and
\* reduce_worker_state as an internal error.
ActiveSlotsFilled ==
    \A i \in 0..(active - 1) : slot[i] # 0 /\ workers[slot[i]].home = i

\* No slot ever has two live processes, however many threads find its worker
\* dead, restart it, or grow into it at the same time.
OneProcessPerSlot ==
    \A v, w \in DOMAIN workers :
        Running(v) /\ Running(w) /\ workers[v].home = workers[w].home => v = w

\* A healthy worker is left alone: nobody takes it out of its slot, and while
\* the pool runs nobody stops it, although threads restart a slot on evidence
\* they gathered before they held its lock.
HealthyWorkersStay ==
    [][\A i \in Slots :
          slot[i] # 0 /\ Running(slot[i]) =>
              /\ slot'[i] = slot[i]
              /\ workers'[slot[i]].state = "stopped" => state # "running"]_<<slot, workers>>

\* A worker that joins by growth begins with the recorded bootstrap state, and
\* no broadcast is under way when it appears: the growth lock keeps adaptive
\* workers from appearing halfway through a sequence.
GrowthIsConsistent ==
    \A t \in Requesters \cup Growers :
        th[t].pc \in {"store", "publish"} =>
            /\ \A w \in th[t].new : workers[w].applied = bootstraps
            /\ \A b \in Broadcasters : th[b].pc \in {"idle", "lock", "done"}

\* While the closer collects and reduces, no request is being exchanged on a
\* worker whose state has been collected: reservation first and state check
\* second on one side, state first and reservations second on the other.
ReductionIsQuiet ==
    \A z \in Closers : th[z].pc \in {"collect", "reduce"} =>
        \A m \in th[z].team, r \in Requesters :
            th[r].pc \in {"exchange", "recover"} => th[r].pick.worker # m[2]

\* What the reduction has collected is every worker of the pool: none joins
\* between the collection and the shutdown.
ReductionIsComplete ==
    \A z \in Closers : th[z].pc \in {"collect", "reduce"} =>
        {m[1] : m \in th[z].team} = 0..(active - 1)

\* Every reservation is dropped, on every early return: when nobody is inside
\* the pool no worker is counted as loaded.
ReservationsReturn ==
    (\A t \in Threads : th[t].pc \in {"idle", "done"}) =>
        \A w \in DOMAIN workers : workers[w].load = 0

\* Requests, broadcasts, growth and shutdown all come to an end: again and again nobody
\* is inside the pool, and as every thread enters it once, who enters it also leaves.
EveryoneReturns == []<>(\A t \in Threads : th[t].pc \in {"idle", "done"})

\* After broadcasts that all succeeded, every running worker of an active slot
\* has the bootstrap state that is recorded.
IdenticalState ==
    (\A b \in Broadcasters : th[b].pc \in {"idle", "done"} /\ th[b].ok) =>
        \A i \in 0..(active - 1) : Running(slot[i]) => workers[slot[i]].applied = bootstraps

\* Shutdown stops every worker the pool started with or grew by, whoever grows it at the
\* time: what may outlive it is a replacement that a request or broadcast was starting for
\* a dead worker (restart does not look at the pool's state again).
OnlyReplacementsOutlive ==
    state = "stopped" =>
        \A w \in DOMAIN workers :
            Running(w) => \E v \in 1..(w - 1) : workers[v].home = workers[w].home
=============================================================================
