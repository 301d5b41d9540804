------------------------ MODULE ExtensionPoolLemmas ------------------------
(***************************************************************************)
(* What the proofs about the pool of extension workers rest on: the        *)
(* inductive invariant and its parts, what the operations on the table of  *)
(* workers keep, and what a step can change at all. Every proof after      *)
(* these splits a step into the few that touch what it is about instead of *)
(* all of them.                                                            *)
(***************************************************************************)
EXTENDS ExtensionPool, TLAPS, SequenceTheorems, WellFoundedInduction

\* What the table of workers holds.  The load is left unbounded here: that it is never
\* negative is a matter of counting reservations (ExtensionPoolReservations).
WorkerType ==
    [home : Slots, state : {"running", "failed", "stopped"},
     applied : SUBSET Broadcasters, load : Int]

PoolType ==
    /\ slot \in [Slots -> Nat]
    /\ slotLock \in [Slots -> Threads \cup {Nobody}]
    /\ active \in 1..Capacity
    /\ growth \in Threads \cup {Nobody}
    /\ bootstraps \subseteq Broadcasters
    /\ workers \in Seq(WorkerType)

\* The locals of a thread are a record with the fields of Idle.
Shape ==
    /\ DOMAIN th = Threads
    /\ \A t \in Threads :
          DOMAIN th[t] = {"pc", "back", "left", "idx", "old", "new", "pick", "team", "bad",
                          "seen", "ok"}

Locals ==
    \A t \in Threads :
        /\ th[t].left \subseteq Slots /\ th[t].idx \in Slots /\ th[t].old \in Nat
        /\ th[t].pick.slot \in Slots /\ th[t].pick.worker \in Nat
        /\ th[t].team \subseteq Slots \X Nat

\* Who restarts workers, and who adds them.
Restarters == Requesters \cup Broadcasters
AddWorkers == Requesters \cup Growers

\* Who holds the growth lock, told from where the threads are.
HoldsGrowth(t) ==
    \/ t \in AddWorkers /\ th[t].pc \in {"grow", "store", "publish"}
    \/ t \in Broadcasters \cup Closers /\ th[t].pc \notin {"idle", "lock", "done"}

\* The locks: one thread is inside the growth lock, one inside a slot's.
GrowthHeld == \A t \in Threads : HoldsGrowth(t) => growth = t

SlotHeld ==
    \A t \in Restarters : th[t].pc \in {"spawn", "install"} => slotLock[th[t].idx] = t

\* The slots a growth is about to fill.
Top(t) == IF t \in Requesters THEN active + 1 ELSE Target

\* What a slot holds was spawned for it.
SlotHomes ==
    \A i \in Slots : slot[i] # 0 => slot[i] \in 1..Len(workers) /\ workers[slot[i]].home = i

\* The slots that are published are filled.
ActiveFilled == \A i \in 0..(active - 1) : slot[i] # 0

\* What a restart is about to install was spawned for the slot.
InHand ==
    \A t \in Restarters : th[t].pc = "install" =>
        \E w \in 1..Len(workers) : th[t].new = {w} /\ workers[w].home = th[t].idx

\* A growth under way has slots to fill.
TopFree ==
    \A t \in AddWorkers : HoldsGrowth(t) => active < Top(t) /\ Top(t) <= Capacity

\* What a growth is about to store: one worker for each slot it fills.
GrowthInHand ==
    \A t \in AddWorkers : th[t].pc = "store" =>
        /\ th[t].new \subseteq 1..Len(workers)
        /\ \A w \in th[t].new : workers[w].home \in active..(Top(t) - 1)
        /\ \A i \in active..(Top(t) - 1) : \E w \in th[t].new : workers[w].home = i
        /\ \A v, w \in th[t].new : workers[v].home = workers[w].home => v = w

\* What a growth is about to publish is filled.
GrowthFilled ==
    \A t \in AddWorkers : th[t].pc = "publish" =>
        \A i \in active..(Top(t) - 1) : slot[i] # 0

\* Threads look at active slots only.
LeftActive == \A t \in Restarters : \A i \in th[t].left : i < active

TeamActive ==
    \A t \in Restarters : \A m \in th[t].team : m[1] < active /\ m[2] \in 1..Len(workers)

PickActive ==
    \A t \in Restarters :
        /\ th[t].pick.worker \in 0..Len(workers)
        /\ th[t].pc = "publish" => th[t].pick.slot = active
        /\ th[t].pc # "publish" => th[t].pick.slot < active
        /\ th[t].pc \in {"publish", "reserve", "recheck", "exchange", "recover", "match"}
              => th[t].pick.worker # 0

RestartActive ==
    \A t \in Restarters : th[t].pc \in {"restart", "spawn", "install"} =>
        th[t].idx < active /\ th[t].old \in 1..Len(workers)

\* The slots above them are empty, unless a growth is about to publish them.
Unpublished ==
    \A i \in Slots : i >= active /\ slot[i] # 0 =>
        \E t \in AddWorkers : th[t].pc = "publish" /\ i < Top(t)

\* A growth that has not spawned its worker has nothing to stop.
EmptyHanded == \A r \in Requesters : th[r].pc = "grow" => th[r].new = {}

\* A worker somebody is about to replace is dead.
Evidence ==
    \A t \in Restarters :
        /\ th[t].pc = "restart" => ~ Running(th[t].old)
        /\ th[t].pc = "match" => ~ Running(th[t].pick.worker)
        /\ th[t].pc \in {"spawn", "install"} => ~ Running(slot[th[t].idx])
        /\ th[t].pc = "install" => slot[th[t].idx] \notin th[t].new

\* A running worker is in its slot, or in the hands of the thread that will put it
\* there.
Live ==
    \A w \in 1..Len(workers) : Running(w) =>
        \/ slot[workers[w].home] = w
        \/ \E t \in Restarters : th[t].pc = "install" /\ w \in th[t].new
        \/ \E t \in AddWorkers : th[t].pc = "store" /\ w \in th[t].new

\* A growth hands out the recorded bootstraps.
Replayed ==
    \A t \in AddWorkers : th[t].pc \in {"store", "publish"} =>
        \A w \in th[t].new : w \in 1..Len(workers) /\ workers[w].applied = bootstraps

\* Once a closer has begun the pool does not run.
Closing == \A z \in Closers : th[z].pc \notin {"idle", "done"} => state # "running"

TeamEmpty == \A z \in Closers : th[z].pc \in {"idle", "lock"} => th[z].team = {}

\* The closer that reduces has every active worker, or goes on to take it.
Gathered ==
    \A z \in Closers :
        /\ th[z].pc \in {"gather", "collect", "reduce"} =>
              {m[1] : m \in th[z].team} \cup th[z].left = 0..(active - 1)
        /\ th[z].pc \in {"collect", "reduce"} => th[z].left = {}

\* The inductive invariant.
Inv == /\ PoolType /\ Shape /\ Locals /\ GrowthHeld /\ SlotHeld /\ SlotHomes /\ ActiveFilled
       /\ InHand /\ TopFree /\ GrowthInHand /\ GrowthFilled
       /\ LeftActive /\ TeamActive /\ PickActive /\ RestartActive
       /\ Unpublished /\ EmptyHanded /\ TeamEmpty /\ Evidence
       /\ Live /\ Replayed /\ Closing /\ Gathered

(***************************************************************************)
(* A non-empty set of numbers has a least element: the order in which a    *)
(* broadcast and a closer visit the slots is defined.                      *)
(***************************************************************************)
LEMMA MinParts ==
    ASSUME NEW S \in SUBSET Nat, S # {}
    PROVE  Min(S) \in S /\ \A i \in S : Min(S) <= i
<1> DEFINE R == {ss \in Nat \X Nat : ss[1] < ss[2]}
<1>1. R = OpToRel(<, Nat)
  BY DEF OpToRel
<1>2. IsWellFoundedOn(R, Nat)
  BY <1>1, NatLessThanWellFounded, Zenon
<1>2a. S \subseteq Nat /\ S # {}
  OBVIOUS
<1> HIDE DEF R
<1>3. PICK m \in S : \A i \in S : ~ (<<i, m>> \in R)
  BY <1>2, <1>2a, WFMin, Zenon
<1>4. ASSUME NEW i \in S PROVE m <= i
  <2>1. i \in Nat /\ m \in Nat
    BY <1>2a
  <2>2. i < m => <<i, m>> \in R
    BY <2>1 DEF R
  <2> QED  BY <1>3, <2>1, <2>2
<1> QED  BY <1>4 DEF Min

(***************************************************************************)
(* Worker::shutdown on a set of workers changes their state and nothing    *)
(* else.                                                                   *)
(***************************************************************************)
LEMMA StoppedParts ==
    ASSUME workers \in Seq(WorkerType), NEW ws
    PROVE  /\ Stopped(ws) \in Seq(WorkerType)
           /\ Len(Stopped(ws)) = Len(workers)
           /\ \A w \in 1..Len(workers) :
                 /\ Stopped(ws)[w].home = workers[w].home
                 /\ Stopped(ws)[w].applied = workers[w].applied
                 /\ Stopped(ws)[w].state = IF w \in ws THEN "stopped" ELSE workers[w].state
<1>1. DOMAIN workers = 1..Len(workers) /\ Len(workers) \in Nat
  OBVIOUS
<1>2. \A w \in 1..Len(workers) : workers[w] \in WorkerType
  OBVIOUS
<1>3. Stopped(ws) \in [1..Len(workers) -> WorkerType]
  BY <1>1, <1>2 DEF Stopped, WorkerType
<1>4. Stopped(ws) \in Seq(WorkerType) /\ Len(Stopped(ws)) = Len(workers)
  BY <1>1, <1>3, SeqDef, LenProperties
<1> QED
  BY <1>1, <1>2, <1>4 DEF Stopped, WorkerType

(***************************************************************************)
(* A reservation taken or dropped changes the load and nothing else.       *)
(***************************************************************************)
LEMMA LoadedParts ==
    ASSUME workers \in Seq(WorkerType), NEW ws, NEW n \in Int
    PROVE  /\ Loaded(ws, n) \in Seq(WorkerType)
           /\ Len(Loaded(ws, n)) = Len(workers)
           /\ \A w \in 1..Len(workers) :
                 /\ Loaded(ws, n)[w].home = workers[w].home
                 /\ Loaded(ws, n)[w].applied = workers[w].applied
                 /\ Loaded(ws, n)[w].state = workers[w].state
<1>1. DOMAIN workers = 1..Len(workers) /\ Len(workers) \in Nat
  OBVIOUS
<1>2. \A w \in 1..Len(workers) : workers[w] \in WorkerType
  OBVIOUS
<1>3. ASSUME NEW r \in WorkerType
      PROVE  /\ [r EXCEPT !.load = @ + n] \in WorkerType
             /\ [r EXCEPT !.load = @ + n].home = r.home
             /\ [r EXCEPT !.load = @ + n].applied = r.applied
             /\ [r EXCEPT !.load = @ + n].state = r.state
  <2>1. r.load + n \in Int
    BY DEF WorkerType
  <2> QED  BY <2>1 DEF WorkerType
<1>3a. Loaded(ws, n) \in [1..Len(workers) -> WorkerType]
  BY <1>1, <1>2, <1>3 DEF Loaded
<1>4. Loaded(ws, n) \in Seq(WorkerType) /\ Len(Loaded(ws, n)) = Len(workers)
  BY <1>1, <1>3a, SeqDef, LenProperties
<1> QED
  BY <1>1, <1>2, <1>3, <1>4 DEF Loaded

(***************************************************************************)
(* A worker spawned for a slot comes last in the table; the others stay.   *)
(***************************************************************************)
LEMMA SpawnedParts ==
    ASSUME workers \in Seq(WorkerType), bootstraps \subseteq Broadcasters, NEW i \in Slots
    PROVE  /\ Append(workers, NewWorker(i)) \in Seq(WorkerType)
           /\ Len(Append(workers, NewWorker(i))) = Len(workers) + 1
           /\ \A w \in 1..Len(workers) : Append(workers, NewWorker(i))[w] = workers[w]
           /\ Append(workers, NewWorker(i))[Len(workers) + 1] = NewWorker(i)
<1>1. NewWorker(i) \in WorkerType
  BY DEF NewWorker, WorkerType
<1> QED
  BY <1>1, AppendProperties

(***************************************************************************)
(* The workers that grow_to spawns come last in the table, one for each    *)
(* slot it is about to fill.                                               *)
(***************************************************************************)
LEMMA GrownParts ==
    ASSUME workers \in Seq(WorkerType), bootstraps \subseteq Broadcasters,
           NEW n \in Nat, NEW a \in Nat, a + n <= Capacity, Capacity \in Nat,
           workers' = workers \o [k \in 1..n |-> NewWorker(a + k - 1)]
    PROVE  /\ workers' \in Seq(WorkerType)
           /\ Len(workers') = Len(workers) + n
           /\ \A w \in 1..Len(workers) : workers'[w] = workers[w]
           /\ \A k \in 1..n : workers'[Len(workers) + k] = NewWorker(a + k - 1)
<1> DEFINE new == [k \in 1..n |-> NewWorker(a + k - 1)]
<1>1. \A k \in 1..n : NewWorker(a + k - 1) \in WorkerType
  BY DEF NewWorker, WorkerType, Slots
<1>2. new \in [1..n -> WorkerType]
  BY <1>1
<1>3. new \in Seq(WorkerType)
  BY ZenonT(30), <1>2, SeqDef
<1>3a. Len(new) = n
  BY <1>2, <1>3, LenProperties
<1> HIDE DEF new
<1>4. \A k \in 1..n : new[k] = NewWorker(a + k - 1)
  BY DEF new
<1>5. workers' = workers \o new
  BY DEF new
<1>6. /\ workers \o new \in Seq(WorkerType)
      /\ Len(workers \o new) = Len(workers) + Len(new)
      /\ \A i \in 1..Len(workers) + Len(new) :
            (workers \o new)[i] = IF i <= Len(workers) THEN workers[i] ELSE new[i - Len(workers)]
  BY <1>3, ConcatProperties
<1>7. Len(workers) \in Nat
  OBVIOUS
<1>8. ASSUME NEW k \in 1..n
      PROVE  workers'[Len(workers) + k] = NewWorker(a + k - 1)
  BY <1>3a, <1>4, <1>5, <1>6, <1>7
<1>9. ASSUME NEW w \in 1..Len(workers)
      PROVE  workers'[w] = workers[w]
  BY <1>3a, <1>5, <1>6, <1>7
<1> QED
  BY <1>3a, <1>5, <1>6, <1>8, <1>9

(***************************************************************************)
(* Requesters and broadcasters restart workers, requesters and growers add *)
(* workers, and all of them are threads.                                   *)
(***************************************************************************)
LEMMA ThreadKinds ==
    /\ Restarters \subseteq Threads /\ Requesters \subseteq Threads
    /\ Broadcasters \subseteq Threads /\ Growers \subseteq Threads /\ Closers \subseteq Threads
    /\ Requesters \subseteq Restarters /\ Broadcasters \subseteq Restarters
    /\ Requesters \subseteq AddWorkers /\ Growers \subseteq AddWorkers
BY PoolAssumption DEF Threads, Restarters, AddWorkers

(***************************************************************************)
(* A thread is of one kind.                                                *)
(***************************************************************************)
LEMMA KindsDisjoint ==
    /\ \A r \in Requesters : r \notin Broadcasters /\ r \notin Growers /\ r \notin Closers
    /\ \A b \in Broadcasters : b \notin Requesters /\ b \notin Growers /\ b \notin Closers
    /\ \A g \in Growers : g \notin Requesters /\ g \notin Broadcasters /\ g \notin Closers
    /\ \A z \in Closers : z \notin Requesters /\ z \notin Broadcasters /\ z \notin Growers
    /\ \A t \in Threads : t # Nobody
BY PoolAssumption

(***************************************************************************)
(* The capacity that prepare_capacity aims at is within the slots.         *)
(***************************************************************************)
LEMMA Capacities ==
    /\ Capacity \in Nat \ {0} /\ Target \in Nat /\ Target <= Capacity
    /\ 0 \in Slots
BY PoolAssumption DEF Target, Slots

(***************************************************************************)
(* A slot below active_workers holds a worker of its own index.            *)
(***************************************************************************)
LEMMA SlotOccupied ==
    ASSUME Inv, NEW i \in Nat, i < active
    PROVE  /\ i \in Slots /\ slot[i] # 0 /\ slot[i] \in 1..Len(workers)
           /\ workers[slot[i]] \in WorkerType /\ workers[slot[i]].home = i
<1>1. active \in 1..Capacity /\ Capacity \in Nat
  BY PoolAssumption DEF Inv, PoolType
<1>2. i \in Slots /\ i \in 0..(active - 1)
  BY <1>1 DEF Slots
<1>3. slot[i] \in 1..Len(workers) /\ workers[slot[i]].home = i /\ slot[i] # 0
  BY <1>2 DEF Inv, ActiveFilled, SlotHomes
<1> QED  BY <1>2, <1>3 DEF Inv, PoolType

(***************************************************************************)
(* A growth under way stays within the slots.                              *)
(***************************************************************************)
LEMMA TopLimit ==
    ASSUME Inv, NEW t \in AddWorkers, HoldsGrowth(t)
    PROVE  active < Top(t) /\ Top(t) <= Capacity
BY DEF Inv, TopFree

(***************************************************************************)
(* A process that dies changes the state of its worker and nothing else.   *)
(***************************************************************************)
LEMMA FailedParts ==
    ASSUME workers \in Seq(WorkerType), NEW v \in DOMAIN workers,
           workers' = [workers EXCEPT ![v].state = "failed"]
    PROVE  /\ workers' \in Seq(WorkerType) /\ Len(workers') = Len(workers)
           /\ \A w \in 1..Len(workers) :
                 /\ workers'[w].home = workers[w].home /\ workers'[w].applied = workers[w].applied
                 /\ workers'[w].state = IF w = v THEN "failed" ELSE workers[w].state
<1>1. DOMAIN workers = 1..Len(workers) /\ Len(workers) \in Nat
  OBVIOUS
<1>2. \A w \in 1..Len(workers) : workers[w] \in WorkerType
  OBVIOUS
<1>3. \A r \in WorkerType : /\ [r EXCEPT !.state = "failed"] \in WorkerType
                            /\ [r EXCEPT !.state = "failed"].home = r.home
                            /\ [r EXCEPT !.state = "failed"].applied = r.applied
                            /\ [r EXCEPT !.state = "failed"].state = "failed"
  BY DEF WorkerType
<1>4. workers' \in [1..Len(workers) -> WorkerType]
  BY <1>1, <1>2, <1>3
<1>5. workers' \in Seq(WorkerType) /\ Len(workers') = Len(workers)
  BY <1>1, <1>4, SeqDef, LenProperties
<1> QED
  BY <1>1, <1>2, <1>3, <1>5

(***************************************************************************)
(* A payload that a worker applies changes what it has applied and nothing *)
(* else.                                                                   *)
(***************************************************************************)
LEMMA AppliedParts ==
    ASSUME workers \in Seq(WorkerType), NEW v \in DOMAIN workers, NEW b \in Broadcasters,
           workers' = [workers EXCEPT ![v].applied = Record(@, b)]
    PROVE  /\ workers' \in Seq(WorkerType) /\ Len(workers') = Len(workers)
           /\ \A w \in 1..Len(workers) :
                 /\ workers'[w].home = workers[w].home /\ workers'[w].state = workers[w].state
                 /\ w # v => workers'[w].applied = workers[w].applied
<1>1. DOMAIN workers = 1..Len(workers) /\ Len(workers) \in Nat
  OBVIOUS
<1>2. \A w \in 1..Len(workers) : workers[w] \in WorkerType
  OBVIOUS
<1>3. ASSUME NEW r \in WorkerType
      PROVE  /\ [r EXCEPT !.applied = Record(@, b)] \in WorkerType
             /\ [r EXCEPT !.applied = Record(@, b)].home = r.home
             /\ [r EXCEPT !.applied = Record(@, b)].state = r.state
  <2>1. Record(r.applied, b) \subseteq Broadcasters
    BY DEF WorkerType, Record
  <2> QED  BY <2>1 DEF WorkerType
<1>4. workers' \in [1..Len(workers) -> WorkerType]
  BY <1>1, <1>2, <1>3
<1>5. workers' \in Seq(WorkerType) /\ Len(workers') = Len(workers)
  BY <1>1, <1>4, SeqDef, LenProperties
<1> QED
  BY <1>1, <1>2, <1>3, <1>5

\* Between two states: the table of workers grows, and no worker comes back to life.
Grows ==
    /\ workers' \in Seq(WorkerType)
    /\ Len(workers) \in Nat /\ Len(workers') \in Nat /\ Len(workers) <= Len(workers')
    /\ \A w \in 1..Len(workers) :
          /\ w \in 1..Len(workers')
          /\ workers'[w].home = workers[w].home
          /\ Running(w)' => Running(w)

\* Between two states: no worker is added, no payload applied, none stopped.
SameLength == Len(workers') = Len(workers)
SameApplied == \A w \in 1..Len(workers) : workers'[w].applied = workers[w].applied
NoneStopped ==
    \A w \in 1..Len(workers) : workers'[w].state = "stopped" => workers[w].state = "stopped"

(***************************************************************************)
(* Stopping workers leaves the table as long as it was, and starts none.   *)
(***************************************************************************)
LEMMA StoppedGrows ==
    ASSUME PoolType, NEW ws, workers' = Stopped(ws)
    PROVE  Grows /\ SameLength /\ SameApplied
<1>1. /\ workers' \in Seq(WorkerType) /\ Len(workers') = Len(workers)
      /\ \A w \in 1..Len(workers) :
            /\ workers'[w].home = workers[w].home
            /\ workers'[w].applied = workers[w].applied
            /\ workers'[w].state = IF w \in ws THEN "stopped" ELSE workers[w].state
  BY StoppedParts DEF PoolType
<1>2. Len(workers) \in Nat
  BY DEF PoolType
<1> QED  BY <1>1, <1>2 DEF Grows, Running, SameLength, SameApplied

(***************************************************************************)
(* Reservations neither start nor stop a worker.                           *)
(***************************************************************************)
LEMMA LoadedGrows ==
    ASSUME PoolType, NEW ws, NEW n \in Int, workers' = Loaded(ws, n)
    PROVE  Grows /\ SameLength /\ SameApplied /\ NoneStopped
<1>1. /\ workers' \in Seq(WorkerType) /\ Len(workers') = Len(workers)
      /\ \A w \in 1..Len(workers) :
            /\ workers'[w].home = workers[w].home /\ workers'[w].state = workers[w].state
            /\ workers'[w].applied = workers[w].applied
  BY LoadedParts DEF PoolType
<1>2. Len(workers) \in Nat
  BY DEF PoolType
<1> QED  BY <1>1, <1>2 DEF Grows, Running, SameLength, SameApplied, NoneStopped

(***************************************************************************)
(* A restart adds a worker and stops none.                                 *)
(***************************************************************************)
LEMMA SpawnedGrows ==
    ASSUME PoolType, NEW i \in Slots, workers' = Append(workers, NewWorker(i))
    PROVE  Grows /\ SameApplied /\ NoneStopped
<1>1. /\ workers' \in Seq(WorkerType) /\ Len(workers') = Len(workers) + 1
      /\ \A w \in 1..Len(workers) : workers'[w] = workers[w]
  BY SpawnedParts DEF PoolType
<1>2. Len(workers) \in Nat
  BY DEF PoolType
<1> QED  BY <1>1, <1>2 DEF Grows, Running, SameApplied, NoneStopped

(***************************************************************************)
(* A growth adds workers and stops none.                                   *)
(***************************************************************************)
LEMMA AddedGrows ==
    ASSUME PoolType, NEW n \in Nat, active + n <= Capacity,
           workers' = workers \o [k \in 1..n |-> NewWorker(active + k - 1)]
    PROVE  Grows /\ SameApplied /\ NoneStopped
<1>1. Len(workers) \in Nat /\ active \in Nat /\ Capacity \in Nat
  BY Capacities DEF PoolType
<1>2. /\ workers' \in Seq(WorkerType) /\ Len(workers') = Len(workers) + n
      /\ \A w \in 1..Len(workers) : workers'[w] = workers[w]
  BY <1>1, GrownParts DEF PoolType
<1> QED  BY <1>1, <1>2 DEF Grows, Running, SameApplied, NoneStopped

(***************************************************************************)
(* Applying a payload neither starts nor stops a worker.                   *)
(***************************************************************************)
LEMMA AppliedGrows ==
    ASSUME PoolType, NEW v \in 1..Len(workers), NEW b \in Broadcasters,
           workers' = [workers EXCEPT ![v].applied = Record(@, b)]
    PROVE  Grows /\ SameLength /\ NoneStopped
<1>1. Len(workers) \in Nat /\ v \in DOMAIN workers
  BY DEF PoolType
<1>2. /\ workers' \in Seq(WorkerType) /\ Len(workers') = Len(workers)
      /\ \A w \in 1..Len(workers) :
            workers'[w].home = workers[w].home /\ workers'[w].state = workers[w].state
  BY <1>1, AppliedParts DEF PoolType
<1> QED  BY <1>1, <1>2 DEF Grows, Running, SameLength, NoneStopped

(***************************************************************************)
(* A crash is not a stop.                                                  *)
(***************************************************************************)
LEMMA FailedGrows ==
    ASSUME PoolType, NEW v \in DOMAIN workers, workers' = [workers EXCEPT ![v].state = "failed"]
    PROVE  Grows /\ SameLength /\ SameApplied /\ NoneStopped
<1>1. Len(workers) \in Nat
  BY DEF PoolType
<1>2. /\ workers' \in Seq(WorkerType) /\ Len(workers') = Len(workers)
      /\ \A w \in 1..Len(workers) :
            /\ workers'[w].home = workers[w].home
            /\ workers'[w].applied = workers[w].applied
            /\ workers'[w].state = IF w = v THEN "failed" ELSE workers[w].state
  BY FailedParts DEF PoolType
<1> QED  BY <1>1, <1>2 DEF Grows, Running, SameLength, SameApplied, NoneStopped

(***************************************************************************)
(* A step that leaves the table alone keeps all of it.                     *)
(***************************************************************************)
LEMMA SameGrows ==
    ASSUME PoolType, UNCHANGED workers
    PROVE  Grows /\ SameLength /\ SameApplied /\ NoneStopped
<1>1. Len(workers) \in Nat
  BY DEF PoolType
<1> QED  BY <1>1 DEF Grows, Running, PoolType, SameLength, SameApplied, NoneStopped

\* Between two states: who adds workers, who changes what they have applied, and who
\* stops them.
WorkersChanged ==
    /\ \/ SameLength
       \/ \E t \in Restarters : RestartSpawn(t)
       \/ \E r \in Requesters : GrowOne(r)
       \/ \E g \in Growers : GrowSpawn(g)
    /\ \/ SameApplied
       \/ \E b \in Broadcasters : BroadcastAnswered(b) \/ BroadcastFailed(b)
    /\ \/ NoneStopped
       \/ \E t \in Restarters : RestartBegin(t) \/ ReplayFails(t)
       \/ \E r \in Requesters : GrowOneFails(r)
       \/ \E g \in Growers : GrowFails(g)
       \/ \E z \in Closers : Collect(z) \/ StopAll(z)

\* Between two states: only the locals of t change.
Others(t) == \A u \in Threads : u # t => th'[u] = th[u]

(***************************************************************************)
(* What the scan of the slots changes in the locals of its thread when it  *)
(* goes on with the worker of slot i.                                      *)
(***************************************************************************)
LEMMA FoundFields ==
    ASSUME Shape, NEW t \in Threads, NEW i, NEW w, Found(t, i, w)
    PROVE  /\ Others(t)
           /\ th'[t].pc = "scan" /\ th'[t].left = th[t].left \ {i}
           /\ th'[t].idx = th[t].idx /\ th'[t].old = th[t].old /\ th'[t].new = th[t].new
           /\ \/ th'[t].pick = th[t].pick
              \/ th'[t].pick.slot = i /\ th'[t].pick.worker = w
           /\ th'[t].team \subseteq th[t].team \cup {<<i, w>>}
<1> DEFINE p == IF th[t].pick.worker = 0 \/ workers[w].load < th[t].pick.load
                THEN [slot |-> i, worker |-> w, load |-> workers[w].load] ELSE th[t].pick
           m == IF t \in Broadcasters THEN th[t].team \cup {<<i, w>>} ELSE th[t].team
<1>1. p = th[t].pick \/ (p.slot = i /\ p.worker = w)
  <2>1. [slot |-> i, worker |-> w, load |-> workers[w].load].slot = i
    OBVIOUS
  <2>2. [slot |-> i, worker |-> w, load |-> workers[w].load].worker = w
    OBVIOUS
  <2>3. p = [slot |-> i, worker |-> w, load |-> workers[w].load] \/ p = th[t].pick
    OBVIOUS
  <2> HIDE DEF p
  <2>4. ASSUME p = [slot |-> i, worker |-> w, load |-> workers[w].load]
        PROVE  p.slot = i /\ p.worker = w
    BY <2>1, <2>2, <2>4, Zenon
  <2> QED  BY <2>3, <2>4, Zenon
<1>2. m \subseteq th[t].team \cup {<<i, w>>}
  OBVIOUS
<1>3. th' = [th EXCEPT ![t].pc = "scan", ![t].left = @ \ {i}, ![t].pick = p, ![t].team = m]
  BY DEF Found
<1> HIDE DEF p, m
<1>4. th'[t].pick = p /\ th'[t].team = m
  BY <1>3 DEF Shape
<1> QED  BY <1>1, <1>2, <1>3, <1>4 DEF Shape, Others

(***************************************************************************)
(* What a restart that succeeds changes in the locals of its thread.       *)
(***************************************************************************)
LEMMA RestartedFields ==
    ASSUME Shape, NEW t \in Threads, NEW w, Restarted(t, w)
    PROVE  /\ Others(t)
           /\ th'[t].pc \in {"scan", "release"} /\ th'[t].left \subseteq th[t].left
           /\ th'[t].idx = th[t].idx /\ th'[t].old = th[t].old /\ th'[t].new = th[t].new
           /\ \/ th'[t].pick = th[t].pick
              \/ th'[t].pick.slot = th[t].idx /\ th'[t].pick.worker = w
           /\ th'[t].team \subseteq th[t].team \cup {<<th[t].idx, w>>}
<1>1. CASE Found(t, th[t].idx, w)
  BY <1>1, FoundFields
<1>2. CASE Recovered(t, TRUE)
  BY <1>2 DEF Recovered, Shape, Others
<1> QED  BY <1>1, <1>2 DEF Restarted

(***************************************************************************)
(* What a restart that fails changes in the locals of its thread: it       *)
(* learns of no worker.                                                    *)
(***************************************************************************)
LEMMA NotRestartedFields ==
    ASSUME Shape, NEW t \in Threads, NotRestarted(t)
    PROVE  /\ Others(t)
           /\ th'[t].pc \in {"scan", "release", "unlock"} /\ th'[t].left \subseteq th[t].left
           /\ th'[t].pc = "unlock" => t \in Broadcasters
           /\ th'[t].idx = th[t].idx /\ th'[t].old = th[t].old /\ th'[t].new = th[t].new
           /\ th'[t].pick = th[t].pick /\ th'[t].team = th[t].team
<1>1. CASE NotFound(t, th[t].idx)
  BY <1>1 DEF NotFound, Shape, Others
<1>2. CASE Recovered(t, FALSE)
  BY <1>2 DEF Recovered, Shape, Others
<1> QED  BY <1>1, <1>2 DEF NotRestarted

(***************************************************************************)
(* The slots below active_workers exist.                                   *)
(***************************************************************************)
LEMMA ActiveRange ==
    ASSUME PoolType
    PROVE  0..(active - 1) \subseteq Slots
BY Capacities DEF PoolType, Slots

\* Where a thread holds nothing the invariant speaks of.
Settled == {"idle", "done", "scan", "unlock", "release", "reserve", "recheck", "exchange",
            "recover", "lock", "ask", "settle", "halt", "sweep"}

\* Between two states: by which action u has come to where it is.
Entered(u) ==
    \/ th'[u] = th[u] \/ th'[u].pc \in Settled
    \/ u \in Restarters /\ \/ th'[u].pc = "restart" /\ (ScanDead(u) \/ RecoverMatch(u))
                           \/ th'[u].pc = "spawn"   /\ RestartBegin(u)
                           \/ th'[u].pc = "install" /\ RestartSpawn(u)
                           \/ th'[u].pc = "match"   /\ Recover(u)
    \/ u \in Requesters /\ \/ th'[u].pc = "grow"    /\ TryGrow(u)
                           \/ th'[u].pc = "store"   /\ GrowOne(u)
                           \/ th'[u].pc = "publish" /\ GrowOneStore(u)
    \/ u \in Growers    /\ \/ th'[u].pc = "grow"    /\ GrowLock(u)
                           \/ th'[u].pc = "store"   /\ GrowSpawn(u)
                           \/ th'[u].pc = "publish" /\ GrowStore(u)
    \/ u \in Closers    /\ \/ th'[u].pc = "gather"  /\ (CloseLock(u) \/ Gather(u))
                           \/ th'[u].pc = "collect" /\ Drained(u)
                           \/ th'[u].pc = "reduce"  /\ Collect(u)

(***************************************************************************)
(* A step of t that ends outside the critical parts enters none of them.   *)
(***************************************************************************)
LEMMA SettledEntered ==
    ASSUME NEW t, Others(t), th'[t].pc \in Settled
    PROVE  \A u \in Threads : Entered(u)
BY DEF Others, Entered

\* Between two states: who changes the state of the pool.
Changed ==
    /\ \/ slot' = slot
       \/ \E t \in Restarters : RestartInstall(t)
       \/ \E r \in Requesters : GrowOneStore(r)
       \/ \E g \in Growers : GrowStore(g)
    /\ \/ active' = active
       \/ \E r \in Requesters : GrowOnePublish(r)
       \/ \E g \in Growers : GrowPublish(g)
    /\ \/ slotLock' = slotLock
       \/ \E t \in Restarters :
             RestartBegin(t) \/ SpawnFails(t) \/ ReplayFails(t) \/ RestartInstall(t)
    /\ \/ bootstraps' = bootstraps
       \/ \E b \in Broadcasters : BroadcastEnd(b)
    /\ \/ state' = state
       \/ \E z \in Closers : CloseStart(z) \/ Halt(z) \/ StopAll(z)

\* Between two states: by which action u has left where it was.
Departed(u) ==
    /\ th[u].pc = "install" =>
          th'[u] = th[u] \/ (u \in Restarters /\ (RestartInstall(u) \/ ReplayFails(u)))
    /\ th[u].pc = "store" =>
          \/ th'[u] = th[u]
          \/ u \in Requesters /\ (GrowOneStore(u) \/ GrowOneFails(u))
          \/ u \in Growers /\ (GrowStore(u) \/ GrowFails(u))
    /\ th[u].pc = "publish" =>
          \/ th'[u] = th[u]
          \/ u \in Requesters /\ GrowOnePublish(u)
          \/ u \in Growers /\ GrowPublish(u)
    /\ u \in Closers /\ th[u].pc \in {"idle", "done"} =>
          th'[u] = th[u] \/ CloseStart(u) \/ th'[u].pc = "done"

(***************************************************************************)
(* A step of t that begins outside the critical parts leaves none of them. *)
(***************************************************************************)
LEMMA OthersDeparted ==
    ASSUME NEW t, Others(t),
           th[t].pc \notin {"install", "store", "publish"},
           t \in Closers => th[t].pc \notin {"idle", "done"}
    PROVE  \A u \in Threads : Departed(u)
BY DEF Others, Departed

\* LeftActive and TeamActive in the next state, before active_workers has grown.
LeftBelow == \A u \in Restarters : \A i \in th'[u].left : i < active
TeamKnown ==
    \A u \in Restarters : \A m \in th'[u].team : m[1] < active /\ m[2] \in 1..Len(workers)

(***************************************************************************)
(* The growth that holds the lock is the only one that publishes.          *)
(***************************************************************************)
LEMMA OnePublisher ==
    ASSUME Inv, NEW t \in AddWorkers, HoldsGrowth(t), NEW u \in Restarters, th[u].pc = "publish"
    PROVE  u = t
BY ThreadKinds DEF Inv, GrowthHeld, HoldsGrowth, AddWorkers, Restarters

(***************************************************************************)
(* Workers are never removed and keep their slot, a stopped or failed      *)
(* worker never runs again, and only the steps named in WorkersChanged add *)
(* workers, change what they have applied or stop them.                    *)
(***************************************************************************)
LEMMA WorkersStep ==
    ASSUME Inv, [Next]_vars
    PROVE  (Grows /\ WorkersChanged)
<1> PoolType /\ Locals /\ TeamActive  BY DEF Inv
<1>1. ASSUME NEW t \in Restarters, ScanLive(t) PROVE (Grows /\ WorkersChanged)
  BY <1>1, SameGrows DEF ScanLive, pool, vars, WorkersChanged
<1>2. ASSUME NEW t \in Restarters, ScanDead(t) PROVE (Grows /\ WorkersChanged)
  BY <1>2, SameGrows DEF ScanDead, pool, vars, WorkersChanged
<1>3. ASSUME NEW t \in Restarters, RestartReuse(t) PROVE (Grows /\ WorkersChanged)
  BY <1>3, SameGrows DEF RestartReuse, pool, vars, WorkersChanged
<1>4. ASSUME NEW t \in Restarters, RestartBegin(t) PROVE (Grows /\ WorkersChanged)
  <2>1. Grows /\ SameLength /\ SameApplied
    BY <1>4, StoppedGrows DEF RestartBegin
  <2> QED  BY <1>4, <2>1 DEF WorkersChanged
<1>5. ASSUME NEW t \in Restarters, RestartSpawn(t) PROVE (Grows /\ WorkersChanged)
  <2>1. th[t].idx \in Slots
    BY ThreadKinds DEF Locals
  <2>2. Grows /\ SameApplied /\ NoneStopped
    BY <2>1, <1>5, SpawnedGrows DEF RestartSpawn
  <2> QED  BY <1>5, <2>2 DEF WorkersChanged
<1>6. ASSUME NEW t \in Restarters, SpawnFails(t) PROVE (Grows /\ WorkersChanged)
  BY <1>6, SameGrows DEF SpawnFails, pool, vars, WorkersChanged
<1>7. ASSUME NEW t \in Restarters, ReplayFails(t) PROVE (Grows /\ WorkersChanged)
  <2>1. Grows /\ SameLength /\ SameApplied
    BY <1>7, StoppedGrows DEF ReplayFails
  <2> QED  BY <1>7, <2>1 DEF WorkersChanged
<1>8. ASSUME NEW t \in Restarters, RestartInstall(t) PROVE (Grows /\ WorkersChanged)
  BY <1>8, SameGrows DEF RestartInstall, pool, vars, WorkersChanged
<1>9. ASSUME NEW t \in Restarters,
         RecoverSkip(t) \/ Recover(t) \/ RecoverMatch(t)
      PROVE  (Grows /\ WorkersChanged)
  BY <1>9, SameGrows DEF RecoverSkip, Recover, RecoverMatch, pool, vars, WorkersChanged
<1>10. ASSUME NEW t \in Restarters, Release(t) PROVE (Grows /\ WorkersChanged)
  BY <1>10, LoadedGrows DEF Release, pool, vars, WorkersChanged
<1>11. ASSUME NEW r \in Requesters,
         RequestRefused(r) \/ RequestStart(r) \/ NoneFound(r) \/ TryGrow(r)
      PROVE  (Grows /\ WorkersChanged)
  BY <1>11, SameGrows
    DEF RequestRefused, RequestStart, NoneFound, TryGrow, pool, vars, WorkersChanged
<1>12. ASSUME NEW r \in Requesters, GrowOne(r) PROVE (Grows /\ WorkersChanged)
  <2>1. active < Capacity /\ active \in Slots
    BY <1>12, ThreadKinds, Capacities, TopLimit
      DEF HoldsGrowth, AddWorkers, GrowOne, At, PoolType, Slots, Top
  <2>2. Grows /\ SameApplied /\ NoneStopped
    BY <2>1, <1>12, SpawnedGrows DEF GrowOne
  <2> QED  BY <1>12, <2>2 DEF WorkersChanged
<1>13. ASSUME NEW r \in Requesters, GrowOneFails(r) PROVE (Grows /\ WorkersChanged)
  <2>1. Grows /\ SameLength /\ SameApplied
    BY <1>13, StoppedGrows DEF GrowOneFails
  <2> QED  BY <1>13, <2>1 DEF WorkersChanged
<1>14. ASSUME NEW r \in Requesters,
         GrowOneStore(r) \/ GrowOnePublish(r) \/ KeepPick(r)
      PROVE  (Grows /\ WorkersChanged)
  BY <1>14, SameGrows DEF GrowOneStore, GrowOnePublish, KeepPick, pool, vars, WorkersChanged
<1>15. ASSUME NEW r \in Requesters, Reserve(r) PROVE (Grows /\ WorkersChanged)
  BY <1>15, LoadedGrows DEF Reserve, pool, vars, WorkersChanged
<1>16. ASSUME NEW r \in Requesters, ReserveChecked(r) PROVE (Grows /\ WorkersChanged)
  BY <1>16, SameGrows DEF ReserveChecked, pool, vars, WorkersChanged
<1>17. ASSUME NEW r \in Requesters, ReserveDropped(r) PROVE (Grows /\ WorkersChanged)
  BY <1>17, LoadedGrows DEF ReserveDropped, pool, vars, WorkersChanged
<1>18. ASSUME NEW r \in Requesters,
         ExchangeOk(r) \/ ExchangeFails(r)
      PROVE  (Grows /\ WorkersChanged)
  BY <1>18, SameGrows DEF ExchangeOk, ExchangeFails, pool, vars, WorkersChanged
<1>19. ASSUME NEW b \in Broadcasters,
         BroadcastRefused(b) \/ BroadcastStart(b) \/ BroadcastLock(b)
      PROVE  (Grows /\ WorkersChanged)
  BY <1>19, SameGrows
    DEF BroadcastRefused, BroadcastStart, BroadcastLock, pool, vars, WorkersChanged
<1>20. ASSUME NEW b \in Broadcasters, BroadcastSpread(b) PROVE (Grows /\ WorkersChanged)
  BY <1>20, LoadedGrows DEF BroadcastSpread, pool, vars, WorkersChanged
<1>21. ASSUME NEW b \in Broadcasters, BroadcastAnswered(b) PROVE (Grows /\ WorkersChanged)
  <2>1. \A m \in th[b].team : m[2] \in 1..Len(workers)
    BY ThreadKinds DEF TeamActive
  <2>2. Grows /\ SameLength /\ NoneStopped
    BY <2>1, <1>21, AppliedGrows DEF BroadcastAnswered
  <2> QED  BY <1>21, <2>2 DEF WorkersChanged
<1>22. ASSUME NEW b \in Broadcasters, BroadcastFailed(b) PROVE (Grows /\ WorkersChanged)
  <2>1. \A m \in th[b].team : m[2] \in 1..Len(workers)
    BY ThreadKinds DEF TeamActive
  <2>2. Grows /\ SameLength /\ NoneStopped
    BY <2>1, <1>22, AppliedGrows, SameGrows DEF BroadcastFailed
  <2> QED  BY <1>22, <2>2 DEF WorkersChanged
<1>23. ASSUME NEW b \in Broadcasters, BroadcastJoin(b) PROVE (Grows /\ WorkersChanged)
  BY <1>23, SameGrows DEF BroadcastJoin, pool, vars, WorkersChanged
<1>24. ASSUME NEW b \in Broadcasters, BroadcastSettle(b) PROVE (Grows /\ WorkersChanged)
  BY <1>24, SameGrows DEF BroadcastSettle, pool, vars, WorkersChanged
<1>25. ASSUME NEW b \in Broadcasters, BroadcastEnd(b) PROVE (Grows /\ WorkersChanged)
  BY <1>25, SameGrows DEF BroadcastEnd, pool, vars, WorkersChanged
<1>26. ASSUME NEW g \in Growers,
         PrepareSkip(g) \/ PrepareStart(g) \/ PrepareFails(g) \/ GrowLock(g)
      PROVE  (Grows /\ WorkersChanged)
  BY <1>26, SameGrows
    DEF PrepareSkip, PrepareStart, PrepareFails, GrowLock, pool, vars, WorkersChanged
<1>27. ASSUME NEW g \in Growers, GrowSpawn(g) PROVE (Grows /\ WorkersChanged)
  <2>1. active < Target /\ active \in Nat /\ Target \in Nat /\ Target <= Capacity
    BY <1>27, ThreadKinds, Capacities, TopLimit, PoolAssumption
      DEF HoldsGrowth, AddWorkers, GrowSpawn, At, Top, PoolType
  <2>2. Target - active \in Nat /\ active + (Target - active) <= Capacity
    BY <2>1, Capacities
  <2>3. Grows /\ SameApplied /\ NoneStopped
    BY <2>2, <1>27, AddedGrows DEF GrowSpawn
  <2> QED  BY <1>27, <2>3 DEF WorkersChanged
<1>28. ASSUME NEW g \in Growers, GrowFails(g) PROVE (Grows /\ WorkersChanged)
  <2>1. Grows /\ SameLength /\ SameApplied
    BY <1>28, StoppedGrows DEF GrowFails
  <2> QED  BY <1>28, <2>1 DEF WorkersChanged
<1>29. ASSUME NEW g \in Growers,
         GrowStore(g) \/ GrowPublish(g)
      PROVE  (Grows /\ WorkersChanged)
  BY <1>29, SameGrows DEF GrowStore, GrowPublish, pool, vars, WorkersChanged
<1>30. ASSUME NEW z \in Closers,
         CloseSkip(z) \/ CloseStart(z) \/ CloseLock(z) \/ Gather(z) \/ Drained(z)
      PROVE  (Grows /\ WorkersChanged)
  BY <1>30, SameGrows
    DEF CloseSkip, CloseStart, CloseLock, Gather, Drained, pool, vars, WorkersChanged
<1>31. ASSUME NEW z \in Closers, Collect(z) PROVE (Grows /\ WorkersChanged)
  <2>1. Grows /\ SameLength /\ SameApplied
    BY <1>31, StoppedGrows DEF Collect
  <2> QED  BY <1>31, <2>1 DEF WorkersChanged
<1>32. ASSUME NEW z \in Closers,
         CollectSkip(z) \/ Reduce(z) \/ Halt(z) \/ Sweep(z)
      PROVE  (Grows /\ WorkersChanged)
  BY <1>32, SameGrows DEF CollectSkip, Reduce, Halt, Sweep, pool, vars, WorkersChanged
<1>33. ASSUME NEW z \in Closers, StopAll(z) PROVE (Grows /\ WorkersChanged)
  <2>1. Grows /\ SameLength /\ SameApplied
    BY <1>33, StoppedGrows DEF StopAll
  <2> QED  BY <1>33, <2>1 DEF WorkersChanged
<1>34. CASE Crash
  BY <1>34, FailedGrows DEF Crash, pool, vars, WorkersChanged
<1>35. CASE Finished \/ UNCHANGED vars
  BY <1>35, SameGrows DEF Finished, vars, pool, vars, WorkersChanged
<1> QED
  BY <1>1, <1>2, <1>3, <1>4, <1>5, <1>6, <1>7, <1>8, <1>9, <1>10, <1>11, <1>12, <1>13, <1>14,
       <1>15, <1>16, <1>17, <1>18, <1>19, <1>20, <1>21, <1>22, <1>23, <1>24, <1>25, <1>26,
       <1>27, <1>28, <1>29, <1>30, <1>31, <1>32, <1>33, <1>34, <1>35
    DEF Next, RestartStep, RecoverStep, RequestStep, BroadcastStep, GrowStep, CloseStep,
       Restarters

(***************************************************************************)
(* The locals keep their fields.                                           *)
(***************************************************************************)
LEMMA ShapeStep ==
    ASSUME Inv, [Next]_vars
    PROVE  Shape'
<1> Shape  BY DEF Inv
<1> USE DEF Shape, Goto, Restarted, NotRestarted, Found, NotFound, Recovered
<1>1. ASSUME NEW t \in Restarters, ScanLive(t) PROVE Shape'
  BY <1>1, ThreadKinds DEF ScanLive
<1>2. ASSUME NEW t \in Restarters, ScanDead(t) PROVE Shape'
  BY <1>2, ThreadKinds DEF ScanDead
<1>3. ASSUME NEW t \in Restarters, RestartReuse(t) PROVE Shape'
  BY <1>3, ThreadKinds DEF RestartReuse
<1>4. ASSUME NEW t \in Restarters,
         RestartBegin(t) \/ RestartSpawn(t)
      PROVE  Shape'
  BY <1>4, ThreadKinds DEF RestartBegin, RestartSpawn
<1>5. ASSUME NEW t \in Restarters, SpawnFails(t) PROVE Shape'
  <2>1. CASE th[t].back = "scan"
    BY <1>5, <2>1, ThreadKinds DEF SpawnFails
  <2>2. CASE th[t].back # "scan"
    BY <1>5, <2>2, ThreadKinds DEF SpawnFails
  <2> QED  BY <2>1, <2>2
<1>6. ASSUME NEW t \in Restarters, ReplayFails(t) PROVE Shape'
  <2>1. CASE th[t].back = "scan"
    BY <1>6, <2>1, ThreadKinds DEF ReplayFails
  <2>2. CASE th[t].back # "scan"
    BY <1>6, <2>2, ThreadKinds DEF ReplayFails
  <2> QED  BY <2>1, <2>2
<1>7. ASSUME NEW t \in Restarters, RestartInstall(t) PROVE Shape'
  BY <1>7, ThreadKinds DEF RestartInstall
<1>8. ASSUME NEW t \in Restarters,
         RecoverSkip(t) \/ Recover(t) \/ RecoverMatch(t) \/ Release(t)
      PROVE  Shape'
  BY <1>8, ThreadKinds DEF RecoverSkip, Recover, RecoverMatch, Release
<1>9. ASSUME NEW r \in Requesters,
         RequestRefused(r) \/ RequestStart(r) \/ NoneFound(r) \/ TryGrow(r) \/ GrowOne(r)
         \/ GrowOneFails(r)
      PROVE  Shape'
  BY <1>9, ThreadKinds
    DEF RequestRefused, RequestStart, NoneFound, TryGrow, GrowOne, GrowOneFails
<1>10. ASSUME NEW r \in Requesters,
         GrowOneStore(r) \/ GrowOnePublish(r) \/ KeepPick(r) \/ Reserve(r)
         \/ ReserveChecked(r) \/ ReserveDropped(r)
      PROVE  Shape'
  BY <1>10, ThreadKinds
    DEF GrowOneStore, GrowOnePublish, KeepPick, Reserve, ReserveChecked, ReserveDropped
<1>11. ASSUME NEW r \in Requesters,
         ExchangeOk(r) \/ ExchangeFails(r)
      PROVE  Shape'
  BY <1>11, ThreadKinds DEF ExchangeOk, ExchangeFails
<1>12. ASSUME NEW b \in Broadcasters,
         BroadcastRefused(b) \/ BroadcastStart(b) \/ BroadcastLock(b) \/ BroadcastSpread(b)
      PROVE  Shape'
  BY <1>12, ThreadKinds DEF BroadcastRefused, BroadcastStart, BroadcastLock, BroadcastSpread
<1>13. ASSUME NEW b \in Broadcasters, BroadcastAnswered(b) PROVE Shape'
  BY <1>13, ThreadKinds DEF BroadcastAnswered
<1>14. ASSUME NEW b \in Broadcasters, BroadcastFailed(b) PROVE Shape'
  BY <1>14, ThreadKinds DEF BroadcastFailed
<1>15. ASSUME NEW b \in Broadcasters, BroadcastJoin(b) PROVE Shape'
  BY <1>15, ThreadKinds DEF BroadcastJoin
<1>16. ASSUME NEW b \in Broadcasters, BroadcastSettle(b) PROVE Shape'
  BY <1>16, ThreadKinds DEF BroadcastSettle
<1>17. ASSUME NEW b \in Broadcasters, BroadcastEnd(b) PROVE Shape'
  BY <1>17, ThreadKinds DEF BroadcastEnd
<1>18. ASSUME NEW g \in Growers,
         PrepareSkip(g) \/ PrepareStart(g) \/ PrepareFails(g) \/ GrowLock(g) \/ GrowSpawn(g)
         \/ GrowFails(g)
      PROVE  Shape'
  BY <1>18, ThreadKinds
    DEF PrepareSkip, PrepareStart, PrepareFails, GrowLock, GrowSpawn, GrowFails
<1>19. ASSUME NEW g \in Growers,
         GrowStore(g) \/ GrowPublish(g)
      PROVE  Shape'
  BY <1>19, ThreadKinds DEF GrowStore, GrowPublish
<1>20. ASSUME NEW z \in Closers,
         CloseSkip(z) \/ CloseStart(z) \/ CloseLock(z) \/ Gather(z) \/ Drained(z)
         \/ Collect(z)
      PROVE  Shape'
  BY <1>20, ThreadKinds DEF CloseSkip, CloseStart, CloseLock, Gather, Drained, Collect
<1>21. ASSUME NEW z \in Closers,
         CollectSkip(z) \/ Reduce(z) \/ Halt(z) \/ Sweep(z) \/ StopAll(z)
      PROVE  Shape'
  BY <1>21, ThreadKinds DEF CollectSkip, Reduce, Halt, Sweep, StopAll
<1>22. CASE Crash
  BY <1>22, ThreadKinds DEF Crash
<1>23. CASE Finished \/ UNCHANGED vars
  BY <1>23, ThreadKinds DEF Finished, vars
<1> QED
  BY <1>1, <1>2, <1>3, <1>4, <1>5, <1>6, <1>7, <1>8, <1>9, <1>10, <1>11, <1>12, <1>13, <1>14,
       <1>15, <1>16, <1>17, <1>18, <1>19, <1>20, <1>21, <1>22, <1>23
    DEF Next, RestartStep, RecoverStep, RequestStep, BroadcastStep, GrowStep, CloseStep,
       Restarters

(***************************************************************************)
(* The slots, the locks, active_workers, the bootstraps and the workers    *)
(* keep their types.                                                       *)
(***************************************************************************)
LEMMA PoolTypeStep ==
    ASSUME Inv, [Next]_vars
    PROVE  PoolType'
<1> PoolType /\ InHand /\ GrowthInHand  BY DEF Inv
<1> Grows  BY WorkersStep
<1> USE DEF PoolType, Grows, pool, Record
<1>1. ASSUME NEW t \in Restarters, ScanLive(t) PROVE PoolType'
  BY <1>1, ThreadKinds DEF ScanLive
<1>2. ASSUME NEW t \in Restarters, ScanDead(t) PROVE PoolType'
  BY <1>2, ThreadKinds DEF ScanDead
<1>3. ASSUME NEW t \in Restarters, RestartReuse(t) PROVE PoolType'
  BY <1>3, ThreadKinds DEF RestartReuse
<1>4. ASSUME NEW t \in Restarters, RestartBegin(t) PROVE PoolType'
  BY <1>4, ThreadKinds DEF RestartBegin
<1>5. ASSUME NEW t \in Restarters,
         RestartSpawn(t) \/ SpawnFails(t)
      PROVE  PoolType'
  BY <1>5, ThreadKinds DEF RestartSpawn, SpawnFails
<1>6. ASSUME NEW t \in Restarters, ReplayFails(t) PROVE PoolType'
  BY <1>6, ThreadKinds DEF ReplayFails
<1>7. ASSUME NEW t \in Restarters, RestartInstall(t) PROVE PoolType'
  <2>1. \A w \in th[t].new : w \in Nat
    BY <1>7, ThreadKinds DEF RestartInstall, At, InHand
  <2> QED  BY <2>1, <1>7, ThreadKinds DEF RestartInstall
<1>8. ASSUME NEW t \in Restarters,
         RecoverSkip(t) \/ Recover(t) \/ RecoverMatch(t) \/ Release(t)
      PROVE  PoolType'
  BY <1>8, ThreadKinds DEF RecoverSkip, Recover, RecoverMatch, Release
<1>9. ASSUME NEW r \in Requesters,
         RequestRefused(r) \/ RequestStart(r) \/ NoneFound(r) \/ TryGrow(r) \/ GrowOne(r)
         \/ GrowOneFails(r)
      PROVE  PoolType'
  BY <1>9, ThreadKinds
    DEF RequestRefused, RequestStart, NoneFound, TryGrow, GrowOne, GrowOneFails
<1>10. ASSUME NEW r \in Requesters, GrowOneStore(r) PROVE PoolType'
  <2>1. \A w \in th[r].new : w \in Nat
    BY <1>10, ThreadKinds DEF GrowOneStore, At, GrowthInHand
  <2> QED  BY <2>1, <1>10, ThreadKinds DEF GrowOneStore
<1>11. ASSUME NEW r \in Requesters, GrowOnePublish(r) PROVE PoolType'
  <2>1. active + 1 <= Capacity /\ active \in Nat /\ Capacity \in Nat
    BY <1>11, ThreadKinds, Capacities, TopLimit DEF HoldsGrowth, Top, GrowOnePublish, At
  <2>2. active + 1 \in 1..Capacity
    BY <2>1
  <2> QED  BY <2>2, <1>11, ThreadKinds DEF GrowOnePublish
<1>12. ASSUME NEW r \in Requesters,
         KeepPick(r) \/ Reserve(r) \/ ReserveChecked(r) \/ ReserveDropped(r)
         \/ ExchangeOk(r) \/ ExchangeFails(r)
      PROVE  PoolType'
  BY <1>12, ThreadKinds
    DEF KeepPick, Reserve, ReserveChecked, ReserveDropped, ExchangeOk, ExchangeFails
<1>13. ASSUME NEW b \in Broadcasters,
         BroadcastRefused(b) \/ BroadcastStart(b) \/ BroadcastLock(b) \/ BroadcastSpread(b)
      PROVE  PoolType'
  BY <1>13, ThreadKinds DEF BroadcastRefused, BroadcastStart, BroadcastLock, BroadcastSpread
<1>14. ASSUME NEW b \in Broadcasters, BroadcastAnswered(b) PROVE PoolType'
  BY <1>14, ThreadKinds DEF BroadcastAnswered
<1>15. ASSUME NEW b \in Broadcasters, BroadcastFailed(b) PROVE PoolType'
  BY <1>15, ThreadKinds DEF BroadcastFailed
<1>16. ASSUME NEW b \in Broadcasters, BroadcastJoin(b) PROVE PoolType'
  BY <1>16, ThreadKinds DEF BroadcastJoin
<1>17. ASSUME NEW b \in Broadcasters, BroadcastSettle(b) PROVE PoolType'
  BY <1>17, ThreadKinds DEF BroadcastSettle
<1>18. ASSUME NEW b \in Broadcasters, BroadcastEnd(b) PROVE PoolType'
  BY <1>18, ThreadKinds DEF BroadcastEnd
<1>19. ASSUME NEW g \in Growers,
         PrepareSkip(g) \/ PrepareStart(g) \/ PrepareFails(g) \/ GrowLock(g) \/ GrowSpawn(g)
         \/ GrowFails(g)
      PROVE  PoolType'
  BY <1>19, ThreadKinds
    DEF PrepareSkip, PrepareStart, PrepareFails, GrowLock, GrowSpawn, GrowFails
<1>20. ASSUME NEW g \in Growers, GrowStore(g) PROVE PoolType'
  <2>1. th[g].new \subseteq Nat
    BY <1>20, ThreadKinds DEF GrowStore, At, GrowthInHand
  <2>2. ASSUME NEW i \in Slots, \E w \in th[g].new : workers[w].home = i
        PROVE  (CHOOSE w \in th[g].new : workers[w].home = i) \in Nat
    BY <2>1, <2>2
  <2>3. slot' \in [Slots -> Nat]
    BY <2>2, <1>20 DEF GrowStore
  <2> QED  BY <2>3, <1>20, ThreadKinds DEF GrowStore
<1>21. ASSUME NEW g \in Growers, GrowPublish(g) PROVE PoolType'
  <2>1. Target \in 1..Capacity
    BY <1>21, ThreadKinds, Capacities, TopLimit, PoolAssumption
      DEF HoldsGrowth, Top, GrowPublish, At
  <2> QED  BY <2>1, <1>21, ThreadKinds DEF GrowPublish
<1>22. ASSUME NEW z \in Closers,
         CloseSkip(z) \/ CloseStart(z) \/ CloseLock(z) \/ Gather(z) \/ Drained(z)
         \/ Collect(z)
      PROVE  PoolType'
  BY <1>22, ThreadKinds DEF CloseSkip, CloseStart, CloseLock, Gather, Drained, Collect
<1>23. ASSUME NEW z \in Closers,
         CollectSkip(z) \/ Reduce(z) \/ Halt(z) \/ Sweep(z) \/ StopAll(z)
      PROVE  PoolType'
  BY <1>23, ThreadKinds DEF CollectSkip, Reduce, Halt, Sweep, StopAll
<1>24. CASE Crash
  BY <1>24, ThreadKinds DEF Crash
<1>25. CASE Finished \/ UNCHANGED vars
  BY <1>25, ThreadKinds DEF Finished, vars
<1> QED
  BY <1>1, <1>2, <1>3, <1>4, <1>5, <1>6, <1>7, <1>8, <1>9, <1>10, <1>11, <1>12, <1>13, <1>14,
       <1>15, <1>16, <1>17, <1>18, <1>19, <1>20, <1>21, <1>22, <1>23, <1>24, <1>25
    DEF Next, RestartStep, RecoverStep, RequestStep, BroadcastStep, GrowStep, CloseStep,
       Restarters

(***************************************************************************)
(* The locals keep their types.                                            *)
(***************************************************************************)
LEMMA LocalsStep ==
    ASSUME Inv, [Next]_vars
    PROVE  Locals'
<1> PoolType /\ Shape /\ Locals /\ InHand  BY DEF Inv
<1> USE DEF Locals, Shape, Goto
<1>1. ASSUME NEW t \in Restarters, ScanLive(t) PROVE Locals'
  <2>1. PICK i \in th[t].left : i \in Slots /\ slot[i] \in Nat /\ Found(t, i, slot[i])
    BY <1>1, ThreadKinds DEF ScanLive, PoolType
  <2> QED  BY <2>1, ThreadKinds, FoundFields DEF Others
<1>2. ASSUME NEW t \in Restarters, ScanDead(t) PROVE Locals'
  BY <1>2, ThreadKinds DEF ScanDead
<1>3. ASSUME NEW t \in Restarters, RestartReuse(t) PROVE Locals'
  <2>1. slot[th[t].idx] \in Nat /\ Restarted(t, slot[th[t].idx])
    BY <1>3, ThreadKinds DEF RestartReuse, PoolType
  <2> QED  BY <2>1, ThreadKinds, RestartedFields DEF Others
<1>4. ASSUME NEW t \in Restarters, RestartBegin(t) PROVE Locals'
  BY <1>4, ThreadKinds DEF RestartBegin
<1>5. ASSUME NEW t \in Restarters, RestartSpawn(t) PROVE Locals'
  BY <1>5, ThreadKinds DEF RestartSpawn
<1>6. ASSUME NEW t \in Restarters, SpawnFails(t) PROVE Locals'
  BY <1>6, ThreadKinds, NotRestartedFields DEF SpawnFails, Others
<1>7. ASSUME NEW t \in Restarters, ReplayFails(t) PROVE Locals'
  BY <1>7, ThreadKinds, NotRestartedFields DEF ReplayFails, Others
<1>8. ASSUME NEW t \in Restarters, RestartInstall(t) PROVE Locals'
  <2>1. PICK w \in th[t].new : w \in Nat /\ Restarted(t, w)
    BY <1>8, ThreadKinds DEF RestartInstall, At, InHand
  <2> QED  BY <2>1, ThreadKinds, RestartedFields DEF Others
<1>9. ASSUME NEW t \in Restarters, RecoverSkip(t) PROVE Locals'
  BY <1>9, ThreadKinds DEF RecoverSkip
<1>10. ASSUME NEW t \in Restarters, Recover(t) PROVE Locals'
  BY <1>10, ThreadKinds DEF Recover
<1>11. ASSUME NEW t \in Restarters, RecoverMatch(t) PROVE Locals'
  BY <1>11, ThreadKinds DEF RecoverMatch
<1>12. ASSUME NEW t \in Restarters, Release(t) PROVE Locals'
  BY <1>12, ThreadKinds DEF Release
<1>13. ASSUME NEW r \in Requesters, RequestRefused(r) PROVE Locals'
  BY <1>13, ThreadKinds DEF RequestRefused
<1>14. ASSUME NEW r \in Requesters, RequestStart(r) PROVE Locals'
  BY <1>14, ThreadKinds, ActiveRange DEF RequestStart
<1>15. ASSUME NEW r \in Requesters, NoneFound(r) PROVE Locals'
  BY <1>15, ThreadKinds DEF NoneFound
<1>16. ASSUME NEW r \in Requesters, TryGrow(r) PROVE Locals'
  BY <1>16, ThreadKinds DEF TryGrow
<1>17. ASSUME NEW r \in Requesters, GrowOne(r) PROVE Locals'
  BY <1>17, ThreadKinds DEF GrowOne
<1>18. ASSUME NEW r \in Requesters, GrowOneFails(r) PROVE Locals'
  BY <1>18, ThreadKinds DEF GrowOneFails
<1>19. ASSUME NEW r \in Requesters, GrowOneStore(r) PROVE Locals'
  BY <1>19, ThreadKinds DEF GrowOneStore
<1>20. ASSUME NEW r \in Requesters, GrowOnePublish(r) PROVE Locals'
  BY <1>20, ThreadKinds DEF GrowOnePublish
<1>21. ASSUME NEW r \in Requesters, KeepPick(r) PROVE Locals'
  BY <1>21, ThreadKinds DEF KeepPick
<1>22. ASSUME NEW r \in Requesters, Reserve(r) PROVE Locals'
  BY <1>22, ThreadKinds DEF Reserve
<1>23. ASSUME NEW r \in Requesters, ReserveChecked(r) PROVE Locals'
  BY <1>23, ThreadKinds DEF ReserveChecked
<1>24. ASSUME NEW r \in Requesters, ReserveDropped(r) PROVE Locals'
  BY <1>24, ThreadKinds DEF ReserveDropped
<1>25. ASSUME NEW r \in Requesters, ExchangeOk(r) PROVE Locals'
  BY <1>25, ThreadKinds DEF ExchangeOk
<1>26. ASSUME NEW r \in Requesters, ExchangeFails(r) PROVE Locals'
  BY <1>26, ThreadKinds DEF ExchangeFails
<1>27. ASSUME NEW b \in Broadcasters, BroadcastRefused(b) PROVE Locals'
  BY <1>27, ThreadKinds DEF BroadcastRefused
<1>28. ASSUME NEW b \in Broadcasters, BroadcastStart(b) PROVE Locals'
  BY <1>28, ThreadKinds DEF BroadcastStart
<1>29. ASSUME NEW b \in Broadcasters, BroadcastLock(b) PROVE Locals'
  <2>1. CASE state = "running"
    <3>1. th' = [th EXCEPT ![b].pc = "scan", ![b].left = 0..(active - 1)]
      BY <1>29, <2>1 DEF BroadcastLock
    <3> QED  BY <3>1, ThreadKinds, ActiveRange
  <2>2. CASE state # "running"
    <3>1. th' = [th EXCEPT ![b].pc = "done"]
      BY <1>29, <2>2 DEF BroadcastLock
    <3> QED  BY <3>1, ThreadKinds
  <2> QED  BY <2>1, <2>2
<1>30. ASSUME NEW b \in Broadcasters, BroadcastSpread(b) PROVE Locals'
  BY <1>30, ThreadKinds DEF BroadcastSpread
<1>31. ASSUME NEW b \in Broadcasters, BroadcastAnswered(b) PROVE Locals'
  BY <1>31, ThreadKinds DEF BroadcastAnswered
<1>32. ASSUME NEW b \in Broadcasters, BroadcastFailed(b) PROVE Locals'
  BY <1>32, ThreadKinds DEF BroadcastFailed
<1>33. ASSUME NEW b \in Broadcasters, BroadcastJoin(b) PROVE Locals'
  BY <1>33, ThreadKinds DEF BroadcastJoin
<1>34. ASSUME NEW b \in Broadcasters, BroadcastSettle(b) PROVE Locals'
  BY <1>34, ThreadKinds DEF BroadcastSettle
<1>35. ASSUME NEW b \in Broadcasters, BroadcastEnd(b) PROVE Locals'
  BY <1>35, ThreadKinds DEF BroadcastEnd
<1>36. ASSUME NEW g \in Growers, PrepareSkip(g) PROVE Locals'
  BY <1>36, ThreadKinds DEF PrepareSkip
<1>37. ASSUME NEW g \in Growers, PrepareStart(g) PROVE Locals'
  BY <1>37, ThreadKinds DEF PrepareStart
<1>38. ASSUME NEW g \in Growers, PrepareFails(g) PROVE Locals'
  BY <1>38, ThreadKinds DEF PrepareFails
<1>39. ASSUME NEW g \in Growers, GrowLock(g) PROVE Locals'
  BY <1>39, ThreadKinds DEF GrowLock
<1>40. ASSUME NEW g \in Growers, GrowSpawn(g) PROVE Locals'
  BY <1>40, ThreadKinds DEF GrowSpawn
<1>41. ASSUME NEW g \in Growers, GrowFails(g) PROVE Locals'
  BY <1>41, ThreadKinds DEF GrowFails
<1>42. ASSUME NEW g \in Growers, GrowStore(g) PROVE Locals'
  BY <1>42, ThreadKinds DEF GrowStore
<1>43. ASSUME NEW g \in Growers, GrowPublish(g) PROVE Locals'
  BY <1>43, ThreadKinds DEF GrowPublish
<1>44. ASSUME NEW z \in Closers, CloseSkip(z) PROVE Locals'
  BY <1>44, ThreadKinds DEF CloseSkip
<1>45. ASSUME NEW z \in Closers, CloseStart(z) PROVE Locals'
  BY <1>45, ThreadKinds DEF CloseStart
<1>46. ASSUME NEW z \in Closers, CloseLock(z) PROVE Locals'
  BY <1>46, ThreadKinds, ActiveRange DEF CloseLock
<1>47. ASSUME NEW z \in Closers, Gather(z) PROVE Locals'
  BY <1>47, ThreadKinds DEF Gather
<1>48. ASSUME NEW z \in Closers, Drained(z) PROVE Locals'
  BY <1>48, ThreadKinds DEF Drained
<1>49. ASSUME NEW z \in Closers, Collect(z) PROVE Locals'
  BY <1>49, ThreadKinds DEF Collect
<1>50. ASSUME NEW z \in Closers, CollectSkip(z) PROVE Locals'
  BY <1>50, ThreadKinds DEF CollectSkip
<1>51. ASSUME NEW z \in Closers, Reduce(z) PROVE Locals'
  BY <1>51, ThreadKinds DEF Reduce
<1>52. ASSUME NEW z \in Closers, Halt(z) PROVE Locals'
  BY <1>52, ThreadKinds DEF Halt
<1>53. ASSUME NEW z \in Closers, Sweep(z) PROVE Locals'
  BY <1>53, ThreadKinds DEF Sweep
<1>54. ASSUME NEW z \in Closers, StopAll(z) PROVE Locals'
  BY <1>54, ThreadKinds DEF StopAll
<1>55. CASE Crash
  BY <1>55, ThreadKinds DEF Crash
<1>56. CASE Finished \/ UNCHANGED vars
  BY <1>56, ThreadKinds DEF Finished, vars
<1> QED
  BY <1>1, <1>2, <1>3, <1>4, <1>5, <1>6, <1>7, <1>8, <1>9, <1>10, <1>11, <1>12, <1>13, <1>14,
       <1>15, <1>16, <1>17, <1>18, <1>19, <1>20, <1>21, <1>22, <1>23, <1>24, <1>25, <1>26,
       <1>27, <1>28, <1>29, <1>30, <1>31, <1>32, <1>33, <1>34, <1>35, <1>36, <1>37, <1>38,
       <1>39, <1>40, <1>41, <1>42, <1>43, <1>44, <1>45, <1>46, <1>47, <1>48, <1>49, <1>50,
       <1>51, <1>52, <1>53, <1>54, <1>55, <1>56
    DEF Next, RestartStep, RecoverStep, RequestStep, BroadcastStep, GrowStep, CloseStep,
       Restarters

(***************************************************************************)
(* The growth lock: whoever grows, broadcasts or closes holds it until the *)
(* end, and nobody takes it from them.                                     *)
(***************************************************************************)
LEMMA GrowthHeldStep ==
    ASSUME Inv, [Next]_vars
    PROVE  GrowthHeld'
<1> PoolType /\ Shape /\ GrowthHeld  BY DEF Inv
<1> USE DEF PoolType, GrowthHeld, HoldsGrowth, Shape, Goto, At, pool, Restarters, AddWorkers
<1>1. ASSUME NEW t \in Restarters, ScanLive(t) PROVE GrowthHeld'
  <2>1. PICK i \in th[t].left : Found(t, i, slot[i])
    BY <1>1 DEF ScanLive
  <2> QED  BY <2>1, <1>1, ThreadKinds, KindsDisjoint, FoundFields DEF Others, ScanLive
<1>2. ASSUME NEW t \in Restarters, ScanDead(t) PROVE GrowthHeld'
  BY <1>2, ThreadKinds, KindsDisjoint DEF ScanDead
<1>3. ASSUME NEW t \in Restarters, RestartReuse(t) PROVE GrowthHeld'
  <2>1. Restarted(t, slot[th[t].idx])
    BY <1>3 DEF RestartReuse
  <2> QED  BY <2>1, <1>3, ThreadKinds, KindsDisjoint, RestartedFields DEF Others, RestartReuse
<1>4. ASSUME NEW t \in Restarters, RestartBegin(t) PROVE GrowthHeld'
  BY <1>4, ThreadKinds, KindsDisjoint DEF RestartBegin
<1>5. ASSUME NEW t \in Restarters, RestartSpawn(t) PROVE GrowthHeld'
  BY <1>5, ThreadKinds, KindsDisjoint DEF RestartSpawn
<1>6. ASSUME NEW t \in Restarters, SpawnFails(t) PROVE GrowthHeld'
  <2>1. NotRestarted(t) /\ growth' = growth
    BY <1>6 DEF SpawnFails
  <2>2. Others(t) /\ th'[t].pc \in {"scan", "release", "unlock"}
    BY <2>1, ThreadKinds, KindsDisjoint, NotRestartedFields
  <2>3. t \in Broadcasters => growth = t
    BY <1>6, ThreadKinds DEF SpawnFails
  <2>4. ASSUME NEW u \in Threads, HoldsGrowth(u)'
        PROVE  growth' = u
    BY <2>1, <2>2, <2>3, <2>4, ThreadKinds, KindsDisjoint DEF Others
  <2> QED  BY <2>4
<1>7. ASSUME NEW t \in Restarters, ReplayFails(t) PROVE GrowthHeld'
  <2>1. NotRestarted(t) /\ growth' = growth
    BY <1>7 DEF ReplayFails
  <2>2. Others(t) /\ th'[t].pc \in {"scan", "release", "unlock"}
    BY <2>1, ThreadKinds, KindsDisjoint, NotRestartedFields
  <2>3. t \in Broadcasters => growth = t
    BY <1>7, ThreadKinds DEF ReplayFails
  <2>4. ASSUME NEW u \in Threads, HoldsGrowth(u)'
        PROVE  growth' = u
    BY <2>1, <2>2, <2>3, <2>4, ThreadKinds, KindsDisjoint DEF Others
  <2> QED  BY <2>4
<1>8. ASSUME NEW t \in Restarters, RestartInstall(t) PROVE GrowthHeld'
  <2>1. PICK w \in th[t].new : Restarted(t, w)
    BY <1>8 DEF RestartInstall
  <2> QED  BY <2>1, <1>8, ThreadKinds, KindsDisjoint, RestartedFields DEF Others, RestartInstall
<1>9. ASSUME NEW t \in Restarters, RecoverSkip(t) PROVE GrowthHeld'
  BY <1>9, ThreadKinds, KindsDisjoint DEF RecoverSkip
<1>10. ASSUME NEW t \in Restarters, Recover(t) PROVE GrowthHeld'
  BY <1>10, ThreadKinds, KindsDisjoint DEF Recover
<1>11. ASSUME NEW t \in Restarters, RecoverMatch(t) PROVE GrowthHeld'
  BY <1>11, ThreadKinds, KindsDisjoint DEF RecoverMatch
<1>12. ASSUME NEW t \in Restarters, Release(t) PROVE GrowthHeld'
  BY <1>12, ThreadKinds, KindsDisjoint DEF Release
<1>13. ASSUME NEW r \in Requesters, RequestRefused(r) PROVE GrowthHeld'
  BY <1>13, ThreadKinds, KindsDisjoint DEF RequestRefused
<1>14. ASSUME NEW r \in Requesters, RequestStart(r) PROVE GrowthHeld'
  BY <1>14, ThreadKinds, KindsDisjoint DEF RequestStart
<1>15. ASSUME NEW r \in Requesters, NoneFound(r) PROVE GrowthHeld'
  BY <1>15, ThreadKinds, KindsDisjoint DEF NoneFound
<1>16. ASSUME NEW r \in Requesters, TryGrow(r) PROVE GrowthHeld'
  BY <1>16, ThreadKinds, KindsDisjoint DEF TryGrow
<1>17. ASSUME NEW r \in Requesters, GrowOne(r) PROVE GrowthHeld'
  BY <1>17, ThreadKinds, KindsDisjoint DEF GrowOne
<1>18. ASSUME NEW r \in Requesters, GrowOneFails(r) PROVE GrowthHeld'
  BY <1>18, ThreadKinds, KindsDisjoint DEF GrowOneFails
<1>19. ASSUME NEW r \in Requesters, GrowOneStore(r) PROVE GrowthHeld'
  BY <1>19, ThreadKinds, KindsDisjoint DEF GrowOneStore
<1>20. ASSUME NEW r \in Requesters, GrowOnePublish(r) PROVE GrowthHeld'
  BY <1>20, ThreadKinds, KindsDisjoint DEF GrowOnePublish
<1>21. ASSUME NEW r \in Requesters, KeepPick(r) PROVE GrowthHeld'
  BY <1>21, ThreadKinds, KindsDisjoint DEF KeepPick
<1>22. ASSUME NEW r \in Requesters, Reserve(r) PROVE GrowthHeld'
  BY <1>22, ThreadKinds, KindsDisjoint DEF Reserve
<1>23. ASSUME NEW r \in Requesters, ReserveChecked(r) PROVE GrowthHeld'
  BY <1>23, ThreadKinds, KindsDisjoint DEF ReserveChecked
<1>24. ASSUME NEW r \in Requesters, ReserveDropped(r) PROVE GrowthHeld'
  BY <1>24, ThreadKinds, KindsDisjoint DEF ReserveDropped
<1>25. ASSUME NEW r \in Requesters, ExchangeOk(r) PROVE GrowthHeld'
  BY <1>25, ThreadKinds, KindsDisjoint DEF ExchangeOk
<1>26. ASSUME NEW r \in Requesters, ExchangeFails(r) PROVE GrowthHeld'
  BY <1>26, ThreadKinds, KindsDisjoint DEF ExchangeFails
<1>27. ASSUME NEW b \in Broadcasters, BroadcastRefused(b) PROVE GrowthHeld'
  BY <1>27, ThreadKinds, KindsDisjoint DEF BroadcastRefused
<1>28. ASSUME NEW b \in Broadcasters, BroadcastStart(b) PROVE GrowthHeld'
  BY <1>28, ThreadKinds, KindsDisjoint DEF BroadcastStart
<1>29. ASSUME NEW b \in Broadcasters, BroadcastLock(b) PROVE GrowthHeld'
  <2>1. CASE state = "running"
    <3>1. th' = [th EXCEPT ![b].pc = "scan", ![b].left = 0..(active - 1)]
          /\ growth' = b /\ growth = Nobody
      BY <1>29, <2>1 DEF BroadcastLock
    <3> QED  BY <3>1, ThreadKinds, KindsDisjoint
  <2>2. CASE state # "running"
    <3>1. th' = [th EXCEPT ![b].pc = "done"] /\ growth' = growth
      BY <1>29, <2>2 DEF BroadcastLock
    <3> QED  BY <3>1, ThreadKinds, KindsDisjoint
  <2> QED  BY <2>1, <2>2
<1>30. ASSUME NEW b \in Broadcasters, BroadcastSpread(b) PROVE GrowthHeld'
  BY <1>30, ThreadKinds, KindsDisjoint DEF BroadcastSpread
<1>31. ASSUME NEW b \in Broadcasters, BroadcastAnswered(b) PROVE GrowthHeld'
  BY <1>31, ThreadKinds, KindsDisjoint DEF BroadcastAnswered
<1>32. ASSUME NEW b \in Broadcasters, BroadcastFailed(b) PROVE GrowthHeld'
  BY <1>32, ThreadKinds, KindsDisjoint DEF BroadcastFailed
<1>33. ASSUME NEW b \in Broadcasters, BroadcastJoin(b) PROVE GrowthHeld'
  BY <1>33, ThreadKinds, KindsDisjoint DEF BroadcastJoin
<1>34. ASSUME NEW b \in Broadcasters, BroadcastSettle(b) PROVE GrowthHeld'
  BY <1>34, ThreadKinds, KindsDisjoint DEF BroadcastSettle
<1>35. ASSUME NEW b \in Broadcasters, BroadcastEnd(b) PROVE GrowthHeld'
  BY <1>35, ThreadKinds, KindsDisjoint DEF BroadcastEnd
<1>36. ASSUME NEW g \in Growers, PrepareSkip(g) PROVE GrowthHeld'
  BY <1>36, ThreadKinds, KindsDisjoint DEF PrepareSkip
<1>37. ASSUME NEW g \in Growers, PrepareStart(g) PROVE GrowthHeld'
  BY <1>37, ThreadKinds, KindsDisjoint DEF PrepareStart
<1>38. ASSUME NEW g \in Growers, PrepareFails(g) PROVE GrowthHeld'
  BY <1>38, ThreadKinds, KindsDisjoint DEF PrepareFails
<1>39. ASSUME NEW g \in Growers, GrowLock(g) PROVE GrowthHeld'
  BY <1>39, ThreadKinds, KindsDisjoint DEF GrowLock
<1>40. ASSUME NEW g \in Growers, GrowSpawn(g) PROVE GrowthHeld'
  BY <1>40, ThreadKinds, KindsDisjoint DEF GrowSpawn
<1>41. ASSUME NEW g \in Growers, GrowFails(g) PROVE GrowthHeld'
  BY <1>41, ThreadKinds, KindsDisjoint DEF GrowFails
<1>42. ASSUME NEW g \in Growers, GrowStore(g) PROVE GrowthHeld'
  BY <1>42, ThreadKinds, KindsDisjoint DEF GrowStore
<1>43. ASSUME NEW g \in Growers, GrowPublish(g) PROVE GrowthHeld'
  BY <1>43, ThreadKinds, KindsDisjoint DEF GrowPublish
<1>44. ASSUME NEW z \in Closers, CloseSkip(z) PROVE GrowthHeld'
  BY <1>44, ThreadKinds, KindsDisjoint DEF CloseSkip
<1>45. ASSUME NEW z \in Closers, CloseStart(z) PROVE GrowthHeld'
  BY <1>45, ThreadKinds, KindsDisjoint DEF CloseStart
<1>46. ASSUME NEW z \in Closers, CloseLock(z) PROVE GrowthHeld'
  BY <1>46, ThreadKinds, KindsDisjoint DEF CloseLock
<1>47. ASSUME NEW z \in Closers, Gather(z) PROVE GrowthHeld'
  BY <1>47, ThreadKinds, KindsDisjoint DEF Gather
<1>48. ASSUME NEW z \in Closers, Drained(z) PROVE GrowthHeld'
  BY <1>48, ThreadKinds, KindsDisjoint DEF Drained
<1>49. ASSUME NEW z \in Closers, Collect(z) PROVE GrowthHeld'
  BY <1>49, ThreadKinds, KindsDisjoint DEF Collect
<1>50. ASSUME NEW z \in Closers, CollectSkip(z) PROVE GrowthHeld'
  BY <1>50, ThreadKinds, KindsDisjoint DEF CollectSkip
<1>51. ASSUME NEW z \in Closers, Reduce(z) PROVE GrowthHeld'
  BY <1>51, ThreadKinds, KindsDisjoint DEF Reduce
<1>52. ASSUME NEW z \in Closers, Halt(z) PROVE GrowthHeld'
  BY <1>52, ThreadKinds, KindsDisjoint DEF Halt
<1>53. ASSUME NEW z \in Closers, Sweep(z) PROVE GrowthHeld'
  BY <1>53, ThreadKinds, KindsDisjoint DEF Sweep
<1>54. ASSUME NEW z \in Closers, StopAll(z) PROVE GrowthHeld'
  BY <1>54, ThreadKinds, KindsDisjoint DEF StopAll
<1>55. CASE Crash
  BY <1>55, ThreadKinds, KindsDisjoint DEF Crash
<1>56. CASE Finished \/ UNCHANGED vars
  BY <1>56, ThreadKinds, KindsDisjoint DEF Finished, vars
<1> QED
  BY <1>1, <1>2, <1>3, <1>4, <1>5, <1>6, <1>7, <1>8, <1>9, <1>10, <1>11, <1>12, <1>13, <1>14,
       <1>15, <1>16, <1>17, <1>18, <1>19, <1>20, <1>21, <1>22, <1>23, <1>24, <1>25, <1>26,
       <1>27, <1>28, <1>29, <1>30, <1>31, <1>32, <1>33, <1>34, <1>35, <1>36, <1>37, <1>38,
       <1>39, <1>40, <1>41, <1>42, <1>43, <1>44, <1>45, <1>46, <1>47, <1>48, <1>49, <1>50,
       <1>51, <1>52, <1>53, <1>54, <1>55, <1>56
    DEF Next, RestartStep, RecoverStep, RequestStep, BroadcastStep, GrowStep, CloseStep,
       Restarters

(***************************************************************************)
(* A thread enters a critical part by the action that begins it.           *)
(***************************************************************************)
LEMMA EnteredStep ==
    ASSUME Inv, [Next]_vars
    PROVE  \A u \in Threads : Entered(u)
<1> Shape  BY DEF Inv
<1> USE DEF Others, Shape, Goto, At
<1>1. ASSUME NEW t \in Restarters, ScanLive(t) PROVE \A u \in Threads : Entered(u)
  <2>1. Others(t) /\ th'[t].pc \in Settled
    BY <1>1, ThreadKinds, FoundFields DEF ScanLive, Settled
  <2> QED  BY <2>1, SettledEntered
<1>2. ASSUME NEW t \in Restarters, ScanDead(t) PROVE \A u \in Threads : Entered(u)
  <2>1. Others(t) /\ th'[t].pc = "restart"
    BY <1>2, ThreadKinds DEF ScanDead
  <2> QED  BY <1>2, <2>1 DEF Others, Entered
<1>3. ASSUME NEW t \in Restarters, RestartReuse(t) PROVE \A u \in Threads : Entered(u)
  <2>1. Others(t) /\ th'[t].pc \in Settled
    BY <1>3, ThreadKinds, RestartedFields DEF RestartReuse, Settled
  <2> QED  BY <2>1, SettledEntered
<1>4. ASSUME NEW t \in Restarters, RestartBegin(t) PROVE \A u \in Threads : Entered(u)
  <2>1. Others(t) /\ th'[t].pc = "spawn"
    BY <1>4, ThreadKinds DEF RestartBegin
  <2> QED  BY <1>4, <2>1 DEF Others, Entered
<1>5. ASSUME NEW t \in Restarters, RestartSpawn(t) PROVE \A u \in Threads : Entered(u)
  <2>1. Others(t) /\ th'[t].pc = "install"
    BY <1>5, ThreadKinds DEF RestartSpawn
  <2> QED  BY <1>5, <2>1 DEF Others, Entered
<1>6. ASSUME NEW t \in Restarters, SpawnFails(t) PROVE \A u \in Threads : Entered(u)
  <2>1. Others(t) /\ th'[t].pc \in Settled
    BY <1>6, ThreadKinds, NotRestartedFields DEF SpawnFails, Settled
  <2> QED  BY <2>1, SettledEntered
<1>7. ASSUME NEW t \in Restarters, ReplayFails(t) PROVE \A u \in Threads : Entered(u)
  <2>1. Others(t) /\ th'[t].pc \in Settled
    BY <1>7, ThreadKinds, NotRestartedFields DEF ReplayFails, Settled
  <2> QED  BY <2>1, SettledEntered
<1>8. ASSUME NEW t \in Restarters, RestartInstall(t) PROVE \A u \in Threads : Entered(u)
  <2>1. Others(t) /\ th'[t].pc \in Settled
    BY <1>8, ThreadKinds, RestartedFields DEF RestartInstall, Settled
  <2> QED  BY <2>1, SettledEntered
<1>9. ASSUME NEW t \in Restarters, RecoverSkip(t) PROVE \A u \in Threads : Entered(u)
  <2>1. Others(t) /\ th'[t].pc \in Settled
    BY <1>9, ThreadKinds DEF RecoverSkip, Settled
  <2> QED  BY <2>1, SettledEntered
<1>10. ASSUME NEW t \in Restarters, Recover(t) PROVE \A u \in Threads : Entered(u)
  <2>1. Others(t) /\ th'[t].pc = "match"
    BY <1>10, ThreadKinds DEF Recover
  <2> QED  BY <1>10, <2>1 DEF Others, Entered
<1>11. ASSUME NEW t \in Restarters, RecoverMatch(t) PROVE \A u \in Threads : Entered(u)
  <2>1. CASE slot[th[t].pick.slot] = th[t].pick.worker
    <3>1. th' = [th EXCEPT ![t].pc = "restart", ![t].back = "recover",
                             ![t].idx = th[t].pick.slot, ![t].old = th[t].pick.worker]
      BY <1>11, <2>1 DEF RecoverMatch
    <3>2. Others(t) /\ th'[t].pc = "restart"
      BY <3>1, <1>11, ThreadKinds DEF RecoverMatch, Settled
    <3> QED  BY <1>11, <3>2, SettledEntered DEF Others, Entered
  <2>2. CASE slot[th[t].pick.slot] # th[t].pick.worker
    <3>1. th' = [th EXCEPT ![t].pc = "release"]
      BY <1>11, <2>2 DEF RecoverMatch
    <3>2. Others(t) /\ th'[t].pc \in Settled
      BY <3>1, <1>11, ThreadKinds DEF RecoverMatch, Settled
    <3> QED  BY <1>11, <3>2, SettledEntered DEF Others, Entered
  <2> QED  BY <2>1, <2>2
<1>12. ASSUME NEW t \in Restarters, Release(t) PROVE \A u \in Threads : Entered(u)
  <2>1. Others(t) /\ th'[t].pc \in Settled
    BY <1>12, ThreadKinds DEF Release, Settled
  <2> QED  BY <2>1, SettledEntered
<1>13. ASSUME NEW r \in Requesters, RequestRefused(r) PROVE \A u \in Threads : Entered(u)
  <2>1. Others(r) /\ th'[r].pc \in Settled
    BY <1>13, ThreadKinds DEF RequestRefused, Settled
  <2> QED  BY <2>1, SettledEntered
<1>14. ASSUME NEW r \in Requesters, RequestStart(r) PROVE \A u \in Threads : Entered(u)
  <2>1. Others(r) /\ th'[r].pc \in Settled
    BY <1>14, ThreadKinds DEF RequestStart, Settled
  <2> QED  BY <2>1, SettledEntered
<1>15. ASSUME NEW r \in Requesters, NoneFound(r) PROVE \A u \in Threads : Entered(u)
  <2>1. Others(r) /\ th'[r].pc \in Settled
    BY <1>15, ThreadKinds DEF NoneFound, Settled
  <2> QED  BY <2>1, SettledEntered
<1>16. ASSUME NEW r \in Requesters, TryGrow(r) PROVE \A u \in Threads : Entered(u)
  <2>1. Others(r) /\ th'[r].pc = "grow"
    BY <1>16, ThreadKinds DEF TryGrow
  <2> QED  BY <1>16, <2>1 DEF Others, Entered
<1>17. ASSUME NEW r \in Requesters, GrowOne(r) PROVE \A u \in Threads : Entered(u)
  <2>1. Others(r) /\ th'[r].pc = "store"
    BY <1>17, ThreadKinds DEF GrowOne
  <2> QED  BY <1>17, <2>1 DEF Others, Entered
<1>18. ASSUME NEW r \in Requesters, GrowOneFails(r) PROVE \A u \in Threads : Entered(u)
  <2>1. Others(r) /\ th'[r].pc \in Settled
    BY <1>18, ThreadKinds DEF GrowOneFails, Settled
  <2> QED  BY <2>1, SettledEntered
<1>19. ASSUME NEW r \in Requesters, GrowOneStore(r) PROVE \A u \in Threads : Entered(u)
  <2>1. Others(r) /\ th'[r].pc = "publish"
    BY <1>19, ThreadKinds DEF GrowOneStore
  <2> QED  BY <1>19, <2>1 DEF Others, Entered
<1>20. ASSUME NEW r \in Requesters, GrowOnePublish(r) PROVE \A u \in Threads : Entered(u)
  <2>1. Others(r) /\ th'[r].pc \in Settled
    BY <1>20, ThreadKinds DEF GrowOnePublish, Settled
  <2> QED  BY <2>1, SettledEntered
<1>21. ASSUME NEW r \in Requesters, KeepPick(r) PROVE \A u \in Threads : Entered(u)
  <2>1. Others(r) /\ th'[r].pc \in Settled
    BY <1>21, ThreadKinds DEF KeepPick, Settled
  <2> QED  BY <2>1, SettledEntered
<1>22. ASSUME NEW r \in Requesters, Reserve(r) PROVE \A u \in Threads : Entered(u)
  <2>1. Others(r) /\ th'[r].pc \in Settled
    BY <1>22, ThreadKinds DEF Reserve, Settled
  <2> QED  BY <2>1, SettledEntered
<1>23. ASSUME NEW r \in Requesters, ReserveChecked(r) PROVE \A u \in Threads : Entered(u)
  <2>1. Others(r) /\ th'[r].pc \in Settled
    BY <1>23, ThreadKinds DEF ReserveChecked, Settled
  <2> QED  BY <2>1, SettledEntered
<1>24. ASSUME NEW r \in Requesters, ReserveDropped(r) PROVE \A u \in Threads : Entered(u)
  <2>1. Others(r) /\ th'[r].pc \in Settled
    BY <1>24, ThreadKinds DEF ReserveDropped, Settled
  <2> QED  BY <2>1, SettledEntered
<1>25. ASSUME NEW r \in Requesters, ExchangeOk(r) PROVE \A u \in Threads : Entered(u)
  <2>1. Others(r) /\ th'[r].pc \in Settled
    BY <1>25, ThreadKinds DEF ExchangeOk, Settled
  <2> QED  BY <2>1, SettledEntered
<1>26. ASSUME NEW r \in Requesters, ExchangeFails(r) PROVE \A u \in Threads : Entered(u)
  <2>1. Others(r) /\ th'[r].pc \in Settled
    BY <1>26, ThreadKinds DEF ExchangeFails, Settled
  <2> QED  BY <2>1, SettledEntered
<1>27. ASSUME NEW b \in Broadcasters, BroadcastRefused(b) PROVE \A u \in Threads : Entered(u)
  <2>1. Others(b) /\ th'[b].pc \in Settled
    BY <1>27, ThreadKinds DEF BroadcastRefused, Settled
  <2> QED  BY <2>1, SettledEntered
<1>28. ASSUME NEW b \in Broadcasters, BroadcastStart(b) PROVE \A u \in Threads : Entered(u)
  <2>1. Others(b) /\ th'[b].pc \in Settled
    BY <1>28, ThreadKinds DEF BroadcastStart, Settled
  <2> QED  BY <2>1, SettledEntered
<1>29. ASSUME NEW b \in Broadcasters, BroadcastLock(b) PROVE \A u \in Threads : Entered(u)
  <2>1. CASE state = "running"
    <3>1. th' = [th EXCEPT ![b].pc = "scan", ![b].left = 0..(active - 1)]
      BY <1>29, <2>1 DEF BroadcastLock
    <3>2. Others(b) /\ th'[b].pc \in Settled
      BY <3>1, <1>29, ThreadKinds DEF BroadcastLock, Settled
    <3> QED  BY <1>29, <3>2, SettledEntered DEF Others, Entered
  <2>2. CASE state # "running"
    <3>1. th' = [th EXCEPT ![b].pc = "done"]
      BY <1>29, <2>2 DEF BroadcastLock
    <3>2. Others(b) /\ th'[b].pc \in Settled
      BY <3>1, <1>29, ThreadKinds DEF BroadcastLock, Settled
    <3> QED  BY <1>29, <3>2, SettledEntered DEF Others, Entered
  <2> QED  BY <2>1, <2>2
<1>30. ASSUME NEW b \in Broadcasters, BroadcastSpread(b) PROVE \A u \in Threads : Entered(u)
  <2>1. Others(b) /\ th'[b].pc \in Settled
    BY <1>30, ThreadKinds DEF BroadcastSpread, Settled
  <2> QED  BY <2>1, SettledEntered
<1>31. ASSUME NEW b \in Broadcasters, BroadcastAnswered(b) PROVE \A u \in Threads : Entered(u)
  <2>1. Others(b) /\ th'[b].pc \in Settled
    BY <1>31, ThreadKinds DEF BroadcastAnswered, Settled
  <2> QED  BY <2>1, SettledEntered
<1>32. ASSUME NEW b \in Broadcasters, BroadcastFailed(b) PROVE \A u \in Threads : Entered(u)
  <2>1. Others(b) /\ th'[b].pc \in Settled
    BY <1>32, ThreadKinds DEF BroadcastFailed, Settled
  <2> QED  BY <2>1, SettledEntered
<1>33. ASSUME NEW b \in Broadcasters, BroadcastJoin(b) PROVE \A u \in Threads : Entered(u)
  <2>1. Others(b) /\ th'[b].pc \in Settled
    BY <1>33, ThreadKinds DEF BroadcastJoin, Settled
  <2> QED  BY <2>1, SettledEntered
<1>34. ASSUME NEW b \in Broadcasters, BroadcastSettle(b) PROVE \A u \in Threads : Entered(u)
  <2>1. Others(b) /\ th'[b].pc \in Settled
    BY <1>34, ThreadKinds DEF BroadcastSettle, Settled
  <2> QED  BY <2>1, SettledEntered
<1>35. ASSUME NEW b \in Broadcasters, BroadcastEnd(b) PROVE \A u \in Threads : Entered(u)
  <2>1. Others(b) /\ th'[b].pc \in Settled
    BY <1>35, ThreadKinds DEF BroadcastEnd, Settled
  <2> QED  BY <2>1, SettledEntered
<1>36. ASSUME NEW g \in Growers, PrepareSkip(g) PROVE \A u \in Threads : Entered(u)
  <2>1. Others(g) /\ th'[g].pc \in Settled
    BY <1>36, ThreadKinds DEF PrepareSkip, Settled
  <2> QED  BY <2>1, SettledEntered
<1>37. ASSUME NEW g \in Growers, PrepareStart(g) PROVE \A u \in Threads : Entered(u)
  <2>1. Others(g) /\ th'[g].pc \in Settled
    BY <1>37, ThreadKinds DEF PrepareStart, Settled
  <2> QED  BY <2>1, SettledEntered
<1>38. ASSUME NEW g \in Growers, PrepareFails(g) PROVE \A u \in Threads : Entered(u)
  <2>1. Others(g) /\ th'[g].pc \in Settled
    BY <1>38, ThreadKinds DEF PrepareFails, Settled
  <2> QED  BY <2>1, SettledEntered
<1>39. ASSUME NEW g \in Growers, GrowLock(g) PROVE \A u \in Threads : Entered(u)
  <2>1. CASE state = "running" /\ Target > active
    <3>1. th' = [th EXCEPT ![g].pc = "grow"] /\ growth' = g
      BY <1>39, <2>1 DEF GrowLock
    <3>2. Others(g) /\ th'[g].pc = "grow"
      BY <3>1, <1>39, ThreadKinds DEF GrowLock, Settled
    <3> QED  BY <1>39, <3>2, SettledEntered DEF Others, Entered
  <2>2. CASE ~ (state = "running" /\ Target > active)
    <3>1. th' = [th EXCEPT ![g].pc = "done"] /\ growth' = growth
      BY <1>39, <2>2 DEF GrowLock
    <3>2. Others(g) /\ th'[g].pc \in Settled
      BY <3>1, <1>39, ThreadKinds DEF GrowLock, Settled
    <3> QED  BY <1>39, <3>2, SettledEntered DEF Others, Entered
  <2> QED  BY <2>1, <2>2
<1>40. ASSUME NEW g \in Growers, GrowSpawn(g) PROVE \A u \in Threads : Entered(u)
  <2>1. Others(g) /\ th'[g].pc = "store"
    BY <1>40, ThreadKinds DEF GrowSpawn
  <2> QED  BY <1>40, <2>1 DEF Others, Entered
<1>41. ASSUME NEW g \in Growers, GrowFails(g) PROVE \A u \in Threads : Entered(u)
  <2>1. Others(g) /\ th'[g].pc \in Settled
    BY <1>41, ThreadKinds DEF GrowFails, Settled
  <2> QED  BY <2>1, SettledEntered
<1>42. ASSUME NEW g \in Growers, GrowStore(g) PROVE \A u \in Threads : Entered(u)
  <2>1. Others(g) /\ th'[g].pc = "publish"
    BY <1>42, ThreadKinds DEF GrowStore
  <2> QED  BY <1>42, <2>1 DEF Others, Entered
<1>43. ASSUME NEW g \in Growers, GrowPublish(g) PROVE \A u \in Threads : Entered(u)
  <2>1. Others(g) /\ th'[g].pc \in Settled
    BY <1>43, ThreadKinds DEF GrowPublish, Settled
  <2> QED  BY <2>1, SettledEntered
<1>44. ASSUME NEW z \in Closers, CloseSkip(z) PROVE \A u \in Threads : Entered(u)
  <2>1. Others(z) /\ th'[z].pc \in Settled
    BY <1>44, ThreadKinds DEF CloseSkip, Settled
  <2> QED  BY <2>1, SettledEntered
<1>45. ASSUME NEW z \in Closers, CloseStart(z) PROVE \A u \in Threads : Entered(u)
  <2>1. Others(z) /\ th'[z].pc \in Settled
    BY <1>45, ThreadKinds DEF CloseStart, Settled
  <2> QED  BY <2>1, SettledEntered
<1>46. ASSUME NEW z \in Closers, CloseLock(z) PROVE \A u \in Threads : Entered(u)
  <2>1. CASE Reduction
    <3>1. th' = [th EXCEPT ![z].pc = "gather", ![z].left = 0..(active - 1)]
      BY <1>46, <2>1 DEF CloseLock
    <3>2. Others(z) /\ th'[z].pc = "gather"
      BY <3>1, <1>46, ThreadKinds DEF CloseLock, Settled
    <3> QED  BY <1>46, <3>2, SettledEntered DEF Others, Entered
  <2>2. CASE ~ Reduction
    <3>1. th' = [th EXCEPT ![z].pc = "halt", ![z].left = 0..(active - 1)]
      BY <1>46, <2>2 DEF CloseLock
    <3>2. Others(z) /\ th'[z].pc \in Settled
      BY <3>1, <1>46, ThreadKinds DEF CloseLock, Settled
    <3> QED  BY <1>46, <3>2, SettledEntered DEF Others, Entered
  <2> QED  BY <2>1, <2>2
<1>47. ASSUME NEW z \in Closers, Gather(z) PROVE \A u \in Threads : Entered(u)
  <2>1. CASE Running(slot[Min(th[z].left)])
    <3>1. th' = [th EXCEPT ![z].left = @ \ {Min(th[z].left)},
                             ![z].team = @ \cup {<<Min(th[z].left), slot[Min(th[z].left)]>>}]
      BY <1>47, <2>1 DEF Gather
    <3>2. Others(z) /\ th'[z].pc = "gather"
      BY <3>1, <1>47, ThreadKinds DEF Gather, Settled
    <3> QED  BY <1>47, <3>2, SettledEntered DEF Others, Entered
  <2>2. CASE ~ Running(slot[Min(th[z].left)])
    <3>1. th' = [th EXCEPT ![z].pc = "halt"]
      BY <1>47, <2>2 DEF Gather
    <3>2. Others(z) /\ th'[z].pc \in Settled
      BY <3>1, <1>47, ThreadKinds DEF Gather, Settled
    <3> QED  BY <1>47, <3>2, SettledEntered DEF Others, Entered
  <2> QED  BY <2>1, <2>2
<1>48. ASSUME NEW z \in Closers, Drained(z) PROVE \A u \in Threads : Entered(u)
  <2>1. Others(z) /\ th'[z].pc = "collect"
    BY <1>48, ThreadKinds DEF Drained
  <2> QED  BY <1>48, <2>1 DEF Others, Entered
<1>49. ASSUME NEW z \in Closers, Collect(z) PROVE \A u \in Threads : Entered(u)
  <2>1. Others(z) /\ th'[z].pc = "reduce"
    BY <1>49, ThreadKinds DEF Collect
  <2> QED  BY <1>49, <2>1 DEF Others, Entered
<1>50. ASSUME NEW z \in Closers, CollectSkip(z) PROVE \A u \in Threads : Entered(u)
  <2>1. Others(z) /\ th'[z].pc \in Settled
    BY <1>50, ThreadKinds DEF CollectSkip, Settled
  <2> QED  BY <2>1, SettledEntered
<1>51. ASSUME NEW z \in Closers, Reduce(z) PROVE \A u \in Threads : Entered(u)
  <2>1. Others(z) /\ th'[z].pc \in Settled
    BY <1>51, ThreadKinds DEF Reduce, Settled
  <2> QED  BY <2>1, SettledEntered
<1>52. ASSUME NEW z \in Closers, Halt(z) PROVE \A u \in Threads : Entered(u)
  <2>1. Others(z) /\ th'[z].pc \in Settled
    BY <1>52, ThreadKinds DEF Halt, Settled
  <2> QED  BY <2>1, SettledEntered
<1>53. ASSUME NEW z \in Closers, Sweep(z) PROVE \A u \in Threads : Entered(u)
  <2>1. Others(z) /\ th'[z].pc \in Settled
    BY <1>53, ThreadKinds DEF Sweep, Settled
  <2> QED  BY <2>1, SettledEntered
<1>54. ASSUME NEW z \in Closers, StopAll(z) PROVE \A u \in Threads : Entered(u)
  <2>1. Others(z) /\ th'[z].pc \in Settled
    BY <1>54, ThreadKinds DEF StopAll, Settled
  <2> QED  BY <2>1, SettledEntered
<1>55. CASE Crash
  BY <1>55 DEF Crash, Entered
<1>56. CASE Finished \/ UNCHANGED vars
  BY <1>56 DEF Finished, vars, Entered
<1> QED
  BY <1>1, <1>2, <1>3, <1>4, <1>5, <1>6, <1>7, <1>8, <1>9, <1>10, <1>11, <1>12, <1>13, <1>14,
       <1>15, <1>16, <1>17, <1>18, <1>19, <1>20, <1>21, <1>22, <1>23, <1>24, <1>25, <1>26,
       <1>27, <1>28, <1>29, <1>30, <1>31, <1>32, <1>33, <1>34, <1>35, <1>36, <1>37, <1>38,
       <1>39, <1>40, <1>41, <1>42, <1>43, <1>44, <1>45, <1>46, <1>47, <1>48, <1>49, <1>50,
       <1>51, <1>52, <1>53, <1>54, <1>55, <1>56
    DEF Next, RestartStep, RecoverStep, RequestStep, BroadcastStep, GrowStep, CloseStep,
       Restarters

(***************************************************************************)
(* Which steps change the slots, active_workers, the slot locks, the       *)
(* bootstraps and the state of the pool.                                   *)
(***************************************************************************)
LEMMA ChangedStep ==
    ASSUME Inv, [Next]_vars
    PROVE  Changed
<1>1. ASSUME NEW t \in Restarters, ScanLive(t) PROVE Changed
  BY <1>1 DEF ScanLive, pool, vars, Changed
<1>2. ASSUME NEW t \in Restarters, ScanDead(t) PROVE Changed
  BY <1>2 DEF ScanDead, pool, vars, Changed
<1>3. ASSUME NEW t \in Restarters, RestartReuse(t) PROVE Changed
  BY <1>3 DEF RestartReuse, pool, vars, Changed
<1>4. ASSUME NEW t \in Restarters, RestartBegin(t) PROVE Changed
  <2>1. UNCHANGED <<slot, active, bootstraps, state>>
    BY <1>4 DEF RestartBegin
  <2> QED  BY <1>4, <2>1 DEF Changed
<1>5. ASSUME NEW t \in Restarters, RestartSpawn(t) PROVE Changed
  BY <1>5 DEF RestartSpawn, pool, vars, Changed
<1>6. ASSUME NEW t \in Restarters, SpawnFails(t) PROVE Changed
  <2>1. UNCHANGED <<slot, active, bootstraps, state>>
    BY <1>6 DEF SpawnFails
  <2> QED  BY <1>6, <2>1 DEF Changed
<1>7. ASSUME NEW t \in Restarters, ReplayFails(t) PROVE Changed
  <2>1. UNCHANGED <<slot, active, bootstraps, state>>
    BY <1>7 DEF ReplayFails
  <2> QED  BY <1>7, <2>1 DEF Changed
<1>8. ASSUME NEW t \in Restarters, RestartInstall(t) PROVE Changed
  <2>1. UNCHANGED <<active, bootstraps, state>>
    BY <1>8 DEF RestartInstall
  <2> QED  BY <1>8, <2>1 DEF Changed
<1>9. ASSUME NEW t \in Restarters,
         RecoverSkip(t) \/ Recover(t) \/ RecoverMatch(t) \/ Release(t)
      PROVE  Changed
  BY <1>9 DEF RecoverSkip, Recover, RecoverMatch, Release, pool, vars, Changed
<1>10. ASSUME NEW r \in Requesters,
         RequestRefused(r) \/ RequestStart(r) \/ NoneFound(r) \/ TryGrow(r) \/ GrowOne(r)
         \/ GrowOneFails(r)
      PROVE  Changed
  BY <1>10
    DEF RequestRefused, RequestStart, NoneFound, TryGrow, GrowOne, GrowOneFails, pool, vars,
       Changed
<1>11. ASSUME NEW r \in Requesters, GrowOneStore(r) PROVE Changed
  <2>1. UNCHANGED <<active, slotLock, bootstraps, state>>
    BY <1>11 DEF GrowOneStore
  <2> QED  BY <1>11, <2>1 DEF Changed
<1>12. ASSUME NEW r \in Requesters, GrowOnePublish(r) PROVE Changed
  <2>1. UNCHANGED <<slot, slotLock, bootstraps, state>>
    BY <1>12 DEF GrowOnePublish
  <2> QED  BY <1>12, <2>1 DEF Changed
<1>13. ASSUME NEW r \in Requesters,
         KeepPick(r) \/ Reserve(r) \/ ReserveChecked(r) \/ ReserveDropped(r)
         \/ ExchangeOk(r) \/ ExchangeFails(r)
      PROVE  Changed
  BY <1>13
    DEF KeepPick, Reserve, ReserveChecked, ReserveDropped, ExchangeOk, ExchangeFails, pool,
       vars, Changed
<1>14. ASSUME NEW b \in Broadcasters,
         BroadcastRefused(b) \/ BroadcastStart(b) \/ BroadcastLock(b) \/ BroadcastSpread(b)
      PROVE  Changed
  BY <1>14
    DEF BroadcastRefused, BroadcastStart, BroadcastLock, BroadcastSpread, pool, vars, Changed
<1>15. ASSUME NEW b \in Broadcasters, BroadcastAnswered(b) PROVE Changed
  BY <1>15 DEF BroadcastAnswered, pool, vars, Changed
<1>16. ASSUME NEW b \in Broadcasters, BroadcastFailed(b) PROVE Changed
  BY <1>16 DEF BroadcastFailed, pool, vars, Changed
<1>17. ASSUME NEW b \in Broadcasters, BroadcastJoin(b) PROVE Changed
  BY <1>17 DEF BroadcastJoin, pool, vars, Changed
<1>18. ASSUME NEW b \in Broadcasters, BroadcastSettle(b) PROVE Changed
  BY <1>18 DEF BroadcastSettle, pool, vars, Changed
<1>19. ASSUME NEW b \in Broadcasters, BroadcastEnd(b) PROVE Changed
  <2>1. UNCHANGED <<slot, active, slotLock, state>>
    BY <1>19 DEF BroadcastEnd
  <2> QED  BY <1>19, <2>1 DEF Changed
<1>20. ASSUME NEW g \in Growers,
         PrepareSkip(g) \/ PrepareStart(g) \/ PrepareFails(g) \/ GrowLock(g) \/ GrowSpawn(g)
         \/ GrowFails(g)
      PROVE  Changed
  BY <1>20
    DEF PrepareSkip, PrepareStart, PrepareFails, GrowLock, GrowSpawn, GrowFails, pool, vars,
       Changed
<1>21. ASSUME NEW g \in Growers, GrowStore(g) PROVE Changed
  <2>1. UNCHANGED <<active, slotLock, bootstraps, state>>
    BY <1>21 DEF GrowStore
  <2> QED  BY <1>21, <2>1 DEF Changed
<1>22. ASSUME NEW g \in Growers, GrowPublish(g) PROVE Changed
  <2>1. UNCHANGED <<slot, slotLock, bootstraps, state>>
    BY <1>22 DEF GrowPublish
  <2> QED  BY <1>22, <2>1 DEF Changed
<1>23. ASSUME NEW z \in Closers, CloseSkip(z) PROVE Changed
  BY <1>23 DEF CloseSkip, pool, vars, Changed
<1>24. ASSUME NEW z \in Closers, CloseStart(z) PROVE Changed
  <2>1. UNCHANGED <<slot, active, slotLock, bootstraps>>
    BY <1>24 DEF CloseStart
  <2> QED  BY <1>24, <2>1 DEF Changed
<1>25. ASSUME NEW z \in Closers,
         CloseLock(z) \/ Gather(z) \/ Drained(z) \/ Collect(z) \/ CollectSkip(z)
         \/ Reduce(z)
      PROVE  Changed
  BY <1>25 DEF CloseLock, Gather, Drained, Collect, CollectSkip, Reduce, pool, vars, Changed
<1>26. ASSUME NEW z \in Closers, Halt(z) PROVE Changed
  <2>1. UNCHANGED <<slot, active, slotLock, bootstraps>>
    BY <1>26 DEF Halt
  <2> QED  BY <1>26, <2>1 DEF Changed
<1>27. ASSUME NEW z \in Closers, Sweep(z) PROVE Changed
  BY <1>27 DEF Sweep, pool, vars, Changed
<1>28. ASSUME NEW z \in Closers, StopAll(z) PROVE Changed
  <2>1. UNCHANGED <<slot, active, slotLock, bootstraps>>
    BY <1>28 DEF StopAll
  <2> QED  BY <1>28, <2>1 DEF Changed
<1>29. CASE Crash
  BY <1>29 DEF Crash, pool, vars, Changed
<1>30. CASE Finished \/ UNCHANGED vars
  BY <1>30 DEF Finished, vars, pool, vars, Changed
<1> QED
  BY <1>1, <1>2, <1>3, <1>4, <1>5, <1>6, <1>7, <1>8, <1>9, <1>10, <1>11, <1>12, <1>13, <1>14,
       <1>15, <1>16, <1>17, <1>18, <1>19, <1>20, <1>21, <1>22, <1>23, <1>24, <1>25, <1>26,
       <1>27, <1>28, <1>29, <1>30
    DEF Next, RestartStep, RecoverStep, RequestStep, BroadcastStep, GrowStep, CloseStep,
       Restarters

(***************************************************************************)
(* A thread leaves a critical part by the actions that end it.             *)
(***************************************************************************)
LEMMA DepartedStep ==
    ASSUME Inv, [Next]_vars
    PROVE  \A u \in Threads : Departed(u)
<1> Shape  BY DEF Inv
<1> USE DEF Others, Shape, Goto, At
<1>1. ASSUME NEW t \in Restarters, ScanLive(t) PROVE \A u \in Threads : Departed(u)
  <2>1. (\E i : Found(t, i, slot[i])) /\ th[t].pc \notin {"install", "store", "publish"}
    BY <1>1 DEF ScanLive
  <2>2. Others(t)
    BY <2>1, ThreadKinds, FoundFields
  <2> QED  BY <2>1, <2>2, OthersDeparted, KindsDisjoint DEF Restarters
<1>2. ASSUME NEW t \in Restarters, ScanDead(t) PROVE \A u \in Threads : Departed(u)
  <2>1. Others(t) /\ th[t].pc \notin {"install", "store", "publish"}
    BY <1>2, ThreadKinds DEF ScanDead
  <2> QED  BY <2>1, OthersDeparted, KindsDisjoint DEF Restarters
<1>3. ASSUME NEW t \in Restarters, RestartReuse(t) PROVE \A u \in Threads : Departed(u)
  <2>1. Restarted(t, slot[th[t].idx]) /\ th[t].pc \notin {"install", "store", "publish"}
    BY <1>3 DEF RestartReuse
  <2>2. Others(t)
    BY <2>1, ThreadKinds, RestartedFields
  <2> QED  BY <2>1, <2>2, OthersDeparted, KindsDisjoint DEF Restarters
<1>4. ASSUME NEW t \in Restarters, RestartBegin(t) PROVE \A u \in Threads : Departed(u)
  <2>1. Others(t) /\ th[t].pc \notin {"install", "store", "publish"}
    BY <1>4, ThreadKinds DEF RestartBegin
  <2> QED  BY <2>1, OthersDeparted, KindsDisjoint DEF Restarters
<1>5. ASSUME NEW t \in Restarters, RestartSpawn(t) PROVE \A u \in Threads : Departed(u)
  <2>1. Others(t) /\ th[t].pc \notin {"install", "store", "publish"}
    BY <1>5, ThreadKinds DEF RestartSpawn
  <2> QED  BY <2>1, OthersDeparted, KindsDisjoint DEF Restarters
<1>6. ASSUME NEW t \in Restarters, SpawnFails(t) PROVE \A u \in Threads : Departed(u)
  <2>1. NotRestarted(t) /\ th[t].pc \notin {"install", "store", "publish"}
    BY <1>6 DEF SpawnFails
  <2>2. Others(t)
    BY <2>1, ThreadKinds, NotRestartedFields
  <2> QED  BY <2>1, <2>2, OthersDeparted, KindsDisjoint DEF Restarters
<1>7. ASSUME NEW t \in Restarters, ReplayFails(t) PROVE \A u \in Threads : Departed(u)
  <2>1. (NotRestarted(t)) /\ th[t].pc = "install"
    BY <1>7 DEF ReplayFails
  <2>2. Others(t)
    BY <2>1, ThreadKinds, NotRestartedFields
  <2> QED  BY <1>7, <2>1, <2>2, KindsDisjoint DEF Others, Departed, Restarters
<1>8. ASSUME NEW t \in Restarters, RestartInstall(t) PROVE \A u \in Threads : Departed(u)
  <2>1. (\E w : Restarted(t, w)) /\ th[t].pc = "install"
    BY <1>8 DEF RestartInstall
  <2>2. Others(t)
    BY <2>1, ThreadKinds, RestartedFields
  <2> QED  BY <1>8, <2>1, <2>2, KindsDisjoint DEF Others, Departed, Restarters
<1>9. ASSUME NEW t \in Restarters, RecoverSkip(t) PROVE \A u \in Threads : Departed(u)
  <2>1. Others(t) /\ th[t].pc \notin {"install", "store", "publish"}
    BY <1>9, ThreadKinds DEF RecoverSkip
  <2> QED  BY <2>1, OthersDeparted, KindsDisjoint DEF Restarters
<1>10. ASSUME NEW t \in Restarters, Recover(t) PROVE \A u \in Threads : Departed(u)
  <2>1. Others(t) /\ th[t].pc \notin {"install", "store", "publish"}
    BY <1>10, ThreadKinds DEF Recover
  <2> QED  BY <2>1, OthersDeparted, KindsDisjoint DEF Restarters
<1>11. ASSUME NEW t \in Restarters, RecoverMatch(t) PROVE \A u \in Threads : Departed(u)
  <2>1. CASE slot[th[t].pick.slot] = th[t].pick.worker
    <3>1. th' = [th EXCEPT ![t].pc = "restart", ![t].back = "recover",
                             ![t].idx = th[t].pick.slot, ![t].old = th[t].pick.worker]
      BY <1>11, <2>1 DEF RecoverMatch
    <3>2. Others(t) /\ th[t].pc \notin {"install", "store", "publish", "idle", "done"}
      BY <3>1, <1>11, ThreadKinds DEF RecoverMatch
    <3> QED  BY <3>2, OthersDeparted
  <2>2. CASE slot[th[t].pick.slot] # th[t].pick.worker
    <3>1. th' = [th EXCEPT ![t].pc = "release"]
      BY <1>11, <2>2 DEF RecoverMatch
    <3>2. Others(t) /\ th[t].pc \notin {"install", "store", "publish", "idle", "done"}
      BY <3>1, <1>11, ThreadKinds DEF RecoverMatch
    <3> QED  BY <3>2, OthersDeparted
  <2> QED  BY <2>1, <2>2
<1>12. ASSUME NEW t \in Restarters, Release(t) PROVE \A u \in Threads : Departed(u)
  <2>1. Others(t) /\ th[t].pc \notin {"install", "store", "publish"}
    BY <1>12, ThreadKinds DEF Release
  <2> QED  BY <2>1, OthersDeparted, KindsDisjoint DEF Restarters
<1>13. ASSUME NEW r \in Requesters, RequestRefused(r) PROVE \A u \in Threads : Departed(u)
  <2>1. Others(r) /\ th[r].pc \notin {"install", "store", "publish"}
    BY <1>13, ThreadKinds DEF RequestRefused
  <2> QED  BY <2>1, OthersDeparted, KindsDisjoint DEF Restarters
<1>14. ASSUME NEW r \in Requesters, RequestStart(r) PROVE \A u \in Threads : Departed(u)
  <2>1. Others(r) /\ th[r].pc \notin {"install", "store", "publish"}
    BY <1>14, ThreadKinds DEF RequestStart
  <2> QED  BY <2>1, OthersDeparted, KindsDisjoint DEF Restarters
<1>15. ASSUME NEW r \in Requesters, NoneFound(r) PROVE \A u \in Threads : Departed(u)
  <2>1. Others(r) /\ th[r].pc \notin {"install", "store", "publish"}
    BY <1>15, ThreadKinds DEF NoneFound
  <2> QED  BY <2>1, OthersDeparted, KindsDisjoint DEF Restarters
<1>16. ASSUME NEW r \in Requesters, TryGrow(r) PROVE \A u \in Threads : Departed(u)
  <2>1. Others(r) /\ th[r].pc \notin {"install", "store", "publish"}
    BY <1>16, ThreadKinds DEF TryGrow
  <2> QED  BY <2>1, OthersDeparted, KindsDisjoint DEF Restarters
<1>17. ASSUME NEW r \in Requesters, GrowOne(r) PROVE \A u \in Threads : Departed(u)
  <2>1. Others(r) /\ th[r].pc \notin {"install", "store", "publish"}
    BY <1>17, ThreadKinds DEF GrowOne
  <2> QED  BY <2>1, OthersDeparted, KindsDisjoint DEF Restarters
<1>18. ASSUME NEW r \in Requesters, GrowOneFails(r) PROVE \A u \in Threads : Departed(u)
  <2>1. Others(r) /\ th[r].pc \in {"grow", "store"}
    BY <1>18, ThreadKinds DEF GrowOneFails
  <2> QED  BY <1>18, <2>1, KindsDisjoint DEF Others, Departed
<1>19. ASSUME NEW r \in Requesters, GrowOneStore(r) PROVE \A u \in Threads : Departed(u)
  <2>1. Others(r) /\ th[r].pc \in {"store"}
    BY <1>19, ThreadKinds DEF GrowOneStore
  <2> QED  BY <1>19, <2>1, KindsDisjoint DEF Others, Departed
<1>20. ASSUME NEW r \in Requesters, GrowOnePublish(r) PROVE \A u \in Threads : Departed(u)
  <2>1. Others(r) /\ th[r].pc \in {"publish"}
    BY <1>20, ThreadKinds DEF GrowOnePublish
  <2> QED  BY <1>20, <2>1, KindsDisjoint DEF Others, Departed
<1>21. ASSUME NEW r \in Requesters, KeepPick(r) PROVE \A u \in Threads : Departed(u)
  <2>1. Others(r) /\ th[r].pc \notin {"install", "store", "publish"}
    BY <1>21, ThreadKinds DEF KeepPick
  <2> QED  BY <2>1, OthersDeparted, KindsDisjoint DEF Restarters
<1>22. ASSUME NEW r \in Requesters, Reserve(r) PROVE \A u \in Threads : Departed(u)
  <2>1. Others(r) /\ th[r].pc \notin {"install", "store", "publish"}
    BY <1>22, ThreadKinds DEF Reserve
  <2> QED  BY <2>1, OthersDeparted, KindsDisjoint DEF Restarters
<1>23. ASSUME NEW r \in Requesters, ReserveChecked(r) PROVE \A u \in Threads : Departed(u)
  <2>1. Others(r) /\ th[r].pc \notin {"install", "store", "publish"}
    BY <1>23, ThreadKinds DEF ReserveChecked
  <2> QED  BY <2>1, OthersDeparted, KindsDisjoint DEF Restarters
<1>24. ASSUME NEW r \in Requesters, ReserveDropped(r) PROVE \A u \in Threads : Departed(u)
  <2>1. Others(r) /\ th[r].pc \notin {"install", "store", "publish"}
    BY <1>24, ThreadKinds DEF ReserveDropped
  <2> QED  BY <2>1, OthersDeparted, KindsDisjoint DEF Restarters
<1>25. ASSUME NEW r \in Requesters, ExchangeOk(r) PROVE \A u \in Threads : Departed(u)
  <2>1. Others(r) /\ th[r].pc \notin {"install", "store", "publish"}
    BY <1>25, ThreadKinds DEF ExchangeOk
  <2> QED  BY <2>1, OthersDeparted, KindsDisjoint DEF Restarters
<1>26. ASSUME NEW r \in Requesters, ExchangeFails(r) PROVE \A u \in Threads : Departed(u)
  <2>1. Others(r) /\ th[r].pc \notin {"install", "store", "publish"}
    BY <1>26, ThreadKinds DEF ExchangeFails
  <2> QED  BY <2>1, OthersDeparted, KindsDisjoint DEF Restarters
<1>27. ASSUME NEW b \in Broadcasters, BroadcastRefused(b) PROVE \A u \in Threads : Departed(u)
  <2>1. Others(b) /\ th[b].pc \notin {"install", "store", "publish"}
    BY <1>27, ThreadKinds DEF BroadcastRefused
  <2> QED  BY <2>1, OthersDeparted, KindsDisjoint DEF Restarters
<1>28. ASSUME NEW b \in Broadcasters, BroadcastStart(b) PROVE \A u \in Threads : Departed(u)
  <2>1. Others(b) /\ th[b].pc \notin {"install", "store", "publish"}
    BY <1>28, ThreadKinds DEF BroadcastStart
  <2> QED  BY <2>1, OthersDeparted, KindsDisjoint DEF Restarters
<1>29. ASSUME NEW b \in Broadcasters, BroadcastLock(b) PROVE \A u \in Threads : Departed(u)
  <2>1. CASE state = "running"
    <3>1. th' = [th EXCEPT ![b].pc = "scan", ![b].left = 0..(active - 1)]
      BY <1>29, <2>1 DEF BroadcastLock
    <3>2. Others(b) /\ th[b].pc \notin {"install", "store", "publish", "idle", "done"}
      BY <3>1, <1>29, ThreadKinds DEF BroadcastLock
    <3> QED  BY <3>2, OthersDeparted
  <2>2. CASE state # "running"
    <3>1. th' = [th EXCEPT ![b].pc = "done"]
      BY <1>29, <2>2 DEF BroadcastLock
    <3>2. Others(b) /\ th[b].pc \notin {"install", "store", "publish", "idle", "done"}
      BY <3>1, <1>29, ThreadKinds DEF BroadcastLock
    <3> QED  BY <3>2, OthersDeparted
  <2> QED  BY <2>1, <2>2
<1>30. ASSUME NEW b \in Broadcasters, BroadcastSpread(b) PROVE \A u \in Threads : Departed(u)
  <2>1. Others(b) /\ th[b].pc \notin {"install", "store", "publish"}
    BY <1>30, ThreadKinds DEF BroadcastSpread
  <2> QED  BY <2>1, OthersDeparted, KindsDisjoint DEF Restarters
<1>31. ASSUME NEW b \in Broadcasters, BroadcastAnswered(b) PROVE \A u \in Threads : Departed(u)
  <2>1. Others(b) /\ th[b].pc \notin {"install", "store", "publish"}
    BY <1>31, ThreadKinds DEF BroadcastAnswered
  <2> QED  BY <2>1, OthersDeparted, KindsDisjoint DEF Restarters
<1>32. ASSUME NEW b \in Broadcasters, BroadcastFailed(b) PROVE \A u \in Threads : Departed(u)
  <2>1. Others(b) /\ th[b].pc \notin {"install", "store", "publish"}
    BY <1>32, ThreadKinds DEF BroadcastFailed
  <2> QED  BY <2>1, OthersDeparted, KindsDisjoint DEF Restarters
<1>33. ASSUME NEW b \in Broadcasters, BroadcastJoin(b) PROVE \A u \in Threads : Departed(u)
  <2>1. Others(b) /\ th[b].pc \notin {"install", "store", "publish"}
    BY <1>33, ThreadKinds DEF BroadcastJoin
  <2> QED  BY <2>1, OthersDeparted, KindsDisjoint DEF Restarters
<1>34. ASSUME NEW b \in Broadcasters, BroadcastSettle(b) PROVE \A u \in Threads : Departed(u)
  <2>1. Others(b) /\ th[b].pc \notin {"install", "store", "publish"}
    BY <1>34, ThreadKinds DEF BroadcastSettle
  <2> QED  BY <2>1, OthersDeparted, KindsDisjoint DEF Restarters
<1>35. ASSUME NEW b \in Broadcasters, BroadcastEnd(b) PROVE \A u \in Threads : Departed(u)
  <2>1. Others(b) /\ th[b].pc \notin {"install", "store", "publish"}
    BY <1>35, ThreadKinds DEF BroadcastEnd
  <2> QED  BY <2>1, OthersDeparted, KindsDisjoint DEF Restarters
<1>36. ASSUME NEW g \in Growers, PrepareSkip(g) PROVE \A u \in Threads : Departed(u)
  <2>1. Others(g) /\ th[g].pc \notin {"install", "store", "publish"}
    BY <1>36, ThreadKinds DEF PrepareSkip
  <2> QED  BY <2>1, OthersDeparted, KindsDisjoint DEF Restarters
<1>37. ASSUME NEW g \in Growers, PrepareStart(g) PROVE \A u \in Threads : Departed(u)
  <2>1. Others(g) /\ th[g].pc \notin {"install", "store", "publish"}
    BY <1>37, ThreadKinds DEF PrepareStart
  <2> QED  BY <2>1, OthersDeparted, KindsDisjoint DEF Restarters
<1>38. ASSUME NEW g \in Growers, PrepareFails(g) PROVE \A u \in Threads : Departed(u)
  <2>1. Others(g) /\ th[g].pc \notin {"install", "store", "publish"}
    BY <1>38, ThreadKinds DEF PrepareFails
  <2> QED  BY <2>1, OthersDeparted, KindsDisjoint DEF Restarters
<1>39. ASSUME NEW g \in Growers, GrowLock(g) PROVE \A u \in Threads : Departed(u)
  <2>1. CASE state = "running" /\ Target > active
    <3>1. th' = [th EXCEPT ![g].pc = "grow"] /\ growth' = g
      BY <1>39, <2>1 DEF GrowLock
    <3>2. Others(g) /\ th[g].pc \notin {"install", "store", "publish", "idle", "done"}
      BY <3>1, <1>39, ThreadKinds DEF GrowLock
    <3> QED  BY <3>2, OthersDeparted
  <2>2. CASE ~ (state = "running" /\ Target > active)
    <3>1. th' = [th EXCEPT ![g].pc = "done"] /\ growth' = growth
      BY <1>39, <2>2 DEF GrowLock
    <3>2. Others(g) /\ th[g].pc \notin {"install", "store", "publish", "idle", "done"}
      BY <3>1, <1>39, ThreadKinds DEF GrowLock
    <3> QED  BY <3>2, OthersDeparted
  <2> QED  BY <2>1, <2>2
<1>40. ASSUME NEW g \in Growers, GrowSpawn(g) PROVE \A u \in Threads : Departed(u)
  <2>1. Others(g) /\ th[g].pc \notin {"install", "store", "publish"}
    BY <1>40, ThreadKinds DEF GrowSpawn
  <2> QED  BY <2>1, OthersDeparted, KindsDisjoint DEF Restarters
<1>41. ASSUME NEW g \in Growers, GrowFails(g) PROVE \A u \in Threads : Departed(u)
  <2>1. Others(g) /\ th[g].pc \in {"store"}
    BY <1>41, ThreadKinds DEF GrowFails
  <2> QED  BY <1>41, <2>1, KindsDisjoint DEF Others, Departed
<1>42. ASSUME NEW g \in Growers, GrowStore(g) PROVE \A u \in Threads : Departed(u)
  <2>1. Others(g) /\ th[g].pc \in {"store"}
    BY <1>42, ThreadKinds DEF GrowStore
  <2> QED  BY <1>42, <2>1, KindsDisjoint DEF Others, Departed
<1>43. ASSUME NEW g \in Growers, GrowPublish(g) PROVE \A u \in Threads : Departed(u)
  <2>1. Others(g) /\ th[g].pc \in {"publish"}
    BY <1>43, ThreadKinds DEF GrowPublish
  <2> QED  BY <1>43, <2>1, KindsDisjoint DEF Others, Departed
<1>44. ASSUME NEW z \in Closers, CloseSkip(z) PROVE \A u \in Threads : Departed(u)
  <2>1. Others(z) /\ th[z].pc = "idle" /\ th'[z].pc = "done"
    BY <1>44, ThreadKinds DEF CloseSkip
  <2> QED  BY <1>44, <2>1, KindsDisjoint DEF Others, Departed
<1>45. ASSUME NEW z \in Closers, CloseStart(z) PROVE \A u \in Threads : Departed(u)
  <2>1. Others(z) /\ th[z].pc = "idle"
    BY <1>45, ThreadKinds DEF CloseStart
  <2> QED  BY <1>45, <2>1, KindsDisjoint DEF Others, Departed
<1>46. ASSUME NEW z \in Closers, CloseLock(z) PROVE \A u \in Threads : Departed(u)
  <2>1. Others(z) /\ th[z].pc \notin {"install", "store", "publish", "idle", "done"}
    BY <1>46, ThreadKinds DEF CloseLock
  <2> QED  BY <2>1, OthersDeparted
<1>47. ASSUME NEW z \in Closers, Gather(z) PROVE \A u \in Threads : Departed(u)
  <2>1. CASE Running(slot[Min(th[z].left)])
    <3>1. th' = [th EXCEPT ![z].left = @ \ {Min(th[z].left)},
                             ![z].team = @ \cup {<<Min(th[z].left), slot[Min(th[z].left)]>>}]
      BY <1>47, <2>1 DEF Gather
    <3>2. Others(z) /\ th[z].pc \notin {"install", "store", "publish", "idle", "done"}
      BY <3>1, <1>47, ThreadKinds DEF Gather
    <3> QED  BY <3>2, OthersDeparted
  <2>2. CASE ~ Running(slot[Min(th[z].left)])
    <3>1. th' = [th EXCEPT ![z].pc = "halt"]
      BY <1>47, <2>2 DEF Gather
    <3>2. Others(z) /\ th[z].pc \notin {"install", "store", "publish", "idle", "done"}
      BY <3>1, <1>47, ThreadKinds DEF Gather
    <3> QED  BY <3>2, OthersDeparted
  <2> QED  BY <2>1, <2>2
<1>48. ASSUME NEW z \in Closers, Drained(z) PROVE \A u \in Threads : Departed(u)
  <2>1. Others(z) /\ th[z].pc \notin {"install", "store", "publish", "idle", "done"}
    BY <1>48, ThreadKinds DEF Drained
  <2> QED  BY <2>1, OthersDeparted
<1>49. ASSUME NEW z \in Closers, Collect(z) PROVE \A u \in Threads : Departed(u)
  <2>1. Others(z) /\ th[z].pc \notin {"install", "store", "publish", "idle", "done"}
    BY <1>49, ThreadKinds DEF Collect
  <2> QED  BY <2>1, OthersDeparted
<1>50. ASSUME NEW z \in Closers, CollectSkip(z) PROVE \A u \in Threads : Departed(u)
  <2>1. Others(z) /\ th[z].pc \notin {"install", "store", "publish", "idle", "done"}
    BY <1>50, ThreadKinds DEF CollectSkip
  <2> QED  BY <2>1, OthersDeparted
<1>51. ASSUME NEW z \in Closers, Reduce(z) PROVE \A u \in Threads : Departed(u)
  <2>1. Others(z) /\ th[z].pc \notin {"install", "store", "publish", "idle", "done"}
    BY <1>51, ThreadKinds DEF Reduce
  <2> QED  BY <2>1, OthersDeparted
<1>52. ASSUME NEW z \in Closers, Halt(z) PROVE \A u \in Threads : Departed(u)
  <2>1. Others(z) /\ th[z].pc \notin {"install", "store", "publish", "idle", "done"}
    BY <1>52, ThreadKinds DEF Halt
  <2> QED  BY <2>1, OthersDeparted
<1>53. ASSUME NEW z \in Closers, Sweep(z) PROVE \A u \in Threads : Departed(u)
  <2>1. Others(z) /\ th[z].pc \notin {"install", "store", "publish", "idle", "done"}
    BY <1>53, ThreadKinds DEF Sweep
  <2> QED  BY <2>1, OthersDeparted
<1>54. ASSUME NEW z \in Closers, StopAll(z) PROVE \A u \in Threads : Departed(u)
  <2>1. Others(z) /\ th[z].pc \notin {"install", "store", "publish", "idle", "done"}
    BY <1>54, ThreadKinds DEF StopAll
  <2> QED  BY <2>1, OthersDeparted
<1>55. CASE Crash
  BY <1>55 DEF Crash, Departed
<1>56. CASE Finished \/ UNCHANGED vars
  BY <1>56 DEF Finished, vars, Departed
<1> QED
  BY <1>1, <1>2, <1>3, <1>4, <1>5, <1>6, <1>7, <1>8, <1>9, <1>10, <1>11, <1>12, <1>13, <1>14,
       <1>15, <1>16, <1>17, <1>18, <1>19, <1>20, <1>21, <1>22, <1>23, <1>24, <1>25, <1>26,
       <1>27, <1>28, <1>29, <1>30, <1>31, <1>32, <1>33, <1>34, <1>35, <1>36, <1>37, <1>38,
       <1>39, <1>40, <1>41, <1>42, <1>43, <1>44, <1>45, <1>46, <1>47, <1>48, <1>49, <1>50,
       <1>51, <1>52, <1>53, <1>54, <1>55, <1>56
    DEF Next, RestartStep, RecoverStep, RequestStep, BroadcastStep, GrowStep, CloseStep,
       Restarters

==============================================================================
