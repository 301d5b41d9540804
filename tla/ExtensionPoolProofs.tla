------------------------ MODULE ExtensionPoolProofs ------------------------
(***************************************************************************)
(* Proofs about the pool of extension workers, for any number of           *)
(* requesters, broadcasters, growers and closers, any capacity and however *)
(* many workers die: the invariant is inductive, and the safety properties *)
(* of ExtensionPool follow from it.                                        *)
(***************************************************************************)
EXTENDS ExtensionPoolLemmas

(***************************************************************************)
(* The locks of a slot stay with the thread that restarts it, from         *)
(* RestartBegin to the installation or the failure.                        *)
(***************************************************************************)
LEMMA SlotHeldStep ==
    ASSUME Inv, [Next]_vars
    PROVE  SlotHeld'
<1> USE DEF At, PoolType, Locals
<1>1. /\ PoolType /\ Shape /\ Locals /\ SlotHeld
      /\ Changed /\ \A u \in Threads : Entered(u)
  BY ChangedStep, EnteredStep DEF Inv
<1> SUFFICES ASSUME NEW u \in Restarters, th'[u].pc \in {"spawn", "install"}
             PROVE  slotLock'[th'[u].idx] = u
  BY DEF SlotHeld
<1>2. u \in Threads /\ u # Nobody
  BY ThreadKinds, KindsDisjoint
<1>3. CASE RestartBegin(u)
  BY <1>1, <1>2, <1>3 DEF RestartBegin, Goto, Shape
<1>4. CASE RestartSpawn(u)
  <2>1. slotLock[th[u].idx] = u /\ slotLock' = slotLock
    BY <1>1, <1>4 DEF RestartSpawn, SlotHeld, pool
  <2>2. th'[u].idx = th[u].idx
    BY <1>1, <1>2, <1>4 DEF RestartSpawn, Shape
  <2> QED  BY <2>1, <2>2
<1>5. CASE th'[u] = th[u]
  <2>1. slotLock[th[u].idx] = u /\ th[u].idx \in Slots
    BY <1>1, <1>2, <1>5 DEF SlotHeld
  <2>2. ASSUME NEW t \in Restarters, t # u,
               \/ RestartBegin(t) \/ SpawnFails(t) \/ ReplayFails(t) \/ RestartInstall(t)
        PROVE  slotLock'[th[u].idx] = u
    <3>1. t \in Threads
      BY ThreadKinds
    <3>2. CASE RestartBegin(t)
      BY <1>1, <1>2, <2>1, <2>2, <3>1, <3>2 DEF RestartBegin
    <3>3. CASE SpawnFails(t) \/ ReplayFails(t) \/ RestartInstall(t)
      <4>1. slotLock' = [slotLock EXCEPT ![th[t].idx] = Nobody] /\ th[t].pc \in {"spawn", "install"}
        BY <3>3 DEF SpawnFails, ReplayFails, RestartInstall
      <4>2. slotLock[th[t].idx] = t
        BY <1>1, <4>1 DEF SlotHeld
      <4> QED  BY <1>1, <2>1, <2>2, <4>1, <4>2
    <3> QED  BY <2>2, <3>2, <3>3
  <2>3. ~ RestartBegin(u) /\ ~ SpawnFails(u) /\ ~ ReplayFails(u) /\ ~ RestartInstall(u)
    <3>1. RestartBegin(u) => th[u].pc = "restart"
      BY DEF RestartBegin
    <3>2. SpawnFails(u) \/ ReplayFails(u) => th'[u].pc \in {"scan", "release", "unlock"}
      BY <1>1, <1>2, NotRestartedFields DEF SpawnFails, ReplayFails
    <3>3. RestartInstall(u) => th'[u].pc \in {"scan", "release"}
      BY <1>1, <1>2, RestartedFields DEF RestartInstall
    <3> QED  BY <1>5, <3>1, <3>2, <3>3
  <2> QED  BY <1>1, <1>5, <2>1, <2>2, <2>3 DEF Changed
<1> QED
  BY <1>1, <1>2, <1>3, <1>4, <1>5, KindsDisjoint DEF Entered, Settled, Restarters

(***************************************************************************)
(* What is put into a slot was spawned for it.                             *)
(***************************************************************************)
LEMMA SlotHomesStep ==
    ASSUME Inv, [Next]_vars
    PROVE  SlotHomes'
<1>1. /\ PoolType /\ SlotHomes /\ InHand /\ GrowthInHand
      /\ Grows /\ Changed
  BY WorkersStep, ChangedStep DEF Inv
<1>2. CASE slot' = slot
  BY <1>1, <1>2 DEF SlotHomes, Grows
<1>3. ASSUME NEW t \in Restarters, RestartInstall(t)
      PROVE  SlotHomes'
  <2>1. PICK w \in 1..Len(workers) : th[t].new = {w} /\ workers[w].home = th[t].idx
    BY <1>1, <1>3 DEF RestartInstall, At, InHand
  <2>2. slot' = [slot EXCEPT ![th[t].idx] = w] /\ workers' = workers
    BY <1>3, <2>1 DEF RestartInstall
  <2> QED  BY <1>1, <2>1, <2>2 DEF SlotHomes, PoolType
<1>4. ASSUME NEW r \in Requesters, GrowOneStore(r)
      PROVE  SlotHomes'
  <2>1. PICK w \in th[r].new : slot' = [slot EXCEPT ![active] = w] /\ workers' = workers
    BY <1>4 DEF GrowOneStore
  <2>2. w \in 1..Len(workers) /\ workers[w].home \in active..(Top(r) - 1) /\ Top(r) = active + 1
    BY <1>1, <1>4, ThreadKinds DEF GrowOneStore, At, GrowthInHand, Top
  <2>3. workers[w].home = active
    BY <1>1, <2>2 DEF PoolType
  <2> QED  BY <1>1, <2>1, <2>2, <2>3 DEF SlotHomes, PoolType
<1>5. ASSUME NEW g \in Growers, GrowStore(g)
      PROVE  SlotHomes'
  <2>1. th[g].new \subseteq 1..Len(workers) /\ workers' = workers
    BY <1>1, <1>5, ThreadKinds DEF GrowStore, At, GrowthInHand
  <2>2. ASSUME NEW i \in Slots, slot'[i] # 0
        PROVE  slot'[i] \in 1..Len(workers) /\ workers[slot'[i]].home = i
    <3>1. CASE \E w \in th[g].new : workers[w].home = i
      <4>1. slot'[i] = CHOOSE w \in th[g].new : workers[w].home = i
        BY <3>1, <1>5 DEF GrowStore
      <4>2. slot'[i] \in th[g].new /\ workers[slot'[i]].home = i
        BY <3>1, <4>1
      <4> QED  BY <2>1, <4>2
    <3>2. CASE ~ \E w \in th[g].new : workers[w].home = i
      <4>1. slot'[i] = slot[i]
        BY <3>2, <1>5 DEF GrowStore
      <4> QED  BY <1>1, <2>2, <4>1 DEF SlotHomes
    <3> QED  BY <3>1, <3>2
  <2> QED  BY <2>1, <2>2 DEF SlotHomes
<1> QED
  BY <1>1, <1>2, <1>3, <1>4, <1>5 DEF Changed

(***************************************************************************)
(* A slot that is filled is never emptied.                                 *)
(***************************************************************************)
LEMMA SlotsStayFilled ==
    ASSUME Inv, [Next]_vars, NEW i \in Slots, slot[i] # 0
    PROVE  slot'[i] # 0
<1>1. PoolType /\ InHand /\ GrowthInHand /\ Changed
  BY ChangedStep DEF Inv
<1>2. ASSUME NEW t \in Restarters, RestartInstall(t)
      PROVE  slot'[i] # 0
  <2>1. PICK w \in 1..Len(workers) : th[t].new = {w} /\ workers[w].home = th[t].idx
    BY <1>1, <1>2 DEF RestartInstall, At, InHand
  <2>2. slot' = [slot EXCEPT ![th[t].idx] = w]
    BY <1>2, <2>1 DEF RestartInstall
  <2> QED  BY <1>1, <2>1, <2>2 DEF PoolType
<1>3. ASSUME NEW r \in Requesters, GrowOneStore(r)
      PROVE  slot'[i] # 0
  <2>1. PICK w \in th[r].new : slot' = [slot EXCEPT ![active] = w]
    BY <1>3 DEF GrowOneStore
  <2>2. w # 0
    BY <1>1, <1>3, ThreadKinds DEF GrowOneStore, At, GrowthInHand
  <2> QED  BY <1>1, <2>1, <2>2 DEF PoolType
<1>4. ASSUME NEW g \in Growers, GrowStore(g)
      PROVE  slot'[i] # 0
  <2>1. th[g].new \subseteq 1..Len(workers)
    BY <1>1, <1>4, ThreadKinds DEF GrowStore, At, GrowthInHand
  <2>2. CASE \E w \in th[g].new : workers[w].home = i
    <3>1. slot'[i] = CHOOSE w \in th[g].new : workers[w].home = i
      BY <2>2, <1>4 DEF GrowStore
    <3>2. slot'[i] \in th[g].new
      BY <2>2, <3>1
    <3> QED  BY <2>1, <3>2
  <2>3. CASE ~ \E w \in th[g].new : workers[w].home = i
    BY <2>3, <1>4 DEF GrowStore
  <2> QED  BY <2>2, <2>3
<1> QED
  BY <1>1, <1>2, <1>3, <1>4 DEF Changed

(***************************************************************************)
(* While a growth holds the lock, active_workers and its goal stay.        *)
(***************************************************************************)
LEMMA WhileGrowing ==
    ASSUME Inv, [Next]_vars, NEW u \in AddWorkers, HoldsGrowth(u), th'[u] = th[u]
    PROVE  active' = active /\ bootstraps' = bootstraps
<1>1. GrowthHeld /\ Shape /\ Changed
  BY ChangedStep DEF Inv
<1>2. u \in Threads /\ growth = u
  BY <1>1, ThreadKinds DEF GrowthHeld, AddWorkers
<1>3. ASSUME NEW r \in Requesters, GrowOnePublish(r)
      PROVE  FALSE
  <2>1. growth = r
    BY <1>1, <1>3, ThreadKinds DEF GrowthHeld, HoldsGrowth, GrowOnePublish, At
  <2>2. th'[r].pc = "reserve" /\ th[r].pc = "publish"
    BY <1>1, <1>3, ThreadKinds DEF GrowOnePublish, Goto, At, Shape
  <2> QED  BY <1>2, <2>1, <2>2
<1>4. ASSUME NEW g \in Growers, GrowPublish(g)
      PROVE  FALSE
  <2>1. growth = g
    BY <1>1, <1>4, ThreadKinds DEF GrowthHeld, HoldsGrowth, GrowPublish, At
  <2>2. th'[g].pc = "done" /\ th[g].pc = "publish"
    BY <1>1, <1>4, ThreadKinds DEF GrowPublish, Goto, At, Shape
  <2> QED  BY <1>2, <2>1, <2>2
<1>5. ASSUME NEW b \in Broadcasters, BroadcastEnd(b)
      PROVE  FALSE
  <2>1. growth = b
    BY <1>1, <1>5, ThreadKinds DEF GrowthHeld, HoldsGrowth, BroadcastEnd, At
  <2> QED  BY <1>2, <2>1, KindsDisjoint DEF AddWorkers
<1> QED
  BY <1>1, <1>3, <1>4, <1>5 DEF Changed

(***************************************************************************)
(* active_workers is published after the slots below it are filled.        *)
(***************************************************************************)
LEMMA ActiveFilledStep ==
    ASSUME Inv, [Next]_vars
    PROVE  ActiveFilled'
<1>1. PoolType /\ ActiveFilled /\ GrowthFilled /\ Changed
  BY ChangedStep DEF Inv
<1>2. 0..(active - 1) \subseteq Slots /\ 0..(active' - 1) \subseteq Slots
  <2>1. active \in 1..Capacity /\ active' \in 1..Capacity
    BY <1>1, PoolTypeStep DEF PoolType
  <2>2. \A n \in 1..Capacity : 0..(n - 1) \subseteq Slots
    BY Capacities DEF Slots
  <2> QED  BY <2>1, <2>2
<1>3. CASE active' = active
  BY <1>1, <1>2, <1>3, SlotsStayFilled DEF ActiveFilled
<1>4. ASSUME NEW r \in Requesters, GrowOnePublish(r)
      PROVE  ActiveFilled'
  <2>1. active' = active + 1 /\ slot' = slot /\ Top(r) = active + 1
    BY <1>4 DEF GrowOnePublish, Top
  <2>2. \A i \in active..(Top(r) - 1) : slot[i] # 0
    BY <1>1, <1>4, ThreadKinds DEF GrowOnePublish, At, GrowthFilled
  <2> QED  BY <1>1, <2>1, <2>2 DEF ActiveFilled, PoolType
<1>5. ASSUME NEW g \in Growers, GrowPublish(g)
      PROVE  ActiveFilled'
  <2>1. active' = Target /\ slot' = slot /\ Top(g) = Target
    BY <1>5, KindsDisjoint DEF GrowPublish, Top
  <2>2. \A i \in active..(Target - 1) : slot[i] # 0
    BY <1>1, <1>5, <2>1, ThreadKinds DEF GrowPublish, At, GrowthFilled
  <2>3. Target \in Nat
    BY Capacities
  <2> QED  BY <1>1, <2>1, <2>2, <2>3 DEF ActiveFilled, PoolType
<1> QED
  BY <1>1, <1>3, <1>4, <1>5 DEF Changed

(***************************************************************************)
(* The worker a restart is about to install is the one it spawned.         *)
(***************************************************************************)
LEMMA InHandStep ==
    ASSUME Inv, [Next]_vars
    PROVE  InHand'
<1>1. /\ PoolType /\ Shape /\ Locals /\ InHand
      /\ Grows /\ \A u \in Threads : Entered(u)
  BY WorkersStep, EnteredStep DEF Inv
<1> SUFFICES ASSUME NEW u \in Restarters, th'[u].pc = "install"
             PROVE  \E w \in 1..Len(workers') : th'[u].new = {w} /\ workers'[w].home = th'[u].idx
  BY DEF InHand
<1>2. u \in Threads
  BY ThreadKinds
<1>3. CASE th'[u] = th[u]
  BY <1>1, <1>3 DEF InHand, Grows
<1>4. CASE RestartSpawn(u)
  <2>1. th[u].idx \in Slots /\ Len(workers) \in Nat
    BY <1>1, <1>2 DEF Locals, PoolType
  <2>2. /\ Len(workers') = Len(workers) + 1
        /\ workers'[Len(workers) + 1] = NewWorker(th[u].idx)
    BY <1>1, <1>4, <2>1, SpawnedParts DEF RestartSpawn, PoolType
  <2>3. workers'[Len(workers) + 1].home = th[u].idx
    BY <2>2 DEF NewWorker
  <2>4. th'[u].new = {Len(workers) + 1} /\ th'[u].idx = th[u].idx
    BY <1>1, <1>2, <1>4 DEF RestartSpawn, Shape
  <2>5. Len(workers) + 1 \in 1..Len(workers')
    BY <2>1, <2>2
  <2> QED  BY <2>3, <2>4, <2>5
<1> QED
  BY <1>1, <1>2, <1>3, <1>4, KindsDisjoint DEF Entered, Settled, Restarters

(***************************************************************************)
(* A growth that has begun still has slots to fill: nobody else grows.     *)
(***************************************************************************)
LEMMA TopFreeStep ==
    ASSUME Inv, [Next]_vars
    PROVE  TopFree'
<1>1. PoolType /\ Shape /\ TopFree /\ \A u \in Threads : Entered(u)
  BY EnteredStep DEF Inv
<1> SUFFICES ASSUME NEW u \in AddWorkers, HoldsGrowth(u)'
             PROVE  active' < Top(u)' /\ Top(u)' <= Capacity
  BY DEF TopFree
<1>2. u \in Threads /\ u \notin Broadcasters /\ u \notin Closers
  BY ThreadKinds, KindsDisjoint DEF AddWorkers
<1>3. th'[u].pc \in {"grow", "store", "publish"}
  BY <1>2 DEF HoldsGrowth
<1>4. CASE HoldsGrowth(u) /\ active' = active
  BY <1>1, <1>4 DEF TopFree, Top
<1>5. CASE th'[u] = th[u]
  <2>1. HoldsGrowth(u)
    BY <1>3, <1>5 DEF HoldsGrowth
  <2> QED  BY <1>4, <1>5, <2>1, WhileGrowing
<1>6. CASE u \in Requesters /\ TryGrow(u)
  <2>1. active < Capacity /\ active' = active
    BY <1>6 DEF TryGrow
  <2> QED  BY <1>1, <1>6, <2>1, Capacities DEF Top, PoolType
<1>7. CASE u \in Growers /\ GrowLock(u) /\ th'[u].pc = "grow"
  <2>1. Target > active
    <3>1. ASSUME ~ (state = "running" /\ Target > active)
          PROVE  FALSE
      <4>1. Goto(u, "done")
        BY <1>7, <3>1 DEF GrowLock
      <4>2. th'[u].pc = "done"
        BY <1>1, <1>2, <4>1 DEF Goto, Shape
      <4> QED  BY <1>7, <4>2
    <3> QED  BY <3>1
  <2>2. active' = active /\ Top(u)' = Target
    BY <1>7, KindsDisjoint DEF GrowLock, Top
  <2> QED  BY <1>1, <2>1, <2>2, Capacities DEF PoolType
<1>8. CASE \/ u \in Requesters /\ (GrowOne(u) \/ GrowOneStore(u))
           \/ u \in Growers /\ (GrowSpawn(u) \/ GrowStore(u))
  <2>1. active' = active /\ th[u].pc \in {"grow", "store"}
    BY <1>8 DEF GrowOne, GrowOneStore, GrowSpawn, GrowStore, At, pool
  <2> QED  BY <1>4, <2>1 DEF HoldsGrowth
<1> QED
  BY <1>1, <1>2, <1>3, <1>5, <1>6, <1>7, <1>8, KindsDisjoint DEF Entered, Settled, AddWorkers

(***************************************************************************)
(* A growth keeps one worker for each slot it is about to fill.            *)
(***************************************************************************)
LEMMA GrowthInHandStep ==
    ASSUME Inv, [Next]_vars
    PROVE  GrowthInHand'
<1>1. /\ PoolType /\ Shape /\ Locals /\ GrowthInHand
      /\ Grows /\ \A u \in Threads : Entered(u)
  BY WorkersStep, EnteredStep DEF Inv
<1>2. Len(workers) \in Nat /\ active \in Nat /\ Target \in Nat
  BY <1>1, Capacities DEF PoolType
<1> DEFINE Fits(u) ==
      /\ th[u].new \subseteq 1..Len(workers)
      /\ \A w \in th[u].new : workers[w].home \in active..(Top(u) - 1)
      /\ \A i \in active..(Top(u) - 1) : \E w \in th[u].new : workers[w].home = i
      /\ \A v, w \in th[u].new : workers[v].home = workers[w].home => v = w
<1> SUFFICES ASSUME NEW u \in AddWorkers, th'[u].pc = "store"
             PROVE  Fits(u)'
  BY DEF GrowthInHand
<1>3. u \in Threads
  BY ThreadKinds DEF AddWorkers
<1>4. CASE th'[u] = th[u]
  <2>1. Fits(u)
    BY <1>1, <1>4 DEF GrowthInHand
  <2>2. active' = active
    BY <1>4, WhileGrowing DEF HoldsGrowth
  <2>3. \A w \in th[u].new : w \in 1..Len(workers') /\ workers'[w].home = workers[w].home
    BY <1>1, <2>1 DEF Grows
  <2> QED  BY <1>4, <2>1, <2>2, <2>3 DEF Top
<1>5. CASE u \in Requesters /\ GrowOne(u)
  <2>1. active \in Slots /\ active' = active /\ Top(u)' = active + 1
    <3>1. active < Capacity
      BY <1>2, <1>3, <1>5, TopLimit, Capacities DEF HoldsGrowth, GrowOne, At, Top
    <3> QED  BY <1>2, <1>5, <3>1, Capacities DEF Slots, GrowOne, pool, Top
  <2>2. /\ Len(workers') = Len(workers) + 1
        /\ workers'[Len(workers) + 1] = NewWorker(active)
    BY <1>1, <1>5, <2>1, SpawnedParts DEF GrowOne, PoolType
  <2>3. th'[u].new = {Len(workers) + 1}
    BY <1>1, <1>3, <1>5 DEF GrowOne, Shape
  <2>4. workers'[Len(workers) + 1].home = active
    BY <2>2 DEF NewWorker
  <2>5. active..(active + 1 - 1) = {active}
    BY <1>2
  <2> QED  BY <1>2, <2>1, <2>2, <2>3, <2>4, <2>5
<1>6. CASE u \in Growers /\ GrowSpawn(u)
  <2> DEFINE n == Target - active
  <2>1. n \in Nat /\ active + n <= Capacity /\ active' = active /\ Top(u)' = Target
    <3>1. active < Target /\ Target <= Capacity
      BY <1>6, TopLimit, KindsDisjoint DEF HoldsGrowth, GrowSpawn, At, Top
    <3> QED  BY <1>2, <1>6, <3>1, KindsDisjoint, Capacities DEF GrowSpawn, pool, Top
  <2>2. th'[u].new = (Len(workers) + 1)..(Len(workers) + n)
    <3>1. th'[u].new = (Len(workers) + 1)..(Len(workers) + Target - active)
      BY <1>1, <1>3, <1>6 DEF GrowSpawn, Shape
    <3> QED  BY <1>2, <3>1
  <2>3. /\ Len(workers') = Len(workers) + n
        /\ \A k \in 1..n : workers'[Len(workers) + k] = NewWorker(active + k - 1)
    BY <1>1, <1>2, <1>6, <2>1, GrownParts, Capacities DEF GrowSpawn, PoolType
  <2>4. ASSUME NEW k \in 1..n
        PROVE  workers'[Len(workers) + k].home = active + k - 1
    <3>1. workers'[Len(workers) + k] = NewWorker(active + k - 1)
      BY <2>3
    <3> QED  BY <3>1 DEF NewWorker
  <2>5. active + n = Target
    BY <1>2
  <2> HIDE DEF n
  <2>6. ASSUME NEW w \in th'[u].new
        PROVE  /\ w \in Nat /\ w - Len(workers) \in 1..n
               /\ workers'[w].home = active + (w - Len(workers)) - 1
    <3>1. w \in Nat /\ w - Len(workers) \in 1..n /\ Len(workers) + (w - Len(workers)) = w
      BY <1>2, <2>1, <2>2
    <3> QED  BY <3>1, <2>4
  <2>7. ASSUME NEW i \in active..(Target - 1)
        PROVE  \E w \in th'[u].new : workers'[w].home = i
    <3>1. i - active + 1 \in 1..n
      BY <1>2, <2>1, <2>5
    <3>2. Len(workers) + (i - active + 1) \in th'[u].new
      BY <1>2, <2>1, <2>2, <3>1
    <3>3. workers'[Len(workers) + (i - active + 1)].home = active + (i - active + 1) - 1
      BY <2>4, <3>1
    <3>4. active + (i - active + 1) - 1 = i
      BY <1>2
    <3> QED  BY <3>2, <3>3, <3>4
  <2>8. th'[u].new \subseteq 1..Len(workers')
    BY <1>2, <2>1, <2>2, <2>3
  <2>9. \A w \in th'[u].new : workers'[w].home \in active..(Target - 1)
    BY SMTT(30), <1>2, <2>1, <2>5, <2>6
  <2>10. ASSUME NEW v \in th'[u].new, NEW w \in th'[u].new, workers'[v].home = workers'[w].home
         PROVE  v = w
    <3>1. v \in Nat /\ workers'[v].home = active + (v - Len(workers)) - 1
      BY <2>6
    <3>2. w \in Nat /\ workers'[w].home = active + (w - Len(workers)) - 1
      BY <2>6
    <3>3. active + (v - Len(workers)) - 1 = active + (w - Len(workers)) - 1
      BY <2>10, <3>1, <3>2
    <3> QED  BY <1>2, <3>1, <3>2, <3>3
  <2> QED  BY <2>1, <2>7, <2>8, <2>9, <2>10
<1> HIDE DEF Fits
<1> QED
  BY <1>1, <1>3, <1>4, <1>5, <1>6, KindsDisjoint DEF Entered, Settled, AddWorkers

(***************************************************************************)
(* What a growth has stored is still there when it publishes.              *)
(***************************************************************************)
LEMMA GrowthFilledStep ==
    ASSUME Inv, [Next]_vars
    PROVE  GrowthFilled'
<1>1. /\ PoolType /\ Shape /\ Locals /\ GrowthInHand /\ GrowthFilled
      /\ \A u \in Threads : Entered(u)
  BY EnteredStep DEF Inv
<1>2. active \in Nat /\ Target \in Nat /\ Capacity \in Nat
  BY <1>1, Capacities DEF PoolType
<1> SUFFICES ASSUME NEW u \in AddWorkers, th'[u].pc = "publish",
                    NEW i \in active'..(Top(u)' - 1)
             PROVE  slot'[i] # 0
  BY DEF GrowthFilled
<1>3. u \in Threads
  BY ThreadKinds DEF AddWorkers
<1>4. CASE th'[u] = th[u]
  <2>1. active' = active /\ Top(u)' = Top(u) /\ Top(u) <= Capacity
    BY <1>4, WhileGrowing, TopLimit DEF HoldsGrowth, Top
  <2>2. slot[i] # 0
    BY <1>1, <1>4, <2>1 DEF GrowthFilled
  <2>3. i \in Slots
    BY <1>2, <2>1, Capacities DEF Slots, Top
  <2> QED  BY <2>2, <2>3, SlotsStayFilled
<1>5. CASE u \in Requesters /\ GrowOneStore(u)
  <2>1. active' = active /\ Top(u)' = active + 1 /\ active < Capacity
    BY <1>2, <1>5, TopLimit DEF HoldsGrowth, GrowOneStore, At, Top
  <2>2. i = active /\ i \in Slots
    BY <1>2, <2>1 DEF Slots
  <2>3. PICK w \in th[u].new : slot' = [slot EXCEPT ![active] = w]
    BY <1>5 DEF GrowOneStore
  <2>4. w # 0
    BY <1>1, <1>5 DEF GrowOneStore, At, GrowthInHand
  <2> QED  BY <1>1, <2>2, <2>3, <2>4 DEF PoolType
<1>6. CASE u \in Growers /\ GrowStore(u)
  <2>1. active' = active /\ Top(u)' = Target /\ Top(u) = Target /\ Target <= Capacity
    BY <1>6, KindsDisjoint, Capacities DEF GrowStore, Top
  <2>2. i \in active..(Target - 1) /\ i \in Slots
    BY <1>2, <2>1 DEF Slots
  <2>3. /\ \E w \in th[u].new : workers[w].home = i
        /\ th[u].new \subseteq 1..Len(workers)
    BY <1>1, <1>6, <2>1, <2>2 DEF GrowStore, At, GrowthInHand
  <2>4. slot'[i] = CHOOSE w \in th[u].new : workers[w].home = i
    BY <1>6, <2>2, <2>3 DEF GrowStore
  <2>5. slot'[i] \in th[u].new
    BY <2>3, <2>4
  <2> QED  BY <2>3, <2>5
<1> QED
  BY <1>1, <1>3, <1>4, <1>5, <1>6, KindsDisjoint DEF Entered, Settled, AddWorkers

(***************************************************************************)
(* active_workers never decreases.                                         *)
(***************************************************************************)
LEMMA ActiveGrows ==
    ASSUME Inv, [Next]_vars
    PROVE  active \in Nat /\ active' \in Nat /\ active <= active'
<1>1. PoolType /\ Changed
  BY ChangedStep DEF Inv
<1>2. active \in Nat
  BY <1>1, Capacities DEF PoolType
<1>3. ASSUME NEW g \in Growers, GrowPublish(g)
      PROVE  active' = Target /\ active < Target
  BY <1>3, TopLimit, KindsDisjoint, ThreadKinds DEF HoldsGrowth, GrowPublish, At, Top
<1>4. ASSUME NEW r \in Requesters, GrowOnePublish(r)
      PROVE  active' = active + 1
  BY <1>4 DEF GrowOnePublish
<1> QED
  BY <1>1, <1>2, <1>3, <1>4, Capacities DEF Changed

(***************************************************************************)
(* Requests and broadcasts visit active slots only.                        *)
(***************************************************************************)
LEMMA LeftActiveStep ==
    ASSUME Inv, [Next]_vars
    PROVE  LeftActive'
<1> PoolType /\ Shape /\ Locals /\ LeftActive /\ TeamActive  BY DEF Inv
<1> active \in Nat  BY ActiveGrows
<1> USE DEF Shape, LeftActive, TeamActive, Goto, At, pool, LeftBelow
<1>1. ASSUME NEW t \in Restarters, ScanLive(t) PROVE LeftBelow
  <2>1. \E i \in th[t].left : Found(t, i, slot[i])
    BY <1>1 DEF ScanLive
  <2> QED  BY <2>1, ThreadKinds, KindsDisjoint, FoundFields DEF Others
<1>2. ASSUME NEW t \in Restarters, ScanDead(t) PROVE LeftBelow
  BY <1>2, ThreadKinds, KindsDisjoint DEF ScanDead
<1>3. ASSUME NEW t \in Restarters, RestartReuse(t) PROVE LeftBelow
  <2>1. Restarted(t, slot[th[t].idx])
    BY <1>3 DEF RestartReuse
  <2> QED  BY <2>1, ThreadKinds, KindsDisjoint, RestartedFields DEF Others
<1>4. ASSUME NEW t \in Restarters,
         RestartBegin(t) \/ RestartSpawn(t)
      PROVE  LeftBelow
  BY <1>4, ThreadKinds, KindsDisjoint DEF RestartBegin, RestartSpawn
<1>5. ASSUME NEW t \in Restarters, SpawnFails(t) PROVE LeftBelow
  <2>1. NotRestarted(t)
    BY <1>5 DEF SpawnFails
  <2> QED  BY <2>1, ThreadKinds, KindsDisjoint, NotRestartedFields DEF Others
<1>6. ASSUME NEW t \in Restarters, ReplayFails(t) PROVE LeftBelow
  <2>1. NotRestarted(t)
    BY <1>6 DEF ReplayFails
  <2> QED  BY <2>1, ThreadKinds, KindsDisjoint, NotRestartedFields DEF Others
<1>7. ASSUME NEW t \in Restarters, RestartInstall(t) PROVE LeftBelow
  <2>1. \E w \in th[t].new : Restarted(t, w)
    BY <1>7 DEF RestartInstall
  <2> QED  BY <2>1, ThreadKinds, KindsDisjoint, RestartedFields DEF Others
<1>8. ASSUME NEW t \in Restarters,
         RecoverSkip(t) \/ Recover(t)
      PROVE  LeftBelow
  BY <1>8, ThreadKinds, KindsDisjoint DEF RecoverSkip, Recover
<1>9. ASSUME NEW t \in Restarters, RecoverMatch(t) PROVE LeftBelow
  <2>1. CASE slot[th[t].pick.slot] = th[t].pick.worker
    <3>1. th' = [th EXCEPT ![t].pc = "restart", ![t].back = "recover",
                             ![t].idx = th[t].pick.slot, ![t].old = th[t].pick.worker]
      BY <1>9, <2>1 DEF RecoverMatch
    <3> QED  BY <1>9, <3>1, ThreadKinds, KindsDisjoint DEF RecoverMatch
  <2>2. CASE slot[th[t].pick.slot] # th[t].pick.worker
    <3>1. th' = [th EXCEPT ![t].pc = "release"]
      BY <1>9, <2>2 DEF RecoverMatch
    <3> QED  BY <1>9, <3>1, ThreadKinds, KindsDisjoint DEF RecoverMatch
  <2> QED  BY <2>1, <2>2
<1>10. ASSUME NEW t \in Restarters, Release(t) PROVE LeftBelow
  BY <1>10, ThreadKinds, KindsDisjoint DEF Release
<1>11. ASSUME NEW r \in Requesters,
         RequestRefused(r) \/ RequestStart(r) \/ NoneFound(r) \/ TryGrow(r) \/ GrowOne(r)
         \/ GrowOneFails(r)
      PROVE  LeftBelow
  BY <1>11, ThreadKinds, KindsDisjoint
    DEF RequestRefused, RequestStart, NoneFound, TryGrow, GrowOne, GrowOneFails
<1>12. ASSUME NEW r \in Requesters,
         GrowOneStore(r) \/ GrowOnePublish(r) \/ KeepPick(r) \/ Reserve(r)
         \/ ReserveChecked(r) \/ ReserveDropped(r)
      PROVE  LeftBelow
  BY <1>12, ThreadKinds, KindsDisjoint
    DEF GrowOneStore, GrowOnePublish, KeepPick, Reserve, ReserveChecked, ReserveDropped
<1>13. ASSUME NEW r \in Requesters,
         ExchangeOk(r) \/ ExchangeFails(r)
      PROVE  LeftBelow
  BY <1>13, ThreadKinds, KindsDisjoint DEF ExchangeOk, ExchangeFails
<1>14. ASSUME NEW b \in Broadcasters,
         BroadcastRefused(b) \/ BroadcastStart(b)
      PROVE  LeftBelow
  BY <1>14, ThreadKinds, KindsDisjoint DEF BroadcastRefused, BroadcastStart
<1>15. ASSUME NEW b \in Broadcasters, BroadcastLock(b) PROVE LeftBelow
  <2>1. CASE state = "running"
    <3>1. th' = [th EXCEPT ![b].pc = "scan", ![b].left = 0..(active - 1)]
      BY <1>15, <2>1 DEF BroadcastLock
    <3> QED  BY <1>15, <3>1, ThreadKinds, KindsDisjoint DEF BroadcastLock
  <2>2. CASE state # "running"
    <3>1. th' = [th EXCEPT ![b].pc = "done"]
      BY <1>15, <2>2 DEF BroadcastLock
    <3> QED  BY <1>15, <3>1, ThreadKinds, KindsDisjoint DEF BroadcastLock
  <2> QED  BY <2>1, <2>2
<1>16. ASSUME NEW b \in Broadcasters, BroadcastSpread(b) PROVE LeftBelow
  BY <1>16, ThreadKinds, KindsDisjoint DEF BroadcastSpread
<1>17. ASSUME NEW b \in Broadcasters, BroadcastAnswered(b) PROVE LeftBelow
  BY <1>17, ThreadKinds, KindsDisjoint DEF BroadcastAnswered
<1>18. ASSUME NEW b \in Broadcasters, BroadcastFailed(b) PROVE LeftBelow
  BY <1>18, ThreadKinds, KindsDisjoint DEF BroadcastFailed
<1>19. ASSUME NEW b \in Broadcasters, BroadcastJoin(b) PROVE LeftBelow
  BY <1>19, ThreadKinds, KindsDisjoint DEF BroadcastJoin
<1>20. ASSUME NEW b \in Broadcasters, BroadcastSettle(b) PROVE LeftBelow
  BY <1>20, ThreadKinds, KindsDisjoint DEF BroadcastSettle
<1>21. ASSUME NEW b \in Broadcasters, BroadcastEnd(b) PROVE LeftBelow
  BY <1>21, ThreadKinds, KindsDisjoint DEF BroadcastEnd
<1>22. ASSUME NEW g \in Growers,
         PrepareSkip(g) \/ PrepareStart(g) \/ PrepareFails(g)
      PROVE  LeftBelow
  BY <1>22, ThreadKinds, KindsDisjoint DEF PrepareSkip, PrepareStart, PrepareFails
<1>23. ASSUME NEW g \in Growers, GrowLock(g) PROVE LeftBelow
  <2>1. CASE state = "running" /\ Target > active
    <3>1. th' = [th EXCEPT ![g].pc = "grow"] /\ growth' = g
      BY <1>23, <2>1 DEF GrowLock
    <3> QED  BY <1>23, <3>1, ThreadKinds, KindsDisjoint DEF GrowLock
  <2>2. CASE ~ (state = "running" /\ Target > active)
    <3>1. th' = [th EXCEPT ![g].pc = "done"] /\ growth' = growth
      BY <1>23, <2>2 DEF GrowLock
    <3> QED  BY <1>23, <3>1, ThreadKinds, KindsDisjoint DEF GrowLock
  <2> QED  BY <2>1, <2>2
<1>24. ASSUME NEW g \in Growers,
         GrowSpawn(g) \/ GrowFails(g) \/ GrowStore(g) \/ GrowPublish(g)
      PROVE  LeftBelow
  BY <1>24, ThreadKinds, KindsDisjoint DEF GrowSpawn, GrowFails, GrowStore, GrowPublish
<1>25. ASSUME NEW z \in Closers,
         CloseSkip(z) \/ CloseStart(z) \/ CloseLock(z)
      PROVE  LeftBelow
  BY <1>25, ThreadKinds, KindsDisjoint DEF CloseSkip, CloseStart, CloseLock
<1>26. ASSUME NEW z \in Closers, Gather(z) PROVE LeftBelow
  <2>1. CASE Running(slot[Min(th[z].left)])
    <3>1. th' = [th EXCEPT ![z].left = @ \ {Min(th[z].left)},
                             ![z].team = @ \cup {<<Min(th[z].left), slot[Min(th[z].left)]>>}]
      BY <1>26, <2>1 DEF Gather
    <3> QED  BY <1>26, <3>1, ThreadKinds, KindsDisjoint DEF Gather
  <2>2. CASE ~ Running(slot[Min(th[z].left)])
    <3>1. th' = [th EXCEPT ![z].pc = "halt"]
      BY <1>26, <2>2 DEF Gather
    <3> QED  BY <1>26, <3>1, ThreadKinds, KindsDisjoint DEF Gather
  <2> QED  BY <2>1, <2>2
<1>27. ASSUME NEW z \in Closers,
         Drained(z) \/ Collect(z) \/ CollectSkip(z) \/ Reduce(z) \/ Halt(z) \/ Sweep(z)
      PROVE  LeftBelow
  BY <1>27, ThreadKinds, KindsDisjoint DEF Drained, Collect, CollectSkip, Reduce, Halt, Sweep
<1>28. ASSUME NEW z \in Closers, StopAll(z) PROVE LeftBelow
  BY <1>28, ThreadKinds, KindsDisjoint DEF StopAll
<1>29. ASSUME Crash PROVE LeftBelow
  BY <1>29, ThreadKinds, KindsDisjoint DEF Crash
<1>30. ASSUME Finished \/ UNCHANGED vars PROVE LeftBelow
  BY <1>30, ThreadKinds, KindsDisjoint DEF Finished, vars
<1> HIDE DEF LeftBelow
<1>31. LeftBelow
  BY <1>1, <1>2, <1>3, <1>4, <1>5, <1>6, <1>7, <1>8, <1>9, <1>10, <1>11, <1>12, <1>13, <1>14,
       <1>15, <1>16, <1>17, <1>18, <1>19, <1>20, <1>21, <1>22, <1>23, <1>24, <1>25, <1>26,
       <1>27, <1>28, <1>29, <1>30
    DEF Next, RestartStep, RecoverStep, RequestStep, BroadcastStep, GrowStep, CloseStep,
       Restarters
<1> QED
  BY <1>31, ActiveGrows, LocalsStep, ThreadKinds DEF LeftBelow, LeftActive, Locals, Slots

(***************************************************************************)
(* A broadcast collects workers of active slots.                           *)
(***************************************************************************)
LEMMA TeamActiveStep ==
    ASSUME Inv, [Next]_vars
    PROVE  TeamActive'
<1> PoolType /\ Shape /\ Locals /\ TeamActive /\ LeftActive /\ RestartActive /\ InHand
  BY DEF Inv
<1> USE DEF Shape, TeamActive, Goto, At, pool, TeamKnown
<1>1. ASSUME NEW t \in Restarters, ScanLive(t) PROVE TeamKnown
  <2>1. PICK i \in th[t].left : Found(t, i, slot[i])
    BY <1>1 DEF ScanLive
  <2>2. i < active /\ slot[i] \in 1..Len(workers)
    BY ThreadKinds, SlotOccupied, Capacities DEF LeftActive, Locals, Slots
  <2> QED  BY <2>1, <2>2, ThreadKinds, KindsDisjoint, FoundFields DEF Others
<1>2. ASSUME NEW t \in Restarters, ScanDead(t) PROVE TeamKnown
  BY <1>2, ThreadKinds, KindsDisjoint DEF ScanDead
<1>3. ASSUME NEW t \in Restarters, RestartReuse(t) PROVE TeamKnown
  <2>1. Restarted(t, slot[th[t].idx]) /\ th[t].pc = "restart"
    BY <1>3 DEF RestartReuse
  <2>2. th[t].idx < active /\ slot[th[t].idx] \in 1..Len(workers)
    BY <2>1, ThreadKinds, SlotOccupied, Capacities DEF RestartActive, Locals, Slots
  <2> QED  BY <2>1, <2>2, ThreadKinds, KindsDisjoint, RestartedFields DEF Others
<1>4. ASSUME NEW t \in Restarters,
         RestartBegin(t) \/ RestartSpawn(t)
      PROVE  TeamKnown
  BY <1>4, ThreadKinds, KindsDisjoint DEF RestartBegin, RestartSpawn
<1>5. ASSUME NEW t \in Restarters, SpawnFails(t) PROVE TeamKnown
  <2>1. NotRestarted(t)
    BY <1>5 DEF SpawnFails
  <2> QED  BY <2>1, ThreadKinds, KindsDisjoint, NotRestartedFields DEF Others
<1>6. ASSUME NEW t \in Restarters, ReplayFails(t) PROVE TeamKnown
  <2>1. NotRestarted(t)
    BY <1>6 DEF ReplayFails
  <2> QED  BY <2>1, ThreadKinds, KindsDisjoint, NotRestartedFields DEF Others
<1>7. ASSUME NEW t \in Restarters, RestartInstall(t) PROVE TeamKnown
  <2>1. PICK w \in th[t].new : Restarted(t, w) /\ th[t].pc = "install"
    BY <1>7 DEF RestartInstall
  <2>2. th[t].idx < active /\ w \in 1..Len(workers)
    BY <2>1 DEF RestartActive, InHand
  <2> QED  BY <2>1, <2>2, ThreadKinds, KindsDisjoint, RestartedFields DEF Others
<1>8. ASSUME NEW t \in Restarters,
         RecoverSkip(t) \/ Recover(t)
      PROVE  TeamKnown
  BY <1>8, ThreadKinds, KindsDisjoint DEF RecoverSkip, Recover
<1>9. ASSUME NEW t \in Restarters, RecoverMatch(t) PROVE TeamKnown
  <2>1. CASE slot[th[t].pick.slot] = th[t].pick.worker
    <3>1. th' = [th EXCEPT ![t].pc = "restart", ![t].back = "recover",
                             ![t].idx = th[t].pick.slot, ![t].old = th[t].pick.worker]
      BY <1>9, <2>1 DEF RecoverMatch
    <3> QED  BY <1>9, <3>1, ThreadKinds, KindsDisjoint DEF RecoverMatch
  <2>2. CASE slot[th[t].pick.slot] # th[t].pick.worker
    <3>1. th' = [th EXCEPT ![t].pc = "release"]
      BY <1>9, <2>2 DEF RecoverMatch
    <3> QED  BY <1>9, <3>1, ThreadKinds, KindsDisjoint DEF RecoverMatch
  <2> QED  BY <2>1, <2>2
<1>10. ASSUME NEW t \in Restarters, Release(t) PROVE TeamKnown
  BY <1>10, ThreadKinds, KindsDisjoint DEF Release
<1>11. ASSUME NEW r \in Requesters,
         RequestRefused(r) \/ RequestStart(r) \/ NoneFound(r) \/ TryGrow(r) \/ GrowOne(r)
         \/ GrowOneFails(r)
      PROVE  TeamKnown
  BY <1>11, ThreadKinds, KindsDisjoint
    DEF RequestRefused, RequestStart, NoneFound, TryGrow, GrowOne, GrowOneFails
<1>12. ASSUME NEW r \in Requesters,
         GrowOneStore(r) \/ GrowOnePublish(r) \/ KeepPick(r) \/ Reserve(r)
         \/ ReserveChecked(r) \/ ReserveDropped(r)
      PROVE  TeamKnown
  BY <1>12, ThreadKinds, KindsDisjoint
    DEF GrowOneStore, GrowOnePublish, KeepPick, Reserve, ReserveChecked, ReserveDropped
<1>13. ASSUME NEW r \in Requesters,
         ExchangeOk(r) \/ ExchangeFails(r)
      PROVE  TeamKnown
  BY <1>13, ThreadKinds, KindsDisjoint DEF ExchangeOk, ExchangeFails
<1>14. ASSUME NEW b \in Broadcasters,
         BroadcastRefused(b) \/ BroadcastStart(b)
      PROVE  TeamKnown
  BY <1>14, ThreadKinds, KindsDisjoint DEF BroadcastRefused, BroadcastStart
<1>15. ASSUME NEW b \in Broadcasters, BroadcastLock(b) PROVE TeamKnown
  <2>1. CASE state = "running"
    <3>1. th' = [th EXCEPT ![b].pc = "scan", ![b].left = 0..(active - 1)]
      BY <1>15, <2>1 DEF BroadcastLock
    <3> QED  BY <1>15, <3>1, ThreadKinds, KindsDisjoint DEF BroadcastLock
  <2>2. CASE state # "running"
    <3>1. th' = [th EXCEPT ![b].pc = "done"]
      BY <1>15, <2>2 DEF BroadcastLock
    <3> QED  BY <1>15, <3>1, ThreadKinds, KindsDisjoint DEF BroadcastLock
  <2> QED  BY <2>1, <2>2
<1>16. ASSUME NEW b \in Broadcasters, BroadcastSpread(b) PROVE TeamKnown
  BY <1>16, ThreadKinds, KindsDisjoint DEF BroadcastSpread
<1>17. ASSUME NEW b \in Broadcasters, BroadcastAnswered(b) PROVE TeamKnown
  BY <1>17, ThreadKinds, KindsDisjoint DEF BroadcastAnswered
<1>18. ASSUME NEW b \in Broadcasters, BroadcastFailed(b) PROVE TeamKnown
  BY <1>18, ThreadKinds, KindsDisjoint DEF BroadcastFailed
<1>19. ASSUME NEW b \in Broadcasters, BroadcastJoin(b) PROVE TeamKnown
  BY <1>19, ThreadKinds, KindsDisjoint DEF BroadcastJoin
<1>20. ASSUME NEW b \in Broadcasters, BroadcastSettle(b) PROVE TeamKnown
  BY <1>20, ThreadKinds, KindsDisjoint DEF BroadcastSettle
<1>21. ASSUME NEW b \in Broadcasters, BroadcastEnd(b) PROVE TeamKnown
  BY <1>21, ThreadKinds, KindsDisjoint DEF BroadcastEnd
<1>22. ASSUME NEW g \in Growers,
         PrepareSkip(g) \/ PrepareStart(g) \/ PrepareFails(g)
      PROVE  TeamKnown
  BY <1>22, ThreadKinds, KindsDisjoint DEF PrepareSkip, PrepareStart, PrepareFails
<1>23. ASSUME NEW g \in Growers, GrowLock(g) PROVE TeamKnown
  <2>1. CASE state = "running" /\ Target > active
    <3>1. th' = [th EXCEPT ![g].pc = "grow"] /\ growth' = g
      BY <1>23, <2>1 DEF GrowLock
    <3> QED  BY <1>23, <3>1, ThreadKinds, KindsDisjoint DEF GrowLock
  <2>2. CASE ~ (state = "running" /\ Target > active)
    <3>1. th' = [th EXCEPT ![g].pc = "done"] /\ growth' = growth
      BY <1>23, <2>2 DEF GrowLock
    <3> QED  BY <1>23, <3>1, ThreadKinds, KindsDisjoint DEF GrowLock
  <2> QED  BY <2>1, <2>2
<1>24. ASSUME NEW g \in Growers,
         GrowSpawn(g) \/ GrowFails(g) \/ GrowStore(g) \/ GrowPublish(g)
      PROVE  TeamKnown
  BY <1>24, ThreadKinds, KindsDisjoint DEF GrowSpawn, GrowFails, GrowStore, GrowPublish
<1>25. ASSUME NEW z \in Closers,
         CloseSkip(z) \/ CloseStart(z) \/ CloseLock(z)
      PROVE  TeamKnown
  BY <1>25, ThreadKinds, KindsDisjoint DEF CloseSkip, CloseStart, CloseLock
<1>26. ASSUME NEW z \in Closers, Gather(z) PROVE TeamKnown
  <2>1. CASE Running(slot[Min(th[z].left)])
    <3>1. th' = [th EXCEPT ![z].left = @ \ {Min(th[z].left)},
                             ![z].team = @ \cup {<<Min(th[z].left), slot[Min(th[z].left)]>>}]
      BY <1>26, <2>1 DEF Gather
    <3> QED  BY <1>26, <3>1, ThreadKinds, KindsDisjoint DEF Gather
  <2>2. CASE ~ Running(slot[Min(th[z].left)])
    <3>1. th' = [th EXCEPT ![z].pc = "halt"]
      BY <1>26, <2>2 DEF Gather
    <3> QED  BY <1>26, <3>1, ThreadKinds, KindsDisjoint DEF Gather
  <2> QED  BY <2>1, <2>2
<1>27. ASSUME NEW z \in Closers,
         Drained(z) \/ Collect(z) \/ CollectSkip(z) \/ Reduce(z) \/ Halt(z) \/ Sweep(z)
      PROVE  TeamKnown
  BY <1>27, ThreadKinds, KindsDisjoint DEF Drained, Collect, CollectSkip, Reduce, Halt, Sweep
<1>28. ASSUME NEW z \in Closers, StopAll(z) PROVE TeamKnown
  BY <1>28, ThreadKinds, KindsDisjoint DEF StopAll
<1>29. ASSUME Crash PROVE TeamKnown
  BY <1>29, ThreadKinds, KindsDisjoint DEF Crash
<1>30. ASSUME Finished \/ UNCHANGED vars PROVE TeamKnown
  BY <1>30, ThreadKinds, KindsDisjoint DEF Finished, vars
<1> HIDE DEF TeamKnown
<1>31. TeamKnown
  BY <1>1, <1>2, <1>3, <1>4, <1>5, <1>6, <1>7, <1>8, <1>9, <1>10, <1>11, <1>12, <1>13, <1>14,
       <1>15, <1>16, <1>17, <1>18, <1>19, <1>20, <1>21, <1>22, <1>23, <1>24, <1>25, <1>26,
       <1>27, <1>28, <1>29, <1>30
    DEF Next, RestartStep, RecoverStep, RequestStep, BroadcastStep, GrowStep, CloseStep,
       Restarters
<1> QED
  BY <1>31, ActiveGrows, WorkersStep, LocalsStep, ThreadKinds
    DEF TeamKnown, TeamActive, Grows, Locals, Slots

(***************************************************************************)
(* A request picks a worker of an active slot, or of the one it adds.      *)
(***************************************************************************)
LEMMA PickActiveStep ==
    ASSUME Inv, [Next]_vars
    PROVE  PickActive'
<1> /\ PoolType /\ Shape /\ Locals /\ TeamActive /\ LeftActive /\ RestartActive
    /\ PickActive /\ InHand /\ GrowthInHand
  BY DEF Inv
<1> /\ active \in Nat /\ active' \in Nat /\ active <= active'
    /\ Len(workers) \in Nat /\ Len(workers') \in Nat /\ Len(workers) <= Len(workers')
  BY ActiveGrows, WorkersStep DEF Grows
<1> \A u \in Restarters : th[u].pick.slot \in Nat
  BY ThreadKinds DEF Locals, Slots
<1> USE DEF Shape, PickActive, Goto, At, pool
<1>1. ASSUME NEW t \in Restarters, ScanLive(t) PROVE PickActive'
  <2>1. PICK i \in th[t].left : Found(t, i, slot[i])
    BY <1>1 DEF ScanLive
  <2>2. i < active /\ slot[i] \in 1..Len(workers) /\ th[t].pc = "scan" /\ active' = active
    BY <1>1, ThreadKinds, SlotOccupied, Capacities DEF LeftActive, Locals, Slots, ScanLive
  <2> QED  BY <2>1, <2>2, ThreadKinds, KindsDisjoint, FoundFields DEF Others
<1>2. ASSUME NEW t \in Restarters, ScanDead(t) PROVE PickActive'
  BY <1>2, ThreadKinds, KindsDisjoint DEF ScanDead
<1>3. ASSUME NEW t \in Restarters, RestartReuse(t) PROVE PickActive'
  <2>1. Restarted(t, slot[th[t].idx]) /\ th[t].pc = "restart" /\ active' = active
    BY <1>3 DEF RestartReuse
  <2>2. th[t].idx < active /\ slot[th[t].idx] \in 1..Len(workers)
    BY <2>1, ThreadKinds, SlotOccupied, Capacities DEF RestartActive, Locals, Slots
  <2> QED  BY <2>1, <2>2, ThreadKinds, KindsDisjoint, RestartedFields DEF Others
<1>4. ASSUME NEW t \in Restarters,
         RestartBegin(t) \/ RestartSpawn(t)
      PROVE  PickActive'
  BY <1>4, ThreadKinds, KindsDisjoint DEF RestartBegin, RestartSpawn
<1>5. ASSUME NEW t \in Restarters, SpawnFails(t) PROVE PickActive'
  <2>1. NotRestarted(t) /\ active' = active /\ th[t].pc = "spawn"
    BY <1>5 DEF SpawnFails
  <2> QED  BY <2>1, ThreadKinds, KindsDisjoint, NotRestartedFields DEF Others
<1>6. ASSUME NEW t \in Restarters, ReplayFails(t) PROVE PickActive'
  <2>1. NotRestarted(t) /\ active' = active /\ th[t].pc = "install"
    BY <1>6 DEF ReplayFails
  <2> QED  BY <2>1, ThreadKinds, KindsDisjoint, NotRestartedFields DEF Others
<1>7. ASSUME NEW t \in Restarters, RestartInstall(t) PROVE PickActive'
  <2>1. PICK w \in th[t].new : Restarted(t, w) /\ th[t].pc = "install" /\ active' = active
    BY <1>7 DEF RestartInstall
  <2>2. th[t].idx < active /\ w \in 1..Len(workers)
    BY <2>1 DEF RestartActive, InHand
  <2> QED  BY <2>1, <2>2, ThreadKinds, KindsDisjoint, RestartedFields DEF Others
<1>8. ASSUME NEW t \in Restarters,
         RecoverSkip(t) \/ Recover(t)
      PROVE  PickActive'
  BY <1>8, ThreadKinds, KindsDisjoint DEF RecoverSkip, Recover
<1>9. ASSUME NEW t \in Restarters, RecoverMatch(t) PROVE PickActive'
  <2>1. CASE slot[th[t].pick.slot] = th[t].pick.worker
    <3>1. th' = [th EXCEPT ![t].pc = "restart", ![t].back = "recover",
                             ![t].idx = th[t].pick.slot, ![t].old = th[t].pick.worker]
      BY <1>9, <2>1 DEF RecoverMatch
    <3> QED  BY SMTT(30), <1>9, <3>1, ThreadKinds, KindsDisjoint DEF RecoverMatch
  <2>2. CASE slot[th[t].pick.slot] # th[t].pick.worker
    <3>1. th' = [th EXCEPT ![t].pc = "release"]
      BY <1>9, <2>2 DEF RecoverMatch
    <3> QED  BY <1>9, <3>1, ThreadKinds, KindsDisjoint DEF RecoverMatch
  <2> QED  BY <2>1, <2>2
<1>10. ASSUME NEW t \in Restarters, Release(t) PROVE PickActive'
  BY <1>10, ThreadKinds, KindsDisjoint DEF Release
<1>11. ASSUME NEW r \in Requesters,
         RequestRefused(r) \/ RequestStart(r) \/ NoneFound(r) \/ TryGrow(r) \/ GrowOne(r)
         \/ GrowOneFails(r)
      PROVE  PickActive'
  BY <1>11, ThreadKinds, KindsDisjoint
    DEF RequestRefused, RequestStart, NoneFound, TryGrow, GrowOne, GrowOneFails
<1>12. ASSUME NEW r \in Requesters, GrowOneStore(r) PROVE PickActive'
  BY <1>12, ThreadKinds, KindsDisjoint DEF GrowOneStore
<1>13. ASSUME NEW r \in Requesters, GrowOnePublish(r) PROVE PickActive'
  <2>1. HoldsGrowth(r) /\ th[r].pc = "publish"
    BY <1>13, ThreadKinds DEF GrowOnePublish, HoldsGrowth
  <2>2. \A u \in Restarters : th[u].pc = "publish" => u = r
    BY <2>1, ThreadKinds, OnePublisher
  <2>3. th' = [th EXCEPT ![r].pc = "reserve"] /\ active' = active + 1
    BY <1>13 DEF GrowOnePublish
  <2>4. Others(r) /\ th'[r].pc = "reserve" /\ th'[r].pick = th[r].pick
    BY <2>3, ThreadKinds DEF Others
  <2>5. ASSUME NEW u \in Restarters, u # r
        PROVE  th'[u] = th[u] /\ th[u].pc # "publish"
    BY <2>2, <2>4, <2>5, ThreadKinds DEF Others
  <2>6. active' = active + 1
    BY <2>3
  <2> HIDE DEF Shape
  <2> QED  BY <2>1, <2>4, <2>5, <2>6, ThreadKinds
<1>14. ASSUME NEW r \in Requesters,
         KeepPick(r) \/ Reserve(r) \/ ReserveChecked(r) \/ ReserveDropped(r)
         \/ ExchangeOk(r) \/ ExchangeFails(r)
      PROVE  PickActive'
  BY <1>14, ThreadKinds, KindsDisjoint
    DEF KeepPick, Reserve, ReserveChecked, ReserveDropped, ExchangeOk, ExchangeFails
<1>15. ASSUME NEW b \in Broadcasters,
         BroadcastRefused(b) \/ BroadcastStart(b)
      PROVE  PickActive'
  BY <1>15, ThreadKinds, KindsDisjoint DEF BroadcastRefused, BroadcastStart
<1>16. ASSUME NEW b \in Broadcasters, BroadcastLock(b) PROVE PickActive'
  <2>1. CASE state = "running"
    <3>1. th' = [th EXCEPT ![b].pc = "scan", ![b].left = 0..(active - 1)]
      BY <1>16, <2>1 DEF BroadcastLock
    <3> QED  BY <1>16, <3>1, ThreadKinds, KindsDisjoint DEF BroadcastLock
  <2>2. CASE state # "running"
    <3>1. th' = [th EXCEPT ![b].pc = "done"]
      BY <1>16, <2>2 DEF BroadcastLock
    <3> QED  BY <1>16, <3>1, ThreadKinds, KindsDisjoint DEF BroadcastLock
  <2> QED  BY <2>1, <2>2
<1>17. ASSUME NEW b \in Broadcasters, BroadcastSpread(b) PROVE PickActive'
  BY <1>17, ThreadKinds, KindsDisjoint DEF BroadcastSpread
<1>18. ASSUME NEW b \in Broadcasters, BroadcastAnswered(b) PROVE PickActive'
  BY <1>18, ThreadKinds, KindsDisjoint DEF BroadcastAnswered
<1>19. ASSUME NEW b \in Broadcasters, BroadcastFailed(b) PROVE PickActive'
  BY SMTT(30), <1>19, ThreadKinds, KindsDisjoint DEF BroadcastFailed
<1>20. ASSUME NEW b \in Broadcasters, BroadcastJoin(b) PROVE PickActive'
  BY <1>20, ThreadKinds, KindsDisjoint DEF BroadcastJoin
<1>21. ASSUME NEW b \in Broadcasters, BroadcastSettle(b) PROVE PickActive'
  BY <1>21, ThreadKinds, KindsDisjoint DEF BroadcastSettle
<1>22. ASSUME NEW b \in Broadcasters, BroadcastEnd(b) PROVE PickActive'
  BY <1>22, ThreadKinds, KindsDisjoint DEF BroadcastEnd
<1>23. ASSUME NEW g \in Growers,
         PrepareSkip(g) \/ PrepareStart(g) \/ PrepareFails(g)
      PROVE  PickActive'
  BY <1>23, ThreadKinds, KindsDisjoint DEF PrepareSkip, PrepareStart, PrepareFails
<1>24. ASSUME NEW g \in Growers, GrowLock(g) PROVE PickActive'
  <2>1. CASE state = "running" /\ Target > active
    <3>1. th' = [th EXCEPT ![g].pc = "grow"] /\ growth' = g
      BY <1>24, <2>1 DEF GrowLock
    <3> QED  BY <1>24, <3>1, ThreadKinds, KindsDisjoint DEF GrowLock
  <2>2. CASE ~ (state = "running" /\ Target > active)
    <3>1. th' = [th EXCEPT ![g].pc = "done"] /\ growth' = growth
      BY <1>24, <2>2 DEF GrowLock
    <3> QED  BY <1>24, <3>1, ThreadKinds, KindsDisjoint DEF GrowLock
  <2> QED  BY <2>1, <2>2
<1>25. ASSUME NEW g \in Growers, GrowSpawn(g) PROVE PickActive'
  <2>1. /\ active' = active
        /\ th' = [th EXCEPT ![g].pc = "store",
                            ![g].new = (Len(workers) + 1)..(Len(workers) + Target - active)]
    BY <1>25 DEF GrowSpawn
  <2>2. \A u \in Restarters : th'[u] = th[u]
    BY <2>1, ThreadKinds, KindsDisjoint DEF Restarters
  <2>3. active' = active
    BY <2>1
  <2> HIDE DEF Shape
  <2> QED  BY <2>2, <2>3
<1>26. ASSUME NEW g \in Growers, GrowFails(g) PROVE PickActive'
  BY <1>26, ThreadKinds, KindsDisjoint DEF GrowFails
<1>27. ASSUME NEW g \in Growers, GrowStore(g) PROVE PickActive'
  <2>1. th' = [th EXCEPT ![g].pc = "publish"] /\ active' = active
    BY <1>27 DEF GrowStore
  <2>2. \A u \in Restarters : th'[u] = th[u]
    BY <2>1, ThreadKinds, KindsDisjoint DEF Restarters
  <2>3. active' = active
    BY <2>1
  <2> HIDE DEF Shape
  <2> QED  BY <2>2, <2>3
<1>28. ASSUME NEW g \in Growers, GrowPublish(g) PROVE PickActive'
  <2>1. HoldsGrowth(g)
    BY <1>28, ThreadKinds DEF GrowPublish, HoldsGrowth
  <2>2. \A u \in Restarters : th[u].pc # "publish"
    BY <2>1, ThreadKinds, KindsDisjoint, OnePublisher DEF Restarters
  <2>3. th' = [th EXCEPT ![g].pc = "done"]
    BY <1>28 DEF GrowPublish
  <2>4. \A u \in Restarters : th'[u] = th[u]
    BY <2>3, ThreadKinds, KindsDisjoint DEF Restarters
  <2> HIDE DEF Shape
  <2> QED  BY <2>2, <2>4
<1>29. ASSUME NEW z \in Closers,
         CloseSkip(z) \/ CloseStart(z) \/ CloseLock(z)
      PROVE  PickActive'
  BY <1>29, ThreadKinds, KindsDisjoint DEF CloseSkip, CloseStart, CloseLock
<1>30. ASSUME NEW z \in Closers, Gather(z) PROVE PickActive'
  <2>1. CASE Running(slot[Min(th[z].left)])
    <3>1. th' = [th EXCEPT ![z].left = @ \ {Min(th[z].left)},
                             ![z].team = @ \cup {<<Min(th[z].left), slot[Min(th[z].left)]>>}]
      BY <1>30, <2>1 DEF Gather
    <3> QED  BY SMTT(30), <1>30, <3>1, ThreadKinds, KindsDisjoint DEF Gather
  <2>2. CASE ~ Running(slot[Min(th[z].left)])
    <3>1. th' = [th EXCEPT ![z].pc = "halt"]
      BY <1>30, <2>2 DEF Gather
    <3> QED  BY <1>30, <3>1, ThreadKinds, KindsDisjoint DEF Gather
  <2> QED  BY <2>1, <2>2
<1>31. ASSUME NEW z \in Closers,
         Drained(z) \/ Collect(z) \/ CollectSkip(z) \/ Reduce(z) \/ Halt(z) \/ Sweep(z)
      PROVE  PickActive'
  BY <1>31, ThreadKinds, KindsDisjoint DEF Drained, Collect, CollectSkip, Reduce, Halt, Sweep
<1>32. ASSUME NEW z \in Closers, StopAll(z) PROVE PickActive'
  BY <1>32, ThreadKinds, KindsDisjoint DEF StopAll
<1>33. CASE Crash
  BY <1>33, ThreadKinds, KindsDisjoint DEF Crash
<1>34. CASE Finished \/ UNCHANGED vars
  BY <1>34, ThreadKinds, KindsDisjoint DEF Finished, vars
<1> QED
  BY <1>1, <1>2, <1>3, <1>4, <1>5, <1>6, <1>7, <1>8, <1>9, <1>10, <1>11, <1>12, <1>13, <1>14,
       <1>15, <1>16, <1>17, <1>18, <1>19, <1>20, <1>21, <1>22, <1>23, <1>24, <1>25, <1>26,
       <1>27, <1>28, <1>29, <1>30, <1>31, <1>32, <1>33, <1>34
    DEF Next, RestartStep, RecoverStep, RequestStep, BroadcastStep, GrowStep, CloseStep,
       Restarters

(***************************************************************************)
(* Only the worker of an active slot is restarted.                         *)
(***************************************************************************)
LEMMA RestartActiveStep ==
    ASSUME Inv, [Next]_vars
    PROVE  RestartActive'
<1>1. /\ PoolType /\ Shape /\ Locals /\ LeftActive /\ PickActive /\ RestartActive
      /\ \A u \in Threads : Entered(u)
  BY EnteredStep DEF Inv
<1>2. /\ active \in Nat /\ active' \in Nat /\ active <= active'
      /\ Len(workers) \in Nat /\ Len(workers') \in Nat /\ Len(workers) <= Len(workers')
  BY ActiveGrows, WorkersStep DEF Grows
<1> SUFFICES ASSUME NEW u \in Restarters, th'[u].pc \in {"restart", "spawn", "install"}
             PROVE  th'[u].idx < active' /\ th'[u].old \in 1..Len(workers')
  BY DEF RestartActive
<1>3. u \in Threads /\ th[u].idx \in Nat /\ th[u].pick.slot \in Nat /\ th[u].old \in Nat
  BY <1>1, ThreadKinds DEF Locals, Slots
<1>4. CASE \/ th[u].pc \in {"restart", "spawn", "install"}
              /\ th'[u].idx = th[u].idx /\ th'[u].old = th[u].old
  <2>1. th[u].idx < active /\ th[u].old \in 1..Len(workers)
    BY <1>1, <1>4 DEF RestartActive
  <2> QED  BY <1>2, <1>3, <1>4, <2>1
<1>5. CASE th'[u] = th[u]
  BY <1>4, <1>5
<1>6. CASE RestartBegin(u) \/ RestartSpawn(u)
  <2>1. th[u].pc \in {"restart", "spawn", "install"}
    BY <1>6 DEF RestartBegin, RestartSpawn, At
  <2>2. th'[u].idx = th[u].idx /\ th'[u].old = th[u].old
    BY <1>1, <1>3, <1>6 DEF RestartBegin, RestartSpawn, Goto, Shape
  <2> QED  BY <1>4, <2>1, <2>2
<1>7. CASE ScanDead(u)
  <2>1. PICK i \in th[u].left :
          th' = [th EXCEPT ![u].pc = "restart", ![u].back = "scan",
                           ![u].idx = i, ![u].old = slot[i]]
    BY <1>7 DEF ScanDead
  <2>2. i \in Nat /\ i < active /\ slot[i] \in 1..Len(workers)
    BY <1>1, <1>3, SlotOccupied DEF LeftActive, Locals, Slots
  <2>3. th'[u].idx = i /\ th'[u].old = slot[i]
    BY <1>1, <1>3, <2>1 DEF Shape
  <2> QED  BY <1>2, <2>2, <2>3
<1>8. CASE RecoverMatch(u) /\ th'[u].pc = "restart"
  <2>1. th[u].pc = "match"
    BY <1>8 DEF RecoverMatch, At
  <2>2. th[u].pick.slot < active /\ th[u].pick.worker \in 1..Len(workers)
    BY <1>1, <1>2, <2>1 DEF PickActive
  <2>3. CASE slot[th[u].pick.slot] = th[u].pick.worker
    <3>1. th' = [th EXCEPT ![u].pc = "restart", ![u].back = "recover",
                           ![u].idx = th[u].pick.slot, ![u].old = th[u].pick.worker]
      BY <1>8, <2>3 DEF RecoverMatch
    <3>2. th'[u].idx = th[u].pick.slot /\ th'[u].old = th[u].pick.worker
      BY <1>1, <1>3, <3>1 DEF Shape
    <3> QED  BY <1>2, <1>3, <2>2, <3>2
  <2>4. CASE slot[th[u].pick.slot] # th[u].pick.worker
    <3>1. th' = [th EXCEPT ![u].pc = "release"]
      BY <1>8, <2>4 DEF RecoverMatch, Goto
    <3>2. th'[u].pc = "release"
      BY <1>1, <1>3, <3>1 DEF Shape
    <3> QED  BY <1>8, <3>2
  <2> QED  BY <2>3, <2>4
<1> QED
  BY <1>1, <1>3, <1>5, <1>6, <1>7, <1>8, KindsDisjoint DEF Entered, Settled, Restarters

(***************************************************************************)
(* A request that begins to grow has not spawned a worker yet.             *)
(***************************************************************************)
LEMMA EmptyHandedStep ==
    ASSUME Inv, [Next]_vars
    PROVE  EmptyHanded'
<1>1. /\ Shape /\ EmptyHanded /\ \A u \in Threads : Entered(u)
  BY EnteredStep DEF Inv
<1> SUFFICES ASSUME NEW u \in Requesters, th'[u].pc = "grow"
             PROVE  th'[u].new = {}
  BY DEF EmptyHanded
<1>2. u \in Threads
  BY ThreadKinds
<1>3. CASE th'[u] = th[u]
  BY <1>1, <1>3 DEF EmptyHanded
<1>4. CASE TryGrow(u)
  BY <1>1, <1>2, <1>4 DEF TryGrow, Shape
<1> QED
  BY <1>1, <1>2, <1>3, <1>4, KindsDisjoint DEF Entered, Settled

(***************************************************************************)
(* A slot above active_workers is filled only by a growth about to publish *)
(* it.                                                                     *)
(***************************************************************************)
LEMMA UnpublishedStep ==
    ASSUME Inv, [Next]_vars
    PROVE  Unpublished'
<1>1. /\ PoolType /\ Shape /\ Locals /\ Unpublished /\ RestartActive /\ GrowthInHand /\ GrowthHeld
      /\ Changed /\ \A u \in Threads : Departed(u)
  BY ChangedStep, DepartedStep DEF Inv
<1>2. active \in Nat /\ active' \in Nat /\ active <= active' /\ Target \in Nat
  BY ActiveGrows, Capacities
<1> SUFFICES ASSUME NEW i \in Slots, i >= active', slot'[i] # 0
             PROVE  \E t \in AddWorkers : th'[t].pc = "publish" /\ i < Top(t)'
  BY DEF Unpublished
<1>3. i \in Nat /\ i >= active
  BY <1>2 DEF Slots
<1>4. CASE slot[i] # 0
  <2>1. PICK t \in AddWorkers : th[t].pc = "publish" /\ i < Top(t)
    BY <1>1, <1>3, <1>4 DEF Unpublished
  <2>2. t \in Threads
    BY ThreadKinds DEF AddWorkers
  <2>3. CASE th'[t] = th[t]
    <3>1. active' = active
      BY <2>1, <2>3, WhileGrowing DEF HoldsGrowth
    <3>2. Top(t)' = Top(t)
      BY <3>1 DEF Top
    <3> QED  BY <2>1, <2>3, <3>2
  <2>4. CASE t \in Requesters /\ GrowOnePublish(t)
    <3>1. active' = active + 1 /\ Top(t) = active + 1
      BY <2>4 DEF GrowOnePublish, Top
    <3> QED  BY <1>2, <1>3, <2>1, <3>1
  <2>5. CASE t \in Growers /\ GrowPublish(t)
    <3>1. active' = Target /\ Top(t) = Target
      BY <2>5, KindsDisjoint DEF GrowPublish, Top
    <3> QED  BY <1>2, <1>3, <2>1, <3>1
  <2> QED  BY <1>1, <2>1, <2>2, <2>3, <2>4, <2>5 DEF Departed
<1>5. CASE slot[i] = 0
  <2>1. ASSUME NEW t \in Restarters, RestartInstall(t)
        PROVE  FALSE
    <3>1. th[t].pc = "install" /\ th[t].idx \in Slots
      BY <1>1, <2>1, ThreadKinds DEF RestartInstall, At, Locals
    <3>2. th[t].idx < active
      BY <1>1, <3>1 DEF RestartActive
    <3>3. th[t].idx # i
      BY <1>2, <1>3, <3>1, <3>2 DEF Slots
    <3>4. PICK w \in th[t].new : slot' = [slot EXCEPT ![th[t].idx] = w]
      BY <2>1 DEF RestartInstall
    <3> QED  BY <1>1, <1>5, <3>1, <3>3, <3>4 DEF PoolType
  <2>2. ASSUME NEW r \in Requesters, GrowOneStore(r)
        PROVE  \E t \in AddWorkers : th'[t].pc = "publish" /\ i < Top(t)'
    <3>1. PICK w \in th[r].new :
            /\ slot' = [slot EXCEPT ![active] = w]
            /\ th' = [th EXCEPT ![r].pc = "publish",
                                ![r].pick = [slot |-> active, worker |-> w, load |-> 0]]
      BY <2>2 DEF GrowOneStore
    <3>2. th'[r].pc = "publish"
      BY <1>1, <3>1, ThreadKinds DEF Shape
    <3>3. i = active
      BY <1>1, <1>5, <3>1 DEF PoolType
    <3>4. Top(r)' = active + 1
      BY <2>2 DEF GrowOneStore, Top
    <3> QED  BY <1>2, <3>2, <3>3, <3>4, ThreadKinds
  <2>3. ASSUME NEW g \in Growers, GrowStore(g)
        PROVE  \E t \in AddWorkers : th'[t].pc = "publish" /\ i < Top(t)'
    <3>1. th'[g].pc = "publish" /\ Top(g)' = Target /\ Top(g) = Target
      BY <1>1, <2>3, ThreadKinds, KindsDisjoint DEF GrowStore, Goto, Shape, Top
    <3>2. PICK w \in th[g].new : workers[w].home = i
      BY <1>5, <2>3 DEF GrowStore
    <3>3. i \in active..(Target - 1)
      BY <1>1, <2>3, <3>1, <3>2, ThreadKinds DEF GrowStore, At, GrowthInHand
    <3> QED  BY <1>2, <3>1, <3>3, ThreadKinds
  <2> QED  BY <1>1, <1>5, <2>1, <2>2, <2>3 DEF Changed
<1> QED  BY <1>4, <1>5

(***************************************************************************)
(* A growth about to store its workers finds their slots empty.            *)
(***************************************************************************)
LEMMA StoreSlots ==
    ASSUME Inv, NEW u \in AddWorkers, th[u].pc = "store", NEW i \in Slots, i >= active
    PROVE  slot[i] = 0
<1>1. ASSUME slot[i] # 0
      PROVE  FALSE
  <2>1. PICK t \in AddWorkers : th[t].pc = "publish"
    BY <1>1 DEF Inv, Unpublished
  <2>2. growth = t /\ growth = u
    BY <2>1, ThreadKinds DEF Inv, GrowthHeld, HoldsGrowth, AddWorkers
  <2> QED  BY <2>1, <2>2
<1> QED  BY <1>1

(***************************************************************************)
(* No step takes a running worker out of its slot: a restart replaces what *)
(* it saw dead under the locks, a growth fills empty slots.                *)
(***************************************************************************)
LEMMA HealthySlots ==
    ASSUME Inv, [Next]_vars, NEW i \in Slots, slot[i] # 0, Running(slot[i])
    PROVE  slot'[i] = slot[i]
<1>1. PoolType /\ Locals /\ GrowthInHand /\ Evidence /\ Changed
  BY ChangedStep DEF Inv
<1>2. active \in Nat /\ Capacity \in Nat /\ Target <= Capacity
  BY <1>1, Capacities DEF PoolType
<1>3. ASSUME NEW t \in Restarters, RestartInstall(t)
      PROVE  slot'[i] = slot[i]
  <2>1. th[t].pc = "install" /\ th[t].idx \in Slots
    BY <1>1, <1>3, ThreadKinds DEF RestartInstall, At, Locals
  <2>2. th[t].idx # i
    BY <1>1, <2>1 DEF Evidence
  <2>3. PICK w \in th[t].new : slot' = [slot EXCEPT ![th[t].idx] = w]
    BY <1>3 DEF RestartInstall
  <2> QED  BY <1>1, <2>1, <2>2, <2>3 DEF PoolType
<1>4. ASSUME NEW r \in Requesters, GrowOneStore(r)
      PROVE  slot'[i] = slot[i]
  <2>1. PICK w \in th[r].new : slot' = [slot EXCEPT ![active] = w]
    BY <1>4 DEF GrowOneStore
  <2>2. i # active
    BY <1>2, <1>4, StoreSlots, ThreadKinds DEF GrowOneStore, At
  <2> QED  BY <1>1, <2>1, <2>2 DEF PoolType
<1>5. ASSUME NEW g \in Growers, GrowStore(g)
      PROVE  slot'[i] = slot[i]
  <2>1. ~ (i >= active)
    BY <1>5, StoreSlots, ThreadKinds DEF GrowStore, At
  <2>2. \A w \in th[g].new : workers[w].home \in active..(Target - 1)
    BY <1>1, <1>5, ThreadKinds, KindsDisjoint DEF GrowStore, At, GrowthInHand, Top
  <2>3. ~ \E w \in th[g].new : workers[w].home = i
    BY <1>2, <2>1, <2>2, Capacities
  <2> QED  BY <1>5, <2>3 DEF GrowStore
<1> QED  BY <1>1, <1>3, <1>4, <1>5 DEF Changed

(***************************************************************************)
(* A slot that is being restarted is changed by nobody else.               *)
(***************************************************************************)
LEMMA SlotKept ==
    ASSUME Inv, [Next]_vars, NEW u \in Restarters,
           th[u].pc \in {"spawn", "install"}, th'[u].pc \in {"spawn", "install"}
    PROVE  slot'[th[u].idx] = slot[th[u].idx]
<1>1. PoolType /\ Shape /\ Locals /\ SlotHeld /\ RestartActive /\ GrowthInHand /\ Changed
  BY ChangedStep DEF Inv
<1>2. u \in Threads /\ th[u].idx \in Slots /\ th[u].idx \in Nat /\ th[u].idx < active
  BY <1>1, ThreadKinds DEF Locals, RestartActive, Slots
<1>3. active \in Nat /\ Capacity \in Nat /\ Target \in Nat
  BY <1>1, Capacities DEF PoolType
<1>4. ASSUME NEW t \in Restarters, RestartInstall(t)
      PROVE  slot'[th[u].idx] = slot[th[u].idx]
  <2>1. t \in Threads /\ th[t].pc = "install"
    BY <1>4, ThreadKinds DEF RestartInstall, At
  <2>2. t # u
    <3>1. th'[t].pc \in {"scan", "release"}
      BY <1>1, <1>4, <2>1, RestartedFields DEF RestartInstall
    <3> QED  BY <3>1
  <2>3. th[t].idx # th[u].idx
    BY <1>1, <2>1, <2>2 DEF SlotHeld
  <2>4. PICK w \in th[t].new : slot' = [slot EXCEPT ![th[t].idx] = w]
    BY <1>4 DEF RestartInstall
  <2> QED  BY <1>1, <1>2, <2>3, <2>4 DEF PoolType
<1>5. ASSUME NEW r \in Requesters, GrowOneStore(r)
      PROVE  slot'[th[u].idx] = slot[th[u].idx]
  <2>1. PICK w \in th[r].new : slot' = [slot EXCEPT ![active] = w]
    BY <1>5 DEF GrowOneStore
  <2> QED  BY <1>1, <1>2, <1>3, <2>1 DEF PoolType
<1>6. ASSUME NEW g \in Growers, GrowStore(g)
      PROVE  slot'[th[u].idx] = slot[th[u].idx]
  <2>1. \A w \in th[g].new : workers[w].home \in active..(Target - 1)
    BY <1>1, <1>6, ThreadKinds, KindsDisjoint DEF GrowStore, At, GrowthInHand, Top
  <2>2. ~ \E w \in th[g].new : workers[w].home = th[u].idx
    BY <1>2, <1>3, <2>1
  <2> QED  BY <1>2, <1>6, <2>2 DEF GrowStore
<1> QED  BY <1>1, <1>4, <1>5, <1>6 DEF Changed

(***************************************************************************)
(* The evidence on which a thread restarts a slot stays true until it      *)
(* acts: the worker it saw dead stays dead, and under the slot's locks the *)
(* slot still holds it.                                                    *)
(***************************************************************************)
LEMMA EvidenceStep ==
    ASSUME Inv, [Next]_vars
    PROVE  Evidence'
<1>1. /\ PoolType /\ Shape /\ Locals /\ PickActive /\ RestartActive /\ InHand /\ Evidence
      /\ Grows /\ \A u \in Threads : Entered(u)
  BY WorkersStep, EnteredStep DEF Inv
<1>2. ASSUME NEW w \in 1..Len(workers), ~ Running(w)
      PROVE  ~ Running(w)'
  BY <1>1, <1>2 DEF Grows
<1>3. ASSUME NEW u \in Restarters, th'[u].pc = "restart"
      PROVE  ~ (workers'[th'[u].old].state = "running")
  <2>1. u \in Threads
    BY ThreadKinds
  <2>2. CASE th'[u] = th[u]
    <3>1. th[u].old \in 1..Len(workers) /\ ~ Running(th[u].old)
      BY <1>1, <1>3, <2>2 DEF RestartActive, Evidence
    <3> QED  BY <1>2, <2>2, <3>1 DEF Running
  <2>3. CASE ScanDead(u)
    <3>1. PICK i \in th[u].left :
            /\ ~ Running(slot[i]) /\ workers' = workers
            /\ th' = [th EXCEPT ![u].pc = "restart", ![u].back = "scan",
                                ![u].idx = i, ![u].old = slot[i]]
      BY <2>3 DEF ScanDead
    <3>2. th'[u].old = slot[i]
      BY <1>1, <2>1, <3>1 DEF Shape
    <3> QED  BY <3>1, <3>2 DEF Running
  <2>4. CASE RecoverMatch(u)
    <3>1. ~ Running(th[u].pick.worker) /\ workers' = workers
      BY <1>1, <2>4 DEF RecoverMatch, At, Evidence
    <3>2. CASE slot[th[u].pick.slot] = th[u].pick.worker
      <4>1. th' = [th EXCEPT ![u].pc = "restart", ![u].back = "recover",
                             ![u].idx = th[u].pick.slot, ![u].old = th[u].pick.worker]
        BY <2>4, <3>2 DEF RecoverMatch
      <4>2. th'[u].old = th[u].pick.worker
        BY <1>1, <2>1, <4>1 DEF Shape
      <4> QED  BY <3>1, <4>2 DEF Running
    <3>3. CASE slot[th[u].pick.slot] # th[u].pick.worker
      <4>1. th' = [th EXCEPT ![u].pc = "release"]
        BY <2>4, <3>3 DEF RecoverMatch, Goto
      <4>2. th'[u].pc = "release"
        BY <1>1, <2>1, <4>1 DEF Shape
      <4> QED  BY <1>3, <4>2
    <3> QED  BY <3>2, <3>3
  <2> QED  BY <1>1, <1>3, <2>1, <2>2, <2>3, <2>4, KindsDisjoint DEF Entered, Settled, Restarters
<1>4. ASSUME NEW u \in Restarters, th'[u].pc = "match"
      PROVE  ~ (workers'[th'[u].pick.worker].state = "running")
  <2>1. u \in Threads /\ Len(workers) \in Nat
    BY <1>1, ThreadKinds DEF PoolType
  <2>2. CASE th'[u] = th[u]
    <3>1. th[u].pick.worker \in 1..Len(workers) /\ ~ Running(th[u].pick.worker)
      BY <1>1, <1>4, <2>1, <2>2 DEF PickActive, Evidence
    <3> QED  BY <1>2, <2>2, <3>1 DEF Running
  <2>3. CASE Recover(u)
    <3>1. ~ Running(th[u].pick.worker) /\ workers' = workers
      BY <2>3 DEF Recover
    <3>2. th'[u].pick = th[u].pick
      BY <1>1, <2>1, <2>3 DEF Recover, Goto, Shape
    <3> QED  BY <3>1, <3>2 DEF Running
  <2> QED  BY <1>1, <1>4, <2>1, <2>2, <2>3, KindsDisjoint DEF Entered, Settled, Restarters
<1>5. ASSUME NEW u \in Restarters, th'[u].pc \in {"spawn", "install"}
      PROVE  /\ ~ (workers'[slot'[th'[u].idx]].state = "running")
             /\ th'[u].pc = "install" => slot'[th'[u].idx] \notin th'[u].new
  <2>1. u \in Threads /\ th[u].idx \in Nat /\ Len(workers) \in Nat
    BY <1>1, ThreadKinds DEF Locals, Slots, PoolType
  <2>2. CASE th'[u] = th[u]
    <3>1. /\ ~ Running(slot[th[u].idx])
          /\ th[u].pc = "install" => slot[th[u].idx] \notin th[u].new
      BY <1>1, <1>5, <2>2 DEF Evidence
    <3>2. slot[th[u].idx] \in 1..Len(workers)
      BY <1>1, <1>5, <2>1, <2>2, SlotOccupied DEF RestartActive
    <3>3. slot'[th[u].idx] = slot[th[u].idx]
      BY <1>5, <2>2, SlotKept
    <3> QED  BY <1>2, <2>2, <3>1, <3>2, <3>3 DEF Running
  <2>3. CASE RestartBegin(u)
    <3>1. /\ th[u].pc = "restart" /\ slot' = slot /\ workers' = Stopped({th[u].old})
          /\ slot[th[u].idx] = th[u].old \/ ~ Running(slot[th[u].idx])
      BY <2>3 DEF RestartBegin, At
    <3>2. th'[u].idx = th[u].idx /\ th'[u].pc = "spawn"
      BY <1>1, <2>1, <2>3 DEF RestartBegin, Goto, Shape
    <3>3. slot[th[u].idx] \in 1..Len(workers)
      BY <1>1, <2>1, <3>1, SlotOccupied DEF RestartActive
    <3>4. ~ Running(slot[th[u].idx])
      BY <1>1, <3>1 DEF Evidence
    <3> QED  BY <1>2, <3>1, <3>2, <3>3, <3>4 DEF Running
  <2>4. CASE RestartSpawn(u)
    <3>1. th[u].pc = "spawn" /\ slot' = slot
      BY <2>4 DEF RestartSpawn, At, pool
    <3>2. th'[u].idx = th[u].idx /\ th'[u].new = {Len(workers) + 1}
      BY <1>1, <2>1, <2>4 DEF RestartSpawn, Shape
    <3>3. slot[th[u].idx] \in 1..Len(workers) /\ ~ Running(slot[th[u].idx])
      BY <1>1, <2>1, <3>1, SlotOccupied DEF RestartActive, Evidence
    <3> QED  BY <1>2, <2>1, <3>1, <3>2, <3>3 DEF Running
  <2> QED  BY <1>1, <1>5, <2>1, <2>2, <2>3, <2>4, KindsDisjoint DEF Entered, Settled, Restarters
<1> QED
  BY <1>3, <1>4, <1>5 DEF Evidence, Running

(***************************************************************************)
(* Every running worker is in its slot or in the hands of the thread that  *)
(* will put it there: a worker that leaves either is stopped.              *)
(***************************************************************************)
LEMMA LiveStep ==
    ASSUME Inv, [Next]_vars
    PROVE  Live'
<1>1. /\ PoolType /\ Shape /\ Locals /\ InHand /\ GrowthInHand /\ Live
      /\ Grows /\ WorkersChanged
      /\ (\A u \in Threads : Departed(u))
  BY WorkersStep, DepartedStep DEF Inv
<1>2. /\ Len(workers) \in Nat /\ Len(workers') \in Nat /\ active \in Nat /\ Target \in Nat
      /\ Capacity \in Nat /\ Target <= Capacity
  BY <1>1, ActiveGrows, Capacities DEF Grows
<1> SUFFICES ASSUME NEW w \in 1..Len(workers'), Running(w)'
             PROVE  \/ slot'[workers'[w].home] = w
                    \/ \E t \in Restarters : th'[t].pc = "install" /\ w \in th'[t].new
                    \/ \E t \in AddWorkers : th'[t].pc = "store" /\ w \in th'[t].new
  BY DEF Live
<1>3. CASE w \in 1..Len(workers)
  <2>1. Running(w) /\ workers'[w].home = workers[w].home /\ workers[w].home \in Slots
    <3>1. workers[w] \in WorkerType
      BY <1>1, <1>3 DEF PoolType
    <3> QED  BY <1>1, <1>3, <3>1 DEF Grows, WorkerType
  <2>2. CASE slot[workers[w].home] = w
    <3>1. slot'[workers[w].home] = slot[workers[w].home]
      BY <1>3, <2>1, <2>2, HealthySlots
    <3> QED  BY <2>1, <2>2, <3>1
  <2>3. ASSUME NEW t \in Restarters, th[t].pc = "install", w \in th[t].new
        PROVE  \/ slot'[workers'[w].home] = w
               \/ \E u \in Restarters : th'[u].pc = "install" /\ w \in th'[u].new
    <3>1. t \in Threads
      BY ThreadKinds
    <3>2. th[t].new = {w} /\ workers[w].home = th[t].idx
      BY <1>1, <2>3 DEF InHand
    <3>3. CASE th'[t] = th[t]
      BY <2>3, <3>3
    <3>4. CASE RestartInstall(t)
      <4>1. slot' = [slot EXCEPT ![th[t].idx] = w]
        BY <3>2, <3>4 DEF RestartInstall
      <4> QED  BY <1>1, <2>1, <3>2, <4>1 DEF PoolType
    <3>5. CASE ReplayFails(t)
      <4>1. workers' = Stopped(th[t].new)
        BY <3>5 DEF ReplayFails
      <4>2. workers'[w].state = "stopped"
        BY <1>1, <1>3, <2>3, <4>1, StoppedParts DEF PoolType
      <4> QED  BY <4>2 DEF Running
    <3> QED  BY <1>1, <2>3, <3>1, <3>3, <3>4, <3>5 DEF Departed
  <2>4. ASSUME NEW t \in AddWorkers, th[t].pc = "store", w \in th[t].new
        PROVE  \/ slot'[workers'[w].home] = w
               \/ \E u \in AddWorkers : th'[u].pc = "store" /\ w \in th'[u].new
    <3>1. t \in Threads
      BY ThreadKinds DEF AddWorkers
    <3>2. /\ workers[w].home \in active..(Top(t) - 1)
          /\ \A v \in th[t].new : workers[v].home = workers[w].home => v = w
          /\ \A v \in th[t].new : workers[v].home \in active..(Top(t) - 1)
      BY <1>1, <2>4 DEF GrowthInHand
    <3>3. CASE th'[t] = th[t]
      BY <2>4, <3>3
    <3>4. CASE (t \in Requesters /\ GrowOneFails(t)) \/ (t \in Growers /\ GrowFails(t))
      <4>1. workers' = Stopped(th[t].new)
        BY <3>4 DEF GrowOneFails, GrowFails
      <4>2. workers'[w].state = "stopped"
        BY <1>1, <1>3, <2>4, <4>1, StoppedParts DEF PoolType
      <4> QED  BY <4>2 DEF Running
    <3>5. CASE t \in Requesters /\ GrowOneStore(t)
      <4>1. PICK v \in th[t].new : slot' = [slot EXCEPT ![active] = v]
        BY <3>5 DEF GrowOneStore
      <4>2. workers[w].home = active /\ workers[v].home = active
        BY <1>2, <3>2, <3>5 DEF Top
      <4>3. v = w
        BY <3>2, <4>2
      <4> QED  BY <1>1, <2>1, <4>1, <4>2, <4>3 DEF PoolType
    <3>6. CASE t \in Growers /\ GrowStore(t)
      <4>1. slot'[workers[w].home] = CHOOSE v \in th[t].new : workers[v].home = workers[w].home
        BY <2>1, <2>4, <3>6 DEF GrowStore
      <4>2. /\ slot'[workers[w].home] \in th[t].new
            /\ workers[slot'[workers[w].home]].home = workers[w].home
        BY <2>4, <4>1
      <4> QED  BY <2>1, <3>2, <4>2
    <3> QED  BY <1>1, <2>4, <3>1, <3>3, <3>4, <3>5, <3>6 DEF Departed
  <2> QED  BY <1>1, <1>3, <2>1, <2>2, <2>3, <2>4 DEF Live
<1>4. CASE w \notin 1..Len(workers)
  <2>1. ~ SameLength
    BY <1>4 DEF SameLength
  <2>2. ASSUME NEW t \in Restarters, RestartSpawn(t)
        PROVE  \E u \in Restarters : th'[u].pc = "install" /\ w \in th'[u].new
    <3>1. th'[t].pc = "install" /\ th'[t].new = {Len(workers) + 1} /\ th[t].idx \in Slots
      BY <1>1, <2>2, ThreadKinds DEF RestartSpawn, Shape, Locals
    <3>2. Len(workers') = Len(workers) + 1
      BY <1>1, <2>2, <3>1, SpawnedParts DEF RestartSpawn, PoolType
    <3>3. w = Len(workers) + 1
      BY <1>2, <1>4, <3>2
    <3> QED  BY <3>1, <3>3
  <2>3. ASSUME NEW r \in Requesters, GrowOne(r)
        PROVE  \E u \in AddWorkers : th'[u].pc = "store" /\ w \in th'[u].new
    <3>1. th'[r].pc = "store" /\ th'[r].new = {Len(workers) + 1}
      BY <1>1, <2>3, ThreadKinds DEF GrowOne, Shape
    <3>2. active \in Slots
      BY <1>2, <2>3, TopLimit, ThreadKinds, Capacities DEF HoldsGrowth, GrowOne, At, Top, Slots
    <3>3. Len(workers') = Len(workers) + 1
      BY <1>1, <2>3, <3>2, SpawnedParts DEF GrowOne, PoolType
    <3>4. w = Len(workers) + 1
      BY <1>2, <1>4, <3>3
    <3> QED  BY <3>1, <3>4, ThreadKinds
  <2>4. ASSUME NEW g \in Growers, GrowSpawn(g)
        PROVE  \E u \in AddWorkers : th'[u].pc = "store" /\ w \in th'[u].new
    <3>1. th'[g].pc = "store" /\ th'[g].new = (Len(workers) + 1)..(Len(workers) + Target - active)
      BY <1>1, <2>4, ThreadKinds DEF GrowSpawn, Shape
    <3>2. active < Target
      BY <2>4, TopLimit, ThreadKinds, KindsDisjoint DEF HoldsGrowth, GrowSpawn, At, Top
    <3>3. Target - active \in Nat /\ active + (Target - active) <= Capacity
      BY <1>2, <3>2
    <3>4. Len(workers') = Len(workers) + (Target - active)
      BY <1>1, <1>2, <2>4, <3>3, GrownParts DEF GrowSpawn, PoolType
    <3>5. w \in (Len(workers) + 1)..(Len(workers) + Target - active)
      BY <1>2, <1>4, <3>3, <3>4
    <3> QED  BY <3>1, <3>5, ThreadKinds
  <2> QED  BY <1>1, <2>1, <2>2, <2>3, <2>4 DEF WorkersChanged
<1> QED  BY <1>3, <1>4

(***************************************************************************)
(* The bootstraps do not change between the spawn of a growth's workers    *)
(* and their publication.                                                  *)
(***************************************************************************)
LEMMA ReplayedStep ==
    ASSUME Inv, [Next]_vars
    PROVE  Replayed'
<1>1. /\ PoolType /\ Shape /\ Locals /\ GrowthHeld /\ GrowthInHand /\ Replayed
      /\ Grows /\ WorkersChanged /\ \A u \in Threads : Entered(u)
  BY WorkersStep, EnteredStep DEF Inv
<1>2. /\ Len(workers) \in Nat /\ active \in Nat /\ Target \in Nat
      /\ Capacity \in Nat /\ Target <= Capacity
  BY <1>1, ActiveGrows, Capacities DEF Grows
<1> SUFFICES ASSUME NEW u \in AddWorkers, th'[u].pc \in {"store", "publish"}, NEW w \in th'[u].new
             PROVE  w \in 1..Len(workers') /\ workers'[w].applied = bootstraps'
  BY DEF Replayed
<1>3. u \in Threads
  BY ThreadKinds DEF AddWorkers
<1>4. CASE th'[u] = th[u]
  <2>1. HoldsGrowth(u)
    BY <1>4 DEF HoldsGrowth
  <2>2. w \in 1..Len(workers) /\ workers[w].applied = bootstraps
    BY <1>1, <1>4 DEF Replayed
  <2>3. bootstraps' = bootstraps
    BY <1>4, <2>1, WhileGrowing
  <2>4. ASSUME NEW b \in Broadcasters, BroadcastAnswered(b) \/ BroadcastFailed(b)
        PROVE  FALSE
    <3>1. HoldsGrowth(b)
      BY <2>4 DEF BroadcastAnswered, BroadcastFailed, At, HoldsGrowth
    <3>2. b = u
      BY <1>1, <1>3, <2>1, <3>1, ThreadKinds DEF GrowthHeld
    <3> QED  BY <3>2, KindsDisjoint DEF AddWorkers
  <2>5. SameApplied
    BY <1>1, <2>4 DEF WorkersChanged
  <2> QED  BY <1>1, <2>2, <2>3, <2>5 DEF SameApplied, Grows
<1>5. CASE u \in Requesters /\ GrowOne(u)
  <2>1. active \in Slots /\ bootstraps' = bootstraps
    BY <1>2, <1>5, TopLimit, Capacities DEF HoldsGrowth, GrowOne, At, Top, Slots, pool
  <2>2. /\ Len(workers') = Len(workers) + 1
        /\ workers'[Len(workers) + 1] = NewWorker(active)
    BY <1>1, <1>5, <2>1, SpawnedParts DEF GrowOne, PoolType
  <2>3. th'[u].new = {Len(workers) + 1}
    BY <1>1, <1>3, <1>5 DEF GrowOne, Shape
  <2>4. workers'[Len(workers) + 1].applied = bootstraps
    BY <2>2 DEF NewWorker
  <2> QED  BY <1>2, <2>1, <2>2, <2>3, <2>4
<1>6. CASE u \in Growers /\ GrowSpawn(u)
  <2> DEFINE n == Target - active
  <2>1. n \in Nat /\ active + n <= Capacity /\ bootstraps' = bootstraps
    <3>1. active < Target
      BY <1>6, TopLimit, KindsDisjoint DEF HoldsGrowth, GrowSpawn, At, Top
    <3> QED  BY <1>2, <1>6, <3>1 DEF GrowSpawn, pool
  <2>2. th'[u].new = (Len(workers) + 1)..(Len(workers) + n)
    <3>1. th'[u].new = (Len(workers) + 1)..(Len(workers) + Target - active)
      BY <1>1, <1>3, <1>6 DEF GrowSpawn, Shape
    <3> QED  BY <1>2, <3>1
  <2>3. /\ Len(workers') = Len(workers) + n
        /\ \A k \in 1..n : workers'[Len(workers) + k] = NewWorker(active + k - 1)
    BY <1>1, <1>2, <1>6, <2>1, GrownParts DEF GrowSpawn, PoolType
  <2> HIDE DEF n
  <2>4. w - Len(workers) \in 1..n /\ Len(workers) + (w - Len(workers)) = w /\ w \in 1..Len(workers')
    BY <1>2, <2>1, <2>2, <2>3
  <2>5. workers'[w] = NewWorker(active + (w - Len(workers)) - 1)
    BY <2>3, <2>4
  <2> QED  BY <2>1, <2>4, <2>5 DEF NewWorker
<1>7. CASE u \in Requesters /\ GrowOneStore(u)
  <2>1. PICK v : th' = [th EXCEPT ![u].pc = "publish",
                                  ![u].pick = [slot |-> active, worker |-> v, load |-> 0]]
    BY <1>7 DEF GrowOneStore
  <2>2. th'[u].new = th[u].new
    BY <1>1, <1>3, <2>1 DEF Shape
  <2>3. th[u].pc = "store" /\ workers' = workers /\ bootstraps' = bootstraps
    BY <1>7 DEF GrowOneStore, At
  <2> QED  BY <1>1, <2>2, <2>3 DEF Replayed
<1>8. CASE u \in Growers /\ GrowStore(u)
  <2>1. th'[u].new = th[u].new
    BY <1>1, <1>3, <1>8 DEF GrowStore, Goto, Shape
  <2>2. th[u].pc = "store" /\ workers' = workers /\ bootstraps' = bootstraps
    BY <1>8 DEF GrowStore, At
  <2> QED  BY <1>1, <2>1, <2>2 DEF Replayed
<1> QED
  BY <1>1, <1>3, <1>4, <1>5, <1>6, <1>7, <1>8, KindsDisjoint DEF Entered, Settled, AddWorkers

(***************************************************************************)
(* Once a closer has begun, the pool never runs again.                     *)
(***************************************************************************)
LEMMA ClosingStep ==
    ASSUME Inv, [Next]_vars
    PROVE  Closing'
<1>1. Closing /\ Shape /\ Changed /\ \A u \in Threads : Departed(u)
  BY ChangedStep, DepartedStep DEF Inv
<1> SUFFICES ASSUME NEW z \in Closers, th'[z].pc \notin {"idle", "done"}
             PROVE  state' # "running"
  BY DEF Closing
<1>2. state # "running" => state' # "running"
  BY <1>1 DEF Changed, CloseStart, Halt, StopAll
<1>3. CASE th[z].pc \in {"idle", "done"}
  <2>1. CloseStart(z)
    BY <1>1, <1>3, ThreadKinds DEF Departed
  <2> QED  BY <2>1 DEF CloseStart
<1>4. CASE th[z].pc \notin {"idle", "done"}
  BY <1>1, <1>2, <1>4 DEF Closing
<1> QED  BY <1>3, <1>4

(***************************************************************************)
(* A closer has collected nothing before it holds the growth lock.         *)
(***************************************************************************)
LEMMA TeamEmptyStep ==
    ASSUME Inv, [Next]_vars
    PROVE  TeamEmpty'
<1> Shape /\ TeamEmpty  BY DEF Inv
<1> USE DEF Shape, TeamEmpty, Goto, At, Restarters
<1>1. ASSUME NEW t \in Restarters, ScanLive(t) PROVE TeamEmpty'
  <2>1. \E i \in th[t].left : Found(t, i, slot[i])
    BY <1>1 DEF ScanLive
  <2> QED  BY <2>1, ThreadKinds, KindsDisjoint, FoundFields DEF Others
<1>2. ASSUME NEW t \in Restarters, ScanDead(t) PROVE TeamEmpty'
  BY <1>2, ThreadKinds, KindsDisjoint DEF ScanDead
<1>3. ASSUME NEW t \in Restarters, RestartReuse(t) PROVE TeamEmpty'
  <2>1. Restarted(t, slot[th[t].idx])
    BY <1>3 DEF RestartReuse
  <2> QED  BY <2>1, ThreadKinds, KindsDisjoint, RestartedFields DEF Others
<1>4. ASSUME NEW t \in Restarters,
         RestartBegin(t) \/ RestartSpawn(t)
      PROVE  TeamEmpty'
  BY <1>4, ThreadKinds, KindsDisjoint DEF RestartBegin, RestartSpawn
<1>5. ASSUME NEW t \in Restarters, SpawnFails(t) PROVE TeamEmpty'
  <2>1. NotRestarted(t)
    BY <1>5 DEF SpawnFails
  <2> QED  BY <2>1, ThreadKinds, KindsDisjoint, NotRestartedFields DEF Others
<1>6. ASSUME NEW t \in Restarters, ReplayFails(t) PROVE TeamEmpty'
  <2>1. NotRestarted(t)
    BY <1>6 DEF ReplayFails
  <2> QED  BY <2>1, ThreadKinds, KindsDisjoint, NotRestartedFields DEF Others
<1>7. ASSUME NEW t \in Restarters, RestartInstall(t) PROVE TeamEmpty'
  <2>1. \E w \in th[t].new : Restarted(t, w)
    BY <1>7 DEF RestartInstall
  <2> QED  BY <2>1, ThreadKinds, KindsDisjoint, RestartedFields DEF Others
<1>8. ASSUME NEW t \in Restarters,
         RecoverSkip(t) \/ Recover(t)
      PROVE  TeamEmpty'
  BY <1>8, ThreadKinds, KindsDisjoint DEF RecoverSkip, Recover
<1>9. ASSUME NEW t \in Restarters, RecoverMatch(t) PROVE TeamEmpty'
  <2>1. CASE slot[th[t].pick.slot] = th[t].pick.worker
    <3>1. th' = [th EXCEPT ![t].pc = "restart", ![t].back = "recover",
                             ![t].idx = th[t].pick.slot, ![t].old = th[t].pick.worker]
      BY <1>9, <2>1 DEF RecoverMatch
    <3> QED  BY <1>9, <3>1, ThreadKinds, KindsDisjoint DEF RecoverMatch
  <2>2. CASE slot[th[t].pick.slot] # th[t].pick.worker
    <3>1. th' = [th EXCEPT ![t].pc = "release"]
      BY <1>9, <2>2 DEF RecoverMatch
    <3> QED  BY <1>9, <3>1, ThreadKinds, KindsDisjoint DEF RecoverMatch
  <2> QED  BY <2>1, <2>2
<1>10. ASSUME NEW t \in Restarters, Release(t) PROVE TeamEmpty'
  BY <1>10, ThreadKinds, KindsDisjoint DEF Release
<1>11. ASSUME NEW r \in Requesters,
         RequestRefused(r) \/ RequestStart(r) \/ NoneFound(r) \/ TryGrow(r) \/ GrowOne(r)
         \/ GrowOneFails(r)
      PROVE  TeamEmpty'
  BY <1>11, ThreadKinds, KindsDisjoint
    DEF RequestRefused, RequestStart, NoneFound, TryGrow, GrowOne, GrowOneFails
<1>12. ASSUME NEW r \in Requesters,
         GrowOneStore(r) \/ GrowOnePublish(r) \/ KeepPick(r) \/ Reserve(r)
         \/ ReserveChecked(r) \/ ReserveDropped(r)
      PROVE  TeamEmpty'
  BY <1>12, ThreadKinds, KindsDisjoint
    DEF GrowOneStore, GrowOnePublish, KeepPick, Reserve, ReserveChecked, ReserveDropped
<1>13. ASSUME NEW r \in Requesters,
         ExchangeOk(r) \/ ExchangeFails(r)
      PROVE  TeamEmpty'
  BY <1>13, ThreadKinds, KindsDisjoint DEF ExchangeOk, ExchangeFails
<1>14. ASSUME NEW b \in Broadcasters,
         BroadcastRefused(b) \/ BroadcastStart(b)
      PROVE  TeamEmpty'
  BY <1>14, ThreadKinds, KindsDisjoint DEF BroadcastRefused, BroadcastStart
<1>15. ASSUME NEW b \in Broadcasters, BroadcastLock(b) PROVE TeamEmpty'
  <2>1. CASE state = "running"
    <3>1. th' = [th EXCEPT ![b].pc = "scan", ![b].left = 0..(active - 1)]
      BY <1>15, <2>1 DEF BroadcastLock
    <3> QED  BY <1>15, <3>1, ThreadKinds, KindsDisjoint DEF BroadcastLock
  <2>2. CASE state # "running"
    <3>1. th' = [th EXCEPT ![b].pc = "done"]
      BY <1>15, <2>2 DEF BroadcastLock
    <3> QED  BY <1>15, <3>1, ThreadKinds, KindsDisjoint DEF BroadcastLock
  <2> QED  BY <2>1, <2>2
<1>16. ASSUME NEW b \in Broadcasters, BroadcastSpread(b) PROVE TeamEmpty'
  BY <1>16, ThreadKinds, KindsDisjoint DEF BroadcastSpread
<1>17. ASSUME NEW b \in Broadcasters, BroadcastAnswered(b) PROVE TeamEmpty'
  BY <1>17, ThreadKinds, KindsDisjoint DEF BroadcastAnswered
<1>18. ASSUME NEW b \in Broadcasters, BroadcastFailed(b) PROVE TeamEmpty'
  BY <1>18, ThreadKinds, KindsDisjoint DEF BroadcastFailed
<1>19. ASSUME NEW b \in Broadcasters, BroadcastJoin(b) PROVE TeamEmpty'
  BY <1>19, ThreadKinds, KindsDisjoint DEF BroadcastJoin
<1>20. ASSUME NEW b \in Broadcasters, BroadcastSettle(b) PROVE TeamEmpty'
  BY <1>20, ThreadKinds, KindsDisjoint DEF BroadcastSettle
<1>21. ASSUME NEW b \in Broadcasters, BroadcastEnd(b) PROVE TeamEmpty'
  BY <1>21, ThreadKinds, KindsDisjoint DEF BroadcastEnd
<1>22. ASSUME NEW g \in Growers,
         PrepareSkip(g) \/ PrepareStart(g) \/ PrepareFails(g)
      PROVE  TeamEmpty'
  BY <1>22, ThreadKinds, KindsDisjoint DEF PrepareSkip, PrepareStart, PrepareFails
<1>23. ASSUME NEW g \in Growers, GrowLock(g) PROVE TeamEmpty'
  <2>1. CASE state = "running" /\ Target > active
    <3>1. th' = [th EXCEPT ![g].pc = "grow"] /\ growth' = g
      BY <1>23, <2>1 DEF GrowLock
    <3> QED  BY <1>23, <3>1, ThreadKinds, KindsDisjoint DEF GrowLock
  <2>2. CASE ~ (state = "running" /\ Target > active)
    <3>1. th' = [th EXCEPT ![g].pc = "done"] /\ growth' = growth
      BY <1>23, <2>2 DEF GrowLock
    <3> QED  BY <1>23, <3>1, ThreadKinds, KindsDisjoint DEF GrowLock
  <2> QED  BY <2>1, <2>2
<1>24. ASSUME NEW g \in Growers,
         GrowSpawn(g) \/ GrowFails(g) \/ GrowStore(g) \/ GrowPublish(g)
      PROVE  TeamEmpty'
  BY <1>24, ThreadKinds, KindsDisjoint DEF GrowSpawn, GrowFails, GrowStore, GrowPublish
<1>25. ASSUME NEW z \in Closers,
         CloseSkip(z) \/ CloseStart(z) \/ CloseLock(z)
      PROVE  TeamEmpty'
  BY <1>25, ThreadKinds, KindsDisjoint DEF CloseSkip, CloseStart, CloseLock
<1>26. ASSUME NEW z \in Closers, Gather(z) PROVE TeamEmpty'
  <2>1. CASE Running(slot[Min(th[z].left)])
    <3>1. th' = [th EXCEPT ![z].left = @ \ {Min(th[z].left)},
                             ![z].team = @ \cup {<<Min(th[z].left), slot[Min(th[z].left)]>>}]
      BY <1>26, <2>1 DEF Gather
    <3> QED  BY <1>26, <3>1, ThreadKinds, KindsDisjoint DEF Gather
  <2>2. CASE ~ Running(slot[Min(th[z].left)])
    <3>1. th' = [th EXCEPT ![z].pc = "halt"]
      BY <1>26, <2>2 DEF Gather
    <3> QED  BY <1>26, <3>1, ThreadKinds, KindsDisjoint DEF Gather
  <2> QED  BY <2>1, <2>2
<1>27. ASSUME NEW z \in Closers,
         Drained(z) \/ Collect(z) \/ CollectSkip(z) \/ Reduce(z) \/ Halt(z) \/ Sweep(z)
      PROVE  TeamEmpty'
  BY <1>27, ThreadKinds, KindsDisjoint DEF Drained, Collect, CollectSkip, Reduce, Halt, Sweep
<1>28. ASSUME NEW z \in Closers, StopAll(z) PROVE TeamEmpty'
  BY <1>28, ThreadKinds, KindsDisjoint DEF StopAll
<1>29. CASE Crash
  BY <1>29, ThreadKinds, KindsDisjoint DEF Crash
<1>30. CASE Finished \/ UNCHANGED vars
  BY <1>30, ThreadKinds, KindsDisjoint DEF Finished, vars
<1> QED
  BY <1>1, <1>2, <1>3, <1>4, <1>5, <1>6, <1>7, <1>8, <1>9, <1>10, <1>11, <1>12, <1>13, <1>14,
       <1>15, <1>16, <1>17, <1>18, <1>19, <1>20, <1>21, <1>22, <1>23, <1>24, <1>25, <1>26,
       <1>27, <1>28, <1>29, <1>30
    DEF Next, RestartStep, RecoverStep, RequestStep, BroadcastStep, GrowStep, CloseStep,
       Restarters

(***************************************************************************)
(* The slots of a team to which a worker is added.                         *)
(***************************************************************************)
LEMMA FirstOfUnion ==
    ASSUME NEW T, NEW i, NEW s
    PROVE  {m[1] : m \in T \cup {<<i, s>>}} = {m[1] : m \in T} \cup {i}
<1>1. <<i, s>>[1] = i
  OBVIOUS
<1>2. ASSUME NEW x \in {m[1] : m \in T \cup {<<i, s>>}}
      PROVE  x \in {m[1] : m \in T} \cup {i}
  <2>1. PICK m \in T \cup {<<i, s>>} : x = m[1]
    BY <1>2
  <2> QED  BY <1>1, <2>1
<1>3. ASSUME NEW x \in {m[1] : m \in T} \cup {i}
      PROVE  x \in {m[1] : m \in T \cup {<<i, s>>}}
  <2>1. CASE x \in {m[1] : m \in T}
    BY <2>1
  <2>2. CASE x = i
    <3>1. <<i, s>> \in T \cup {<<i, s>>}
      OBVIOUS
    <3> QED  BY <1>1, <2>2, <3>1, Zenon
  <2> QED  BY <1>3, <2>1, <2>2
<1> QED  BY <1>2, <1>3, Zenon

(***************************************************************************)
(* While a closer holds the growth lock nobody grows.                      *)
(***************************************************************************)
LEMMA ClosingKeepsActive ==
    ASSUME Inv, [Next]_vars, NEW z \in Closers, HoldsGrowth(z)
    PROVE  active' = active
<1>1. GrowthHeld /\ Changed
  BY ChangedStep DEF Inv
<1>2. growth = z
  BY <1>1, ThreadKinds DEF GrowthHeld
<1>3. ASSUME NEW r \in Requesters, GrowOnePublish(r)
      PROVE  FALSE
  <2>1. growth = r
    BY <1>1, <1>3, ThreadKinds DEF GrowthHeld, HoldsGrowth, GrowOnePublish, At
  <2> QED  BY <1>2, <2>1, KindsDisjoint
<1>4. ASSUME NEW g \in Growers, GrowPublish(g)
      PROVE  FALSE
  <2>1. growth = g
    BY <1>1, <1>4, ThreadKinds DEF GrowthHeld, HoldsGrowth, GrowPublish, At
  <2> QED  BY <1>2, <2>1, KindsDisjoint
<1> QED  BY <1>1, <1>3, <1>4 DEF Changed

(***************************************************************************)
(* What a closer has gathered and what it has left to visit are together   *)
(* all active slots.                                                       *)
(***************************************************************************)
LEMMA GatheredStep ==
    ASSUME Inv, [Next]_vars
    PROVE  Gathered'
<1>1. /\ PoolType /\ Shape /\ Locals /\ TeamEmpty /\ Gathered
      /\ \A u \in Threads : Entered(u)
  BY EnteredStep DEF Inv
<1> SUFFICES ASSUME NEW z \in Closers, th'[z].pc \in {"gather", "collect", "reduce"}
             PROVE  /\ {m[1] : m \in th'[z].team} \cup th'[z].left = 0..(active' - 1)
                    /\ th'[z].pc \in {"collect", "reduce"} => th'[z].left = {}
  BY DEF Gathered
<1>2. z \in Threads
  BY ThreadKinds
<1>3. CASE th'[z] = th[z]
  <2>1. active' = active
    BY <1>3, ClosingKeepsActive DEF HoldsGrowth
  <2> QED  BY <1>1, <1>3, <2>1 DEF Gathered
<1>4. CASE CloseLock(z)
  <2>1. th[z].team = {} /\ active' = active
    BY <1>1, <1>4 DEF CloseLock, At, TeamEmpty
  <2>2. CASE Reduction
    <3>1. th' = [th EXCEPT ![z].pc = "gather", ![z].left = 0..(active - 1)]
      BY <1>4, <2>2 DEF CloseLock
    <3>2. th'[z].pc = "gather" /\ th'[z].left = 0..(active - 1) /\ th'[z].team = {}
      BY <1>1, <1>2, <2>1, <3>1 DEF Shape
    <3> QED  BY <2>1, <3>2
  <2>3. CASE ~ Reduction
    <3>1. th' = [th EXCEPT ![z].pc = "halt", ![z].left = 0..(active - 1)]
      BY <1>4, <2>3 DEF CloseLock
    <3>2. th'[z].pc = "halt"
      BY <1>1, <1>2, <3>1 DEF Shape
    <3> QED  BY <3>2
  <2> QED  BY <2>2, <2>3
<1>5. CASE Gather(z)
  <2> DEFINE i == Min(th[z].left)
  <2>1. th[z].left \in SUBSET Nat /\ th[z].left # {} /\ active' = active /\ th[z].pc = "gather"
    BY <1>1, <1>2, <1>5 DEF Locals, Slots, Gather, At, pool
  <2>2. i \in th[z].left
    BY <2>1, MinParts
  <2>3. {m[1] : m \in th[z].team} \cup th[z].left = 0..(active - 1)
    BY <1>1, <2>1 DEF Gathered
  <2>4. CASE Running(slot[i])
    <3>1. th' = [th EXCEPT ![z].left = @ \ {i}, ![z].team = @ \cup {<<i, slot[i]>>}]
      BY <1>5, <2>4 DEF Gather
    <3> HIDE DEF i
    <3>2. /\ th'[z].left = th[z].left \ {i} /\ th'[z].team = th[z].team \cup {<<i, slot[i]>>}
          /\ th'[z].pc = "gather"
      BY <1>1, <1>2, <2>1, <3>1 DEF Shape
    <3>3. {m[1] : m \in th'[z].team} = {m[1] : m \in th[z].team} \cup {i}
      <4>1. {m[1] : m \in th[z].team \cup {<<i, slot[i]>>}} = {m[1] : m \in th[z].team} \cup {i}
        BY FirstOfUnion
      <4>2. th'[z].team = th[z].team \cup {<<i, slot[i]>>}
        BY <3>2
      <4> QED  BY <4>1, <4>2, Zenon
    <3> QED  BY <2>1, <2>2, <2>3, <3>2, <3>3
  <2>5. CASE ~ Running(slot[i])
    <3>1. th' = [th EXCEPT ![z].pc = "halt"]
      BY <1>5, <2>5 DEF Gather, Goto
    <3>2. th'[z].pc = "halt"
      BY <1>1, <1>2, <3>1 DEF Shape
    <3> QED  BY <3>2
  <2> QED  BY <2>4, <2>5
<1>6. CASE Drained(z) \/ Collect(z)
  <2>1. /\ active' = active
        /\ \/ th[z].pc = "gather" /\ th[z].left = {}
           \/ th[z].pc = "collect"
    BY <1>6 DEF Drained, Collect, At, pool
  <2>2. th'[z].team = th[z].team /\ th'[z].left = th[z].left
    BY <1>1, <1>2, <1>6 DEF Drained, Collect, Goto, Shape
  <2> QED  BY <1>1, <2>1, <2>2 DEF Gathered
<1> QED
  BY <1>1, <1>2, <1>3, <1>4, <1>5, <1>6, KindsDisjoint DEF Entered, Settled, Restarters

(***************************************************************************)
(* WorkerPool::new establishes the invariant.                              *)
(***************************************************************************)
LEMMA InitInv ==
    Init => Inv
<1> SUFFICES ASSUME Init PROVE Inv
  OBVIOUS
<1>1. /\ Capacity \in Nat /\ Initial \in Nat /\ 1 <= Initial /\ Initial <= Capacity
      /\ 0 \in Slots /\ Nobody \notin Threads
  BY PoolAssumption DEF Slots
<1>2. workers \in Seq(WorkerType) /\ Len(workers) = Initial
  <2>1. \A w \in 1..Initial : w - 1 \in Slots
    BY <1>1 DEF Slots
  <2>2. workers \in [1..Initial -> WorkerType]
    BY <2>1 DEF Init, WorkerType
  <2> QED  BY <1>1, <2>2, SeqDef, LenProperties
<1>3. \A w \in 1..Initial :
         workers[w].home = w - 1 /\ workers[w].state = "running" /\ workers[w].applied = {}
  BY DEF Init
<1>4. \A t \in Threads :
         /\ th[t] = Idle
         /\ th[t].pc = "idle" /\ th[t].left = {} /\ th[t].idx = 0 /\ th[t].old = 0
         /\ th[t].new = {} /\ th[t].team = {} /\ th[t].pick.slot = 0 /\ th[t].pick.worker = 0
  BY DEF Init, Idle, NoPick
<1>5. /\ \A i \in Slots : slot[i] = IF i < Initial THEN i + 1 ELSE 0
      /\ slot \in [Slots -> Nat] /\ slotLock \in [Slots -> Threads \cup {Nobody}]
  BY <1>1 DEF Init, Slots
<1>6. active = Initial /\ growth = Nobody /\ bootstraps = {} /\ state = "running"
  BY DEF Init
<1>7. /\ Restarters \subseteq Threads /\ AddWorkers \subseteq Threads /\ Closers \subseteq Threads
      /\ Requesters \subseteq Threads
  BY DEF Restarters, AddWorkers, Threads
<1>8. PoolType
  BY <1>1, <1>2, <1>5, <1>6 DEF PoolType
<1>9. Shape
  BY DEF Init, Shape, Idle
<1>10. Locals
  BY <1>1, <1>4 DEF Locals
<1>11. /\ GrowthHeld /\ SlotHeld /\ InHand /\ TopFree /\ GrowthInHand /\ GrowthFilled
       /\ LeftActive /\ TeamActive /\ RestartActive /\ EmptyHanded /\ TeamEmpty
       /\ Evidence /\ Replayed /\ Closing /\ Gathered
  BY <1>4, <1>7
    DEF GrowthHeld, HoldsGrowth, SlotHeld, InHand, TopFree, GrowthInHand, GrowthFilled, LeftActive,
        TeamActive, RestartActive, EmptyHanded, TeamEmpty, Evidence, Replayed, Closing, Gathered,
        AddWorkers, Restarters
<1>12. PickActive
  BY <1>1, <1>2, <1>4, <1>6, <1>7 DEF PickActive
<1>13. SlotHomes /\ ActiveFilled
  BY <1>1, <1>2, <1>3, <1>5, <1>6 DEF SlotHomes, ActiveFilled, Slots
<1>14. Unpublished
  BY <1>1, <1>5, <1>6 DEF Unpublished, Slots
<1>15. Live
  BY <1>1, <1>2, <1>3, <1>5 DEF Live, Slots
<1> QED
  BY <1>8, <1>9, <1>10, <1>11, <1>12, <1>13, <1>14, <1>15 DEF Inv

(***************************************************************************)
(* Every step keeps the invariant.                                         *)
(***************************************************************************)
LEMMA InvStep ==
    Inv /\ [Next]_vars => Inv'
<1> SUFFICES ASSUME Inv, [Next]_vars PROVE Inv'
  OBVIOUS
<1>1. /\ PoolType' /\ Shape' /\ Locals'
  BY PoolTypeStep, ShapeStep, LocalsStep
<1>2. /\ GrowthHeld' /\ SlotHeld' /\ SlotHomes' /\ ActiveFilled'
  BY GrowthHeldStep, SlotHeldStep, SlotHomesStep, ActiveFilledStep
<1>3. /\ InHand' /\ TopFree' /\ GrowthInHand' /\ GrowthFilled'
  BY InHandStep, TopFreeStep, GrowthInHandStep, GrowthFilledStep
<1>4. /\ LeftActive' /\ TeamActive' /\ PickActive' /\ RestartActive'
  BY LeftActiveStep, TeamActiveStep, PickActiveStep, RestartActiveStep
<1>5. /\ Unpublished' /\ EmptyHanded' /\ TeamEmpty' /\ Evidence'
  BY UnpublishedStep, EmptyHandedStep, TeamEmptyStep, EvidenceStep
<1>6. /\ Live' /\ Replayed' /\ Closing' /\ Gathered'
  BY LiveStep, ReplayedStep, ClosingStep, GatheredStep
<1> QED
  BY <1>1, <1>2, <1>3, <1>4, <1>5, <1>6 DEF Inv

(***************************************************************************)
(* The invariant holds in every reachable state of the pool.               *)
(***************************************************************************)
THEOREM PoolInvariant ==
    Spec => []Inv
BY InitInv, InvStep, PTL DEF Spec

(***************************************************************************)
(* A slot below active_workers always holds a worker of its own index,     *)
(* whatever restarts and grows at the same time.                           *)
(***************************************************************************)
THEOREM FilledSlots ==
    Spec => []ActiveSlotsFilled
<1>1. Inv => ActiveSlotsFilled
  <2> SUFFICES ASSUME Inv, NEW i \in 0..(active - 1)
               PROVE  slot[i] # 0 /\ workers[slot[i]].home = i
    BY DEF ActiveSlotsFilled
  <2>1. i \in Nat /\ i < active
    BY DEF Inv, PoolType
  <2> QED  BY <2>1, SlotOccupied
<1> QED  BY <1>1, PoolInvariant, PTL

(***************************************************************************)
(* Two growths are never under way together.                               *)
(***************************************************************************)
LEMMA GrowthHolder ==
    ASSUME Inv, NEW t \in AddWorkers, th[t].pc \in {"store", "publish"},
           NEW u \in AddWorkers, th[u].pc = "store"
    PROVE  t = u
BY ThreadKinds DEF Inv, GrowthHeld, HoldsGrowth, AddWorkers

(***************************************************************************)
(* No slot has two live processes, however many threads restart it or grow *)
(* into it. A running worker is in its slot or in a thread's hands; the    *)
(* slot's locks leave one thread to restart it, whose slot then holds a    *)
(* dead worker, and the growth lock leaves one growth, whose slots are     *)
(* empty.                                                                  *)
(***************************************************************************)
THEOREM OneProcess ==
    Spec => []OneProcessPerSlot
<1>1. Inv => OneProcessPerSlot
  <2> SUFFICES ASSUME Inv, NEW v \in DOMAIN workers, NEW w \in DOMAIN workers,
                      Running(v), Running(w), workers[v].home = workers[w].home
               PROVE  v = w
    BY DEF OneProcessPerSlot
  <2> DEFINE i == workers[v].home
             Installing(x) == \E t \in Restarters : th[t].pc = "install" /\ x \in th[t].new
             Storing(x) == \E t \in AddWorkers : th[t].pc = "store" /\ x \in th[t].new
  <2>1. /\ PoolType /\ SlotHeld /\ InHand /\ GrowthInHand /\ Evidence /\ Live /\ RestartActive
        /\ SlotHomes
    BY DEF Inv
  <2>2. /\ v \in 1..Len(workers) /\ w \in 1..Len(workers) /\ i \in Slots
        /\ active \in Nat /\ Capacity \in Nat
    <3>1. v \in 1..Len(workers) /\ w \in 1..Len(workers) /\ workers \in Seq(WorkerType)
      BY <2>1 DEF PoolType
    <3>2. workers[v] \in WorkerType
      BY <3>1
    <3>3. workers[v].home \in Slots
      BY <3>2 DEF WorkerType
    <3> QED  BY <2>1, <3>1, <3>3, Capacities DEF PoolType
  <2>3. \A x \in {v, w} : slot[i] = x \/ Installing(x) \/ Storing(x)
    BY <2>1, <2>2 DEF Live
  \* Where a worker in the hands of a thread can be, and what its slot then holds.
  <2>4. ASSUME NEW x \in {v, w}, NEW t \in Restarters, th[t].pc = "install", x \in th[t].new
        PROVE  /\ th[t].idx = i /\ th[t].new = {x} /\ slotLock[i] = t
               /\ i < active /\ ~ Running(slot[i])
    <3>1. PICK y \in 1..Len(workers) : th[t].new = {y} /\ workers[y].home = th[t].idx
      BY <2>1, <2>4 DEF InHand
    <3>2. y = x /\ th[t].idx = i
      BY <2>4, <3>1
    <3> QED  BY <2>1, <2>4, <3>1, <3>2 DEF SlotHeld, Evidence, RestartActive
  <2>5. ASSUME NEW x \in {v, w}, NEW t \in AddWorkers, th[t].pc = "store", x \in th[t].new
        PROVE  i >= active /\ slot[i] = 0
    <3>1. i >= active
      BY <2>1, <2>2, <2>5 DEF GrowthInHand
    <3> QED  BY <2>2, <2>5, <3>1, StoreSlots
  <2>6. v \in Nat \ {0} /\ w \in Nat \ {0}
    BY <2>2
  <2>7. CASE slot[i] = v \/ slot[i] = w
    <3>1. \A x \in {v, w} : ~ Installing(x) /\ ~ Storing(x)
      <4>1. Running(slot[i]) /\ slot[i] # 0
        BY <2>6, <2>7
      <4> QED  BY <2>4, <2>5, <4>1
    <3> QED  BY <2>3, <3>1
  <2>8. CASE Installing(v) /\ Installing(w)
    <3>1. PICK t \in Restarters : th[t].pc = "install" /\ v \in th[t].new
      BY <2>8
    <3>2. PICK u \in Restarters : th[u].pc = "install" /\ w \in th[u].new
      BY <2>8
    <3>3. t = u /\ th[t].new = {v} /\ th[u].new = {w}
      BY <2>4, <3>1, <3>2
    <3> QED  BY <3>3
  <2>9. CASE Storing(v) /\ Storing(w)
    <3>1. PICK t \in AddWorkers : th[t].pc = "store" /\ v \in th[t].new
      BY <2>9
    <3>2. PICK u \in AddWorkers : th[u].pc = "store" /\ w \in th[u].new
      BY <2>9
    <3>3. t = u
      BY <3>1, <3>2, GrowthHolder
    <3> QED  BY <2>1, <3>1, <3>2, <3>3 DEF GrowthInHand
  <2>10. CASE \E x, y \in {v, w} : Installing(x) /\ Storing(y)
    <3>1. i < active
      BY <2>4, <2>10
    <3>2. i >= active
      BY <2>5, <2>10
    <3> QED  BY <2>2, <3>1, <3>2 DEF Slots
  <2> QED  BY <2>3, <2>7, <2>8, <2>9, <2>10
<1> QED  BY <1>1, PoolInvariant, PTL

(***************************************************************************)
(* A running worker that is in its slot is stopped only by a closer:       *)
(* neither a restart nor a failed growth has it in hand.                   *)
(***************************************************************************)
LEMMA HealthyRuns ==
    ASSUME Inv, [Next]_vars, NEW i \in Slots, slot[i] # 0, Running(slot[i]),
           workers'[slot[i]].state = "stopped"
    PROVE  state # "running"
<1> DEFINE h == slot[i]
<1>1. /\ PoolType /\ SlotHomes /\ InHand /\ GrowthInHand /\ Evidence /\ EmptyHanded /\ Closing
      /\ WorkersChanged
  BY WorkersStep DEF Inv
<1>2. /\ h \in 1..Len(workers) /\ workers[h].home = i /\ workers[h].state = "running"
      /\ active \in Nat /\ Capacity \in Nat /\ DOMAIN workers = 1..Len(workers)
  BY <1>1, Capacities DEF SlotHomes, Running, PoolType
<1>3. ~ NoneStopped
  BY <1>2 DEF NoneStopped
<1>4. ASSUME NEW ws, workers' = Stopped(ws)
      PROVE  h \in ws
  BY <1>1, <1>2, <1>4 DEF Stopped
<1>5. ASSUME NEW t \in Restarters, RestartBegin(t) \/ ReplayFails(t)
      PROVE  FALSE
  <2>1. CASE RestartBegin(t)
    <3>1. ~ Running(th[t].old)
      BY <1>1, <2>1 DEF RestartBegin, At, Evidence
    <3>2. h \in {th[t].old}
      BY <1>4, <2>1 DEF RestartBegin
    <3> QED  BY <3>1, <3>2
  <2>2. CASE ReplayFails(t)
    <3>1. PICK w \in 1..Len(workers) : th[t].new = {w} /\ workers[w].home = th[t].idx
      BY <1>1, <2>2 DEF ReplayFails, At, InHand
    <3>2. h \in th[t].new
      BY <1>4, <2>2 DEF ReplayFails
    <3>3. th[t].idx = i
      BY <1>2, <3>1, <3>2
    <3>4. ~ Running(slot[th[t].idx])
      BY <1>1, <2>2 DEF ReplayFails, At, Evidence
    <3> QED  BY <3>3, <3>4
  <2> QED  BY <1>5, <2>1, <2>2
<1>6. ASSUME NEW t \in AddWorkers, th[t].pc = "store"
      PROVE  h \notin th[t].new
  <2>1. ASSUME h \in th[t].new
        PROVE  FALSE
    <3>1. workers[h].home >= active
      BY <1>1, <1>2, <1>6, <2>1 DEF GrowthInHand
    <3> QED  BY <1>2, <1>6, <3>1, StoreSlots
  <2> QED  BY <2>1
<1>7. ASSUME NEW r \in Requesters, GrowOneFails(r)
      PROVE  FALSE
  <2>1. h \in th[r].new
    BY <1>4, <1>7 DEF GrowOneFails
  <2> QED  BY <1>1, <1>6, <1>7, <2>1, ThreadKinds DEF GrowOneFails, At, EmptyHanded
<1>8. ASSUME NEW g \in Growers, GrowFails(g)
      PROVE  FALSE
  <2>1. h \in th[g].new
    BY <1>4, <1>8 DEF GrowFails
  <2> QED  BY <1>6, <1>8, <2>1, ThreadKinds DEF GrowFails, At
<1>9. ASSUME NEW z \in Closers, Collect(z) \/ StopAll(z)
      PROVE  state # "running"
  BY <1>1, <1>9 DEF Collect, StopAll, At, Closing
<1> QED
  BY <1>1, <1>3, <1>5, <1>7, <1>8, <1>9 DEF WorkersChanged

(***************************************************************************)
(* A healthy worker is never taken out of its slot, and while the pool     *)
(* runs nobody stops it.                                                   *)
(***************************************************************************)
THEOREM HealthyStay ==
    Spec => HealthyWorkersStay
<1>1. Inv /\ [Next]_vars =>
         [\A i \in Slots :
             slot[i] # 0 /\ Running(slot[i]) =>
                 /\ slot'[i] = slot[i]
                 /\ workers'[slot[i]].state = "stopped" => state # "running"]_<<slot, workers>>
  BY HealthySlots, HealthyRuns
<1> QED  BY <1>1, PoolInvariant, PTL DEF Spec, HealthyWorkersStay

(***************************************************************************)
(* A worker that joins by growth starts with the recorded bootstraps, and  *)
(* no broadcast is under way while it joins: both hold the growth lock.    *)
(***************************************************************************)
THEOREM ConsistentGrowth ==
    Spec => []GrowthIsConsistent
<1>1. Inv => GrowthIsConsistent
  <2> SUFFICES ASSUME Inv, NEW t \in AddWorkers, th[t].pc \in {"store", "publish"}
               PROVE  /\ \A w \in th[t].new : workers[w].applied = bootstraps
                      /\ \A b \in Broadcasters : th[b].pc \in {"idle", "lock", "done"}
    BY DEF GrowthIsConsistent, AddWorkers
  <2>1. \A w \in th[t].new : workers[w].applied = bootstraps
    BY DEF Inv, Replayed
  <2>2. ASSUME NEW b \in Broadcasters, th[b].pc \notin {"idle", "lock", "done"}
        PROVE  FALSE
    <3>1. growth = t
      BY ThreadKinds DEF Inv, GrowthHeld, HoldsGrowth, AddWorkers
    <3>2. growth = b
      BY <2>2, ThreadKinds DEF Inv, GrowthHeld, HoldsGrowth
    <3>3. t \in Requesters \/ t \in Growers
      BY DEF AddWorkers
    <3> QED  BY <3>1, <3>2, <3>3, KindsDisjoint
  <2> QED  BY <2>1, <2>2
<1> QED  BY <1>1, PoolInvariant, PTL

(***************************************************************************)
(* What the closer reduces is every active worker: none joins after it has *)
(* begun to gather.                                                        *)
(***************************************************************************)
THEOREM CompleteReduction ==
    Spec => []ReductionIsComplete
<1>1. Inv => ReductionIsComplete
  <2> SUFFICES ASSUME Inv, NEW z \in Closers, th[z].pc \in {"collect", "reduce"}
               PROVE  {m[1] : m \in th[z].team} = 0..(active - 1)
    BY DEF ReductionIsComplete
  <2>1. /\ {m[1] : m \in th[z].team} \cup th[z].left = 0..(active - 1)
        /\ th[z].left = {}
    BY DEF Inv, Gathered
  <2> QED  BY <2>1
<1> QED  BY <1>1, PoolInvariant, PTL
==============================================================================
