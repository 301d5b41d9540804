---------------------- MODULE ExtensionPoolReservations ----------------------
(***************************************************************************)
(* Proofs about the reservations of the pool of extension workers, for any *)
(* capacity and any number of threads and deaths: a worker's load is the   *)
(* number of threads that have reserved it, so it is zero when nobody is   *)
(* inside the pool, and the reduction that waits for zero is alone with    *)
(* the workers it has collected.  And what a shutdown leaves running.      *)
(***************************************************************************)
EXTENDS ExtensionPoolProofs, FiniteSetTheorems

-----------------------------------------------------------------------------
(* The invariant.                                                          *)

\* Between a failed exchange and the end of the reservation.
Recovering(t) ==
    \/ th[t].pc \in {"recover", "match", "release"}
    \/ th[t].pc \in {"restart", "spawn", "install"} /\ th[t].back # "scan"

Holding(t) == th[t].pc \in {"recheck", "exchange", "ask", "settle"} \/ Recovering(t)

Members(t) == {m[2] : m \in th[t].team}

\* The workers a thread has reserved: a request its pick, a broadcast its team.
Reserved(t) ==
    IF ~ Holding(t) THEN {}
    ELSE IF t \in Requesters THEN {th[t].pick.worker}
    ELSE IF t \in Broadcasters THEN Members(t)
    ELSE {}

Holders(w) == {t \in Threads : w \in Reserved(t)}

\* A worker's load is the number of its reservations.
LoadsCounted == \A w \in 1..Len(workers) : workers[w].load = Cardinality(Holders(w))

\* A broadcast has one worker per slot, of that slot.
TeamHomes ==
    \A b \in Broadcasters : \A m \in th[b].team : workers[m[2]].home = m[1]

\* The worker whose reservation a broadcast is about to drop is one of its team.
Picked ==
    \A b \in Broadcasters :
        Recovering(b) => <<th[b].pick.slot, th[b].pick.worker>> \in th[b].team

\* The first process of its slot.
First(w) == \A v \in 1..(w - 1) : workers[v].home # workers[w].home

\* A restart replaces a process.
Replacements ==
    \A t \in Restarters : th[t].pc = "install" => \A w \in th[t].new : ~ First(w)

\* The closer has seen the first process of each slot it has been to, if it runs.
Swept ==
    \A z \in Closers : th[z].pc = "sweep" =>
        \A w \in 1..Len(workers) :
            First(w) /\ Running(w) /\ workers[w].home \notin th[z].left => w \in Members(z)

\* After the shutdown nobody adds workers, and none of the first is left.
NoGrowth == state = "stopped" => \A t \in AddWorkers : ~ HoldsGrowth(t)
Outlived == state = "stopped" => \A w \in 1..Len(workers) : Running(w) => ~ First(w)

\* The variables the other proofs do not need.
RestType ==
    /\ state \in {"running", "finalizing", "stopping", "stopped"}
    /\ preparing \in BOOLEAN /\ crashes \in 0..MaxCrashes

\* The part of the inductive invariant that is about reservations and shutdown.
ReservationInv ==
    /\ Inv /\ RestType /\ LoadsCounted /\ TeamHomes /\ Picked /\ ReductionIsQuiet
    /\ Replacements /\ Swept /\ NoGrowth /\ Outlived

-----------------------------------------------------------------------------
(* What the operations on the table of workers do to the loads.            *)

\* Between two states: the loads of the workers ws change by n, new workers have none.
LoadsMove(ws, n) ==
    /\ Len(workers) <= Len(workers')
    /\ \A w \in 1..Len(workers) :
          workers'[w].load = IF w \in ws THEN workers[w].load + n ELSE workers[w].load
    /\ \A w \in 1..Len(workers') : w > Len(workers) => workers'[w].load = 0

\* Reservations are taken and dropped.
LEMMA LoadedLoads ==
    ASSUME PoolType, NEW ws, NEW n \in Int, workers' = Loaded(ws, n)
    PROVE  LoadsMove(ws, n)
<1>1. Len(workers) \in Nat /\ \A w \in 1..Len(workers) : workers[w] \in WorkerType
  BY DEF PoolType
<1>2. Len(workers') = Len(workers)
  BY LoadedParts DEF PoolType
<1>0. \A w \in 1..Len(workers) : w \in DOMAIN workers
  BY DEF PoolType
<1>3. ASSUME NEW w \in 1..Len(workers)
      PROVE  workers'[w].load = IF w \in ws THEN workers[w].load + n ELSE workers[w].load
  <2>1. workers'[w] = IF w \in ws THEN [workers[w] EXCEPT !.load = @ + n] ELSE workers[w]
    BY <1>0 DEF Loaded
  <2>2. workers[w] \in WorkerType
    BY <1>1
  <2>3. [workers[w] EXCEPT !.load = @ + n].load = workers[w].load + n
    BY <2>2 DEF WorkerType
  <2> QED
    BY <2>1, <2>3
<1> QED
  BY <1>1, <1>2, <1>3 DEF LoadsMove

\* Nothing happens to the table.
LEMMA SameLoads ==
    ASSUME PoolType, UNCHANGED workers
    PROVE  LoadsMove({}, 0)
BY DEF LoadsMove, PoolType

\* Workers are stopped.
LEMMA StoppedLoads ==
    ASSUME PoolType, NEW ws, workers' = Stopped(ws)
    PROVE  LoadsMove({}, 0)
<1>1. Len(workers) \in Nat /\ \A w \in 1..Len(workers) : workers[w] \in WorkerType
  BY DEF PoolType
<1>2. Len(workers') = Len(workers)
  BY StoppedParts DEF PoolType
<1>0. \A w \in 1..Len(workers) : w \in DOMAIN workers
  BY DEF PoolType
<1>3. ASSUME NEW w \in 1..Len(workers)
      PROVE  workers'[w].load = workers[w].load
  <2>1. workers'[w] = IF w \in ws THEN [workers[w] EXCEPT !.state = "stopped"] ELSE workers[w]
    BY <1>0 DEF Stopped
  <2>2. workers[w] \in WorkerType
    BY <1>1
  <2>3. [workers[w] EXCEPT !.state = "stopped"].load = workers[w].load
    BY <2>2 DEF WorkerType
  <2> QED
    BY <2>1, <2>3
<1> QED
  BY <1>1, <1>2, <1>3 DEF LoadsMove

\* A worker is spawned.
LEMMA SpawnedLoads ==
    ASSUME PoolType, NEW i \in Slots, workers' = Append(workers, NewWorker(i))
    PROVE  LoadsMove({}, 0)
<1>1. Len(workers) \in Nat
  BY DEF PoolType
<1>2. /\ Len(workers') = Len(workers) + 1
      /\ \A w \in 1..Len(workers) : workers'[w] = workers[w]
      /\ workers'[Len(workers) + 1] = NewWorker(i)
  BY SpawnedParts DEF PoolType
<1>3. NewWorker(i).load = 0
  BY DEF NewWorker
<1> QED
  BY <1>1, <1>2, <1>3 DEF LoadsMove

\* A growth spawns workers.
LEMMA AddedLoads ==
    ASSUME PoolType, NEW n \in Nat, active + n <= Capacity,
           workers' = workers \o [k \in 1..n |-> NewWorker(active + k - 1)]
    PROVE  LoadsMove({}, 0)
<1>1. active \in Nat /\ Capacity \in Nat /\ Len(workers) \in Nat
  BY Capacities DEF PoolType
<1>2. /\ Len(workers') = Len(workers) + n
      /\ \A w \in 1..Len(workers) : workers'[w] = workers[w]
      /\ \A k \in 1..n : workers'[Len(workers) + k] = NewWorker(active + k - 1)
  BY <1>1, GrownParts DEF PoolType
<1>3. \A i : NewWorker(i).load = 0
  BY DEF NewWorker
<1>4. ASSUME NEW w \in 1..Len(workers'), w > Len(workers)
      PROVE  workers'[w].load = 0
  <2>1. w - Len(workers) \in 1..n /\ Len(workers) + (w - Len(workers)) = w
    BY <1>1, <1>2, <1>4
  <2>2. workers'[w] = NewWorker(active + (w - Len(workers)) - 1)
    BY <1>2, <2>1
  <2> QED
    BY <1>3, <2>2
<1> QED
  BY <1>1, <1>2, <1>4 DEF LoadsMove

\* A payload is applied.
LEMMA AppliedLoads ==
    ASSUME PoolType, NEW v \in 1..Len(workers), NEW b \in Broadcasters,
           workers' = [workers EXCEPT ![v].applied = Record(@, b)]
    PROVE  LoadsMove({}, 0)
<1>1. Len(workers) \in Nat /\ DOMAIN workers = 1..Len(workers)
      /\ \A w \in 1..Len(workers) : workers[w] \in WorkerType
  BY DEF PoolType
<1>2. Len(workers') = Len(workers)
  BY <1>1, AppliedParts DEF PoolType
<1>3. ASSUME NEW w \in 1..Len(workers)
      PROVE  workers'[w].load = workers[w].load
  <2>1. workers'[w] = IF w = v THEN [workers[w] EXCEPT !.applied = Record(@, b)] ELSE workers[w]
    BY <1>1
  <2>2. workers[w] \in WorkerType
    BY <1>1
  <2>3. [workers[w] EXCEPT !.applied = Record(@, b)].load = workers[w].load
    BY <2>2 DEF WorkerType
  <2> QED
    BY <2>1, <2>3
<1> QED
  BY <1>1, <1>2, <1>3 DEF LoadsMove

\* A process dies.
LEMMA FailedLoads ==
    ASSUME PoolType, NEW v \in DOMAIN workers, workers' = [workers EXCEPT ![v].state = "failed"]
    PROVE  LoadsMove({}, 0)
<1>1. Len(workers) \in Nat /\ DOMAIN workers = 1..Len(workers)
      /\ \A w \in 1..Len(workers) : workers[w] \in WorkerType
  BY DEF PoolType
<1>2. Len(workers') = Len(workers)
  BY <1>1, FailedParts DEF PoolType
<1>3. ASSUME NEW w \in 1..Len(workers)
      PROVE  workers'[w].load = workers[w].load
  <2>1. workers'[w] = IF w = v THEN [workers[w] EXCEPT !.state = "failed"] ELSE workers[w]
    BY <1>1
  <2>2. workers[w] \in WorkerType
    BY <1>1
  <2>3. [workers[w] EXCEPT !.state = "failed"].load = workers[w].load
    BY <2>2 DEF WorkerType
  <2> QED
    BY <2>1, <2>3
<1> QED
  BY <1>1, <1>2, <1>3 DEF LoadsMove

-----------------------------------------------------------------------------
(* What a step does to the reservations.                                   *)

\* A worker of the slot it is listed with.
KnownMember(m) == m[2] \in 1..Len(workers) /\ workers[m[2]].home = m[1]

\* Between two states: how the reservations of t and the loads change together.
ReservedMove(t) ==
    \/ Reserved(t)' = Reserved(t) /\ LoadsMove({}, 0)
    \/ \E ws : /\ ws \cap Reserved(t) = {} /\ \A w \in ws : w <= Len(workers)
               /\ Reserved(t)' = Reserved(t) \cup ws /\ LoadsMove(ws, 1)
    \/ \E ws : /\ ws \subseteq Reserved(t)
               /\ Reserved(t)' = Reserved(t) \ ws /\ LoadsMove(ws, -1)

\* Between two states: t has made a step, and what it may be.
Turn(t) ==
    /\ Others(t) /\ ReservedMove(t)
    /\ t \in Broadcasters =>
          /\ \A m \in th'[t].team : m \in th[t].team \/ KnownMember(m)
          /\ Recovering(t)' => <<th'[t].pick.slot, th'[t].pick.worker>> \in th'[t].team
    /\ t \in Requesters /\ th'[t].pc \in {"exchange", "recover"} =>
          /\ th'[t].pick = th[t].pick
          /\ state = "running" \/ th[t].pc \in {"exchange", "recover"}
    /\ t \in Closers /\ th'[t].pc = "sweep" => th[t] = th'[t] \/ Halt(t) \/ Sweep(t)

\* A thread that has no reservation makes a step that takes none.
LEMMA FreeTurn ==
    ASSUME NEW t \in Threads, Others(t), LoadsMove({}, 0), ~ Holding(t), ~ Holding(t)',
           t \in Broadcasters => \A m \in th'[t].team : m \in th[t].team \/ KnownMember(m),
           t \in Closers => th'[t].pc # "sweep"
    PROVE  Turn(t)
<1>1. Reserved(t) = {} /\ Reserved(t)' = {}
  BY DEF Reserved
<1>2. ~ Recovering(t)' /\ th'[t].pc \notin {"exchange", "recover"}
  BY DEF Holding, Recovering
<1> QED
  BY <1>1, <1>2 DEF Turn, ReservedMove

\* A thread keeps what it has reserved.
LEMMA BusyTurn ==
    ASSUME NEW t \in Restarters, Others(t), LoadsMove({}, 0), Holding(t), Holding(t)',
           t \in Requesters => th'[t].pick = th[t].pick,
           th'[t].team = th[t].team,
           t \in Broadcasters /\ Recovering(t)' =>
               <<th'[t].pick.slot, th'[t].pick.worker>> \in th[t].team,
           t \in Requesters /\ th'[t].pc \in {"exchange", "recover"} =>
               state = "running" \/ th[t].pc \in {"exchange", "recover"}
    PROVE  Turn(t)
<1>1. Reserved(t)' = Reserved(t)
  BY DEF Reserved, Members
<1>2. t \notin Closers
  BY KindsDisjoint DEF Restarters
<1> QED
  BY <1>1, <1>2 DEF Turn, ReservedMove

\* The scan of the slots, and the way into a restart and out of it, hold nothing; after a
\* failed exchange they hold what the exchange held.
LEMMA RestartTurn ==
    ASSUME ReservationInv, NEW t \in Restarters, RestartStep(t)
    PROVE  Turn(t)
<1>1. /\ PoolType /\ Shape /\ Locals /\ LeftActive /\ SlotHomes /\ ActiveFilled /\ InHand
      /\ TeamActive /\ RestartActive /\ Picked
  BY DEF Inv, ReservationInv
<1>2. t \in Threads /\ t \notin Closers
  BY ThreadKinds, KindsDisjoint DEF Restarters
<1>3. \A i \in Slots : slot[i] # 0 => KnownMember(<<i, slot[i]>>)
  BY <1>1 DEF SlotHomes, KnownMember
<1>4. ASSUME NEW i \in Slots, NEW w, Found(t, i, w), KnownMember(<<i, w>>), LoadsMove({}, 0),
             ~ Holding(t)
      PROVE  Turn(t)
  <2>1. Others(t) /\ th'[t].pc = "scan" /\ th'[t].team \subseteq th[t].team \cup {<<i, w>>}
    BY <1>1, <1>2, <1>4, FoundFields
  <2>2. ~ Holding(t)'
    BY <2>1 DEF Holding, Recovering
  <2> QED
    BY <1>2, <1>4, <2>1, <2>2, FreeTurn
<1>5. ASSUME NEW ok, Recovered(t, ok), LoadsMove({}, 0), Recovering(t)
      PROVE  Turn(t)
  <2>1. /\ Others(t) /\ th'[t].pc = "release"
        /\ th'[t].pick = th[t].pick /\ th'[t].team = th[t].team
    BY <1>1, <1>2, <1>5 DEF Recovered, Shape, Others
  <2>2. Holding(t) /\ Holding(t)'
    BY <1>5, <2>1 DEF Holding, Recovering
  <2> QED
    BY <1>1, <1>5, <2>1, <2>2, BusyTurn DEF Picked
<1>6. ASSUME NEW w, Restarted(t, w), KnownMember(<<th[t].idx, w>>), LoadsMove({}, 0),
             th[t].pc \in {"restart", "spawn", "install"}
      PROVE  Turn(t)
  <2>1. th[t].idx \in Slots
    BY <1>1, <1>2 DEF Locals
  <2>2. CASE th[t].back = "scan"
    <3>1. ~ Holding(t)
      BY <1>6, <2>2 DEF Holding, Recovering
    <3>2. Found(t, th[t].idx, w)
      BY <1>6, <2>2 DEF Restarted
    <3> QED
      BY <1>4, <1>6, <2>1, <3>1, <3>2
  <2>3. CASE th[t].back # "scan"
    <3>1. Recovering(t)
      BY <1>6, <2>3 DEF Recovering
    <3>2. Recovered(t, TRUE)
      BY <1>6, <2>3 DEF Restarted
    <3> QED
      BY <1>5, <1>6, <3>1, <3>2
  <2> QED
    BY <2>2, <2>3
<1>7. ASSUME NotRestarted(t), LoadsMove({}, 0), th[t].pc \in {"restart", "spawn", "install"}
      PROVE  Turn(t)
  <2>1. CASE th[t].back = "scan"
    <3>1. ~ Holding(t)
      BY <1>7, <2>1 DEF Holding, Recovering
    <3>2. NotFound(t, th[t].idx)
      BY <1>7, <2>1 DEF NotRestarted
    <3>3. Others(t) /\ th'[t].pc \in {"scan", "unlock"} /\ th'[t].team = th[t].team
      BY <1>1, <1>2, <3>2 DEF NotFound, Shape, Others
    <3>4. ~ Holding(t)'
      BY <3>3 DEF Holding, Recovering
    <3> QED
      BY <1>2, <1>7, <3>1, <3>3, <3>4, FreeTurn
  <2>2. CASE th[t].back # "scan"
    <3>1. Recovering(t)
      BY <1>7, <2>2 DEF Recovering
    <3>2. Recovered(t, FALSE)
      BY <1>7, <2>2 DEF NotRestarted
    <3> QED
      BY <1>5, <1>7, <3>1, <3>2
  <2> QED
    BY <2>1, <2>2
<1>8. ASSUME Others(t), LoadsMove({}, 0),
             th[t].pc \in {"restart", "spawn", "install"},
             th'[t].pc \in {"restart", "spawn", "install"},
             th'[t].back = th[t].back, th'[t].pick = th[t].pick, th'[t].team = th[t].team
      PROVE  Turn(t)
  <2>1. CASE th[t].back = "scan"
    <3>1. ~ Holding(t) /\ ~ Holding(t)'
      BY <1>8, <2>1 DEF Holding, Recovering
    <3> QED
      BY <1>2, <1>8, <3>1, FreeTurn
  <2>2. CASE th[t].back # "scan"
    <3>1. Holding(t) /\ Holding(t)' /\ Recovering(t)
      BY <1>8, <2>2 DEF Holding, Recovering
    <3>2. th'[t].pc \notin {"exchange", "recover"}
      BY <1>8
    <3> QED
      BY <1>1, <1>8, <3>1, <3>2, BusyTurn DEF Picked
  <2> QED
    BY <2>1, <2>2
<1>9. CASE ScanLive(t)
  <2>1. PICK i \in th[t].left : Found(t, i, slot[i])
    BY <1>9 DEF ScanLive
  <2>2. i \in Slots /\ i \in 0..(active - 1) /\ slot[i] # 0
    BY <1>1, <1>2, <2>1, ActiveRange DEF Locals, LeftActive, ActiveFilled, PoolType, Slots
  <2>3. ~ Holding(t) /\ LoadsMove({}, 0)
    BY <1>1, <1>9, SameLoads DEF ScanLive, At, Holding, Recovering
  <2> QED
    BY <1>3, <1>4, <2>1, <2>2, <2>3
<1>10. CASE ScanDead(t)
  <2>1. /\ Others(t) /\ th'[t].pc = "restart" /\ th'[t].back = "scan"
        /\ th'[t].team = th[t].team /\ th[t].pc = "scan"
    BY <1>1, <1>2, <1>10 DEF ScanDead, At, Shape, Others
  <2>2. ~ Holding(t) /\ ~ Holding(t)' /\ LoadsMove({}, 0)
    BY <1>1, <1>10, <2>1, SameLoads DEF ScanDead, Holding, Recovering
  <2> QED
    BY <1>2, <2>1, <2>2, FreeTurn
<1>11. CASE RestartReuse(t)
  <2>1. th[t].pc = "restart" /\ Restarted(t, slot[th[t].idx]) /\ LoadsMove({}, 0)
    BY <1>1, <1>11, SameLoads DEF RestartReuse, At
  <2>2. th[t].idx \in Slots /\ th[t].idx \in 0..(active - 1) /\ slot[th[t].idx] # 0
    BY <1>1, <1>2, <2>1 DEF Locals, RestartActive, ActiveFilled, PoolType, Slots
  <2> QED
    BY <1>3, <1>6, <2>1, <2>2
<1>12. CASE RestartBegin(t)
  <2>1. LoadsMove({}, 0)
    BY <1>1, <1>12, StoppedLoads DEF RestartBegin
  <2>2. /\ Others(t) /\ th[t].pc = "restart" /\ th'[t].pc = "spawn" /\ th'[t].back = th[t].back
        /\ th'[t].pick = th[t].pick /\ th'[t].team = th[t].team
    BY <1>1, <1>2, <1>12 DEF RestartBegin, Goto, At, Shape, Others
  <2> QED
    BY <1>8, <2>1, <2>2
<1>13. CASE RestartSpawn(t)
  <2>1. LoadsMove({}, 0)
    BY <1>1, <1>2, <1>13, SpawnedLoads DEF RestartSpawn, Locals
  <2>2. /\ Others(t) /\ th[t].pc = "spawn" /\ th'[t].pc = "install" /\ th'[t].back = th[t].back
        /\ th'[t].pick = th[t].pick /\ th'[t].team = th[t].team
    BY <1>1, <1>2, <1>13 DEF RestartSpawn, At, Shape, Others
  <2> QED
    BY <1>8, <2>1, <2>2
<1>14. CASE SpawnFails(t)
  BY <1>1, <1>7, <1>14, SameLoads DEF SpawnFails, At
<1>15. CASE ReplayFails(t)
  BY <1>1, <1>7, <1>15, StoppedLoads DEF ReplayFails, At
<1>16. CASE RestartInstall(t)
  <2>1. PICK w \in th[t].new : Restarted(t, w)
    BY <1>16 DEF RestartInstall
  <2>2. th[t].pc = "install" /\ LoadsMove({}, 0)
    BY <1>1, <1>16, SameLoads DEF RestartInstall, At
  <2>3. KnownMember(<<th[t].idx, w>>)
    BY <1>1, <2>1, <2>2 DEF InHand, KnownMember
  <2> QED
    BY <1>6, <2>1, <2>2, <2>3
<1> QED
  BY <1>9, <1>10, <1>11, <1>12, <1>13, <1>14, <1>15, <1>16 DEF RestartStep

\* Two workers of a broadcast are of two slots.
LEMMA TeamDistinct ==
    ASSUME ReservationInv, NEW b \in Broadcasters, NEW m \in th[b].team, NEW n \in th[b].team,
           m[2] = n[2]
    PROVE  m = n
<1>1. th[b].team \subseteq Slots \X Nat /\ TeamHomes
  BY ThreadKinds DEF Inv, Locals, ReservationInv
<1>2. m[1] = n[1]
  BY <1>1 DEF TeamHomes
<1> QED
  BY <1>1, <1>2

\* The end of a reservation, after a recovery or without.
LEMMA RecoverTurn ==
    ASSUME ReservationInv, NEW t \in Restarters, RecoverStep(t)
    PROVE  Turn(t)
<1>1. PoolType /\ Shape /\ Locals /\ Picked
  BY DEF Inv, ReservationInv
<1>2. t \in Threads /\ t \notin Closers
  BY ThreadKinds, KindsDisjoint DEF Restarters
<1>3. ASSUME Others(t), LoadsMove({}, 0), Recovering(t), Recovering(t)',
             th'[t].pc \notin {"exchange", "recover"},
             th'[t].pick = th[t].pick, th'[t].team = th[t].team
      PROVE  Turn(t)
  <2>1. Holding(t) /\ Holding(t)'
    BY <1>3 DEF Holding
  <2> QED
    BY <1>1, <1>3, <2>1, BusyTurn DEF Picked
<1>4. CASE RecoverSkip(t)
  <2>1. /\ Others(t) /\ th[t].pc = "recover" /\ th'[t].pc = "release"
        /\ th'[t].pick = th[t].pick /\ th'[t].team = th[t].team
    BY <1>1, <1>2, <1>4 DEF RecoverSkip, At, Goto, Shape, Others
  <2> QED
    BY <1>1, <1>3, <1>4, <2>1, SameLoads DEF RecoverSkip, Recovering
<1>5. CASE Recover(t)
  <2>1. /\ Others(t) /\ th[t].pc = "recover" /\ th'[t].pc = "match"
        /\ th'[t].pick = th[t].pick /\ th'[t].team = th[t].team
    BY <1>1, <1>2, <1>5 DEF Recover, At, Goto, Shape, Others
  <2> QED
    BY <1>1, <1>3, <1>5, <2>1, SameLoads DEF Recover, Recovering
<1>6. CASE RecoverMatch(t)
  <2>1. /\ Others(t) /\ th[t].pc = "match"
        /\ \/ th'[t].pc = "release"
           \/ th'[t].pc = "restart" /\ th'[t].back = "recover"
        /\ th'[t].pick = th[t].pick /\ th'[t].team = th[t].team
    BY <1>1, <1>2, <1>6 DEF RecoverMatch, At, Goto, Shape, Others
  <2> QED
    BY <1>1, <1>3, <1>6, <2>1, SameLoads DEF RecoverMatch, Recovering
<1>7. CASE Release(t)
  <2> DEFINE p == th[t].pick
  <2>1. /\ Others(t) /\ th[t].pc = "release"
        /\ th'[t].pc = IF t \in Broadcasters THEN "settle" ELSE "done"
        /\ th'[t].team = th[t].team \ {<<p.slot, p.worker>>}
        /\ workers' = Loaded({p.worker}, -1)
    BY <1>1, <1>2, <1>7 DEF Release, At, Shape, Others
  <2>2. LoadsMove({p.worker}, -1)
    BY <1>1, <2>1, LoadedLoads
  <2>3. Holding(t) /\ Recovering(t) /\ ~ Recovering(t)'
    BY <2>1 DEF Holding, Recovering
  <2>4. CASE t \in Requesters
    <3>1. t \notin Broadcasters
      BY <2>4, KindsDisjoint
    <3>2. Reserved(t) = {p.worker}
      BY <2>3, <2>4 DEF Reserved
    <3>3. Reserved(t)' = {}
      BY <2>1, <3>1 DEF Reserved, Holding, Recovering
    <3>4. ReservedMove(t)
      BY <2>2, <3>2, <3>3 DEF ReservedMove
    <3> QED
      BY <1>2, <2>1, <3>1, <3>4 DEF Turn
  <2>5. CASE t \in Broadcasters
    <3>1. t \notin Requesters
      BY <2>5, KindsDisjoint
    <3>2. Reserved(t) = Members(t)
      BY <2>3, <2>5, <3>1 DEF Reserved
    <3>3. Reserved(t)' = Members(t)'
      BY <2>1, <2>5, <3>1 DEF Reserved, Holding
    <3>4. <<p.slot, p.worker>> \in th[t].team
      BY <1>1, <2>3, <2>5 DEF Picked
    <3>5. Members(t)' = Members(t) \ {p.worker} /\ p.worker \in Members(t)
      <4>1. \A m \in th[t].team : m[2] = p.worker <=> m = <<p.slot, p.worker>>
        BY <2>5, <3>4, TeamDistinct
      <4> HIDE DEF p
      <4> QED
        BY <2>1, <3>4, <4>1 DEF Members
    <3>6. ReservedMove(t)
      BY <2>2, <3>2, <3>3, <3>5 DEF ReservedMove
    <3> QED
      BY <1>2, <2>1, <2>3, <3>1, <3>6 DEF Turn
  <2> QED
    BY <2>4, <2>5 DEF Restarters
<1> QED
  BY <1>4, <1>5, <1>6, <1>7 DEF RecoverStep

\* What else a request does: it takes its reservation before it looks at the state of the
\* pool again, and drops it if the pool does not run.
LEMMA RequestTurn ==
    ASSUME ReservationInv, NEW r \in Requesters,
           \/ RequestRefused(r) \/ RequestStart(r) \/ NoneFound(r) \/ TryGrow(r) \/ GrowOne(r)
           \/ GrowOneFails(r) \/ GrowOneStore(r) \/ GrowOnePublish(r) \/ KeepPick(r)
           \/ Reserve(r) \/ ReserveChecked(r) \/ ReserveDropped(r) \/ ExchangeOk(r)
           \/ ExchangeFails(r)
    PROVE  Turn(r)
<1>1. PoolType /\ Shape /\ Locals /\ Inv
  BY DEF Inv, ReservationInv
<1>2. r \in Threads /\ r \in Restarters /\ r \notin Closers /\ r \notin Broadcasters
  BY ThreadKinds, KindsDisjoint
<1>3. ASSUME Others(r), LoadsMove({}, 0),
             th[r].pc \in {"idle", "scan", "grow", "store", "publish"},
             th'[r].pc \in {"scan", "done", "grow", "store", "publish", "reserve"}
      PROVE  Turn(r)
  <2>1. ~ Holding(r) /\ ~ Holding(r)'
    BY <1>3 DEF Holding, Recovering
  <2> QED
    BY <1>2, <1>3, <2>1, FreeTurn
<1>4. CASE RequestRefused(r) \/ RequestStart(r) \/ NoneFound(r) \/ TryGrow(r) \/ KeepPick(r)
  <2>1. /\ Others(r) /\ th[r].pc \in {"idle", "scan"} /\ UNCHANGED workers
        /\ th'[r].pc \in {"scan", "done", "grow", "reserve"}
    BY <1>1, <1>2, <1>4
      DEF RequestRefused, RequestStart, NoneFound, TryGrow, KeepPick, At, Goto, Shape, Others
  <2> QED
    BY <1>1, <1>3, <2>1, SameLoads
<1>5. CASE GrowOne(r)
  <2>1. active < Capacity /\ active \in Slots
    BY <1>1, <1>5, ThreadKinds, Capacities, TopLimit
      DEF HoldsGrowth, AddWorkers, GrowOne, At, PoolType, Slots, Top
  <2>2. LoadsMove({}, 0)
    BY <1>1, <1>5, <2>1, SpawnedLoads DEF GrowOne
  <2>3. Others(r) /\ th[r].pc = "grow" /\ th'[r].pc = "store"
    BY <1>1, <1>2, <1>5 DEF GrowOne, At, Shape, Others
  <2> QED
    BY <1>3, <2>2, <2>3
<1>6. CASE GrowOneFails(r)
  <2>1. LoadsMove({}, 0)
    BY <1>1, <1>6, StoppedLoads DEF GrowOneFails
  <2>2. Others(r) /\ th[r].pc \in {"grow", "store"} /\ th'[r].pc = "done"
    BY <1>1, <1>2, <1>6 DEF GrowOneFails, At, Goto, Shape, Others
  <2> QED
    BY <1>3, <2>1, <2>2
<1>7. CASE GrowOneStore(r) \/ GrowOnePublish(r)
  <2>1. /\ Others(r) /\ th[r].pc \in {"store", "publish"} /\ UNCHANGED workers
        /\ th'[r].pc \in {"publish", "reserve"}
    BY <1>1, <1>2, <1>7 DEF GrowOneStore, GrowOnePublish, At, Goto, Shape, Others
  <2> QED
    BY <1>1, <1>3, <2>1, SameLoads
<1>8. CASE Reserve(r)
  <2>1. /\ Others(r) /\ th[r].pc = "reserve" /\ th'[r].pc = "recheck"
        /\ th'[r].pick = th[r].pick
    BY <1>1, <1>2, <1>8 DEF Reserve, At, Goto, Shape, Others
  <2>2. LoadsMove({th[r].pick.worker}, 1)
    BY <1>1, <1>8, LoadedLoads DEF Reserve
  <2>3. Reserved(r) = {} /\ Reserved(r)' = {th[r].pick.worker}
    BY <2>1 DEF Reserved, Holding, Recovering
  <2>4. th[r].pick.worker <= Len(workers)
    <3>1. th[r].pick.worker \in 0..Len(workers) /\ Len(workers) \in Nat
      BY <1>1, <1>2 DEF Inv, PickActive, PoolType
    <3> QED
      BY <3>1
  <2>5. ReservedMove(r)
    BY <2>2, <2>3, <2>4 DEF ReservedMove
  <2> QED
    BY <1>2, <2>1, <2>5 DEF Turn
<1>9. CASE ReserveDropped(r)
  <2>1. Others(r) /\ th[r].pc = "recheck" /\ th'[r].pc = "done"
    BY <1>1, <1>2, <1>9 DEF ReserveDropped, At, Goto, Shape, Others
  <2>2. LoadsMove({th[r].pick.worker}, -1)
    BY <1>1, <1>9, LoadedLoads DEF ReserveDropped
  <2>3. Reserved(r) = {th[r].pick.worker} /\ Reserved(r)' = {}
    BY <2>1 DEF Reserved, Holding, Recovering
  <2>4. ReservedMove(r)
    BY <2>2, <2>3 DEF ReservedMove
  <2> QED
    BY <1>2, <2>1, <2>4 DEF Turn
<1>10. CASE ReserveChecked(r) \/ ExchangeOk(r) \/ ExchangeFails(r)
  <2>1. /\ Others(r) /\ UNCHANGED workers
        /\ th'[r].pick = th[r].pick /\ th'[r].team = th[r].team
        /\ \/ th[r].pc = "recheck" /\ th'[r].pc = "exchange" /\ state = "running"
           \/ th[r].pc = "exchange" /\ th'[r].pc \in {"release", "recover"}
    BY <1>1, <1>2, <1>10 DEF ReserveChecked, ExchangeOk, ExchangeFails, At, Goto, Shape, Others
  <2>2. Holding(r) /\ Holding(r)'
    BY <2>1 DEF Holding, Recovering
  <2>3. LoadsMove({}, 0)
    BY <1>1, <2>1, SameLoads
  <2> QED
    BY <1>2, <2>1, <2>2, <2>3, BusyTurn
<1> QED
  BY <1>4, <1>5, <1>6, <1>7, <1>8, <1>9, <1>10

\* What else a broadcast does: one reservation for each worker of its team.
LEMMA BroadcastTurn ==
    ASSUME ReservationInv, NEW b \in Broadcasters,
           \/ BroadcastRefused(b) \/ BroadcastStart(b) \/ BroadcastLock(b) \/ BroadcastSpread(b)
           \/ BroadcastAnswered(b) \/ BroadcastFailed(b) \/ BroadcastJoin(b)
           \/ BroadcastSettle(b) \/ BroadcastEnd(b)
    PROVE  Turn(b)
<1>1. PoolType /\ Shape /\ Locals /\ TeamActive
  BY DEF Inv, ReservationInv
<1>2. b \in Threads /\ b \in Restarters /\ b \notin Closers /\ b \notin Requesters
  BY ThreadKinds, KindsDisjoint
<1>3. CASE BroadcastRefused(b) \/ BroadcastStart(b) \/ BroadcastLock(b)
  <2>1. /\ Others(b) /\ th[b].pc \in {"idle", "lock"} /\ UNCHANGED workers
        /\ th'[b].pc \in {"done", "lock", "scan"} /\ th'[b].team = th[b].team
    BY <1>1, <1>2, <1>3
      DEF BroadcastRefused, BroadcastStart, BroadcastLock, At, Goto, Shape, Others
  <2>2. ~ Holding(b) /\ ~ Holding(b)' /\ LoadsMove({}, 0)
    BY <1>1, <2>1, SameLoads DEF Holding, Recovering
  <2> QED
    BY <1>2, <2>1, <2>2, FreeTurn
<1>4. CASE BroadcastSpread(b)
  <2>1. /\ Others(b) /\ th[b].pc = "scan" /\ th'[b].pc = "ask" /\ th'[b].team = th[b].team
        /\ workers' = Loaded(Members(b), 1)
    BY <1>1, <1>2, <1>4 DEF BroadcastSpread, At, Shape, Others, Members
  <2>2. LoadsMove(Members(b), 1)
    BY <1>1, <2>1, LoadedLoads
  <2>3. Reserved(b) = {} /\ Reserved(b)' = Members(b)
    BY <1>2, <2>1 DEF Reserved, Holding, Recovering, Members
  <2>4. ReservedMove(b)
    <3>1. \A w \in Members(b) : w \in 1..Len(workers) /\ Len(workers) \in Nat
      BY <1>1, <1>2 DEF TeamActive, Members, PoolType
    <3>2. \A w \in Members(b) : w <= Len(workers)
      BY <3>1
    <3> QED
      BY <2>2, <2>3, <3>2 DEF ReservedMove
  <2>5. ~ Recovering(b)'
    BY <2>1 DEF Recovering
  <2> QED
    BY <1>2, <2>1, <2>4, <2>5 DEF Turn
<1>5. CASE BroadcastAnswered(b) \/ BroadcastFailed(b)
  <2>1. \A m \in th[b].team : m[2] \in 1..Len(workers)
    BY <1>1, <1>2 DEF TeamActive
  <2>2. /\ Others(b) /\ th[b].pc = "ask" /\ th'[b].pc = "ask" /\ th'[b].team = th[b].team
    <3>1. CASE BroadcastAnswered(b)
      BY <1>1, <1>2, <3>1 DEF BroadcastAnswered, At, Shape, Others
    <3>2. CASE BroadcastFailed(b)
      <4>1. th[b].pc = "ask" /\ \E m \in th[b].team :
               th' = [th EXCEPT ![b].left = @ \ {m[1]}, ![b].bad = @ \cup {m[1]},
                                ![b].ok = FALSE]
        BY <3>2 DEF BroadcastFailed, At
      <4> QED
        BY <1>1, <1>2, <4>1 DEF Shape, Others
    <3> QED
      BY <1>5, <3>1, <3>2
  <2>3. LoadsMove({}, 0)
    BY <1>1, <1>5, <2>1, AppliedLoads, SameLoads DEF BroadcastAnswered, BroadcastFailed
  <2>4. Holding(b) /\ Holding(b)' /\ ~ Recovering(b)'
    BY <2>2 DEF Holding, Recovering
  <2> QED
    BY <1>2, <2>2, <2>3, <2>4, BusyTurn
<1>6. CASE BroadcastJoin(b)
  <2>1. /\ Others(b) /\ th[b].pc = "ask" /\ th'[b].pc = "settle" /\ th'[b].team = th[b].team
    BY <1>1, <1>2, <1>6 DEF BroadcastJoin, At, Goto, Shape, Others
  <2>2. LoadsMove({}, 0)
    BY <1>1, <1>6, SameLoads DEF BroadcastJoin
  <2>3. Holding(b) /\ Holding(b)' /\ ~ Recovering(b)'
    BY <2>1 DEF Holding, Recovering
  <2> QED
    BY <1>2, <2>1, <2>2, <2>3, BusyTurn
<1>7. CASE BroadcastSettle(b)
  <2>1. PICK m \in th[b].team :
           th' = [th EXCEPT ![b].pick = [slot |-> m[1], worker |-> m[2], load |-> 0],
                            ![b].pc = IF m[1] \in th[b].bad THEN "recover" ELSE "release"]
    BY <1>7 DEF BroadcastSettle
  <2>2. /\ Others(b) /\ th[b].pc = "settle" /\ th'[b].pc \in {"recover", "release"}
        /\ th'[b].team = th[b].team
        /\ th'[b].pick = [slot |-> m[1], worker |-> m[2], load |-> 0]
    BY ZenonT(30), <1>1, <1>2, <1>7, <2>1 DEF BroadcastSettle, At, Shape, Others
  <2>3. m = <<m[1], m[2]>>
    BY <1>1, <1>2 DEF Locals
  <2>4. th'[b].pick.slot = m[1] /\ th'[b].pick.worker = m[2]
    BY <2>2
  <2>5. LoadsMove({}, 0)
    BY <1>1, <1>7, SameLoads DEF BroadcastSettle
  <2>6. Holding(b) /\ Holding(b)'
    BY <2>2 DEF Holding, Recovering
  <2> QED
    BY <1>2, <2>2, <2>3, <2>4, <2>5, <2>6, BusyTurn
<1>8. CASE BroadcastEnd(b)
  <2>1. /\ Others(b) /\ th'[b].pc = "done" /\ th'[b].team = th[b].team
        /\ th[b].pc = "unlock" \/ (th[b].pc = "settle" /\ th[b].team = {})
    BY <1>1, <1>2, <1>8 DEF BroadcastEnd, At, Goto, Shape, Others
  <2>2. Reserved(b) = {} /\ Reserved(b)' = {}
    BY <1>2, <2>1 DEF Reserved, Holding, Recovering, Members
  <2>3. LoadsMove({}, 0)
    BY <1>1, <1>8, SameLoads DEF BroadcastEnd
  <2>4. ~ Recovering(b)' /\ ReservedMove(b)
    BY <2>1, <2>2, <2>3 DEF Recovering, ReservedMove
  <2> QED
    BY <1>2, <2>1, <2>4 DEF Turn
<1> QED
  BY <1>3, <1>4, <1>5, <1>6, <1>7, <1>8

\* A thread that grows the pool or closes it reserves nothing.
LEMMA OtherTurn ==
    ASSUME NEW t \in Growers \cup Closers, Others(t), LoadsMove({}, 0),
           t \in Closers /\ th'[t].pc = "sweep" => Halt(t) \/ Sweep(t)
    PROVE  Turn(t)
<1>1. t \notin Requesters /\ t \notin Broadcasters
  BY KindsDisjoint
<1>2. Reserved(t) = {} /\ Reserved(t)' = {}
  BY <1>1 DEF Reserved
<1> QED
  BY <1>1, <1>2 DEF Turn, ReservedMove

\* A thread that grows the pool, or prepares to, reserves nothing.
LEMMA GrowTurn ==
    ASSUME ReservationInv, NEW g \in Growers,
           PrepareSkip(g) \/ PrepareStart(g) \/ PrepareFails(g) \/ GrowStep(g)
    PROVE  Turn(g)
<1>1. PoolType /\ Shape /\ Inv
  BY DEF Inv, ReservationInv
<1>2. g \in Threads /\ g \notin Closers
  BY ThreadKinds, KindsDisjoint
<1>3. CASE \/ PrepareSkip(g) \/ PrepareStart(g) \/ PrepareFails(g) \/ GrowLock(g)
           \/ GrowStore(g) \/ GrowPublish(g)
  <2>1. Others(g) /\ UNCHANGED workers
    BY <1>1, <1>2, <1>3
      DEF PrepareSkip, PrepareStart, PrepareFails, GrowLock, GrowStore, GrowPublish, Goto,
          Shape, Others
  <2> QED
    BY <1>1, <1>2, <2>1, SameLoads, OtherTurn
<1>4. CASE GrowSpawn(g)
  <2>1. active < Target /\ active \in Nat /\ Target \in Nat /\ Target <= Capacity
    BY <1>1, <1>4, ThreadKinds, Capacities, TopLimit, PoolAssumption
      DEF HoldsGrowth, AddWorkers, GrowSpawn, At, Top, PoolType
  <2>2. Target - active \in Nat /\ active + (Target - active) <= Capacity
    BY <2>1, Capacities
  <2>3. LoadsMove({}, 0)
    BY <1>1, <1>4, <2>2, AddedLoads DEF GrowSpawn
  <2>4. Others(g)
    BY <1>1, <1>2, <1>4 DEF GrowSpawn, Shape, Others
  <2> QED
    BY <1>2, <2>3, <2>4, OtherTurn
<1>5. CASE GrowFails(g)
  <2>1. LoadsMove({}, 0)
    BY <1>1, <1>5, StoppedLoads DEF GrowFails
  <2>2. Others(g)
    BY <1>1, <1>2, <1>5 DEF GrowFails, Goto, Shape, Others
  <2> QED
    BY <1>2, <2>1, <2>2, OtherTurn
<1> QED
  BY <1>3, <1>4, <1>5 DEF GrowStep

\* A closer reserves nothing: it only reads the loads.
LEMMA CloseTurn ==
    ASSUME ReservationInv, NEW z \in Closers, CloseSkip(z) \/ CloseStart(z) \/ CloseStep(z)
    PROVE  Turn(z)
<1>1. PoolType /\ Shape
  BY DEF Inv, ReservationInv
<1>2. z \in Threads
  BY ThreadKinds
<1>3. CASE CloseSkip(z) \/ CloseStart(z) \/ CloseLock(z) \/ Drained(z) \/ CollectSkip(z)
           \/ Reduce(z)
  <2>1. Others(z) /\ UNCHANGED workers /\ th'[z].pc # "sweep"
    BY <1>1, <1>2, <1>3
      DEF CloseSkip, CloseStart, CloseLock, Drained, CollectSkip, Reduce, Goto, Shape, Others
  <2> QED
    BY <1>1, <2>1, SameLoads, OtherTurn
<1>4. CASE Gather(z)
  <2>1. Others(z) /\ UNCHANGED workers /\ th'[z].pc # "sweep"
    BY <1>1, <1>2, <1>4 DEF Gather, At, Goto, Shape, Others
  <2> QED
    BY <1>1, <2>1, SameLoads, OtherTurn
<1>5. CASE Halt(z) \/ Sweep(z)
  <2>1. Others(z) /\ UNCHANGED workers
    BY <1>1, <1>2, <1>5 DEF Halt, Sweep, Shape, Others
  <2> QED
    BY <1>1, <1>5, <2>1, SameLoads, OtherTurn
<1>6. CASE Collect(z) \/ StopAll(z)
  <2>1. LoadsMove({}, 0)
    BY <1>1, <1>6, StoppedLoads DEF Collect, StopAll
  <2>2. Others(z) /\ th'[z].pc # "sweep"
    BY <1>1, <1>2, <1>6 DEF Collect, StopAll, Goto, Shape, Others
  <2> QED
    BY <2>1, <2>2, OtherTurn
<1> QED
  BY <1>3, <1>4, <1>5, <1>6 DEF CloseStep

\* Every step is a turn of a thread, or leaves the threads and the loads alone.
LEMMA NextTurn ==
    ASSUME ReservationInv, [Next]_vars
    PROVE  (\E t \in Threads : Turn(t)) \/ (th' = th /\ LoadsMove({}, 0))
<1>1. PoolType
  BY DEF Inv, ReservationInv
<1>2. ASSUME NEW r \in Requesters, RequestRefused(r) \/ RequestStart(r) \/ RequestStep(r)
      PROVE  Turn(r)
  BY <1>2, ThreadKinds, RestartTurn, RecoverTurn, RequestTurn DEF RequestStep
<1>3. ASSUME NEW b \in Broadcasters, BroadcastRefused(b) \/ BroadcastStart(b) \/ BroadcastStep(b)
      PROVE  Turn(b)
  BY <1>3, ThreadKinds, RestartTurn, RecoverTurn, BroadcastTurn DEF BroadcastStep
<1>4. CASE Crash
  BY <1>1, <1>4, FailedLoads DEF Crash
<1>5. CASE Finished \/ UNCHANGED vars
  BY <1>1, <1>5, SameLoads DEF Finished, vars
<1> QED
  BY <1>2, <1>3, <1>4, <1>5, ThreadKinds, GrowTurn, CloseTurn DEF Next

-----------------------------------------------------------------------------
(* The parts of the invariant.                                             *)

\* Who has reserved a worker changes with its load.
LEMMA HoldersMove ==
    ASSUME PoolType, LoadsCounted, NEW t \in Threads, Others(t), ReservedMove(t),
           NEW w \in 1..Len(workers)
    PROVE  workers'[w].load = Cardinality(Holders(w)')
<1>1. IsFiniteSet(Holders(w)) /\ workers[w].load = Cardinality(Holders(w))
  BY PoolAssumption, FS_Subset DEF LoadsCounted, Holders
<1>2. \A u \in Threads : u # t => Reserved(u)' = Reserved(u)
  BY DEF Others, Reserved, Holding, Recovering, Members
<1>3. workers[w].load \in Int
  <2>1. workers[w] \in WorkerType
    BY DEF PoolType
  <2> QED
    BY <2>1 DEF WorkerType
<1>4. CASE Reserved(t)' = Reserved(t) /\ LoadsMove({}, 0)
  <2>1. Holders(w)' = Holders(w)
    BY <1>2, <1>4 DEF Holders
  <2> QED
    BY <1>1, <1>4, <2>1 DEF LoadsMove
<1>5. ASSUME NEW ws, ws \cap Reserved(t) = {}, Reserved(t)' = Reserved(t) \cup ws,
             LoadsMove(ws, 1)
      PROVE  workers'[w].load = Cardinality(Holders(w)')
  <2>1. CASE w \in ws
    <3>1. Holders(w)' = Holders(w) \cup {t} /\ t \notin Holders(w)
      BY <1>2, <1>5, <2>1 DEF Holders
    <3>2. Cardinality(Holders(w)') = Cardinality(Holders(w)) + 1
      BY <1>1, <3>1, FS_AddElement
    <3> QED
      BY <1>1, <1>5, <2>1, <3>2 DEF LoadsMove
  <2>2. CASE w \notin ws
    <3>1. Holders(w)' = Holders(w)
      BY <1>2, <1>5, <2>2 DEF Holders
    <3> QED
      BY <1>1, <1>5, <2>2, <3>1 DEF LoadsMove
  <2> QED
    BY <2>1, <2>2
<1>6. ASSUME NEW ws, ws \subseteq Reserved(t), Reserved(t)' = Reserved(t) \ ws,
             LoadsMove(ws, -1)
      PROVE  workers'[w].load = Cardinality(Holders(w)')
  <2>1. CASE w \in ws
    <3>1. Holders(w)' = Holders(w) \ {t} /\ t \in Holders(w)
      BY <1>2, <1>6, <2>1 DEF Holders
    <3>2. Cardinality(Holders(w)') = Cardinality(Holders(w)) - 1
      BY <1>1, <3>1, FS_RemoveElement
    <3> QED
      BY <1>1, <1>3, <1>6, <2>1, <3>2 DEF LoadsMove
  <2>2. CASE w \notin ws
    <3>1. Holders(w)' = Holders(w)
      BY <1>2, <1>6, <2>2 DEF Holders
    <3> QED
      BY <1>1, <1>6, <2>2, <3>1 DEF LoadsMove
  <2> QED
    BY <2>1, <2>2
<1> QED
  BY <1>4, <1>5, <1>6 DEF ReservedMove

\* Nobody has reserved a worker that is not in the table.
LEMMA NewAreFree ==
    ASSUME ReservationInv, [Next]_vars, NEW w \in 1..Len(workers'), w > Len(workers)
    PROVE  Holders(w)' = {}
<1>1. PickActive /\ TeamActive /\ PoolType
  BY DEF Inv, ReservationInv
<1>2. \A u \in Threads : w \notin Reserved(u)
  <2> SUFFICES ASSUME NEW u \in Threads PROVE w \notin Reserved(u)
    OBVIOUS
  <2>1. Len(workers) \in Nat /\ w \in Nat
    BY <1>1 DEF PoolType
  <2>2. CASE u \in Requesters
    BY <1>1, <2>1, <2>2, ThreadKinds DEF PickActive, Reserved
  <2>3. CASE u \in Broadcasters
    BY <1>1, <2>1, <2>3, ThreadKinds, KindsDisjoint DEF TeamActive, Reserved, Members
  <2> QED
    BY <2>2, <2>3 DEF Reserved
<1>3. Len(workers) \in Nat /\ Len(workers') \in Nat /\ w \in Nat
  BY WorkersStep DEF Grows, ReservationInv
<1>4. ASSUME NEW t \in Threads, Turn(t), NEW u \in Threads
      PROVE  w \notin Reserved(u)'
  <2>1. CASE u # t
    <3>1. Reserved(u)' = Reserved(u)
      BY <1>4, <2>1 DEF Turn, Others, Reserved, Holding, Recovering, Members
    <3> QED
      BY <1>2, <3>1
  <2>2. CASE u = t
    <3>1. \E ws : /\ Reserved(t)' \subseteq Reserved(t) \cup ws
                  /\ \A v \in ws : v <= Len(workers)
      <4>1. CASE Reserved(t)' \subseteq Reserved(t)
        <5>1. \A v \in {} : v <= Len(workers)
          OBVIOUS
        <5> QED
          BY SMTT(30), <4>1, <5>1
      <4>2. CASE \E ws : /\ ws \cap Reserved(t) = {} /\ \A v \in ws : v <= Len(workers)
                         /\ Reserved(t)' = Reserved(t) \cup ws
        BY <4>2
      <4> QED
        BY <1>4, <4>1, <4>2 DEF Turn, ReservedMove
    <3>2. w \notin Reserved(t) /\ ~ (w <= Len(workers))
      BY <1>2, <1>3
    <3> QED
      BY <2>2, <3>1, <3>2
  <2> QED
    BY <2>1, <2>2
<1>5. ASSUME th' = th, NEW u \in Threads
      PROVE  w \notin Reserved(u)'
  BY <1>2, <1>5 DEF Reserved, Holding, Recovering, Members
<1> QED
  BY <1>4, <1>5, NextTurn DEF Holders

\* Loads and reservations stay equal.
LEMMA LoadsCountedStep ==
    ASSUME ReservationInv, [Next]_vars
    PROVE  LoadsCounted'
<1>1. PoolType /\ LoadsCounted
  BY DEF Inv, ReservationInv
<1>2. Len(workers) \in Nat /\ Len(workers') \in Nat
  BY WorkersStep DEF Grows, ReservationInv
<1>3. ASSUME NEW w \in 1..Len(workers'), w > Len(workers)
      PROVE  workers'[w].load = Cardinality(Holders(w)')
  <2>1. Holders(w)' = {}
    BY <1>3, NewAreFree
  <2>2. \E ws, n : LoadsMove(ws, n)
    BY NextTurn DEF Turn, ReservedMove
  <2>3. workers'[w].load = 0
    BY <1>3, <2>2 DEF LoadsMove
  <2> QED
    BY <2>1, <2>3, FS_EmptySet
<1>4. ASSUME NEW w \in 1..Len(workers)
      PROVE  workers'[w].load = Cardinality(Holders(w)')
  <2>1. CASE \E t \in Threads : Turn(t)
    BY <1>1, <1>4, <2>1, HoldersMove DEF Turn
  <2>2. CASE th' = th /\ LoadsMove({}, 0)
    <3>1. Holders(w)' = Holders(w)
      BY <2>2 DEF Holders, Reserved, Holding, Recovering, Members
    <3>2. workers'[w].load = workers[w].load
      BY <1>4, <2>2 DEF LoadsMove
    <3> QED
      BY <1>1, <1>4, <3>1, <3>2 DEF LoadsCounted
  <2> QED
    BY <2>1, <2>2, NextTurn
<1>5. \A w \in 1..Len(workers') : w > Len(workers) \/ w \in 1..Len(workers)
  BY <1>2
<1>6. \A w \in 1..Len(workers') : workers'[w].load = Cardinality(Holders(w)')
  BY <1>3, <1>4, <1>5
<1> QED
  BY <1>6 DEF LoadsCounted, Holders

\* The members of a team are of their slots, whoever joins it.
LEMMA TeamHomesStep ==
    ASSUME ReservationInv, [Next]_vars
    PROVE  TeamHomes' /\ Picked'
<1>1. /\ TeamActive /\ TeamHomes /\ Picked /\ Grows
  BY WorkersStep DEF Inv, ReservationInv
<1>2. \A m : KnownMember(m) => workers'[m[2]].home = m[1]
  BY <1>1 DEF KnownMember, Grows
<1>3. \A b \in Broadcasters : \A m \in th[b].team : KnownMember(m)
  BY <1>1, ThreadKinds DEF TeamHomes, TeamActive, KnownMember
<1>4. ASSUME NEW b \in Broadcasters, th'[b] = th[b]
      PROVE  /\ \A m \in th'[b].team : workers'[m[2]].home = m[1]
             /\ Recovering(b)' => <<th'[b].pick.slot, th'[b].pick.worker>> \in th'[b].team
  BY <1>1, <1>2, <1>3, <1>4 DEF Picked, Recovering
<1>5. ASSUME NEW b \in Broadcasters, Turn(b)
      PROVE  /\ \A m \in th'[b].team : workers'[m[2]].home = m[1]
             /\ Recovering(b)' => <<th'[b].pick.slot, th'[b].pick.worker>> \in th'[b].team
  BY <1>2, <1>3, <1>5 DEF Turn
<1>6. \A b \in Broadcasters : th'[b] = th[b] \/ Turn(b)
  BY NextTurn, ThreadKinds DEF Turn, Others
<1> QED
  BY <1>4, <1>5, <1>6 DEF TeamHomes, Picked

\* A closer that has drained the workers it has collected is alone with them: the load was
\* zero, and a request that reserves one of them now finds that the pool does not run.
LEMMA ReductionIsQuietStep ==
    ASSUME ReservationInv, [Next]_vars
    PROVE  ReductionIsQuiet'
<1>1. /\ Inv /\ Shape /\ PoolType /\ Closing /\ LoadsCounted /\ ReductionIsQuiet
      /\ \A u \in Threads : Entered(u)
  BY EnteredStep DEF Inv, ReservationInv
<1> SUFFICES ASSUME NEW z \in Closers, th'[z].pc \in {"collect", "reduce"},
                    NEW m \in th'[z].team, NEW r \in Requesters,
                    th'[r].pc \in {"exchange", "recover"}
             PROVE  th'[r].pick.worker # m[2]
  BY DEF ReductionIsQuiet
<1>2. z \in Threads /\ r \in Threads /\ r # z /\ z \notin Restarters /\ z \notin AddWorkers
  BY ThreadKinds, KindsDisjoint DEF Restarters, AddWorkers
<1>3. th'[z] = th[z] \/ Drained(z) \/ Collect(z)
  BY <1>1, <1>2, KindsDisjoint DEF Entered, Settled
<1>4. th[z].pc \in {"gather", "collect", "reduce"} /\ th'[z].team = th[z].team
  BY <1>1, <1>2, <1>3 DEF Drained, Collect, At, Goto, Shape
<1>5. state # "running"
  BY <1>1, <1>4 DEF Closing
<1>6. /\ th'[r].pick = th[r].pick /\ th[r].pc \in {"exchange", "recover"}
  <2>1. th'[r] = th[r] \/ Turn(r)
    BY <1>2, NextTurn DEF Turn, Others
  <2> QED
    BY <1>5, <2>1 DEF Turn
<1>7. CASE th[z].pc \in {"collect", "reduce"}
  BY <1>1, <1>4, <1>6, <1>7 DEF ReductionIsQuiet
<1>8. CASE th[z].pc = "gather"
  <2>1. Drained(z)
    BY <1>3, <1>8 DEF Collect, At
  <2>2. workers[m[2]].load = 0
    BY <1>4, <2>1 DEF Drained
  <2>3. ASSUME th[r].pick.worker = m[2]
        PROVE  FALSE
    <3>1. m[2] \in 1..Len(workers)
      BY <1>1, <1>2, <1>6, <2>3 DEF Inv, PickActive, Restarters, PoolType
    <3>2. r \in Holders(m[2])
      BY <1>2, <1>6, <2>3 DEF Holders, Reserved, Holding, Recovering
    <3>3. Cardinality(Holders(m[2])) = 0
      BY <1>1, <2>2, <3>1 DEF LoadsCounted
    <3>4. IsFiniteSet(Holders(m[2]))
      BY PoolAssumption, FS_Subset DEF Holders
    <3> QED
      BY <3>2, <3>3, <3>4, FS_EmptySet
  <2> QED
    BY <1>6, <2>3
<1> QED
  BY <1>4, <1>7, <1>8

\* A process that is not the first of its slot stays one: processes keep their numbers.
LEMMA FirstKept ==
    ASSUME Grows, NEW w \in 1..Len(workers)
    PROVE  First(w)' <=> First(w)
<1>1. /\ Len(workers) \in Nat
      /\ \A v \in 1..Len(workers) : workers'[v].home = workers[v].home
  BY DEF Grows
<1>2. \A v \in 1..(w - 1) : v \in 1..Len(workers)
  BY <1>1
<1> QED
  BY <1>1, <1>2 DEF First

\* What a restart spawns comes after the process it replaces.
LEMMA SpawnedIsNotFirst ==
    ASSUME Inv, NEW t \in Restarters, RestartSpawn(t),
           NEW w, w = Len(workers) + 1
    PROVE  /\ Len(workers') = Len(workers) + 1 /\ ~ First(w)'
           /\ th'[t].new = {w}
<1>1. /\ PoolType /\ Shape /\ Locals /\ RestartActive /\ t \in Threads
  BY ThreadKinds DEF Inv
<1> DEFINE i == th[t].idx
<1>2. th[t].pc = "spawn" /\ i \in Slots /\ i \in Nat /\ i < active /\ Len(workers) \in Nat
  BY <1>1 DEF RestartSpawn, At, Locals, RestartActive, Slots, PoolType
<1>3. slot[i] \in 1..Len(workers) /\ workers[slot[i]].home = i
  BY <1>2, SlotOccupied
<1>4. workers' = Append(workers, NewWorker(i)) /\ th'[t].new = {Len(workers) + 1}
  BY <1>1 DEF RestartSpawn, Shape
<1>5. /\ Len(workers') = Len(workers) + 1 /\ workers'[Len(workers) + 1] = NewWorker(i)
      /\ \A v \in 1..Len(workers) : workers'[v] = workers[v]
  BY <1>1, <1>2, <1>4, SpawnedParts DEF PoolType
<1>6. workers'[w].home = i /\ workers'[slot[i]].home = i /\ slot[i] \in 1..(w - 1)
  BY <1>2, <1>3, <1>5 DEF NewWorker
<1> HIDE DEF i
<1>7. ~ First(w)'
  BY <1>6 DEF First
<1> QED
  BY <1>4, <1>5, <1>7

\* What a thread is about to install replaces a process: the spawn is the only step that
\* enters the installation.
LEMMA ReplacementsStep ==
    ASSUME ReservationInv, [Next]_vars
    PROVE  Replacements'
<1>1. /\ Inv /\ Shape /\ PoolType /\ InHand /\ Replacements /\ Grows
      /\ \A u \in Threads : Entered(u)
  BY WorkersStep, EnteredStep DEF Inv, ReservationInv
<1> SUFFICES ASSUME NEW t \in Restarters, th'[t].pc = "install", NEW w \in th'[t].new
             PROVE  ~ First(w)'
  BY DEF Replacements
<1>2. t \in Threads /\ t \notin Growers /\ t \notin Closers
  BY ThreadKinds, KindsDisjoint DEF Restarters
<1>3. th'[t] = th[t] \/ RestartSpawn(t)
  BY <1>1, <1>2 DEF Entered, Settled
<1>4. CASE th'[t] = th[t]
  <2>1. w \in 1..Len(workers) /\ ~ First(w)
    BY <1>1, <1>4 DEF InHand, Replacements
  <2> QED
    BY <1>1, <2>1, FirstKept
<1>5. CASE RestartSpawn(t)
  <2>1. Len(workers) + 1 = w
    BY <1>1, <1>2, <1>5 DEF RestartSpawn, Shape
  <2> QED
    BY <1>1, <1>5, <2>1, SpawnedIsNotFirst
<1> QED
  BY <1>3, <1>4, <1>5

\* While nobody grows the pool, what is added to the table is a replacement.
LEMMA AddedAreNotFirst ==
    ASSUME Inv, [Next]_vars, \A t \in AddWorkers : ~ HoldsGrowth(t),
           NEW w \in 1..Len(workers'), w \notin 1..Len(workers)
    PROVE  ~ First(w)'
<1>1. Grows /\ WorkersChanged
  BY WorkersStep
<1>2. Len(workers) \in Nat /\ Len(workers') \in Nat
  BY <1>1 DEF Grows
<1>3. ~ SameLength
  BY <1>2 DEF SameLength
<1>4. \A r \in Requesters : ~ GrowOne(r)
  BY DEF AddWorkers, HoldsGrowth, GrowOne, At
<1>5. \A g \in Growers : ~ GrowSpawn(g)
  BY DEF AddWorkers, HoldsGrowth, GrowSpawn, At
<1>6. PICK t \in Restarters : RestartSpawn(t)
  BY <1>1, <1>3, <1>4, <1>5 DEF WorkersChanged
<1>7. ASSUME NEW v, v = Len(workers) + 1
      PROVE  Len(workers') = Len(workers) + 1 /\ ~ First(v)'
  BY <1>6, <1>7, SpawnedIsNotFirst
<1>8. w = Len(workers) + 1
  BY <1>2, <1>7
<1> QED
  BY <1>7, <1>8

\* A closer with the growth lock shuts growth out.
LEMMA SweepShutsOut ==
    ASSUME Inv, NEW z \in Closers, HoldsGrowth(z)
    PROVE  \A t \in AddWorkers : ~ HoldsGrowth(t)
BY ThreadKinds, KindsDisjoint DEF Inv, GrowthHeld, AddWorkers

\* The closer finds the first process of a slot in the slot, if it runs: nobody else has it
\* in hand while the closer holds the growth lock.
LEMMA SweptStep ==
    ASSUME ReservationInv, [Next]_vars
    PROVE  Swept'
<1>1. /\ Inv /\ Shape /\ PoolType /\ Locals /\ Live /\ Replacements /\ Swept /\ Grows
  BY WorkersStep DEF Inv, ReservationInv
<1> SUFFICES ASSUME NEW z \in Closers, th'[z].pc = "sweep",
                    NEW w \in 1..Len(workers'), First(w)', Running(w)',
                    workers'[w].home \notin th'[z].left
             PROVE  w \in Members(z)'
  BY DEF Swept
<1>2. z \in Threads
  BY ThreadKinds
<1>3. th'[z] = th[z] \/ Halt(z) \/ Sweep(z)
  BY <1>2, NextTurn DEF Turn, Others
<1>4. ASSUME HoldsGrowth(z)
      PROVE  w \in 1..Len(workers)
  BY <1>1, <1>4, SweepShutsOut, AddedAreNotFirst
<1>5. ASSUME w \in 1..Len(workers)
      PROVE  First(w) /\ Running(w) /\ workers'[w].home = workers[w].home
  BY <1>1, <1>5, FirstKept DEF Grows
<1>6. CASE th'[z] = th[z]
  <2>1. HoldsGrowth(z)
    BY <1>6 DEF HoldsGrowth
  <2>2. w \in Members(z)
    BY <1>1, <1>4, <1>5, <1>6, <2>1 DEF Swept
  <2> QED
    BY <1>6, <2>2 DEF Members
<1>7. CASE Halt(z)
  <2>1. th'[z].left = Slots
    BY <1>1, <1>2, <1>7 DEF Halt, Shape
  <2>2. workers'[w] \in WorkerType
    BY <1>1 DEF Grows
  <2> QED
    BY <2>1, <2>2 DEF WorkerType
<1>8. CASE Sweep(z)
  <2> DEFINE i == Min(th[z].left)
  <2>1. /\ th[z].pc = "sweep" /\ th'[z].left = th[z].left \ {i}
        /\ th'[z].team = th[z].team \cup {<<i, slot[i]>>}
    BY <1>1, <1>2, <1>8 DEF Sweep, At, Shape
  <2>2. HoldsGrowth(z)
    BY <2>1 DEF HoldsGrowth
  <2>3. w \in 1..Len(workers) /\ First(w) /\ Running(w) /\ workers'[w].home = workers[w].home
    BY <1>4, <1>5, <2>2
  <2> HIDE DEF i
  <2>4. CASE workers[w].home \notin th[z].left
    <3>1. w \in Members(z)
      BY <1>1, <2>1, <2>3, <2>4 DEF Swept
    <3> QED
      BY <2>1, <3>1 DEF Members
  <2>5. CASE workers[w].home \in th[z].left
    <3>1. workers[w].home = i
      BY <2>1, <2>3, <2>5
    <3>2. slot[i] = w
      <4>1. \A t \in AddWorkers : th[t].pc # "store"
        BY <1>1, <2>2, SweepShutsOut DEF HoldsGrowth
      <4>2. \A t \in Restarters : th[t].pc = "install" => w \notin th[t].new
        BY <1>1, <2>3 DEF Replacements
      <4> QED
        BY <1>1, <2>3, <3>1, <4>1, <4>2 DEF Live
    <3>3. <<i, w>> \in th'[z].team /\ <<i, w>>[2] = w
      BY <2>1, <3>2
    <3> QED
      BY <3>3 DEF Members
  <2> QED
    BY <2>4, <2>5
<1> QED
  BY <1>3, <1>6, <1>7, <1>8

\* The pool stops with the growth lock held, and growth begins only while it runs.
LEMMA NoGrowthStep ==
    ASSUME ReservationInv, [Next]_vars
    PROVE  NoGrowth'
<1>1. /\ Inv /\ Shape /\ NoGrowth /\ Changed /\ \A u \in Threads : Entered(u)
  BY ChangedStep, EnteredStep DEF Inv, ReservationInv
<1> SUFFICES ASSUME state' = "stopped", NEW u \in AddWorkers, HoldsGrowth(u)'
             PROVE  FALSE
  BY DEF NoGrowth
<1>2. /\ u \in Threads /\ u \notin Broadcasters /\ u \notin Closers
      /\ u \in Growers \/ u \in Requesters
  BY ThreadKinds, KindsDisjoint DEF AddWorkers
<1>3. th'[u].pc \in {"grow", "store", "publish"}
  BY <1>2 DEF HoldsGrowth
<1>4. \/ th'[u] = th[u]
      \/ TryGrow(u) \/ GrowOne(u) \/ GrowOneStore(u)
      \/ GrowLock(u) \/ GrowSpawn(u) \/ GrowStore(u)
  BY <1>1, <1>2, <1>3 DEF Entered, Settled
<1>5. HoldsGrowth(u) \/ TryGrow(u) \/ GrowLock(u)
  BY <1>2, <1>3, <1>4 DEF HoldsGrowth, GrowOne, GrowOneStore, GrowSpawn, GrowStore, At, AddWorkers
<1>6. CASE state' = state
  <2>1. ~ HoldsGrowth(u) /\ state = "stopped"
    BY <1>1, <1>6 DEF NoGrowth
  <2>2. CASE TryGrow(u)
    BY <2>1, <2>2 DEF TryGrow
  <2>3. CASE GrowLock(u)
    <3>1. th'[u].pc = "done"
      BY <1>1, <1>2, <2>1, <2>3 DEF GrowLock, Goto, Shape
    <3> QED
      BY <1>3, <3>1
  <2> QED
    BY <1>5, <2>1, <2>2, <2>3
<1>7. CASE state' # state
  <2>1. PICK z \in Closers : StopAll(z)
    BY <1>1, <1>7 DEF Changed, CloseStart, Halt
  <2>2. th[z].pc = "sweep" /\ HoldsGrowth(z) /\ u # z
    BY <1>2, <2>1 DEF StopAll, At, HoldsGrowth
  <2>3. th'[u] = th[u]
    BY <1>1, <1>2, <2>1, <2>2, ThreadKinds DEF StopAll, Goto, Shape
  <2>4. HoldsGrowth(u)
    BY <1>2, <1>3, <2>3 DEF HoldsGrowth, AddWorkers
  <2> QED
    BY <1>1, <2>2, <2>4, SweepShutsOut
<1> QED
  BY <1>6, <1>7

\* The shutdown stops what the closer has seen; what is added later replaces something.
LEMMA OutlivedStep ==
    ASSUME ReservationInv, [Next]_vars
    PROVE  Outlived'
<1>1. /\ Inv /\ Shape /\ PoolType /\ Locals /\ NoGrowth /\ Swept /\ Outlived /\ Changed /\ Grows
  BY ChangedStep, WorkersStep DEF Inv, ReservationInv
<1> SUFFICES ASSUME state' = "stopped", NEW w \in 1..Len(workers'), Running(w)', First(w)'
             PROVE  FALSE
  BY DEF Outlived
<1>2. ASSUME w \in 1..Len(workers)
      PROVE  First(w) /\ Running(w) /\ workers[w] \in WorkerType
  BY <1>1, <1>2, FirstKept DEF Grows, PoolType
<1>3. CASE state' = state
  <2>1. w \in 1..Len(workers)
    BY <1>1, <1>3, AddedAreNotFirst DEF NoGrowth
  <2> QED
    BY <1>1, <1>2, <1>3, <2>1 DEF Outlived
<1>4. CASE state' # state
  <2>1. PICK z \in Closers : StopAll(z)
    BY <1>1, <1>4 DEF Changed, CloseStart, Halt
  <2>2. /\ th[z].pc = "sweep" /\ th[z].left = {} /\ workers' = Stopped(Members(z))
    BY <2>1 DEF StopAll, At, Members
  <2>3. /\ Len(workers') = Len(workers)
        /\ \A v \in 1..Len(workers) :
               workers'[v].state = IF v \in Members(z) THEN "stopped" ELSE workers[v].state
    BY <1>1, <2>2, StoppedParts DEF PoolType
  <2>4. w \in 1..Len(workers) /\ First(w) /\ Running(w)
    BY <1>2, <2>3
  <2>5. w \in Members(z)
    BY <1>1, <2>2, <2>4 DEF Swept
  <2> QED
    BY <2>3, <2>4, <2>5 DEF Running
<1> QED
  BY <1>3, <1>4

\* The state of the pool is one of four, and the bound on crashes is kept.
LEMMA RestTypeStep ==
    ASSUME ReservationInv, [Next]_vars
    PROVE  RestType'
<1>1. RestType /\ Changed
  BY ChangedStep DEF ReservationInv
<1>2. state' \in {"running", "finalizing", "stopping", "stopped"}
  BY <1>1 DEF RestType, Changed, CloseStart, Halt, StopAll
<1>3. ASSUME preparing' \in BOOLEAN, crashes' = crashes
      PROVE  RestType'
  BY <1>1, <1>2, <1>3 DEF RestType
<1> USE DEF RestType, pool
<1>4. ASSUME NEW t \in Restarters, RestartStep(t) \/ RecoverStep(t) PROVE RestType'
  <2>1. preparing' = preparing /\ crashes' = crashes
    BY <1>4 DEF RestartStep, RecoverStep, ScanLive, ScanDead, RestartReuse, RestartBegin,
       RestartSpawn, SpawnFails, ReplayFails, RestartInstall, RecoverSkip, Recover,
       RecoverMatch, Release
  <2> QED
    BY <1>1, <1>3, <2>1
<1>5. ASSUME NEW r \in Requesters,
           \/ RequestRefused(r) \/ RequestStart(r) \/ NoneFound(r) \/ TryGrow(r) \/ GrowOne(r)
           \/ GrowOneFails(r) \/ GrowOneStore(r) \/ GrowOnePublish(r) \/ KeepPick(r)
           \/ Reserve(r) \/ ReserveChecked(r) \/ ReserveDropped(r) \/ ExchangeOk(r)
           \/ ExchangeFails(r)
      PROVE  RestType'
  <2>1. preparing' = preparing /\ crashes' = crashes
    BY <1>5 DEF RequestRefused, RequestStart, NoneFound, TryGrow, GrowOne, GrowOneFails,
       GrowOneStore, GrowOnePublish, KeepPick, Reserve, ReserveChecked, ReserveDropped,
       ExchangeOk, ExchangeFails
  <2> QED
    BY <1>1, <1>3, <2>1
<1>6. ASSUME NEW b \in Broadcasters,
           \/ BroadcastRefused(b) \/ BroadcastStart(b) \/ BroadcastLock(b) \/ BroadcastSpread(b)
           \/ BroadcastAnswered(b) \/ BroadcastFailed(b) \/ BroadcastJoin(b)
           \/ BroadcastSettle(b) \/ BroadcastEnd(b)
      PROVE  RestType'
  <2>1. preparing' = preparing /\ crashes' = crashes
    BY <1>6 DEF BroadcastRefused, BroadcastStart, BroadcastLock, BroadcastSpread,
       BroadcastAnswered, BroadcastFailed, BroadcastJoin, BroadcastSettle, BroadcastEnd
  <2> QED
    BY <1>1, <1>3, <2>1
<1>7. ASSUME NEW g \in Growers, PrepareSkip(g) \/ PrepareStart(g) \/ PrepareFails(g) \/ GrowStep(g)
      PROVE  RestType'
  <2>1. preparing' \in {preparing, TRUE, FALSE} /\ crashes' = crashes
    BY <1>7 DEF PrepareSkip, PrepareStart, PrepareFails, GrowStep, GrowLock, GrowSpawn,
       GrowFails, GrowStore, GrowPublish
  <2> QED
    BY <1>1, <1>3, <2>1
<1>8. ASSUME NEW z \in Closers, CloseSkip(z) \/ CloseStart(z) \/ CloseStep(z)
      PROVE  RestType'
  <2>1. preparing' = preparing /\ crashes' = crashes
    BY <1>8 DEF CloseSkip, CloseStart, CloseStep, CloseLock, Gather, Drained, Collect,
       CollectSkip, Reduce, Halt, Sweep, StopAll
  <2> QED
    BY <1>1, <1>3, <2>1
<1>9. CASE Crash
  <2>1. crashes' \in 0..MaxCrashes /\ preparing' = preparing
    BY <1>1, <1>9, PoolAssumption DEF Crash
  <2> QED
    BY <1>1, <1>2, <2>1
<1>10. CASE Finished \/ UNCHANGED vars
  BY <1>1, <1>10 DEF Finished, vars
<1> HIDE DEF RestType
<1> QED
  BY <1>4, <1>5, <1>6, <1>7, <1>8, <1>9, <1>10 DEF Next, RequestStep, BroadcastStep, Restarters

-----------------------------------------------------------------------------
(* The theorems.                                                           *)

\* At the start nobody is inside the pool.
LEMMA ReservationInit ==
    ASSUME Init
    PROVE  ReservationInv
<1>1. Inv
  BY InitInv
<1>2. /\ \A t \in Threads : th[t] = Idle
      /\ \A t \in Threads : th[t].pc = "idle" /\ th[t].team = {}
  BY DEF Init, Idle
<1>3. \A t \in Threads : Reserved(t) = {}
  BY <1>2 DEF Reserved, Holding, Recovering
<1>4. \A w \in 1..Len(workers) : Holders(w) = {}
  BY <1>3 DEF Holders
<1>5. \A w \in 1..Len(workers) : workers[w].load = 0
  <2>1. Initial \in Nat
    BY PoolAssumption
  <2> QED
    BY <2>1 DEF Init
<1>6. LoadsCounted
  BY <1>4, <1>5, FS_EmptySet DEF LoadsCounted
<1>7. TeamHomes /\ Picked /\ ReductionIsQuiet /\ Replacements /\ Swept
  BY <1>2, ThreadKinds DEF TeamHomes, Picked, Recovering, ReductionIsQuiet, Replacements, Swept,
     Restarters
<1>8. RestType /\ NoGrowth /\ Outlived
  <2>1. state = "running" /\ preparing = FALSE /\ crashes = 0
    BY DEF Init
  <2>2. MaxCrashes \in Nat
    BY PoolAssumption
  <2>3. RestType
    <3>1. crashes \in 0..MaxCrashes
      BY <2>1, <2>2
    <3>2. preparing \in BOOLEAN
      BY <2>1, Zenon
    <3> QED
      BY <2>1, <3>1, <3>2, Zenon DEF RestType
  <2> QED
    BY <2>1, <2>3 DEF NoGrowth, Outlived
<1> QED
  BY <1>1, <1>6, <1>7, <1>8 DEF ReservationInv

\* Every step keeps the invariant.
LEMMA ReservationStep ==
    ASSUME ReservationInv, [Next]_vars
    PROVE  ReservationInv'
<1>1. Inv'
  BY InvStep DEF ReservationInv
<1>2. RestType' /\ LoadsCounted' /\ TeamHomes' /\ Picked'
  BY RestTypeStep, LoadsCountedStep, TeamHomesStep
<1>3. ReductionIsQuiet' /\ Replacements' /\ Swept'
  BY ReductionIsQuietStep, ReplacementsStep, SweptStep
<1>4. NoGrowth' /\ Outlived'
  BY NoGrowthStep, OutlivedStep
<1> QED
  BY <1>1, <1>2, <1>3, <1>4 DEF ReservationInv

\* The invariant of the reservations and the shutdown.
THEOREM ReservationsAreCounted == Spec => []ReservationInv
<1>1. Init => ReservationInv
  BY ReservationInit
<1>2. ReservationInv /\ [Next]_vars => ReservationInv'
  BY ReservationStep
<1> QED
  BY <1>1, <1>2, PTL DEF Spec

\* A load is never negative, and never more than the threads there are: each of them
\* reserves a worker at most once.
LEMMA LoadsBounded ==
    ASSUME LoadsCounted, NEW w \in 1..Len(workers)
    PROVE  workers[w].load \in 0..Cardinality(Threads)
<1>1. Holders(w) \subseteq Threads
  BY DEF Holders
<1>2. IsFiniteSet(Threads)
  BY PoolAssumption
<1>3. /\ IsFiniteSet(Holders(w)) /\ Cardinality(Holders(w)) <= Cardinality(Threads)
  BY <1>1, <1>2, FS_Subset
<1>4. Cardinality(Holders(w)) \in Nat /\ Cardinality(Threads) \in Nat
  BY <1>2, <1>3, FS_CardinalityType
<1> QED
  BY <1>3, <1>4 DEF LoadsCounted

\* Every variable keeps its type; in_flight, an unsigned counter that fetch_sub takes one
\* from, never goes below zero and is bounded by the number of callers.
THEOREM PoolTyped == Spec => []TypeOK
<1>1. ReservationInv => TypeOK
  <2> SUFFICES ASSUME ReservationInv PROVE TypeOK
    OBVIOUS
  <2>1. PoolType /\ SlotHomes /\ RestType /\ LoadsCounted
    BY DEF ReservationInv, Inv
  <2>2. Len(workers) \in Nat /\ DOMAIN workers = 1..Len(workers)
        /\ \A w \in 1..Len(workers) : workers[w] \in WorkerType
    BY <2>1 DEF PoolType
  <2>3. slot \in [Slots -> 0..Len(workers)]
    BY <2>1, <2>2 DEF PoolType, SlotHomes
  <2>4. \A w \in 1..Len(workers) : workers[w].load \in 0..Cardinality(Threads)
    BY <2>1, LoadsBounded
  <2> QED
    BY <2>1, <2>2, <2>3, <2>4 DEF TypeOK, PoolType, RestType, WorkerType
<1> QED
  BY <1>1, ReservationsAreCounted, PTL

\* While the closer collects and reduces, no request is exchanged on a worker whose state
\* it has collected: request_inner reserves and then looks at the state, shutdown sets the
\* state and then waits for the reservations.
THEOREM NoRequestMeetsTheReduction == Spec => []ReductionIsQuiet
<1>1. ReservationInv => ReductionIsQuiet
  BY DEF ReservationInv
<1> QED
  BY <1>1, ReservationsAreCounted, PTL

\* When nobody is inside the pool every in_flight is zero: each early return of
\* request_inner and broadcast_inner drops its reservations.
THEOREM EveryReservationReturns == Spec => []ReservationsReturn
<1>1. ReservationInv => ReservationsReturn
  <2> SUFFICES ASSUME ReservationInv, \A t \in Threads : th[t].pc \in {"idle", "done"},
                      NEW w \in DOMAIN workers
               PROVE  workers[w].load = 0
    BY DEF ReservationsReturn
  <2>1. w \in 1..Len(workers) /\ LoadsCounted
    BY DEF ReservationInv, Inv, PoolType
  <2>2. \A t \in Threads : ~ Holding(t)
    BY DEF Holding, Recovering
  <2>3. Holders(w) = {}
    BY <2>2 DEF Holders, Reserved
  <2> QED
    BY <2>1, <2>3, FS_EmptySet DEF LoadsCounted
<1> QED
  BY <1>1, ReservationsAreCounted, PTL

\* What runs after a shutdown replaces a process of its slot: no worker the pool started
\* with or grew by outlives it, whoever was growing the pool.
THEOREM ShutdownLeavesOnlyReplacements == Spec => []OnlyReplacementsOutlive
<1>1. ReservationInv => OnlyReplacementsOutlive
  <2> SUFFICES ASSUME ReservationInv, state = "stopped", NEW w \in DOMAIN workers, Running(w)
               PROVE  \E v \in 1..(w - 1) : workers[v].home = workers[w].home
    BY DEF OnlyReplacementsOutlive
  <2>1. w \in 1..Len(workers)
    BY DEF ReservationInv, Inv, PoolType
  <2>2. ~ First(w)
    BY <2>1 DEF ReservationInv, Outlived
  <2> QED
    BY <2>2 DEF First
<1> QED
  BY <1>1, ReservationsAreCounted, PTL
===============================================================================
