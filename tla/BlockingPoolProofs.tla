-------------------------- MODULE BlockingPoolProofs --------------------------
(***************************************************************************)
(* What holds of BlockingPool for any number of tasks, workers, clones and *)
(* joins: types are kept, a worker that has passed the semaphore finds a   *)
(* task, and no task is handed out twice; without clones, that none is     *)
(* freed early.                                                            *)
(***************************************************************************)
EXTENDS BlockingPool, FiniteSetTheorems, TLAPS

\* Who is in the middle of a call has a task in its hands, and the counter it
\* has loaded can be decremented.
LoopHoldsTask ==
  /\ lpc \notin {"idle", "unlock"} => ltask \in Tasks
  /\ lpc = "dropped" => handles[ltask] > 0 /\ lval > 0

WorkersHoldTasks ==
  \A w \in Workers :
    /\ wpc[w] \notin {"none", "sem", "lock"} => wtask[w] \in Tasks
    /\ wpc[w] = "dropped" => wval[w] > 0

LiveIsCounted == \A t \in Tasks : Live(t) => counter[t] > 0

\* blocking_guard is held exactly between lock and unlock.
GuardHeld ==
  /\ lpc \in {"post", "unlock"} <=> guard = Loop
  /\ \A w \in Workers : wpc[w] = "unlink" <=> guard = w

\* The workers that have passed the semaphore and not yet unlinked their task.
Passed == {w \in Workers : wpc[w] \in {"lock", "unlink"}}
Unposted == IF lpc = "post" THEN 1 ELSE 0

\* Every task in the queue is a permit, or is owed one, or has used one up.
SemCountsQueue == sem + Cardinality(Passed) + Unposted = Len(queue)

NoThreadsYet == ~initialized => \A w \in Workers : wpc[w] = "none"

Local == TypeOK /\ LoopHoldsTask /\ WorkersHoldTasks /\ LiveIsCounted
Shared == GuardHeld /\ NoThreadsYet
IInv == Local /\ Shared /\ SemCountsQueue

\* Nothing is linked twice, nor linked while a worker has it, except for the
\* head while its worker unlinks it; and no two workers have the same task.
LinkedOnce == \A i, j \in 1..Len(queue) : queue[i] = queue[j] => i = j
LinkedExists == \A i \in 1..Len(queue) : mem[queue[i]] # "none"
TakenExists == \A w \in Workers : wtask[w] # Null => mem[wtask[w]] # "none"
TakenNotLinked ==
  \A w \in Workers : \A i \in 1..Len(queue) :
    wtask[w] = queue[i] => wpc[w] = "unlink" /\ i = 1
UnlinksHead == \A w \in Workers : wpc[w] = "unlink" => queue # << >> /\ wtask[w] = queue[1]
TakenOnce == \A w, v \in Workers : wtask[w] # Null /\ wtask[w] = wtask[v] => w = v

OwnInv == /\ LinkedOnce /\ LinkedExists /\ TakenExists
          /\ TakenNotLinked /\ UnlinksHead /\ TakenOnce
-----------------------------------------------------------------------------
(* Counting the workers that have passed the semaphore.                     *)

LEMMA PassedFinite == IsFiniteSet(Passed) /\ Cardinality(Passed) \in Nat
<1>1. Passed \in SUBSET Workers
  BY DEF Passed
<1> QED BY <1>1, PoolAssumption, FS_Subset, FS_CardinalityType

LEMMA PassedIsSome ==
  ASSUME NEW w \in Workers, w \in Passed
  PROVE  Cardinality(Passed) > 0
BY PassedFinite, FS_EmptySet

\* A worker that has passed has a task to take, so Unlink finds one.
LEMMA PassedFindsTask ==
  ASSUME IInv, NEW w \in Workers, w \in Passed
  PROVE  queue # << >> /\ Len(queue) > 0 /\ Len(queue) \in Nat
<1>1. sem \in Nat /\ queue \in Seq(Tasks)
  BY DEF IInv, Local, TypeOK
<1>2. Len(queue) \in Nat
  BY <1>1
<1>3. Unposted \in Nat
  BY DEF Unposted
<1>4. Len(queue) > 0
  BY <1>1, <1>2, <1>3, PassedFinite, PassedIsSome DEF IInv, SemCountsQueue
<1> QED BY <1>1, <1>2, <1>4

\* The steps that touch neither the queue nor the semaphore, and move nobody
\* into or out of Passed.
LEMMA CountKept ==
  ASSUME SemCountsQueue, UNCHANGED <<queue, sem>>, Passed' = Passed, Unposted' = Unposted
  PROVE  SemCountsQueue'
BY DEF SemCountsQueue

-----------------------------------------------------------------------------
(* The invariant.                                                           *)

LEMMA InitIInv == Init => IInv
<1> SUFFICES ASSUME Init PROVE IInv
  OBVIOUS
<1>1. Local
  <2>1. TypeOK
    <3>1. /\ mem \in [Tasks -> {"none", "live", "freed"}]
          /\ status \in [Tasks -> {"suspended", "aborted", "finished"}]
          /\ wpc \in [Workers -> WorkerStep]
          /\ wtask \in [Workers -> Tasks \cup {Null}]
      BY DEF Init, WorkerStep
    <3>2. /\ counter \in [Tasks -> Nat] /\ handles \in [Tasks -> Nat]
          /\ nodes \in [Tasks -> Nat] /\ joins \in [Tasks -> Nat]
          /\ woken \in [Tasks -> Nat]
      BY DEF Init
    <3>3. wval \in [Workers -> Nat] /\ wtop \in [Workers -> Nat]
      BY DEF Init
    <3>4. queue \in Seq(Tasks)
      <4>1. queue = << >>
        BY DEF Init
      <4> QED BY <4>1
    <3>5. initialized \in BOOLEAN
      BY DEF Init
    <3>6. /\ sem = 0 /\ guard = Null /\ lpc = "idle" /\ ltask = Null /\ lval = 0
      BY DEF Init
    <3> QED BY <3>1, <3>2, <3>3, <3>4, <3>5, <3>6 DEF TypeOK, LoopStep
  <2>2. LoopHoldsTask /\ WorkersHoldTasks /\ LiveIsCounted
    BY DEF Init, LoopHoldsTask, WorkersHoldTasks, LiveIsCounted, Live
  <2> QED BY <2>1, <2>2 DEF Local
<1>2. Shared
  BY PoolAssumption DEF Init, Shared, GuardHeld, NoThreadsYet
<1>3. SemCountsQueue
  <2>1. Passed = {}
    BY DEF Init, Passed
  <2> QED BY <2>1, FS_EmptySet DEF Init, SemCountsQueue, Unposted
<1> QED BY <1>1, <1>2, <1>3 DEF IInv

\* The calls of the loop thread other than spawning.
LoopStepElse ==
  \/ \E t \in Tasks : AbortLoad(t) \/ JoinLoad(t) \/ DropLoad(t) \/ CloneLoad(t)
  \/ AbortStore \/ JoinPush \/ DropStore \/ CloneStore

LEMMA LoopElseKeepsIInv ==
  ASSUME IInv, LoopStepElse
  PROVE  IInv'
<1>1. /\ UNCHANGED <<queueVars, workerVars>>
      /\ lpc \notin {"post", "unlock"} /\ lpc' \notin {"post", "unlock"}
  BY DEF LoopStepElse, AbortLoad, JoinLoad, DropLoad, CloneLoad, AbortStore,
         JoinPush, DropStore, CloneStore, LoopDone
<1>2. Shared' /\ SemCountsQueue'
  <2>1. Passed' = Passed /\ Unposted' = Unposted
    BY <1>1 DEF Passed, Unposted, workerVars
  <2> QED BY <1>1, <2>1, CountKept
          DEF IInv, Shared, GuardHeld, NoThreadsYet, queueVars, workerVars
<1>3. Local'
  <2> USE DEF IInv, Local, TypeOK, LoopStep, LoopHoldsTask, WorkersHoldTasks,
              LiveIsCounted, Live, queueVars, workerVars
  <2>1. ASSUME NEW t \in Tasks, AbortLoad(t) PROVE Local'
    BY <2>1 DEF AbortLoad, taskVars
  <2>2. ASSUME NEW t \in Tasks, JoinLoad(t) PROVE Local'
    <3>1. joins' \in [Tasks -> Nat] /\ woken' \in [Tasks -> Nat]
      <4>1. /\ joins' = [joins EXCEPT ![t] = joins[t] + 1]
            /\ woken' = woken \/ woken' = [woken EXCEPT ![t] = woken[t] + 1]
        BY <2>2 DEF JoinLoad
      <4>2. joins \in [Tasks -> Nat] /\ woken \in [Tasks -> Nat]
        OBVIOUS
      <4> HIDE DEF IInv, Local, TypeOK
      <4> QED BY <4>1, <4>2
    <3> QED BY <2>2, <3>1 DEF JoinLoad
  <2>3. ASSUME NEW t \in Tasks, DropLoad(t) PROVE Local'
    BY <2>3 DEF DropLoad, taskVars
  <2>4. ASSUME NEW t \in Tasks, CloneLoad(t) PROVE Local'
    BY <2>4 DEF CloneLoad, taskVars
  <2>5. ASSUME AbortStore PROVE Local'
    BY <2>5 DEF AbortStore, LoopDone
  <2>6. ASSUME JoinPush PROVE Local'
    <3>1. /\ ltask \in Tasks /\ nodes' = [nodes EXCEPT ![ltask] = nodes[ltask] + 1]
          /\ lpc' = "drop"
      BY <2>6 DEF JoinPush
    <3>2. UNCHANGED <<mem, counter, handles, status, joins, woken, queueVars,
                      ltask, lval, workerVars>>
      BY <2>6 DEF JoinPush
    <3>3. nodes' \in [Tasks -> Nat]
      <4>1. nodes \in [Tasks -> Nat]
        OBVIOUS
      <4> HIDE DEF IInv, Local, TypeOK
      <4> QED BY <3>1, <4>1
    <3>4. TypeOK'
      BY <3>1, <3>2, <3>3
    <3> QED BY <3>1, <3>2, <3>4
  <2>7. ASSUME DropStore PROVE Local'
    <3>1. ltask \in Tasks /\ handles[ltask] > 0 /\ lval > 0 /\ lpc' = "idle"
      BY <2>7 DEF DropStore, LoopDone
    <3>2. counter' \in [Tasks -> Nat] /\ handles' \in [Tasks -> Nat]
      <4>1. /\ counter' = [counter EXCEPT ![ltask] = lval - 1]
            /\ handles' = [handles EXCEPT ![ltask] = handles[ltask] - 1]
        BY <2>7 DEF DropStore
      <4>2. counter \in [Tasks -> Nat] /\ handles \in [Tasks -> Nat] /\ lval \in Nat
        OBVIOUS
      <4> HIDE DEF IInv, Local, TypeOK
      <4> QED BY <3>1, <4>1, <4>2
    <3>3. TypeOK'
      BY <2>7, <3>2 DEF DropStore, LoopDone
    <3>4. LiveIsCounted'
      BY <2>7, <3>1 DEF DropStore, IsLastRef
    <3> QED BY <2>7, <3>1, <3>3, <3>4 DEF DropStore
  <2>8. ASSUME CloneStore PROVE Local'
    <3>1. ltask \in Tasks /\ lpc' = "idle"
      BY <2>8 DEF CloneStore, LoopDone
    <3>2. counter' \in [Tasks -> Nat] /\ handles' \in [Tasks -> Nat]
      <4>1. /\ counter' = [counter EXCEPT ![ltask] = lval + 1]
            /\ handles' = [handles EXCEPT ![ltask] = handles[ltask] + 1]
        BY <2>8 DEF CloneStore
      <4>2. counter \in [Tasks -> Nat] /\ handles \in [Tasks -> Nat] /\ lval \in Nat
        OBVIOUS
      <4> HIDE DEF IInv, Local, TypeOK
      <4> QED BY <3>1, <4>1, <4>2
    <3>3. TypeOK'
      BY <2>8, <3>2 DEF CloneStore, LoopDone
    <3>4. LiveIsCounted'
      BY <2>8, <3>1 DEF CloneStore
    <3> QED BY <2>8, <3>1, <3>3, <3>4 DEF CloneStore
  <2> QED BY <2>1, <2>2, <2>3, <2>4, <2>5, <2>6, <2>7, <2>8 DEF LoopStepElse
<1> QED BY <1>2, <1>3 DEF IInv

LEMMA SpawnKeepsIInv ==
  ASSUME IInv, (\E t \in Tasks : SpawnLink(t)) \/ SpawnPost \/ SpawnUnlock
  PROVE  IInv'
<1> USE DEF IInv
<1>0. sem \in Nat /\ queue \in Seq(Tasks) /\ Len(queue) \in Nat
  BY DEF Local, TypeOK
<1>1. ASSUME NEW t \in Tasks, SpawnLink(t) PROVE IInv'
  <2>1. Local'
    <3>1. TypeOK'
      <4>1. queue' \in Seq(Tasks)
        BY <1>0, <1>1 DEF SpawnLink
      <4>2. /\ mem' \in [Tasks -> {"none", "live", "freed"}]
            /\ counter' \in [Tasks -> Nat] /\ handles' \in [Tasks -> Nat]
        BY <1>1 DEF SpawnLink, Local, TypeOK
      <4>3. guard' = Loop /\ lpc' = "post" /\ ltask' = t
        BY <1>1 DEF SpawnLink
      <4>4. UNCHANGED <<status, nodes, joins, woken, sem, initialized, lval,
                        wpc, wtask, wval, wtop>>
        BY <1>1 DEF SpawnLink, workerVars
      <4> QED BY <4>1, <4>2, <4>3, <4>4 DEF Local, TypeOK, LoopStep
    <3>2. LoopHoldsTask' /\ WorkersHoldTasks'
      BY <1>1 DEF SpawnLink, Local, LoopHoldsTask, WorkersHoldTasks, workerVars
    <3>3. LiveIsCounted'
      BY <1>1 DEF SpawnLink, Local, TypeOK, LiveIsCounted, Live
    <3> QED BY <3>1, <3>2, <3>3 DEF Local
  <2>2. Shared'
    BY <1>1, PoolAssumption DEF SpawnLink, Shared, GuardHeld, NoThreadsYet, workerVars
  <2>3. SemCountsQueue'
    <3>1. Passed' = Passed /\ Unposted = 0 /\ Unposted' = 1
      BY <1>1 DEF SpawnLink, Passed, Unposted, workerVars
    <3>2. Len(queue') = Len(queue) + 1
      BY <1>0, <1>1 DEF SpawnLink
    <3> QED BY <1>0, <1>1, <3>1, <3>2, PassedFinite DEF SpawnLink, SemCountsQueue
  <2> QED BY <2>1, <2>2, <2>3
<1>2. ASSUME SpawnPost PROVE IInv'
  <2>1. Local'
    BY <1>2 DEF SpawnPost, Local, TypeOK, LoopStep, LoopHoldsTask, WorkersHoldTasks,
                LiveIsCounted, Live, taskVars, workerVars
  <2>2. Shared'
    BY <1>2 DEF SpawnPost, Shared, GuardHeld, NoThreadsYet, workerVars
  <2>3. SemCountsQueue'
    <3>1. Passed' = Passed /\ Unposted = 1 /\ Unposted' = 0
      BY <1>2 DEF SpawnPost, Passed, Unposted, workerVars
    <3> QED BY <1>0, <1>2, <3>1, PassedFinite DEF SpawnPost, SemCountsQueue
  <2> QED BY <2>1, <2>2, <2>3
<1>3. ASSUME SpawnUnlock PROVE IInv'
  <2>1. Local'
    BY <1>3 DEF SpawnUnlock, LoopDone, Local, TypeOK, LoopStep, WorkerStep, LoopHoldsTask,
                WorkersHoldTasks, LiveIsCounted, Live, taskVars
  <2>2. Shared'
    BY <1>3, PoolAssumption
       DEF SpawnUnlock, LoopDone, CreatesThreads, Shared, GuardHeld, NoThreadsYet
  <2>3. SemCountsQueue'
    <3>1. Passed' = Passed
      BY <1>3 DEF SpawnUnlock, CreatesThreads, Passed, Shared, NoThreadsYet
    <3>2. Unposted' = Unposted
      BY <1>3 DEF SpawnUnlock, LoopDone, Unposted
    <3> QED BY <1>3, <3>1, <3>2, CountKept DEF SpawnUnlock
  <2> QED BY <2>1, <2>2, <2>3
<1> QED BY <1>1, <1>2, <1>3

\* What a worker does outside the queue.
WorkerStepElse(w) ==
  \/ Check(w) \/ RunHandler(w) \/ ReadTop(w) \/ WakeNode(w) \/ WakeEnd(w)
  \/ WorkerDropLoad(w) \/ WorkerDropStore(w)

LEMMA WorkerElseKeepsIInv ==
  ASSUME IInv, NEW w \in Workers, WorkerStepElse(w)
  PROVE  IInv'
<1> USE DEF IInv
<1>1. /\ UNCHANGED <<queueVars, loopVars>>
      /\ wpc[w] \notin {"none", "lock", "unlink"} /\ wpc'[w] \notin {"none", "lock", "unlink"}
      /\ \A v \in Workers \ {w} : wpc'[v] = wpc[v]
  BY DEF WorkerStepElse, Check, RunHandler, ReadTop, WakeNode, WakeEnd,
         WorkerDropLoad, WorkerDropStore, At, Goto, Local, TypeOK
<1>2. Shared' /\ SemCountsQueue'
  <2>1. Passed' = Passed /\ Unposted' = Unposted
    BY <1>1 DEF Passed, Unposted, loopVars
  <2>2. Shared'
    BY <1>1 DEF Shared, GuardHeld, NoThreadsYet, queueVars, loopVars
  <2> QED BY <1>1, <2>1, <2>2, CountKept DEF queueVars
<1>3. Local'
  <2> USE DEF Local, TypeOK, WorkerStep, LoopHoldsTask, WorkersHoldTasks,
              LiveIsCounted, Live, queueVars, loopVars, At, Goto
  <2>1. ASSUME Check(w) PROVE Local'
    BY <2>1 DEF Check, taskVars
  <2>2. ASSUME RunHandler(w) PROVE Local'
    BY <2>2 DEF RunHandler
  <2>3. ASSUME ReadTop(w) PROVE Local'
    BY <2>3 DEF ReadTop, AllNodes, taskVars
  <2>4. ASSUME WakeNode(w) PROVE Local'
    <3>1. woken' \in [Tasks -> Nat] /\ wtop' \in [Workers -> Nat]
      <4>1. /\ woken' = [woken EXCEPT ![wtask[w]] = woken[wtask[w]] + 1]
            /\ wtop' = [wtop EXCEPT ![w] = wtop[w] - 1]
            /\ wtop[w] > 0 /\ wpc[w] = "wake"
        BY <2>4 DEF WakeNode
      <4>2. wtask[w] \in Tasks /\ woken \in [Tasks -> Nat] /\ wtop \in [Workers -> Nat]
        BY <4>1
      <4> HIDE DEF IInv, Local, TypeOK
      <4> QED BY <4>1, <4>2
    <3> QED BY <2>4, <3>1 DEF WakeNode
  <2>5. ASSUME WakeEnd(w) PROVE Local'
    BY <2>5 DEF WakeEnd, taskVars
  <2>6. ASSUME WorkerDropLoad(w) PROVE Local'
    BY <2>6 DEF WorkerDropLoad, taskVars
  <2>7. ASSUME WorkerDropStore(w) PROVE Local'
    <3>1. wtask[w] \in Tasks /\ wval[w] \in Nat /\ wval[w] > 0 /\ wval[w] - 1 \in Nat
      <4>1. wpc[w] = "dropped" /\ wval \in [Workers -> Nat]
        BY <2>7 DEF WorkerDropStore
      <4>2. wtask[w] \in Tasks /\ wval[w] > 0
        BY <4>1
      <4> HIDE DEF IInv, Local, TypeOK
      <4> QED BY <4>1, <4>2
    <3>2. TypeOK'
      <4>1. /\ counter' = [counter EXCEPT ![wtask[w]] = wval[w] - 1]
            /\ mem' = mem \/ mem' = [mem EXCEPT ![wtask[w]] = "freed"]
            /\ wtask' = [wtask EXCEPT ![w] = Null] /\ wval' = [wval EXCEPT ![w] = 0]
            /\ wpc' = [wpc EXCEPT ![w] = "sem"]
        BY <2>7 DEF WorkerDropStore
      <4>2. counter' \in [Tasks -> Nat] /\ wval' \in [Workers -> Nat]
        BY <3>1, <4>1
      <4>3. /\ mem' \in [Tasks -> {"none", "live", "freed"}]
            /\ wtask' \in [Workers -> Tasks \cup {Null}] /\ wpc' \in [Workers -> WorkerStep]
        BY <3>1, <4>1
      <4> QED BY <2>7, <4>2, <4>3 DEF WorkerDropStore
    <3>3. LoopHoldsTask' /\ WorkersHoldTasks'
      BY <2>7, <3>1 DEF WorkerDropStore
    <3>4. LiveIsCounted'
      <4>1. /\ counter' = [counter EXCEPT ![wtask[w]] = wval[w] - 1]
            /\ mem' = IF wval[w] = 1 THEN [mem EXCEPT ![wtask[w]] = "freed"] ELSE mem
        BY <2>7 DEF WorkerDropStore, IsLastRef
      <4>2. /\ counter \in [Tasks -> Nat] /\ mem \in [Tasks -> {"none", "live", "freed"}]
            /\ \A u \in Tasks : mem[u] = "live" => counter[u] > 0
        OBVIOUS
      <4>3. \A u \in Tasks : mem'[u] = "live" => counter'[u] > 0
        <5> HIDE DEF IInv, Local, TypeOK
        <5> QED BY <3>1, <4>1, <4>2
      <4> QED BY <4>3
    <3> HIDE DEF TypeOK, LoopHoldsTask, WorkersHoldTasks, LiveIsCounted
    <3> QED BY <3>2, <3>3, <3>4
  <2> QED BY <2>1, <2>2, <2>3, <2>4, <2>5, <2>6, <2>7 DEF WorkerStepElse
<1> QED BY <1>2, <1>3

LEMMA WorkerPopsKeepsIInv ==
  ASSUME IInv, NEW w \in Workers, SemWait(w) \/ PopHead(w) \/ Unlink(w)
  PROVE  IInv'
<1> USE DEF IInv
<1>0. sem \in Nat /\ queue \in Seq(Tasks) /\ Len(queue) \in Nat /\ Unposted \in Nat
  BY DEF Local, TypeOK, Unposted
<1>1. ASSUME SemWait(w) PROVE IInv'
  <2>1. Local'
    BY <1>1 DEF SemWait, PermitTaken, At, Goto, Local, TypeOK, WorkerStep, LoopHoldsTask,
                WorkersHoldTasks, LiveIsCounted, Live, taskVars, loopVars
  <2>2. Shared'
    BY <1>1 DEF SemWait, At, Goto, Shared, GuardHeld, NoThreadsYet, Local, TypeOK, loopVars
  <2>3. SemCountsQueue'
    <3>1. Passed' = Passed \cup {w} /\ w \notin Passed
      BY <1>1 DEF SemWait, At, Goto, Passed, Local, TypeOK
    <3>2. Cardinality(Passed') = Cardinality(Passed) + 1
      BY <3>1, PassedFinite, FS_AddElement
    <3>3. Unposted' = Unposted /\ queue' = queue /\ sem' = sem - 1
      BY <1>1 DEF SemWait, PermitTaken, Unposted, loopVars
    <3> QED BY <1>0, <3>2, <3>3, PassedFinite DEF SemCountsQueue
  <2> QED BY <2>1, <2>2, <2>3
<1>2. ASSUME PopHead(w) PROVE IInv'
  <2>1. Local'
    <3>1. Head(queue) \in Tasks /\ w \in Workers
      BY <1>0, <1>2 DEF PopHead
    <3>2. TypeOK'
      BY <1>2, <3>1 DEF PopHead, Goto, Local, TypeOK, WorkerStep, taskVars, loopVars
    <3>3. LoopHoldsTask' /\ WorkersHoldTasks' /\ LiveIsCounted'
      BY <1>2, <3>1 DEF PopHead, Goto, Local, TypeOK, LoopHoldsTask, WorkersHoldTasks,
                        LiveIsCounted, Live, taskVars, loopVars
    <3> QED BY <3>2, <3>3 DEF Local
  <2>2. Shared'
    BY <1>2, PoolAssumption
       DEF PopHead, CanLock, At, Goto, Shared, GuardHeld, NoThreadsYet, Local, TypeOK, loopVars
  <2>3. SemCountsQueue'
    <3>1. Passed' = Passed /\ Unposted' = Unposted
      BY <1>2 DEF PopHead, At, Goto, Passed, Unposted, Local, TypeOK, loopVars
    <3> QED BY <1>2, <3>1, CountKept DEF PopHead
  <2> QED BY <2>1, <2>2, <2>3
<1>3. ASSUME Unlink(w) PROVE IInv'
  <2>0. w \in Passed /\ queue # << >> /\ Len(queue) > 0
    <3>1. w \in Passed
      BY <1>3 DEF Unlink, At, Passed
    <3> QED BY <3>1, PassedFindsTask
  <2>1. Local'
    <3>1. Tail(queue) \in Seq(Tasks)
      BY <1>0, <2>0
    <3>2. TypeOK'
      BY <1>3, <3>1 DEF Unlink, Goto, Local, TypeOK, WorkerStep, taskVars, loopVars
    <3>3. LoopHoldsTask' /\ WorkersHoldTasks' /\ LiveIsCounted'
      BY <1>3 DEF Unlink, At, Goto, Local, TypeOK, LoopHoldsTask, WorkersHoldTasks,
                  LiveIsCounted, Live, taskVars, loopVars
    <3> QED BY <3>2, <3>3 DEF Local
  <2>2. Shared'
    BY <1>3, PoolAssumption
       DEF Unlink, At, Goto, Shared, GuardHeld, NoThreadsYet, Local, TypeOK, loopVars
  <2>3. SemCountsQueue'
    <3>1. Passed' = Passed \ {w}
      BY <1>3 DEF Unlink, At, Goto, Passed, Local, TypeOK
    <3>2. Cardinality(Passed') = Cardinality(Passed) - 1
      BY <2>0, <3>1, PassedFinite, FS_RemoveElement
    <3>3. Unposted' = Unposted /\ sem' = sem /\ Len(queue') = Len(queue) - 1
      BY <1>0, <1>3, <2>0 DEF Unlink, Unposted, loopVars
    <3> QED BY <1>0, <3>2, <3>3, PassedFinite DEF SemCountsQueue
  <2> QED BY <2>1, <2>2, <2>3
<1> QED BY <1>1, <1>2, <1>3

LEMMA NextKeepsIInv == IInv /\ [Next]_vars => IInv'
<1> SUFFICES ASSUME IInv, [Next]_vars PROVE IInv'
  OBVIOUS
<1>1. CASE \E t \in Tasks : LoopCall(t)
  BY <1>1, SpawnKeepsIInv, LoopElseKeepsIInv DEF LoopCall, LoopStepElse
<1>2. CASE LoopReturn
  BY <1>2, SpawnKeepsIInv, LoopElseKeepsIInv DEF LoopReturn, LoopStepElse
<1>3. CASE \E w \in Workers : WorkerNext(w)
  BY <1>3, WorkerPopsKeepsIInv, WorkerElseKeepsIInv DEF WorkerNext, WorkerStepElse
<1>4. CASE UNCHANGED vars
  <2>1. Local' /\ Shared'
    BY <1>4 DEF IInv, Local, TypeOK, LoopHoldsTask, WorkersHoldTasks, LiveIsCounted, Live,
                Shared, GuardHeld, NoThreadsYet, vars, taskVars, queueVars, loopVars, workerVars
  <2>2. Passed' = Passed /\ Unposted' = Unposted /\ UNCHANGED <<queue, sem>>
    BY <1>4 DEF Passed, Unposted, vars, queueVars, loopVars, workerVars
  <2> QED BY <2>1, <2>2, CountKept DEF IInv
<1> QED BY <1>1, <1>2, <1>3, <1>4 DEF Next

LEMMA SpecIInv == Spec => []IInv
  BY InitIInv, NextKeepsIInv, PTL DEF Spec

-----------------------------------------------------------------------------
(* What follows from it.                                                    *)

\* Every variable keeps its type: the semaphore never goes below zero, nor
\* does a counter, although its decrements are not atomic.
THEOREM TypeCorrect == Spec => []TypeOK
<1>1. IInv => TypeOK
  BY DEF IInv, Local
<1> QED BY <1>1, SpecIInv, PTL

\* blocking_worker_run() may dereference blocking_head without a test, for any
\* number of workers and tasks.
THEOREM PopNeverFails == Spec => []PopFindsTask
<1>1. IInv => PopFindsTask
  <2> SUFFICES ASSUME IInv, NEW w \in Workers, At(w, "lock") PROVE queue # << >>
    BY DEF PopFindsTask
  <2>1. w \in Passed
    BY DEF At, Passed
  <2> QED BY <2>1, PassedFindsTask
<1> QED BY <1>1, SpecIInv, PTL

-----------------------------------------------------------------------------
(* Who has which task.                                                      *)

LEMMA InitOwnInv == Init => OwnInv
<1> SUFFICES ASSUME Init PROVE OwnInv
  OBVIOUS
<1>1. queue = << >> /\ Len(queue) = 0
  BY DEF Init
<1>2. \A w \in Workers : wtask[w] = Null /\ wpc[w] = "none"
  BY DEF Init
<1> QED BY <1>1, <1>2 DEF OwnInv, LinkedOnce, LinkedExists, TakenExists, TakenNotLinked,
                         UnlinksHead, TakenOnce

\* The steps after which the same tasks are linked and taken as before.
SameOwners ==
  /\ UNCHANGED <<queue, wtask>>
  /\ \A t \in Tasks : mem[t] # "none" => mem'[t] # "none"
  /\ \A w \in Workers : wpc[w] = "unlink" <=> wpc'[w] = "unlink"

LEMMA OwnKept ==
  ASSUME TypeOK, OwnInv, SameOwners
  PROVE  OwnInv'
<1>1. LinkedOnce' /\ TakenOnce'
  BY DEF SameOwners, OwnInv, LinkedOnce, TakenOnce
<1>2. LinkedExists'
  <2>1. \A i \in 1..Len(queue) : queue[i] \in Tasks
    BY DEF TypeOK
  <2> QED BY <2>1 DEF SameOwners, OwnInv, LinkedExists
<1>3. TakenExists'
  BY DEF SameOwners, OwnInv, TakenExists, TypeOK
<1>4. TakenNotLinked' /\ UnlinksHead'
  BY DEF SameOwners, OwnInv, TakenNotLinked, UnlinksHead
<1> QED BY <1>1, <1>2, <1>3, <1>4 DEF OwnInv

LEMMA OtherLoopStepsKeepOwners ==
  ASSUME IInv, LoopStepElse \/ SpawnPost \/ SpawnUnlock
  PROVE  SameOwners
<1> USE DEF IInv, Local, TypeOK, SameOwners
<1>1. CASE \E t \in Tasks : AbortLoad(t) \/ JoinLoad(t) \/ DropLoad(t) \/ CloneLoad(t)
  BY <1>1 DEF AbortLoad, JoinLoad, DropLoad, CloneLoad, taskVars, queueVars, workerVars
<1>2. CASE AbortStore \/ JoinPush \/ CloneStore
  BY <1>2 DEF AbortStore, JoinPush, CloneStore, queueVars, workerVars
<1>3. CASE DropStore
  BY <1>3 DEF DropStore, queueVars, workerVars
<1>4. CASE SpawnPost
  BY <1>4 DEF SpawnPost, taskVars, workerVars
<1>5. CASE SpawnUnlock
  BY <1>5 DEF SpawnUnlock, CreatesThreads, Shared, NoThreadsYet, taskVars
<1> QED BY <1>1, <1>2, <1>3, <1>4, <1>5 DEF LoopStepElse

LEMMA OtherWorkerStepsKeepOwners ==
  ASSUME IInv, NEW w \in Workers,
         \/ SemWait(w) \/ Check(w) \/ RunHandler(w) \/ ReadTop(w)
         \/ WakeNode(w) \/ WakeEnd(w) \/ WorkerDropLoad(w)
  PROVE  SameOwners
BY DEF IInv, Local, TypeOK, SameOwners, SemWait, Check, RunHandler, ReadTop, WakeNode,
       WakeEnd, WorkerDropLoad, At, Goto, taskVars, queueVars

LEMMA SpawnLinkKeepsOwnInv ==
  ASSUME IInv, OwnInv, NEW t \in Tasks, SpawnLink(t)
  PROVE  OwnInv'
<1> USE PoolAssumption DEF SpawnLink, workerVars
<1>1. /\ queue \in Seq(Tasks) /\ queue' = Append(queue, t) /\ Len(queue) \in Nat
      /\ mem \in [Tasks -> {"none", "live", "freed"}]
      /\ UNCHANGED <<wpc, wtask>>
  BY DEF IInv, Local, TypeOK
<1>2. /\ Len(queue') = Len(queue) + 1 /\ queue'[Len(queue) + 1] = t
      /\ \A i \in 1..Len(queue) : queue'[i] = queue[i] /\ queue[i] \in Tasks
  BY <1>1
<1>3. (\A i \in 1..Len(queue) : queue[i] # t) /\ (\A w \in Workers : wtask[w] # t)
  BY <1>1 DEF OwnInv, LinkedExists, TakenExists
<1>4. \A w \in Workers : wpc[w] # "unlink"
  BY DEF IInv, Shared, GuardHeld
<1>5. \A i \in 1..Len(queue') : i \in 1..Len(queue) \/ (i = Len(queue) + 1 /\ queue'[i] = t)
  BY <1>1, <1>2
<1>6. LinkedOnce'
  BY <1>1, <1>2, <1>3, <1>5 DEF OwnInv, LinkedOnce
<1>7. LinkedExists'
  BY <1>1, <1>2, <1>5 DEF OwnInv, LinkedExists
<1>8. TakenExists' /\ TakenOnce'
  BY <1>1, <1>3 DEF OwnInv, TakenExists, TakenOnce, IInv, Local, TypeOK
<1>9. TakenNotLinked' /\ UnlinksHead'
  BY <1>1, <1>2, <1>3, <1>4, <1>5 DEF OwnInv, TakenNotLinked, UnlinksHead
<1> QED BY <1>6, <1>7, <1>8, <1>9 DEF OwnInv

LEMMA PopHeadKeepsOwnInv ==
  ASSUME IInv, OwnInv, NEW w \in Workers, PopHead(w)
  PROVE  OwnInv'
<1> USE PoolAssumption
<1>1. /\ queue \in Seq(Tasks) /\ queue # << >> /\ queue' = queue /\ mem' = mem
      /\ wtask' = [wtask EXCEPT ![w] = queue[1]] /\ wpc' = [wpc EXCEPT ![w] = "unlink"]
      /\ wtask \in [Workers -> Tasks \cup {Null}] /\ wpc \in [Workers -> WorkerStep]
  <2>1. queue \in Seq(Tasks) /\ queue # << >> /\ wtask' = [wtask EXCEPT ![w] = Head(queue)]
    BY DEF PopHead, IInv, Local, TypeOK
  <2>2. Head(queue) = queue[1]
    BY <2>1
  <2> QED BY <2>1, <2>2 DEF PopHead, Goto, IInv, Local, TypeOK, taskVars
<1>2. 1 \in 1..Len(queue) /\ queue[1] \in Tasks
  BY <1>1
<1>3. \A v \in Workers : wpc[v] # "unlink"
  BY DEF PopHead, CanLock, IInv, Shared, GuardHeld
<1>4. \A v \in Workers : \A i \in 1..Len(queue) : wtask[v] # queue[i]
  BY <1>3 DEF OwnInv, TakenNotLinked
<1>5. LinkedOnce' /\ LinkedExists' /\ TakenExists'
  BY <1>1, <1>2 DEF OwnInv, LinkedOnce, LinkedExists, TakenExists
<1>6. TakenNotLinked' /\ UnlinksHead'
  BY <1>1, <1>2, <1>3, <1>4 DEF OwnInv, LinkedOnce, TakenNotLinked, UnlinksHead
<1>7. TakenOnce'
  BY <1>1, <1>2, <1>4 DEF OwnInv, TakenOnce
<1> QED BY <1>5, <1>6, <1>7 DEF OwnInv

LEMMA UnlinkKeepsOwnInv ==
  ASSUME IInv, OwnInv, NEW w \in Workers, Unlink(w)
  PROVE  OwnInv'
<1>1. /\ queue \in Seq(Tasks) /\ queue # << >> /\ queue' = Tail(queue)
      /\ mem' = mem /\ wtask' = wtask /\ wpc' = [wpc EXCEPT ![w] = "check"]
      /\ wpc \in [Workers -> WorkerStep]
  <2>1. w \in Passed
    BY DEF Unlink, At, Passed
  <2> QED BY <2>1, PassedFindsTask DEF Unlink, Goto, IInv, Local, TypeOK, taskVars
<1>2. /\ Len(queue) \in Nat /\ Len(queue') = Len(queue) - 1
      /\ \A i \in 1..Len(queue') : i + 1 \in 1..Len(queue) /\ queue'[i] = queue[i + 1]
  BY <1>1
<1>3. \A v \in Workers \ {w} : wpc[v] # "unlink"
  BY DEF Unlink, At, IInv, Shared, GuardHeld
<1>4. LinkedOnce' /\ LinkedExists'
  BY <1>1, <1>2 DEF OwnInv, LinkedOnce, LinkedExists
<1>5. TakenExists' /\ TakenOnce'
  BY <1>1 DEF OwnInv, TakenExists, TakenOnce
<1>6. TakenNotLinked'
  <2>1. \A v \in Workers : \A i \in 1..Len(queue') : wtask[v] # queue'[i]
    BY <1>2 DEF OwnInv, TakenNotLinked
  <2> QED BY <1>1, <2>1 DEF TakenNotLinked
<1>7. UnlinksHead'
  BY <1>1, <1>3 DEF UnlinksHead
<1> QED BY <1>4, <1>5, <1>6, <1>7 DEF OwnInv

LEMMA WorkerDropStoreKeepsOwnInv ==
  ASSUME IInv, OwnInv, NEW w \in Workers, WorkerDropStore(w)
  PROVE  OwnInv'
<1> USE PoolAssumption
<1>1. /\ queue \in Seq(Tasks) /\ queue' = queue /\ wpc[w] = "dropped"
      /\ wtask' = [wtask EXCEPT ![w] = Null] /\ wpc' = [wpc EXCEPT ![w] = "sem"]
      /\ wtask \in [Workers -> Tasks \cup {Null}] /\ wpc \in [Workers -> WorkerStep]
      /\ \A t \in Tasks : mem[t] # "none" => mem'[t] # "none"
  BY DEF WorkerDropStore, At, Goto, IInv, Local, TypeOK, queueVars
<1>2. \A i \in 1..Len(queue) : queue[i] \in Tasks
  BY <1>1
<1>3. LinkedOnce' /\ LinkedExists'
  BY <1>1, <1>2 DEF OwnInv, LinkedOnce, LinkedExists
<1>4. TakenExists' /\ TakenOnce'
  BY <1>1 DEF OwnInv, TakenExists, TakenOnce
<1>5. TakenNotLinked' /\ UnlinksHead'
  BY <1>1, <1>2 DEF OwnInv, TakenNotLinked, UnlinksHead
<1> QED BY <1>3, <1>4, <1>5 DEF OwnInv

LEMMA NextKeepsOwnInv == IInv /\ OwnInv /\ [Next]_vars => OwnInv'
<1> SUFFICES ASSUME IInv, OwnInv, [Next]_vars PROVE OwnInv'
  OBVIOUS
<1>0. TypeOK
  BY DEF IInv, Local
<1>1. CASE (\E t \in Tasks : LoopCall(t)) \/ LoopReturn
  BY <1>0, <1>1, SpawnLinkKeepsOwnInv, OtherLoopStepsKeepOwners, OwnKept
     DEF LoopCall, LoopReturn, LoopStepElse
<1>2. CASE \E w \in Workers : WorkerNext(w)
  BY <1>0, <1>2, PopHeadKeepsOwnInv, UnlinkKeepsOwnInv, WorkerDropStoreKeepsOwnInv,
     OtherWorkerStepsKeepOwners, OwnKept DEF WorkerNext
<1>3. CASE UNCHANGED vars
  <2>1. SameOwners
    BY <1>3 DEF SameOwners, vars, taskVars, queueVars, workerVars
  <2> QED BY <1>0, <2>1, OwnKept
<1> QED BY <1>1, <1>2, <1>3 DEF Next

LEMMA OwnInvMeansOneOwner == TypeOK /\ OwnInv => OneOwner
<1> SUFFICES ASSUME TypeOK, OwnInv, NEW t \in Tasks
             PROVE  Cardinality({i \in 1..Len(queue) : queue[i] = t})
                      + Cardinality(Taken(t)) <= 1
  BY DEF OneOwner
<1> DEFINE Linked == {i \in 1..Len(queue) : queue[i] = t}
<1>1. CASE \E i \in 1..Len(queue) : queue[i] = t
  <2> PICK i \in 1..Len(queue) : queue[i] = t
    BY <1>1
  <2>1. Linked = {i}
    BY DEF OwnInv, LinkedOnce
  <2>2. Taken(t) = {}
    BY DEF OwnInv, TakenNotLinked, Taken, At
  <2>3. Cardinality(Linked) = 1 /\ Cardinality(Taken(t)) = 0
    BY <2>1, <2>2, FS_Singleton, FS_EmptySet
  <2> QED BY <2>3
<1>2. CASE \A i \in 1..Len(queue) : queue[i] # t
  <2>1. Linked = {}
    BY <1>2
  <2>2. Cardinality(Linked) = 0
    BY <2>1, FS_EmptySet
  <2>3. CASE Taken(t) = {}
    <3>1. Cardinality(Taken(t)) = 0
      BY <2>3, FS_EmptySet
    <3> QED BY <2>2, <3>1
  <2>4. CASE Taken(t) # {}
    <3> PICK w \in Workers : wtask[w] = t /\ w \in Taken(t)
      BY <2>4 DEF Taken
    <3>1. Taken(t) = {w}
      BY PoolAssumption DEF OwnInv, TakenOnce, Taken
    <3>2. Cardinality(Taken(t)) = 1
      BY <3>1, FS_Singleton
    <3> QED BY <2>2, <3>2
  <2> QED BY <2>3, <2>4
<1> QED BY <1>1, <1>2

\* No blocking task is handed to two workers, nor linked again while a worker
\* has it: no handler runs twice.
THEOREM HandedOutOnce == Spec => []OneOwner
<1>1. Spec => []OwnInv
  BY SpecIInv, InitOwnInv, NextKeepsOwnInv, PTL DEF Spec
<1>2. IInv => TypeOK
  BY DEF IInv, Local
<1> QED BY <1>1, <1>2, SpecIInv, OwnInvMeansOneOwner, PTL

-----------------------------------------------------------------------------
(* References of the tasks that nobody clones.                              *)

\* The runtime's reference: the queue has it, then the worker.
Owed(t) == (\E i \in 1..Len(queue) : queue[i] = t) \/ \E w \in Workers : wtask[w] = t

\* One handle and the runtime's reference are in the counter, and in what one
\* side has loaded of it while the other has not let go.
RefInv ==
  /\ lpc = "cloned" => ltask \in Cloned
  /\ \A t \in Tasks \ Cloned :
       /\ handles[t] <= 1
       /\ handles[t] > 0 \/ Owed(t) => Live(t)
       /\ handles[t] > 0 /\ Owed(t) => counter[t] >= 2
       /\ lpc = "dropped" /\ ltask = t /\ Owed(t) => lval >= 2
       /\ \A w \in Workers :
            wpc[w] = "dropped" /\ wtask[w] = t /\ handles[t] > 0 => wval[w] >= 2

LEMMA InitRefInv == Init => RefInv
  BY PoolAssumption DEF Init, RefInv, Owed

\* Steps after which the same counts and handles are there, and no side has
\* loaded anything new.
LEMMA RefKept ==
  ASSUME RefInv, UNCHANGED <<mem, counter, handles, lval>>,
         \A t \in Tasks : Owed(t)' => Owed(t),
         lpc' = "dropped" => lpc = "dropped" /\ ltask' = ltask, lpc' # "cloned",
         \A w \in Workers :
           wpc'[w] = "dropped" => wpc[w] = "dropped" /\ wtask'[w] = wtask[w] /\ wval'[w] = wval[w]
  PROVE  RefInv'
BY DEF RefInv, Live

LEMMA LoopKeepsRefInv ==
  ASSUME IInv, OwnInv, RefInv, (\E t \in Tasks : LoopCall(t)) \/ LoopReturn
  PROVE  RefInv'
<1>0. TypeOK /\ LoopHoldsTask /\ LiveIsCounted
  BY DEF IInv, Local
<1>1. ASSUME NEW t \in Tasks, SpawnLink(t) PROVE RefInv'
  <2>1. /\ queue' = Append(queue, t) /\ mem[t] = "none" /\ UNCHANGED workerVars
        /\ mem' = [mem EXCEPT ![t] = "live"] /\ counter' = [counter EXCEPT ![t] = 2]
        /\ handles' = [handles EXCEPT ![t] = 1] /\ lpc' = "post"
    BY <1>1 DEF SpawnLink
  <2>2. Len(queue) \in Nat /\ Len(queue') = Len(queue) + 1
        /\ \A i \in 1..Len(queue) : queue'[i] = queue[i]
        /\ queue'[Len(queue) + 1] = t
    <3>1. queue \in Seq(Tasks)
      BY <1>0 DEF TypeOK
    <3> QED
      BY <2>1, <3>1
  <2>3. \A u \in Tasks : Owed(u)' => Owed(u) \/ u = t
    BY <2>1, <2>2 DEF Owed, workerVars
  <2>4. \A w \in Workers : wtask[w] # t
    BY <2>1, PoolAssumption DEF OwnInv, TakenExists
  <2>5. /\ \A u \in Tasks : u # t => /\ handles'[u] = handles[u] /\ mem'[u] = mem[u]
                                     /\ counter'[u] = counter[u]
        /\ handles'[t] = 1 /\ mem'[t] = "live" /\ counter'[t] = 2
    BY <1>0, <2>1 DEF TypeOK
  <2> QED BY <2>1, <2>3, <2>4, <2>5 DEF RefInv, Live, workerVars
<1>2. ASSUME NEW t \in Tasks, DropLoad(t) PROVE RefInv'
  <2>1. \A u \in Tasks : Owed(u)' => Owed(u)
    BY <1>2 DEF DropLoad, Owed, queueVars, workerVars
  <2> QED BY <1>0, <1>2, <2>1 DEF DropLoad, RefInv, Live, TypeOK, taskVars, workerVars
<1>3. CASE DropStore
  <2>0. lpc = "dropped" /\ ltask \in Tasks /\ lval > 0 /\ handles[ltask] > 0
    BY <1>0, <1>3 DEF DropStore, LoopHoldsTask
  <2>1. /\ lpc = "dropped" /\ ltask \in Tasks /\ lval > 0 /\ handles[ltask] > 0
        /\ ltask \notin Cloned => handles[ltask] = 1
        /\ counter' = [counter EXCEPT ![ltask] = lval - 1]
        /\ handles' = [handles EXCEPT ![ltask] = handles[ltask] - 1]
        /\ mem' = IF lval = 1 THEN [mem EXCEPT ![ltask] = "freed"] ELSE mem
        /\ lpc' = "idle" /\ UNCHANGED <<queueVars, workerVars>>
    BY <1>0, <2>0, <1>3 DEF DropStore, IsLastRef, LoopDone, RefInv, TypeOK
  <2>2. \A u \in Tasks : Owed(u)' => Owed(u)
    BY <2>1 DEF Owed, queueVars, workerVars
  <2> QED BY <1>0, <2>1, <2>2 DEF RefInv, Live, TypeOK, workerVars
<1>4. ASSUME NEW t \in Tasks, AbortLoad(t) \/ JoinLoad(t) PROVE RefInv'
  <2>1. \A u \in Tasks : Owed(u)' => Owed(u)
    BY <1>4 DEF AbortLoad, JoinLoad, Owed, queueVars, workerVars
  <2> QED BY <1>4, <2>1, RefKept DEF AbortLoad, JoinLoad, taskVars, workerVars
<1>5. CASE SpawnPost \/ SpawnUnlock \/ AbortStore \/ JoinPush
  <2>1. \A u \in Tasks : Owed(u)' => Owed(u)
    BY <1>5 DEF SpawnPost, SpawnUnlock, AbortStore, JoinPush, Owed, queueVars, workerVars
  <2>2. /\ UNCHANGED <<mem, counter, handles, wtask, wval>>
        /\ lpc' \notin {"dropped", "cloned"} /\ lpc # "dropped"
    BY <1>5 DEF SpawnPost, SpawnUnlock, AbortStore, JoinPush, LoopDone, taskVars, workerVars
  <2>3. \A w \in Workers : wpc'[w] = "dropped" => wpc[w] = "dropped"
    BY <1>0, <1>5 DEF SpawnPost, SpawnUnlock, AbortStore, JoinPush, workerVars, TypeOK
  <2> QED BY <2>1, <2>2, <2>3 DEF RefInv, Live
<1>6. CASE CloneStore \/ \E t \in Tasks : CloneLoad(t)
  <2>1. \A u \in Tasks : Owed(u)' => Owed(u)
    BY <1>6 DEF CloneLoad, CloneStore, Owed, queueVars, workerVars
  <2> QED
    BY <1>0, <1>6, <2>1 DEF CloneLoad, CloneStore, LoopDone, RefInv, Live, LoopHoldsTask, TypeOK, taskVars, workerVars
<1> QED BY <1>0, <1>1, <1>2, <1>3, <1>4, <1>5, <1>6 DEF LoopCall, LoopReturn

LEMMA WorkerKeepsRefInv ==
  ASSUME IInv, OwnInv, RefInv, NEW w \in Workers, WorkerNext(w)
  PROVE  RefInv'
<1>0. TypeOK /\ WorkersHoldTasks /\ UNCHANGED <<handles, loopVars>>
  BY DEF IInv, Local, WorkerNext, SemWait, PopHead, Unlink, Check, RunHandler, ReadTop,
     WakeNode, WakeEnd, WorkerDropLoad, WorkerDropStore, taskVars
<1>1. CASE PopHead(w)
  <2>1. /\ queue' = queue /\ wtask' = [wtask EXCEPT ![w] = queue[1]]
        /\ queue # << >> /\ 1 \in 1..Len(queue)
        /\ UNCHANGED <<mem, counter, wval>> /\ wpc' = [wpc EXCEPT ![w] = "unlink"]
    BY <1>0, <1>1 DEF PopHead, Goto, taskVars, TypeOK
  <2>2. \A t \in Tasks : Owed(t)' => Owed(t)
    BY <1>0, <2>1 DEF Owed, TypeOK
  <2> QED BY <1>0, <2>1, <2>2 DEF RefInv, Live, TypeOK, loopVars
<1>2. CASE Unlink(w)
  <2>1. /\ queue # << >> /\ wtask[w] = queue[1] /\ queue' = Tail(queue)
        /\ queue \in Seq(Tasks)
        /\ UNCHANGED <<mem, counter, wtask, wval>> /\ wpc' = [wpc EXCEPT ![w] = "check"]
    BY <1>0, <1>2 DEF Unlink, Goto, At, OwnInv, UnlinksHead, taskVars, TypeOK
  <2>2. /\ Len(queue) \in Nat /\ Len(queue') = Len(queue) - 1
        /\ \A i \in 1..Len(queue') : i + 1 \in 1..Len(queue) /\ queue'[i] = queue[i + 1]
    BY <2>1
  <2>3. \A t \in Tasks : Owed(t)' => Owed(t)
    BY <2>1, <2>2 DEF Owed
  <2> QED BY <1>0, <2>1, <2>3 DEF RefInv, Live, TypeOK, loopVars
<1>3. CASE WorkerDropLoad(w)
  <2>1. \A t \in Tasks : Owed(t)' => Owed(t)
    BY <1>3 DEF WorkerDropLoad, Owed, queueVars
  <2>2. Owed(wtask[w])
    BY DEF Owed
  <2> QED BY <1>0, <1>3, <2>1, <2>2
          DEF WorkerDropLoad, At, Goto, RefInv, Live, TypeOK, taskVars, loopVars
<1>4. CASE WorkerDropStore(w)
  <2>0. wpc[w] = "dropped" /\ wtask[w] \in Tasks
    BY <1>0, <1>4 DEF WorkerDropStore, At, WorkersHoldTasks
  <2> PICK t \in Tasks : t = wtask[w]
    BY <2>0
  <2>1. /\ wpc[w] = "dropped" /\ t = wtask[w] /\ wval[w] > 0
        /\ counter' = [counter EXCEPT ![t] = wval[w] - 1]
        /\ mem' = IF wval[w] = 1 THEN [mem EXCEPT ![t] = "freed"] ELSE mem
        /\ wtask' = [wtask EXCEPT ![w] = Null] /\ wval' = [wval EXCEPT ![w] = 0]
        /\ wpc' = [wpc EXCEPT ![w] = "sem"] /\ queue' = queue
    BY <1>0, <1>4
       DEF WorkerDropStore, At, Goto, IsLastRef, WorkersHoldTasks, queueVars
  <2>2. \A u \in Tasks : Owed(u)' => Owed(u) /\ u # t
    <3>1. \A v \in Workers : wtask'[v] # t
      BY <1>0, <2>1, PoolAssumption DEF OwnInv, TakenOnce, TypeOK
    <3>2. \A i \in 1..Len(queue) : queue[i] # t
      BY <2>1 DEF OwnInv, TakenNotLinked
    <3>3. \A v \in Workers, u \in Tasks : wtask'[v] = u => wtask[v] = u
      BY <1>0, <2>1, PoolAssumption DEF TypeOK
    <3> QED BY <2>1, <3>1, <3>2, <3>3 DEF Owed
  <2>3. /\ \A u \in Tasks : u # t => mem'[u] = mem[u] /\ counter'[u] = counter[u]
        /\ counter'[t] = wval[w] - 1 /\ handles' = handles
        /\ wval[w] # 1 => mem'[t] = mem[t]
    BY <1>0, <2>1 DEF TypeOK
  <2>4. /\ \A v \in Workers : wpc'[v] = "dropped" =>
             v # w /\ wpc[v] = "dropped" /\ wtask'[v] = wtask[v] /\ wval'[v] = wval[v]
        /\ UNCHANGED <<lpc, ltask, lval>>
    BY <1>0, <2>1 DEF TypeOK, loopVars
  <2>5. t \notin Cloned /\ handles[t] > 0 => wval[w] >= 2 /\ Live(t)
    BY <2>1 DEF RefInv
  <2>6. \A v \in Workers : wpc'[v] = "dropped" => wtask[v] # t
    BY <2>1, <2>4, PoolAssumption DEF OwnInv, TakenOnce
  <2>7. \A u \in (Tasks \ Cloned) \ {t} : handles'[u] > 0 \/ Owed(u)' => Live(u)'
    BY <2>2, <2>3 DEF RefInv, Live
  <2>8. t \notin Cloned /\ (handles'[t] > 0 \/ Owed(t)') => Live(t)'
    BY <1>0, <2>1, <2>2, <2>3, <2>5 DEF Live, TypeOK
  <2>9. \A u \in Tasks \ Cloned : handles'[u] > 0 /\ Owed(u)' => counter'[u] >= 2
    BY <2>2, <2>3 DEF RefInv
  <2>10. \A u \in Tasks \ Cloned : \A v \in Workers :
           wpc'[v] = "dropped" /\ wtask'[v] = u /\ handles'[u] > 0 => wval'[v] >= 2
    BY <2>3, <2>4 DEF RefInv
  <2> QED BY <2>2, <2>3, <2>4, <2>7, <2>8, <2>9, <2>10 DEF RefInv
<1>5. CASE SemWait(w) \/ Check(w) \/ RunHandler(w) \/ ReadTop(w) \/ WakeNode(w) \/ WakeEnd(w)
  <2>1. UNCHANGED <<mem, counter, queue, wtask, wval>>
    BY <1>5 DEF SemWait, Check, RunHandler, ReadTop, WakeNode, WakeEnd, taskVars, queueVars
  <2>2. \A v \in Workers : wpc'[v] = "dropped" => wpc[v] = "dropped"
    BY <1>0, <1>5 DEF SemWait, Check, RunHandler, ReadTop, WakeNode, WakeEnd, Goto, TypeOK
  <2>3. \A u \in Tasks : Owed(u)' => Owed(u)
    BY <2>1 DEF Owed
  <2> QED BY <1>0, <2>1, <2>2, <2>3 DEF RefInv, Live, loopVars
<1> QED BY <1>1, <1>2, <1>3, <1>4, <1>5 DEF WorkerNext

LEMMA NextKeepsRefInv == IInv /\ OwnInv /\ RefInv /\ [Next]_vars => RefInv'
<1>1. RefInv /\ UNCHANGED vars => RefInv'
  BY DEF RefInv, Owed, Live, vars, taskVars, queueVars, loopVars, workerVars
<1> QED BY <1>1, LoopKeepsRefInv, WorkerKeepsRefInv DEF Next

\* The two references of a blocking task that nobody clones, dropped by the loop
\* thread and by its worker without a lock (task_drop()), keep it until both are
\* gone.
THEOREM NotFreedEarly == Spec => []NoEarlyFree
<1>1. TypeOK /\ RefInv => NoEarlyFree
  BY DEF TypeOK, RefInv, Owed, NoEarlyFree
<1>2. IInv => TypeOK
  BY DEF IInv, Local
<1>3. Spec => []OwnInv
  BY SpecIInv, InitOwnInv, NextKeepsOwnInv, PTL DEF Spec
<1> QED BY <1>1, <1>2, <1>3, SpecIInv, InitRefInv, NextKeepsRefInv, PTL DEF Spec
=============================================================================
