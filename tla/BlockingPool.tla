---------------------------- MODULE BlockingPool ----------------------------
(***************************************************************************)
(* The blocking tasks of src/platform/linux/runtime.c: the thread of the   *)
(* event loop spawns, aborts, joins and drops them while the threads that  *)
(* run blocking_worker_run() take them off one queue.  The queue and the   *)
(* semaphore are touched under blocking_guard; the status, the counter and *)
(* the wake nodes of a task are plain fields that both sides access        *)
(* without it, so every load and every store of them is a step of its own. *)
(*                                                                         *)
(* What a joiner does when it is woken is left to Runtime: here a join is  *)
(* counted when it suspends its caller and when the caller is woken.       *)
(* A definition marked (slip) is the mistake that shows that a property    *)
(* can fail (PROJECT.json, "mutants"), no part of the model.               *)
(***************************************************************************)
EXTENDS Naturals, Sequences, FiniteSets

CONSTANTS
  Tasks,      \* blocking task objects, each allocated at most once
  Workers,    \* threads in blocking_worker_run(); BLOCKING_WORKER_SIZE of them
  Null,       \* no task; no holder of blocking_guard
  Loop,       \* blocking_guard is held by the thread of the event loop
  Cloned,     \* tasks whose handles are cloned
  MaxHandles, \* bound: handles held on one of those
  MaxJoins    \* bound: joins of one task

ASSUME PoolAssumption ==
  /\ Null \notin Workers \cup Tasks /\ Loop \notin Workers /\ Null # Loop
  /\ IsFiniteSet(Workers)
  /\ Cloned \subseteq Tasks /\ {MaxHandles, MaxJoins} \subseteq Nat

VARIABLES
  mem,          \* task memory: "none", "live" or "freed"
  counter,      \* task->base.counter
  handles,      \* user handles that point to the task
  status,       \* task->base.status, once the task is linked
  nodes,        \* number of wake nodes from wake_on_ready_top on
  joins, woken, \* joins that suspended their caller; callers woken again
  queue,        \* tasks from blocking_head to blocking_tail
  sem,          \* value of blocking_sem
  guard,        \* holder of blocking_guard
  initialized,  \* blocking_initialized
  lpc, ltask, lval,       \* the loop thread: its step, task and loaded counter
  wpc, wtask, wval, wtop  \* each worker: ditto, and nodes it has still to wake

taskVars == <<mem, counter, handles, status, nodes, joins, woken>>
queueVars == <<queue, sem, guard, initialized>>
loopVars == <<lpc, ltask, lval>>
workerVars == <<wpc, wtask, wval, wtop>>
vars == <<taskVars, queueVars, loopVars, workerVars>>

LoopStep == {"idle", "post", "unlock", "abort", "push", "drop", "dropped", "cloned"}
WorkerStep == {"none", "sem", "lock", "unlink", "check", "run", "top", "wake",
               "drop", "dropped"}

TypeOK ==
  /\ mem \in [Tasks -> {"none", "live", "freed"}]
  /\ counter \in [Tasks -> Nat]
  /\ handles \in [Tasks -> Nat]
  /\ status \in [Tasks -> {"suspended", "aborted", "finished"}]
  /\ nodes \in [Tasks -> Nat] /\ joins \in [Tasks -> Nat] /\ woken \in [Tasks -> Nat]
  /\ queue \in Seq(Tasks)
  /\ sem \in Nat
  /\ guard \in Workers \cup {Null, Loop}
  /\ initialized \in BOOLEAN
  /\ lpc \in LoopStep /\ ltask \in Tasks \cup {Null} /\ lval \in Nat
  /\ wpc \in [Workers -> WorkerStep]
  /\ wtask \in [Workers -> Tasks \cup {Null}]
  /\ wval \in [Workers -> Nat]
  /\ wtop \in [Workers -> Nat]

Live(t) == mem[t] = "live"

-----------------------------------------------------------------------------
(* The thread of the event loop.                                            *)

LoopDone == lpc' = "idle" /\ ltask' = Null /\ lval' = 0

\* taskio_runtime_spawn_blocking(): allocate, lock, link.
SpawnLink(t) ==
  /\ lpc = "idle" /\ mem[t] = "none" /\ guard = Null
  /\ mem' = [mem EXCEPT ![t] = "live"]
  /\ counter' = [counter EXCEPT ![t] = 2]
  /\ handles' = [handles EXCEPT ![t] = 1]
  /\ guard' = Loop
  /\ queue' = Append(queue, t)
  /\ lpc' = "post" /\ ltask' = t
  /\ UNCHANGED <<status, nodes, joins, woken, sem, initialized, lval, workerVars>>

SpawnPost ==
  /\ lpc = "post"
  /\ sem' = sem + 1
  /\ lpc' = "unlock"
  /\ UNCHANGED <<taskVars, queue, guard, initialized, ltask, lval, workerVars>>

\* (slip) no thread is ever created
CreatesNoThread == FALSE
\* The first spawn creates the threads.
CreatesThreads == ~initialized

\* Unlock; creating the threads after it cannot be told from creating them
\* with it, for until then no other thread exists.
SpawnUnlock ==
  /\ lpc = "unlock"
  /\ guard' = Null
  /\ wpc' = IF CreatesThreads THEN [w \in Workers |-> "sem"] ELSE wpc
  /\ initialized' = TRUE
  /\ LoopDone
  /\ UNCHANGED <<taskVars, queue, sem, wtask, wval, wtop>>

\* taskio_handle_abort() of a blocking task: the load of the status, then the
\* store.  In any other status it does nothing.
AbortLoad(t) ==
  /\ lpc = "idle" /\ handles[t] > 0 /\ Live(t)
  /\ status[t] = "suspended"
  /\ lpc' = "abort" /\ ltask' = t
  /\ UNCHANGED <<taskVars, queueVars, lval, workerVars>>

AbortStore ==
  /\ lpc = "abort" /\ Live(ltask)
  /\ status' = [status EXCEPT ![ltask] = "aborted"]
  /\ LoopDone
  /\ UNCHANGED <<mem, counter, handles, nodes, joins, woken, queueVars, workerVars>>

\* await_get_handle(): taskio_handle_join(), then taskio_handle_drop().  The
\* status decides whether the caller is woken at once; only a finished task
\* gets no wake node.
JoinLoad(t) ==
  /\ lpc = "idle" /\ handles[t] > 0 /\ Live(t) /\ joins[t] < MaxJoins
  /\ joins' = [joins EXCEPT ![t] = @ + 1]
  /\ woken' = IF status[t] = "suspended" THEN woken ELSE [woken EXCEPT ![t] = @ + 1]
  /\ lpc' = IF status[t] = "finished" THEN "drop" ELSE "push"
  /\ ltask' = t
  /\ UNCHANGED <<mem, counter, handles, status, nodes, queueVars, lval, workerVars>>

JoinPush ==
  /\ lpc = "push" /\ Live(ltask)
  /\ nodes' = [nodes EXCEPT ![ltask] = @ + 1]
  /\ lpc' = "drop"
  /\ UNCHANGED <<mem, counter, handles, status, joins, woken, queueVars,
                 ltask, lval, workerVars>>

\* task_drop() from taskio_handle_drop(): counter-- is a load and a store.
DropLoad(t) ==
  /\ handles[t] > 0 /\ Live(t)
  /\ lpc = "idle" \/ (lpc = "drop" /\ ltask = t)
  /\ lval' = counter[t]
  /\ lpc' = "dropped" /\ ltask' = t
  /\ UNCHANGED <<taskVars, queueVars, workerVars>>

\* (slip) off by one
IsLastRefEarly(n) == n = 2
\* task_drop() frees the task when the counter it loaded was this one.
IsLastRef(n) == n = 1

DropStore ==
  /\ lpc = "dropped" /\ Live(ltask)
  /\ counter' = [counter EXCEPT ![ltask] = lval - 1]
  /\ mem' = IF IsLastRef(lval) THEN [mem EXCEPT ![ltask] = "freed"] ELSE mem
  /\ handles' = [handles EXCEPT ![ltask] = @ - 1]
  /\ LoopDone
  /\ UNCHANGED <<status, nodes, joins, woken, queueVars, workerVars>>

\* taskio_handle_clone(): counter += 1, likewise.
CloneLoad(t) ==
  /\ lpc = "idle" /\ t \in Cloned /\ handles[t] \in 1..(MaxHandles - 1) /\ Live(t)
  /\ lval' = counter[t]
  /\ lpc' = "cloned" /\ ltask' = t
  /\ UNCHANGED <<taskVars, queueVars, workerVars>>

CloneStore ==
  /\ lpc = "cloned" /\ Live(ltask)
  /\ counter' = [counter EXCEPT ![ltask] = lval + 1]
  /\ handles' = [handles EXCEPT ![ltask] = @ + 1]
  /\ LoopDone
  /\ UNCHANGED <<mem, status, nodes, joins, woken, queueVars, workerVars>>

-----------------------------------------------------------------------------
(* The threads of blocking_worker_run().                                    *)

At(w, here) == wpc[w] = here
Goto(w, there) == wpc' = [wpc EXCEPT ![w] = there]

\* (slip) two permits are taken
PermitOverdrawn == sem - 2
\* (slip) the permit is not taken
PermitKept == sem
\* blocking_sem once a sem_wait() has returned.
PermitTaken == sem - 1

SemWait(w) ==
  /\ At(w, "sem") /\ sem > 0
  /\ sem' = PermitTaken
  /\ Goto(w, "lock")
  /\ UNCHANGED <<taskVars, queue, guard, initialized, loopVars, wtask, wval, wtop>>

\* (slip) mtx_lock() is forgotten
NoLock == TRUE
\* mtx_lock(&blocking_guard) returns.
CanLock == guard = Null

\* Lock and read blocking_head, then its next pointer: there has to be a task.
PopHead(w) ==
  /\ At(w, "lock") /\ CanLock
  /\ queue # << >>
  /\ guard' = w
  /\ wtask' = [wtask EXCEPT ![w] = Head(queue)]
  /\ Goto(w, "unlink")
  /\ UNCHANGED <<taskVars, queue, sem, initialized, loopVars, wval, wtop>>

Unlink(w) ==
  /\ At(w, "unlink")
  /\ queue' = Tail(queue)
  /\ guard' = Null
  /\ Goto(w, "check")
  /\ UNCHANGED <<taskVars, sem, initialized, loopVars, wtask, wval, wtop>>

\* The handler runs unless the task has been aborted.
Check(w) ==
  /\ At(w, "check") /\ Live(wtask[w])
  /\ Goto(w, IF status[wtask[w]] = "aborted" THEN "drop" ELSE "run")
  /\ UNCHANGED <<taskVars, queueVars, loopVars, wtask, wval, wtop>>

\* The handler, client code, has returned.
RunHandler(w) ==
  /\ At(w, "run") /\ Live(wtask[w])
  /\ status' = [status EXCEPT ![wtask[w]] = "finished"]
  /\ Goto(w, "top")
  /\ UNCHANGED <<mem, counter, handles, nodes, joins, woken, queueVars, loopVars,
                 wtask, wval, wtop>>

\* (slip) the top node is left out
AllButTop(n) == IF n = 0 THEN 0 ELSE n - 1
\* How many of n nodes are woken.
AllNodes(n) == n

\* task_wake_wakers(): the list is walked from the top it has at this moment.
ReadTop(w) ==
  /\ At(w, "top") /\ Live(wtask[w])
  /\ wtop' = [wtop EXCEPT ![w] = AllNodes(nodes[wtask[w]])]
  /\ Goto(w, "wake")
  /\ UNCHANGED <<taskVars, queueVars, loopVars, wtask, wval>>

WakeNode(w) ==
  /\ At(w, "wake") /\ wtop[w] > 0
  /\ woken' = [woken EXCEPT ![wtask[w]] = @ + 1]
  /\ wtop' = [wtop EXCEPT ![w] = @ - 1]
  /\ UNCHANGED <<mem, counter, handles, status, nodes, joins, queueVars, loopVars,
                 wpc, wtask, wval>>

WakeEnd(w) ==
  /\ At(w, "wake") /\ wtop[w] = 0
  /\ Goto(w, "drop")
  /\ UNCHANGED <<taskVars, queueVars, loopVars, wtask, wval, wtop>>

\* task_drop() of the runtime's reference, again a load and a store.
WorkerDropLoad(w) ==
  /\ At(w, "drop") /\ Live(wtask[w])
  /\ wval' = [wval EXCEPT ![w] = counter[wtask[w]]]
  /\ Goto(w, "dropped")
  /\ UNCHANGED <<taskVars, queueVars, loopVars, wtask, wtop>>

WorkerDropStore(w) ==
  /\ At(w, "dropped") /\ Live(wtask[w])
  /\ counter' = [counter EXCEPT ![wtask[w]] = wval[w] - 1]
  /\ mem' = IF IsLastRef(wval[w]) THEN [mem EXCEPT ![wtask[w]] = "freed"] ELSE mem
  /\ wtask' = [wtask EXCEPT ![w] = Null]
  /\ wval' = [wval EXCEPT ![w] = 0]
  /\ Goto(w, "sem")
  /\ UNCHANGED <<handles, status, nodes, joins, woken, queueVars, loopVars, wtop>>

-----------------------------------------------------------------------------

Init ==
  /\ mem = [t \in Tasks |-> "none"]
  /\ counter = [t \in Tasks |-> 0] /\ handles = [t \in Tasks |-> 0]
  /\ status = [t \in Tasks |-> "suspended"]
  /\ nodes = [t \in Tasks |-> 0] /\ joins = [t \in Tasks |-> 0]
  /\ woken = [t \in Tasks |-> 0]
  /\ queue = << >> /\ sem = 0 /\ guard = Null /\ initialized = FALSE
  /\ lpc = "idle" /\ ltask = Null /\ lval = 0
  /\ wpc = [w \in Workers |-> "none"] /\ wtask = [w \in Workers |-> Null]
  /\ wval = [w \in Workers |-> 0] /\ wtop = [w \in Workers |-> 0]

LoopCall(t) == SpawnLink(t) \/ AbortLoad(t) \/ JoinLoad(t) \/ DropLoad(t) \/ CloneLoad(t)

LoopReturn == \/ SpawnPost \/ SpawnUnlock \/ AbortStore \/ JoinPush
              \/ DropStore \/ CloneStore
              \/ lpc = "drop" /\ \E t \in Tasks : DropLoad(t)

WorkerNext(w) == \/ SemWait(w) \/ PopHead(w) \/ Unlink(w) \/ Check(w) \/ RunHandler(w)
                 \/ ReadTop(w) \/ WakeNode(w) \/ WakeEnd(w)
                 \/ WorkerDropLoad(w) \/ WorkerDropStore(w)

Next == \/ \E t \in Tasks : LoopCall(t)
        \/ LoopReturn
        \/ \E w \in Workers : WorkerNext(w)

Spec == Init /\ [][Next]_vars

\* Every call of the loop thread returns, every worker thread runs, and the
\* handlers return.  Nobody has to make a call.
FairSpec == Spec /\ WF_vars(LoopReturn) /\ \A w \in Workers : WF_vars(WorkerNext(w))

-----------------------------------------------------------------------------
(* Properties.                                                              *)

\* A worker whose sem_wait() has returned finds a task when it gets the lock:
\* blocking_head is never null there, though blocking_worker_run() does not
\* test it.
PopFindsTask ==
  \A w \in Workers : At(w, "lock") /\ guard = Null => queue # << >>

\* The tasks a worker holds after it has unlinked them.
Taken(t) == {w \in Workers : wtask[w] = t /\ ~At(w, "unlink")}

\* No task is handed out twice, so no handler runs twice: a task is linked
\* once, or taken by one worker, or neither, never both.
OneOwner ==
  \A t \in Tasks :
    Cardinality({i \in 1..Len(queue) : queue[i] = t}) + Cardinality(Taken(t)) <= 1

\* A task nobody clones is not freed while its user's handle names it or a worker
\* still has work to do with it (task_drop(); "handled by the user and runtime"),
\* whatever goes wrong with those that are cloned.
NoEarlyFree ==
  \A t \in Tasks \ Cloned :
    (handles[t] > 0 \/ (\E i \in 1..Len(queue) : queue[i] = t)
       \/ \E w \in Workers : wtask[w] = t) => Live(t)

\* Every task that is spawned is taken by some worker, and let go unless it has been
\* freed under it.
SpawnedIsServed ==
  \A t \in Tasks :
    (\E i \in 1..Len(queue) : queue[i] = t)
      ~> /\ \A i \in 1..Len(queue) : queue[i] # t
         /\ (\A w \in Workers : wtask[w] # t) \/ ~Live(t)

\* A join that was in the list when the handler returned is woken, unless the task
\* has been freed under its worker.
EarlyJoinerIsWoken ==
  \A w \in Workers, t \in Tasks, n \in 1..MaxJoins :
    (At(w, "top") /\ wtask[w] = t /\ nodes[t] >= n) ~> (woken[t] >= n \/ ~Live(t))
=============================================================================
