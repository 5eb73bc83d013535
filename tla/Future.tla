-------------------------------- MODULE Future --------------------------------
(***************************************************************************)
(* The coroutines of taskio/async.h.  An async function is a C function    *)
(* that starts from the top at every poll; future->counter, which whoever  *)
(* polls it increments first, says which of its scopes to run.  When the   *)
(* scope has awaited another future, the next polls go to that one first.  *)
(*                                                                         *)
(* The scopes themselves are client code: Body gives the ways each may     *)
(* end.  The poll of a future runs on the C stack, a frame for each future *)
(* that polls the next.  The modules that poll futures compose with this   *)
(* one: they push the first frame, take the result of the last, and say    *)
(* what the waker does (JoinExt).                                          *)
(* A definition marked (slip) is the mistake that shows that a property    *)
(* can fail (PROJECT.json, "mutants"), no part of the model.               *)
(***************************************************************************)
EXTENDS Naturals, Sequences, FiniteSets

CONSTANTS
  Futures,  \* future objects
  Null,     \* the null pointer
  Body,     \* of each future, its scopes in order: a sequence of records,
            \*   kind  "scope" or "while"
            \*   ends  how its body may end: "yield", "break", "return",
            \*         "suspend" (with its waker in somebody's hands: a timer,
            \*         a semaphore, await_handle()), "await" or "undefined"
            \*         (it runs off the end of the scope)
  Awaits,   \* of each future, the functions its scopes may await
  SizeMax   \* SIZE_MAX

ASSUME FutureAssumption ==
  /\ Null \notin Futures
  /\ \A f \in Futures : Body[f] \in
       Seq([kind : {"scope", "while"},
            ends : SUBSET {"yield", "break", "return", "suspend", "await", "undefined"}])
  /\ Awaits \in [Futures -> SUBSET Futures]
  /\ SizeMax \in Nat /\ \A f \in Futures : Len(Body[f]) + 2 < SizeMax

\* A future lives in the environment of the function that awaits it
\* (await_fn_get() stores it there): no other awaits it, and none is within
\* itself, however deep.
ASSUME TreeAssumption ==
  /\ \A f, g \in Futures : f # g => Awaits[f] \cap Awaits[g] = {}
  /\ IsFiniteSet(Futures)
  /\ \E depth \in [Futures -> 0..Cardinality(Futures)] :
       \A f \in Futures : \A g \in Awaits[f] : depth[f] < depth[g]

VARIABLES
  counter,       \* future->counter
  await_future,  \* future->await_future
  held,          \* of each future, the root whose waker it has handed out and
                 \* that has not been called since, or Null
  cleaned,       \* times it has been cleaned up since it was called
  stack,         \* the polls in progress, the root first: records with
                 \*   fut    the future
                 \*   scope  the scope it is in, 0 when in none
  pc,            \* what the top one is about: "run" the macros, "body" client
                 \* code, "return", or "idle" when there is none
  result         \* *poll: "pending", "ready" or "undefined"

futureVars == <<counter, await_future, held, cleaned, stack, pc, result>>

FutureTypeOK ==
  /\ \A f \in Futures : counter[f] \in 0..(Len(Body[f]) + 2) \cup {SizeMax}
  /\ await_future \in [Futures -> Futures \cup {Null}]
  /\ held \in [Futures -> Futures \cup {Null}]
  /\ cleaned \in [Futures -> 0..2]
  /\ stack \in Seq([fut : Futures, scope : Nat])
  /\ pc \in {"idle", "run", "body", "return"}
  /\ pc = "idle" <=> stack = << >>
  /\ result \in {"pending", "ready", "undefined"}

-----------------------------------------------------------------------------

Top == stack[Len(stack)].fut
Scope == stack[Len(stack)].scope
Caller == stack[Len(stack) - 1].fut
Root == stack[1].fut

Frame(f) == [fut |-> f, scope |-> 0]
WithScope(n) == [stack EXCEPT ![Len(stack)].scope = n]

\* f and the futures it awaits, through any number of them.
Chain(f) ==
  LET chain[g \in Futures] ==
        {g} \cup IF await_future[g] = Null THEN {} ELSE chain[await_future[g]]
  IN chain[f]

\* (slip) what it awaits is not cleaned up
OnlyItself(f) == {f}
\* The futures __TASKIO_FUTURE_CLEANUP() of f reaches: async_fn_begin() passes
\* it on to the awaited future.
CleansUp(f) == Chain(f)

\* __TASKIO_FUTURE_CLEANUP() of each of fs.  A timer that is aborted gives the
\* waker up, a queued semaphore node or a missed timer keeps it.
FutureCleanup(fs) ==
  LET all == UNION {CleansUp(f) : f \in fs} IN
    /\ counter' = [f \in Futures |-> IF f \in all THEN SizeMax ELSE counter[f]]
    /\ cleaned' = [f \in Futures |-> IF f \in all /\ cleaned[f] < 2 THEN cleaned[f] + 1
                                                                     ELSE cleaned[f]]
    /\ \E fs2 \in SUBSET {f \in all : held[f] # Null} :
         held' = [f \in Futures |-> IF f \in fs2 THEN Null ELSE held[f]]

\* The poll of f by whoever holds it, after its counter += 1.
StartPoll(f) ==
  /\ pc = "idle"
  /\ counter' = [counter EXCEPT ![f] = @ + 1]
  /\ stack' = <<Frame(f)>>
  /\ pc' = "run"

-----------------------------------------------------------------------------
(* The macros.                                                              *)

\* async_fn_begin(): the awaited future is polled first.
PollAwaited ==
  /\ pc = "run" /\ await_future[Top] # Null
  /\ LET g == await_future[Top] IN
       /\ counter' = [counter EXCEPT ![g] = @ + 1]
       /\ stack' = Append(stack, Frame(g))
  /\ UNCHANGED <<await_future, held, cleaned, pc, result>>

Kind(f, n) == IF n \in DOMAIN Body[f] THEN Body[f][n].kind ELSE "none"

AtScope(kind) == pc = "run" /\ await_future[Top] = Null /\ Kind(Top, counter[Top]) = kind

\* async_scope()
EnterScope ==
  /\ AtScope("scope")
  /\ stack' = WithScope(counter[Top])
  /\ pc' = "body"
  /\ UNCHANGED <<counter, await_future, held, cleaned, result>>

\* (slip) the counter is left to the next poll
LoopCounter(n) == n
\* async_scope_while(): the next poll comes back to this scope.
AgainCounter(n) == n - 1

EnterLoop ==
  /\ AtScope("while")
  /\ counter' = [counter EXCEPT ![Top] = AgainCounter(@)]
  /\ stack' = WithScope(counter[Top])
  /\ pc' = "body"
  /\ UNCHANGED <<await_future, held, cleaned, result>>

\* Its condition does not hold: the scope after it runs in the same poll.
LoopEnds ==
  /\ AtScope("while")
  /\ counter' = [counter EXCEPT ![Top] = @ + 1]
  /\ UNCHANGED <<await_future, held, cleaned, stack, pc, result>>

\* No scope is left: the function returns and has not set *poll.
NoScope ==
  /\ AtScope("none")
  /\ pc' = "return" /\ result' = "undefined"
  /\ UNCHANGED <<counter, await_future, held, cleaned, stack>>

-----------------------------------------------------------------------------
(* What the body of a scope ends with.                                      *)

Ends(how) == pc = "body" /\ how \in Body[Top][Scope].ends

ReturnWith(poll) ==
  /\ stack' = WithScope(0)
  /\ pc' = "return" /\ result' = poll

\* yield(): calls the waker itself.
Yield ==
  /\ Ends("yield")
  /\ ReturnWith("pending")
  /\ UNCHANGED <<counter, await_future, held, cleaned>>

\* async_break
Break ==
  /\ Ends("break")
  /\ counter' = [counter EXCEPT ![Top] = @ + 1]
  /\ ReturnWith("pending")
  /\ UNCHANGED <<await_future, held, cleaned>>

\* suspended_yield(), await_get_handle(), and the futures that hand out the
\* waker in C: taskio_sleep(), taskio_semaphore_wait().
Suspend ==
  /\ Ends("suspend")
  /\ held' = [held EXCEPT ![Top] = Root]
  /\ ReturnWith("pending")
  /\ UNCHANGED <<counter, await_future, cleaned>>

\* async_return()
Return ==
  /\ Ends("return")
  /\ ReturnWith("ready")
  /\ UNCHANGED <<counter, await_future, held, cleaned>>

RunOff ==
  /\ Ends("undefined")
  /\ ReturnWith("undefined")
  /\ UNCHANGED <<counter, await_future, held, cleaned>>

\* (slip) incremented, as in async_fn_begin()
CounterOnward(n) == n + 1
\* The first poll by await_get() starts from the first scope.
FirstCounter(n) == 1

\* await_get() of a function called for it.
Await(g) ==
  /\ Ends("await") /\ g \in Awaits[Top]
  /\ await_future' = [await_future EXCEPT ![Top] = g, ![g] = Null]
  /\ counter' = [counter EXCEPT ![g] = FirstCounter(@)]
  /\ cleaned' = [cleaned EXCEPT ![g] = 0]
  /\ stack' = Append(stack, Frame(g))
  /\ pc' = "run"
  /\ UNCHANGED <<held, result>>

-----------------------------------------------------------------------------
(* The poll of an awaited future returns to the function that awaits it.    *)

Returned == pc = "return" /\ Len(stack) > 1
\* It was polled by await_get(), in the body of a scope, or by async_fn_begin().
ToBody == Returned /\ stack[Len(stack) - 1].scope # 0
ToBegin == Returned /\ stack[Len(stack) - 1].scope = 0

Popped == SubSeq(stack, 1, Len(stack) - 1)
\* The caller leaves its scope, too.
PoppedOut == [Popped EXCEPT ![Len(Popped)].scope = 0]

\* In async_fn_begin() the scope that awaits has not been passed yet.
StillAwaits ==
  /\ Returned /\ result # "ready"
  /\ counter' = IF ToBegin THEN [counter EXCEPT ![Caller] = @ - 1] ELSE counter
  /\ stack' = PoppedOut
  /\ result' = "pending"
  /\ UNCHANGED <<await_future, held, cleaned, pc>>

AwaitOver == [await_future EXCEPT ![Caller] = Null]

\* async_fn_begin() goes on with the next scope.
AwaitedBefore ==
  /\ ToBegin /\ result = "ready"
  /\ FutureCleanup({Top})
  /\ await_future' = AwaitOver
  /\ stack' = Popped
  /\ pc' = "run"
  /\ UNCHANGED result

\* await_get() leaves that to the next poll, and yields.
AwaitedAtOnce ==
  /\ ToBody /\ result = "ready"
  /\ FutureCleanup({Top})
  /\ await_future' = AwaitOver
  /\ stack' = PoppedOut
  /\ result' = "pending"
  /\ UNCHANGED pc

-----------------------------------------------------------------------------

FutureInit ==
  /\ counter = [f \in Futures |-> 0]
  /\ await_future = [f \in Futures |-> Null]
  /\ held = [f \in Futures |-> Null]
  /\ cleaned = [f \in Futures |-> 0]
  /\ stack = << >> /\ pc = "idle" /\ result = "undefined"

\* Steps that call the waker of the root, and those that do not.
WakingStep == Yield \/ Break \/ AwaitedAtOnce
QuietStep ==
  \/ PollAwaited \/ EnterScope \/ EnterLoop \/ LoopEnds \/ NoScope
  \/ Suspend \/ Return \/ RunOff \/ \E g \in Futures : Await(g)
  \/ StillAwaits \/ AwaitedBefore

-----------------------------------------------------------------------------
(* The promise of Coroutine.                                                *)

\* Where f is on the stack, if it is.
FramesOf(f) == {i \in 1..Len(stack) : stack[i].fut = f}
\* The counter has been incremented for a poll that has not got to a scope yet.
CountedAhead(f) ==
  \E i \in FramesOf(f) : stack[i].scope = 0 /\ (i < Len(stack) \/ pc = "run")

NextScope(f) == IF CountedAhead(f) THEN counter[f] ELSE counter[f] + 1

From == [f \in Futures |->
           IF counter[f] = SizeMax THEN 0
           ELSE IF NextScope(f) \in DOMAIN Body[f] THEN NextScope(f)
           ELSE Len(Body[f]) + 1]
Inside == [f \in Futures |->
             IF FramesOf(f) = {} THEN 0 ELSE stack[CHOOSE i \in FramesOf(f) : TRUE].scope]

C == INSTANCE Coroutine WITH from <- From, inside <- Inside, awaits <- await_future

\* What a future that has suspended waits for has happened when it runs on:
\* its counter takes any second poll for the wake it waits for, so that it must
\* not be polled for another's (async.h, and the second scopes of
\* taskio_sleep() and taskio_semaphore_wait()).
NotReadyEarly == pc = "body" => held[Top] = Null
=============================================================================
