------------------------------ MODULE JoinRace ------------------------------
(***************************************************************************)
(* Wakes of a join's children by other threads: _join_wake() of            *)
(* src/common/join_ext.c, called by a thread that signals a semaphore or   *)
(* by the loop's own, against the loop that takes the list over and polls  *)
(* it.  JoinExt has each of the two as one step; here every load and store *)
(* of a shared field is one, loaded once and kept in a register, as in     *)
(* WakeRace.  The wake of the task that awaits the join is a single step,  *)
(* which is never lost: what goes wrong here is the join's own.            *)
(*                                                                         *)
(* A child is woken once for each time that it is polled and suspends      *)
(* (NotReadyEarly of JoinExt), unless it awaits a join or select itself,   *)
(* which passes every wake of its own children on.  What its poll does is  *)
(* left open.  An access to what has been freed, or through the future     *)
(* that is NULL when a child has ended, is undefined: no step.             *)
(* A definition marked (slip) is the mistake that shows that a property    *)
(* can fail (PROJECT.json, "mutants"), no part of the model.               *)
(***************************************************************************)
EXTENDS Naturals, Sequences, FiniteSets

CONSTANTS
  Children,  \* the futures that are joined, in the order of the call
  Nested,    \* those that await a join or select
  Threads,   \* threads beside the loop's
  Loop,      \* the loop's thread
  Null

Kids == {Children[i] : i \in DOMAIN Children}
Callers == Threads \cup {Loop}

ASSUME JoinRaceAssumption ==
  /\ Children # << >>
  /\ \A i, j \in DOMAIN Children : Children[i] = Children[j] => i = j
  /\ Nested \subseteq Kids /\ Null \notin Kids /\ Loop \notin Threads

VARIABLES
  present,   \* children whose join_task->future is not NULL
  completed_len,
  next,      \* join_task->next
  poll_head, poll_tail,
  woken,     \* the task that awaits the join is queued
  pc,        \* where the loop is: "idle" between polls, the statement it is about
             \* to run ("load_head", "clear_head", "clear_tail", "next"), "poll" in
             \* join_task->future->poll(), or "over"
  join_task, next_join_task,  \* its locals
  at,        \* where each caller of _join_wake() is: "out" or the statement it is
             \* about to run
  waking,    \* its argument
  tail,      \* what it has loaded from poll_tail
  started,   \* history: children that have been polled
  due,       \* history: children that are to be polled, see JoinExt
  doubled,   \* history: a child that was due has been woken again
  raced      \* history: somebody used poll_tail while a call was between its load
             \* of it and its store, or while the loop took the list over

listVars == <<next, poll_head, poll_tail>>
childVars == <<present, completed_len>>
loopVars == <<childVars, pc, join_task, next_join_task, started>>
callVars == <<at, waking, tail>>
vars == <<listVars, woken, loopVars, callVars, due, doubled, raced>>

-----------------------------------------------------------------------------
(* _join_wake().                                                            *)

\* (slip) the task is woken before the child is linked
WakesFirst == [out |-> "wake", wake |-> "reset", reset |-> "load", load |-> "link",
               link |-> "tail", tail |-> "out"]
\* The order of the statements.
Follows == [out |-> "reset", reset |-> "load", load |-> "link", link |-> "tail",
            tail |-> "wake", wake |-> "out"]

Line(c, line) == at[c] = line /\ pc # "over"
Proceed(c) ==
  /\ at' = [at EXCEPT ![c] = Follows[at[c]]]
  /\ IF Follows[at[c]] = "out" THEN waking' = [waking EXCEPT ![c] = Null]
     ELSE at[c] # "out" => UNCHANGED waking

\* Threads call when they like; the loop's thread calls between two polls of the
\* join, for a timer or out of another task, and out of the child that it polls.
Call(c, t) ==
  /\ Line(c, "out")
  /\ c = Loop => pc \in {"idle", "poll"}
  /\ t \in present \cap started
  /\ t \notin due \/ t \in Nested
  /\ Proceed(c)
  /\ waking' = [waking EXCEPT ![c] = t]
  /\ due' = due \cup {t}
  /\ doubled' = (doubled \/ t \in due)
  /\ UNCHANGED <<listVars, woken, loopVars, tail, raced>>

\* (slip) the link is not reset
OldLink(t) == next[t]
NoLink(t) == Null

ResetNext(c) ==
  /\ Line(c, "reset")
  /\ next' = [next EXCEPT ![waking[c]] = NoLink(waking[c])]
  /\ Proceed(c)
  /\ UNCHANGED <<poll_head, poll_tail, woken, loopVars, tail, due, doubled, raced>>

\* Between the load of poll_tail and its store.
Linking(c) == at[c] \in {"link", "tail"}
\* Between the load of poll_head and the last store.
TakingOver == pc \in {"clear_head", "clear_tail"}

LoadTail(c) ==
  /\ Line(c, "load")
  /\ tail' = [tail EXCEPT ![c] = poll_tail]
  /\ raced' = (raced \/ TakingOver \/ \E d \in Callers : Linking(d))
  /\ Proceed(c)
  /\ UNCHANGED <<listVars, woken, loopVars, due, doubled>>

Link(c) ==
  /\ Line(c, "link")
  /\ IF tail[c] = Null
     THEN poll_head' = waking[c] /\ UNCHANGED next
     ELSE next' = [next EXCEPT ![tail[c]] = waking[c]] /\ UNCHANGED poll_head
  /\ tail' = [tail EXCEPT ![c] = Null]
  /\ Proceed(c)
  /\ UNCHANGED <<poll_tail, woken, loopVars, due, doubled, raced>>

StoreTail(c) ==
  /\ Line(c, "tail")
  /\ poll_tail' = waking[c]
  /\ Proceed(c)
  /\ UNCHANGED <<next, poll_head, woken, loopVars, tail, due, doubled, raced>>

WakeTask(c) ==
  /\ Line(c, "wake")
  /\ woken' = TRUE
  /\ Proceed(c)
  /\ UNCHANGED <<listVars, loopVars, tail, due, doubled, raced>>

Waking(c) == ResetNext(c) \/ LoadTail(c) \/ Link(c) \/ StoreTail(c) \/ WakeTask(c)

-----------------------------------------------------------------------------
(* The poll of taskio_join_ext().                                           *)

\* The loop's thread does one thing at a time.
LoopAt(line) == pc = line /\ at[Loop] = "out"

PollJoin ==
  /\ LoopAt("idle") /\ woken
  /\ woken' = FALSE
  /\ pc' = "load_head"
  /\ UNCHANGED <<listVars, childVars, join_task, next_join_task, started, callVars, due, doubled, raced>>

LoadHead ==
  /\ LoopAt("load_head")
  /\ join_task' = poll_head
  /\ raced' = (raced \/ \E c \in Callers : Linking(c))
  /\ pc' = "clear_head"
  /\ UNCHANGED <<listVars, woken, childVars, next_join_task, started, callVars, due, doubled>>

ClearHead ==
  /\ LoopAt("clear_head")
  /\ poll_head' = Null
  /\ pc' = "clear_tail"
  /\ UNCHANGED <<next, poll_tail, woken, childVars, join_task, next_join_task, started, callVars, due,
                 doubled, raced>>

\* (slip) the tail stays
OldTail == poll_tail
NoTail == Null

ClearTail ==
  /\ LoopAt("clear_tail")
  /\ poll_tail' = NoTail
  /\ pc' = "next"
  /\ UNCHANGED <<next, poll_head, woken, childVars, join_task, next_join_task, started, callVars, due,
                 doubled, raced>>

PollChild ==
  /\ LoopAt("next") /\ join_task \in present
  /\ next_join_task' = next[join_task]
  /\ started' = started \cup {join_task}
  /\ due' = due \ {join_task}
  /\ pc' = "poll"
  /\ UNCHANGED <<listVars, woken, childVars, join_task, callVars, doubled, raced>>

\* The rest of the loop's body after child->poll().
LoopOn ==
  /\ LoopAt("poll")
  /\ pc' = "next"
  /\ join_task' = next_join_task
  /\ next_join_task' = Null
  /\ UNCHANGED <<listVars, woken, started, callVars, due, doubled, raced>>

ChildPending ==
  /\ LoopOn
  /\ UNCHANGED childVars

\* A child that is ready waits for nothing, so that nobody has its waker.
ChildReady ==
  /\ LoopOn
  /\ join_task \notin due
  /\ completed_len' = completed_len + 1
  /\ present' = present \ {join_task}

JoinFinish ==
  /\ LoopAt("next") /\ join_task = Null
  /\ pc' = IF completed_len = Len(Children) THEN "over" ELSE "idle"
  /\ UNCHANGED <<listVars, woken, childVars, join_task, next_join_task, started, callVars, due, doubled, raced>>

LoopStep ==
  \/ PollJoin \/ LoadHead \/ ClearHead \/ ClearTail \/ PollChild \/ ChildPending
  \/ ChildReady \/ JoinFinish

-----------------------------------------------------------------------------

\* taskio_join() links the join tasks in the order of its arguments.
Init ==
  /\ present = Kids /\ completed_len = 0
  /\ \E index \in [Kids -> DOMAIN Children] :
       /\ \A t \in Kids : Children[index[t]] = t
       /\ next = [t \in Kids |-> IF index[t] < Len(Children) THEN Children[index[t] + 1] ELSE Null]
  /\ poll_head = Children[1] /\ poll_tail = Children[Len(Children)]
  /\ woken = TRUE
  /\ pc = "idle" /\ join_task = Null /\ next_join_task = Null
  /\ at = [c \in Callers |-> "out"]
  /\ waking = [c \in Callers |-> Null] /\ tail = [c \in Callers |-> Null]
  /\ started = {} /\ due = Kids
  /\ doubled = FALSE /\ raced = FALSE

Next ==
  \/ \E c \in Callers : Waking(c) \/ \E t \in Kids : Call(c, t)
  \/ LoopStep

Spec == Init /\ [][Next]_vars

-----------------------------------------------------------------------------
(* Properties.                                                              *)


\* The children the loop will meet that goes from t along the links.
Reach(t) ==
  LET nth[n \in 0..Len(Children)] ==
        IF n = 0 THEN t ELSE IF nth[n - 1] = Null THEN Null ELSE next[nth[n - 1]]
  IN {nth[n] : n \in DOMAIN nth} \ {Null}

\* A list that is not empty does not wait for a wake of something else: the task
\* that awaits the join is queued, or whoever linked the head is about to wake it.
ListIsServed ==
  pc = "idle" /\ poll_head # Null =>
    woken \/ \E c \in Callers : at[c] \in {"tail", "wake"}

\* What a lock would have to keep apart: a call between its load and its store of
\* poll_tail, another one there, and the take-over of the list.  Where these do not
\* overlap, no wake is lost, although the loop reads the links of the list it walks
\* (join_ext.c:52) and calls go through them at any time.
OnlyTailRaces ==
  ~raced /\ ~doubled =>
    due \subseteq
      {waking[c] : c \in {d \in Callers : at[d] \in {"reset", "load", "link"}}}
      \cup Reach(poll_head)
      \cup (IF pc \in {"clear_head", "clear_tail", "next"} THEN Reach(join_task) ELSE {})
      \cup (IF pc = "poll" THEN Reach(next_join_task) ELSE {})
=============================================================================
