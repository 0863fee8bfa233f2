------------------------------ MODULE EventCenter ------------------------------
(***************************************************************************)
(* The event loop of a worker (Event.cc) and the loop that runs it until   *)
(* the stack is stopped (Stack.cc): events dispatched by any thread, time  *)
(* events, and the notify pipe that wakes the loop out of event_wait.      *)
(*                                                                         *)
(* dispatch_event_external pushes and counts an event under external_lock, *)
(* and writes to the pipe afterwards, without it; process_events reads the *)
(* count without the lock to decide whether it may block.  Every such      *)
(* access is a step of its own.  External event e is the e-th one pushed.  *)
(* No poller is registered and the driver needs wakeups, as in RDMAStack   *)
(* and the epoll driver.                                                   *)
(***************************************************************************)
EXTENDS Integers, Sequences, FiniteSets

CONSTANTS
  Threads,       \* threads other than the loop's that dispatch events
  Loop,          \* the loop's own thread, dispatching from a callback
  MaxEvents,     \* bound on the external events dispatched
  MaxTimers,     \* bound on the time events created
  MaxNow,        \* bound on the clock
  EventMaxWait   \* how long process_events may block

ASSUME CenterAssumption ==
  /\ Loop \notin Threads /\ "free" \notin Threads \cup {Loop}
  /\ {MaxEvents, MaxTimers, MaxNow, EventMaxWait} \subseteq Nat

VARIABLES
  external_events, external_num_events,
  external_lock,      \* the thread that holds it, or "free"
  pc,                 \* pc[t]: where t is in dispatch_event_external or submit_to
  wake,               \* wake[t]: its local variable
  awaited,            \* awaited[t]: the event submit_to waits for
  pipe,               \* the notify pipe is not empty
  done,               \* Worker::done
  loop,               \* where the loop is in process_events, or "stopped"
  blocking, deadline, trigger_time, notified, cur_process,  \* its local variables
  time_events,        \* pending time events: [id, expire]
  event_map,          \* the ids delete_time_event finds
  time_event_next_id,
  now,                \* the clock
  pushed,             \* history: external events pushed so far
  ran, fired,         \* history: external and time events run, in order
  deleted             \* history: time events deleted while pending

dispatchVars == <<external_events, external_num_events, external_lock, pc, wake, awaited,
                  pushed>>
loopVars     == <<loop, blocking, deadline, trigger_time, notified, cur_process, ran>>
timeVars     == <<time_events, event_map, time_event_next_id, fired, deleted>>
vars == <<dispatchVars, pipe, done, loopVars, timeVars, now>>

Free    == "free"
AnyThread == Threads \cup {Loop}
Timer   == [id : 1 .. MaxTimers, expire : 0 .. MaxNow]

-------------------------------------------------------------------------------
(* dispatch_event_external, by any thread; submit_to waits when nonwait is    *)
(* not asked for.                                                             *)

push(t) ==
  /\ external_lock = Free /\ pushed < MaxEvents
  /\ external_lock' = t
  /\ external_events' = Append(external_events, pushed + 1)
  /\ pushed' = pushed + 1
  /\ pc' = [pc EXCEPT ![t] = "count"]

dispatch_event_external(t) ==
  /\ t # Loop /\ pc[t] = "idle"
  /\ push(t)
  /\ \E nowait \in BOOLEAN :
        awaited' = [awaited EXCEPT ![t] = IF nowait THEN 0 ELSE pushed + 1]
  /\ UNCHANGED <<external_num_events, wake, pipe, done, loopVars, timeVars, now>>

\* Mutant: the count is read after it is incremented.
count_then_read(t) ==
  /\ pc[t] = "count"
  /\ wake' = [wake EXCEPT ![t] = external_num_events + 1 = 0]
  /\ external_num_events' = external_num_events + 1
  /\ external_lock' = Free
  /\ pc' = [pc EXCEPT ![t] = "wakeup"]
  /\ UNCHANGED <<external_events, awaited, pushed, pipe, done, loopVars, timeVars, now>>

count(t) ==
  /\ pc[t] = "count"
  /\ wake' = [wake EXCEPT ![t] = external_num_events = 0]
  /\ external_num_events' = external_num_events + 1
  /\ external_lock' = Free
  /\ pc' = [pc EXCEPT ![t] = "wakeup"]
  /\ UNCHANGED <<external_events, awaited, pushed, pipe, done, loopVars, timeVars, now>>

\* The loop's own thread is awake.
wakeup(t) ==
  /\ pc[t] = "wakeup"
  /\ pipe' = (pipe \/ (t # Loop /\ wake[t]))
  /\ pc' = [pc EXCEPT ![t] = IF awaited[t] = 0 THEN "idle" ELSE "wait"]
  /\ UNCHANGED <<external_events, external_num_events, external_lock, wake, awaited,
                 pushed, done, loopVars, timeVars, now>>

\* submit_to returns once do_request has run the function.
submit_to_done(t) ==
  /\ pc[t] = "wait" /\ \E i \in DOMAIN ran : ran[i] = awaited[t]
  /\ pc' = [pc EXCEPT ![t] = "idle"] /\ awaited' = [awaited EXCEPT ![t] = 0]
  /\ UNCHANGED <<external_events, external_num_events, external_lock, wake, pushed,
                 pipe, done, loopVars, timeVars, now>>

\* NetworkStack::stop, by any thread.
stop ==
  /\ ~done
  /\ done' = TRUE /\ pipe' = TRUE
  /\ UNCHANGED <<dispatchVars, loopVars, timeVars, now>>

-------------------------------------------------------------------------------
(* process_events, in the loop's thread. *)

at(place) == loop = place /\ pc[Loop] = "idle"

\* Events that are due fire in the order of their times, then of creation.
Earlier(a, b) == a.expire < b.expire \/ (a.expire = b.expire /\ a.id < b.id)
First(e) == \A f \in time_events \ {e} : Earlier(e, f)
Due == \E e \in time_events : e.expire <= now

\* What a callback may do to the center: nothing, dispatch an event itself, or
\* create or delete a time event.  delete_time_event ignores unknown ids.
Callback(timers, map) ==
  \/ /\ time_events' = timers /\ event_map' = map
     /\ UNCHANGED <<time_event_next_id, deleted, dispatchVars>>
  \/ /\ time_events' = timers /\ event_map' = map
     /\ push(Loop)
     /\ UNCHANGED <<time_event_next_id, deleted, external_num_events, wake, awaited>>
  \/ \E expire \in now .. MaxNow :
        /\ time_event_next_id <= MaxTimers
        /\ time_events' = timers \cup {[id |-> time_event_next_id, expire |-> expire]}
        /\ event_map' = map \cup {time_event_next_id}
        /\ time_event_next_id' = time_event_next_id + 1
        /\ UNCHANGED <<deleted, dispatchVars>>
  \/ \E id \in 1 .. time_event_next_id - 1 :
        /\ time_events' = {e \in timers : id \notin map \/ e.id # id}
        /\ event_map' = map \ {id}
        /\ deleted' = IF id \in map THEN deleted \cup {id} ELSE deleted
        /\ UNCHANGED <<time_event_next_id, dispatchVars>>

\* Mutant: the events already counted are not looked at.
may_block_always == TRUE

\* With no poller, only an event already counted keeps process_events awake.
may_block == external_num_events = 0

\* A worker that is not stopped calls process_events: latest is when event_wait
\* gives up, unless a time event is due before.
begin ==
  /\ at("begin") /\ ~done
  /\ blocking' = may_block
  /\ LET latest == IF may_block THEN now + EventMaxWait ELSE now
     IN  /\ deadline' = latest
         /\ trigger_time' = (\E e \in time_events : e.expire <= latest)
  /\ loop' = "event_wait"
  /\ UNCHANGED <<dispatchVars, pipe, done, notified, cur_process, ran, timeVars, now>>

begin_stopped ==
  /\ at("begin") /\ done
  /\ loop' = "stopped"
  /\ UNCHANGED <<dispatchVars, pipe, done, blocking, deadline, trigger_time, notified,
                 cur_process, ran, timeVars, now>>

\* Mutant: a time event does not shorten the wait.
timed_out_latest == now >= deadline

\* Only the loop changes time_events, so the first of them is still the one
\* process_events computed its timeout from.
timed_out == now >= deadline \/ (trigger_time /\ Due)

event_wait ==
  /\ at("event_wait")
  /\ pipe \/ ~blocking \/ timed_out
  /\ notified' = pipe
  /\ loop' = "notify"
  /\ UNCHANGED <<dispatchVars, pipe, done, blocking, deadline, trigger_time,
                 cur_process, ran, timeVars, now>>

\* C_handle_notify reads the pipe until it is empty.
handle_notify ==
  /\ at("notify")
  /\ pipe' = (pipe /\ ~notified)
  /\ loop' = IF trigger_time THEN "timers" ELSE "external"
  /\ UNCHANGED <<dispatchVars, done, blocking, deadline, trigger_time, notified,
                 cur_process, ran, timeVars, now>>

\* Mutant: the fired event stays in event_map.
fire_unmapped ==
  /\ at("timers")
  /\ \E e \in time_events :
        /\ First(e) /\ e.expire <= now
        /\ fired' = Append(fired, e.id)
        /\ Callback(time_events \ {e}, event_map)
  /\ UNCHANGED <<pipe, done, loopVars, now>>

\* process_time_events takes a due event out of both tables and runs it.
fire ==
  /\ at("timers")
  /\ \E e \in time_events :
        /\ First(e) /\ e.expire <= now
        /\ fired' = Append(fired, e.id)
        /\ Callback(time_events \ {e}, event_map \ {e.id})
  /\ UNCHANGED <<pipe, done, loopVars, now>>

fire_none ==
  /\ at("timers") /\ ~Due
  /\ loop' = "external"
  /\ UNCHANGED <<dispatchVars, pipe, done, blocking, deadline, trigger_time, notified,
                 cur_process, ran, timeVars, now>>

\* The count is read without the lock.
check_external ==
  /\ at("external")
  /\ loop' = IF external_num_events > 0 THEN "swap" ELSE "begin"
  /\ UNCHANGED <<dispatchVars, pipe, done, blocking, deadline, trigger_time, notified,
                 cur_process, ran, timeVars, now>>

\* Mutant: the events are copied and not swapped.
copy ==
  /\ at("swap") /\ external_lock = Free
  /\ cur_process' = external_events
  /\ external_num_events' = 0
  /\ loop' = "run"
  /\ UNCHANGED <<external_events, external_lock, pc, wake, awaited, pushed, pipe, done,
                 blocking, deadline, trigger_time, notified, ran, timeVars, now>>

swap ==
  /\ at("swap") /\ external_lock = Free
  /\ cur_process' = external_events /\ external_events' = <<>>
  /\ external_num_events' = 0
  /\ loop' = "run"
  /\ UNCHANGED <<external_lock, pc, wake, awaited, pushed, pipe, done, blocking,
                 deadline, trigger_time, notified, ran, timeVars, now>>

run ==
  /\ at("run") /\ cur_process # <<>>
  /\ cur_process' = Tail(cur_process)
  /\ ran' = Append(ran, Head(cur_process))
  /\ Callback(time_events, event_map)
  /\ UNCHANGED <<pipe, done, loop, blocking, deadline, trigger_time, notified, fired, now>>

run_none ==
  /\ at("run") /\ cur_process = <<>>
  /\ loop' = "begin"
  /\ UNCHANGED <<dispatchVars, pipe, done, blocking, deadline, trigger_time, notified,
                 cur_process, ran, timeVars, now>>

tick ==
  /\ now < MaxNow /\ now' = now + 1
  /\ UNCHANGED <<dispatchVars, pipe, done, loopVars, timeVars>>
-------------------------------------------------------------------------------
Init ==
  /\ external_events = <<>> /\ external_num_events = 0 /\ external_lock = Free
  /\ pc = [t \in AnyThread |-> "idle"] /\ wake = [t \in AnyThread |-> FALSE]
  /\ awaited = [t \in AnyThread |-> 0]
  /\ pipe = FALSE /\ done = FALSE /\ loop = "begin"
  /\ blocking = FALSE /\ deadline = 0 /\ trigger_time = FALSE /\ notified = FALSE
  /\ cur_process = <<>> /\ time_events = {} /\ event_map = {} /\ time_event_next_id = 1
  /\ now = 0 /\ pushed = 0 /\ ran = <<>> /\ fired = <<>> /\ deleted = {}

ThreadStep(t) == count(t) \/ wakeup(t) \/ submit_to_done(t)
LoopStep == \/ begin \/ begin_stopped \/ event_wait \/ handle_notify
            \/ fire \/ fire_none \/ check_external \/ swap \/ run \/ run_none

Next ==
  \/ \E t \in AnyThread : dispatch_event_external(t) \/ ThreadStep(t)
  \/ stop \/ LoopStep \/ tick

Spec == Init /\ [][Next]_vars

\* Every thread that is in a call goes on, the loop's too.  The clock goes on
\* to MaxNow only, so nothing here rests on event_wait timing out without a
\* time event being due.
FairSpec == /\ Spec /\ WF_vars(LoopStep) /\ WF_vars(tick)
            /\ \A t \in AnyThread : WF_vars(ThreadStep(t))

-------------------------------------------------------------------------------
(* Properties. *)

TypeOK ==
  /\ external_events \in Seq(1 .. MaxEvents) /\ external_num_events \in Nat
  /\ external_lock \in AnyThread \cup {Free}
  /\ pc \in [AnyThread -> {"idle", "count", "wakeup", "wait"}]
  /\ wake \in [AnyThread -> BOOLEAN] /\ awaited \in [AnyThread -> 0 .. MaxEvents]
  /\ pipe \in BOOLEAN /\ done \in BOOLEAN /\ blocking \in BOOLEAN
  /\ trigger_time \in BOOLEAN /\ notified \in BOOLEAN
  /\ loop \in {"begin", "event_wait", "notify", "timers", "external", "swap", "run",
               "stopped"}
  /\ deadline \in Nat /\ now \in 0 .. MaxNow
  /\ cur_process \in Seq(1 .. MaxEvents) /\ ran \in Seq(1 .. MaxEvents)
  /\ pushed \in 0 .. MaxEvents
  /\ time_events \subseteq Timer /\ event_map \subseteq 1 .. MaxTimers
  /\ time_event_next_id \in 1 .. MaxTimers + 1
  /\ fired \in Seq(1 .. MaxTimers) /\ deleted \subseteq 1 .. MaxTimers

\* When the loop may sleep although an event waits, the pipe holds a byte or a
\* thread is about to write one: a wakeup is never lost.
NoLostWakeup ==
  loop = "event_wait" /\ blocking /\ external_events # <<>> =>
     pipe \/ \E t \in Threads : pc[t] = "count" \/ (pc[t] = "wakeup" /\ wake[t])

\* External events run once each, in the order they were pushed.
RunInOrder == ran \o cur_process \o external_events = [i \in 1 .. pushed |-> i]

\* A time event fires at most once and never after it was deleted, and the two
\* tables agree on what is pending.
TimersConsistent ==
  /\ event_map = {e.id : e \in time_events}
  /\ \A i, j \in DOMAIN fired : fired[i] = fired[j] => i = j
  /\ {fired[i] : i \in DOMAIN fired} \cap (deleted \cup event_map) = {}

\* Whatever is dispatched runs, unless the worker is stopped.
EventsRun == \A e \in 1 .. MaxEvents :
  pushed >= e ~> done \/ \E i \in DOMAIN ran : ran[i] = e

\* A time event that is neither deleted nor cut short by a stop fires.
TimersFire == \A id \in 1 .. MaxTimers :
  id \in event_map ~> done \/ id \notin event_map
===============================================================================
