-------------------------- MODULE EventCenterProofs --------------------------
(***************************************************************************)
(* EventCenter for any set of threads and any bounds: a wakeup is never    *)
(* lost, external events run once each in the order they were pushed, and  *)
(* the tables of time events stay consistent.                              *)
(***************************************************************************)
EXTENDS EventCenter, SequenceTheorems, TLAPS

\* external_lock is held exactly while an event is pushed and not yet counted,
\* and the loop's thread dispatches from a callback only.
LockInv ==
  /\ \A t \in AnyThread : pc[t] = "count" <=> external_lock = t
  /\ external_num_events + (IF external_lock = Free THEN 0 ELSE 1) = Len(external_events)
  /\ pc[Loop] # "idle" => loop \in {"timers", "run"}

\* Once an event is counted, a sleeping loop is being woken.
WakeInv ==
  loop = "event_wait" /\ blocking /\ external_num_events > 0 =>
     pipe \/ \E t \in Threads : pc[t] = "wakeup" /\ wake[t]

OrderInv == RunInOrder /\ (loop # "run" => cur_process = <<>>)

\* A number given to a time event is never given again.
TimerInv ==
  /\ TimersConsistent /\ event_map \cap deleted = {}
  /\ \A e, f \in time_events : e.id = f.id => e = f
  /\ \A id \in event_map \cup deleted \cup {fired[i] : i \in DOMAIN fired} :
        id < time_event_next_id

IInv == TypeOK /\ LockInv /\ WakeInv /\ OrderInv /\ TimerInv

-------------------------------------------------------------------------------
(* What a callback does to the dispatch of external events. *)
Dispatched == \/ UNCHANGED dispatchVars
              \/ push(Loop) /\ UNCHANGED <<external_num_events, wake, awaited>>

LEMMA CallbackDispatched ==
  ASSUME NEW timers, NEW map, Callback(timers, map) PROVE Dispatched
BY DEF Callback, Dispatched

LEMMA PushType ==
  ASSUME TypeOK, NEW t \in AnyThread, push(t)
  PROVE  /\ external_events' \in Seq(1 .. MaxEvents) /\ external_lock' \in AnyThread \cup {Free}
         /\ pushed' \in 0 .. MaxEvents
         /\ pc' \in [AnyThread -> {"idle", "count", "wakeup", "wait"}]
<1>1. pushed + 1 \in 1 .. MaxEvents
  BY CenterAssumption DEF TypeOK, push
<1>2. external_events' \in Seq(1 .. MaxEvents)
  BY <1>1, AppendProperties DEF TypeOK, push
<1>3. QED BY <1>1, <1>2 DEF TypeOK, push

LEMMA DispatchedType ==
  ASSUME TypeOK, Dispatched
  PROVE  /\ external_events' \in Seq(1 .. MaxEvents) /\ external_num_events' \in Nat
         /\ external_lock' \in AnyThread \cup {Free} /\ pushed' \in 0 .. MaxEvents
         /\ pc' \in [AnyThread -> {"idle", "count", "wakeup", "wait"}]
         /\ wake' \in [AnyThread -> BOOLEAN] /\ awaited' \in [AnyThread -> 0 .. MaxEvents]
<1>1. CASE UNCHANGED dispatchVars
  BY <1>1 DEF TypeOK, dispatchVars
<1>2. CASE push(Loop) /\ UNCHANGED <<external_num_events, wake, awaited>>
  <2>1. Loop \in AnyThread
    BY DEF AnyThread
  <2>2. QED BY <1>2, <2>1, PushType DEF TypeOK
<1>3. QED BY <1>1, <1>2 DEF Dispatched

LEMMA CallbackType ==
  ASSUME TypeOK, NEW timers \in SUBSET time_events, NEW map \in SUBSET event_map,
         Callback(timers, map)
  PROVE  /\ time_events' \subseteq Timer /\ event_map' \subseteq 1 .. MaxTimers
         /\ time_event_next_id' \in 1 .. MaxTimers + 1 /\ deleted' \subseteq 1 .. MaxTimers
<1> USE CenterAssumption DEF TypeOK
<1>1. ASSUME NEW expire \in now .. MaxNow, time_event_next_id <= MaxTimers
      PROVE  [id |-> time_event_next_id, expire |-> expire] \in Timer
  BY <1>1 DEF Timer
<1>2. CASE time_events' = timers /\ event_map' = map /\ UNCHANGED <<time_event_next_id, deleted>>
  BY <1>2
<1>3. CASE \E expire \in now .. MaxNow :
             /\ time_event_next_id <= MaxTimers
             /\ time_events' = timers \cup {[id |-> time_event_next_id, expire |-> expire]}
             /\ event_map' = map \cup {time_event_next_id}
             /\ time_event_next_id' = time_event_next_id + 1
             /\ UNCHANGED deleted
  BY <1>3, <1>1
<1>4. CASE \E id \in 1 .. time_event_next_id - 1 :
             /\ time_events' = {e \in timers : id \notin map \/ e.id # id}
             /\ event_map' = map \ {id}
             /\ deleted' = IF id \in map THEN deleted \cup {id} ELSE deleted
             /\ UNCHANGED time_event_next_id
  BY <1>4
<1>5. QED BY <1>2, <1>3, <1>4 DEF Callback

-------------------------------------------------------------------------------
LEMMA TypeStep == ASSUME TypeOK, [Next]_vars PROVE TypeOK'
<1> USE CenterAssumption DEF dispatchVars, loopVars, timeVars
<1>1. ASSUME NEW t \in AnyThread, dispatch_event_external(t) PROVE TypeOK'
  <2>1. awaited' \in [AnyThread -> 0 .. MaxEvents]
    BY <1>1 DEF dispatch_event_external, push, TypeOK
  <2>2. push(t)
    BY <1>1 DEF dispatch_event_external
  <2>3. QED BY <1>1, <2>1, <2>2, PushType DEF dispatch_event_external, TypeOK
<1>2. ASSUME NEW t \in AnyThread, ThreadStep(t) PROVE TypeOK'
  <2>1. CASE count(t)
    <3>1. wake' \in [AnyThread -> BOOLEAN]
      BY <2>1 DEF count, TypeOK
    <3>2. pc' \in [AnyThread -> {"idle", "count", "wakeup", "wait"}]
      BY <2>1 DEF count, TypeOK
    <3>3. external_num_events' \in Nat /\ external_lock' \in AnyThread \cup {Free}
      BY <2>1 DEF count, TypeOK
    <3>4. UNCHANGED <<external_events, awaited, pushed, pipe, done, loopVars, timeVars, now>>
      BY <2>1 DEF count
    <3>5. QED BY <3>1, <3>2, <3>3, <3>4 DEF TypeOK
  <2>2. CASE wakeup(t)
    <3>1. pipe' \in BOOLEAN
      BY <2>2 DEF wakeup
    <3>2. pc' \in [AnyThread -> {"idle", "count", "wakeup", "wait"}]
      BY <2>2 DEF wakeup, TypeOK
    <3>3. QED BY <2>2, <3>1, <3>2 DEF wakeup, TypeOK
  <2>3. CASE submit_to_done(t)
    <3>1. /\ pc \in [AnyThread -> {"idle", "count", "wakeup", "wait"}]
          /\ awaited \in [AnyThread -> 0 .. MaxEvents]
          /\ pc' = [pc EXCEPT ![t] = "idle"] /\ awaited' = [awaited EXCEPT ![t] = 0]
          /\ 0 \in 0 .. MaxEvents
      BY <2>3 DEF submit_to_done, TypeOK
    <3>2. UNCHANGED <<external_events, external_num_events, external_lock, wake, pushed,
                      pipe, done, loopVars, timeVars, now>>
      BY <2>3 DEF submit_to_done
    <3>3. /\ pc' \in [AnyThread -> {"idle", "count", "wakeup", "wait"}]
          /\ awaited' \in [AnyThread -> 0 .. MaxEvents]
      BY <3>1
    <3>4. QED BY <3>2, <3>3 DEF TypeOK
  <2>4. QED BY <1>2, <2>1, <2>2, <2>3 DEF ThreadStep
<1>3. CASE stop \/ tick
  <2>1. CASE stop
    BY <2>1 DEF stop, TypeOK
  <2>2. CASE tick
    <3>1. now' \in 0 .. MaxNow
      BY <2>2 DEF tick, TypeOK
    <3>2. UNCHANGED <<dispatchVars, pipe, done, loopVars, timeVars>>
      BY <2>2 DEF tick
    <3>3. QED BY <3>1, <3>2 DEF TypeOK
  <2>3. QED BY <1>3, <2>1, <2>2
<1>4. CASE \/ begin \/ begin_stopped \/ event_wait \/ handle_notify \/ fire_none
           \/ check_external \/ run_none
  <2>1. CASE begin
    <3>1. blocking' \in BOOLEAN /\ trigger_time' \in BOOLEAN
      BY <2>1 DEF begin, may_block
    <3>2. deadline' \in Nat
      BY <2>1 DEF begin, may_block, TypeOK
    <3>3. QED BY <2>1, <3>1, <3>2 DEF begin, TypeOK
  <2>2. CASE event_wait
    BY <2>2 DEF event_wait, TypeOK
  <2>3. CASE handle_notify
    <3>1. pipe' \in BOOLEAN
      BY <2>3 DEF handle_notify
    <3>2. QED BY <2>3, <3>1 DEF handle_notify, TypeOK
  <2>4. CASE begin_stopped \/ fire_none \/ run_none
    BY <2>4 DEF begin_stopped, fire_none, run_none, TypeOK
  <2>5. CASE check_external
    BY <2>5 DEF check_external, TypeOK
  <2>6. QED BY <1>4, <2>1, <2>2, <2>3, <2>4, <2>5
<1>5. CASE fire
  <2>1. PICK e \in time_events : fired' = Append(fired, e.id)
                                 /\ Callback(time_events \ {e}, event_map \ {e.id})
    BY <1>5 DEF fire
  <2>2. e.id \in 1 .. MaxTimers
    BY DEF TypeOK, Timer
  <2>3. fired' \in Seq(1 .. MaxTimers)
    BY <2>1, <2>2, AppendProperties DEF TypeOK
  <2>4. Dispatched
    BY <2>1, CallbackDispatched
  <2>5. /\ time_events' \subseteq Timer /\ event_map' \subseteq 1 .. MaxTimers
        /\ time_event_next_id' \in 1 .. MaxTimers + 1 /\ deleted' \subseteq 1 .. MaxTimers
    BY <2>1, CallbackType
  <2>6. QED BY <1>5, <2>3, <2>4, <2>5, DispatchedType DEF fire, TypeOK
<1>6. CASE swap
  BY <1>6, EmptySeq DEF swap, TypeOK
<1>7. CASE run
  <2>1. Head(cur_process) \in 1 .. MaxEvents /\ Tail(cur_process) \in Seq(1 .. MaxEvents)
    BY <1>7, HeadTailProperties DEF run, TypeOK
  <2>2. ran' \in Seq(1 .. MaxEvents)
    BY <1>7, <2>1, AppendProperties DEF run, TypeOK
  <2>3. Callback(time_events, event_map)
    BY <1>7 DEF run
  <2>4. Dispatched
    BY <2>3, CallbackDispatched
  <2>5. /\ time_events' \subseteq Timer /\ event_map' \subseteq 1 .. MaxTimers
        /\ time_event_next_id' \in 1 .. MaxTimers + 1 /\ deleted' \subseteq 1 .. MaxTimers
    BY <2>3, CallbackType
  <2>6. QED BY <1>7, <2>1, <2>2, <2>4, <2>5, DispatchedType DEF run, TypeOK
<1>8. CASE UNCHANGED vars
  BY <1>8 DEF vars, TypeOK
<1>9. QED BY <1>1, <1>2, <1>3, <1>4, <1>5, <1>6, <1>7, <1>8 DEF Next, LoopStep

-------------------------------------------------------------------------------
LEMMA PushLock ==
  ASSUME TypeOK, LockInv, NEW t \in AnyThread, push(t), pc[t] # "count",
         UNCHANGED external_num_events
  PROVE  /\ \A u \in AnyThread : pc'[u] = "count" <=> external_lock' = u
         /\ external_num_events' + (IF external_lock' = Free THEN 0 ELSE 1)
               = Len(external_events')
<1> USE CenterAssumption DEF push, LockInv, TypeOK, AnyThread, Free
<1>1. Len(external_events') = Len(external_events) + 1
  <2>1. pushed + 1 \in 1 .. MaxEvents
    OBVIOUS
  <2>2. external_events \in Seq(1 .. MaxEvents) /\ external_events' = Append(external_events, pushed + 1)
    OBVIOUS
  <2>3. QED BY <2>1, <2>2, AppendProperties
<1>2. \A u \in AnyThread : pc'[u] = "count" <=> external_lock' = u
  OBVIOUS
<1>3. QED BY <1>1, <1>2

LEMMA DispatchedLock ==
  ASSUME TypeOK, LockInv, Dispatched, pc[Loop] = "idle", loop' = loop,
         loop \in {"timers", "run"}
  PROVE  LockInv'
<1>1. CASE UNCHANGED dispatchVars
  BY <1>1 DEF LockInv, dispatchVars
<1>2. CASE push(Loop) /\ UNCHANGED <<external_num_events, wake, awaited>>
  <2>1. Loop \in AnyThread /\ pc[Loop] # "count"
    BY DEF AnyThread
  <2>2. QED BY <1>2, <2>1, PushLock DEF LockInv
<1>3. QED BY <1>1, <1>2 DEF Dispatched

LEMMA LockStep == ASSUME TypeOK, LockInv, [Next]_vars PROVE LockInv'
<1> USE CenterAssumption DEF dispatchVars, loopVars, timeVars
<1>1. ASSUME NEW t \in AnyThread, dispatch_event_external(t) PROVE LockInv'
  <2>1. push(t) /\ pc[t] # "count" /\ t # Loop /\ UNCHANGED <<external_num_events, loop>>
    BY <1>1 DEF dispatch_event_external
  <2>2. pc'[Loop] = pc[Loop]
    BY <2>1 DEF push, TypeOK, AnyThread
  <2>3. QED BY <2>1, <2>2, PushLock DEF LockInv
<1>2. ASSUME NEW t \in AnyThread, ThreadStep(t) PROVE LockInv'
  <2>1. CASE count(t)
    <3>1. external_lock = t /\ t # Free
      BY <2>1 DEF count, LockInv, AnyThread, Free
    <3>2. \A u \in AnyThread : pc'[u] = "count" <=> external_lock' = u
      BY <2>1, <3>1 DEF count, LockInv, TypeOK, AnyThread, Free
    <3>3. pc'[Loop] # "idle" => loop' \in {"timers", "run"}
      BY <2>1 DEF count, LockInv, TypeOK, AnyThread
    <3>4. external_num_events' = Len(external_events') /\ external_lock' = Free
      BY <2>1, <3>1 DEF count, LockInv, TypeOK
    <3>5. QED BY <3>2, <3>3, <3>4 DEF LockInv, TypeOK
  <2>2. CASE wakeup(t)
    <3>1. \A u \in AnyThread : pc'[u] = "count" <=> pc[u] = "count"
      BY <2>2 DEF wakeup, TypeOK
    <3>2. pc'[Loop] # "idle" => pc[Loop] # "idle"
      BY <2>2 DEF wakeup, TypeOK, AnyThread
    <3>3. QED BY <2>2, <3>1, <3>2 DEF wakeup, LockInv
  <2>3. CASE submit_to_done(t)
    <3>1. \A u \in AnyThread : pc'[u] = "count" <=> pc[u] = "count"
      BY <2>3 DEF submit_to_done, TypeOK
    <3>2. pc'[Loop] # "idle" => pc[Loop] # "idle"
      BY <2>3 DEF submit_to_done, TypeOK, AnyThread
    <3>3. QED BY <2>3, <3>1, <3>2 DEF submit_to_done, LockInv
  <2>4. QED BY <1>2, <2>1, <2>2, <2>3 DEF ThreadStep
<1>3. CASE stop \/ tick
  BY <1>3 DEF stop, tick, LockInv
<1>4. CASE \/ begin \/ begin_stopped \/ event_wait \/ handle_notify \/ fire_none
           \/ check_external \/ run_none
  <2>1. pc[Loop] = "idle" /\ UNCHANGED dispatchVars
    BY <1>4 DEF begin, begin_stopped, event_wait, handle_notify, fire_none, check_external,
                run_none, at
  <2>2. QED BY <2>1 DEF LockInv
<1>5. CASE fire
  <2>1. pc[Loop] = "idle" /\ loop = "timers" /\ loop' = loop /\ Dispatched
    BY <1>5, CallbackDispatched DEF fire, at
  <2>2. QED BY <2>1, DispatchedLock
<1>6. CASE swap
  <2>1. external_events' = <<>> /\ external_num_events' = 0 /\ external_lock' = Free
    BY <1>6 DEF swap
  <2>2. UNCHANGED <<pc, external_lock>> /\ pc[Loop] = "idle"
    BY <1>6 DEF swap, at
  <2>3. QED BY <2>1, <2>2 DEF LockInv
<1>7. CASE run
  <2>1. pc[Loop] = "idle" /\ loop = "run" /\ loop' = loop /\ Dispatched
    BY <1>7, CallbackDispatched DEF run, at
  <2>2. QED BY <2>1, DispatchedLock
<1>8. CASE UNCHANGED vars
  BY <1>8 DEF vars, LockInv
<1>9. QED BY <1>1, <1>2, <1>3, <1>4, <1>5, <1>6, <1>7, <1>8 DEF Next, LoopStep

-------------------------------------------------------------------------------
LEMMA WakeStep == ASSUME TypeOK, LockInv, WakeInv, [Next]_vars PROVE WakeInv'
<1> USE CenterAssumption DEF dispatchVars, loopVars, timeVars
<1>1. ASSUME NEW t \in AnyThread, dispatch_event_external(t) PROVE WakeInv'
  <2>1. \A u \in Threads : pc[u] = "wakeup" => pc'[u] = "wakeup"
    BY <1>1 DEF dispatch_event_external, push, TypeOK, AnyThread
  <2>2. UNCHANGED <<loop, blocking, external_num_events, pipe, wake>>
    BY <1>1 DEF dispatch_event_external
  <2>3. QED BY <2>1, <2>2 DEF WakeInv
<1>2. ASSUME NEW t \in AnyThread, ThreadStep(t) PROVE WakeInv'
  <2>1. CASE count(t)
    <3>1. CASE t = Loop
      <4>1. loop # "event_wait"
        BY <2>1, <3>1 DEF count, LockInv
      <4>2. QED BY <4>1, <2>1 DEF count, WakeInv
    <3>2. CASE t \in Threads /\ external_num_events = 0
      <4>1. wake'[t] /\ pc'[t] = "wakeup"
        BY <2>1, <3>2 DEF count, TypeOK
      <4>2. QED BY <3>2, <4>1 DEF WakeInv
    <3>3. CASE t \in Threads /\ external_num_events > 0
      <4>1. \A u \in Threads : pc[u] = "wakeup" => /\ pc'[u] = "wakeup"
                                                   /\ wake'[u] = wake[u]
        BY <2>1 DEF count, TypeOK, AnyThread
      <4>2. UNCHANGED <<loop, blocking, pipe>>
        BY <2>1 DEF count
      <4>3. QED BY <3>3, <4>1, <4>2 DEF WakeInv
    <3>4. QED BY <3>1, <3>2, <3>3 DEF AnyThread, TypeOK
  <2>2. CASE wakeup(t)
    <3>1. UNCHANGED <<loop, blocking, external_num_events, wake>> /\ (pipe => pipe')
      BY <2>2 DEF wakeup
    <3>2. CASE t \in Threads /\ wake[t]
      BY <2>2, <3>2 DEF wakeup, WakeInv
    <3>3. CASE ~(t \in Threads /\ wake[t])
      <4>1. \A u \in Threads : pc[u] = "wakeup" /\ wake[u] => pc'[u] = "wakeup"
        BY <2>2, <3>3 DEF wakeup, TypeOK, AnyThread
      <4>2. QED BY <3>1, <4>1 DEF WakeInv
    <3>4. QED BY <3>2, <3>3
  <2>3. CASE submit_to_done(t)
    <3>1. \A u \in Threads : pc[u] = "wakeup" => pc'[u] = "wakeup"
      BY <2>3 DEF submit_to_done, TypeOK, AnyThread
    <3>2. UNCHANGED <<loop, blocking, external_num_events, pipe, wake>>
      BY <2>3 DEF submit_to_done
    <3>3. QED BY <3>1, <3>2 DEF WakeInv
  <2>4. QED BY <1>2, <2>1, <2>2, <2>3 DEF ThreadStep
<1>3. CASE stop
  BY <1>3 DEF stop, WakeInv
<1>4. CASE tick
  BY <1>4 DEF tick, WakeInv
<1>5. CASE begin
  <2>1. blocking' => external_num_events' = 0
    BY <1>5 DEF begin, may_block
  <2>2. QED BY <2>1 DEF WakeInv
<1>6. CASE \/ begin_stopped \/ event_wait \/ handle_notify \/ fire \/ fire_none
           \/ check_external \/ swap \/ run \/ run_none
  <2>1. loop' # "event_wait"
    BY <1>6 DEF begin_stopped, event_wait, handle_notify, fire, fire_none, check_external,
                swap, run, run_none, at
  <2>2. QED BY <2>1 DEF WakeInv
<1>7. CASE UNCHANGED vars
  BY <1>7 DEF vars, WakeInv
<1>8. QED BY <1>1, <1>2, <1>3, <1>4, <1>5, <1>6, <1>7 DEF Next, LoopStep

-------------------------------------------------------------------------------
(* The three sequences together, before and after each of the ways they change. *)
All == ran \o cur_process \o external_events

LEMMA AllProps ==
  ASSUME TypeOK
  PROVE  /\ All \in Seq(1 .. MaxEvents)
         /\ All = (ran \o cur_process) \o external_events
         /\ All = ran \o (cur_process \o external_events)
<1> DEFINE S == 1 .. MaxEvents
<1>1. ran \in Seq(S) /\ cur_process \in Seq(S) /\ external_events \in Seq(S)
  BY DEF TypeOK
<1>2. ran \o cur_process \in Seq(S)
  BY <1>1, ConcatProperties
<1>3. All \in Seq(S)
  BY <1>1, <1>2, ConcatProperties DEF All
<1>4. (ran \o cur_process) \o external_events = ran \o (cur_process \o external_events)
  BY <1>1, ConcatAssociative
<1>5. QED BY <1>3, <1>4 DEF All

LEMMA PushAll ==
  ASSUME TypeOK, RunInOrder, NEW t, push(t), NEW r \in Seq(1 .. MaxEvents),
         NEW c \in Seq(1 .. MaxEvents), r \o c = ran \o cur_process
  PROVE  r \o c \o external_events' = [i \in 1 .. pushed' |-> i]
<1> DEFINE S == 1 .. MaxEvents
<1>1. pushed + 1 \in S /\ pushed' = pushed + 1 /\ pushed \in Nat
  BY CenterAssumption DEF push, TypeOK
<1>2. external_events' = external_events \o <<pushed + 1>>
  BY <1>1, AppendIsConcat DEF push, TypeOK
<1>3. r \o c \in Seq(S) /\ external_events \in Seq(S) /\ <<pushed + 1>> \in Seq(S)
  BY <1>1, ConcatProperties DEF TypeOK
<1>4. r \o c \o external_events' = (r \o c \o external_events) \o <<pushed + 1>>
  <2>1. ((r \o c) \o external_events) \o <<pushed + 1>>
          = (r \o c) \o (external_events \o <<pushed + 1>>)
    <3> DEFINE a == r \o c
               d == <<pushed + 1>>
    <3>1. a \in Seq(S) /\ external_events \in Seq(S) /\ d \in Seq(S)
      BY <1>3
    <3> HIDE DEF a, d, S
    <3>2. (a \o external_events) \o d = a \o (external_events \o d)
      BY <3>1, ConcatAssociative
    <3>3. QED BY <3>2 DEF a, d
  <2>2. QED BY <1>2, <2>1
<1>5. r \o c \o external_events = All
  BY DEF All
<1>6. All \o <<pushed + 1>> = Append(All, pushed + 1)
  BY <1>1, AllProps, AppendIsConcat
<1>7. Append([i \in 1 .. pushed |-> i], pushed + 1) = [i \in 1 .. pushed + 1 |-> i]
  BY <1>1
<1>8. QED BY <1>1, <1>4, <1>5, <1>6, <1>7 DEF RunInOrder, All

LEMMA DispatchedOrder ==
  ASSUME TypeOK, RunInOrder, Dispatched, TypeOK',
         ran' \o cur_process' = ran \o cur_process
  PROVE  RunInOrder'
<1>1. CASE UNCHANGED dispatchVars
  BY <1>1 DEF RunInOrder, dispatchVars
<1>2. CASE push(Loop)
  <2>1. ran' \in Seq(1 .. MaxEvents) /\ cur_process' \in Seq(1 .. MaxEvents)
    BY DEF TypeOK
  <2>2. QED BY <1>2, <2>1, PushAll DEF RunInOrder
<1>3. QED BY <1>1, <1>2 DEF Dispatched

LEMMA OrderStep == ASSUME TypeOK, TypeOK', OrderInv, [Next]_vars PROVE OrderInv'
<1> USE DEF dispatchVars, loopVars, timeVars
<1>1. ASSUME NEW t \in AnyThread, dispatch_event_external(t) PROVE OrderInv'
  <2>1. push(t) /\ UNCHANGED <<loop, ran, cur_process>>
    BY <1>1 DEF dispatch_event_external
  <2>2. ran \o cur_process \o external_events' = [i \in 1 .. pushed' |-> i]
    BY <2>1, PushAll DEF OrderInv, TypeOK
  <2>3. QED BY <2>1, <2>2 DEF OrderInv, RunInOrder
<1>2. ASSUME NEW t \in AnyThread, ThreadStep(t) PROVE OrderInv'
  BY <1>2 DEF ThreadStep, count, wakeup, submit_to_done, OrderInv, RunInOrder
<1>3. CASE stop \/ tick
  BY <1>3 DEF stop, tick, OrderInv, RunInOrder
<1>4. CASE \/ begin \/ begin_stopped \/ event_wait \/ handle_notify \/ fire_none
           \/ check_external \/ run_none
  <2>1. UNCHANGED <<ran, external_events, pushed, cur_process>> /\ loop' # "run"
    BY <1>4 DEF begin, begin_stopped, event_wait, handle_notify, fire_none, check_external,
                run_none
  <2>2. cur_process = <<>>
    BY <1>4 DEF begin, begin_stopped, event_wait, handle_notify, fire_none, check_external,
                run_none, at, OrderInv
  <2>3. QED BY <2>1, <2>2 DEF OrderInv, RunInOrder
<1>5. CASE fire
  <2>1. Dispatched /\ UNCHANGED <<loop, ran, cur_process>>
    BY <1>5, CallbackDispatched DEF fire
  <2>2. QED BY <2>1, DispatchedOrder DEF OrderInv
<1>6. CASE swap
  <2>1. cur_process = <<>> /\ external_events' = <<>> /\ cur_process' = external_events
        /\ ran' = ran /\ pushed' = pushed /\ loop' = "run"
    BY <1>6 DEF swap, at, OrderInv
  <2>2. All = ran \o external_events
    BY <2>1, ConcatEmptySeq DEF All, TypeOK
  <2>3. All' = ran \o external_events
    BY <2>1, ConcatEmptySeq, ConcatProperties DEF All, TypeOK
  <2>4. QED BY <2>1, <2>2, <2>3 DEF OrderInv, RunInOrder, All
<1>7. CASE run
  <2>1. cur_process = <<Head(cur_process)>> \o Tail(cur_process)
        /\ Head(cur_process) \in 1 .. MaxEvents /\ Tail(cur_process) \in Seq(1 .. MaxEvents)
    BY <1>7, HeadTailProperties DEF run, TypeOK
  <2>2. ran' = ran \o <<Head(cur_process)>> /\ cur_process' = Tail(cur_process)
    BY <1>7, <2>1, AppendIsConcat DEF run, TypeOK
  <2>3. ran' \o cur_process' = ran \o cur_process
    <3>1. ran \in Seq(1 .. MaxEvents) /\ <<Head(cur_process)>> \in Seq(1 .. MaxEvents)
      BY <2>1 DEF TypeOK
    <3>2. (ran \o <<Head(cur_process)>>) \o Tail(cur_process)
            = ran \o (<<Head(cur_process)>> \o Tail(cur_process))
      BY <2>1, <3>1, ConcatAssociative
    <3>3. QED BY <2>1, <2>2, <3>2
  <2>4. Dispatched /\ loop' = loop /\ loop = "run"
    BY <1>7, CallbackDispatched DEF run, at
  <2>5. QED BY <2>3, <2>4, DispatchedOrder DEF OrderInv
<1>8. CASE UNCHANGED vars
  BY <1>8 DEF vars, OrderInv, RunInOrder
<1>9. QED BY <1>1, <1>2, <1>3, <1>4, <1>5, <1>6, <1>7, <1>8 DEF Next, LoopStep

-------------------------------------------------------------------------------
Fired == {fired[i] : i \in DOMAIN fired}

LEMMA FiredProps ==
  ASSUME TypeOK, TimerInv
  PROVE  /\ Fired \in SUBSET Int /\ Fired \cap (deleted \cup event_map) = {}
         /\ \A id \in Fired : id < time_event_next_id
         /\ event_map = {f.id : f \in time_events}
<1>1. \A i \in DOMAIN fired : fired[i] \in 1 .. MaxTimers
  BY ElementOfSeq, LenProperties DEF TypeOK
<1>2. Fired \in SUBSET Int
  BY <1>1 DEF Fired
<1>3. QED BY <1>2 DEF Fired, TimerInv, TimersConsistent

\* A callback run with timers and map pending and f fired leaves the tables
\* consistent if they were.
LEMMA CallbackTimers ==
  ASSUME TypeOK, NEW timers \in SUBSET time_events, NEW map \in SUBSET event_map,
         Callback(timers, map), TimerInv, NEW F \in SUBSET Int,
         map = {e.id : e \in timers}, F \cap (deleted \cup map) = {},
         \A id \in F : id < time_event_next_id
  PROVE  /\ event_map' = {e.id : e \in time_events'}
         /\ \A e, f \in time_events' : e.id = f.id => e = f
         /\ F \cap (deleted' \cup event_map') = {} /\ event_map' \cap deleted' = {}
         /\ \A id \in event_map' \cup deleted' \cup F : id < time_event_next_id'
<1> DEFINE Goal == /\ event_map' = {e.id : e \in time_events'}
                   /\ \A e, f \in time_events' : e.id = f.id => e = f
                   /\ F \cap (deleted' \cup event_map') = {}
                   /\ event_map' \cap deleted' = {}
                   /\ \A id \in event_map' \cup deleted' \cup F : id < time_event_next_id'
<1>1. /\ \A e, f \in timers : e.id = f.id => e = f
      /\ \A id \in map \cup deleted \cup F : id \in Int /\ id < time_event_next_id
      /\ time_event_next_id \in Int /\ map \cap deleted = {}
  <2>1. map \cap deleted = {}
    BY DEF TimerInv
  <2>2. \A id \in map \cup deleted \cup F : id \in Int /\ id < time_event_next_id
    BY DEF TimerInv, TypeOK
  <2>3. QED BY <2>1, <2>2 DEF TimerInv, TypeOK
<1>2. CASE time_events' = timers /\ event_map' = map /\ UNCHANGED <<time_event_next_id, deleted>>
  BY <1>1, <1>2
<1>3. ASSUME NEW expire,
             time_events' = timers \cup {[id |-> time_event_next_id, expire |-> expire]},
             event_map' = map \cup {time_event_next_id},
             time_event_next_id' = time_event_next_id + 1,
             UNCHANGED deleted
      PROVE  Goal
  <2> DEFINE new == [id |-> time_event_next_id, expire |-> expire]
  <2>0. new.id = time_event_next_id /\ time_events' = timers \cup {new}
    BY <1>3
  <2> HIDE DEF new
  <2>1. \A e \in timers : e.id # time_event_next_id
    BY <1>1
  <2>2. event_map' = {e.id : e \in time_events'}
    BY <1>3, <2>0
  <2>3. \A e, f \in time_events' : e.id = f.id => e = f
    BY <1>1, <2>0, <2>1
  <2>4. F \cap (deleted' \cup event_map') = {} /\ event_map' \cap deleted' = {}
    BY <1>1, <1>3
  <2>5. \A id \in event_map' \cup deleted' \cup F : id < time_event_next_id'
    BY <1>1, <1>3
  <2>6. QED BY <2>2, <2>3, <2>4, <2>5
<1>4. ASSUME NEW id,
             time_events' = {e \in timers : id \notin map \/ e.id # id},
             event_map' = map \ {id},
             deleted' = IF id \in map THEN deleted \cup {id} ELSE deleted,
             UNCHANGED time_event_next_id
      PROVE  Goal
  BY <1>1, <1>4
<1>5. QED BY <1>2, <1>3, <1>4 DEF Callback

LEMMA TimerStep == ASSUME TypeOK, TypeOK', TimerInv, [Next]_vars PROVE TimerInv'
<1> USE DEF dispatchVars, loopVars, timeVars
<1>1. CASE UNCHANGED timeVars
  BY <1>1 DEF TimerInv, TimersConsistent
<1>2. CASE fire
  <2>1. PICK e \in time_events : fired' = Append(fired, e.id)
                                 /\ Callback(time_events \ {e}, event_map \ {e.id})
    BY <1>2 DEF fire
  <2>2. e.id \in 1 .. MaxTimers /\ e.id \in event_map /\ e.id \notin Fired
        /\ e.id \notin deleted /\ e.id < time_event_next_id
    <3>1. e.id \in 1 .. MaxTimers
      BY DEF TypeOK, Timer
    <3>2. e.id \in event_map
      BY DEF TimerInv, TimersConsistent
    <3>3. e.id \notin Fired /\ e.id \notin deleted
      BY <3>2, FiredProps DEF TimerInv
    <3>4. e.id < time_event_next_id
      BY <3>2 DEF TimerInv
    <3>5. QED BY <3>1, <3>2, <3>3, <3>4
  <2>3. event_map \ {e.id} = {f.id : f \in time_events \ {e}}
    BY <2>2 DEF TimerInv, TimersConsistent
  <2>4. /\ Len(fired') = Len(fired) + 1 /\ fired'[Len(fired) + 1] = e.id
        /\ \A i \in 1 .. Len(fired) : fired'[i] = fired[i]
        /\ DOMAIN fired = 1 .. Len(fired) /\ DOMAIN fired' = 1 .. Len(fired) + 1
        /\ Len(fired) \in Nat
    <3>1. fired \in Seq(1 .. MaxTimers) /\ fired' = Append(fired, e.id)
      BY <2>1 DEF TypeOK
    <3>2. fired' \in Seq(1 .. MaxTimers)
      BY <2>2, <3>1, AppendProperties
    <3>3. QED BY <2>2, <3>1, <3>2, AppendProperties, LenProperties
  <2>5. Fired' = Fired \cup {e.id}
    BY <2>4 DEF Fired
  <2>6. Fired' \in SUBSET Int /\ Fired' \cap (deleted \cup (event_map \ {e.id})) = {}
        /\ \A id \in Fired' : id < time_event_next_id
    <3>1. Fired \cap deleted = {} /\ Fired \cap event_map = {}
      BY FiredProps
    <3>2. QED BY <2>2, <2>5, <3>1, FiredProps
  <2>7. /\ event_map' = {f.id : f \in time_events'}
        /\ \A f, g \in time_events' : f.id = g.id => f = g
        /\ Fired' \cap (deleted' \cup event_map') = {} /\ event_map' \cap deleted' = {}
        /\ \A id \in event_map' \cup deleted' \cup Fired' : id < time_event_next_id'
    <3>1. time_events \ {e} \in SUBSET time_events /\ event_map \ {e.id} \in SUBSET event_map
      OBVIOUS
    <3> DEFINE F == Fired'
               timers == time_events \ {e}
               map == event_map \ {e.id}
    <3>2. /\ F \in SUBSET Int /\ F \cap (deleted \cup map) = {}
          /\ \A id \in F : id < time_event_next_id
          /\ map = {f.id : f \in timers} /\ Callback(timers, map)
          /\ timers \in SUBSET time_events /\ map \in SUBSET event_map
      BY <2>1, <2>3, <2>6, <3>1
    <3> HIDE DEF F, timers, map
    <3>3. /\ event_map' = {f.id : f \in time_events'}
          /\ \A f, g \in time_events' : f.id = g.id => f = g
          /\ F \cap (deleted' \cup event_map') = {} /\ event_map' \cap deleted' = {}
          /\ \A id \in event_map' \cup deleted' \cup F : id < time_event_next_id'
      BY <3>2, CallbackTimers
    <3>4. QED BY <3>3 DEF F
  <2>8. \A i, j \in DOMAIN fired' : fired'[i] = fired'[j] => i = j
    BY <2>2, <2>4 DEF TimerInv, TimersConsistent, Fired
  <2>9. QED BY <2>7, <2>8 DEF TimerInv, TimersConsistent, Fired
<1>3. CASE run
  <2>1. Callback(time_events, event_map) /\ fired' = fired
    BY <1>3 DEF run
  <2>2. /\ Fired \in SUBSET Int /\ Fired \cap (deleted \cup event_map) = {}
        /\ \A id \in Fired : id < time_event_next_id
        /\ event_map = {f.id : f \in time_events}
    BY FiredProps
  <2>3. /\ event_map' = {f.id : f \in time_events'}
        /\ \A f, g \in time_events' : f.id = g.id => f = g
        /\ Fired \cap (deleted' \cup event_map') = {} /\ event_map' \cap deleted' = {}
        /\ \A id \in event_map' \cup deleted' \cup Fired : id < time_event_next_id'
    BY <2>1, <2>2, CallbackTimers
  <2>4. QED BY <2>1, <2>3 DEF TimerInv, TimersConsistent, Fired
<1>4. QED BY <1>1, <1>2, <1>3 DEF Next, LoopStep, ThreadStep, vars, dispatch_event_external,
        count, wakeup, submit_to_done, stop, tick, begin, begin_stopped, event_wait,
        handle_notify, fire_none, check_external, swap, run_none

-------------------------------------------------------------------------------
LEMMA InitInv == Init => IInv
<1> SUFFICES ASSUME Init PROVE IInv
  OBVIOUS
<1> USE CenterAssumption DEF Init
<1>1. TypeOK
  <2>1. <<>> \in Seq(1 .. MaxEvents) /\ <<>> \in Seq(1 .. MaxTimers)
    BY EmptySeq
  <2>2. /\ pc \in [AnyThread -> {"idle", "count", "wakeup", "wait"}]
        /\ wake \in [AnyThread -> BOOLEAN] /\ awaited \in [AnyThread -> 0 .. MaxEvents]
    OBVIOUS
  <2>3. time_event_next_id \in 1 .. MaxTimers + 1 /\ pushed \in 0 .. MaxEvents
        /\ now \in 0 .. MaxNow
    OBVIOUS
  <2>4. QED BY <2>1, <2>2, <2>3 DEF TypeOK
<1>2. LockInv /\ WakeInv
  BY DEF LockInv, WakeInv, AnyThread, Free
<1>3. RunInOrder
  BY DEF RunInOrder
<1>4. OrderInv /\ TimerInv
  BY <1>3 DEF OrderInv, TimerInv, TimersConsistent
<1>5. QED BY <1>1, <1>2, <1>4 DEF IInv

LEMMA Inductive == IInv /\ [Next]_vars => IInv'
<1> SUFFICES ASSUME IInv, [Next]_vars PROVE IInv'
  OBVIOUS
<1>1. TypeOK'
  BY TypeStep DEF IInv
<1>2. QED BY <1>1, LockStep, WakeStep, OrderStep, TimerStep DEF IInv

\* The invariant holds in every reachable state.
THEOREM Invariant == Spec => []IInv
BY InitInv, Inductive, PTL DEF Spec

\* All the center's state keeps its type.
THEOREM TypeCorrect == Spec => []TypeOK
<1>1. IInv => TypeOK
  BY DEF IInv
<1>2. QED BY <1>1, Invariant, PTL

\* dispatch_event_external wakes a loop that sleeps, or is about to sleep,
\* however its unlocked steps and those of process_events interleave.
THEOREM WakeupNeverLost == Spec => []NoLostWakeup
<1>1. IInv => NoLostWakeup
  <2> SUFFICES ASSUME IInv, loop = "event_wait", blocking, external_events # <<>>, ~pipe
               PROVE  \E t \in Threads : pc[t] = "count" \/ (pc[t] = "wakeup" /\ wake[t])
    BY DEF NoLostWakeup
  <2>1. CASE external_num_events > 0
    BY <2>1 DEF IInv, WakeInv
  <2>2. CASE external_num_events = 0
    <3>1. Len(external_events) # 0
      BY EmptySeq DEF IInv, TypeOK
    <3>2. external_lock \in AnyThread /\ pc[external_lock] = "count"
      BY <2>2, <3>1 DEF IInv, LockInv, TypeOK
    <3>3. external_lock # Loop
      BY <3>2 DEF IInv, LockInv
    <3>4. QED BY <3>2, <3>3 DEF AnyThread
  <2>3. QED BY <2>1, <2>2 DEF IInv, TypeOK
<1>2. QED BY <1>1, Invariant, PTL

\* process_events runs the external events once each, in the order of pushing.
THEOREM EventsRunInOrder == Spec => []RunInOrder
<1>1. IInv => RunInOrder
  BY DEF IInv, OrderInv
<1>2. QED BY <1>1, Invariant, PTL

\* A time event fires at most once, and never once it was deleted.
THEOREM TimersStayConsistent == Spec => []TimersConsistent
<1>1. IInv => TimersConsistent
  BY DEF IInv, TimerInv
<1>2. QED BY <1>1, Invariant, PTL
===============================================================================
