----------------------------- MODULE PollEngine -----------------------------
(***************************************************************************)
(* The poll engine of unify_attribute_poll (poll_engine.rs), together with *)
(* the part of its environment it races against:                           *)
(*   - the command channel (an mpsc channel of PollEngineCommand),         *)
(*   - the attribute watcher (a stream of store change events),            *)
(*   - the single poll timer armed by schedule_poll,                       *)
(*   - the attribute store nodes it reads and writes (alive, reported      *)
(*     value, poll-mark child) and the resolver rule poll_engine_mark.     *)
(*                                                                         *)
(* One loop iteration of PollEngine::run is one atomic step: whichever of  *)
(* the three raced futures wins is dispatched to completion, and the next  *)
(* iteration immediately builds a fresh schedule_poll future, so every     *)
(* dispatch ends by re-arming the timer from the state it leaves behind.   *)
(***************************************************************************)
EXTENDS Naturals, Integers, Sequences, PollTime

CONSTANTS
    Attr,             \* attributes that commands and events may name
    Intervals,        \* intervals callers pass to Register
    DefaultInterval,  \* PollEngineConfig.default_interval
    Backoff,          \* PollEngineConfig.backoff
    MarkTypeValid,    \* poll_mark_attribute_type is not INVALID_TYPE/ROOT
    StoreMayFail,     \* the store may reject a write (type validation)
    MaxTime,          \* bound on the clock
    MaxCmds,          \* bound on commands in flight on the channel
    MaxEvents         \* bound on undelivered watcher events

ASSUME AttrAssumption == Attr # {}
ASSUME IntervalsAssumption == Intervals \subseteq Nat
ASSUME DefaultIntervalAssumption == DefaultInterval \in Nat
ASSUME BackoffAssumption == Backoff \in Nat
ASSUME FlagsAssumption == MarkTypeValid \in BOOLEAN /\ StoreMayFail \in BOOLEAN
ASSUME BoundsAssumption ==
    MaxTime \in Nat /\ MaxCmds \in Nat \ {0} /\ MaxEvents \in Nat \ {0}

VARIABLES
    inQueue,    \* attributes with an entry in the poll queue
    interval,   \* interval stored with each entry
    deadline,   \* absolute deadline of each entry
    now,        \* platform.clock_seconds()
    lastPoll,   \* PollEngine.last_poll
    running,    \* PollEngine.running
    timer,      \* absolute expiry of the armed poll timer, or NoTimer
    cmds,       \* commands sent and not yet received
    events,     \* store change events not yet read by the watcher
    alive,      \* the store node of the attribute exists
    reported,   \* the attribute has a reported value
    mark        \* its poll-mark child: "none", "pending" (no reported
                \* value: the resolver must visit it) or "resolved"

vars == <<inQueue, interval, deadline, now, lastPoll, running, timer,
          cmds, events, alive, reported, mark>>
storeVars == <<alive, reported, mark>>

NoTimer == -1
MarkStates == {"none", "pending", "resolved"}

Commands ==
    [op : {"Register"}, attr : Attr, interval : Intervals]
    \cup [op : {"Deregister", "Schedule", "Restart"}, attr : Attr]
    \cup [op : {"Enable", "Disable", "PrintQueue"}]

Events == [attr : Attr, type : {"Updated", "Deleted"}]

-----------------------------------------------------------------------------
(* The poll queue (PollEntries, behind PollQueueTrait).                    *)

\* upcoming(): the earliest deadline in the queue.
UpcomingDeadline(q, d) == CHOOSE x \in {d[a] : a \in q} : \A a \in q : x <= d[a]

\* The entries pop_next() may return: those with the earliest deadline.
Earliest(q, d) == {a \in q : \A b \in q : d[a] <= d[b]}

\* queue(attribute, interval, now): insert or replace the entry.
Queue(a, i) ==
    /\ inQueue' = inQueue \cup {a}
    /\ interval' = [interval EXCEPT ![a] = i]
    /\ deadline' = [deadline EXCEPT ![a] = now + i]

\* requeue(attribute, now): new deadline from the stored interval, if present.
Requeue(a) ==
    /\ deadline' = IF a \in inQueue
                   THEN [deadline EXCEPT ![a] = now + interval[a]]
                   ELSE deadline
    /\ UNCHANGED <<inQueue, interval>>

\* remove(attribute)
Remove(a) ==
    /\ inQueue' = inQueue \ {a}
    /\ UNCHANGED <<interval, deadline>>

-----------------------------------------------------------------------------
(* The timer of schedule_poll / is_running_and_upcoming_timeout.           *)

\* Mutant: the timer is armed whether or not the engine is running.
ArmIgnoringRunning(q, d, lp, run, t) ==
    IF q # {}
    THEN t + CalculatePollTime(Backoff, UpcomingDeadline(q, d), t, lp)
    ELSE NoTimer

\* The absolute expiry of the timer the next iteration arms, from the state
\* a dispatch leaves: none when paused or when the queue is empty.
Arm(q, d, lp, run, t) ==
    IF run /\ q # {}
    THEN t + CalculatePollTime(Backoff, UpcomingDeadline(q, d), t, lp)
    ELSE NoTimer

\* Every dispatch ends with the next loop iteration arming the timer.
Rearm == timer' = Arm(inQueue', deadline', lastPoll', running', now)

-----------------------------------------------------------------------------
(* Commands: on_handle_command and its handlers.                           *)

OnRegister(a, i) == Queue(a, DefaultIfZero(DefaultInterval, i))

OnDeregister(a) == Remove(a)

OnSchedule(a) == Queue(a, 0)

OnRestart(a) == Requeue(a)

HandleCommand(c) ==
    /\ CASE c.op = "Register"   -> OnRegister(c.attr, c.interval)
                                   /\ UNCHANGED running
         [] c.op = "Deregister" -> OnDeregister(c.attr) /\ UNCHANGED running
         [] c.op = "Schedule"   -> OnSchedule(c.attr) /\ UNCHANGED running
         [] c.op = "Restart"    -> OnRestart(c.attr) /\ UNCHANGED running
         [] c.op = "Enable"     -> running' = TRUE
                                   /\ UNCHANGED <<inQueue, interval, deadline>>
         [] c.op = "Disable"    -> running' = FALSE
                                   /\ UNCHANGED <<inQueue, interval, deadline>>
         [] c.op = "PrintQueue" -> UNCHANGED <<inQueue, interval, deadline, running>>

\* Mutant: a command that wins the race leaves an armed timer running
\* instead of dropping it with the losing schedule_poll future.
ReceiveCommandKeepsTimer ==
    /\ cmds # <<>>
    /\ HandleCommand(Head(cmds))
    /\ cmds' = Tail(cmds)
    /\ UNCHANGED lastPoll
    /\ timer' = IF timer = NoTimer
                THEN Arm(inQueue', deadline', lastPoll', running', now)
                ELSE timer
    /\ UNCHANGED <<now, events, storeVars>>

\* The command branch of the race wins.
ReceiveCommand ==
    /\ cmds # <<>>
    /\ HandleCommand(Head(cmds))
    /\ cmds' = Tail(cmds)
    /\ UNCHANGED lastPoll
    /\ Rearm
    /\ UNCHANGED <<now, events, storeVars>>

-----------------------------------------------------------------------------
(* The watcher branch: find_updated_attribute and on_handle_attribute_update. *)

\* An event for an attribute that is not queued is read and dropped inside
\* find_updated_attribute; the race is not won, so nothing is re-armed.
DropEvent ==
    /\ events # <<>>
    /\ Head(events).attr \notin inQueue
    /\ events' = Tail(events)
    /\ UNCHANGED <<inQueue, interval, deadline, now, lastPoll, running, timer,
                   cmds, storeVars>>

OnHandleAttributeUpdate(e) ==
    IF e.type = "Deleted" THEN Remove(e.attr) ELSE Requeue(e.attr)

\* An event for a queued attribute wins the race.
ReceiveEvent ==
    /\ events # <<>>
    /\ Head(events).attr \in inQueue
    /\ OnHandleAttributeUpdate(Head(events))
    /\ events' = Tail(events)
    /\ UNCHANGED <<now, lastPoll, running, cmds, storeVars>>
    /\ Rearm

-----------------------------------------------------------------------------
(* The timer branch: do_poll.                                              *)

\* Placing the poll mark cannot succeed: emplace on a deleted node, or
\* emplace with the reserved type the store refuses.
MarkWriteFails(a) ==
    \/ ~alive[a]
    \/ mark[a] = "none" /\ ~MarkTypeValid

\* Mutant: last_poll takes the attribute's next deadline.
PollOkRecordsDeadline(a) ==
    /\ ~MarkWriteFails(a)
    /\ mark' = [mark EXCEPT ![a] = "pending"]
    /\ lastPoll' = now + interval[a]
    /\ deadline' = [deadline EXCEPT ![a] = now + interval[a]]
    /\ UNCHANGED <<inQueue, interval>>

\* Mutant: last_poll takes the earliest time the next poll may happen.
PollOkRecordsNextSlot(a) ==
    /\ ~MarkWriteFails(a)
    /\ mark' = [mark EXCEPT ![a] = "pending"]
    /\ lastPoll' = now + Backoff
    /\ deadline' = [deadline EXCEPT ![a] = now + interval[a]]
    /\ UNCHANGED <<inQueue, interval>>

\* do_poll pops a and marks it: the mark is created without a value, or
\* its reported value is cleared; last_poll := now; a is re-queued with the
\* interval pop_next returned.
PollOk(a) ==
    /\ ~MarkWriteFails(a)
    /\ mark' = [mark EXCEPT ![a] = "pending"]
    /\ lastPoll' = now
    /\ deadline' = [deadline EXCEPT ![a] = now + interval[a]]
    /\ UNCHANGED <<inQueue, interval>>

\* do_poll pops a, the mark write fails and do_poll returns early: a stays
\* out of the queue.
PollFail(a) ==
    /\ MarkWriteFails(a) \/ StoreMayFail
    /\ inQueue' = inQueue \ {a}
    /\ UNCHANGED <<interval, deadline, lastPoll, mark>>

\* The timer branch wins once the armed expiry is reached.  Its branch for
\* an empty queue (pop_next() returning None) is not an action: TimerIffWork
\* shows that no armed timer exists while the queue is empty.
TimerFires ==
    /\ timer # NoTimer
    /\ now >= timer

DoPoll(a) ==
    /\ TimerFires
    /\ a \in Earliest(inQueue, deadline)
    /\ PollOk(a) \/ PollFail(a)
    /\ UNCHANGED <<now, running, cmds, events, alive, reported>>
    /\ Rearm

-----------------------------------------------------------------------------
(* The environment.                                                        *)

Tick ==
    /\ now < MaxTime
    /\ now' = now + 1
    /\ UNCHANGED <<inQueue, interval, deadline, lastPoll, running, timer,
                   cmds, events, storeVars>>

SendCommand(c) ==
    /\ Len(cmds) < MaxCmds
    /\ cmds' = Append(cmds, c)
    /\ UNCHANGED <<inQueue, interval, deadline, now, lastPoll, running, timer,
                   events, storeVars>>

Notify(a, type) == events' = Append(events, [attr |-> a, type |-> type])

\* The device reports a value for a live attribute.
StoreReport(a) ==
    /\ alive[a]
    /\ Len(events) < MaxEvents
    /\ reported' = [reported EXCEPT ![a] = TRUE]
    /\ Notify(a, "Updated")
    /\ UNCHANGED <<inQueue, interval, deadline, now, lastPoll, running, timer,
                   cmds, alive, mark>>

\* The node is deleted together with its poll mark.
StoreDelete(a) ==
    /\ alive[a]
    /\ Len(events) < MaxEvents
    /\ alive' = [alive EXCEPT ![a] = FALSE]
    /\ reported' = [reported EXCEPT ![a] = FALSE]
    /\ mark' = [mark EXCEPT ![a] = "none"]
    /\ Notify(a, "Deleted")
    /\ UNCHANGED <<inQueue, interval, deadline, now, lastPoll, running, timer,
                   cmds>>

\* fn poll_engine_mark, invoked by the resolver on a pending mark: clear the
\* parent's reported value, then set the mark's own.  When the second
\* write is rejected the rule answers SL_STATUS_FAIL and the mark stays
\* pending.
ResolveMark(a) ==
    /\ mark[a] = "pending"
    /\ Len(events) < MaxEvents
    /\ reported' = [reported EXCEPT ![a] = FALSE]
    /\ Notify(a, "Updated")
    /\ \/ mark' = [mark EXCEPT ![a] = "resolved"]
       \/ StoreMayFail /\ UNCHANGED mark
    /\ UNCHANGED <<inQueue, interval, deadline, now, lastPoll, running, timer,
                   cmds, alive>>

\* Mutant: last_poll is kept across a restart (as if persisted), though
\* the clock may start again from boot.
RestartKeepsLastPoll ==
    /\ inQueue' = {}
    /\ interval' = [a \in Attr |-> 0]
    /\ deadline' = [a \in Attr |-> 0]
    /\ now' \in {0, now}
    /\ running' = TRUE
    /\ timer' = NoTimer
    /\ cmds' = <<>>
    /\ events' = <<>>
    /\ UNCHANGED <<lastPoll, storeVars>>

\* The process restarts: PollEngine::new builds a fresh engine (empty
\* queue, last_poll 0, running), the clock keeps counting (the process
\* alone restarted) or counts again from boot, and the channels are gone
\* with the old task.  The attribute store, and with it
\* every poll mark, is persisted.
Restart ==
    /\ inQueue' = {}
    /\ interval' = [a \in Attr |-> 0]
    /\ deadline' = [a \in Attr |-> 0]
    /\ now' \in {0, now}
    /\ lastPoll' = 0
    /\ running' = TRUE
    /\ timer' = NoTimer
    /\ cmds' = <<>>
    /\ events' = <<>>
    /\ UNCHANGED storeVars
-----------------------------------------------------------------------------

Init ==
    /\ inQueue = {}
    /\ interval = [a \in Attr |-> 0]
    /\ deadline = [a \in Attr |-> 0]
    /\ now = 0
    /\ lastPoll = 0
    /\ running = TRUE
    /\ timer = NoTimer
    /\ cmds = <<>>
    /\ events = <<>>
    /\ alive = [a \in Attr |-> TRUE]
    /\ reported \in [Attr -> BOOLEAN]
    \* poll marks are persisted in the store across restarts
    /\ mark \in [Attr -> MarkStates]

Engine ==
    \/ ReceiveCommand
    \/ ReceiveEvent
    \/ DropEvent
    \/ \E a \in Attr : DoPoll(a)

Environment ==
    \/ Tick
    \/ Restart
    \/ \E c \in Commands : SendCommand(c)
    \/ \E a \in Attr : StoreReport(a) \/ StoreDelete(a) \/ ResolveMark(a)

Next == Engine \/ Environment

Spec == Init /\ [][Next]_vars

-----------------------------------------------------------------------------
(* Properties.                                                             *)

TypeOK ==
    /\ inQueue \subseteq Attr
    /\ interval \in [Attr -> Nat]
    /\ deadline \in [Attr -> Nat]
    /\ now \in 0..MaxTime
    /\ lastPoll \in 0..MaxTime
    /\ running \in BOOLEAN
    /\ timer \in Nat \cup {NoTimer}
    /\ cmds \in Seq(Commands) /\ Len(cmds) <= MaxCmds
    /\ events \in Seq(Events) /\ Len(events) <= MaxEvents
    /\ alive \in [Attr -> BOOLEAN]
    /\ reported \in [Attr -> BOOLEAN]
    /\ mark \in [Attr -> MarkStates]

\* The assertion of calculate_poll_time (last_poll <= now) never fails:
\* last_poll is only ever a past reading of the clock.
LastPollNotFuture == lastPoll <= now

\* A timer is armed exactly when the engine runs and the queue is not
\* empty, so the "queue appears to be empty" branch of do_poll is dead and
\* the engine idles when paused.
TimerIffWork == (timer # NoTimer) <=> (running /\ inQueue # {})

\* An armed timer never expires before the backoff floor after the last
\* poll, nor before the deadline of some queued entry: the timer is never
\* stale, because every dispatch that moves a deadline, the queue or
\* last_poll drops it and arms a new one.
TimerSound ==
    timer # NoTimer =>
        /\ timer >= lastPoll + Backoff
        /\ \E a \in inQueue : deadline[a] <= timer

\* An armed timer is never later than needed: it expires no later than the
\* earliest queued deadline, the backoff floor after the last poll, or one
\* second from now (the floor for an overdue entry).  A timer left over
\* from before a Schedule, Register or Enable that brought a deadline
\* forward would postpone that poll.
TimerNotLate ==
    timer # NoTimer =>
        \/ timer <= now + 1
        \/ timer <= lastPoll + Backoff
        \/ \A a \in inQueue : timer <= deadline[a]

\* Two successful polls, of any attributes, are at least backoff seconds
\* apart (the first at least backoff after start).
PollSpacing == [][\A a \in Attr : DoPoll(a) /\ PollOk(a) => now >= lastPoll + Backoff]_vars

\* do_poll never polls an attribute before its deadline: the timer that
\* fires was armed from the queue as it is now.
NoEarlyPoll == [][\A a \in Attr : DoPoll(a) => deadline[a] <= now]_vars

\* The engine implements the abstract schedule: the queue is the set of
\* scheduled attributes, its deadlines their due times, and every dispatch,
\* poll or tick is a step of PollSchedule or leaves its state alone.  So no
\* interleaving of commands, events, failed writes and the timer polls an
\* attribute that is not queued, while disabled, before its deadline or
\* within backoff of the previous poll, or queues a deadline in the past.
Abstract == INSTANCE PollSchedule WITH sched <- inQueue, due <- deadline
AbstractSpec == Abstract!Spec

-----------------------------------------------------------------------------
(* Statements of the spec that the code does not meet (violation runs).   *)

\* Spec 4.5: Schedule polls the attribute "immediately on next timer tick".
\* Read as a one-shot request, a successful poll re-queues the attribute
\* for a later deadline.  The code stores interval 0 with the entry, so
\* after a Schedule the attribute is re-polled every backoff seconds.
ScheduleIsOneShot ==
    [][\A a \in Attr : DoPoll(a) /\ PollOk(a) => deadline'[a] > now]_vars

\* The PollEngine type comment: "The PollEngine is aware of state changes
\* inside the attribute store. There is no need for explicitly deleting the
\* entries on the event of a delete node."  Read as: an entry for a deleted
\* node is always about to be removed by the Delete event still on its way.
\* The watcher drops that event when it is read before the Register command
\* that queues the node, and the entry then stays until a poll fails on it.
DeletedNodeDequeued ==
    \A a \in inQueue :
        ~alive[a] => \E i \in DOMAIN events :
                         events[i] = [attr |-> a, type |-> "Deleted"]

=============================================================================
