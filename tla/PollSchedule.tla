---------------------------- MODULE PollSchedule ----------------------------
(***************************************************************************)
(* What the poll engine promises its callers, without its timer, channels  *)
(* or store: a set of scheduled attributes, each with a due time, and a    *)
(* poll of one of them that happens only while polling is enabled, never   *)
(* before the attribute is due and never sooner than backoff seconds after *)
(* the previous poll of any attribute.  Scheduling an attribute, or moving *)
(* its due time, never puts that due time in the past.                     *)
(***************************************************************************)
EXTENDS Naturals

CONSTANTS Attr, Backoff

VARIABLES
    sched,      \* attributes scheduled for polling
    due,        \* the time each is due
    now,        \* the clock
    lastPoll,   \* the time of the last poll
    running     \* polling is enabled

svars == <<sched, due, now, lastPoll, running>>

Init ==
    /\ sched = {}
    /\ due \in [Attr -> Nat]
    /\ now = 0
    /\ lastPoll = 0
    /\ running = TRUE

\* a's due time is set to now or later; no other due time moves.
ReDue(a) ==
    /\ due' = [due EXCEPT ![a] = due'[a]]
    /\ due'[a] \in Nat
    /\ due'[a] >= now

\* An attribute is scheduled, or its due time moved, to now or later.
Schedule(a) ==
    /\ sched' = sched \cup {a}
    /\ ReDue(a)
    /\ UNCHANGED <<now, lastPoll, running>>

\* An attribute stops being polled.
Unschedule(a) ==
    /\ sched' = sched \ {a}
    /\ UNCHANGED <<due, now, lastPoll, running>>

SetRunning ==
    /\ running' \in BOOLEAN
    /\ UNCHANGED <<sched, due, now, lastPoll>>

\* A due attribute is polled and stays scheduled, due again at now or later.
Poll(a) ==
    /\ running
    /\ a \in sched
    /\ due[a] <= now
    /\ lastPoll + Backoff <= now
    /\ lastPoll' = now
    /\ ReDue(a)
    /\ UNCHANGED <<sched, now, running>>

\* The engine restarts: nothing is scheduled, polling is enabled, the
\* backoff starts afresh, and the clock may start again from zero.
Restart ==
    /\ sched' = {}
    /\ due' \in [Attr -> Nat]
    /\ now' \in 0..now
    /\ lastPoll' = 0
    /\ running' = TRUE

Tick ==
    /\ now' = now + 1
    /\ UNCHANGED <<sched, due, lastPoll, running>>

Next ==
    \/ \E a \in Attr : Schedule(a) \/ Unschedule(a) \/ Poll(a)
    \/ SetRunning
    \/ Tick
    \/ Restart

Spec == Init /\ [][Next]_svars

=============================================================================
