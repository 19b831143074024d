-------------------------- MODULE PollEngine_proofs --------------------------
(***************************************************************************)
(* Proofs about PollEngine for every value of the constants.               *)
(*                                                                         *)
(* The main result, EngineInvariant, is that the conjunction IInv of the   *)
(* type invariant, the calculate_poll_time precondition LastPollNotFuture  *)
(* and TimerIffWork holds in every reachable state.  None of the three is  *)
(* inductive alone: the type of the timer needs the queue to be non-empty  *)
(* whenever it is armed (so that upcoming() names a deadline), and the     *)
(* timer equivalence needs the type of every argument of Arm.              *)
(***************************************************************************)
EXTENDS PollEngine, WellFoundedInduction, SequenceTheorems, TLAPS

IInv == TypeOK /\ LastPollNotFuture /\ TimerIffWork

-----------------------------------------------------------------------------
(* Lemmas about the operators of the model.                                *)

\* Every non-empty set of naturals has a least element.
LEMMA NatHasLeast ==
    ASSUME NEW T \in SUBSET Nat, T # {}
    PROVE  \E x \in T : \A y \in T : x <= y
<1>1. \E x \in T : \A y \in T : ~(<<y, x>> \in OpToRel(<, Nat))
  BY NatLessThanWellFounded, WFMin
<1>2. PICK x \in T : \A y \in T : ~(<<y, x>> \in OpToRel(<, Nat))
  BY <1>1
<1>3. ASSUME NEW y \in T PROVE x <= y
  <2>1. x \in Nat /\ y \in Nat
    OBVIOUS
  <2>2. ~(<<y, x>> \in OpToRel(<, Nat))
    BY <1>2
  <2>3. ~(y < x)
    BY <2>1, <2>2 DEF OpToRel
  <2>. QED  BY <2>1, <2>3
<1>. QED  BY <1>3

\* upcoming() names the least deadline of a non-empty queue.
LEMMA UpcomingIsLeast ==
    ASSUME NEW q \in SUBSET Attr, q # {}, NEW d \in [Attr -> Nat]
    PROVE  /\ UpcomingDeadline(q, d) \in Nat
           /\ \A a \in q : UpcomingDeadline(q, d) <= d[a]
           /\ \E a \in q : d[a] = UpcomingDeadline(q, d)
<1>1. {d[a] : a \in q} \in SUBSET Nat /\ {d[a] : a \in q} # {}
  OBVIOUS
<1>2. \E x \in {d[a] : a \in q} : \A y \in {d[a] : a \in q} : x <= y
  BY <1>1, NatHasLeast
<1>3. \E x \in {d[a] : a \in q} : \A a \in q : x <= d[a]
  BY <1>2
<1>. QED  BY <1>1, <1>3 DEF UpcomingDeadline

\* Receiving from a bounded channel keeps it typed and bounded.
LEMMA TailBounded ==
    ASSUME NEW S, NEW s \in Seq(S), s # << >>, NEW n \in Nat, Len(s) <= n
    PROVE  Tail(s) \in Seq(S) /\ Len(Tail(s)) <= n
BY HeadTailProperties

\* Sending on a channel below its bound keeps it typed and bounded.
LEMMA AppendBounded ==
    ASSUME NEW S, NEW s \in Seq(S), NEW e \in S, NEW n \in Nat, Len(s) < n
    PROVE  Append(s, e) \in Seq(S) /\ Len(Append(s, e)) <= n
BY AppendProperties

\* calculate_poll_time answers a natural number of seconds.
LEMMA CalculatePollTimeNat ==
    ASSUME NEW b \in Nat, NEW u \in Nat, NEW t \in Nat, NEW l \in Nat
    PROVE  CalculatePollTime(b, u, t, l) \in Nat
BY DEF CalculatePollTime

\* The timer the run loop arms: a natural expiry exactly when the engine
\* runs with a non-empty queue.
LEMMA ArmFacts ==
    ASSUME NEW q \in SUBSET Attr, NEW d \in [Attr -> Nat], NEW lp \in Nat,
           NEW run \in BOOLEAN, NEW t \in Nat
    PROVE  /\ Arm(q, d, lp, run, t) \in Nat \cup {NoTimer}
           /\ Arm(q, d, lp, run, t) # NoTimer <=> run /\ q # {}
<1>1. CASE run /\ q # {}
  <2>1. UpcomingDeadline(q, d) \in Nat
    BY <1>1, UpcomingIsLeast
  <2>2. CalculatePollTime(Backoff, UpcomingDeadline(q, d), t, lp) \in Nat
    BY <2>1, CalculatePollTimeNat, BackoffAssumption
  <2>. QED  BY <1>1, <2>2 DEF Arm, NoTimer
<1>2. CASE ~(run /\ q # {})
  BY <1>2 DEF Arm, NoTimer
<1>. QED  BY <1>1, <1>2

-----------------------------------------------------------------------------
(* The inductive invariant.                                                *)

LEMMA InitIInv == Init => IInv
BY BoundsAssumption, FlagsAssumption
   DEF Init, IInv, TypeOK, LastPollNotFuture, TimerIffWork, NoTimer, MarkStates

\* The timer a dispatch arms is typed and armed exactly when there is work,
\* whatever the dispatch did to the queue and the running flag.
LEMMA RearmIInv ==
    ASSUME now \in 0..MaxTime,
           inQueue' \subseteq Attr, deadline' \in [Attr -> Nat],
           lastPoll' \in 0..MaxTime, running' \in BOOLEAN,
           Rearm
    PROVE  /\ timer' \in Nat \cup {NoTimer}
           /\ (timer' # NoTimer) <=> (running' /\ inQueue' # {})
<1>1. now \in Nat /\ lastPoll' \in Nat
  BY BoundsAssumption
<1>2. /\ Arm(inQueue', deadline', lastPoll', running', now) \in Nat \cup {NoTimer}
      /\ Arm(inQueue', deadline', lastPoll', running', now) # NoTimer
         <=> running' /\ inQueue' # {}
  BY <1>1, ArmFacts
<1>. QED  BY <1>2 DEF Rearm

\* The expiry Arm computes is at or after both the backoff floor and the
\* upcoming deadline.
LEMMA ArmSound ==
    ASSUME NEW q \in SUBSET Attr, NEW d \in [Attr -> Nat], NEW lp \in Nat,
           NEW run \in BOOLEAN, NEW t \in Nat,
           Arm(q, d, lp, run, t) # NoTimer
    PROVE  /\ Arm(q, d, lp, run, t) >= lp + Backoff
           /\ \E a \in q : d[a] <= Arm(q, d, lp, run, t)
<1>1. run /\ q # {}
  BY DEF Arm
<1>2. PICK b \in q : d[b] = UpcomingDeadline(q, d)
  BY <1>1, UpcomingIsLeast
<1>3. UpcomingDeadline(q, d) \in Nat
  BY <1>1, UpcomingIsLeast
<1>4. Arm(q, d, lp, run, t)
        = t + CalculatePollTime(Backoff, UpcomingDeadline(q, d), t, lp)
  BY <1>1 DEF Arm
<1>5. /\ t + CalculatePollTime(Backoff, UpcomingDeadline(q, d), t, lp)
           >= lp + Backoff
      /\ t + CalculatePollTime(Backoff, UpcomingDeadline(q, d), t, lp)
           >= UpcomingDeadline(q, d)
  BY <1>3, BackoffAssumption DEF CalculatePollTime
<1>. QED  BY <1>2, <1>4, <1>5

\* The queue part of the state after a command handler.
LEMMA HandleCommandQueue ==
    ASSUME TypeOK, NEW c \in Commands, HandleCommand(c)
    PROVE  /\ inQueue' \subseteq Attr
           /\ interval' \in [Attr -> Nat]
           /\ deadline' \in [Attr -> Nat]
           /\ running' \in BOOLEAN
<1>. now \in Nat
  BY BoundsAssumption DEF TypeOK
<1>1. CASE c.op = "Register"
  <2>1. c.attr \in Attr /\ c.interval \in Nat
    BY <1>1, IntervalsAssumption DEF Commands
  <2>2. DefaultIfZero(DefaultInterval, c.interval) \in Nat
    BY <2>1, DefaultIntervalAssumption DEF DefaultIfZero
  <2>3. OnRegister(c.attr, c.interval) /\ UNCHANGED running
    BY <1>1 DEF HandleCommand
  <2>. QED  BY <2>1, <2>2, <2>3 DEF OnRegister, Queue, TypeOK
<1>2. CASE c.op \in {"Deregister", "Schedule", "Restart"}
  <2>1. c.attr \in Attr
    BY <1>2 DEF Commands
  <2>2. CASE c.op = "Deregister"
    <3>1. OnDeregister(c.attr) /\ UNCHANGED running
      BY <2>2 DEF HandleCommand
    <3>. QED  BY <2>1, <3>1 DEF OnDeregister, Remove, TypeOK
  <2>3. CASE c.op = "Schedule"
    <3>1. OnSchedule(c.attr) /\ UNCHANGED running
      BY <2>3 DEF HandleCommand
    <3>. QED  BY <2>1, <3>1 DEF OnSchedule, Queue, TypeOK
  <2>4. CASE c.op = "Restart"
    <3>1. OnRestart(c.attr) /\ UNCHANGED running
      BY <2>4 DEF HandleCommand
    <3>. QED  BY <2>1, <3>1 DEF OnRestart, Requeue, TypeOK
  <2>. QED  BY <1>2, <2>2, <2>3, <2>4
<1>3. CASE c.op \in {"Enable", "Disable", "PrintQueue"}
  BY <1>3 DEF HandleCommand, TypeOK
<1>. QED  BY <1>1, <1>2, <1>3 DEF Commands

LEMMA NextIInv == IInv /\ [Next]_vars => IInv'
<1> SUFFICES ASSUME IInv, [Next]_vars PROVE IInv'
  OBVIOUS
<1>. TypeOK /\ LastPollNotFuture /\ TimerIffWork
  BY DEF IInv
<1>. now \in Nat /\ MaxTime \in Nat /\ MaxCmds \in Nat /\ MaxEvents \in Nat
  BY BoundsAssumption DEF TypeOK
<1>1. CASE ReceiveCommand
  <2>1. Head(cmds) \in Commands
    BY <1>1, HeadTailProperties DEF ReceiveCommand, TypeOK
  <2>2. /\ inQueue' \subseteq Attr
        /\ interval' \in [Attr -> Nat]
        /\ deadline' \in [Attr -> Nat]
        /\ running' \in BOOLEAN
    BY <1>1, <2>1, HandleCommandQueue DEF ReceiveCommand
  <2>3. cmds' \in Seq(Commands) /\ Len(cmds') <= MaxCmds
    BY <1>1, TailBounded DEF ReceiveCommand, TypeOK
  <2>4. /\ timer' \in Nat \cup {NoTimer}
        /\ (timer' # NoTimer) <=> (running' /\ inQueue' # {})
    BY <1>1, <2>2, RearmIInv DEF ReceiveCommand, TypeOK
  <2>. QED  BY <1>1, <2>2, <2>3, <2>4
            DEF ReceiveCommand, storeVars, IInv, TypeOK, LastPollNotFuture,
                TimerIffWork
<1>2. CASE ReceiveEvent
  <2>1. Head(events) \in Events
    BY <1>2, HeadTailProperties DEF ReceiveEvent, TypeOK
  <2>2. /\ inQueue' \subseteq Attr
        /\ interval' \in [Attr -> Nat]
        /\ deadline' \in [Attr -> Nat]
    <3>1. Head(events).attr \in Attr
      BY <2>1 DEF Events
    <3>2. OnHandleAttributeUpdate(Head(events))
      BY <1>2 DEF ReceiveEvent
    <3>3. CASE Head(events).type = "Deleted"
      BY <3>1, <3>2, <3>3 DEF OnHandleAttributeUpdate, Remove, TypeOK
    <3>4. CASE Head(events).type # "Deleted"
      <4>1. Requeue(Head(events).attr)
        BY <3>2, <3>4 DEF OnHandleAttributeUpdate
      <4>2. Head(events).attr \in inQueue
        BY <1>2 DEF ReceiveEvent
      <4>3. /\ deadline' = [deadline EXCEPT ![Head(events).attr] =
                              now + interval[Head(events).attr]]
            /\ UNCHANGED <<inQueue, interval>>
        BY <4>1, <4>2 DEF Requeue
      <4>. QED  BY <3>1, <4>3 DEF TypeOK
    <3>. QED  BY <3>3, <3>4
  <2>3. events' \in Seq(Events) /\ Len(events') <= MaxEvents
    BY <1>2, TailBounded DEF ReceiveEvent, TypeOK
  <2>4. /\ timer' \in Nat \cup {NoTimer}
        /\ (timer' # NoTimer) <=> (running' /\ inQueue' # {})
    BY <1>2, <2>2, RearmIInv DEF ReceiveEvent, TypeOK
  <2>. QED  BY <1>2, <2>2, <2>3, <2>4
            DEF ReceiveEvent, storeVars, IInv, TypeOK, LastPollNotFuture,
                TimerIffWork
<1>3. CASE DropEvent
  <2>1. events' \in Seq(Events) /\ Len(events') <= MaxEvents
    BY <1>3, TailBounded DEF DropEvent, TypeOK
  <2>. QED  BY <1>3, <2>1
            DEF DropEvent, storeVars, IInv, TypeOK, LastPollNotFuture,
                TimerIffWork
<1>4. ASSUME NEW a \in Attr, DoPoll(a)
      PROVE  IInv'
  <2>1. /\ inQueue' \subseteq Attr
        /\ interval' \in [Attr -> Nat]
        /\ deadline' \in [Attr -> Nat]
        /\ lastPoll' \in 0..MaxTime
        /\ lastPoll' <= now
        /\ mark' \in [Attr -> MarkStates]
    <3>1. CASE PollOk(a)
      BY <3>1 DEF PollOk, MarkStates, TypeOK
    <3>2. CASE PollFail(a)
      BY <3>2 DEF PollFail, TypeOK, LastPollNotFuture
    <3>. QED  BY <1>4, <3>1, <3>2 DEF DoPoll
  <2>2. /\ timer' \in Nat \cup {NoTimer}
        /\ (timer' # NoTimer) <=> (running' /\ inQueue' # {})
    BY <1>4, <2>1, RearmIInv DEF DoPoll, TypeOK
  <2>. QED  BY <1>4, <2>1, <2>2
            DEF DoPoll, IInv, TypeOK, LastPollNotFuture, TimerIffWork
<1>5. CASE Tick
  BY <1>5 DEF Tick, storeVars, IInv, TypeOK, LastPollNotFuture, TimerIffWork
<1>6. ASSUME NEW c \in Commands, SendCommand(c)
      PROVE  IInv'
  <2>1. cmds' \in Seq(Commands) /\ Len(cmds') <= MaxCmds
    BY <1>6, AppendBounded DEF SendCommand, TypeOK
  <2>. QED  BY <1>6, <2>1
            DEF SendCommand, storeVars, IInv, TypeOK, LastPollNotFuture,
                TimerIffWork
<1>7. ASSUME NEW a \in Attr, NEW type \in {"Updated", "Deleted"},
             Len(events) < MaxEvents, Notify(a, type)
      PROVE  events' \in Seq(Events) /\ Len(events') <= MaxEvents
  <2>1. [attr |-> a, type |-> type] \in Events
    BY DEF Events
  <2>. QED  BY <1>7, <2>1, AppendBounded DEF Notify, TypeOK
<1>8. ASSUME NEW a \in Attr, StoreReport(a) \/ StoreDelete(a) \/ ResolveMark(a)
      PROVE  IInv'
  <2>1. CASE StoreReport(a)
    <3>1. events' \in Seq(Events) /\ Len(events') <= MaxEvents
      BY <2>1, <1>7 DEF StoreReport
    <3>. QED  BY <2>1, <3>1
              DEF StoreReport, IInv, TypeOK, LastPollNotFuture, TimerIffWork
  <2>2. CASE StoreDelete(a)
    <3>1. events' \in Seq(Events) /\ Len(events') <= MaxEvents
      BY <2>2, <1>7 DEF StoreDelete
    <3>. QED  BY <2>2, <3>1
              DEF StoreDelete, MarkStates, IInv, TypeOK, LastPollNotFuture,
                  TimerIffWork
  <2>3. CASE ResolveMark(a)
    <3>1. events' \in Seq(Events) /\ Len(events') <= MaxEvents
      BY <2>3, <1>7 DEF ResolveMark
    <3>. QED  BY <2>3, <3>1
              DEF ResolveMark, MarkStates, IInv, TypeOK, LastPollNotFuture,
                  TimerIffWork
  <2>. QED  BY <1>8, <2>1, <2>2, <2>3
<1>9. CASE UNCHANGED vars
  BY <1>9 DEF vars, IInv, TypeOK, LastPollNotFuture, TimerIffWork
<1>10. CASE Restart
  <2>1. now' \in 0..MaxTime /\ lastPoll' = 0 /\ lastPoll' <= now'
    BY <1>10, BoundsAssumption DEF Restart, TypeOK
  <2>2. /\ cmds' \in Seq(Commands) /\ Len(cmds') <= MaxCmds
        /\ events' \in Seq(Events) /\ Len(events') <= MaxEvents
    BY <1>10, BoundsAssumption DEF Restart
  <2>3. timer' = NoTimer /\ inQueue' = {}  BY <1>10 DEF Restart
  <2>. QED  BY <1>10, <2>1, <2>2, <2>3, BoundsAssumption
            DEF Restart, storeVars, IInv, TypeOK, LastPollNotFuture,
                TimerIffWork
<1>. QED
  BY <1>1, <1>2, <1>3, <1>4, <1>5, <1>6, <1>8, <1>9, <1>10
  DEF Next, Engine, Environment

\* A timer armed by a dispatch, or left armed by a step that does not
\* dispatch, respects the backoff floor and some queued deadline.
LEMMA NextTimerSound ==
    IInv /\ TimerSound /\ [Next]_vars => TimerSound'
<1> SUFFICES ASSUME IInv, TimerSound, [Next]_vars PROVE TimerSound'
  OBVIOUS
<1>. IInv'
  BY NextIInv
<1>. DEFINE Dispatched ==
       /\ Rearm
       /\ inQueue' \subseteq Attr /\ deadline' \in [Attr -> Nat]
       /\ lastPoll' \in Nat /\ running' \in BOOLEAN /\ now \in Nat
<1>1. ASSUME Dispatched PROVE TimerSound'
  <2>. SUFFICES ASSUME timer' # NoTimer
                PROVE  /\ timer' >= lastPoll' + Backoff
                       /\ \E a \in inQueue' : deadline'[a] <= timer'
    BY DEF TimerSound
  <2>. QED  BY <1>1, ArmSound DEF Rearm
<1>2. Dispatched
        \/ UNCHANGED <<timer, lastPoll, inQueue, deadline>>
        \/ timer' = NoTimer
  <2>. inQueue' \subseteq Attr /\ deadline' \in [Attr -> Nat]
       /\ lastPoll' \in Nat /\ running' \in BOOLEAN /\ now \in Nat
    BY BoundsAssumption DEF IInv, TypeOK
  <2>1. CASE ReceiveCommand \/ ReceiveEvent \/ \E a \in Attr : DoPoll(a)
    BY <2>1 DEF ReceiveCommand, ReceiveEvent, DoPoll
  <2>2. CASE DropEvent \/ Tick \/ \E c \in Commands : SendCommand(c)
    BY <2>2 DEF DropEvent, Tick, SendCommand
  <2>3. CASE \E a \in Attr : StoreReport(a) \/ StoreDelete(a) \/ ResolveMark(a)
    BY <2>3 DEF StoreReport, StoreDelete, ResolveMark
  <2>4. CASE UNCHANGED vars
    BY <2>4 DEF vars
  <2>5. CASE Restart
    BY <2>5 DEF Restart
  <2>. QED  BY <2>1, <2>2, <2>3, <2>4, <2>5 DEF Next, Engine, Environment
<1>3. ASSUME UNCHANGED <<timer, lastPoll, inQueue, deadline>>
      PROVE  TimerSound'
  BY <1>3 DEF TimerSound
<1>4. ASSUME timer' = NoTimer PROVE TimerSound'
  BY <1>4 DEF TimerSound
<1>. QED  BY <1>1, <1>2, <1>3, <1>4

\* The type invariant, the precondition of calculate_poll_time and the
\* timer/queue correspondence of schedule_poll hold in every state the
\* engine reaches, for all attribute sets, intervals, backoffs and bounds.
THEOREM EngineInvariant == Spec => []IInv
BY InitIInv, NextIInv, PTL DEF Spec

\* The engine's state keeps its types: in particular upcoming() is defined
\* whenever a timer is armed, so the armed expiry is a clock value.
THEOREM EngineTypeCorrect == Spec => []TypeOK
BY EngineInvariant, PTL DEF IInv

\* The assertion last_poll <= now in calculate_poll_time never fires, for
\* every interleaving of commands, events, polls and failed writes.
THEOREM AssertionNeverFires == Spec => []LastPollNotFuture
BY EngineInvariant, PTL DEF IInv

\* A timer is armed exactly when the engine runs with a non-empty queue:
\* Disable pauses polling, and do_poll's empty-queue branch is dead.
THEOREM TimerOnlyWithWork == Spec => []TimerIffWork
BY EngineInvariant, PTL DEF IInv


\* TimerSound holds in every reachable state.
THEOREM TimerSoundness == Spec => [](IInv /\ TimerSound)
<1>1. Init => TimerSound
  BY DEF Init, TimerSound
<1>. QED  BY InitIInv, NextIInv, NextTimerSound, <1>1, PTL DEF Spec

\* The expiry Arm computes is no later than needed: one second from the
\* arming time when the due time is past, and otherwise the due time, which
\* is the backoff floor or the upcoming (earliest) deadline.
LEMMA ArmNotLate ==
    ASSUME NEW q \in SUBSET Attr, NEW d \in [Attr -> Nat], NEW lp \in Nat,
           NEW run \in BOOLEAN, NEW t \in Nat,
           Arm(q, d, lp, run, t) # NoTimer
    PROVE  \/ Arm(q, d, lp, run, t) <= t + 1
           \/ Arm(q, d, lp, run, t) <= lp + Backoff
           \/ \A a \in q : Arm(q, d, lp, run, t) <= d[a]
<1>1. run /\ q # {}
  BY DEF Arm
<1>. DEFINE u == UpcomingDeadline(q, d)
<1>2. u \in Nat /\ \A a \in q : u <= d[a]
  BY <1>1, UpcomingIsLeast
<1>3. Arm(q, d, lp, run, t) = t + CalculatePollTime(Backoff, u, t, lp)
  BY <1>1 DEF Arm
<1>4. CASE u >= lp + Backoff /\ u >= t
  <2>1. Arm(q, d, lp, run, t) = u
    BY <1>2, <1>3, <1>4, BackoffAssumption DEF CalculatePollTime
  <2>. QED  BY <1>2, <2>1
<1>5. CASE u < lp + Backoff /\ lp + Backoff >= t
  BY <1>2, <1>3, <1>5, BackoffAssumption DEF CalculatePollTime
<1>6. CASE ~(u >= lp + Backoff /\ u >= t) /\ ~(u < lp + Backoff /\ lp + Backoff >= t)
  \* The due time is past: calculate_poll_time answers 1.
  BY <1>2, <1>3, <1>6, BackoffAssumption DEF CalculatePollTime
<1>. QED  BY <1>4, <1>5, <1>6

LEMMA NextTimerNotLate ==
    IInv /\ TimerNotLate /\ [Next]_vars => TimerNotLate'
<1> SUFFICES ASSUME IInv, TimerNotLate, [Next]_vars PROVE TimerNotLate'
  OBVIOUS
<1>. DEFINE Dispatched ==
       /\ Rearm /\ now' = now
       /\ inQueue' \subseteq Attr /\ deadline' \in [Attr -> Nat]
       /\ lastPoll' \in Nat /\ running' \in BOOLEAN /\ now \in Nat
<1>1. ASSUME Dispatched PROVE TimerNotLate'
  <2>. SUFFICES ASSUME timer' # NoTimer
                PROVE  \/ timer' <= now' + 1
                       \/ timer' <= lastPoll' + Backoff
                       \/ \A a \in inQueue' : timer' <= deadline'[a]
    BY DEF TimerNotLate
  <2>. QED  BY <1>1, ArmNotLate DEF Rearm
<1>2. ASSUME UNCHANGED <<timer, lastPoll, inQueue, deadline>>,
             now' = now \/ now' = now + 1, now \in Nat
      PROVE  TimerNotLate'
  <2>1. timer \in Nat \cup {NoTimer}  BY DEF IInv, TypeOK
  <2>2. timer' = timer /\ lastPoll' = lastPoll /\ inQueue' = inQueue
        /\ deadline' = deadline
    BY <1>2
  <2>3. CASE timer # NoTimer
    <3>1. timer \in Nat  BY <2>1, <2>3 DEF NoTimer
    <3>2. timer <= now + 1 => timer <= now' + 1  BY <1>2, <3>1
    <3>. QED  BY <2>2, <2>3, <3>2 DEF TimerNotLate
  <2>4. CASE timer = NoTimer
    BY <2>2, <2>4 DEF TimerNotLate
  <2>. QED  BY <2>3, <2>4
<1>3. now \in Nat /\ inQueue' \subseteq Attr /\ deadline' \in [Attr -> Nat]
      /\ lastPoll' \in Nat /\ running' \in BOOLEAN
  <2>. IInv'  BY NextIInv
  <2>. QED  BY BoundsAssumption DEF IInv, TypeOK
<1>4. CASE ReceiveCommand \/ ReceiveEvent \/ \E a \in Attr : DoPoll(a)
  BY <1>1, <1>3, <1>4 DEF ReceiveCommand, ReceiveEvent, DoPoll
<1>5. CASE Tick
  BY <1>2, <1>3, <1>5 DEF Tick
<1>6. CASE DropEvent \/ \E c \in Commands : SendCommand(c)
  BY <1>2, <1>3, <1>6 DEF DropEvent, SendCommand
<1>7. CASE \E a \in Attr : StoreReport(a) \/ StoreDelete(a) \/ ResolveMark(a)
  BY <1>2, <1>3, <1>7 DEF StoreReport, StoreDelete, ResolveMark
<1>8. CASE UNCHANGED vars
  BY <1>2, <1>3, <1>8 DEF vars
<1>9. CASE Restart
  \* A restarted engine has no timer armed.
  BY <1>9 DEF Restart, TimerNotLate
<1>. QED  BY <1>4, <1>5, <1>6, <1>7, <1>8, <1>9 DEF Next, Engine, Environment

\* However commands, events and polls interleave, the armed timer never
\* expires later than the earliest deadline, the backoff floor or one
\* second from now: every dispatch that may bring the next poll forward
\* drops the old timer and arms one from the new queue.
THEOREM TimerNeverLate == Spec => []TimerNotLate
<1>1. Init => TimerNotLate
  BY DEF Init, TimerNotLate
<1>. QED  BY InitIInv, NextIInv, NextTimerNotLate, <1>1, PTL DEF Spec

-----------------------------------------------------------------------------
(* What a poll may rely on when the timer fires.                           *)

\* The timer that fires is at or after the backoff floor.
LEMMA PolledAfterBackoff ==
    ASSUME IInv, TimerSound, NEW a \in Attr, DoPoll(a)
    PROVE  now >= lastPoll + Backoff
<1>1. timer # NoTimer /\ now >= timer /\ timer \in Nat /\ now \in Nat
  BY BoundsAssumption DEF DoPoll, TimerFires, IInv, TypeOK, NoTimer
<1>2. timer >= lastPoll + Backoff
  BY <1>1 DEF TimerSound
<1>. QED  BY <1>1, <1>2, BackoffAssumption, BoundsAssumption DEF IInv, TypeOK

\* The popped entry is due: some queued deadline is at or before the timer,
\* and the popped entry has the earliest deadline.
LEMMA PolledWhenDue ==
    ASSUME IInv, TimerSound, NEW a \in Attr, DoPoll(a)
    PROVE  deadline[a] <= now
<1>1. timer # NoTimer /\ now >= timer /\ timer \in Nat /\ now \in Nat
  BY BoundsAssumption DEF DoPoll, TimerFires, IInv, TypeOK, NoTimer
<1>2. PICK b \in inQueue : deadline[b] <= timer
  BY <1>1 DEF TimerSound
<1>3. a \in Earliest(inQueue, deadline)
  BY DEF DoPoll
<1>4. deadline[a] <= deadline[b]
  BY <1>3 DEF Earliest
<1>. QED  BY <1>1, <1>2, <1>4 DEF IInv, TypeOK

\* The timer only fires while the engine runs, and pops a queued entry.
LEMMA PolledWhileRunning ==
    ASSUME IInv, NEW a \in Attr, DoPoll(a)
    PROVE  running /\ a \in inQueue
<1>1. timer # NoTimer  BY DEF DoPoll, TimerFires
<1>2. running  BY <1>1 DEF IInv, TimerIffWork
<1>3. a \in inQueue  BY DEF DoPoll, Earliest
<1>. QED  BY <1>2, <1>3

\* PollSpacing: every successful do_poll is at least backoff seconds after
\* the previous one, for every backoff, interval and attribute set.
THEOREM PollSpacingHolds == Spec => PollSpacing
<1>1. IInv /\ TimerSound
        => [\A a \in Attr : DoPoll(a) /\ PollOk(a) => now >= lastPoll + Backoff]_vars
  BY PolledAfterBackoff
<1>. QED  BY TimerSoundness, <1>1, PTL DEF PollSpacing

\* NoEarlyPoll: do_poll only ever pops an attribute whose deadline has
\* passed, for every backoff, interval and attribute set.
THEOREM NoEarlyPollHolds == Spec => NoEarlyPoll
<1>1. IInv /\ TimerSound
        => [\A a \in Attr : DoPoll(a) => deadline[a] <= now]_vars
  BY PolledWhenDue
<1>. QED  BY TimerSoundness, <1>1, PTL DEF NoEarlyPoll

-----------------------------------------------------------------------------
(* The engine implements PollSchedule (AbstractSpec).                      *)

\* Queueing an entry is scheduling it.
LEMMA QueueRefines ==
    ASSUME TypeOK, NEW a \in Attr, NEW i \in Nat, Queue(a, i),
           UNCHANGED <<now, lastPoll, running>>
    PROVE  Abstract!Schedule(a)
<1>1. now \in Nat  BY BoundsAssumption DEF TypeOK
<1>2. deadline'[a] = now + i  BY DEF Queue, TypeOK
<1>. QED  BY <1>1, <1>2 DEF Queue, TypeOK, Abstract!Schedule, Abstract!ReDue

\* Re-queueing a queued entry moves its due time.
LEMMA RequeueRefines ==
    ASSUME TypeOK, NEW a \in inQueue, Requeue(a),
           UNCHANGED <<now, lastPoll, running>>
    PROVE  Abstract!Schedule(a)
<1>1. now \in Nat /\ a \in Attr  BY BoundsAssumption DEF TypeOK
<1>2. deadline' = [deadline EXCEPT ![a] = now + interval[a]]
      /\ UNCHANGED <<inQueue, interval>>
  BY DEF Requeue
<1>3. deadline'[a] = now + interval[a] /\ interval[a] \in Nat
  BY <1>1, <1>2 DEF TypeOK
<1>. QED  BY <1>1, <1>2, <1>3 DEF TypeOK, Abstract!Schedule, Abstract!ReDue

\* A re-queue of an attribute that is not queued changes nothing.
LEMMA RequeueAbsent ==
    ASSUME NEW a \in Attr, a \notin inQueue, Requeue(a)
    PROVE  UNCHANGED <<inQueue, deadline>>
BY DEF Requeue

\* Removing an entry is unscheduling it.
LEMMA RemoveRefines ==
    ASSUME NEW a \in Attr, Remove(a), UNCHANGED <<now, lastPoll, running>>
    PROVE  Abstract!Unschedule(a)
BY DEF Remove, Abstract!Unschedule

\* A command handler is a PollSchedule step or leaves its state alone.
LEMMA CommandRefines ==
    ASSUME TypeOK, NEW c \in Commands, HandleCommand(c),
           UNCHANGED <<now, lastPoll>>
    PROVE  \/ \E a \in Attr : Abstract!Schedule(a) \/ Abstract!Unschedule(a)
           \/ Abstract!SetRunning
           \/ UNCHANGED Abstract!svars
<1>1. CASE c.op = "Register"
  <2>1. c.attr \in Attr /\ c.interval \in Nat
    BY <1>1, IntervalsAssumption DEF Commands
  <2>2. DefaultIfZero(DefaultInterval, c.interval) \in Nat
    BY <2>1, DefaultIntervalAssumption DEF DefaultIfZero
  <2>3. OnRegister(c.attr, c.interval) /\ UNCHANGED running
    BY <1>1 DEF HandleCommand
  <2>. QED  BY <2>1, <2>2, <2>3, QueueRefines DEF OnRegister
<1>2. CASE c.op = "Deregister"
  <2>1. c.attr \in Attr  BY <1>2 DEF Commands
  <2>2. OnDeregister(c.attr) /\ UNCHANGED running  BY <1>2 DEF HandleCommand
  <2>. QED  BY <2>1, <2>2, RemoveRefines DEF OnDeregister
<1>3. CASE c.op = "Schedule"
  <2>1. c.attr \in Attr  BY <1>3 DEF Commands
  <2>2. OnSchedule(c.attr) /\ UNCHANGED running  BY <1>3 DEF HandleCommand
  <2>. QED  BY <2>1, <2>2, QueueRefines DEF OnSchedule
<1>4. CASE c.op = "Restart"
  <2>1. c.attr \in Attr  BY <1>4 DEF Commands
  <2>2. OnRestart(c.attr) /\ UNCHANGED running  BY <1>4 DEF HandleCommand
  <2>3. CASE c.attr \in inQueue
    <3>1. Abstract!Schedule(c.attr)
      BY <2>2, <2>3, RequeueRefines DEF OnRestart
    <3>. QED  BY <2>1, <3>1
  <2>4. CASE c.attr \notin inQueue
    <3>1. UNCHANGED <<inQueue, deadline>>
      BY <2>1, <2>2, <2>4, RequeueAbsent DEF OnRestart
    <3>. QED  BY <2>2, <3>1 DEF Abstract!svars
  <2>. QED  BY <2>3, <2>4
<1>5. CASE c.op \in {"Enable", "Disable"}
  BY <1>5 DEF HandleCommand, Abstract!SetRunning
<1>6. CASE c.op = "PrintQueue"
  BY <1>6 DEF HandleCommand, Abstract!svars
<1>. QED  BY <1>1, <1>2, <1>3, <1>4, <1>5, <1>6 DEF Commands

\* Every step of the engine is a PollSchedule step or a stutter of it.
LEMMA NextRefines ==
    IInv /\ TimerSound /\ [Next]_vars => [Abstract!Next]_Abstract!svars
<1> SUFFICES ASSUME IInv, TimerSound, [Next]_vars
             PROVE  [Abstract!Next]_Abstract!svars
  OBVIOUS
<1>. TypeOK  BY DEF IInv
<1>1. CASE ReceiveCommand
  <2>1. Head(cmds) \in Commands  BY <1>1 DEF ReceiveCommand, TypeOK
  <2>. QED  BY <1>1, <2>1, CommandRefines DEF ReceiveCommand, Abstract!Next
<1>2. CASE ReceiveEvent
  <2>1. Head(events) \in Events  BY <1>2 DEF ReceiveEvent, TypeOK
  <2>2. Head(events).attr \in inQueue /\ Head(events).attr \in Attr
    BY <1>2, <2>1 DEF ReceiveEvent, Events
  <2>3. UNCHANGED <<now, lastPoll, running>>  BY <1>2 DEF ReceiveEvent
  <2>4. CASE Head(events).type = "Deleted"
    BY <1>2, <2>2, <2>3, <2>4, RemoveRefines
       DEF ReceiveEvent, OnHandleAttributeUpdate, Abstract!Next
  <2>5. CASE Head(events).type # "Deleted"
    BY <1>2, <2>2, <2>3, <2>5, RequeueRefines
       DEF ReceiveEvent, OnHandleAttributeUpdate, Abstract!Next
  <2>. QED  BY <2>4, <2>5
<1>3. CASE \E a \in Attr : DoPoll(a)
  <2>1. PICK a \in Attr : DoPoll(a)  BY <1>3
  <2>2. running /\ a \in inQueue  BY <2>1, PolledWhileRunning
  <2>3. now \in Nat  BY BoundsAssumption DEF TypeOK
  <2>4. CASE PollOk(a)
    <3>1. deadline[a] <= now  BY <2>1, PolledWhenDue
    <3>2. lastPoll + Backoff <= now  BY <2>1, PolledAfterBackoff
    <3>3. deadline'[a] = now + interval[a] /\ interval[a] \in Nat
      BY <2>4 DEF PollOk, TypeOK
    <3>4. Abstract!Poll(a)
      BY <2>1, <2>2, <2>3, <2>4, <3>1, <3>2, <3>3
         DEF DoPoll, PollOk, TypeOK, Abstract!Poll, Abstract!ReDue
    <3>. QED  BY <3>4 DEF Abstract!Next
  <2>5. CASE PollFail(a)
    <3>1. Abstract!Unschedule(a)
      BY <2>1, <2>5 DEF DoPoll, PollFail, Abstract!Unschedule
    <3>. QED  BY <3>1 DEF Abstract!Next
  <2>. QED  BY <2>1, <2>4, <2>5 DEF DoPoll
<1>4. CASE Tick
  BY <1>4 DEF Tick, Abstract!Next, Abstract!Tick
<1>5. CASE DropEvent \/ \E c \in Commands : SendCommand(c)
  BY <1>5 DEF DropEvent, SendCommand, Abstract!svars
<1>6. CASE \E a \in Attr : StoreReport(a) \/ StoreDelete(a) \/ ResolveMark(a)
  BY <1>6 DEF StoreReport, StoreDelete, ResolveMark, Abstract!svars
<1>7. CASE UNCHANGED vars
  BY <1>7 DEF vars, Abstract!svars
<1>8. CASE Restart
  <2>1. now \in Nat  BY BoundsAssumption DEF TypeOK
  <2>2. now' \in 0..now  BY <1>8, <2>1 DEF Restart
  <2>3. deadline' \in [Attr -> Nat]  BY <1>8 DEF Restart
  <2>4. Abstract!Restart  BY <1>8, <2>2, <2>3 DEF Restart, Abstract!Restart
  <2>. QED  BY <2>4 DEF Abstract!Next
<1>. QED  BY <1>1, <1>2, <1>3, <1>4, <1>5, <1>6, <1>7, <1>8 DEF Next, Engine, Environment

\* The engine implements PollSchedule: under every interleaving of
\* commands, watcher events, failing store writes and the timer, and for
\* every attribute set, interval, backoff and bound, polls happen only for
\* queued attributes, only while enabled, never before the deadline nor
\* within backoff of the previous poll, and no deadline is set in the past.
THEOREM Refinement == Spec => AbstractSpec
<1>1. Init => Abstract!Init
  BY DEF Init, Abstract!Init
<1>2. IInv /\ TimerSound /\ [Next]_vars => [Abstract!Next]_Abstract!svars
  BY NextRefines
<1>. QED  BY <1>1, <1>2, TimerSoundness, PTL DEF Spec, AbstractSpec, Abstract!Spec

-----------------------------------------------------------------------------
(* The timer armed after a poll.                                           *)

\* After a successful poll, the timer the next iteration arms expires no
\* sooner than backoff seconds later, whatever the queue holds: the entry
\* re-queued with interval 0 by Schedule is polled again only at the
\* backoff rate, and with a positive backoff no 0 s timer follows a poll.
THEOREM NextTimerAfterBackoff ==
    Spec => [][\A a \in Attr : DoPoll(a) /\ PollOk(a) /\ timer' # NoTimer
                                   => timer' >= now + Backoff]_vars
<1>1. ASSUME IInv, NEW a \in Attr, DoPoll(a), PollOk(a), timer' # NoTimer
      PROVE  timer' >= now + Backoff
  <2>1. lastPoll' = now /\ now \in Nat  BY <1>1 DEF PollOk, IInv, TypeOK
  <2>2. IInv'  BY <1>1, NextIInv DEF Next, Engine
  <2>3. inQueue' \subseteq Attr /\ deadline' \in [Attr -> Nat]
        /\ running' \in BOOLEAN
    BY <2>2 DEF IInv, TypeOK
  <2>4. timer' >= lastPoll' + Backoff
    BY <1>1, <2>1, <2>3, ArmSound DEF DoPoll, Rearm
  <2>5. timer' \in Nat
    BY <1>1, <2>1, <2>3, ArmFacts DEF DoPoll, Rearm, NoTimer
  <2>. QED  BY <2>1, <2>4, <2>5, BackoffAssumption
<1>2. IInv /\ [Next]_vars
        => [\A a \in Attr : DoPoll(a) /\ PollOk(a) /\ timer' # NoTimer
                            => timer' >= now + Backoff]_vars
  BY <1>1
<1>. QED  BY <1>2, EngineInvariant, PTL DEF Spec

=============================================================================
