# Formal model of the unify attribute poll engine

This directory holds TLA+ models of the polling scheduler in
`src/components/unify_attribute_poll/src/poll_engine.rs` and of the
`ForceUpdateAttributeStream` in
`src/components/uic_rust/unify_middleware/src/unify_attribute_store/attribute_stream_ext.rs`.
It also holds the TLC
configurations that check the models on small instances, and TLAPS proofs of
the main safety properties for every value of the constants.

## 1. Inventory

### Components

| Component | Source | State | Operations |
|---|---|---|---|
| Poll engine (`PollEngine`) | `poll_engine.rs:84-394` | poll queue, `last_poll`, `running`, config | `run` (race loop), `on_handle_command` (Register, Deregister, Schedule, Restart, Enable, Disable, PrintQueue), `on_handle_attribute_update` (Deleted, Updated, other), `do_poll`, `schedule_poll`, `find_updated_attribute` |
| Backoff algorithm | `poll_engine.rs:396-414` | none (pure) | `calculate_poll_time`, `default_if_zero` |
| Poll-mark resolver rule | `poll_engine.rs:92-103`, registered at `:118` | the mark's and the parent's reported values in the store | `poll_engine_mark` |
| Poll queue (`PollEntries`) | not under `src/`; contract in spec 4.4 | one entry (interval, deadline) per attribute | `queue`, `requeue`, `upcoming`, `pop_next`, `contains`, `remove` |
| Attribute store, watcher, platform clock/timer | external | nodes, reported values, change notifications, the clock | environment only |
| `ForceUpdateAttributeStream` (`ForceUpdateStream`) | `attribute_stream_ext.rs:29-107` | the snapshot vector, a sender task, an unbounded channel, the live stream, waker tasks | `new`, `get_changes`, `poll_next`, the spawned sender and waker tasks, drop |
| `build.rs` | code generation | none | not runtime code |

### How they interact

The engine is one cooperative task. In each iteration, `run` races three futures:

- the next command from the unbounded mpsc channel;
- the next watcher event about an attribute that is in the queue (other events are read and dropped);
- a timer armed from `upcoming()`, `last_poll` and the clock (or a future that never completes when the engine is paused or the queue is empty).

The winner is dispatched to completion. The losing futures are dropped, which
cancels the timer. The next iteration arms a fresh timer from the new state.

`do_poll` does not read the device itself. It writes a *poll mark* child under
the attribute. The resolver later visits the mark and runs
`poll_engine_mark`. That rule clears the parent's reported value, which makes
the resolver re-read the parent from the device, and sets the mark's own value.
Marks live in the persisted attribute store. The queue and `last_poll` are not
persisted.

### What is hard

- **Races.** Commands, events and the timer race. A timer armed from an old state must never fire.
- **Backoff across all attributes.** The spacing must hold after Enable, after an overdue period, and when entries share a deadline.
- **Numeric edges in `calculate_poll_time`.** These are the `last_poll <= now` assertion, the 1 s floor when overdue, and a 0 s timeout when the deadline is exactly now.
- **Partial failures.** A poll-mark write can fail. So can the second write of the resolver rule.
- **Dropped events.** Events for attributes not in the queue are dropped, so what happens depends on whether a command or an event is processed first.
- **Persisted marks versus the volatile queue.** After a process restart (or a host reboot, with the clock counting again from boot) the engine starts empty with `last_poll` 0, while the marks survive.

### Properties that make it correct

- The `calculate_poll_time` assertion never fires (`LastPollNotFuture`).
- A timer is armed exactly when the engine runs and has work (`TimerIffWork`). So Disable really pauses polling, and the empty-queue branch of `do_poll` is dead.
- The timer is never stale (`TimerSound`). Polls are spaced by at least the backoff (`PollSpacing`). No attribute is polled before its deadline (`NoEarlyPoll`).
- The timer is never later than needed (`TimerNotLate`).
- The engine implements the abstract schedule `PollSchedule` (`AbstractSpec`).
- The stream never strands or discards its snapshot (`WakeupPending`, `SnapshotNotDiscarded`, `SnapshotDelivered`) and implements `StreamContract` (`ContractSpec`).

## 2. Modules

| Module | Models |
|---|---|
| `PollTime` | `default_if_zero` and `calculate_poll_time` (with the `overflowing_sub` flag), plus a mutant of the latter |
| `PollEngine` | the engine, the queue contract, the timer, the resolver rule and the environment |
| `PollSchedule` | the abstract schedule the engine promises (no timer, channels or store) |
| `MC_PollEngine` | the TLC instance (definitions of constants, symmetry) |
| `PollEngine_proofs` | the TLAPS proofs about the engine, the refinement included |
| `ForceUpdateStream` | `ForceUpdateAttributeStream`: `new`, `poll_next`, the spawned tasks, the store, drop |
| `StreamContract` | the abstract contract of the stream (snapshot once, live changes in order, nothing after drop) |
| `ForceUpdateStream_proofs` | the TLAPS proofs about the stream, its refinement of `StreamContract` included |

### How the state of `PollEngine` corresponds to the code

- `inQueue`, `interval` and `deadline` model `PollEntries`.
- `now` models `platform.clock_seconds()`.
- `lastPoll` and `running` are the engine's fields.
- `timer` is the absolute expiry of the timer that the current iteration's `schedule_poll` armed, or `NoTimer` when that future is pending forever.
- `cmds` is the command channel.
- `events` holds the watcher's undelivered events.
- `alive`, `reported` and `mark` are the store nodes that the engine and the rule touch.

### How the actions correspond to the code

One action is one won race, run to completion:

- `ReceiveCommand` models `on_handle_command` and its handlers.
- `ReceiveEvent` models `on_handle_attribute_update`.
- `DropEvent` models the `find_updated_attribute` loop skipping an event. It wins nothing, so the timer is not re-armed.
- `DoPoll(a)` models the timer branch and `do_poll`. Its two outcomes are `PollOk` (the mark is written, `last_poll := now`, the attribute is re-queued) and `PollFail` (early return, the attribute stays out of the queue).

Every dispatch ends with `Rearm`: the next iteration's `schedule_poll` arms the
timer from the new state.

The environment actions are:

- `Tick` (the clock);
- `SendCommand`;
- `StoreReport` (a device value: Updated event);
- `StoreDelete` (the node and its mark go: Deleted event);
- `ResolveMark` (`poll_engine_mark`, including its `SL_STATUS_FAIL` path);
- `Restart`: the process restarts and `PollEngine::new` builds a fresh engine (empty queue, `last_poll` 0, running, no timer). The channels go with the old task, the store and its marks persist, and the clock either keeps counting or starts again from 0.

### Deliberately left out

- The rule's stale-attribute error, and the "other event type" branch. Neither changes state, and the watcher only delivers Updated and Deleted events.
- Store events about the mark node itself. They concern an attribute that is never queued, so they are always dropped.
- `PrintQueue`. It is a dispatch with no state change, but it still re-arms the timer, which matters.

### The abstract schedule `PollSchedule`

`PollSchedule` says what the engine promises, with no timer, channel or store:
a set `sched` of scheduled attributes, each with a due time `due`, the clock,
`lastPoll` and `running`. `Schedule(a)` adds `a` and sets its due time to now
or later, `Unschedule(a)` removes it, `SetRunning` flips polling, and `Poll(a)`
polls a scheduled attribute only while running, never before it is due and
never sooner than `Backoff` after the previous poll. `PollEngine` maps onto it
with `sched <- inQueue` and `due <- deadline` (`Abstract`, `AbstractSpec`):
queueing, re-queueing and Restart are `Schedule` steps, Deregister and a failed
poll are `Unschedule` steps, Enable/Disable are `SetRunning`, `PollOk` is
`Poll`, a process restart is the abstract `Restart` (the schedule empties, `lastPoll` becomes 0 and the clock may go back to 0), and everything else (events, channel traffic, the resolver, the timer
re-arm) is a stutter. One limitation: a second poll in the same second as the
previous one leaves `lastPoll` unchanged and so looks like a `Schedule` step
to the abstract spec; `PollSpacing` in the `engine` run covers that case.

### `ForceUpdateStream`

The state is the store's attribute set, the snapshot vector `changes` moved
into the spawned sender task (`senderQueued` until it runs), the channel
`chan`, whether `this.receiver` is still `Some`, the live stream's buffer
`live`, the number of queued waker tasks `wakes`, the consumer (`Runnable`,
`Waiting` with its waker registered on the live stream, or `Dropped`), the
sender's `panicked` flag, and `view`, a history of what the consumer was
handed. `Init` is `new()`: the snapshot is taken in one of the orders the
store's iterator may list it. The actions are:

- `RunSender`: the spawned task sends every change and drops the sender; if
  the stream is already dropped, `start_send` fails and `expect` panics.
- `RunWake`: a waker task spawned by `poll_next` wakes the consumer.
- `PollNext`: `poll_next` as one step: `Ok(Some)` hands out a snapshot event
  (`PollSnapshot`); otherwise `TryReceiverEmpty` (drop the receiver on
  `Ok(None)`, spawn a waker task on `Err`) and then `PollLive` (hand out a
  live event, or wait).
- `StoreUpdate`, `StoreDelete`: the store changes and the live stream
  publishes the event, waking a waiting consumer.
- `DropStream`: the owner drops the stream.

The event loop runs queued tasks in any order: its discipline is not part of
this repository.

**Fairness.** `WF_vars(RunSender) /\ WF_vars(RunWake) /\ WF_vars(PollNext)`.
The event loop eventually runs every task spawned on it, and a woken task is
eventually polled by its executor. Nothing is owed by the store or by the
owner of the stream, so `StoreUpdate`, `StoreDelete` and `DropStream` have no
fairness.

## 3. Runs

| Run | Config | Expect | What it shows |
|---|---|---|---|
| `engine` | `MC_PollEngine.cfg` | pass | `TypeOK`, `LastPollNotFuture`, `TimerIffWork`, `TimerSound`, `TimerNotLate`, `PollSpacing`, `NoEarlyPoll` hold over every interleaving of commands, events, the timer, store writes that may fail, the resolver and process restarts. |
| `schedule_sticky` | `MC_ScheduleSticky.cfg` | violation | After `Schedule`, a successful poll re-queues the attribute with deadline `now` (interval 0 stays stored). |
| `refinement` | `MC_Refinement.cfg` | pass | `AbstractSpec`: under the `engine` run's bounds, every engine step is a `PollSchedule` step or a stutter (11.5M states, about 2 minutes). |
| `deleted_entry` | `MC_DeletedEntry.cfg` | violation | `DeletedNodeDequeued`: a queued attribute whose node was deleted always has a Delete event pending. |
| `stream` | `MC_ForceUpdateStream.cfg` | pass | `WakeupPending`, `SnapshotNotDiscarded` (the receiver is dropped only after the snapshot was drained), `ContractSpec` (the stream implements `StreamContract`) and, under the fairness above, `SnapshotDelivered` hold for every executor order, store change and drop. |
| `sender_panic` | `MC_SenderPanic.cfg` | violation | `SenderNeverPanics`: the sender task's `expect` never fires. |
| `stale_snapshot` | `MC_StaleSnapshot.cfg` | violation | `ViewConverges`: once everything sent has been consumed, the consumer's picture equals the store. |

### The stream's contract `StreamContract`

`StreamContract` has the store, the set `pending` of snapshot attributes not
yet handed out, the queue `live` of changes not yet handed out, `open`, and
the consumer's `view`. `HandSnapshot(a)` hands out any pending attribute as
an update, `HandLive` the oldest change, `Update`/`Delete` change the store
and record the change while open, and `Drop` discards everything. The
snapshot and the live changes may interleave in any way: the
`stale_snapshot` finding shows that the code does interleave them. The
mapping is `pending <- IF consumer = "Dropped" THEN {} ELSE Undelivered`
and `open <- consumer # "Dropped"`. The sender task, waker tasks, a
consumer that starts waiting, and the receiver being dropped are stutters.

### Bounds of the `engine` run

- Attributes `{a1, a2}`, under symmetry. This is sound because no property or constant names an attribute.
- Register intervals `{0, 2}`, so both branches of `default_if_zero` are taken.
- Default interval 3 and backoff 1, so a deadline can lie before, at or after the backoff floor.
- Clock up to 4 seconds.
- One command in flight and one undelivered event.
- `StoreMayFail = TRUE`, so every write can fail.
- The initial state allows any persisted mark state and any reported value.

These bounds are enough for the interesting cases. Overdue entries appear: the
clock can run past an armed timer before the timer branch wins. Zero timeouts
appear, ties between the two attributes appear, and so does re-registration
with a different interval while a timer is armed. The run explores 11.5M
distinct states in about 2 minutes.

### Bounds of the `stream` run

Two attributes, at most 2 buffered live events and at most 2 queued waker
tasks. The initial store is any subset and the snapshot any of its orders.
This covers polling before the sender runs (the `Err` branch), several
spurious polls (two waker tasks), a change and a delete racing the snapshot,
and a drop before and after the sender task. 5,611 distinct states.

### Mutants

Each mutant is a plausible bug, and each makes TLC report a violation.

| Property | Mutant |
|---|---|
| `TypeOK` | `last_poll` records the next deadline. |
| `LastPollNotFuture` | `last_poll` records `now + backoff`; separately, a restart keeps `last_poll` while the clock restarts from boot (`RestartKeepsLastPoll`). |
| `TimerIffWork` | The timer is armed while paused. |
| `TimerSound` and `PollSpacing` | The backoff is left out of `calculate_poll_time`. |
| `NoEarlyPoll` and `TimerNotLate` | A winning command leaves the old timer armed. |
| `AbstractSpec` | The timer is armed while paused (`ArmIgnoringRunning`). |
| `WakeupPending` | The `Err` branch spawns no waker task. |
| `SnapshotDelivered` and `SnapshotNotDiscarded` | `Err` is taken as a closed channel and the receiver dropped. |
| `ContractSpec` | The consumer's view takes every event as an update (`DeliverIgnoringType`). |

### Findings

- **`schedule_sticky` (spec gap).** `on_schedule` queues with interval 0 (`poll_engine.rs:372`). The interval is stored with the entry and reused by `do_poll`. So one Schedule turns the attribute into one that is polled at the backoff rate from then on, and its registered interval is lost. The spec only says "poll immediately on next timer tick".

- **`deleted_entry` (divergence from the type comment, `poll_engine.rs:79-81`).** The comment says entries need not be deleted explicitly when a node is deleted. `find_updated_attribute` (`:253`) drops events for attributes not queued when they are read. Trace: Register a1 is sent, a1's node is deleted, the watcher branch wins and drops the Delete event, then Register queues a1. The dead attribute stays queued until a poll of it fails, an interval later.
- **`sender_panic` (code bug, `attribute_stream_ext.rs:47`).** The sender task's `expect` message assumes the receiver was polled before the task runs. If the stream is dropped first (legal for any consumer that stops early, e.g. `take(n)` or a `select!`), `start_send` fails and the task panics on the event loop.
- **`stale_snapshot` (divergence from the type comment, `attribute_stream_ext.rs:104`).** When `poll_next` finds the channel empty and the sender not yet run, it falls through to the live stream. A delete that happened after `new()` is delivered first, then the snapshot's older Updated event for the same attribute: the consumer ends believing a deleted attribute is present.

## 4. Proofs (`PollEngine_proofs`)

### Assumptions

All assumptions on the constants are in `PollEngine`:

- `Attr` is non-empty.
- The intervals, the default interval and the backoff are naturals.
- The flags are Booleans.
- The bounds are naturals, and the channel bounds are positive.

### Theorems

- **`EngineInvariant == Spec => []IInv`**, where `IInv == TypeOK /\ LastPollNotFuture /\ TimerIffWork`. None of the three conjuncts is inductive alone:
  - the timer is typed only because `upcoming()` is defined whenever a timer is armed, which is `TimerIffWork`;
  - `TimerIffWork` needs the types of all of `Arm`'s arguments.

  The proof has one step per action.
- **`EngineTypeCorrect`, `AssertionNeverFires`, `TimerOnlyWithWork`**: `Spec => []TypeOK`, `Spec => []LastPollNotFuture` and `Spec => []TimerIffWork`, each a corollary of `EngineInvariant`.
- **`TimerSoundness == Spec => [](IInv /\ TimerSound)`.** Every step either leaves the timer, `last_poll`, the queue and the deadlines unchanged, or is a dispatch that re-arms the timer from the new state.
- **`TimerNeverLate == Spec => []TimerNotLate`.** This is the counterpart of `TimerSound`: an armed timer expires no later than the earliest queued deadline, the backoff floor, or one second from now. `TimerNotLate` is inductive given `IInv`. A dispatch re-arms, and `ArmNotLate` shows that the expiry `Arm` computes is the due time itself, or one second from the arming time when the due time is past. A `Tick` only moves the clock forward, and every other step leaves the timer, the queue, the deadlines and `last_poll` alone.
- **`NextTimerAfterBackoff`**: the timer armed by a successful poll expires at least `Backoff` seconds after it, for every backoff (0 included), because `ArmSound` gives `timer' >= last_poll' + Backoff` and `last_poll' = now`. An earlier queue deadline never pulls it forward.
- **`Refinement == Spec => AbstractSpec`.** Initial states map to `PollSchedule`'s initial state, and every step maps to a `PollSchedule` step or a stutter (`NextRefines`). The step proof uses `TimerSoundness`: a `DoPoll` happens only when the timer fired, which by `TimerSound` is at or after the deadline of the popped entry and at or after `last_poll + backoff` (lemmas `PolledWhenDue`, `PolledAfterBackoff`, `PolledWhileRunning`). Queue operations map through `QueueRefines`, `RequeueRefines`, `RemoveRefines`, and each command through `CommandRefines`.
- **`PollSpacingHolds == Spec => PollSpacing`** and **`NoEarlyPollHolds == Spec => NoEarlyPoll`**. Both follow from `TimerSoundness`: a firing timer is at or after `last_poll + backoff`, and at or after some queued deadline, which is at or after the deadline of the popped (earliest) entry.

### Lemmas

- `NatHasLeast`: every non-empty set of naturals has a least element. It comes from `WFMin` and `NatLessThanWellFounded` of the library, and makes `upcoming()` well defined.
- `UpcomingIsLeast`
- `CalculatePollTimeNat`
- `ArmFacts`, `ArmSound`, `ArmNotLate`
- `TailBounded`, `AppendBounded`: the bounded channels keep their types.
- `HandleCommandQueue`
- `RearmIInv`

### `ForceUpdateStream_proofs`

- **`WakeupNeverLost == Spec => [](TypeOK /\ WakeupPending)`** for every
  finite attribute set and every bound. `WakeupPending` alone is not
  inductive: the step of `TryReceiverEmpty` needs `wakes < MaxWake` and the
  counters' types, so the inductive invariant is `SInv == TypeOK /\
  WakeupPending`. `InitSInv` uses `SnapshotIsSeq` (every order of a finite
  set of attributes is a sequence of attributes); `NextSInv` has one case
  per action, and within `PollNext` one per branch of `try_next`.
  Assumptions: `Attr` is finite, `MaxLive` is a natural, `MaxWake` a
  positive natural.
- **`SnapshotKept == Spec => []SnapshotNotDiscarded`.** Only the `Ok(None)` branch of `try_next` drops the receiver. That branch is taken only after the sender task ran and the channel is empty. Once the receiver is gone, nothing can refill the channel (`NextSnapshotKept`).
- **`StreamRefinement == Spec => ContractSpec`.** The inductive support is `SInv` together with `RInv`:
  - `IsInjective(changes)` and `IsInjective(chan)`: no attribute appears twice in the snapshot;
  - `senderQueued => chan = <<>>`.

  Without injectivity, handing out the head of the channel would not remove that attribute from the set of undelivered ones. Without the third conjunct, the sender task's `chan \o changes` would not be a stutter. The lemmas are:
  - `OrderingCoversSet`: every ordering new() can take lists exactly the store. It uses `FS_Injection` and `FS_Interval`, because an injection from `1..Cardinality(S)` into `S` is onto.
  - `TailElems`: the tail of a sequence without repeats holds its elements minus its head.
  - one simulation lemma per action: `SenderRefines`, `SnapshotRefines`, `LiveRefines`, `StoreRefines`, with `ContractStutter` for the steps that change nothing of the contract.

### Left to TLC

Liveness (`SnapshotDelivered`) and anything about `ENABLED` stay with TLC,
because they are out of the prover's reach. So do the violation runs. Every
invariant and action property of the passing runs is stated by a theorem.
The two refinements are proved as safety (`[][Next]_vars` of the abstract
spec); neither abstract spec has fairness.

## 5. Not modelled

- `build.rs` runs a Python code generator at build time. It has no runtime state.
- Liveness of the engine (a due poll eventually happens, a pending mark is eventually resolved, a dead entry eventually leaves the queue). The clock is capped at `MaxTime` so that TLC terminates, and with a capped clock no timer-driven progress can be demanded. `TimerSound` and the refinement show safety of the postponement instead.
- The `PollEntries` queue is modelled from its contract in the spec, since its code is not under `src/`.
- The attribute store, the watcher transport and the contiki timer are reduced to their interface behaviour. The model assumes three things about them:
  - the watcher is cancel-safe;
  - the clock is monotonic within one run;
  - no time passes during one dispatch.
- A restart of the engine task alone, with the old channels kept, is not modelled: the engine task lives as long as the process.
- `u64` overflow of `last_poll + backoff` would need 2^64 seconds of uptime, so it is left out.
