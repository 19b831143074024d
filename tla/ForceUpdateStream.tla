------------------------- MODULE ForceUpdateStream -------------------------
(***************************************************************************)
(* ForceUpdateAttributeStream (attribute_stream_ext.rs): a stream that     *)
(* first replays the attributes present in the store when it was created   *)
(* and then continues as the live attribute_changed stream.                *)
(*                                                                         *)
(* new() takes the snapshot (get_changes) at once, moves it into a task    *)
(* spawned on the contiki event loop that sends it over an unbounded       *)
(* channel and then drops the sender, and subscribes to the live stream.   *)
(* poll_next first tries the channel without registering a waker; when the *)
(* channel is empty but still open it spawns a task that wakes the         *)
(* consumer, so the consumer is polled again after the sender task ran.    *)
(*                                                                         *)
(* The actors are the consumer task polling the stream, the event loop     *)
(* running the spawned tasks (in any order: the loop's discipline is not   *)
(* part of this repository), and the store.  Attr holds the attributes     *)
(* the stream's predicate accepts; both sources apply the same predicate.  *)
(***************************************************************************)
EXTENDS Naturals, Sequences, FiniteSets

CONSTANTS
    Attr,       \* attributes accepted by the predicate
    MaxLive,    \* bound on live events not yet taken by the consumer
    MaxWake     \* bound on queued waker tasks

ASSUME AttrFiniteAssumption == IsFiniteSet(Attr)
ASSUME StreamConstantsAssumption == MaxLive \in Nat /\ MaxWake \in Nat \ {0}

VARIABLES
    store,         \* attributes present in the attribute store
    senderQueued,  \* the spawned sender task has not run yet
    changes,       \* the snapshot vector moved into the sender task
    chan,          \* snapshot events sent and not yet received
    receiverSome,  \* this.receiver is Some(..)
    live,          \* events buffered in the live attribute_changed stream
    wakes,         \* waker tasks spawned by poll_next and not yet run
    consumer,      \* the task polling the stream: "Runnable", "Waiting"
                   \* (its waker is registered with the live stream) or
                   \* "Dropped" (the stream was dropped)
    panicked,      \* the sender task's expect(..) failed
    view           \* the consumer's picture of each attribute, from the
                   \* events it was handed (a history variable)

vars == <<store, senderQueued, changes, chan, receiverSome, live, wakes,
          consumer, panicked, view>>

Events == [attr : Attr, type : {"Updated", "Deleted"}]
ConsumerStates == {"Runnable", "Waiting", "Dropped"}
Views == {"unknown", "present", "absent"}

SeqElems(s) == {s[i] : i \in DOMAIN s}

\* The orders in which attribute_store.root().iter() may list the set S.
Orderings(S) ==
    {s \in [1..Cardinality(S) -> S] : \A i, j \in DOMAIN s : s[i] = s[j] => i = j}

-----------------------------------------------------------------------------
(* ForceUpdateAttributeStream::new and get_changes: the snapshot of every  *)
(* attribute in the store as an ATTRIBUTE_UPDATED event, taken before the  *)
(* constructor returns.                                                    *)

Init ==
    /\ store \in SUBSET Attr
    /\ changes \in Orderings(store)
    /\ senderQueued = TRUE
    /\ chan = <<>>
    /\ receiverSome = TRUE
    /\ live = <<>>
    /\ wakes = 0
    /\ consumer = "Runnable"
    /\ panicked = FALSE
    /\ view = [a \in Attr |-> "unknown"]

-----------------------------------------------------------------------------
(* The tasks spawned on the event loop.                                    *)

\* The sender task: start_send every change, then drop the sender.  Once
\* the stream (and with it the receiver) is gone, start_send fails and
\* expect(..) panics on the first change.
RunSender ==
    /\ senderQueued
    /\ senderQueued' = FALSE
    /\ changes' = <<>>
    /\ IF consumer = "Dropped"
       THEN panicked' = (changes # <<>>) /\ UNCHANGED chan
       ELSE chan' = chan \o changes /\ UNCHANGED panicked
    /\ UNCHANGED <<store, receiverSome, live, wakes, consumer, view>>

\* A waker task spawned by poll_next: waker.wake().
RunWake ==
    /\ wakes > 0
    /\ wakes' = wakes - 1
    /\ consumer' = IF consumer = "Waiting" THEN "Runnable" ELSE consumer
    /\ UNCHANGED <<store, senderQueued, changes, chan, receiverSome, live,
                   panicked, view>>

-----------------------------------------------------------------------------
(* poll_next, called by the consumer while it is runnable.                 *)

\* Mutant: the consumer is handed every event as an update.
DeliverIgnoringType(e) ==
    view' = [view EXCEPT ![e.attr] = "present"]

\* The consumer is handed event e.
Deliver(e) ==
    view' = [view EXCEPT ![e.attr] = IF e.type = "Deleted" THEN "absent"
                                                            ELSE "present"]

\* recv.try_next() returns Ok(Some(event)): the snapshot event is returned.
PollSnapshot ==
    /\ receiverSome
    /\ chan # <<>>
    /\ Deliver([attr |-> Head(chan), type |-> "Updated"])
    /\ chan' = Tail(chan)
    /\ UNCHANGED <<receiverSome, wakes, consumer, live>>

\* Mutant: the Err(_) branch spawns no waker task.
TryReceiverEmptyNoWake ==
    /\ ~receiverSome \/ chan = <<>>
    /\ \/ receiverSome /\ ~senderQueued
          /\ receiverSome' = FALSE /\ UNCHANGED wakes
       \/ receiverSome /\ senderQueued /\ UNCHANGED <<receiverSome, wakes>>
       \/ ~receiverSome /\ UNCHANGED <<receiverSome, wakes>>
    /\ UNCHANGED chan

\* Mutant: Err(_) is taken for a closed channel and the receiver dropped.
TryReceiverEmptyDropsEarly ==
    /\ ~receiverSome \/ chan = <<>>
    /\ \/ receiverSome /\ receiverSome' = FALSE /\ UNCHANGED wakes
       \/ ~receiverSome /\ UNCHANGED <<receiverSome, wakes>>
    /\ UNCHANGED chan

\* recv.try_next() returns Ok(None), the sender being gone: the receiver
\* is dropped.  It returns Err(_) while the sender is alive: a waker task
\* is spawned.  Without a receiver nothing happens.
TryReceiverEmpty ==
    /\ ~receiverSome \/ chan = <<>>
    /\ \/ receiverSome /\ ~senderQueued
          /\ receiverSome' = FALSE /\ UNCHANGED wakes
       \/ receiverSome /\ senderQueued
          /\ wakes < MaxWake
          /\ wakes' = wakes + 1 /\ UNCHANGED receiverSome
       \/ ~receiverSome /\ UNCHANGED <<receiverSome, wakes>>
    /\ UNCHANGED chan

\* attribute_stream.poll_next_unpin(cx): a buffered live event is returned,
\* otherwise the consumer's waker is registered and it waits.
PollLive ==
    \/ live # <<>> /\ Deliver(Head(live)) /\ live' = Tail(live)
       /\ UNCHANGED consumer
    \/ live = <<>> /\ consumer' = "Waiting" /\ UNCHANGED <<live, view>>

PollNext ==
    /\ consumer = "Runnable"
    /\ \/ PollSnapshot
       \/ TryReceiverEmpty /\ PollLive
    /\ UNCHANGED <<store, senderQueued, changes, panicked>>

-----------------------------------------------------------------------------
(* The store and the owner of the stream.                                  *)

\* A change reaches the live stream while the stream exists, and wakes the
\* consumer if it waits on it.
Publish(a, type) ==
    IF consumer = "Dropped"
    THEN UNCHANGED <<live, consumer>>
    ELSE /\ Len(live) < MaxLive
         /\ live' = Append(live, [attr |-> a, type |-> type])
         /\ consumer' = IF consumer = "Waiting" THEN "Runnable" ELSE consumer

\* An attribute is created or its value set.
StoreUpdate(a) ==
    /\ store' = store \cup {a}
    /\ Publish(a, "Updated")
    /\ UNCHANGED <<senderQueued, changes, chan, receiverSome, wakes,
                   panicked, view>>

StoreDelete(a) ==
    /\ a \in store
    /\ store' = store \ {a}
    /\ Publish(a, "Deleted")
    /\ UNCHANGED <<senderQueued, changes, chan, receiverSome, wakes,
                   panicked, view>>

\* The owner drops the stream, its receiver and its live subscription.
DropStream ==
    /\ consumer # "Dropped"
    /\ consumer' = "Dropped"
    /\ live' = <<>>
    /\ UNCHANGED <<store, senderQueued, changes, chan, receiverSome, wakes,
                   panicked, view>>

Next ==
    \/ RunSender
    \/ RunWake
    \/ PollNext
    \/ \E a \in Attr : StoreUpdate(a) \/ StoreDelete(a)
    \/ DropStream

\* The event loop runs every task it was given, and a runnable consumer is
\* eventually polled; the store and the owner of the stream owe nothing.
Fairness == WF_vars(RunSender) /\ WF_vars(RunWake) /\ WF_vars(PollNext)

Spec == Init /\ [][Next]_vars /\ Fairness

-----------------------------------------------------------------------------
(* Properties.                                                             *)

TypeOK ==
    /\ store \subseteq Attr
    /\ senderQueued \in BOOLEAN
    /\ changes \in Seq(Attr)
    /\ chan \in Seq(Attr)
    /\ receiverSome \in BOOLEAN
    /\ live \in Seq(Events) /\ Len(live) <= MaxLive
    /\ wakes \in 0..MaxWake
    /\ consumer \in ConsumerStates
    /\ panicked \in BOOLEAN
    /\ view \in [Attr -> Views]

\* No lost wakeup: while the consumer waits with the snapshot receiver still
\* in place, a waker task is queued.  try_next registers no waker, so
\* without the task spawned in poll_next's Err branch nothing would poll
\* the stream again once the sender task fills the channel.
WakeupPending == consumer = "Waiting" /\ receiverSome => wakes > 0

\* The snapshot is never thrown away: this.receiver is set to None only
\* once try_next answered Ok(None), that is after the sender task ran and
\* dropped the sender and every event it sent was received.  Taking Err(_)
\* (sender alive) for the end of the channel would drop the snapshot.
SnapshotNotDiscarded == ~receiverSome => ~senderQueued /\ chan = <<>>

\* Snapshot events not yet handed to the consumer.
Undelivered == IF senderQueued THEN SeqElems(changes) ELSE SeqElems(chan)

\* The stream implements its contract: the snapshot is handed out once per
\* attribute present at creation, the live changes in order and without
\* loss, the two interleaved in some way, and nothing after the drop.
\* Waker tasks, the sender task and a consumer waiting are stutters.
Contract == INSTANCE StreamContract
    WITH pending <- IF consumer = "Dropped" THEN {} ELSE Undelivered,
         open <- consumer # "Dropped"
ContractSpec == Contract!Spec

\* Every attribute of the snapshot is eventually handed to the consumer,
\* however early the consumer first polls, unless the stream is dropped.
SnapshotDelivered ==
    \A a \in Attr :
        a \in Undelivered ~> (a \notin Undelivered \/ consumer = "Dropped")

\* The expect(..) of the sender task never fires: its message says the
\* task runs only after the receiver in the stream was polled.
SenderNeverPanics == ~panicked

\* The type comment: the stream hands out every current attribute first and
\* then continues as the live stream, so once everything sent is consumed,
\* the consumer's picture of the store is the store.
Quiet == ~senderQueued /\ chan = <<>> /\ live = <<>> /\ consumer # "Dropped"
ViewConverges == Quiet => \A a \in Attr : (view[a] = "present") = (a \in store)

=============================================================================
