--------------------- MODULE ForceUpdateStream_proofs ----------------------
(***************************************************************************)
(* Proofs about ForceUpdateStream, for every set of attributes and every   *)
(* bound: the stream never loses the wakeup that brings the consumer back  *)
(* to the snapshot channel.                                                *)
(***************************************************************************)
EXTENDS ForceUpdateStream, FiniteSetTheorems, SequenceTheorems, TLAPS

\* The inductive invariant: WakeupPending needs the types of the counters.
SInv == TypeOK /\ WakeupPending

\* The snapshot new() takes is a sequence of attributes.
LEMMA SnapshotIsSeq ==
    ASSUME NEW S \in SUBSET Attr
    PROVE  Orderings(S) \subseteq Seq(Attr)
<1>1. Cardinality(S) \in Nat
    BY AttrFiniteAssumption, FS_Subset, FS_CardinalityType
<1>. QED  BY <1>1 DEF Orderings

LEMMA InitSInv == Init => SInv
<1>. SUFFICES ASSUME Init PROVE SInv  OBVIOUS
<1>1. changes \in Seq(Attr)  BY SnapshotIsSeq DEF Init
<1>2. TypeOK
    <2>1. live \in Seq(Events) /\ Len(live) <= MaxLive
        BY StreamConstantsAssumption DEF Init
    <2>2. wakes \in 0..MaxWake  BY StreamConstantsAssumption DEF Init
    <2>3. view \in [Attr -> Views]  BY DEF Init, Views
    <2>4. consumer \in ConsumerStates  BY DEF Init, ConsumerStates
    <2>5. store \subseteq Attr  BY DEF Init
    <2>6. senderQueued \in BOOLEAN /\ receiverSome \in BOOLEAN
          /\ panicked \in BOOLEAN
        BY DEF Init
    <2>7. chan \in Seq(Attr)  BY DEF Init
    <2>. QED  BY <1>1, <2>1, <2>2, <2>3, <2>4, <2>5, <2>6, <2>7 DEF TypeOK
<1>3. WakeupPending  BY DEF Init, WakeupPending
<1>. QED  BY <1>2, <1>3 DEF SInv

\* The consumer is handed an event of the type: the view stays typed.
LEMMA DeliverTyped ==
    ASSUME NEW e \in Events, view \in [Attr -> Views], Deliver(e)
    PROVE  view' \in [Attr -> Views]
BY DEF Deliver, Events, Views

LEMMA NextSInv == SInv /\ [Next]_vars => SInv'
<1>. SUFFICES ASSUME SInv, [Next]_vars PROVE SInv'  OBVIOUS
<1>. USE StreamConstantsAssumption DEF SInv
<1>1. CASE RunSender
    <2>0. /\ senderQueued' = FALSE /\ changes' = <<>>
          /\ store' = store /\ receiverSome' = receiverSome /\ live' = live
          /\ wakes' = wakes /\ consumer' = consumer /\ view' = view
        BY <1>1 DEF RunSender
    <2>1. CASE consumer = "Dropped"
        <3>1. panicked' = (changes # <<>>) /\ chan' = chan
            BY <1>1, <2>1 DEF RunSender
        <3>2. panicked' \in BOOLEAN  BY <3>1
        <3>3. changes' \in Seq(Attr) /\ senderQueued' \in BOOLEAN
            <4>1. changes' = <<>> /\ senderQueued' = FALSE  BY <2>0
            <4>2. changes' \in Seq(Attr)  BY <4>1
            <4>. QED  BY <4>1, <4>2
        <3>4. TypeOK'  BY <2>0, <3>1, <3>2, <3>3 DEF TypeOK
        <3>5. WakeupPending'  BY <2>0 DEF WakeupPending
        <3>. QED  BY <3>4, <3>5
    <2>2. CASE consumer # "Dropped"
        <3>1. chan' = chan \o changes /\ panicked' = panicked
            BY <1>1, <2>2 DEF RunSender
        <3>2. chan' \in Seq(Attr)  BY <3>1 DEF TypeOK
        <3>3. changes' \in Seq(Attr) /\ senderQueued' \in BOOLEAN
            <4>1. changes' = <<>> /\ senderQueued' = FALSE  BY <2>0
            <4>2. changes' \in Seq(Attr)  BY <4>1
            <4>. QED  BY <4>1, <4>2
        <3>4. TypeOK'  BY <2>0, <3>1, <3>2, <3>3 DEF TypeOK
        <3>5. WakeupPending'  BY <2>0 DEF WakeupPending
        <3>. QED  BY <3>4, <3>5
    <2>. QED  BY <2>1, <2>2
<1>2. CASE RunWake
    BY <1>2 DEF RunWake, TypeOK, WakeupPending, ConsumerStates
<1>3. CASE PollNext
    <2>1. CASE PollSnapshot
        <3>1. Head(chan) \in Attr  BY <2>1 DEF PollSnapshot, TypeOK
        <3>2. view' \in [Attr -> Views]
            BY <2>1, <3>1, DeliverTyped DEF PollSnapshot, TypeOK, Events
        <3>. QED  BY <1>3, <2>1, <3>2 DEF PollNext, PollSnapshot, TypeOK,
                     WakeupPending
    <2>2. CASE TryReceiverEmpty /\ PollLive
        <3>1. /\ receiverSome' \in BOOLEAN
              /\ wakes' \in 0..MaxWake
              /\ chan' = chan
              /\ receiverSome' => wakes' > 0 \/ consumer' # "Waiting"
            <4>1. CASE receiverSome /\ ~senderQueued
                <5>1. receiverSome' = FALSE /\ wakes' = wakes /\ chan' = chan
                    BY <2>2, <4>1 DEF TryReceiverEmpty
                <5>. QED  BY <5>1 DEF TypeOK
            <4>2. CASE receiverSome /\ senderQueued
                <5>1. /\ wakes < MaxWake /\ wakes' = wakes + 1
                      /\ receiverSome' = receiverSome /\ chan' = chan
                    BY <2>2, <4>2 DEF TryReceiverEmpty
                <5>. QED  BY <5>1 DEF TypeOK
            <4>3. CASE ~receiverSome
                <5>1. receiverSome' = receiverSome /\ wakes' = wakes /\ chan' = chan
                    BY <2>2, <4>3 DEF TryReceiverEmpty
                <5>. QED  BY <4>3, <5>1 DEF TypeOK
            <4>. QED  BY <4>1, <4>2, <4>3 DEF TypeOK
        <3>2. CASE live # <<>> /\ Deliver(Head(live)) /\ live' = Tail(live)
                   /\ UNCHANGED consumer
            <4>1. Head(live) \in Events  BY <3>2 DEF TypeOK
            <4>2. view' \in [Attr -> Views]  BY <3>2, <4>1, DeliverTyped DEF TypeOK
            <4>. QED  BY <1>3, <3>1, <3>2, <4>2 DEF PollNext, TypeOK,
                         WakeupPending
        <3>3. CASE live = <<>> /\ consumer' = "Waiting" /\ UNCHANGED <<live, view>>
            BY <1>3, <3>1, <3>3 DEF PollNext, TypeOK, WakeupPending,
               ConsumerStates
        <3>. QED  BY <2>2, <3>2, <3>3 DEF PollLive
    <2>. QED  BY <1>3, <2>1, <2>2 DEF PollNext
<1>4. CASE \E a \in Attr : StoreUpdate(a) \/ StoreDelete(a)
    <2>1. PICK a \in Attr : StoreUpdate(a) \/ StoreDelete(a)  BY <1>4
    <2>2. CASE consumer = "Dropped"
        BY <2>1, <2>2 DEF StoreUpdate, StoreDelete, Publish, TypeOK,
           WakeupPending
    <2>3. CASE consumer # "Dropped"
        <3>1. /\ Len(live) < MaxLive
              /\ \E t \in {"Updated", "Deleted"} :
                     live' = Append(live, [attr |-> a, type |-> t])
              /\ consumer' = IF consumer = "Waiting" THEN "Runnable" ELSE consumer
            BY <2>1, <2>3 DEF StoreUpdate, StoreDelete, Publish
        <3>2. live' \in Seq(Events) /\ Len(live') <= MaxLive
            BY <3>1 DEF TypeOK, Events
        <3>. QED  BY <2>1, <3>1, <3>2 DEF StoreUpdate, StoreDelete, TypeOK,
                     WakeupPending, ConsumerStates
    <2>. QED  BY <2>2, <2>3
<1>5. CASE DropStream
    BY <1>5 DEF DropStream, TypeOK, WakeupPending, ConsumerStates
<1>6. CASE UNCHANGED vars
    BY <1>6 DEF vars, TypeOK, WakeupPending
<1>. QED  BY <1>1, <1>2, <1>3, <1>4, <1>5, <1>6 DEF Next

\* Whatever the executor's order, the store's changes and the moment the
\* owner drops the stream, a consumer waiting while the snapshot receiver
\* is still in place always has a waker task queued (the Err branch of
\* poll_next): the snapshot can never be stranded in the channel.
THEOREM WakeupNeverLost == Spec => [](TypeOK /\ WakeupPending)
<1>1. Init => SInv  BY InitSInv
<1>2. SInv /\ [Next]_vars => SInv'  BY NextSInv
<1>. QED  BY <1>1, <1>2, PTL DEF Spec, SInv

\* No step drops the snapshot receiver early.  Only the Ok(None) branch of
\* try_next sets the receiver to None, and it is taken only when the sender
\* task has run and the channel is empty; once the receiver is gone nothing
\* can fill the channel again, because the sender task has already run.
LEMMA NextSnapshotKept ==
    SInv /\ SnapshotNotDiscarded /\ [Next]_vars => SnapshotNotDiscarded'
<1>. SUFFICES ASSUME SInv, SnapshotNotDiscarded, [Next]_vars,
                    ~receiverSome'
             PROVE  ~senderQueued' /\ chan' = <<>>
    BY DEF SnapshotNotDiscarded
<1>1. CASE RunSender
    \* The sender task is queued, so the receiver is still in place.
    <2>1. receiverSome  BY <1>1 DEF RunSender, SnapshotNotDiscarded
    <2>. QED  BY <1>1, <2>1 DEF RunSender
<1>2. CASE RunWake
    BY <1>2 DEF RunWake, SnapshotNotDiscarded
<1>3. CASE PollNext
    <2>1. CASE PollSnapshot
        BY <2>1 DEF PollSnapshot
    <2>2. CASE TryReceiverEmpty /\ PollLive
        <3>1. CASE receiverSome
            \* Only the Ok(None) branch drops the receiver.
            <4>1. ~senderQueued /\ chan = <<>> /\ chan' = chan
                BY <2>2, <3>1 DEF TryReceiverEmpty
            <4>. QED  BY <1>3, <4>1 DEF PollNext
        <3>2. CASE ~receiverSome
            BY <1>3, <2>2, <3>2 DEF PollNext, TryReceiverEmpty,
               SnapshotNotDiscarded
        <3>. QED  BY <3>1, <3>2
    <2>. QED  BY <1>3, <2>1, <2>2 DEF PollNext
<1>4. CASE \E a \in Attr : StoreUpdate(a) \/ StoreDelete(a)
    BY <1>4 DEF StoreUpdate, StoreDelete, SnapshotNotDiscarded
<1>5. CASE DropStream
    BY <1>5 DEF DropStream, SnapshotNotDiscarded
<1>6. CASE UNCHANGED vars
    BY <1>6 DEF vars, SnapshotNotDiscarded
<1>. QED  BY <1>1, <1>2, <1>3, <1>4, <1>5, <1>6 DEF Next

\* Whatever the executor's order and however early the consumer polls,
\* poll_next never drops the snapshot receiver while the sender task has
\* yet to run or snapshot events are still in the channel.
THEOREM SnapshotKept == Spec => []SnapshotNotDiscarded
<1>1. Init => SInv /\ SnapshotNotDiscarded
    BY InitSInv DEF Init, SnapshotNotDiscarded
<1>2. SInv /\ SnapshotNotDiscarded /\ [Next]_vars
        => (SInv /\ SnapshotNotDiscarded)'
    BY NextSInv, NextSnapshotKept
<1>. QED  BY <1>1, <1>2, PTL DEF Spec

-----------------------------------------------------------------------------
(* The stream implements its contract (StreamContract).                    *)

\* What the refinement needs besides SInv: the snapshot has no repeated
\* attribute, and nothing is in the channel before the sender task runs.
RInv ==
    /\ IsInjective(changes)
    /\ IsInjective(chan)
    /\ senderQueued => chan = <<>>

\* The snapshot new() takes lists every attribute of the store exactly once.
LEMMA OrderingCoversSet ==
    ASSUME NEW S \in SUBSET Attr, NEW s \in Orderings(S)
    PROVE  SeqElems(s) = S /\ IsInjective(s)
<1>. DEFINE n == Cardinality(S)
<1>1. IsFiniteSet(S) /\ n \in Nat
    BY AttrFiniteAssumption, FS_Subset, FS_CardinalityType
<1>2. s \in Injection(1..n, S)
    BY DEF Orderings, Injection, IsInjective
<1>3. Cardinality(1..n) = n
    BY <1>1, FS_Interval
<1>4. s \in Surjection(1..n, S)
    BY <1>1, <1>2, <1>3, FS_Injection
<1>5. SeqElems(s) = S
    BY <1>4 DEF Surjection, SeqElems
<1>. QED  BY <1>2, <1>5 DEF Injection

\* Handing out the head of a sequence without repeats removes exactly the
\* head from the attributes it holds.
LEMMA TailElems ==
    ASSUME NEW s \in Seq(Attr), s # <<>>, IsInjective(s)
    PROVE  /\ SeqElems(Tail(s)) = SeqElems(s) \ {Head(s)}
           /\ IsInjective(Tail(s))
<1>1. Tail(s) \in Seq(Attr) /\ Len(Tail(s)) = Len(s) - 1
      /\ \A i \in 1..Len(s) - 1 : Tail(s)[i] = s[i + 1]
    BY HeadTailProperties
<1>2. Len(s) \in Nat \ {0} /\ DOMAIN s = 1..Len(s) /\ Head(s) = s[1]
    BY EmptySeq
<1>6. DOMAIN Tail(s) = 1..Len(s) - 1
    BY <1>1, <1>2
<1>3. SeqElems(Tail(s)) \subseteq SeqElems(s) \ {Head(s)}
    BY <1>1, <1>2, <1>6 DEF SeqElems, IsInjective
<1>4. SeqElems(s) \ {Head(s)} \subseteq SeqElems(Tail(s))
    <2>. SUFFICES ASSUME NEW x \in SeqElems(s), x # Head(s)
                  PROVE  x \in SeqElems(Tail(s))
        OBVIOUS
    <2>1. PICK i \in 1..Len(s) : s[i] = x  BY <1>2 DEF SeqElems
    <2>2. i > 1  BY <1>2, <2>1
    <2>3. i - 1 \in DOMAIN Tail(s) /\ Tail(s)[i - 1] = x
        BY <1>1, <1>2, <1>6, <2>1, <2>2
    <2>. QED  BY <2>3 DEF SeqElems
<1>5. IsInjective(Tail(s))
    BY <1>1, <1>2 DEF IsInjective
<1>. QED  BY <1>3, <1>4, <1>5

LEMMA InitRInv == Init => RInv
<1>. SUFFICES ASSUME Init PROVE RInv  OBVIOUS
<1>1. IsInjective(changes)  BY OrderingCoversSet DEF Init
<1>2. IsInjective(chan)  BY DEF Init, IsInjective
<1>. QED  BY <1>1, <1>2 DEF Init, RInv

LEMMA NextRInv == SInv /\ RInv /\ [Next]_vars => RInv'
<1>. SUFFICES ASSUME SInv, RInv, [Next]_vars PROVE RInv'  OBVIOUS
<1>. USE DEF SInv
<1>1. CASE RunSender
    <2>1. changes' = <<>> /\ ~senderQueued'  BY <1>1 DEF RunSender
    <2>2. IsInjective(changes')  BY <2>1 DEF IsInjective
    <2>3. chan' = chan \/ chan' = <<>> \o changes
        BY <1>1 DEF RunSender, RInv
    <2>4. IsInjective(chan')
        BY <2>3, ConcatEmptySeq DEF RInv, TypeOK
    <2>. QED  BY <2>1, <2>2, <2>4 DEF RInv
<1>2. CASE PollNext
    <2>1. CASE PollSnapshot
        <3>1. chan' = Tail(chan) /\ chan # <<>>  BY <2>1 DEF PollSnapshot
        <3>2. IsInjective(chan')  BY <3>1, TailElems DEF RInv, TypeOK
        <3>3. senderQueued' = senderQueued /\ changes' = changes
            BY <1>2 DEF PollNext
        <3>4. ~senderQueued  BY <3>1 DEF RInv
        <3>. QED  BY <3>2, <3>3, <3>4 DEF RInv
    <2>2. CASE TryReceiverEmpty /\ PollLive
        BY <1>2, <2>2 DEF PollNext, TryReceiverEmpty, RInv
    <2>. QED  BY <1>2, <2>1, <2>2 DEF PollNext
<1>3. CASE RunWake \/ DropStream \/ UNCHANGED vars
    BY <1>3 DEF RunWake, DropStream, vars, RInv
<1>4. CASE \E a \in Attr : StoreUpdate(a) \/ StoreDelete(a)
    BY <1>4 DEF StoreUpdate, StoreDelete, RInv
<1>. QED  BY <1>1, <1>2, <1>3, <1>4 DEF Next

\* The contract's snapshot set, as the refinement maps it.
Pending == IF consumer = "Dropped" THEN {} ELSE Undelivered

\* The steps that leave the contract's state alone.
LEMMA ContractStutter ==
    ASSUME UNCHANGED <<store, live, view>>, Pending' = Pending,
           (consumer' = "Dropped") = (consumer = "Dropped")
    PROVE  UNCHANGED Contract!cvars
BY DEF Contract!cvars, Pending

LEMMA SenderRefines ==
    ASSUME TypeOK, RInv, RunSender
    PROVE  UNCHANGED Contract!cvars
<1>1. UNCHANGED <<store, live, view, consumer>>  BY DEF RunSender
<1>2. Pending' = Pending
    <2>1. CASE consumer = "Dropped"
        BY <1>1, <2>1 DEF Pending
    <2>2. CASE consumer # "Dropped"
        <3>1. chan = <<>> /\ chan' = chan \o changes /\ ~senderQueued'
              /\ senderQueued
            BY <2>2 DEF RunSender, RInv
        <3>2. chan' = changes  BY <3>1, ConcatEmptySeq DEF TypeOK
        <3>. QED  BY <1>1, <2>2, <3>1, <3>2 DEF Pending, Undelivered
    <2>. QED  BY <2>1, <2>2
<1>. QED  BY <1>1, <1>2, ContractStutter

LEMMA SnapshotRefines ==
    ASSUME TypeOK, RInv, PollNext, PollSnapshot
    PROVE  Contract!HandSnapshot(Head(chan))
<1>1. chan # <<>> /\ chan' = Tail(chan) /\ consumer = "Runnable"
      /\ consumer' = consumer
    BY DEF PollNext, PollSnapshot
<1>2. ~senderQueued /\ senderQueued' = senderQueued
    BY <1>1 DEF RInv, PollNext
<1>3. SeqElems(chan') = SeqElems(chan) \ {Head(chan)}
    BY <1>1, TailElems DEF TypeOK, RInv
<1>4. Pending = SeqElems(chan) /\ Pending' = SeqElems(chan')
    BY <1>1, <1>2 DEF Pending, Undelivered
<1>5. Head(chan) \in SeqElems(chan)
    BY <1>1, EmptySeq DEF TypeOK, SeqElems
<1>. QED  BY <1>1, <1>3, <1>4, <1>5 DEF PollNext, PollSnapshot, Deliver,
            Contract!HandSnapshot, Contract!Hand, Pending

LEMMA LiveRefines ==
    ASSUME TypeOK, PollNext, TryReceiverEmpty, PollLive
    PROVE  [Contract!HandLive]_Contract!cvars
<1>1. UNCHANGED <<store, senderQueued, changes, chan>>
    BY DEF PollNext, TryReceiverEmpty
<1>2. consumer = "Runnable" /\ consumer' # "Dropped"
    BY DEF PollNext, PollLive
<1>3. Pending' = Pending  BY <1>1, <1>2 DEF Pending, Undelivered
<1>4. CASE live # <<>> /\ Deliver(Head(live)) /\ live' = Tail(live)
    BY <1>1, <1>2, <1>3, <1>4 DEF PollNext, Deliver, Contract!HandLive,
       Contract!Hand, Pending
<1>5. CASE live = <<>> /\ UNCHANGED <<live, view>>
    BY <1>1, <1>2, <1>3, <1>5, ContractStutter
<1>. QED  BY <1>4, <1>5 DEF PollLive

LEMMA StoreRefines ==
    ASSUME NEW a \in Attr, StoreUpdate(a) \/ StoreDelete(a)
    PROVE  Contract!Update(a) \/ Contract!Delete(a)
<1>1. UNCHANGED <<senderQueued, changes, chan, view>>
    BY DEF StoreUpdate, StoreDelete
<1>2. (consumer' = "Dropped") = (consumer = "Dropped")
    BY DEF StoreUpdate, StoreDelete, Publish
<1>3. Pending' = Pending  BY <1>1, <1>2 DEF Pending, Undelivered
<1>4. CASE StoreUpdate(a)
    BY <1>1, <1>2, <1>3, <1>4 DEF StoreUpdate, Publish, Contract!Update,
       Contract!Change, Pending
<1>5. CASE StoreDelete(a)
    BY <1>1, <1>2, <1>3, <1>5 DEF StoreDelete, Publish, Contract!Delete,
       Contract!Change, Pending
<1>. QED  BY <1>4, <1>5

LEMMA NextRefinesContract ==
    TypeOK /\ RInv /\ [Next]_vars => [Contract!Next]_Contract!cvars
<1>. SUFFICES ASSUME TypeOK, RInv, [Next]_vars
             PROVE  [Contract!Next]_Contract!cvars
    OBVIOUS
<1>1. CASE RunSender  BY <1>1, SenderRefines
<1>2. CASE RunWake
    BY <1>2, ContractStutter DEF RunWake, Pending, Undelivered
<1>3. CASE PollNext
    <2>1. CASE PollSnapshot
        <3>1. Head(chan) \in Attr  BY <2>1 DEF PollSnapshot, TypeOK
        <3>. QED  BY <1>3, <2>1, <3>1, SnapshotRefines DEF Contract!Next
    <2>2. CASE TryReceiverEmpty /\ PollLive
        BY <1>3, <2>2, LiveRefines DEF Contract!Next
    <2>. QED  BY <1>3, <2>1, <2>2 DEF PollNext
<1>4. CASE \E a \in Attr : StoreUpdate(a) \/ StoreDelete(a)
    BY <1>4, StoreRefines DEF Contract!Next
<1>5. CASE DropStream
    BY <1>5 DEF DropStream, Pending, Contract!Next, Contract!Drop
<1>6. CASE UNCHANGED vars
    BY <1>6, ContractStutter DEF vars, Pending, Undelivered
<1>. QED  BY <1>1, <1>2, <1>3, <1>4, <1>5, <1>6 DEF Next

\* For every attribute set and bound, and whatever the event loop's order,
\* the stream implements its contract: the consumer is handed each
\* attribute of the creation-time snapshot at most once as an update, the
\* store's changes in order and without loss while it holds the stream,
\* and nothing once it dropped it.
THEOREM StreamRefinement == Spec => ContractSpec
<1>1. Init => Contract!Init
    <2>. SUFFICES ASSUME Init PROVE Contract!Init  OBVIOUS
    <2>1. Pending = store
        BY OrderingCoversSet DEF Init, Pending, Undelivered
    <2>. QED  BY <2>1 DEF Init, Contract!Init, Pending
<1>2. SInv /\ RInv /\ [Next]_vars => (SInv /\ RInv)'
    BY NextSInv, NextRInv
<1>3. SInv /\ RInv /\ [Next]_vars => [Contract!Next]_Contract!cvars
    BY NextRefinesContract DEF SInv
<1>4. Init => SInv /\ RInv  BY InitSInv, InitRInv
<1>. QED  BY <1>1, <1>2, <1>3, <1>4, PTL DEF Spec, ContractSpec, Contract!Spec

=============================================================================
