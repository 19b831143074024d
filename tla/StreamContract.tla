--------------------------- MODULE StreamContract ---------------------------
(***************************************************************************)
(* What a ForceUpdateAttributeStream promises its consumer, without tasks, *)
(* channels or wakers: every attribute present in the store when the       *)
(* stream was created is handed out once as an Updated event, and the      *)
(* store's changes since then are handed out in the order they happened.   *)
(* The two sources interleave in any way, and dropping the stream discards *)
(* whatever it has not handed out.                                         *)
(***************************************************************************)
EXTENDS Sequences

CONSTANTS Attr

VARIABLES
    store,      \* attributes present in the store
    pending,    \* snapshot attributes not yet handed out
    live,       \* changes not yet handed out, oldest first
    open,       \* the stream has not been dropped
    view        \* what the consumer was handed, per attribute

cvars == <<store, pending, live, open, view>>

Init ==
    /\ store \in SUBSET Attr
    /\ pending = store
    /\ live = <<>>
    /\ open = TRUE
    /\ view = [a \in Attr |-> "unknown"]

\* The consumer is handed event e.
Hand(attr, type) ==
    view' = [view EXCEPT ![attr] = IF type = "Deleted" THEN "absent"
                                                     ELSE "present"]

\* A snapshot attribute, in any order relative to the live changes.
HandSnapshot(a) ==
    /\ open
    /\ a \in pending
    /\ pending' = pending \ {a}
    /\ Hand(a, "Updated")
    /\ UNCHANGED <<store, live, open>>

\* The oldest change not yet handed out.
HandLive ==
    /\ open
    /\ live # <<>>
    /\ Hand(Head(live).attr, Head(live).type)
    /\ live' = Tail(live)
    /\ UNCHANGED <<store, pending, open>>

\* The store changes; an open stream records the change.
Change(a, type) ==
    /\ IF open THEN live' = Append(live, [attr |-> a, type |-> type])
               ELSE UNCHANGED live
    /\ UNCHANGED <<pending, open, view>>

Update(a) ==
    /\ store' = store \cup {a}
    /\ Change(a, "Updated")

Delete(a) ==
    /\ a \in store
    /\ store' = store \ {a}
    /\ Change(a, "Deleted")

Drop ==
    /\ open
    /\ open' = FALSE
    /\ pending' = {}
    /\ live' = <<>>
    /\ UNCHANGED <<store, view>>

Next ==
    \/ \E a \in Attr : HandSnapshot(a) \/ Update(a) \/ Delete(a)
    \/ HandLive
    \/ Drop

Spec == Init /\ [][Next]_cvars

=============================================================================
