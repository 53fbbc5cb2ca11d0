------------------------------ MODULE PacedWrites ----------------------------
(***************************************************************************)
(* What WriteQueue (write_queue.h) promises its callers and the appliance, *)
(* in true time and without its timer and its timestamps: at most one      *)
(* write of a property waits, it is the newest asked for, the writes go    *)
(* out in the order in which their properties were first asked for, no two *)
(* of them within Spacing, and none waits longer than Patience.            *)
(***************************************************************************)
EXTENDS Naturals, FiniteSets

CONSTANTS
    Keys,           \* the property names
    Values,         \* what may be written to one
    MaxPending,     \* how many writes may wait
    Spacing,        \* the least time from one write to the next
    Patience        \* the longest a write may wait

VARIABLES
    now,            \* the time
    pending,        \* the writes that wait, with the time they have since
    wanted,         \* the newest value asked for, per property
    sent            \* the last write sent, with the time: one element at most

pacedVars == <<now, pending, wanted, sent>>

PacedInit ==
    /\ now = 0
    /\ pending = {}
    /\ wanted \in [Keys -> Values]
    /\ sent = {}

\* The newest value takes the place of the one that waits.
Replace(write, value) ==
    pending' = (pending \ {write}) \cup {[write EXCEPT !.value = value]}

\* A property nothing waits for joins the others if there is room.
Join(key, value) ==
    /\ \A write \in pending : write.key # key
    /\ Cardinality(pending) < MaxPending
    /\ pending' = pending \cup {[key |-> key, value |-> value, since |-> now]}

Ask(key, value) ==
    /\ \/ \E write \in pending : write.key = key /\ Replace(write, value)
       \/ Join(key, value)
    /\ wanted' = [wanted EXCEPT ![key] = value]
    /\ UNCHANGED <<now, sent>>

\* The write asked for first goes out, Spacing after the last one.
Send(write) ==
    /\ \A other \in pending : write.since <= other.since
    /\ \A last \in sent : now >= last.at + Spacing
    /\ pending' = pending \ {write}
    /\ sent' = {[key |-> write.key, value |-> write.value, at |-> now]}
    /\ UNCHANGED <<now, wanted>>

\* The link is lost.
Forget ==
    /\ pending' = {}
    /\ UNCHANGED <<now, wanted, sent>>

\* Time does not pass a write that has waited for all of Patience.
Pass ==
    /\ \A write \in pending : now < write.since + Patience
    /\ now' = now + 1
    /\ UNCHANGED <<pending, wanted, sent>>

PacedNext ==
    \/ \E key \in Keys, value \in Values : Ask(key, value)
    \/ \E write \in pending : Send(write)
    \/ Forget
    \/ Pass

PacedSpec == PacedInit /\ [][PacedNext]_pacedVars

=============================================================================
