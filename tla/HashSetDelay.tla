---------------------------- MODULE HashSetDelay ----------------------------
(***************************************************************************)
(* The set of keys with timeouts (core/network/src/hashset_delay.rs): a    *)
(* map from the keys to entries and a queue of timeouts, that refer to     *)
(* each other and are changed one after the other.                         *)
(*                                                                         *)
(* The DelayQueue of tokio is external.  As the code uses it: insert gives *)
(* out a slot of a slab, any that is free, also one that was used before;  *)
(* reset and remove of a slot that is free panic, and of one that is used  *)
(* again hit the timeout of another key; poll_expired frees the slot of a  *)
(* timeout that has passed.                                                *)
(***************************************************************************)
EXTENDS Integers

CONSTANTS
    K,         \* the keys
    Slot,      \* slots of the delay queue
    Timeout,   \* durations
    Horizon    \* bound on the time

ASSUME HSDAssumption == Timeout \subseteq Nat /\ Horizon \in Nat

VARIABLES
    entries,      \* key -> MapEntry: its slot, and the instant at which it was to expire
    expirations,  \* slot -> the key and the instant at which it expires
    now,
    failed        \* a free slot was used, or a timeout passed for a key without entry

hsdVars == <<entries, expirations, now, failed>>

With(f, x, v)     == [y \in DOMAIN f \cup {x} |-> IF y = x THEN v ELSE f[y]]
Only(f, domain)   == [y \in DOMAIN f \cap domain |-> f[y]]

contains(k) == k \in DOMAIN entries

\* DelayQueue::reset.
reset(slot, timeout) ==
    IF slot \in DOMAIN expirations
    THEN /\ expirations' = [expirations EXCEPT ![slot].at = now + timeout]
         /\ UNCHANGED failed
    ELSE failed' = TRUE /\ UNCHANGED expirations

\* Mutant: the time is added to what is left of the old one.
update_timeout_Extends(k, timeout) ==
    /\ contains(k)
    /\ reset(entries[k].key, entries[k].value - now + timeout)
    /\ UNCHANGED <<entries, now>>

\* The value of the entry is left as it is.
update_timeout(k, timeout) ==
    /\ contains(k)
    /\ reset(entries[k].key, timeout)
    /\ UNCHANGED <<entries, now>>

insert_at(k, timeout) ==
    \/ update_timeout(k, timeout)
    \/ /\ ~contains(k)
       /\ \E slot \in Slot \ DOMAIN expirations :
             /\ expirations' = With(expirations, slot, [item |-> k, at |-> now + timeout])
             /\ entries' = With(entries, k, [key |-> slot, value |-> now + timeout])
       /\ UNCHANGED <<now, failed>>

\* Mutant: the timeouts of the keys that go are left running.
drop_KeepsTimeouts(keys) ==
    /\ entries' = Only(entries, K \ keys)
    /\ UNCHANGED <<expirations, now, failed>>

\* The entries of these keys go, and DelayQueue::remove takes their timeouts.
drop(keys) ==
    LET slots == {entries[k].key : k \in keys \cap DOMAIN entries}
    IN  /\ entries' = Only(entries, K \ keys)
        /\ IF slots \subseteq DOMAIN expirations
           THEN expirations' = Only(expirations, Slot \ slots) /\ UNCHANGED failed
           ELSE failed' = TRUE /\ UNCHANGED expirations
        /\ UNCHANGED now

remove(k) == drop({k})

retain(f) == drop(K \ f)

clear ==
    /\ entries' = Only(entries, {})
    /\ expirations' = Only(expirations, {})
    /\ UNCHANGED <<now, failed>>

\* The timeout in this slot has passed: its key is handed out, or the error
\* "Value no longer exists in expirations".
poll_next(slot) ==
    /\ slot \in DOMAIN expirations /\ expirations[slot].at <= now
    /\ expirations' = Only(expirations, Slot \ {slot})
    /\ entries' = Only(entries, K \ {expirations[slot].item})
    /\ failed' = (failed \/ ~contains(expirations[slot].item))
    /\ UNCHANGED now

Tick ==
    /\ now < Horizon
    /\ now' = now + 1
    /\ UNCHANGED <<entries, expirations, failed>>

Init ==
    /\ entries = [k \in {} |-> [key |-> 0, value |-> 0]]
    /\ expirations = [slot \in {} |-> [item |-> 0, at |-> 0]]
    /\ now = 0 /\ failed = FALSE

Next ==
    /\ ~failed
    /\ \/ \E k \in K : remove(k) \/ \E timeout \in Timeout : insert_at(k, timeout)
       \/ \E f \in SUBSET K : retain(f)
       \/ clear
       \/ \E slot \in Slot : poll_next(slot)
       \/ Tick

Spec == Init /\ [][Next]_hsdVars

-----------------------------------------------------------------------------
(* Properties                                                              *)

\* Entries and timeouts belong to each other, one to one, although slots are
\* used again: no operation ever touches the timeout of another key, the delay
\* queue never panics and poll_next never fails.
OneTimerEach ==
    /\ ~failed
    /\ \A k \in DOMAIN entries :
          /\ entries[k].key \in DOMAIN expirations
          /\ expirations[entries[k].key].item = k
    /\ \A slot \in DOMAIN expirations :
          /\ expirations[slot].item \in DOMAIN entries
          /\ entries[expirations[slot].item].key = slot

\* The two structures together are a set of keys with one deadline each.
Deadline == [k \in DOMAIN entries |-> expirations[entries[k].key].at]

DS == INSTANCE DelaySet WITH deadline <- Deadline

\* HashSetDelay implements DelaySet: a key is handed out once, at its latest
\* deadline or after, and not at all once it is removed.
ImplementsDelaySet == DS!Spec

=============================================================================
