------------------------ MODULE HashSetDelay_proofs -------------------------
(***************************************************************************)
(* Proofs about HashSetDelay, for any keys, slots and timeouts.  The       *)
(* inductive invariant is OneTimerEach with the types of the variables;    *)
(* under it every operation is a step of DelaySet.                         *)
(***************************************************************************)
EXTENDS HashSetDelay, TLAPS

HSDTypes ==
    /\ DOMAIN entries \subseteq K
    /\ entries \in [DOMAIN entries -> [key : Slot, value : Nat]]
    /\ DOMAIN expirations \subseteq Slot
    /\ expirations \in [DOMAIN expirations -> [item : K, at : Nat]]
    /\ now \in Nat /\ failed \in BOOLEAN

HSDInv == HSDTypes /\ OneTimerEach

\* update_timeout keeps the timeouts where they are and sets one deadline.
LEMMA UpdateStep ==
    ASSUME HSDInv, NEW k \in K, NEW timeout \in Timeout, update_timeout(k, timeout)
    PROVE  HSDInv' /\ DS!Set(k, timeout)
<1>1. timeout \in Nat
  BY HSDAssumption
<1>2. PICK slot \in DOMAIN expirations :
         /\ slot = entries[k].key /\ expirations[slot].item = k
         /\ expirations' = [expirations EXCEPT ![slot].at = now + timeout]
         /\ UNCHANGED <<entries, now, failed>>
  BY DEF HSDInv, OneTimerEach, update_timeout, contains, reset
<1>3. k \in DOMAIN entries
  BY DEF update_timeout, contains
<1>4. /\ DOMAIN expirations' = DOMAIN expirations
      /\ \A s \in DOMAIN expirations :
            /\ expirations'[s].item = expirations[s].item
            /\ expirations'[s].at = IF s = slot THEN now + timeout ELSE expirations[s].at
            /\ expirations'[s] \in [item : K, at : Nat]
  BY <1>1, <1>2 DEF HSDInv, HSDTypes
<1>5. HSDTypes'
  BY <1>2, <1>4 DEF HSDInv, HSDTypes
<1>6. OneTimerEach'
  BY <1>2, <1>4 DEF HSDInv, OneTimerEach
<1>7. \A j \in DOMAIN entries : entries[j].key = slot <=> j = k
  BY <1>2, <1>3 DEF HSDInv, OneTimerEach
<1>8. DS!Set(k, timeout)
  <2>1. \A j \in DOMAIN entries : expirations'[entries[j].key].at =
            IF j = k THEN now + timeout ELSE expirations[entries[j].key].at
    BY <1>2, <1>4, <1>7 DEF HSDInv, OneTimerEach
  <2>2. DOMAIN Deadline = DOMAIN entries /\ DOMAIN Deadline \cup {k} = DOMAIN entries
    BY <1>3 DEF Deadline
  <2>3. Deadline' = [j \in DOMAIN entries |-> expirations'[entries[j].key].at]
    BY <1>2 DEF Deadline
  <2>4. \A j \in DOMAIN entries : Deadline[j] = expirations[entries[j].key].at
    BY DEF Deadline
  <2>5. Deadline' = [j \in DOMAIN Deadline \cup {k} |->
                       IF j = k THEN now + timeout ELSE Deadline[j]]
    BY <2>1, <2>2, <2>3, <2>4
  <2> QED
    BY <1>2, <2>5 DEF DS!Set
<1> QED
  BY <1>5, <1>6, <1>8 DEF HSDInv

\* insert_at of a new key takes a slot that is free.
LEMMA InsertStep ==
    ASSUME HSDInv, NEW k \in K, NEW timeout \in Timeout, insert_at(k, timeout)
    PROVE  HSDInv' /\ DS!Set(k, timeout)
<1>1. CASE update_timeout(k, timeout)
  BY <1>1, UpdateStep
<1>2. CASE ~update_timeout(k, timeout)
  <2>1. timeout \in Nat /\ now \in Nat /\ now + timeout \in Nat
    BY HSDAssumption DEF HSDInv, HSDTypes
  <2>2. PICK slot \in Slot \ DOMAIN expirations :
           /\ expirations' = With(expirations, slot, [item |-> k, at |-> now + timeout])
           /\ entries' = With(entries, k, [key |-> slot, value |-> now + timeout])
    BY <1>2 DEF insert_at
  <2>3. k \notin DOMAIN entries /\ UNCHANGED <<now, failed>>
    BY <1>2 DEF insert_at, contains
  <2>4. /\ DOMAIN entries' = DOMAIN entries \cup {k}
        /\ entries'[k] = [key |-> slot, value |-> now + timeout]
        /\ \A j \in DOMAIN entries : entries'[j] = entries[j]
        /\ entries' \in [DOMAIN entries' -> [key : Slot, value : Nat]]
    BY <2>1, <2>2, <2>3 DEF With, HSDInv, HSDTypes
  <2>5. /\ DOMAIN expirations' = DOMAIN expirations \cup {slot}
        /\ expirations'[slot] = [item |-> k, at |-> now + timeout]
        /\ \A s \in DOMAIN expirations : expirations'[s] = expirations[s]
        /\ expirations' \in [DOMAIN expirations' -> [item : K, at : Nat]]
    BY <2>1, <2>2 DEF With, HSDInv, HSDTypes
  <2>6. HSDTypes'
    BY <2>3, <2>4, <2>5 DEF HSDInv, HSDTypes
  <2>7. OneTimerEach'
    BY <2>2, <2>3, <2>4, <2>5 DEF HSDInv, OneTimerEach
  <2>8. /\ Deadline' = [j \in DOMAIN entries \cup {k} |-> expirations'[entries'[j].key].at]
        /\ Deadline = [j \in DOMAIN entries |-> expirations[entries[j].key].at]
    BY <2>4 DEF Deadline
  <2>9. /\ \A j \in DOMAIN entries :
              expirations'[entries'[j].key].at = expirations[entries[j].key].at
        /\ expirations'[entries'[k].key].at = now + timeout
    BY <2>4, <2>5 DEF HSDInv, OneTimerEach
  <2>10. Deadline' = [j \in DOMAIN Deadline \cup {k} |->
                        IF j = k THEN now + timeout ELSE Deadline[j]]
    BY <2>3, <2>8, <2>9
  <2> QED
    BY <2>3, <2>6, <2>7, <2>10 DEF HSDInv, DS!Set
<1> QED
  BY <1>1, <1>2

\* When some keys go together with their timeouts, those that stay keep theirs.
LEMMA KeepStep ==
    ASSUME HSDInv, NEW keys, NEW slots,
           slots = {entries[k].key : k \in keys \cap DOMAIN entries},
           entries' = Only(entries, K \ keys),
           expirations' = Only(expirations, Slot \ slots),
           UNCHANGED <<now, failed>>
    PROVE  HSDInv' /\ DS!Keep(K \ keys)
<1>1. /\ DOMAIN entries' = DOMAIN entries \ keys
      /\ \A k \in DOMAIN entries' : entries'[k] = entries[k]
      /\ entries' \in [DOMAIN entries' -> [key : Slot, value : Nat]]
  BY DEF Only, HSDInv, HSDTypes
<1>2. /\ DOMAIN expirations' = DOMAIN expirations \ slots
      /\ \A s \in DOMAIN expirations' : expirations'[s] = expirations[s]
      /\ expirations' \in [DOMAIN expirations' -> [item : K, at : Nat]]
  BY DEF Only, HSDInv, HSDTypes
<1>3. HSDTypes'
  BY <1>1, <1>2 DEF HSDInv, HSDTypes
<1>4. \A k \in DOMAIN entries : entries[k].key \in slots <=> k \in keys
  BY DEF HSDInv, OneTimerEach
<1>5. OneTimerEach'
  <2>1. ASSUME NEW k \in DOMAIN entries'
        PROVE  /\ entries'[k].key \in DOMAIN expirations'
               /\ expirations'[entries'[k].key].item = k
    <3>1. k \in DOMAIN entries /\ k \notin keys /\ entries'[k] = entries[k]
      BY <1>1
    <3>2. entries[k].key \in DOMAIN expirations /\ expirations[entries[k].key].item = k
      BY <3>1 DEF HSDInv, OneTimerEach
    <3>3. entries[k].key \in DOMAIN expirations'
      BY <1>2, <1>4, <3>1, <3>2
    <3> QED
      BY <1>2, <3>1, <3>2, <3>3
  <2>2. ASSUME NEW s \in DOMAIN expirations'
        PROVE  /\ expirations'[s].item \in DOMAIN entries'
               /\ entries'[expirations'[s].item].key = s
    <3>1. s \in DOMAIN expirations /\ s \notin slots /\ expirations'[s] = expirations[s]
      BY <1>2
    <3>2. PICK k : k = expirations[s].item
      OBVIOUS
    <3>3. k \in DOMAIN entries /\ entries[k].key = s
      BY <3>1, <3>2 DEF HSDInv, OneTimerEach
    <3>4. k \in DOMAIN entries' /\ entries'[k] = entries[k]
      BY <1>1, <1>4, <3>1, <3>3
    <3> QED
      BY <3>1, <3>2, <3>3, <3>4
  <2> QED
    BY <2>1, <2>2 DEF HSDInv, OneTimerEach
<1>6. DS!Keep(K \ keys)
  <2>1. Deadline' = [k \in DOMAIN entries' |-> expirations'[entries'[k].key].at]
    BY DEF Deadline
  <2>2. \A k \in DOMAIN entries' :
           expirations'[entries'[k].key].at = expirations[entries[k].key].at
    <3> SUFFICES ASSUME NEW k \in DOMAIN entries'
                 PROVE  expirations'[entries'[k].key].at = expirations[entries[k].key].at
      OBVIOUS
    <3>1. entries'[k].key \in DOMAIN expirations'
      BY <1>5 DEF OneTimerEach
    <3> QED
      BY <1>1, <1>2, <3>1
  <2>3. DOMAIN Deadline \cap (K \ keys) = DOMAIN entries'
    BY <1>1 DEF Deadline, HSDInv, HSDTypes
  <2>4. \A k \in DOMAIN entries' : Deadline[k] = expirations[entries[k].key].at
    BY <1>1 DEF Deadline
  <2>5. Deadline' = [k \in DOMAIN Deadline \cap (K \ keys) |-> Deadline[k]]
    BY <2>1, <2>2, <2>3, <2>4
  <2> QED
    BY <2>5 DEF DS!Keep
<1> QED
  BY <1>3, <1>5, <1>6 DEF HSDInv

\* remove and retain give the delay queue only slots that it holds.
LEMMA DropStep ==
    ASSUME HSDInv, NEW keys, drop(keys)
    PROVE  HSDInv' /\ DS!Keep(K \ keys)
<1>1. PICK slots : slots = {entries[k].key : k \in keys \cap DOMAIN entries}
  OBVIOUS
<1>2. slots \subseteq DOMAIN expirations
  BY <1>1 DEF HSDInv, OneTimerEach
<1>3. /\ entries' = Only(entries, K \ keys)
      /\ expirations' = Only(expirations, Slot \ slots)
      /\ UNCHANGED <<now, failed>>
  BY <1>1, <1>2 DEF drop
<1> QED
  BY <1>1, <1>3, KeepStep

\* clear drops every key.
LEMMA ClearStep ==
    ASSUME HSDInv, clear
    PROVE  HSDInv' /\ DS!Keep({})
<1>1. PICK slots : slots = {entries[k].key : k \in K \cap DOMAIN entries}
  OBVIOUS
<1>2. DOMAIN expirations \subseteq slots
  BY <1>1 DEF HSDInv, HSDTypes, OneTimerEach
<1>3. /\ entries' = Only(entries, K \ K)
      /\ expirations' = Only(expirations, Slot \ slots)
      /\ UNCHANGED <<now, failed>>
  BY <1>2 DEF clear, Only, HSDInv, HSDTypes
<1>4. HSDInv' /\ DS!Keep(K \ K)
  BY <1>1, <1>3, KeepStep
<1>5. K \ K = {}
  OBVIOUS
<1> QED
  BY <1>4, <1>5

\* poll_next hands out a key that is in the set and whose deadline has passed.
LEMMA PollStep ==
    ASSUME HSDInv, NEW slot \in Slot, poll_next(slot)
    PROVE  HSDInv' /\ \E k \in K : DS!Expire(k)
<1>1. PICK k \in K : /\ k = expirations[slot].item /\ k \in DOMAIN entries
                     /\ entries[k].key = slot
  BY DEF poll_next, HSDInv, HSDTypes, OneTimerEach
<1>2. PICK slots : slots = {entries[j].key : j \in {k} \cap DOMAIN entries}
  OBVIOUS
<1>3. slots = {slot}
  BY <1>1, <1>2
<1>4. /\ entries' = Only(entries, K \ {k})
      /\ expirations' = Only(expirations, Slot \ slots)
      /\ UNCHANGED now
      /\ expirations[slot].at <= now
  BY <1>1, <1>3 DEF poll_next
<1>5. UNCHANGED failed
  BY <1>1, Zenon DEF poll_next, contains, HSDInv, HSDTypes, OneTimerEach
<1>6. HSDInv' /\ DS!Keep(K \ {k})
  BY <1>2, <1>4, <1>5, KeepStep
<1>7. k \in DOMAIN Deadline /\ Deadline[k] <= now
  BY <1>1, <1>4 DEF Deadline
<1> QED
  BY <1>6, <1>7 DEF DS!Expire

\* Every step keeps the invariant and is a step of DelaySet, or one that does
\* not change it.
LEMMA HSDStep ==
    ASSUME HSDInv, [Next]_hsdVars
    PROVE  HSDInv' /\ [DS!Next]_DS!delayVars
<1>1. CASE UNCHANGED hsdVars
  BY <1>1 DEF hsdVars, HSDInv, HSDTypes, OneTimerEach, DS!delayVars, Deadline
<1>2. ASSUME NEW k \in K, remove(k)
      PROVE  HSDInv' /\ [DS!Next]_DS!delayVars
  <2>1. HSDInv' /\ DS!Keep(K \ {k})
    BY <1>2, DropStep DEF remove
  <2>2. K \ {k} \in SUBSET K
    OBVIOUS
  <2> QED
    BY <2>1, <2>2, Zenon DEF DS!Next
<1>3. ASSUME NEW k \in K, NEW timeout \in Timeout, insert_at(k, timeout)
      PROVE  HSDInv' /\ [DS!Next]_DS!delayVars
  <2>1. HSDInv' /\ DS!Set(k, timeout)
    BY <1>3, InsertStep
  <2> QED
    BY <2>1, Zenon DEF DS!Next
<1>4. ASSUME NEW f \in SUBSET K, retain(f)
      PROVE  HSDInv' /\ [DS!Next]_DS!delayVars
  <2>1. HSDInv' /\ DS!Keep(K \ (K \ f))
    BY <1>4, DropStep DEF retain
  <2>2. K \ (K \ f) \in SUBSET K
    OBVIOUS
  <2> QED
    BY <2>1, <2>2, Zenon DEF DS!Next
<1>5. CASE clear
  <2>1. HSDInv' /\ DS!Keep({})
    BY <1>5, ClearStep
  <2>2. {} \in SUBSET K
    OBVIOUS
  <2> QED
    BY <2>1, <2>2, Zenon DEF DS!Next
<1>6. ASSUME NEW slot \in Slot, poll_next(slot)
      PROVE  HSDInv' /\ [DS!Next]_DS!delayVars
  <2>1. HSDInv' /\ \E k \in K : DS!Expire(k)
    BY <1>6, PollStep
  <2> QED
    BY <2>1, Zenon DEF DS!Next
<1>7. CASE Tick
  <2>1. UNCHANGED <<entries, expirations, failed>> /\ now' = now + 1 /\ now < Horizon
    BY <1>7 DEF Tick
  <2>2. HSDTypes'
    BY <2>1 DEF HSDInv, HSDTypes
  <2>3. OneTimerEach'
    BY <2>1 DEF HSDInv, OneTimerEach
  <2>4. DS!Tick
    BY <2>1 DEF DS!Tick, Deadline
  <2> QED
    BY <2>2, <2>3, <2>4 DEF HSDInv, DS!Next
<1> QED
  BY <1>1, <1>2, <1>3, <1>4, <1>5, <1>6, <1>7, Zenon DEF Next

\* The set starts empty, as does the specification that it implements.
LEMMA HSDStart ==
    ASSUME Init
    PROVE  HSDInv /\ DS!Init
BY DEF Init, HSDInv, HSDTypes, OneTimerEach, DS!Init, Deadline

\* Entries and timeouts of a HashSetDelay belong to each other one to one after
\* any sequence of its operations: its delay queue never panics.
THEOREM HashSetDelayOneTimerEach == Spec => []OneTimerEach
<1>1. HSDInv => OneTimerEach
  BY DEF HSDInv
<1> QED
  BY <1>1, HSDStart, HSDStep, PTL DEF Spec

\* A HashSetDelay is a set of keys with one deadline each: every behaviour of
\* hashset_delay.rs is one of DelaySet.
THEOREM HashSetDelayImplements == Spec => ImplementsDelaySet
<1> QED
  BY HSDStart, HSDStep, PTL DEF Spec, ImplementsDelaySet, DS!Spec

=============================================================================
