------------------------------ MODULE DelaySet ------------------------------
(***************************************************************************)
(* What the users of a HashSetDelay rely on (the peer manager, for its     *)
(* ping_peers and status_peers): a set of keys, each with one deadline.    *)
(* Setting a key again puts its deadline off, a key is handed out once,    *)
(* not before its deadline, and never after it was removed.                *)
(***************************************************************************)
EXTENDS Integers

CONSTANTS
    K,         \* the keys
    Timeout,   \* durations
    Horizon    \* bound on the time

VARIABLES
    deadline,  \* a function on the keys of the set
    now

delayVars == <<deadline, now>>

Set(k, timeout) ==
    /\ deadline' = [j \in DOMAIN deadline \cup {k} |->
                      IF j = k THEN now + timeout ELSE deadline[j]]
    /\ UNCHANGED now

Keep(keys) ==
    /\ deadline' = [k \in DOMAIN deadline \cap keys |-> deadline[k]]
    /\ UNCHANGED now

Expire(k) ==
    /\ k \in DOMAIN deadline /\ deadline[k] <= now
    /\ Keep(K \ {k})

Tick ==
    /\ now < Horizon
    /\ now' = now + 1
    /\ UNCHANGED deadline

Init == deadline = [k \in {} |-> 0] /\ now = 0

Next ==
    \/ \E k \in K : Expire(k) \/ \E timeout \in Timeout : Set(k, timeout)
    \/ \E keys \in SUBSET K : Keep(keys)
    \/ Tick

Spec == Init /\ [][Next]_delayVars

=============================================================================
