---- MODULE OneEffect ----
(***************************************************************************)
(* What the host promises a client about one idempotency key, without      *)
(* locks, rows, processes or clocks: the mutation happens at most once,    *)
(* the verdict is given at most once, and it is true unless the extension  *)
(* itself disowned what it did.  A key whose verdict stays open is one the *)
(* host answers "unknown".                                                 *)
(***************************************************************************)
CONSTANT Key

VARIABLES
    effect,   \* key -> none, done, or done and disowned by the extension
    verdict   \* key -> the final answer: open, not_started or completed

vars == <<effect, verdict>>

Init ==
    /\ effect = [k \in Key |-> "none"]
    /\ verdict = [k \in Key |-> "open"]

Happen(k) ==
    /\ effect[k] = "none"
    /\ verdict[k] = "open"
    /\ \E how \in {"done", "disowned"} : effect' = [effect EXCEPT ![k] = how]
    /\ UNCHANGED verdict

Decline(k) ==
    /\ effect[k] # "done"
    /\ verdict[k] = "open"
    /\ verdict' = [verdict EXCEPT ![k] = "not_started"]
    /\ UNCHANGED effect

Confirm(k) ==
    /\ effect[k] = "done"
    /\ verdict[k] = "open"
    /\ verdict' = [verdict EXCEPT ![k] = "completed"]
    /\ UNCHANGED effect

Next == \E k \in Key : Happen(k) \/ Decline(k) \/ Confirm(k)

Spec == Init /\ [][Next]_vars
================================
