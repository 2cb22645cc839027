---- MODULE MutationRefinement ----
(***************************************************************************)
(* MutationRuntime implements OneEffect when client clocks are not ahead   *)
(* of the host's.  A key has taken effect when the extension executed a    *)
(* command sent for it, disowned if it denied that; its verdict is the     *)
(* definite answer that the attempt that was dispatched for it stored.     *)
(***************************************************************************)
EXTENDS MutationRuntime

DispatchedFor(k) == {r \in Request : KeyOf(r) = k /\ Dispatched(r)}

KeyEffect ==
    [k \in Key |->
        IF \E r \in DispatchedFor(k) : command[r] = "executed" THEN "done"
        ELSE IF \E r \in DispatchedFor(k) : command[r] = "denied" THEN "disowned"
        ELSE "none"]

Stored(r) ==
    /\ req[r].phase \in {"durable", "answered", "lost"}
    /\ req[r].answer \in {"not_started", "completed"}

KeyVerdict ==
    [k \in Key |->
        IF \E r \in DispatchedFor(k) : Stored(r)
        THEN req[CHOOSE r \in DispatchedFor(k) : Stored(r)].answer
        ELSE "open"]

Promise == INSTANCE OneEffect WITH effect <- KeyEffect, verdict <- KeyVerdict

(* Runtime::handle with the journal keeps the promise of OneEffect: under  *)
(* concurrency, retries, timeouts, disconnects, purges, task deletion and  *)
(* restarts, a key takes effect at most once, its definite verdict is      *)
(* final, completed only of what happened, and not_started of what did not *)
(* or what the extension denies.                                           *)
PromiseKept == Promise!Spec
================================
