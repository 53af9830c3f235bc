---------------------------- MODULE LockService -----------------------------
(***************************************************************************)
(* What the lock broker promises to clients that share one switcher        *)
(* connection: a store is granted while nobody holds it, and passes to     *)
(* another client only after it was released.  Several stores may be       *)
(* released at once.                                                       *)
(***************************************************************************)
CONSTANTS Client, Store, None

VARIABLE holder

Init == holder = [s \in Store |-> None]

Grant(c, s) ==
    /\ holder[s] = None
    /\ holder' = [holder EXCEPT ![s] = c]

Release(S) ==
    holder' = [s \in Store |-> IF s \in S THEN None ELSE holder[s]]

Next ==
    \/ \E c \in Client, s \in Store : Grant(c, s)
    \/ \E S \in SUBSET Store : Release(S)

Spec == Init /\ [][Next]_holder
=============================================================================
