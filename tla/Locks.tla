-------------------------------- MODULE Locks -------------------------------
(***************************************************************************)
(* The lock broker (crates/atem-proxy/src/locks.rs): which client owns     *)
(* which media or macro store.  A table maps every store to its StoreLock; *)
(* a store the HashMap does not hold yet has the default entry.            *)
(***************************************************************************)
EXTENDS Integers, FiniteSets

CONSTANTS Client, Store, None

ASSUME LocksAssumption == None \notin Client /\ IsFiniteSet(Store)

StoreLock == [owner : Client \cup {None}, upstream_locked : BOOLEAN]
LockTable == [Store -> StoreLock]

locks_clear == [s \in Store |-> [owner |-> None, upstream_locked |-> FALSE]]

is_owner(t, c) == \E s \in Store : t[s].owner = c

-----------------------------------------------------------------------------
MutLockAnyone(t, from, s) == TRUE

\* LockDecision::Forward: nobody else owns the store, whether the request
\* locks or unlocks.
lock_allowed(t, from, s) == t[s].owner \in {None, from}

\* The table after a LOCK or PLCK request of a client.
client_lock_request(t, from, s, on) ==
    IF lock_allowed(t, from, s)
    THEN [t EXCEPT ![s].owner = IF on THEN from ELSE None]
    ELSE t

MutStatusKeepsOwner(t, s, locked) == [t EXCEPT ![s].upstream_locked = locked]

\* The table after LKST or LKOB: a released store loses its owner.
on_upstream_lock_status(t, s, locked) ==
    [t EXCEPT ![s] = [owner           |-> IF locked THEN @.owner ELSE None,
                      upstream_locked |-> locked]]

MutKeepOwner(t, c) == t

\* The table after a client is gone, and the stores an unlock is sent for.
locks_client_disconnected(t, c) ==
    [s \in Store |-> IF t[s].owner = c THEN [t[s] EXCEPT !.owner = None]
                                       ELSE t[s]]

MutNoUnlock(t, c) == {}

MutUnlockUnconfirmed(t, c) ==
    {s \in Store : t[s].owner = c /\ ~ t[s].upstream_locked}

unlocks(t, c) == {s \in Store : t[s].owner = c /\ t[s].upstream_locked}
=============================================================================
