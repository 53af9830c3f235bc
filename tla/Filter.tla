------------------------------- MODULE Filter -------------------------------
(***************************************************************************)
(* The command filter (crates/atem-proxy/src/filter.rs): what becomes of a *)
(* client command, and what is sent upstream when a client is gone.        *)
(* subs is AudioSubs::clients and last AudioSubs::last_enable, of which    *)
(* only the command name matters: one AudioSubs serves all the names.      *)
(***************************************************************************)
EXTENDS Transfer, Sequences

CONSTANTS
    LockMode,       \* "Deny" or "SingleOwner"
    MediaEnabled,   \* MediaConfig::enabled
    AudioName       \* the level subscriptions: SALN, FASP and SAff in the code

ASSUME FilterAssumption ==
    /\ LockMode \in {"Deny", "SingleOwner"} /\ MediaEnabled \in BOOLEAN
    /\ AudioName \cap ({"LOCK"} \cup FtName) = {} /\ None \notin AudioName

\* A command names the client it comes from, for the properties only.
Lock(c, s, on)   == [name |-> "LOCK", from |-> c, store |-> s, on |-> on]
Audio(c, nm, on) == [name |-> nm, from |-> c, on |-> on]
Upload(c, ft)    == [name |-> ft, from |-> c]

LockCommand     == {Lock(c, s, on) : c \in Client, s \in Store, on \in BOOLEAN}
AudioCommand    == {Audio(c, nm, on) : c \in Client, nm \in AudioName,
                                       on \in BOOLEAN}
TransferCommand == {Upload(c, ft) : c \in Client, ft \in FtName}
Command         == LockCommand \cup AudioCommand \cup TransferCommand

subs_after(subs, c, on) == IF on THEN subs \cup {c} ELSE subs \ {c}

\* Every enable is remembered, whether or not it is forwarded.
last_after(last, nm, on) == IF on THEN nm ELSE last

\* A subscription is forwarded only when the first client joins or the last
\* one leaves.
audio_edge(subs, subs2) == (subs = {}) # (subs2 = {})

\* All the orders in which HashMap iteration may visit the stores.
Orders(S) ==
    {f \in [1 .. Cardinality(S) -> S] :
        \A i, j \in 1 .. Cardinality(S) : f[i] = f[j] => i = j}

\* The commands to forward upstream when a client is gone: the disable of the
\* subscription enabled last, whoever enabled it, if the client was the only
\* subscriber, and then the unlocks, one for each store it held.
disconnect_commands(t, subs, last, c) ==
    LET audio == IF subs = {c} /\ last # None
                 THEN <<Audio(c, last, FALSE)>> ELSE <<>>
    IN  {audio \o [i \in DOMAIN f |-> Lock(c, f[i], FALSE)] :
            f \in Orders(unlocks(t, c))}
=============================================================================
