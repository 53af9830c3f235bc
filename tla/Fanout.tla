------------------------------- MODULE Fanout -------------------------------
(***************************************************************************)
(* How the switcher's state reaches the clients.  The upstream task        *)
(* (crates/atem-proxy/src/upstream.rs) ingests what the switcher reports   *)
(* into the state cache and then broadcasts it; the events task of the     *)
(* server (crates/atem-proxy/src/server.rs) copies every broadcast into    *)
(* the queue of every opened session; a client that completes its          *)
(* handshake is first given a dump of the cache.  The broadcast channel is *)
(* a ring: when the events task falls EventCap behind, it loses the oldest *)
(* events and has to give everybody a dump again.                          *)
(*                                                                         *)
(* State is a partial map from cache keys to values; Unset marks a key     *)
(* that is not there.  A state payload is the map of what it changes.      *)
(***************************************************************************)
EXTENDS Integers, Sequences

CONSTANTS Client, Key, Value,
          Unset,         \* no value for a key
          None,          \* no client
          EventCap,      \* capacity of the broadcast channel (512 in the code)
          MaxChanges,    \* bound on what the switcher reports by itself
          MaxDrops       \* bound on lost upstream sessions

ASSUME FanoutAssumption ==
    /\ Unset \notin Value
    /\ None \notin Client
    /\ EventCap \in Nat \ {0}
    /\ MaxChanges \in Nat
    /\ MaxDrops \in Nat

VARIABLES
    truth,      \* the switcher's own state
    fromSw,     \* payloads on their way from the switcher to the proxy
    up,         \* the upstream task: "down", "init" (before InCm) or "ready"
    cache,      \* StateCache.map
    ready,      \* StateCache.ready, and the connected flag that goes with it
    pend,       \* events the upstream task has yet to send
    events,     \* the broadcast ring, oldest event first
    lagged,     \* the next recv of the events task returns Lagged
    resync,     \* the dump the Lagged arm holds before it locks the sessions
    hello,      \* the client whose HELLO is between its check and its insert
    session,    \* addresses in the sessions map
    opened,     \* sessions that were acknowledged
    queue,      \* what each session has yet to deliver
    view,       \* what each client was told in its session
    inited,     \* clients that were told InCm in their session
    changes, drops

swVars   == <<truth, changes>>
upVars   == <<fromSw, up, cache, ready, pend, drops>>
ringVars == <<events, lagged>>
cliVars  == <<session, opened, queue, view, inited>>
vars     == <<swVars, upVars, ringVars, resync, hello, cliVars>>

State   == [Key -> Value \cup {Unset}]
Nothing == [k \in Key |-> Unset]

\* What m says, and what was there where m says nothing.
Apply(m, old) == [k \in Key |-> IF m[k] # Unset THEN m[k] ELSE old[k]]

Kind == {"state", "InCm", "levels", "connected", "disconnected"}
Msg  == [kind : Kind, map : State]

StateMsg(m) == [kind |-> "state", map |-> m]
Signal(k)   == [kind |-> k, map |-> Nothing]

\* StateCache::dump: everything cached, then the synthetic InCm.
dump == <<StateMsg(cache), Signal("InCm")>>

TypeOK ==
    /\ truth \in [Key -> Value]
    /\ fromSw \in Seq(Msg)
    /\ up \in {"down", "init", "ready"}
    /\ cache \in State
    /\ ready \in BOOLEAN
    /\ pend \in Seq(Msg)
    /\ events \in Seq(Msg)
    /\ Len(events) <= EventCap
    /\ lagged \in BOOLEAN
    /\ resync \in Seq(Msg)
    /\ hello \in Client \cup {None}
    /\ session \in SUBSET Client
    /\ opened \in SUBSET session
    /\ queue \in [Client -> Seq(Msg)]
    /\ view \in [Client -> State]
    /\ inited \in SUBSET opened
    /\ changes \in 0..MaxChanges
    /\ drops \in 0..MaxDrops

Init ==
    /\ truth \in [Key -> Value]
    /\ fromSw = <<>>
    /\ up = "down"
    /\ cache = Nothing
    /\ ready = FALSE
    /\ pend = <<>>
    /\ events = <<>>
    /\ lagged = FALSE
    /\ resync = <<>>
    /\ hello = None
    /\ session = {}
    /\ opened = {}
    /\ queue = [c \in Client |-> <<>>]
    /\ view = [c \in Client |-> Nothing]
    /\ inited = {}
    /\ changes = 0
    /\ drops = 0

-----------------------------------------------------------------------------
(* The switcher (external). *)

\* A reliable payload to the proxy; nobody is told while no session is up.
Report(m) == fromSw' = IF up = "down" THEN fromSw ELSE Append(fromSw, m)

Change(k, v) ==
    /\ changes < MaxChanges
    /\ truth[k] # v
    /\ truth' = [truth EXCEPT ![k] = v]
    /\ changes' = changes + 1
    /\ Report(StateMsg([Nothing EXCEPT ![k] = v]))
    /\ UNCHANGED <<up, cache, ready, pend, drops, ringVars, resync, hello,
                   cliVars>>

\* Audio levels, a transfer payload, a lock status, or something that does not
\* parse: nothing the cache keeps.
Levels ==
    /\ changes < MaxChanges
    /\ up # "down"
    /\ changes' = changes + 1
    /\ Report(Signal("levels"))
    /\ UNCHANGED <<truth, up, cache, ready, pend, drops, ringVars, resync,
                   hello, cliVars>>

-----------------------------------------------------------------------------
(* The upstream task. *)

\* run_session up to the handshake reply; the switcher answers with its whole
\* state and InCm.
UpstreamOpen ==
    /\ up = "down"
    /\ pend = <<>>
    /\ up' = "init"
    /\ fromSw' = <<StateMsg(truth), Signal("InCm")>>
    /\ UNCHANGED <<swVars, cache, ready, pend, drops, ringVars, resync, hello,
                   cliVars>>

MutBroadcastOnly ==
    /\ up # "down"
    /\ pend = <<>>
    /\ fromSw # <<>>
    /\ Head(fromSw).kind = "state"
    /\ fromSw' = Tail(fromSw)
    /\ pend' = <<Head(fromSw)>>
    /\ UNCHANGED <<swVars, up, cache, ready, drops, ringVars, resync, hello,
                   cliVars>>

\* handle_upstream_payload for state: into the cache first, then broadcast.
IngestState ==
    /\ up # "down"
    /\ pend = <<>>
    /\ fromSw # <<>>
    /\ Head(fromSw).kind = "state"
    /\ fromSw' = Tail(fromSw)
    /\ cache' = Apply(Head(fromSw).map, cache)
    /\ pend' = <<Head(fromSw)>>
    /\ UNCHANGED <<swVars, up, ready, drops, ringVars, resync, hello, cliVars>>

\* ... for what the cache does not keep: broadcast only.
IngestLevels ==
    /\ up # "down"
    /\ pend = <<>>
    /\ fromSw # <<>>
    /\ Head(fromSw).kind = "levels"
    /\ fromSw' = Tail(fromSw)
    /\ pend' = <<Head(fromSw)>>
    /\ UNCHANGED <<swVars, up, cache, ready, drops, ringVars, resync, hello,
                   cliVars>>

\* ... for InCm: from here on clients are accepted.
IngestInCm ==
    /\ up # "down"
    /\ pend = <<>>
    /\ fromSw # <<>>
    /\ Head(fromSw).kind = "InCm"
    /\ fromSw' = Tail(fromSw)
    /\ up' = "ready"
    /\ ready' = TRUE
    /\ pend' = IF ready THEN <<>> ELSE <<Signal("connected")>>
    /\ UNCHANGED <<swVars, cache, drops, ringVars, resync, hello, cliVars>>

\* The session failed, timed out or never opened: forget everything, then say
\* so.
UpstreamLost ==
    /\ drops < MaxDrops
    /\ pend = <<>>
    /\ drops' = drops + 1
    /\ up' = "down"
    /\ fromSw' = <<>>
    /\ cache' = Nothing
    /\ ready' = FALSE
    /\ pend' = <<Signal("disconnected")>>
    /\ UNCHANGED <<swVars, ringVars, resync, hello, cliVars>>

\* broadcast::Sender::send: a full ring loses its oldest event, and the
\* receiver finds out at its next recv.
Broadcast ==
    /\ pend # <<>>
    /\ pend' = Tail(pend)
    /\ LET ring == Append(events, Head(pend))
       IN  IF Len(ring) > EventCap
           THEN events' = Tail(ring) /\ lagged' = TRUE
           ELSE events' = ring       /\ UNCHANGED lagged
    /\ UNCHANGED <<swVars, fromSw, up, cache, ready, drops, resync, hello,
                   cliVars>>

-----------------------------------------------------------------------------
(* The events task of the server. *)

\* The sessions of the clients in S are gone, with all that was in them.
Forget(S) ==
    /\ opened' = opened \ S
    /\ inited' = inited \ S
    /\ queue' = [c \in Client |-> IF c \in S THEN <<>> ELSE queue[c]]
    /\ view' = [c \in Client |-> IF c \in S THEN Nothing ELSE view[c]]

\* recv returns the oldest event.
CanRecv == ~ lagged /\ resync = <<>> /\ events # <<>>

FanState ==
    /\ CanRecv
    /\ Head(events).kind = "state"
    /\ queue' = [c \in Client |-> IF c \in opened
                                  THEN Append(queue[c], Head(events))
                                  ELSE queue[c]]
    /\ events' = Tail(events)
    /\ UNCHANGED <<swVars, upVars, lagged, resync, hello, session, opened,
                   view, inited>>

\* Disconnected: every session is dropped.
FanDisconnected ==
    /\ CanRecv
    /\ Head(events).kind = "disconnected"
    /\ session' = {}
    /\ Forget(Client)
    /\ events' = Tail(events)
    /\ UNCHANGED <<swVars, upVars, lagged, resync, hello>>

\* Connected does nothing; levels and transfers say nothing about the state.
FanOther ==
    /\ CanRecv
    /\ Head(events).kind \in {"connected", "levels"}
    /\ events' = Tail(events)
    /\ UNCHANGED <<swVars, upVars, lagged, resync, hello, cliVars>>

\* Lagged: the dump is taken before the sessions are locked.
LagDump ==
    /\ lagged
    /\ resync = <<>>
    /\ lagged' = FALSE
    /\ resync' = dump
    /\ UNCHANGED <<swVars, upVars, events, hello, cliVars>>

MutNoResync ==
    /\ resync # <<>>
    /\ resync' = <<>>
    /\ UNCHANGED <<swVars, upVars, ringVars, hello, cliVars>>

MutResyncUnopened ==
    /\ resync # <<>>
    /\ queue' = [c \in Client |-> IF c \in session THEN queue[c] \o resync
                                                   ELSE queue[c]]
    /\ resync' = <<>>
    /\ UNCHANGED <<swVars, upVars, ringVars, hello, session, opened, view,
                   inited>>

LagQueue ==
    /\ resync # <<>>
    /\ queue' = [c \in Client |-> IF c \in opened THEN queue[c] \o resync
                                                  ELSE queue[c]]
    /\ resync' = <<>>
    /\ UNCHANGED <<swVars, upVars, ringVars, hello, session, opened, view,
                   inited>>

-----------------------------------------------------------------------------
(* The receive loop of the server, which handles one datagram at a time, and *)
(* the idle timeout.                                                         *)

\* A HELLO passes the check and is answered; the reply is awaited.
HelloCheck(c) ==
    /\ hello = None
    /\ ready
    /\ hello' = c
    /\ UNCHANGED <<swVars, upVars, ringVars, resync, cliVars>>

\* ... and only then is a fresh session inserted, over an old one of the same
\* address.
HelloInsert ==
    /\ hello # None
    /\ session' = session \cup {hello}
    /\ Forget({hello})
    /\ hello' = None
    /\ UNCHANGED <<swVars, upVars, ringVars, resync>>

\* The first acknowledgement of a session: opened, and the dump queued, under
\* the sessions lock.
Open(c) ==
    /\ hello = None
    /\ c \in session \ opened
    /\ opened' = opened \cup {c}
    /\ queue' = [queue EXCEPT ![c] = @ \o dump]
    /\ UNCHANGED <<swVars, upVars, ringVars, resync, hello, session, view,
                   inited>>

\* The reliable link hands the oldest payload to the client (ReliableLink).
Deliver(c) ==
    /\ queue[c] # <<>>
    /\ queue' = [queue EXCEPT ![c] = Tail(@)]
    /\ view' = [view EXCEPT ![c] = Apply(Head(queue[c]).map, @)]
    /\ inited' = IF Head(queue[c]).kind = "InCm" THEN inited \cup {c}
                                                 ELSE inited
    /\ UNCHANGED <<swVars, upVars, ringVars, resync, hello, session, opened>>

\* The tick drops a session that was idle too long.
Expire(c) ==
    /\ c \in session
    /\ session' = session \ {c}
    /\ Forget({c})
    /\ UNCHANGED <<swVars, upVars, ringVars, resync, hello>>

-----------------------------------------------------------------------------
Upstream == IngestState \/ IngestLevels \/ IngestInCm \/ Broadcast
Events   == FanState \/ FanDisconnected \/ FanOther \/ LagDump \/ LagQueue

Next ==
    \/ \E k \in Key, v \in Value : Change(k, v)
    \/ Levels
    \/ UpstreamOpen \/ UpstreamLost \/ Upstream
    \/ Events
    \/ HelloInsert
    \/ \E c \in Client : \/ HelloCheck(c) \/ Open(c) \/ Deliver(c)
                         \/ Expire(c)

Spec == Init /\ [][Next]_vars

\* The proxy's tasks keep running, the reconnect loop tries again, the link
\* delivers.  Nothing is assumed of the switcher or of a client's datagrams.
Fairness ==
    /\ WF_vars(UpstreamOpen)
    /\ WF_vars(Upstream)
    /\ WF_vars(Events)
    /\ \A c \in Client : WF_vars(Deliver(c))

FairSpec == Spec /\ Fairness

-----------------------------------------------------------------------------
\* What the events task has yet to handle.
Flow == events \o pend

\* What client c will have applied once everything under way has arrived.
Stream(c) == <<StateMsg(view[c])>> \o queue[c] \o resync \o Flow

\* The last word of a stream of payloads on key k is v.
LastWord(s, k, v) ==
    \E i \in 1..Len(s) : /\ s[i].map[k] = v
                         /\ \A j \in i+1..Len(s) : s[j].map[k] = Unset

\* Some message of s is a Disconnected, which drops every session.
Leaving(s) == \E i \in 1..Len(s) : s[i].kind = "disconnected"

\* An opened client that is not about to be dropped, and not about to be given
\* a new dump, has or will get the latest value of every cached key: none is
\* lost, and none is overtaken by an older one, between the cache, the two
\* dumps and the broadcast ring.
NothingMissed ==
    ~ lagged /\ ~ Leaving(Flow) =>
        \A c \in opened, k \in Key :
            cache[k] # Unset => LastWord(Stream(c), k, cache[k])

\* A client that was told InCm has a value for every key the switcher has.
\* upstream.rs says of the handshake guard "Only accept clients after a real
\* InCm"; the dump is taken later, at the first acknowledgement.
InitIsComplete ==
    \A c \in inited, k \in Key : view[c][k] # Unset

\* Every client that stays connected ends up knowing what the switcher has,
\* through lost events, resyncs and upstream sessions that come and go.
Converges == \A c \in Client : c \in opened ~> (c \notin opened \/ view[c] = truth)

-----------------------------------------------------------------------------
(* The inductive invariant behind NothingMissed. *)

Quiet(s, k) == \A i \in 1..Len(s) : s[i].map[k] = Unset

\* What s says about a key ends with what ch holds, unless the session it came
\* from is lost.
Fresh(s, ch) ==
    /\ \A k \in Key : Quiet(s, k) \/ \E v \in Value : LastWord(s, k, v)
    /\ \A k \in Key, i \in 1..Len(s) :
          (/\ s[i].map[k] # Unset
           /\ \A j \in i+1..Len(s) : /\ s[j].map[k] = Unset
                                      /\ s[j].kind # "disconnected")
              => s[i].map[k] = ch[k]

\* Only state payloads carry state.
SignalsAreEmpty(s) == \A i \in 1..Len(s) : s[i].kind # "state" => s[i].map = Nothing

\* Everything ch holds is the last word of s.
Covers(s, ch) == \A k \in Key : ch[k] # Unset => LastWord(s, k, ch[k])

\* The dump the Lagged arm holds and what follows it cover the cache.
ResyncIsFresh ==
    resync # <<>> /\ ~ lagged /\ ~ Leaving(Flow) => Covers(resync \o Flow, cache)

QueuesAreOpened == \A c \in Client : queue[c] # <<>> => c \in opened

FanoutInv ==
    /\ TypeOK
    /\ QueuesAreOpened
    /\ SignalsAreEmpty(fromSw)
    /\ SignalsAreEmpty(Flow)
    /\ Fresh(Flow, cache)
    /\ ResyncIsFresh
    /\ NothingMissed
=============================================================================
