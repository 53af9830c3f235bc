------------------------------ MODULE SoftAtem ------------------------------
(***************************************************************************)
(* The proxy between several clients and one switcher, as far as locks,    *)
(* media transfers and audio subscriptions are concerned.  Four tasks run  *)
(* concurrently (server.rs, upstream.rs):                                  *)
(*   recv    handle_datagram, one client datagram at a time;               *)
(*   tick    expires idle clients and forwards what their end entails;     *)
(*   events  reacts to the loss of the upstream session;                   *)
(*   upstream  run_session, again and again: forwards commands to the      *)
(*           switcher and applies its lock status.                         *)
(* recv and tick hand commands to upstream through a bounded mpsc channel. *)
(* An action ends where a task awaits or releases the lock on sessions.    *)
(* The switcher and the reliable link to it are external: the link is a    *)
(* FIFO in each direction (module ReliableLink).                           *)
(***************************************************************************)
EXTENDS Filter

CONSTANTS
    Cap,       \* capacity of the mpsc channel, 512 in the code
    Silent,    \* the clients that may fall silent until they time out
    MaxCmds,   \* bound on the client commands of one behaviour
    MaxDrops   \* bound on the upstream sessions lost in one behaviour

ASSUME SoftAtemAssumption ==
    /\ Cap \in Nat \ {0}
    /\ Silent \subseteq Client
    /\ MaxCmds \in Nat /\ MaxDrops \in Nat

VARIABLES
    sessions,   \* clients with a ClientSession
    audio,      \* those whose session receives audio levels
    subs,       \* the filter's AudioSubs::clients
    lastEnable, \* the name in AudioSubs::last_enable, or None
    locks,      \* the LockBroker
    lane,       \* the TransferLane
    hello,      \* recv: the client whose handshake reply is being sent
    recvOut,    \* recv: forward_cmds still to be sent
    dead,       \* tick: expired clients still to be cleaned up
    tickOut,    \* tick: cleanup commands still to be sent
    chan,       \* the mpsc channel
    up,         \* upstream session: "down", "init" (no InCm yet), "ready"
    gone,       \* Disconnected events the events task has not seen
    toSw,       \* commands on their way to the switcher
    fromSw,     \* lock status on its way back
    swBy,       \* the client the switcher holds each store for, or None
    swAudio,    \* the subscriptions the switcher sends audio levels for
    raced,      \* history: the stores one of the races below has happened to
    cmds, drops \* what has been used of the two bounds

filterVars == <<subs, lastEnable, locks, lane, raced>>
recvVars   == <<hello, recvOut>>
tickVars   == <<dead, tickOut>>
linkVars   == <<toSw, fromSw, swBy, swAudio>>
vars == <<sessions, audio, subs, lastEnable, locks, lane, hello, recvOut, dead,
          tickOut, chan, up, gone, toSw, fromSw, swBy, swAudio, raced, cmds,
          drops>>

Status == [store : Store, locked : BOOLEAN]

RecvIdle == hello = None /\ recvOut = <<>>
TickIdle == dead = {} /\ tickOut = <<>>

MutRoomOffByOne == Len(chan) <= Cap

\* A sender has a permit of the channel.
HasRoom == Len(chan) < Cap

-----------------------------------------------------------------------------
(* What is under way about the lock on a store. *)

\* Does a sequence of commands touch the lock on s; does it release it?
Touches(q, s) ==
    \E i \in 1 .. Len(q) : q[i].name = "LOCK" /\ q[i].store = s
Releases(q, s) ==
    \E i \in 1 .. Len(q) : q[i].name = "LOCK" /\ q[i].store = s /\ ~ q[i].on

\* Nothing about s is under way in either direction.
Settled(s) ==
    /\ \A q \in {recvOut, tickOut, chan, toSw} : ~ Touches(q, s)
    /\ \A i \in 1 .. Len(fromSw) : fromSw[i].store # s

\* An unlock of s has not reached the switcher yet ...
UnlockUnderWay(s) ==
    \E q \in {recvOut, tickOut, chan, toSw} : Releases(q, s)

\* ... or the broker has not heard of it.
ReleaseUnderWay(s) ==
    \/ UnlockUnderWay(s)
    \/ \E i \in 1 .. Len(fromSw) : fromSw[i].store = s /\ ~ fromSw[i].locked

(***************************************************************************)
(* The broker keeps no record of what is under way, and four orders of     *)
(* events make it lose track of a store.  They can happen at any time; a   *)
(* history variable, which no guard reads, collects the stores they have   *)
(* happened to.                                                            *)
(***************************************************************************)
\* A client is let through to lock s while a release of s is under way: the
\* unlocked status of that release will clear the new owner.
Contended(c, s, on) ==
    {r \in {s} : /\ LockMode = "SingleOwner" /\ on
                 /\ lock_allowed(locks, c, s) /\ ReleaseUnderWay(s)}

\* The broker forgets c, which owns s, before it has heard that the lock was
\* granted, so that no unlock is sent; or while a command for s waits in recv,
\* which the unlock may overtake.
Unconfirmed(c) ==
    {s \in Store : /\ locks[s].owner = c /\ ~ Settled(s)
                   /\ ~ locks[s].upstream_locked \/ Touches(recvOut, s)}

\* The session is lost, and commands for s it has not taken from the channel
\* will reach the switcher in the next one.
Leftover == {s \in Store : \E q \in {recvOut, tickOut, chan} : Touches(q, s)}

\* The sessions are cleared; the locks their clients own are not released.
Abandoned == {s \in Store : locks[s].owner \in sessions}

-----------------------------------------------------------------------------
Init ==
    /\ sessions = {} /\ audio = {} /\ subs = {} /\ lastEnable = None
    /\ locks = locks_clear /\ lane = None
    /\ hello = None /\ recvOut = <<>>
    /\ dead = {} /\ tickOut = <<>>
    /\ chan = <<>> /\ up = "ready" /\ gone = 0
    /\ toSw = <<>> /\ fromSw = <<>>
    /\ swBy = [s \in Store |-> None] /\ swAudio = {}
    /\ raced = {} /\ cmds = 0 /\ drops = 0

(***************************************************************************)
(* recv: a HELLO is answered once the upstream session is ready (connected *)
(* and cache.is_ready()); the session is inserted after the reply is sent, *)
(* and replaces the one the address may still have.                        *)
(***************************************************************************)
HelloCheck(c) ==
    /\ RecvIdle
    /\ up = "ready"
    /\ hello' = c
    /\ UNCHANGED <<sessions, audio, filterVars, recvOut, tickVars, chan, up,
                   gone, linkVars, cmds, drops>>

HelloInsert ==
    /\ hello # None
    /\ sessions' = sessions \cup {hello}
    /\ audio' = audio \ {hello}
    /\ hello' = None
    /\ UNCHANGED <<filterVars, recvOut, tickVars, chan, up, gone, linkVars,
                   cmds, drops>>

\* recv has read an accepted command of c; the lock on sessions is held until
\* the filter has dealt with it.
Receives(c) ==
    /\ RecvIdle
    /\ c \in sessions
    /\ cmds < MaxCmds
    /\ cmds' = cmds + 1
    /\ UNCHANGED <<sessions, hello, tickVars, chan, up, gone, linkVars, drops>>

LockRequest(c, s, on) ==
    /\ Receives(c)
    /\ locks' = IF LockMode = "SingleOwner"
                THEN client_lock_request(locks, c, s, on) ELSE locks
    /\ recvOut' = IF LockMode = "SingleOwner" /\ lock_allowed(locks, c, s)
                  THEN <<Lock(c, s, on)>> ELSE <<>>
    /\ raced' = raced \cup Contended(c, s, on)
    /\ UNCHANGED <<audio, subs, lastEnable, lane>>

TransferRequest(c, ft) ==
    /\ Receives(c)
    /\ lane' = client_transfer(MediaEnabled, locks, lane, c, ft)
    /\ recvOut' = IF transfer_allowed(MediaEnabled, locks, lane, c)
                  THEN <<Upload(c, ft)>> ELSE <<>>
    /\ UNCHANGED <<audio, subs, lastEnable, locks, raced>>

\* The falling edge disables the name this client used, whatever name was
\* forwarded on the rising edge.
AudioRequest(c, nm, on) ==
    LET subs2 == subs_after(subs, c, on)
    IN  /\ Receives(c)
        /\ subs' = subs2
        /\ lastEnable' = last_after(lastEnable, nm, on)
        /\ audio' = subs_after(audio, c, on)
        /\ recvOut' = IF audio_edge(subs, subs2)
                      THEN <<Audio(c, nm, on)>> ELSE <<>>
        /\ UNCHANGED <<locks, lane, raced>>

(***************************************************************************)
(* cmd_tx.send(..).await pushes the command when the channel has room for  *)
(* it.  When recv and tick both wait, either may be polled first.          *)
(***************************************************************************)
RecvSend ==
    /\ recvOut # <<>> /\ HasRoom
    /\ chan' = Append(chan, Head(recvOut))
    /\ recvOut' = Tail(recvOut)
    /\ UNCHANGED <<sessions, audio, filterVars, hello, tickVars, up, gone,
                   linkVars, cmds, drops>>

-----------------------------------------------------------------------------
\* tick: the sessions of idle clients are removed under the lock.
Expire(D) ==
    /\ TickIdle
    /\ D # {} /\ D \subseteq sessions \cap Silent
    /\ sessions' = sessions \ D
    /\ audio' = audio \ D
    /\ dead' = D
    /\ UNCHANGED <<filterVars, recvVars, tickOut, chan, up, gone, linkVars,
                   cmds, drops>>

\* filter.client_disconnected for one of them, in any order.  It goes by the
\* address, which may have said HELLO again in the meantime.
Cleanup(c) ==
    /\ c \in dead /\ tickOut = <<>>
    /\ dead' = dead \ {c}
    /\ subs' = subs \ {c}
    /\ lane' = transfer_client_disconnected(lane, c)
    /\ locks' = locks_client_disconnected(locks, c)
    /\ tickOut' \in disconnect_commands(locks, subs, lastEnable, c)
    /\ raced' = raced \cup Unconfirmed(c)
    /\ UNCHANGED <<sessions, audio, lastEnable, recvVars, chan, up, gone,
                   linkVars, cmds, drops>>

TickSend ==
    /\ tickOut # <<>> /\ HasRoom
    /\ chan' = Append(chan, Head(tickOut))
    /\ tickOut' = Tail(tickOut)
    /\ UNCHANGED <<sessions, audio, filterVars, recvVars, dead, up, gone,
                   linkVars, cmds, drops>>

-----------------------------------------------------------------------------
(***************************************************************************)
(* upstream: the command arm of run_session drains the channel into the    *)
(* reliable endpoint.  It runs from the handshake on, before InCm as well. *)
(***************************************************************************)
Forward ==
    /\ up # "down"
    /\ chan # <<>>
    /\ toSw' = toSw \o chan
    /\ chan' = <<>>
    /\ UNCHANGED <<sessions, audio, filterVars, recvVars, tickVars, up, gone,
                   fromSw, swBy, swAudio, cmds, drops>>

\* The receive arm of run_session, for a lock status.
LockStatus ==
    /\ up # "down"
    /\ fromSw # <<>>
    /\ locks' = on_upstream_lock_status(locks, Head(fromSw).store,
                                        Head(fromSw).locked)
    /\ fromSw' = Tail(fromSw)
    /\ UNCHANGED <<sessions, audio, subs, lastEnable, lane, raced, recvVars,
                   tickVars, chan, up, gone, toSw, swBy, swAudio, cmds, drops>>

(***************************************************************************)
(* The session ends, or its handshake fails, and then connected := false,  *)
(* cache.clear(), locks.clear() and a Disconnected event.  No other task   *)
(* acts on part of these four, so they are one step.  What the link held   *)
(* is lost, what the channel holds stays; the switcher forgets a client    *)
(* whose connection is gone.                                               *)
(***************************************************************************)
UpstreamLost ==
    /\ drops < MaxDrops
    /\ drops' = drops + 1
    /\ up' = "down"
    /\ locks' = locks_clear
    /\ gone' = gone + 1
    /\ toSw' = <<>> /\ fromSw' = <<>>
    /\ swBy' = [s \in Store |-> None] /\ swAudio' = {}
    /\ raced' = raced \cup Leftover
    /\ UNCHANGED <<sessions, audio, subs, lastEnable, lane, recvVars, tickVars,
                   chan, cmds>>

MutReconnectOnce ==
    /\ up = "down" /\ drops = 0
    /\ up' = "init"
    /\ UNCHANGED <<sessions, audio, filterVars, recvVars, tickVars, chan, gone,
                   linkVars, cmds, drops>>

\* After the backoff the next session gets through the handshake ...
UpstreamInit ==
    /\ up = "down"
    /\ up' = "init"
    /\ UNCHANGED <<sessions, audio, filterVars, recvVars, tickVars, chan, gone,
                   linkVars, cmds, drops>>

\* ... and receives InCm.
UpstreamReady ==
    /\ up = "init"
    /\ up' = "ready"
    /\ UNCHANGED <<sessions, audio, filterVars, recvVars, tickVars, chan, gone,
                   linkVars, cmds, drops>>

MutDisconnectedKeepsLane ==
    /\ gone > 0
    /\ gone' = gone - 1
    /\ sessions' = {} /\ audio' = {}
    /\ raced' = raced \cup Abandoned
    /\ UNCHANGED <<subs, lastEnable, locks, lane, recvVars, tickVars, chan, up,
                   linkVars, cmds, drops>>

\* events: Disconnected clears the sessions and the transfer lane.
Disconnected ==
    /\ gone > 0
    /\ gone' = gone - 1
    /\ sessions' = {} /\ audio' = {}
    /\ lane' = None
    /\ raced' = raced \cup Abandoned
    /\ UNCHANGED <<subs, lastEnable, locks, recvVars, tickVars, chan, up,
                   linkVars, cmds, drops>>

-----------------------------------------------------------------------------
(***************************************************************************)
(* External: the switcher obeys the commands in order.  All of them come   *)
(* over one connection, so it cannot tell the clients apart: a lock it     *)
(* holds for one is simply taken over by the next.                         *)
(***************************************************************************)
Switcher ==
    /\ toSw # <<>>
    /\ toSw' = Tail(toSw)
    /\ LET m == Head(toSw)
       IN  \/ /\ m.name = "LOCK"
              /\ swBy' = [swBy EXCEPT ![m.store] = IF m.on THEN m.from ELSE None]
              /\ fromSw' = Append(fromSw, [store |-> m.store, locked |-> m.on])
              /\ UNCHANGED swAudio
           \/ /\ m.name \in AudioName
              /\ swAudio' = IF m.on THEN swAudio \cup {m.name}
                                    ELSE swAudio \ {m.name}
              /\ UNCHANGED <<swBy, fromSw>>
           \/ m.name \in FtName /\ UNCHANGED <<swBy, swAudio, fromSw>>
    /\ UNCHANGED <<sessions, audio, filterVars, recvVars, tickVars, chan, up,
                   gone, cmds, drops>>

Next ==
    \/ \E c \in Client :
          \/ HelloCheck(c)
          \/ \E s \in Store, on \in BOOLEAN : LockRequest(c, s, on)
          \/ \E ft \in FtName : TransferRequest(c, ft)
          \/ \E nm \in AudioName, on \in BOOLEAN : AudioRequest(c, nm, on)
          \/ Cleanup(c)
    \/ HelloInsert
    \/ RecvSend
    \/ \E D \in SUBSET sessions : Expire(D)
    \/ TickSend
    \/ Forward \/ LockStatus
    \/ UpstreamLost \/ UpstreamInit \/ UpstreamReady
    \/ Disconnected
    \/ Switcher

Spec == Init /\ [][Next]_vars

(***************************************************************************)
(* The tasks of the proxy run whenever they can and the session is retried *)
(* for ever; the link delivers and the switcher answers.  The permits of   *)
(* the channel go to waiting senders in the order in which they asked, so  *)
(* neither recv nor tick can take every one before the other.  What        *)
(* clients do, and when they fall silent, is up to them.                   *)
(***************************************************************************)
Fairness ==
    /\ WF_vars(HelloInsert) /\ SF_vars(RecvSend)
    /\ \A c \in Client : WF_vars(Cleanup(c))
    /\ SF_vars(TickSend)
    /\ WF_vars(Forward) /\ WF_vars(LockStatus)
    /\ WF_vars(UpstreamInit) /\ WF_vars(UpstreamReady)
    /\ WF_vars(Disconnected)
    /\ WF_vars(Switcher)

FairSpec == Spec /\ Fairness

-----------------------------------------------------------------------------
\* Types, and the channel never holds more than its capacity.
TypeOK ==
    /\ sessions \in SUBSET Client
    /\ audio \in SUBSET sessions
    /\ subs \in SUBSET Client
    /\ lastEnable \in AudioName \cup {None}
    /\ locks \in LockTable
    /\ lane \in Client \cup {None}
    /\ hello \in Client \cup {None}
    /\ recvOut \in Seq(Command)
    /\ dead \in SUBSET Client
    /\ tickOut \in Seq(Command)
    /\ chan \in Seq(Command) /\ Len(chan) <= Cap
    /\ up \in {"down", "init", "ready"}
    /\ gone \in Nat
    /\ toSw \in Seq(Command)
    /\ fromSw \in Seq(Status)
    /\ swBy \in [Store -> Client \cup {None}]
    /\ swAudio \in SUBSET AudioName
    /\ raced \in SUBSET Store
    /\ cmds \in Nat /\ drops \in Nat

(***************************************************************************)
(* A lock never outlives its client in the broker, in whatever order       *)
(* clients time out, are taken down and come back: every owner still has a *)
(* session, or tick has removed it and is about to release the lock.  This *)
(* is so within the first upstream session only: Disconnected clears the   *)
(* sessions (server.rs) after the broker was cleared (upstream.rs), and a  *)
(* lock taken in between outlives its client.                              *)
(***************************************************************************)
NoOrphanLock ==
    drops = 0 =>
        \A s \in Store : locks[s].owner \in sessions \cup dead \cup {None}

(***************************************************************************)
(* The same of the transfer lane; it holds across lost upstream sessions   *)
(* too, because Disconnected clears the lane together with the sessions.   *)
(***************************************************************************)
NoOrphanLane == lane \in sessions \cup dead \cup {None}

(***************************************************************************)
(* The broker never believes in a lock the switcher does not hold: once    *)
(* nothing about a store is under way, the client the broker has as its    *)
(* owner, and for whose sake it denies all others, is the one the switcher *)
(* holds the store for.  This is so in every order of requests, status     *)
(* messages, timeouts, re-joins and lost upstream sessions.                *)
(***************************************************************************)
OwnerHoldsLock ==
    \A s \in Store :
        Settled(s) /\ locks[s].owner # None => swBy[s] = locks[s].owner

(***************************************************************************)
(* The converse needs the broker to have kept track of the store: a store  *)
(* that none of the four races above has happened to and that nothing is   *)
(* under way about is owned, in the broker, by the client the switcher     *)
(* holds it for.  (The runs lock_status_race, lock_leak and lock_rejoin    *)
(* show what becomes of the others.)                                       *)
(***************************************************************************)
BrokerAgrees ==
    \A s \in Store \ raced : Settled(s) => locks[s].owner = swBy[s]

(***************************************************************************)
(* "media lock will be denied if busy" (docs/SOFTATEM.md): end to end, a   *)
(* lock the switcher holds for a connected client never passes to another  *)
(* client without being released in between.                               *)
(***************************************************************************)
LockChangesHandsByRelease ==
    [][\A s \in Store :
          swBy[s] \in sessions => swBy'[s] \in {swBy[s], None}]_vars

(***************************************************************************)
(* The same as a refinement, for every holder of the stores that no race   *)
(* has happened to: seen from the switcher, the proxy is a lock service    *)
(* that grants a store only while it is free.  A store is given up when a  *)
(* race happens to it.                                                     *)
(***************************************************************************)
Holder == [s \in Store |-> IF s \in raced THEN None ELSE swBy[s]]

LockSrv == INSTANCE LockService WITH holder <- Holder

ImplementsLockService == LockSrv!Spec

(***************************************************************************)
(* "Client disconnected: return unlock commands to forward upstream for    *)
(* stores it owned" (locks.rs): a store the switcher holds for a client    *)
(* without a session is released.                                          *)
(***************************************************************************)
DeadClientUnlocks ==
    \A c \in Client, s \in Store :
        (swBy[s] = c /\ c \notin sessions) ~> swBy[s] # c

(***************************************************************************)
(* What the code keeps of that promise: it is released unless one of the   *)
(* four races happens to the store.                                        *)
(***************************************************************************)
GoneClientUnlocks ==
    \A c \in Client, s \in Store :
        (swBy[s] = c /\ c \notin sessions)
            ~> (swBy[s] # c \/ s \in raced)

(***************************************************************************)
(* The same at every moment: while the switcher holds a store, to which no *)
(* race has happened, for a client that is gone and cleaned up, its unlock *)
(* is somewhere between tick and the switcher.                             *)
(***************************************************************************)
ReleaseIsUnderWay ==
    \A s \in Store \ raced :
        swBy[s] \notin sessions \cup dead \cup {None} => UnlockUnderWay(s)

\* No subscription is under way and no client is being taken down.
AudioSettled ==
    /\ RecvIdle /\ TickIdle
    /\ \A i \in 1 .. Len(chan) : chan[i].name \notin AudioName
    /\ \A i \in 1 .. Len(toSw) : toSw[i].name \notin AudioName

(***************************************************************************)
(* "subscribe upstream only while >= 1 client wants them"                  *)
(* (docs/PROTOCOL.md), in its weakest reading: once things have settled    *)
(* and no connected client is in AudioSubs, nor any session has its audio  *)
(* flag set, the switcher sends no audio levels.                           *)
(***************************************************************************)
AudioOnlyWhileWanted ==
    AudioSettled /\ subs \cap sessions = {} /\ audio = {} => swAudio = {}

(***************************************************************************)
(* Neither recv nor tick stays stuck on a full command channel: upstream   *)
(* comes back and drains it, so clients are served again.                  *)
(***************************************************************************)
HandlersReturn == []<>RecvIdle /\ []<>TickIdle
=============================================================================
