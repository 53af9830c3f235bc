# atem-proxy in TLA+

`atem-proxy` opens one connection to a Blackmagic ATEM switcher and shares it
between many clients, speaking the switcher's UDP protocol on both sides. This
directory holds a model of it: TLA+ modules translated from the Rust sources,
TLC configurations that check them on small instances, and TLAPS proofs that
carry the most important results to every size. `PROJECT.json` lists the
components, runs, mutants, findings, hazards and theorems, and maps every
definition to the source lines it models. Paths below are relative to `crates/`.

## 1. The system

| Component | Source | State | Operations |
|---|---|---|---|
| reliable endpoint | `atem-protocol/src/reliable.rs` | queue, in-flight window, next id; expected id, highest id, ack counter | `queue_payload`, `poll_outbound`, `on_ack_id`, `accept_reliable`, `build_ack_packet` |
| lock broker | `atem-proxy/src/locks.rs` | per store: owner, `upstream_locked` | `client_lock_request`, `on_upstream_lock_status`, `client_disconnected`, `clear` |
| transfer lane | `atem-proxy/src/transfer.rs` | owner of the active transfer | `client_transfer`, `client_disconnected`, `clear`, `fanout_owner` |
| command filter | `atem-proxy/src/filter.rs` | audio subscribers, last enable command | `process_payload`, `client_disconnected` |
| client server | `atem-proxy/src/server.rs` | sessions by address (endpoint, opened, dump sent, audio) | tasks *recv*, *tick*, *events* |
| upstream session | `atem-proxy/src/upstream.rs` | connected flag, endpoint, command channel, event broadcast | `spawn_upstream`, `run_session`, `handle_upstream_payload` |
| event broadcast | `tokio::sync::broadcast`, between `upstream.rs` and `server.rs` | ring of 512 events | `send`, `recv`, `Lagged` |
| state cache | `atem-proxy/src/cache.rs` | latest command per key, ready flag | `ingest_payload`, `dump`, `clear` |
| framing and packets | `atem-protocol/src/{command,packet}.rs` | none | framing, packing, header, identity of a command |
| handshake | `atem-protocol/src/session.rs` | none | HELLO packets, session ids |
| configuration | `atem-proxy/src/{config,main}.rs` | read once | `load`, `normalize`, `load_cfg` |
| mDNS, entry points | `atem-proxy/src/{mdns,proxy,main}.rs` | none | start-up |

Four tasks run concurrently. *recv* handles one client datagram at a time and
awaits a bounded channel (512) when it forwards a command. *tick*, every 5 ms,
polls every endpoint, removes idle sessions, and forwards what their end
entails through the same channel. *upstream* runs one session after another:
it drains the channel, applies what the switcher reports to the lock broker and
the cache, and broadcasts it. *events* receives the broadcast (512 events) and
queues it for the clients, or clears the sessions when upstream is gone.

They share the sessions, the broker, the lane and the subscriptions through
mutexes that are never held across an await. So everything interesting happens
between critical sections: a session is removed in one and its locks in
another; a status arrives after the lock it speaks of has changed hands; the
upstream task clears the locks and the events task, later, the sessions. On the
wire, datagrams are lost, duplicated and reordered, and ids wrap at 2^15.

What makes each part correct:

- *endpoint*: payloads arrive once and in order; an acknowledgement never
  releases what the peer does not have; what is queued arrives; the window drains.
- *broker*: the broker and the switcher agree on who holds a store; a lock
  passes on only by release; a client that is gone holds nothing.
- *lane*: at most one owner, who is connected and owns a lock.
- *filter*: audio levels are requested only while some client wants them.
- *server, upstream*: no task blocks for ever; a lost session leaves nothing
  of the old clients behind.
- *cache, fan-out*: a client that opens at any moment, and stays, ends with the
  switcher's state; no event overtakes a newer dump and none is lost for good.
- *framing, packing*: commands come out of the datagrams made for them once each,
  in order and unchanged.
- *configuration*: whoever turns the SoftAtem profile on gets all of it.

## 2. The modules

| Module | What it is |
|---|---|
| `Reliable` | ids, ack covering and window operations of an endpoint, as operators |
| `FifoChannel` | what a link promises: items come out once and in order |
| `ReliableLink` | one direction of a connection over UDP, refining `FifoChannel` |
| `Locks`, `Transfer`, `Filter` | the tables of broker, lane and filter with their operations, as operators |
| `LockService` | what the broker promises: a store is granted while it is free |
| `SoftAtem` | the four tasks, the command channel, clients and switcher, composing the three and refining `LockService` |
| `Fanout` | state from the switcher through cache and broadcast ring to the clients |
| `Wire`, `Cache`, `Config` | framing, packing and packets; identity and coalescing; settings, as operators |
| `Algorithms` | runs the three on every bounded input, one round of each loop per step, and compares them with reference definitions |
| `MCReliableLink`, `MCFanout` | the values TLC uses for set-valued constants, and one initial state |
| `ReliableProofs`, `ReliableLinkProofs`, `SoftAtemProofs`, `BrokerProofs`, `FanoutProofs`, `WireProofs`, `AlgorithmsProofs` | theorems |

Definitions whose name starts with `Mut` are single deliberate mistakes. Each is
used in place of the definition that follows it to see that a property fails.

### ReliableLink

A data packet carries no acknowledgement and an ACK no data. The send half of
one endpoint therefore interacts only with the receive half of the other, and
the module models one such pair; a connection is two independent copies. The
state keeps the names of the code. `log` and `got` are histories: what was
numbered and what was accepted.

| Action | Code |
|---|---|
| `queue_payload` | `queue_payload`; one step for each packet `queue_commands_packed` makes (how it makes them is in `Wire`) |
| `poll_outbound(stale)` | retransmission of the whole window if its oldest entry is stale, then the refill |
| `poll_ping` | the keepalive at the end of `poll_outbound` |
| `poll_ack` | `should_send_ack` and `build_ack_packet` |
| `recv_ack`, `recv_data` | the receive paths of `run_session` and `handle_datagram` |
| `Open` | `rel.opened = true` |
| `Lose`, `Arrived`, `Alive` | UDP (external) |

Time is nondeterminism: any window may be stale at any poll, any ack timer may
have fired, a ping may be due whenever the endpoint is idle. One call of
`poll_outbound` in the code may send data and an ACK; since the halves do not
interact within one endpoint, the two are separate actions of two copies. A
retransmission request carries no ack and neither receive path of the proxy
reads it, so it has no effect and is left out. The switcher's end is taken to
behave like the proxy's own. The extra acknowledgement
`build_init_complete_ack` sends once after `InCm` repeats `highest_recv`; the
duplicates of UDP include what it does to the sender.

UDP may keep a datagram back only until `Lifetime` newer packets have been
numbered. Some such limit is needed by every protocol whose ids wrap. The
assumption is `max_in_flight < Lifetime` and `Lifetime + ACK_WINDOW <=
MAX_PACKET_ID`, in the code 32 < `Lifetime` <= 32512: a datagram may be overtaken
by up to 32512 newer packets, minutes of ordinary traffic.

### SoftAtem

An action ends where a task awaits or releases a lock others wait for.

| Action | Task and code |
|---|---|
| `HelloCheck`, `HelloInsert` | recv: readiness test up to the awaited reply; insertion after it |
| `LockRequest`, `TransferRequest`, `AudioRequest` | recv: `process_payload`, under the lock on sessions |
| `RecvSend`, `TickSend` | `cmd_tx.send().await` |
| `Expire`, `Cleanup` | tick: removal of idle sessions; `client_disconnected` for one of them |
| `Forward`, `LockStatus` | upstream: command arm; lock status in the receive arm |
| `UpstreamLost`, `UpstreamInit`, `UpstreamReady` | upstream: end of a session (or a failed handshake), handshake, `InCm` |
| `Disconnected` | events |
| `Switcher` | external: obeys the commands in order and reports every lock |

- A command is pushed when the channel has room for it (`HasRoom`). When *recv* and
  *tick* both wait, either may push first: permits are granted in order, but each
  task pushes when it is polled.
- A payload holds one command. `process_payload` treats the commands of a
  payload one after the other, and only their forwarding could be interleaved
  with other tasks.
- `client_disconnected` of the filter goes through three mutexes, one after the
  other, and each section changes one table: subscriptions, lane, locks. Another
  task that acts in between sees at most one table cleaned up earlier than
  another, and no operation reads the subscriptions together with the other two.
  The three are one step. So are the four assignments of `UpstreamLost`, and the
  two of `Disconnected` (sessions, then lane): *recv* opens the lane only under
  the lock on sessions, so between the two only the new session of a client could
  open it, and would lose it again.
- The subscription commands (`AudioName`: SALN, FASP, SAff in the code) share one set
  of subscribers and one `last_enable`. The switcher keeps its subscriptions by name.
- `Silent` is the environment: the clients that may fall silent long enough to be
  expired, at any moment. A client outside it keeps sending. The proxy has no say in it.
- The switcher sees one connection. It grants every lock, even one it already
  holds, and forgets locks and subscriptions when the connection ends. `swBy`
  records on whose behalf it holds a store; no action of the proxy reads it.
- `LockMode` and `MediaEnabled` are constants. The configurations use the
  SoftAtem profile; in `Deny` mode the lock table never changes. The proofs
  cover both modes.

No order of events is excluded. The broker keeps no record of what is under way, and
four orders make it lose track of a store; the history variable `raced`, which no
guard reads, collects the stores they have happened to:

| Race | What happens |
|---|---|
| `Contended` | a client is let through to lock a store while a release of it is under way, whose status will clear the new owner |
| `Unconfirmed` | the broker forgets an owner before it has heard that the lock was granted, so that no unlock is sent, or while *recv* still holds a command of the owner that the unlock may overtake |
| `Leftover` | the upstream session is lost while commands for the store wait in front of it, which the next session forwards |
| `Abandoned` | `Disconnected` clears the session of an owner that locked the store after the broker was cleared |

The second includes the client that comes back, and locks, while *tick* is taking
its old session down. The findings `lock_status_race`, `lock_leak` and
`lock_rejoin` show what comes of the first two. `NoOrphanLane` and `OwnerHoldsLock`
hold for every store all the same, and `NoOrphanLock` within one upstream session;
`BrokerAgrees`, `ReleaseIsUnderWay`, `GoneClientUnlocks` and the refinement speak of
the stores that are not in `raced`: whatever else happens, in whatever order, does not
break them.

`LockService` is refined with the switcher's `swBy` as the holder, and `None` once a
store is in `raced`: grants and releases happen where the switcher obeys a command,
long after the broker let it through.

### Fanout

State is a partial map from cache keys to values. A payload is the map of what it
changes, a dump the map the cache holds followed by `InCm`; how commands become
keys is left to `Cache`.

| Action | Task and code |
|---|---|
| `Change`, `Levels` | external: the switcher changes something, or reports what is not cached |
| `UpstreamOpen`, `UpstreamLost` | upstream: a handshake gets through; the end of a session up to the `Disconnected` it has to send |
| `IngestState`, `IngestLevels`, `IngestInCm` | upstream: `handle_upstream_payload`, cache first, with the event left in `pend` |
| `Broadcast` | `events_tx.send`; tokio's ring is external |
| `FanState`, `FanDisconnected`, `FanOther` | events: one arm each |
| `LagDump`, `LagQueue` | events: the `Lagged` arm before and after it locks the sessions |
| `HelloCheck`, `HelloInsert` | recv: as in `SoftAtem` |
| `Open` | recv: the first acknowledgement of a session, and its dump |
| `Deliver` | the FIFO that `ReliableLink` implements, to a client that applies what it gets |
| `Expire` | tick: an idle session is removed |

`session`, `opened`, `queue` belong to the sessions map; `view` and `inited` are
what the client was told in its session and are forgotten with it. Between
ingest and broadcast other tasks run, so `pend` is state of its own. `Levels`
also stands for transfer payloads and lock statuses: they pass through the ring
and can push state out of it, but say nothing about the state. The two modules
that model the server keep what their properties need: `SoftAtem` the locks and
commands, `Fanout` the state, and neither reads what only the other one has.

### Wire, Cache, Config, Algorithms

A datagram is a sequence of cells, one for each field, and lengths count cells.
A frame has two cells of head (its length and the name), a packet header six,
the first shared by flags and length as in the code. A command is a name with an
index and a value; the identity of a command is nothing, its index, or index and
value together (`body.get(..4)`), depending on its name. Of the configuration
only the five settings that influence one another are kept, with `normalize`
run twice as the code runs it.

A behaviour of `Algorithms` builds one input. The loops over a list of commands
advance with the list: `AddCommand` is one round of the loop in
`queue_commands_packed` (`PackStep`, on its `out` and `current`) and of the one in
`ingest_payload` (`ingest_command`, on the cache), so what they have computed so far
is state and can be the subject of an invariant. The loop of `parse_commands` is a
function of the offset: what it returns from there on is one frame and what it
returns behind that frame.

`encode_packet` asserts in a debug build that the payload fits the length field
and cuts it in a release build; the model has the latter. Commands come from the
switcher in packets of the same kind, so a single command always fits one.

## 3. The runs

| Run | Bounds | Shows |
|---|---|---|
| `link_safety` | ids mod 6, ack window 3, 2 in flight, `Lifetime` 3, 2 payloads, 6 packets | the link implements a FIFO channel and its window is exact, over loss, reordering and duplication of everything |
| `link_liveness` | the same ids, 4 packets, data lossy | every payload is delivered, every packet acknowledged |
| `broker` | 2 clients, one of which may fall silent, 1 store, channel of 1, 2 commands, 2 failures | in every order of events, the broker believes in no lock the switcher does not hold, the lane never outlives its client and no task stays blocked; for stores without a race, broker and switcher agree, the proxy implements the lock service, and the locks of clients that are gone are released |
| `fanout` | 1 client, 2 keys, 2 values, ring of 2, 2 changes, 1 lost session | no opened client misses or is left with an overtaken value; a client that stays ends with the switcher's state |
| `algorithms` | 4 commands of 25, 6 cells of 5, all 2592 sets of sources | parsing inverts framing; packing, encoding and retransmission keep every command; a dump has the latest command per key, in order, and replays the state of the names coalesced by index; a profile is complete |

Six packets wrap the ids: numbers 0 (the HELLO) and 6 share a wire id, so acks
and data of both sides of the wrap meet in the network. Two in flight are a full
window; an ack window of three is wider than that, as in the code. A channel of
one is full after one command, so both tasks block and wait. Two commands are
enough for a lock and an unlock, a lock of each client, a lock and a transfer, or a
lock and the same lock again after a re-join; two failures include a handshake that
fails after a session was lost. That one of the two clients never falls silent keeps
the run short; its invariants also hold with both silent, three commands and one
failure (8.9 million states).
A ring of two overflows with the two changes and the `Disconnected`, so the
`Disconnected` itself can be lost, and a dump can be taken while older events are
still in the ring. Client sessions meet only in the slot of the HELLO being
handled and in the list an event is copied to, so one client shows what happens
to each; the proofs are for any number. Values are interchangeable, so one initial state of
the switcher is enough. The names of `algorithms` stand for one command of each
kind of identity, one that is not cached, and `InCm`; the length field has 4 bits
and a packet 14 cells, so two indexed commands fit one packet, three do not, and the
longest goes alone.

Exhausted bounds end a behaviour of the link, and an input of `algorithms` is
complete at some point, hence their `CHECK_DEADLOCK FALSE`; the other runs check
for deadlock.

**Fairness.** Endpoints are polled every 5 ms and a window without progress
becomes stale after 30 ms, so each kind of poll is weakly fair. For a datagram
that is sent again and again, delivery is strongly fair: UDP that loses all
copies is a broken network. In `SoftAtem` every task step, the link and the
switcher are weakly fair, since `spawn_upstream` retries for ever. The two pushes into
the channel are strongly fair: room comes and goes, but permits are granted in the
order they were asked for, so *recv* cannot take every one before *tick*, nor the
other way round. In `Fanout` the
upstream task, its reconnects, the events task and the delivery of each queue are
weakly fair; the switcher is not. Nothing is
assumed of the clients: their requests, HELLOs and silences are never fair, nor
is the loss of a session.

### Findings

Seven runs state what a document or comment says and are violated by what the
code does:

| Run | Statement | What happens |
|---|---|---|
| `link_lost_ack` | "Peers must ACK or the sender retransmits" | the only ACK of a packet is lost; copies are refused as duplicates and not acknowledged again, so the packet stays in the window and keepalives stop |
| `lock_status_race` | "media lock will be denied if busy" | b unlocks a store that is free, then a locks it; the status of the unlock clears a as owner; b is let through (so it goes, too, when a locks, unlocks and locks again) |
| `lock_rejoin` | "media lock will be denied if busy" | a is expired while its HELLO is answered, gets a new session and locks; the clean-up of the old session clears a as owner and sends no unlock; b is let through |
| `lock_leak` | "return unlock commands ... for stores it owned" | a times out before its lock is confirmed; no unlock is sent |
| `audio_names` | "subscribe upstream only while ≥1 client wants them" | a enables SALN, which is forwarded, and sends a FASP disable: nobody is subscribed and only FASP is disabled; the same when a enables SALN, b FASP, and both leave |
| `init_incomplete` | "Only accept clients after a real InCm" | the upstream session is lost between HELLO and first acknowledgement; the client gets the dump of a cleared cache and `InCm` |
| `stale_dump` | "first few bytes encode ME/keyer/aux index" | for `AuxS` and others they hold the value too: source 0, then 1, then 0 again leaves two entries, and a late joiner replays 1 last |

The statement of `audio_names` fails in a second way, which needs one name only and
`MaxDrops = 1` in `AudioNames.cfg`: a subscription still in the channel when the
upstream session is lost is forwarded on the next one, although the session of the
client that sent it is cleared, and nothing ever disables it. `AudioOnlyWhileWanted`
reads "wants" as weakly as it can: a client in `AudioSubs` that has a session counts,
even after a repeated HELLO has reset its audio flag, and so does a flag that is set.

## 4. The proofs

All theorems hold for every value of the constants that satisfies the named
assumptions, which are weak: sizes are naturals, `1 <= max_in_flight <=
ACK_WINDOW < MAX_PACKET_ID`, the two conditions on `Lifetime`, `None` is not a
client, stores are finite, no subscription has the name of a lock or transfer command,
channel and ring have room for one, `Unset` is not a value, and the length field can hold the length of a bare header and
`MAX_PACKET_LEN` (`WireAssumption`, which also says that `2 ^ LEN_BITS` is a natural
number: the provers know nothing of powers). `CacheAssumption` says that the lists
of names in `command_identity`, `is_ephemeral_command`, `is_lock_command` and
`is_transfer_command` do not overlap; `AlgorithmsAssumption` that cells are natural
numbers, that a long body is longer than one cell, and that a command, which came
in a packet, fits one.

**`ReliableProofs`** is modular arithmetic. `CoveringIsOrder`: for packet
numbers close enough together, `is_ack_covering` on wire ids is `<=` on numbers.
`AckPopsUpTo`: on a window of consecutive packets, `on_ack_id` drops exactly
those up to the acknowledged number.

**`ReliableLinkProofs`**. The properties speak of windows and histories, but
what an arriving datagram does depends on what its id can stand for. So the
inductive invariant `LinkInv` adds to `TypeOK`, `AckedWereDelivered` and
`WindowIsUnackedTail` two facts: `EndsAgree` (both ends' next ids are the wire
ids of their histories, and the accepted payloads are a prefix of those sent) and
`NetIsHistory` (each datagram in the network is what was sent under its number,
and no older than `Lifetime`). With them the arithmetic lemmas turn every
comparison of wire ids into one of numbers. There is one lemma per action;
`LinkInvariant` combines them, and `LinkTypeCorrect`, `OnlyDeliveredIsReleased`
and `WindowIsExact` follow. `LinkImplementsFifo` maps `sent` to `log \o outbound`
and `delivered` to `got`: `queue_payload` and `poll_ping` are `Send`, an
accepted packet is `Deliver`, all else stutters.

**`SoftAtemProofs`**. `TypeCorrect` includes that the channel stays within its
capacity. `LaneIsServed` (`NoOrphanLane`) and `OwnerIsServed` (`NoOrphanLock`) hold in
every order of events; the second is limited to the first upstream session because
`locks.clear()` precedes the clearing of the sessions, and a LOCK handled in between
is granted to a client that is removed without clean-up.

**`BrokerProofs`**. No order of events is assumed away, and neither the number of
lost sessions nor that of clients, stores or requests is limited. `BrokerAgrees` and
`OwnerHoldsLock` speak only of stores about which nothing is under way, so they say
nothing of the steps that settle one. What a step does to a store depends on which
lock commands and statuses are under way and on their order: `Stream` is what lies
between the tasks and the switcher, the link first and then the channel; `Has` says
that a sequence has an element of a set, `Covered` that each element of one set is
followed by one of another. The lemmas of the first part say what appending, taking
the head and concatenating do to the two. `BrokerInv` says of every store:

- *tick* only releases (`TickQuiet`);
- the owner's lock commands come last, behind those of anyone else, and when there
  are none, the switcher holds the store for the owner or an unlocked status, which
  will clear the owner, is on its way (`OwnerComesLast`). `OwnersHoldTheirLocks`
  follows from this alone;
- while the switcher holds a store, a locked status comes last (`StatusTells`). So
  `client_disconnected`, which unlocks only what it has seen confirmed, misses no
  settled store;
- until a race happens to it (`Tracked`): nothing that releases the store is under
  way against an owner, who is connected or being taken down (`OwnerUndisturbed`); a
  store without an owner has a release behind every lock command (`FreeIsReleased`);
  and one client at most has lock commands in the stream or holds the store
  (`SoleClient`).

There is one lemma per action that is about locks, and `StoreSilent` for the others.
`disconnect_commands` sends its unlocks in any order of the stores; `OrdersCover`
counts that none is left out. Five results follow: `BrokerInvariant`,
`OwnersHoldTheirLocks`, `BrokerAgreesWithSwitcher`, `GoneClientsAreReleased` (the safety part
of `GoneClientUnlocks`) and `ProxyImplementsLockService`: a lock command obeyed is
`Grant`, `Release` or a stutter, a lost session releases every store, a race gives one
up, all else stutters.

**`WireProofs`**. The packet part is arithmetic: `WordSplits` takes flags and length
out of the word they share; from it, `PacketRoundTrip` (decoding inverts encoding,
for every header and payload that fits), `MarkIsMarked` (the mark set in the bytes
is the flag set in the header) and `RetransmitKeepsPacket`.

The framing part is by induction over data. The library's induction theorems take
the property as an operator, which the provers cannot instantiate; here it is a
set, and the induction is the least element of its complement (`Least`,
`DownInduction`, `UpInduction`, `SeqInduction`). A recursive function is first shown
to exist (`ParseUnfolds`, `FlatUnfolds`: a function that satisfies the recursion on
the offsets above one extends to that one); after that `ParseRound` says what one
round of `parse_commands` does, by the three ways it can end. `ParseRow`: two payloads
that parse, in a row, parse to both lists of commands in a row, since a frame of the
first is one of the row (`FrameOfFirst`) and behind it the loop sees the second only
(`ParseSecond`). `ParseOne`: a framed command parses to itself. `ParseIsExact`: what
was parsed, framed again, is the payload.

**`AlgorithmsProofs`**. `ProfileAlwaysComplete` goes through the sources.
`ParsingIsFraming` adds to `ParseIsExact` that a payload parses exactly when it can
be cut into frames, by induction from its end in both directions.
`EveryCopyArrives` is what `PackedCommandsArrive` says of one packet; for the whole
batch, `PackInv` says that the loop of `queue_commands_packed` is in one of its states
(everything queued is a `Payload`: it fits, parses to at least one command, and to
exactly one if it is longer than `MAX_PACKET_LEN`; what is gathered is empty or such a
payload and short) and that the commands it has `Taken`, queued and gathered, are those
of the list. A round flushes, joins or sends alone; each keeps it by `ParseRow` and
`ParseOne`, and `BatchesArrive` follows. For the cache, `LatestPerKey` speaks of
`Min` and `Max` of sets that change with every command; `CacheInv` says the same with
quantifiers (`EachIsLatest`, `EachHasEntry`, and `InOrder`: every occurrence of a key has
before it one of each key whose entry comes first). `DumpIsLatest` follows, and
`DumpReplaysIndexed`, where `SameKeySameIndex` is the fact that fails for the names of
`stale_dump`: two commands have the same key exactly when they are about the same
index.

**`FanoutProofs`**. What a client will have applied once everything has arrived is
the concatenation of its view, its queue, a resync dump the events task may hold,
the ring, and the event about to be sent. `NothingMissed` says that the cached
value of a key is the last word of that stream on it, unless a resync or a
`Disconnected` is to come. It is not inductive: a dump is put *before* events that
are already in the ring, so those must not contradict it. `FanoutInv` adds that
what is in the ring ends, key by key, with the cached value unless a
`Disconnected` follows it (`Fresh`); that the resync dump with the ring behind it
covers the cache (`ResyncIsFresh`); that only state payloads carry state; and that
only opened sessions have a queue. The lemmas of the first part give the last word
of a concatenation, of a head and a tail, and of a dump; the step lemma has one
step per action, and each is a matter of which part grows and which loses its
head. `FanoutTypeCorrect`, `FanoutInvariant` and `NothingIsMissed` hold for every
number of clients, keys, values and losses and every capacity of the ring.

Every invariant and both refinements that the passing runs check are proved. Only model-checked are the liveness properties
(`EverythingDelivered`, `EveryPacketAcknowledged`, `GoneClientUnlocks`,
`HandlersReturn`, `Converges`), which are out of the prover's reach.

## 5. Not modelled, and the plan

The plan that is left, in this order:

1. `fanout_owner`: the client a transfer payload goes to is looked up when the
   event is handled. This needs the lane of `SoftAtem` and the ring of `Fanout`
   in one module.
2. Sessions on top of the link: a repeated HELLO starts a new session while
   datagrams of the old one are under way, and packets are matched by address only.

Not planned: mDNS, which announces a name once and only reads; logging, service
entry points and signal handlers, which are I/O; session ids and the contents of
HELLO packets, which nothing compares; `parse_version` and `parse_product_name`,
which feed the log and mDNS. The backoff between upstream sessions is a delay and
shows in no property. Cancellation ends all tasks at once.

That `--softatem=false` does not undo a profile the file turned on is listed as
a hazard; the configuration run states the direction that holds.
