----------------------------- MODULE Algorithms -----------------------------
(***************************************************************************)
(* The pure algorithms of the proxy, each run on every bounded input and   *)
(* compared with a definition of what it should compute.  A behaviour      *)
(* builds one input step by step: a list of commands, a payload of         *)
(* arbitrary cells, or the sources of a configuration.  The loops over the *)
(* commands of a list advance with it: each new command is one more round  *)
(* of the loop in ingest_payload and of the one in queue_commands_packed.  *)
(***************************************************************************)
EXTENDS Wire, Cache, Config, FiniteSets

CONSTANTS Name, Index, Datum,   \* commands: a name, an index and a value
          LongBody,             \* cells of a command that fills a packet alone
          Cell,                 \* cells of arbitrary payloads
          MaxCmds, MaxCells     \* bounds on the inputs

VARIABLES job,
          cmds,      \* the commands so far
          packing,   \* queue_commands_packed: the state of its loop
          cache,     \* StateCache
          cells, opts

vars == <<job, cmds, packing, cache, cells, opts>>

\* What the switcher may say: an indexed value, a value without index, nothing
\* but the name, or a command too long to share a packet.
Command ==
    [name : Name, body : {<<i, d>> : i \in Index, d \in Datum}]
    \cup {[name |-> InCm, body |-> <<1>>]}
    \cup {[name |-> n, body |-> <<>>] : n \in Name}
    \cup {[name |-> n, body |-> [i \in 1..LongBody |-> 0]] : n \in Name}

\* A command came in a packet of the switcher, so it fits one.
ASSUME AlgorithmsAssumption ==
    /\ Name \cup {InCm} \cup Index \cup Datum \cup Cell \subseteq Nat
    /\ LongBody \in Nat /\ LongBody >= 2
    /\ \A c \in Command : Fits(serialize_command(c))

Sources == [file : Settings, env_mdns : Opt, env_softatem : Opt,
            cli_mdns : Opt, cli_softatem : Opt]
NoSource == [file |-> config_default, env_mdns |-> Absent,
             env_softatem |-> Absent, cli_mdns |-> Absent,
             cli_softatem |-> Absent]

Init ==
    /\ job \in {"commands", "cells", "config"}
    /\ cmds = <<>>
    /\ packing = PackStart
    /\ cache = cache_new
    /\ cells = <<>>
    /\ opts = NoSource

AddCommand ==
    /\ job = "commands"
    /\ Len(cmds) < MaxCmds
    /\ \E c \in Command :
          /\ cmds' = Append(cmds, c)
          /\ packing' = PackStep(packing, serialize_command(c))
          /\ cache' = ingest_command(cache, c)
    /\ UNCHANGED <<job, cells, opts>>

AddCell ==
    /\ job = "cells"
    /\ Len(cells) < MaxCells
    /\ \E x \in Cell : cells' = Append(cells, x)
    /\ UNCHANGED <<job, cmds, packing, cache, opts>>

Configure ==
    /\ job = "config"
    /\ opts = NoSource
    /\ opts' \in Sources
    /\ UNCHANGED <<job, cmds, packing, cache, cells>>

Next == AddCommand \/ AddCell \/ Configure

Spec == Init /\ [][Next]_vars

-----------------------------------------------------------------------------
(* Framing. *)

\* Positions at which a payload can be cut into frames: 0, its end, and
\* between two neighbours as many cells as the first one says.
IsFraming(p, cuts) ==
    /\ {0, Len(p)} \subseteq cuts
    /\ \A a \in cuts \ {Len(p)} :
          LET b == Min({c \in cuts : c > a})
          IN  b - a >= FRAME_LEN /\ p[a + 1] = b - a

\* parse_commands accepts exactly the payloads that are a row of frames, and
\* putting the frames of its result in a row gives the payload back: nothing
\* is dropped, invented or taken from the wrong place.
ParseInvertsFraming ==
    LET r == parse_commands(cells)
    IN  /\ r.ok <=> \E cuts \in SUBSET (0..Len(cells)) : IsFraming(cells, cuts)
        /\ r.ok => FlattenSeq([i \in DOMAIN r.val |->
                                  serialize_command(r.val[i])]) = cells

-----------------------------------------------------------------------------
(* From a list of commands to datagrams and back. *)

Header(id) == [flags |-> ACK_REQUEST, length |-> 0, session_id |-> 1,
               ack_id |-> 0, retransmit_request |-> 0, unknown |-> 0,
               packet_id |-> id]

\* The payload that arrives when packet i of the batch is sent, or sent again
\* once or twice.
Arrives(payload, id, bytes) ==
    LET r == decode_packet(bytes)
    IN  /\ r.ok
        /\ r.val.payload = payload
        /\ r.val.header.packet_id = id
        /\ contains(r.val.header.flags, ACK_REQUEST)

\* The commands of a batch come out of the datagrams made for it once each, in
\* order and unchanged, through packing, encoding, being marked as a
\* retransmission any number of times, decoding and parsing; no datagram is
\* empty, and one is longer than MAX_PACKET_LEN only for the sake of a single
\* command.
PackedCommandsArrive ==
    LET out == queue_commands_packed(packing)
        pkt(i) == encode_packet(Header(i), out[i])
    IN  /\ \A i \in DOMAIN out :
             /\ Arrives(out[i], i, pkt(i))
             /\ Arrives(out[i], i, mark_retransmit(pkt(i)))
             /\ mark_retransmit(mark_retransmit(pkt(i)))
                    = mark_retransmit(pkt(i))
             /\ parse_commands(out[i]).ok
             /\ parse_commands(out[i]).val # <<>>
             /\ Len(pkt(i)) <= MAX_PACKET_LEN
                    \/ Len(parse_commands(out[i]).val) = 1
        /\ FlattenSeq([i \in DOMAIN out |-> parse_commands(out[i]).val]) = cmds

-----------------------------------------------------------------------------
(* The cache. *)

Cached == {i \in DOMAIN cmds : cacheable(cmds[i]) /\ cmds[i].name # InCm}

\* Where the commands with a key are.
SeenAt(key) == {i \in Cached : CacheKey(cmds[i]) = key}

\* After any history a dump has one command per key, the latest one, in the
\* order the keys were first seen, and InCm once, at the end: its length is
\* bounded by the keys, not by the history.
LatestPerKey ==
    LET d      == cache_dump(cache)
        Entry  == 1 .. Len(d) - 1
        key(n) == CacheKey(d[n])
    IN  /\ d[Len(d)] = synthetic_init_complete
        /\ {key(n) : n \in Entry} = {CacheKey(cmds[i]) : i \in Cached}
        /\ \A n \in Entry : d[n] = cmds[Max(SeenAt(key(n)))]
        /\ \A m, n \in Entry : m < n => Min(SeenAt(key(m))) < Min(SeenAt(key(n)))

\* What a client knows about one index of a name after a list of commands.
LastOf(s, name, idx) ==
    LET at == {i \in DOMAIN s : /\ s[i].name = name
                                /\ Len(s[i].body) >= 2
                                /\ s[i].body[1] = idx}
    IN  IF at = {} THEN <<>> ELSE <<s[Max(at)].body[2]>>

\* A client that replays the dump knows the same about these names as one that
\* saw the whole history.
Replays(names) ==
    LET d == cache_dump(cache)
    IN  \A n \in names, i \in Index : LastOf(d, n, i) = LastOf(cmds, n, i)

\* A late joiner ends up with the same value for every index of the names that
\* are coalesced by their first byte (program and preview per M/E), however often
\* they changed: no index hides another, and no older value survives.
IndexedStateReplays == Replays(FirstByte)

\* The same for every indexed name.  command.rs says of the identity that the
\* "first few bytes encode ME/keyer/aux index".
DumpReplays == Replays(FirstByte \cup FourBytes)

-----------------------------------------------------------------------------
(* Configuration. *)

env == [mdns |-> opts.env_mdns, softatem |-> opts.env_softatem]
cli == [mdns |-> opts.cli_mdns, softatem |-> opts.cli_softatem]

\* Whatever source turns the SoftAtem profile on, in the order command line,
\* environment, file, all three features of the profile are on.
ProfileIsComplete ==
    LET cfg      == load_cfg(opts.file, env, cli)
        softatem == IF Given(cli.softatem) THEN IsTrue(cli.softatem)
                    ELSE IF Given(env.softatem) THEN IsTrue(env.softatem)
                    ELSE opts.file.softatem
    IN  /\ cfg.softatem = softatem
        /\ softatem => cfg.mode = "SingleOwner" /\ cfg.media /\ cfg.mdns
=============================================================================
