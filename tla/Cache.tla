-------------------------------- MODULE Cache -------------------------------
(***************************************************************************)
(* The coalescing state cache (crates/atem-proxy/src/cache.rs) with the    *)
(* identity of a command (crates/atem-protocol/src/command.rs).  The       *)
(* IndexMap is a sequence of entries in the order their keys were first    *)
(* seen.  A body is the index of what a command is about followed by its   *)
(* value; one cell stands for one of them.                                 *)
(***************************************************************************)
EXTENDS Integers, Sequences, SequencesExt

CONSTANTS InCm,            \* the name of init complete
          FirstByte,       \* names whose identity is the first body byte
          FourBytes,       \* names whose identity is four body bytes
          NotCached        \* ephemeral, lock and transfer names

\* No name is in two of the lists, and InCm is in none of them.
ASSUME CacheAssumption ==
    /\ FirstByte \cap FourBytes = {}
    /\ (FirstByte \cup FourBytes) \cap NotCached = {}
    /\ InCm \notin FirstByte \cup FourBytes \cup NotCached

\* body.get(..4): index and value, which share the first four bytes.
IDENT_CELLS == 2

MutIdentityByName(cmd) ==
    IF cmd.name \in FourBytes
    THEN SubSeq(cmd.body, 1, Min({IDENT_CELLS, Len(cmd.body)})) ELSE <<>>

command_identity(cmd) ==
    CASE cmd.name \in FirstByte -> SubSeq(cmd.body, 1, Min({1, Len(cmd.body)}))
      [] cmd.name \in FourBytes ->
             SubSeq(cmd.body, 1, Min({IDENT_CELLS, Len(cmd.body)}))
      [] OTHER                  -> <<>>

CacheKey(cmd) == <<cmd.name, command_identity(cmd)>>

cache_new == [map |-> <<>>, ready |-> FALSE]

MutReinsert(map, cmd) ==
    Append(SelectSeq(map, LAMBDA e : CacheKey(e) # CacheKey(cmd)), cmd)

\* A known key keeps its place and gets the new command; a new one goes last.
upsert(map, cmd) ==
    IF \E i \in DOMAIN map : CacheKey(map[i]) = CacheKey(cmd)
    THEN [i \in DOMAIN map |->
             IF CacheKey(map[i]) = CacheKey(cmd) THEN cmd ELSE map[i]]
    ELSE Append(map, cmd)

cacheable(cmd) == cmd.name \notin NotCached

\* ingest_payload takes a payload command by command; this is one round.
ingest_command(g, cmd) ==
    CASE ~ cacheable(cmd)       -> g
      [] cmd.name = InCm        -> [g EXCEPT !.ready = TRUE]
      [] OTHER                  -> [g EXCEPT !.map = upsert(@, cmd)]

synthetic_init_complete == [name |-> InCm, body |-> <<1>>]

cache_dump(g) == Append(g.map, synthetic_init_complete)
=============================================================================
