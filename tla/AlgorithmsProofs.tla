-------------------------- MODULE AlgorithmsProofs --------------------------
(***************************************************************************)
(* What the pure algorithms compute, for every input and every number of   *)
(* rounds: the merge of the configuration sources (config.rs), the loop of *)
(* parse_commands (command.rs), a batch of commands from the packing loop  *)
(* to the datagrams that arrive (reliable.rs, packet.rs), and the state    *)
(* cache with its dump (cache.rs).  What the wire format does is taken     *)
(* from WireProofs.                                                        *)
(***************************************************************************)
EXTENDS Algorithms, WireProofs

-----------------------------------------------------------------------------
(* Configuration. *)

\* The inputs of a behaviour are sources.
LEMMA SourcesType == Spec => [](opts \in Sources)
<1>1. Init => opts \in Sources
  BY DEF Init, NoSource, Sources, config_default, Settings, LockMode, Opt,
         Absent
<1>2. opts \in Sources /\ [Next]_vars => (opts \in Sources)'
  BY DEF Next, AddCommand, AddCell, Configure, vars
<1> QED
  BY <1>1, <1>2, PTL DEF Spec

(***************************************************************************)
(* Whichever of file, environment and command line turns the SoftAtem      *)
(* profile on, load and normalize leave single-owner locks, media and mDNS *)
(* on; and the last source given decides (config.rs, main.rs).             *)
(***************************************************************************)
THEOREM ProfileAlwaysComplete == Spec => []ProfileIsComplete
<1>1. opts \in Sources => ProfileIsComplete
  <2> SUFFICES ASSUME opts \in Sources  PROVE ProfileIsComplete
    OBVIOUS
  <2> QED
    BY DEF Sources, Settings, LockMode, Opt, Absent, ProfileIsComplete, env,
           cli, load_cfg, load, normalize, Override, Given, IsTrue
<1> QED
  BY <1>1, SourcesType, PTL

-----------------------------------------------------------------------------
(* Least and greatest elements. *)

\* Min finds the least element.
LEMMA MinIs ==
    ASSUME NEW S \in SUBSET Nat, NEW m \in S, \A k \in S : m <= k
    PROVE  Min(S) = m
<1>1. \A x, y \in Nat : x <= y /\ y <= x => x = y
  OBVIOUS
<1> DEFINE x == CHOOSE x \in S : \A y \in S : x =< y
<1>2. x \in S /\ \A y \in S : x <= y
  OBVIOUS
<1>3. Min(S) = x
  BY DEF Min
<1> HIDE DEF x
<1> QED  BY <1>1, <1>2, <1>3

\* Max finds the greatest element.
LEMMA MaxIs ==
    ASSUME NEW S \in SUBSET Nat, NEW m \in S, \A k \in S : k <= m
    PROVE  Max(S) = m
<1>1. \A x, y \in Nat : x <= y /\ y <= x => x = y
  OBVIOUS
<1>2. \A k \in S : m >= k
  OBVIOUS
<1> DEFINE x == CHOOSE x \in S : \A y \in S : x >= y
<1>3. x \in S /\ \A y \in S : x >= y
  BY <1>2
<1>4. Max(S) = x
  BY DEF Max
<1> HIDE DEF x
<1>5. x \in Nat /\ m \in Nat /\ x >= m
  BY <1>3
<1>6. x <= m /\ m <= x
  BY <1>3, <1>5
<1> QED  BY <1>1, <1>4, <1>5, <1>6

\* A bounded set of natural numbers that is not empty has a greatest element.
LEMMA Greatest ==
    ASSUME NEW n \in Nat, NEW S \in SUBSET (0..n), S # {}
    PROVE  Max(S) \in S
<1> DEFINE B == {j \in 0..n : n - j \in S}
<1>1. PICK x \in S : x \in 0..n
  OBVIOUS
<1>2. n - (n - x) = x /\ n - x \in 0..n
  BY <1>1
<1>3. n - x \in B
  BY <1>1, <1>2
<1>4. PICK m \in B : \A k \in B : m <= k
  <2>1. B \in SUBSET Nat
    OBVIOUS
  <2> HIDE DEF B
  <2> QED  BY <1>3, <2>1, Least
<1>5. m \in 0..n /\ n - m \in S
  BY <1>4
<1>6. ASSUME NEW k \in S  PROVE k <= n - m
  <2>1. k \in 0..n /\ n - (n - k) = k /\ n - k \in 0..n
    OBVIOUS
  <2>2. n - k \in B
    BY <2>1
  <2>3. m <= n - k
    BY <1>4, <2>2
  <2> QED  BY <1>5, <2>1, <2>3
<1>7. S \in SUBSET Nat
  OBVIOUS
<1> DEFINE y == n - m
<1>8. y \in S /\ \A k \in S : k <= y
  BY <1>5, <1>6
<1> HIDE DEF y
<1>9. Max(S) = y
  BY <1>7, <1>8, MaxIs
<1> QED  BY <1>8, <1>9

-----------------------------------------------------------------------------
(* Parsing and framing. *)

\* The cut that follows one.
LEMMA NextCut ==
    ASSUME NEW n \in Nat, NEW cuts \in SUBSET (0..n), n \in cuts,
           NEW a \in cuts, a # n
    PROVE  /\ Min({c \in cuts : c > a}) \in cuts
           /\ Min({c \in cuts : c > a}) \in a+1..n
           /\ \A c \in cuts : c > a => Min({d \in cuts : d > a}) <= c
<1> DEFINE S == {c \in cuts : c > a}
<1>1. S \in SUBSET Nat /\ n \in S
  <2>1. a \in 0..n /\ cuts \subseteq Nat
    OBVIOUS
  <2>2. n > a
    BY <2>1
  <2> QED  BY <2>1, <2>2
<1>2. PICK m \in S : \A k \in S : m <= k
  <2> HIDE DEF S
  <2> QED  BY <1>1, Least
<1>3. Min(S) = m
  <2> HIDE DEF S
  <2> QED  BY <1>1, <1>2, MinIs
<1>4. m \in cuts /\ m \in a+1..n /\ \A c \in cuts : c > a => m <= c
  BY <1>2
<1> QED  BY <1>3, <1>4

\* Between two neighbours there are as many cells as the first one says.
Spaced(p, cuts) ==
    \A a \in cuts \ {Len(p)} :
       LET b == Min({c \in cuts : c > a})
       IN  b - a >= FRAME_LEN /\ p[a + 1] = b - a

\* One more frame in front of a row of frames.
LEMMA CutInFront ==
    ASSUME NEW p \in Seq(Nat), NEW o \in 0..Len(p), FrameStarts(p, o),
           NEW rest \in SUBSET (o + p[o + 1]..Len(p)),
           {o + p[o + 1], Len(p)} \subseteq rest, Spaced(p, rest)
    PROVE  /\ rest \cup {o} \in SUBSET (o..Len(p))
           /\ {o, Len(p)} \subseteq rest \cup {o}
           /\ Spaced(p, rest \cup {o})
<1> DEFINE n == Len(p)
           len == p[o + 1]
           k == o + len
           cuts == rest \cup {o}
<1>1. n \in Nat /\ len \in Nat /\ 2 <= len /\ k \in o+2..n
  BY FrameType, LenProperties DEF FrameStarts, FRAME_LEN
<1>2. k = o + len /\ len = p[o + 1]
  OBVIOUS
<1>3. rest \in SUBSET (k..n) /\ k \in rest /\ n \in rest
  OBVIOUS
<1> HIDE DEF n, len, k
<1>4. cuts \in SUBSET (o..n) /\ {o, n} \subseteq cuts
  BY <1>1, <1>3
<1>5. ASSUME NEW a \in cuts \ {n}
      PROVE  LET b == Min({c \in cuts : c > a})
             IN  b - a >= FRAME_LEN /\ p[a + 1] = b - a
  <2>1. CASE a = o
    <3>1. {c \in cuts : c > a} = rest
      <4>1. \A c \in rest : c > o
        BY <1>1, <1>3
      <4>2. ~ (o > o)
        BY <1>1
      <4> QED  BY <2>1, <4>1, <4>2
    <3>2. Min(rest) = k
      <4>1. rest \in SUBSET Nat /\ \A c \in rest : k <= c
        BY <1>1, <1>3
      <4> QED  BY <1>3, <4>1, MinIs
    <3>3. k - o = len /\ len >= 2
      BY <1>1, <1>2
    <3> QED  BY <1>2, <2>1, <3>1, <3>2, <3>3 DEF FRAME_LEN
  <2>2. CASE a # o
    <3>1. a \in rest \ {n}
      BY <2>2
    <3>2. {c \in cuts : c > a} = {c \in rest : c > a}
      BY <1>1, <1>3, <3>1
    <3>3. LET b == Min({c \in rest : c > a})
          IN  b - a >= FRAME_LEN /\ p[a + 1] = b - a
      BY <3>1 DEF Spaced, n
    <3> HIDE DEF cuts
    <3> QED  BY <3>2, <3>3
  <2> QED  BY <2>1, <2>2
<1>6. Spaced(p, cuts)
  BY <1>5 DEF Spaced, n
<1> QED  BY <1>4, <1>6 DEF n

\* What parses is a row of frames.
LEMMA ParsedIsFramed ==
    ASSUME NEW p \in Seq(Nat), parse_commands(p).ok
    PROVE  \E cuts \in SUBSET (0..Len(p)) : IsFraming(p, cuts)
<1> DEFINE n == Len(p)
           F == ParseFrom(p)
           Framed(o) == \E cuts \in SUBSET (o..n) :
                           {o, n} \subseteq cuts /\ Spaced(p, cuts)
           S == {o \in 0..n : F[o].ok => Framed(o)}
<1>1. n \in Nat
  BY LenProperties
<1>2. ASSUME NEW o \in 0..n, \A i \in o+1..n : i \in S
      PROVE  o \in S
  <2> SUFFICES ASSUME F[o].ok  PROVE Framed(o)
    OBVIOUS
  <2>1. CASE o = n
    <3>1. {n} \in SUBSET (o..n) /\ {o, n} \subseteq {n}
      BY <1>1, <2>1
    <3>2. Spaced(p, {n})
      BY DEF Spaced
    <3> HIDE DEF n
    <3> QED  BY <3>1, <3>2
  <2>2. CASE o # n /\ ~ FrameStarts(p, o)
    <3>1. F[o] = Fail
      BY <2>2, ParseRound
    <3> QED  BY <3>1, ResultFacts
  <2>3. CASE FrameStarts(p, o)
    <3> DEFINE k == o + p[o + 1]
    <3>1. k \in o+2..n
      BY <2>3, FrameType
    <3>2. F[o] = IF F[k].ok THEN Ok(<<Frame(p, o)>> \o F[k].val) ELSE Fail
      BY <2>3, ParseRound
    <3>3. F[k].ok
      <4> HIDE DEF F, k
      <4> QED  BY <3>2, ResultFacts
    <3>4. k \in o+1..n
      <4> HIDE DEF k, n
      <4> QED  BY <1>1, <3>1
    <3>5. Framed(k)
      <4> HIDE DEF Framed, F, k
      <4> QED  BY <1>2, <3>3, <3>4
    <3>6. PICK rest \in SUBSET (k..n) :
             {k, n} \subseteq rest /\ Spaced(p, rest)
      BY <3>5
    <3>7. /\ rest \cup {o} \in SUBSET (o..n)
          /\ {o, n} \subseteq rest \cup {o}
          /\ Spaced(p, rest \cup {o})
      BY <2>3, <3>6, CutInFront
    <3> DEFINE cuts == rest \cup {o}
    <3>8. cuts \in SUBSET (o..n) /\ {o, n} \subseteq cuts /\ Spaced(p, cuts)
      BY <3>7
    <3> HIDE DEF cuts
    <3> QED  BY <3>8
  <2> QED  BY <2>1, <2>2, <2>3
<1>3. \A o \in 0..n : o \in S
  <2> HIDE DEF S
  <2> QED  BY <1>1, <1>2, DownInduction
<1>4. Framed(0)
  <2> HIDE DEF Framed
  <2> QED  BY <1>1, <1>3 DEF parse_commands
<1> QED  BY <1>4 DEF IsFraming, Spaced

\* A row of frames parses.
LEMMA FramedIsParsed ==
    ASSUME NEW p \in Seq(Nat), NEW cuts \in SUBSET (0..Len(p)),
           IsFraming(p, cuts)
    PROVE  parse_commands(p).ok
<1> DEFINE n == Len(p)
           F == ParseFrom(p)
           S == {o \in 0..n : o \in cuts => F[o].ok}
<1>1. n \in Nat
  BY LenProperties
<1>2. 0 \in cuts /\ n \in cuts
  BY DEF IsFraming
<1>3. ASSUME NEW o \in 0..n, \A i \in o+1..n : i \in S
      PROVE  o \in S
  <2> SUFFICES ASSUME o \in cuts  PROVE F[o].ok
    OBVIOUS
  <2>1. CASE o = n
    <3>1. F[o] = Ok(<<>>)
      BY <2>1, ParseRound
    <3> QED  BY <3>1, ResultFacts
  <2>2. CASE o # n
    <3> DEFINE b == Min({c \in cuts : c > o})
    <3>1. b \in cuts /\ b \in o+1..n
      <4> HIDE DEF n
      <4>1. cuts \in SUBSET (0..n)
        BY DEF n
      <4> QED  BY <1>1, <1>2, <2>2, <4>1, NextCut
    <3>2. b - o >= FRAME_LEN /\ p[o + 1] = b - o
      BY <2>2 DEF IsFraming
    <3> HIDE DEF b
    <3>3. /\ o + p[o + 1] = b /\ o + FRAME_LEN <= Len(p)
          /\ FRAME_LEN <= p[o + 1] /\ b <= Len(p)
      BY <1>1, <3>1, <3>2 DEF FRAME_LEN
    <3>4. FrameStarts(p, o)
      BY <3>3 DEF FrameStarts
    <3>5. F[b].ok
      BY <1>3, <3>1
    <3>6. F[o] = IF F[o + p[o + 1]].ok
                 THEN Ok(<<Frame(p, o)>> \o F[o + p[o + 1]].val) ELSE Fail
      BY <3>4, ParseRound
    <3> HIDE DEF F
    <3>7. F[o] = Ok(<<Frame(p, o)>> \o F[b].val)
      BY <3>3, <3>5, <3>6
    <3> QED  BY <3>7, ResultFacts
  <2> QED  BY <2>1, <2>2
<1>4. \A o \in 0..n : o \in S
  <2> HIDE DEF S
  <2> QED  BY <1>1, <1>3, DownInduction
<1> QED  BY <1>1, <1>2, <1>4 DEF parse_commands

\* The payloads of a behaviour are made of cells.
LEMMA CellsType == Spec => [](cells \in Seq(Nat))
<1>1. Init => cells \in Seq(Nat)
  BY EmptySeq DEF Init
<1>2. cells \in Seq(Nat) /\ [Next]_vars => (cells \in Seq(Nat))'
  <2> SUFFICES ASSUME cells \in Seq(Nat), [Next]_vars
               PROVE  cells' \in Seq(Nat)
    OBVIOUS
  <2>1. CASE AddCell
    <3>1. PICK x \in Cell : cells' = Append(cells, x)
      BY <2>1 DEF AddCell
    <3>2. x \in Nat
      BY AlgorithmsAssumption
    <3> QED  BY <3>1, <3>2, AppendProperties
  <2>2. CASE AddCommand
    BY <2>2 DEF AddCommand
  <2>3. CASE Configure
    BY <2>3 DEF Configure
  <2>4. CASE UNCHANGED vars
    BY <2>4 DEF vars
  <2> QED  BY <2>1, <2>2, <2>3, <2>4 DEF Next
<1> QED  BY <1>1, <1>2, PTL DEF Spec

(***************************************************************************)
(* parse_commands accepts a payload exactly when it can be cut into        *)
(* frames, and what it returns, framed again, is the payload: the loop of  *)
(* command.rs neither loses nor invents a cell, for payloads of every      *)
(* length.                                                                 *)
(***************************************************************************)
THEOREM ParsingIsFraming == Spec => []ParseInvertsFraming
<1>1. cells \in Seq(Nat) => ParseInvertsFraming
  <2> SUFFICES ASSUME cells \in Seq(Nat)  PROVE ParseInvertsFraming
    OBVIOUS
  <2> DEFINE r == parse_commands(cells)
             Framed == \E cuts \in SUBSET (0..Len(cells)) : IsFraming(cells, cuts)
  <2>1. r.ok => Framed
    BY ParsedIsFramed
  <2>2. Framed => r.ok
    BY FramedIsParsed
  <2>3. r.ok => FlattenSeq([i \in DOMAIN r.val |-> serialize_command(r.val[i])])
                   = cells
    BY ParseIsExact DEF Bytes, Raws
  <2>4. r.ok \in BOOLEAN
    <3>1. r \in Results
      <4>1. 0 \in 0..Len(cells)
        BY LenProperties
      <4> QED  BY <4>1, ParseType DEF parse_commands
    <3> HIDE DEF r
    <3>2. CASE r = Fail
      BY <3>2 DEF Fail
    <3>3. CASE \E cs \in Seq(Parsed) : r = Ok(cs)
      BY <3>3 DEF Ok
    <3> QED  BY <3>1, <3>2, <3>3 DEF Results
  <2>5. r.ok <=> Framed
    <3> HIDE DEF r, Framed
    <3> QED  BY <2>1, <2>2, <2>4
  <2> QED  BY <2>3, <2>5, Zenon DEF ParseInvertsFraming
<1> QED  BY <1>1, CellsType, PTL

-----------------------------------------------------------------------------
(* Packets. *)

(***************************************************************************)
(* A payload that fits arrives as it was sent, under its id and asking for *)
(* its acknowledgement, from the first copy, from the copy poll_outbound   *)
(* marks and from every later one: what PackedCommandsArrive says of each  *)
(* packet of a batch, for every payload and every id.                      *)
(***************************************************************************)
THEOREM EveryCopyArrives ==
    ASSUME NEW S, NEW payload \in Seq(S), Fits(payload), NEW id \in Nat
    PROVE  LET pkt == encode_packet(Header(id), payload)
           IN  /\ Arrives(payload, id, pkt)
               /\ Arrives(payload, id, mark_retransmit(pkt))
               /\ mark_retransmit(mark_retransmit(pkt)) = mark_retransmit(pkt)
<1> DEFINE h == Header(id)
<1>1. /\ h \in PacketHeader /\ h.packet_id = id /\ h.flags = 1
  BY DEF Header, PacketHeader, Flags, ACK_REQUEST
<1>2. contains(1, ACK_REQUEST)
  BY DEF contains, ACK_REQUEST
<1> HIDE DEF h
<1>3. Arrives(payload, id, encode_packet(h, payload))
  <2>1. Sent(h, payload).packet_id = id /\ Sent(h, payload).flags = 1
    BY <1>1 DEF Sent, PacketHeader
  <2>2. decode_packet(encode_packet(h, payload))
           = Ok([header |-> Sent(h, payload), payload |-> payload])
    BY <1>1, PacketRoundTrip
  <2> QED  BY <1>2, <2>1, <2>2 DEF Arrives, Ok
<1>4. mark_retransmit(encode_packet(h, payload))
         = encode_packet(Marked(h), payload)
  BY <1>1, MarkIsMarked
<1>5. Arrives(payload, id, encode_packet(Marked(h), payload))
  <2> DEFINE k == Marked(h)
  <2>1. k \in PacketHeader /\ contains(k.flags, ACK_REQUEST)
    BY <1>1, <1>2, MarkedFlags DEF ACK_REQUEST
  <2>2. k.packet_id = id
    BY <1>1 DEF Marked, PacketHeader
  <2> HIDE DEF k
  <2>3. Sent(k, payload).packet_id = id /\ Sent(k, payload).flags = k.flags
    BY <2>1, <2>2 DEF Sent, PacketHeader
  <2>4. decode_packet(encode_packet(k, payload))
           = Ok([header |-> Sent(k, payload), payload |-> payload])
    BY <2>1, PacketRoundTrip
  <2>5. Arrives(payload, id, encode_packet(k, payload))
    BY <2>1, <2>3, <2>4 DEF Arrives, Ok
  <2> QED  BY <2>5 DEF k
<1>6. mark_retransmit(mark_retransmit(encode_packet(h, payload)))
         = mark_retransmit(encode_packet(h, payload))
  BY <1>1, RetransmitKeepsPacket
<1> QED  BY <1>3, <1>4, <1>5, <1>6 DEF h

-----------------------------------------------------------------------------
(* Packing. *)

\* What the switcher may say can be framed.
LEMMA CommandType == \A c \in Command : c \in Parsed /\ Fits(serialize_command(c))
<1> SUFFICES ASSUME NEW c \in Command  PROVE c \in Parsed
  BY AlgorithmsAssumption
<1>1. Name \subseteq Nat /\ InCm \in Nat /\ Index \subseteq Nat
      /\ Datum \subseteq Nat /\ LongBody \in Nat
  BY AlgorithmsAssumption
<1>2. CASE c \in [name : Name, body : {<<i, d>> : i \in Index, d \in Datum}]
  <2>0. c.name \in Name /\ c = [name |-> c.name, body |-> c.body]
    BY <1>2
  <2>1. c.name \in Nat
    BY <1>1, <2>0
  <2>2. PICK i \in Index, d \in Datum : c.body = <<i, d>>
    BY <1>2
  <2>3. c.body \in Seq(Nat)
    BY <1>1, <2>2
  <2> QED  BY <2>0, <2>1, <2>3 DEF Parsed
<1>3. CASE c = [name |-> InCm, body |-> <<1>>]
  BY <1>1, <1>3 DEF Parsed
<1>4. CASE \E n \in Name : c = [name |-> n, body |-> <<>>]
  BY <1>1, <1>4 DEF Parsed
<1>5. CASE \E n \in Name : c = [name |-> n, body |-> [i \in 1..LongBody |-> 0]]
  <2>1. [i \in 1..LongBody |-> 0] \in Seq(Nat)
    BY <1>1
  <2> QED  BY <1>1, <1>5, <2>1 DEF Parsed
<1> QED  BY <1>2, <1>3, <1>4, <1>5 DEF Command

\* The payloads that may be queued: they fit a packet, hold whole commands and
\* at least one, and only a command on its own is longer than MAX_PACKET_LEN.
Payload ==
    {p \in Seq(Nat) :
        /\ Fits(p)
        /\ parse_commands(p).ok /\ parse_commands(p).val # <<>>
        /\ TooLong(Len(p)) => Len(parse_commands(p).val) = 1}

\* The states of the packing loop.
Gathering ==
    [out     : Seq(Payload),
     current : {<<>>} \cup {p \in Payload : ~ TooLong(Len(p))}]

\* The commands that come out of a list of payloads, and the ones that a state
\* of the loop has taken in.
Vals(out)    == [i \in DOMAIN out |-> parse_commands(out[i]).val]
Received(out) == FlattenSeq(Vals(out))
Taken(st)    == Received(st.out) \o parse_commands(st.current).val

\* What parses gives a list of commands, and nothing parses as nothing.
LEMMA ParsedType ==
    /\ \A p \in Seq(Nat) : parse_commands(p).ok =>
          /\ parse_commands(p).val \in Seq(Parsed)
          /\ parse_commands(p) = Ok(parse_commands(p).val)
    /\ parse_commands(<<>>) = Ok(<<>>)
    /\ parse_commands(<<>>).val = <<>>
<1>1. ASSUME NEW p \in Seq(Nat)  PROVE parse_commands(p) \in Results
  <2>1. 0 \in 0..Len(p)
    BY LenProperties
  <2> QED  BY <2>1, ParseType DEF parse_commands
<1>2. parse_commands(<<>>) = Ok(<<>>)
  <2> DEFINE e == <<>>
  <2>1. e \in Seq(Nat) /\ Len(e) = 0
    BY EmptySeq
  <2> HIDE DEF e
  <2>2. 0 \in 0..Len(e) /\ 0 = Len(e)
    BY <2>1
  <2>3. ParseFrom(e)[0] = Ok(<<>>)
    BY <2>1, <2>2, ParseRound
  <2> QED  BY <2>3 DEF parse_commands, e
<1>3. parse_commands(<<>>).val = <<>>
  BY <1>2, ResultFacts
<1>4. ASSUME NEW p \in Seq(Nat), parse_commands(p).ok
      PROVE  /\ parse_commands(p).val \in Seq(Parsed)
             /\ parse_commands(p) = Ok(parse_commands(p).val)
  BY <1>1, <1>4, ResultFacts
<1> QED  BY <1>2, <1>3, <1>4

\* One payload more.
LEMMA ReceivedAppend ==
    ASSUME NEW out \in Seq(Payload), NEW p \in Payload
    PROVE  /\ Received(out) \in Seq(Parsed)
           /\ Received(Append(out, p)) = Received(out) \o parse_commands(p).val
<1> DEFINE n == Len(out)
           a == Append(out, p)
           v == parse_commands(p).val
           u == Vals(out)
           w == Vals(a)
           x == Append(u, v)
<1>1. n \in Nat /\ DOMAIN out = 1..n /\ \A i \in 1..n : out[i] \in Payload
  BY LenProperties, ElementOfSeq
<1>2. \A q \in Payload : parse_commands(q).val \in Seq(Parsed)
  BY ParsedType DEF Payload
<1>3. v \in Seq(Parsed)
  BY <1>2
<1>4. /\ a \in Seq(Payload) /\ Len(a) = n + 1 /\ a[n + 1] = p
      /\ \A i \in 1..n : a[i] = out[i]
  BY AppendProperties
<1>5. u = [i \in 1..n |-> parse_commands(out[i]).val]
  BY <1>1 DEF Vals
<1> HIDE DEF u, a, v, n
<1>6. u \in Seq(Seq(Parsed)) /\ Len(u) = n
  <2>1. u \in [1..n -> Seq(Parsed)]
    BY <1>1, <1>2, <1>5
  <2> QED  BY <1>1, <2>1
<1>7. DOMAIN a = 1..n+1
  BY <1>1, <1>4, LenProperties
<1>8. w = [i \in 1..n+1 |-> parse_commands(a[i]).val]
  BY <1>7 DEF Vals
<1>9. /\ x \in Seq(Seq(Parsed)) /\ Len(x) = n + 1 /\ x[n + 1] = v
      /\ \A i \in 1..n : x[i] = u[i]
  BY <1>3, <1>6, AppendProperties
<1> HIDE DEF w, x
<1>10. ASSUME NEW i \in 1..n+1  PROVE w[i] = x[i]
  <2>1. w[i] = parse_commands(a[i]).val
    BY <1>8
  <2>2. CASE i = n + 1
    BY <1>4, <1>9, <2>1, <2>2 DEF v
  <2>3. CASE i # n + 1
    <3>1. i \in 1..n
      BY <1>1, <2>3
    <3>2. x[i] = parse_commands(out[i]).val
      BY <1>5, <1>9, <3>1
    <3>3. a[i] = out[i]
      BY <1>4, <3>1
    <3> QED  BY <2>1, <3>2, <3>3
  <2> QED  BY <2>2, <2>3
<1>11. x = [i \in 1..n+1 |-> x[i]]
  BY <1>9, LenProperties
<1>12. w = x
  BY <1>8, <1>10, <1>11
<1>13. FlattenSeq(x) = FlattenSeq(u) \o v
  BY <1>3, <1>6, FlattenAppend DEF x
<1>14. FlattenSeq(u) \in Seq(Parsed)
  BY <1>6, FlattenType
<1> QED  BY <1>12, <1>13, <1>14 DEF Received, w, a, u, v

\* Of a state of the loop.
LEMMA GatheringFacts ==
    ASSUME NEW st \in Gathering
    PROVE  /\ st = [out |-> st.out, current |-> st.current]
           /\ st.out \in Seq(Payload) /\ st.current \in Seq(Nat)
           /\ parse_commands(st.current).ok
           /\ parse_commands(st.current).val \in Seq(Parsed)
           /\ st.current # <<>> => st.current \in Payload
           /\ st.current # <<>> => ~ TooLong(Len(st.current))
<1> DEFINE c == st.current
<1>1. st = [out |-> st.out, current |-> c] /\ st.out \in Seq(Payload)
  BY DEF Gathering
<1>2. c = <<>> \/ (c \in Payload /\ ~ TooLong(Len(c)))
  BY DEF Gathering
<1> HIDE DEF c
<1>3. CASE c = <<>>
  <2>1. <<>> \in Seq(Nat) /\ <<>> \in Seq(Parsed)
    BY EmptySeq
  <2>2. parse_commands(c).ok /\ parse_commands(c).val = <<>>
    BY <1>3, ParsedType, ResultFacts
  <2> QED  BY <1>1, <1>3, <2>1, <2>2 DEF c
<1>4. CASE c # <<>>
  <2>1. c \in Payload /\ ~ TooLong(Len(c))
    BY <1>2, <1>4
  <2>2. c \in Seq(Nat) /\ parse_commands(c).ok
    BY <2>1 DEF Payload
  <2>3. parse_commands(c).val \in Seq(Parsed)
    BY <2>2, ParsedType
  <2> QED  BY <1>1, <2>1, <2>2, <2>3 DEF c
<1> QED  BY <1>3, <1>4

\* Queueing what was gathered loses nothing.
LEMMA FlushKeeps ==
    ASSUME NEW st \in Gathering, st.current # <<>>
    PROVE  /\ Append(st.out, st.current) \in Seq(Payload)
           /\ Received(Append(st.out, st.current)) = Taken(st)
<1>1. st.out \in Seq(Payload) /\ st.current \in Payload
  BY GatheringFacts
<1>2. Append(st.out, st.current) \in Seq(Payload)
  BY <1>1, AppendProperties
<1> QED  BY <1>1, <1>2, ReceivedAppend DEF Taken

\* A list of payloads with nothing gathered is a state of the loop.
LEMMA NothingGathered ==
    ASSUME NEW out \in Seq(Payload)
    PROVE  /\ [out |-> out, current |-> <<>>] \in Gathering
           /\ Taken([out |-> out, current |-> <<>>]) = Received(out)
<1> DEFINE f == [out |-> out, current |-> <<>>]
<1>1. f.out = out /\ f.current = <<>> /\ f \in Gathering
  BY DEF Gathering
<1> HIDE DEF f
<1>2. Received(out) \in Seq(Parsed)
  <2>1. CASE Payload = {}
    <3>1. out = <<>>
      BY <2>1, EmptySeq, ElementOfSeq, LenProperties
    <3>2. Vals(<<>>) = <<>>
      BY DEF Vals
    <3>3. <<>> \in Seq(Seq(Parsed)) /\ <<>> \in Seq(Parsed)
      BY EmptySeq
    <3>4. FlattenSeq(<<>>) = <<>>
      BY <3>3, FlattenAppend
    <3> QED  BY <3>1, <3>2, <3>3, <3>4 DEF Received
  <2>2. CASE Payload # {}
    BY <2>2, ReceivedAppend
  <2> QED  BY <2>1, <2>2
<1>3. Taken(f) = Received(out) \o <<>>
  BY <1>1, ParsedType DEF Taken
<1>4. Received(out) \o <<>> = Received(out)
  BY <1>2, ConcatEmptySeq
<1> QED  BY <1>1, <1>3, <1>4 DEF f

\* A framed command is a payload of its own.
LEMMA FramedIsPayload ==
    ASSUME NEW c \in Parsed, Fits(serialize_command(c))
    PROVE  /\ serialize_command(c) \in Payload
           /\ parse_commands(serialize_command(c)) = Ok(<<c>>)
           /\ parse_commands(serialize_command(c)).val = <<c>>
<1> DEFINE raw == serialize_command(c)
<1>1. raw \in Seq(Nat) /\ parse_commands(raw) = Ok(<<c>>)
  BY ParseOne
<1>2. parse_commands(raw).ok /\ parse_commands(raw).val = <<c>>
  BY <1>1, ResultFacts
<1>3. <<c>> # <<>> /\ Len(<<c>>) = 1
  OBVIOUS
<1> HIDE DEF raw
<1>4. Fits(raw)
  BY DEF raw
<1>5. raw \in Payload
  BY <1>1, <1>2, <1>3, <1>4 DEF Payload
<1> QED  BY <1>1, <1>2, <1>5 DEF raw

\* One command more.
LEMMA OneMore ==
    ASSUME NEW v \in Seq(Parsed), NEW c \in Parsed
    PROVE  /\ Append(v, c) = v \o <<c>>
           /\ Append(v, c) # <<>>
           /\ Append(v, c) \in Seq(Parsed)
           /\ \A R \in Seq(Parsed) : Append(R \o v, c) = R \o (v \o <<c>>)
<1>1. Append(v, c) = v \o <<c>> /\ Append(v, c) # <<>> /\ Append(v, c) \in Seq(Parsed)
  BY AppendIsConcat, AppendProperties
<1>2. ASSUME NEW R \in Seq(Parsed)
      PROVE  Append(R \o v, c) = R \o (v \o <<c>>)
  <2> DEFINE t == <<c>>
  <2>1. t \in Seq(Parsed) /\ R \o v \in Seq(Parsed)
    BY ConcatProperties
  <2>2. Append(R \o v, c) = (R \o v) \o t
    BY <2>1, AppendIsConcat
  <2> HIDE DEF t
  <2>3. (R \o v) \o t = R \o (v \o t)
    BY <2>1, ConcatAssociative
  <2> QED  BY <2>2, <2>3 DEF t
<1> QED  BY <1>1, <1>2

\* A command joins what was gathered.
LEMMA JoinKeeps ==
    ASSUME NEW st \in Gathering, NEW c \in Parsed, Fits(serialize_command(c)),
           ~ TooLong(Len(st.current) + Len(serialize_command(c)))
    PROVE  /\ [out     |-> st.out,
               current |-> st.current \o serialize_command(c)] \in Gathering
           /\ Taken([out     |-> st.out,
                     current |-> st.current \o serialize_command(c)])
                = Append(Taken(st), c)
<1> DEFINE raw == serialize_command(c)
           cur == st.current
           v == parse_commands(cur).val
           p == cur \o raw
           f == [out |-> st.out, current |-> p]
<1>1. raw \in Seq(Nat) /\ parse_commands(raw).ok /\ parse_commands(raw).val = <<c>>
  BY FramedIsPayload, ResultFacts DEF Payload
<1>2. /\ st.out \in Seq(Payload) /\ cur \in Seq(Nat)
      /\ parse_commands(cur).ok /\ v \in Seq(Parsed)
  BY GatheringFacts
<1>3. ~ TooLong(Len(cur) + Len(raw))
  OBVIOUS
<1> HIDE DEF raw, cur
<1>4. parse_commands(p) = Ok(v \o <<c>>)
  <2>1. parse_commands(cur \o raw)
           = Ok(parse_commands(cur).val \o parse_commands(raw).val)
    BY <1>1, <1>2, ParseRow, Zenon
  <2> QED  BY <1>1, <2>1
<1>0. v \in Seq(Parsed)
  BY <1>2
<1> HIDE DEF v
<1>5. Append(v, c) = v \o <<c>> /\ Append(v, c) # <<>> /\ Append(v, c) \in Seq(Parsed)
  BY <1>0, OneMore
<1>6. p \in Seq(Nat) /\ Len(p) = Len(cur) + Len(raw) /\ Len(p) \in Nat
  <2>1. p \in Seq(Nat) /\ Len(p) = Len(cur) + Len(raw)
    BY <1>1, <1>2, ConcatProperties
  <2> QED  BY <2>1, LenProperties
<1> HIDE DEF p
<1>7. parse_commands(p).ok /\ parse_commands(p).val = Append(v, c)
  BY <1>4, <1>5, ResultFacts
<1>8. ~ TooLong(Len(p))
  BY <1>3, <1>6
<1>9. Fits(p)
  <2> DEFINE top == MAX_LENGTH
  <2>1. 2 ^ LEN_BITS \in Nat
    BY WireAssumption
  <2>2. top \in Int
    BY <2>1 DEF MAX_LENGTH
  <2> HIDE DEF top
  <2>3. MAX_PACKET_LEN \in Nat /\ MAX_PACKET_LEN <= top
    BY WireAssumption DEF top
  <2>4. HEADER_LEN + Len(p) <= top
    BY <1>6, <1>8, <2>2, <2>3 DEF TooLong, HEADER_LEN
  <2> QED  BY <2>4 DEF Fits, top
<1>10. p \in Payload
  BY <1>5, <1>6, <1>7, <1>8, <1>9 DEF Payload
<1>11. f \in Gathering /\ f.out = st.out /\ f.current = p
  BY <1>2, <1>8, <1>10 DEF Gathering
<1> HIDE DEF f
<1>12. Taken(f) = Append(Taken(st), c)
  <2> DEFINE R == Received(st.out)
  <2>1. R \in Seq(Parsed)
    BY <1>2, <1>10, ReceivedAppend
  <2>2. Taken(f) = R \o (v \o <<c>>)
    BY <1>5, <1>7, <1>11 DEF Taken
  <2>3. Taken(st) = R \o v
    BY DEF Taken, v, cur
  <2> HIDE DEF R
  <2>4. Append(R \o v, c) = R \o (v \o <<c>>)
    BY <1>0, <2>1, OneMore
  <2> QED  BY <2>2, <2>3, <2>4
<1> QED  BY <1>11, <1>12 DEF f, p, cur, raw

\* A command that is too long to share goes out alone.
LEMMA AloneKeeps ==
    ASSUME NEW st \in Gathering, st.current = <<>>,
           NEW c \in Parsed, Fits(serialize_command(c))
    PROVE  /\ [out     |-> Append(st.out, serialize_command(c)),
               current |-> <<>>] \in Gathering
           /\ Taken([out     |-> Append(st.out, serialize_command(c)),
                     current |-> <<>>])
                = Append(Taken(st), c)
<1> DEFINE raw == serialize_command(c)
           a == Append(st.out, raw)
           R == Received(st.out)
<1>1. raw \in Payload /\ parse_commands(raw).val = <<c>>
  BY FramedIsPayload
<1>2. st.out \in Seq(Payload) /\ st = [out |-> st.out, current |-> <<>>]
  BY GatheringFacts
<1> HIDE DEF raw
<1>3. a \in Seq(Payload)
  BY <1>1, <1>2, AppendProperties
<1>4. Received(a) = R \o <<c>> /\ R \in Seq(Parsed)
  BY <1>1, <1>2, ReceivedAppend
<1>5. R \o <<c>> = Append(R, c)
  BY <1>4, AppendIsConcat
<1>6. Taken(st) = R
  BY <1>2, NothingGathered
<1> HIDE DEF a, R
<1>7. /\ [out |-> a, current |-> <<>>] \in Gathering
      /\ Taken([out |-> a, current |-> <<>>]) = Received(a)
  BY <1>3, NothingGathered
<1> QED  BY <1>4, <1>5, <1>6, <1>7 DEF a, raw

\* One round of the packing loop takes in one command.
LEMMA PackStepKeeps ==
    ASSUME NEW st \in Gathering, NEW c \in Parsed, Fits(serialize_command(c))
    PROVE  /\ PackStep(st, serialize_command(c)) \in Gathering
           /\ Taken(PackStep(st, serialize_command(c))) = Append(Taken(st), c)
<1> DEFINE raw == serialize_command(c)
           full == TooLong(Len(st.current) + Len(raw)) /\ st.current # <<>>
           queued == [out |-> Append(st.out, st.current), current |-> <<>>]
           f == IF full THEN queued ELSE st
           g == PackStep(st, raw)
<1>1. st = [out |-> st.out, current |-> st.current] /\ st.current \in Seq(Nat)
  BY GatheringFacts
<1>2. raw \in Seq(Nat)
  BY ParseOne
<1>3. Len(raw) \in Nat /\ Len(st.current) \in Nat
  BY <1>1, <1>2, LenProperties
<1>4. g = IF TooLong(Len(raw)) THEN [f EXCEPT !.out = Append(@, raw)]
                               ELSE [f EXCEPT !.current = @ \o raw]
  BY DEF PackStep
<1>5. f \in Gathering /\ Taken(f) = Taken(st)
  <2>1. CASE full
    <3>1. /\ Append(st.out, st.current) \in Seq(Payload)
          /\ Received(Append(st.out, st.current)) = Taken(st)
      BY <2>1, FlushKeeps
    <3>2. queued \in Gathering /\ Taken(queued) = Taken(st)
      BY <3>1, NothingGathered
    <3> QED  BY <2>1, <3>2
  <2>2. CASE ~ full
    BY <2>2
  <2> QED  BY <2>1, <2>2
<1>6. /\ full => f.current = <<>>
      /\ ~ full => f = st
  OBVIOUS
<1>7. f = [out |-> f.out, current |-> f.current]
  BY <1>5, GatheringFacts
<1>8. Len(<<>>) = 0
  OBVIOUS
<1> HIDE DEF f, g, raw
<1>9. CASE TooLong(Len(raw))
  <2>1. f.current = <<>>
    <3>1. CASE full
      BY <1>6, <3>1
    <3>2. CASE ~ full
      <4>1. TooLong(Len(st.current) + Len(raw))
        BY <1>3, <1>9, WireAssumption DEF TooLong, HEADER_LEN
      <4> QED  BY <1>6, <3>2, <4>1
    <3> QED  BY <3>1, <3>2
  <2>2. g = [out |-> Append(f.out, raw), current |-> <<>>]
    BY <1>4, <1>7, <1>9, <2>1
  <2>3. /\ [out |-> Append(f.out, raw), current |-> <<>>] \in Gathering
        /\ Taken([out |-> Append(f.out, raw), current |-> <<>>])
             = Append(Taken(f), c)
    BY <1>5, <2>1, AloneKeeps DEF raw
  <2>4. g \in Gathering /\ Taken(g) = Append(Taken(st), c)
    BY <1>5, <2>2, <2>3
  <2> QED  BY <2>4 DEF g, raw
<1>10. CASE ~ TooLong(Len(raw))
  <2>1. ~ TooLong(Len(f.current) + Len(raw))
    <3>1. CASE f.current = <<>>
      <4>1. Len(f.current) + Len(raw) = Len(raw)
        BY <1>3, <1>8, <3>1
      <4> QED  BY <1>10, <4>1
    <3>2. CASE f.current # <<>>
      BY <1>6, <3>2
    <3> QED  BY <3>1, <3>2
  <2>2. g = [out |-> f.out, current |-> f.current \o raw]
    BY <1>4, <1>7, <1>10
  <2>3. /\ [out |-> f.out, current |-> f.current \o raw] \in Gathering
        /\ Taken([out |-> f.out, current |-> f.current \o raw])
             = Append(Taken(f), c)
    BY <1>5, <2>1, JoinKeeps DEF raw
  <2>4. g \in Gathering /\ Taken(g) = Append(Taken(st), c)
    BY <1>5, <2>2, <2>3
  <2> QED  BY <2>4 DEF g, raw
<1> QED  BY <1>9, <1>10

\* What the loop leaves to send.
LEMMA QueuedIsTaken ==
    ASSUME NEW st \in Gathering
    PROVE  /\ queue_commands_packed(st) \in Seq(Payload)
           /\ Received(queue_commands_packed(st)) = Taken(st)
<1>1. CASE st.current = <<>>
  <2>1. st = [out |-> st.out, current |-> <<>>] /\ st.out \in Seq(Payload)
    BY <1>1, GatheringFacts
  <2>2. Taken([out |-> st.out, current |-> <<>>]) = Received(st.out)
    BY <2>1, NothingGathered
  <2>3. Taken(st) = Received(st.out)
    BY <2>1, <2>2
  <2> QED  BY <1>1, <2>1, <2>3 DEF queue_commands_packed
<1>2. CASE st.current # <<>>
  BY <1>2, FlushKeeps DEF queue_commands_packed
<1> QED  BY <1>1, <1>2

(***************************************************************************)
(* The invariant: the packing loop is in one of its states and has taken   *)
(* in exactly the commands so far.                                         *)
(***************************************************************************)
PackInv == packing \in Gathering /\ Taken(packing) = cmds

\* Every round keeps it.
LEMMA Packing == Spec => []PackInv
<1>1. Init => PackInv
  <2> SUFFICES ASSUME Init  PROVE PackInv
    OBVIOUS
  <2>1. packing = [out |-> <<>>, current |-> <<>>] /\ cmds = <<>>
    BY DEF Init, PackStart
  <2>2. <<>> \in Seq(Payload)
    BY EmptySeq
  <2>3. Received(<<>>) = <<>>
    <3>1. Vals(<<>>) = <<>>
      BY DEF Vals
    <3>2. <<>> \in Seq(Seq(Parsed)) /\ <<>> \in Seq(Parsed)
      BY EmptySeq
    <3> QED  BY <3>1, <3>2, FlattenAppend DEF Received
  <2>4. /\ [out |-> <<>>, current |-> <<>>] \in Gathering
        /\ Taken([out |-> <<>>, current |-> <<>>]) = Received(<<>>)
    BY <2>2, NothingGathered
  <2> QED  BY <2>1, <2>3, <2>4 DEF PackInv
<1>2. PackInv /\ [Next]_vars => PackInv'
  <2> SUFFICES ASSUME PackInv, [Next]_vars  PROVE PackInv'
    OBVIOUS
  <2>1. CASE AddCommand
    <3>1. PICK c \in Command :
             /\ cmds' = Append(cmds, c)
             /\ packing' = PackStep(packing, serialize_command(c))
      BY <2>1 DEF AddCommand
    <3>2. c \in Parsed /\ Fits(serialize_command(c))
      BY CommandType
    <3>3. packing \in Gathering /\ Taken(packing) = cmds
      BY DEF PackInv
    <3>4. /\ PackStep(packing, serialize_command(c)) \in Gathering
          /\ Taken(PackStep(packing, serialize_command(c)))
               = Append(Taken(packing), c)
      BY <3>2, <3>3, PackStepKeeps
    <3> QED  BY <3>1, <3>3, <3>4 DEF PackInv
  <2>2. CASE UNCHANGED <<cmds, packing>>
    BY <2>2 DEF PackInv
  <2> QED  BY <2>1, <2>2 DEF Next, AddCell, Configure, vars
<1> QED  BY <1>1, <1>2, PTL DEF Spec

(***************************************************************************)
(* Whatever the commands of a batch, and however many: packed, encoded,    *)
(* marked as retransmissions, decoded and parsed, they come out once each, *)
(* in order and unchanged; no packet is empty, and only a command on its   *)
(* own may exceed MAX_PACKET_LEN (reliable.rs, packet.rs, command.rs).     *)
(***************************************************************************)
THEOREM BatchesArrive == Spec => []PackedCommandsArrive
<1>1. PackInv => PackedCommandsArrive
  <2> SUFFICES ASSUME PackInv  PROVE PackedCommandsArrive
    OBVIOUS
  <2> DEFINE out == queue_commands_packed(packing)
             pkt(i) == encode_packet(Header(i), out[i])
  <2>1. out \in Seq(Payload) /\ Received(out) = cmds
    BY QueuedIsTaken DEF PackInv
  <2> HIDE DEF out
  <2>2. ASSUME NEW i \in DOMAIN out
        PROVE  /\ Arrives(out[i], i, pkt(i))
               /\ Arrives(out[i], i, mark_retransmit(pkt(i)))
               /\ mark_retransmit(mark_retransmit(pkt(i)))
                      = mark_retransmit(pkt(i))
               /\ parse_commands(out[i]).ok
               /\ parse_commands(out[i]).val # <<>>
               /\ Len(pkt(i)) <= MAX_PACKET_LEN
                      \/ Len(parse_commands(out[i]).val) = 1
    <3> DEFINE p == out[i]
    <3>1. i \in Nat /\ p \in Payload
      BY <2>1, LenProperties, ElementOfSeq
    <3> HIDE DEF p
    <3>2. /\ p \in Seq(Nat) /\ Fits(p)
          /\ parse_commands(p).ok /\ parse_commands(p).val # <<>>
          /\ TooLong(Len(p)) => Len(parse_commands(p).val) = 1
      BY <3>1 DEF Payload
    <3> DEFINE q == encode_packet(Header(i), p)
    <3>3. /\ Arrives(p, i, q) /\ Arrives(p, i, mark_retransmit(q))
          /\ mark_retransmit(mark_retransmit(q)) = mark_retransmit(q)
      BY <3>1, <3>2, EveryCopyArrives
    <3>4. Len(q) = HEADER_LEN + Len(p)
      <4>1. Header(i) \in PacketHeader
        BY <3>1 DEF Header, PacketHeader, Flags, ACK_REQUEST
      <4> QED  BY <3>2, <4>1, PacketByCell DEF IsPacket
    <3> HIDE DEF q
    <3>5. Len(q) <= MAX_PACKET_LEN \/ TooLong(Len(p))
      <4>1. Len(p) \in Nat /\ MAX_PACKET_LEN \in Nat
        BY <3>2, LenProperties, WireAssumption
      <4> QED  BY <3>4, <4>1 DEF TooLong, HEADER_LEN
    <3>6. Len(q) <= MAX_PACKET_LEN \/ Len(parse_commands(p).val) = 1
      BY <3>2, <3>5
    <3> QED  BY <3>2, <3>3, <3>6 DEF p, q
  <2>3. FlattenSeq([i \in DOMAIN out |-> parse_commands(out[i]).val]) = cmds
    BY <2>1 DEF Received, Vals
  <2> QED  BY <2>2, <2>3, Zenon DEF PackedCommandsArrive, out
<1> QED  BY <1>1, Packing, PTL

-----------------------------------------------------------------------------
(* The cache. *)

\* Where a history has commands that are cached.
CachedIn(cs) == {i \in DOMAIN cs : cacheable(cs[i]) /\ cs[i].name # InCm}

\* No later command has the key of command i.
IsLatest(cs, i) ==
    \A j \in CachedIn(cs) : CacheKey(cs[j]) = CacheKey(cs[i]) => j <= i

(***************************************************************************)
(* What the entries are of the history cs: each is the latest command with *)
(* its key; every key has one; and each key was seen before the keys of    *)
(* the entries behind its own.                                             *)
(***************************************************************************)
EachIsLatest(cs, map) ==
    \A n \in DOMAIN map : \E i \in CachedIn(cs) : map[n] = cs[i] /\ IsLatest(cs, i)

EachHasEntry(cs, map) ==
    \A i \in CachedIn(cs) : \E n \in DOMAIN map : CacheKey(map[n]) = CacheKey(cs[i])

InOrder(cs, map) ==
    \A m, n \in DOMAIN map : m < n =>
       \A j \in CachedIn(cs) : CacheKey(cs[j]) = CacheKey(map[n]) =>
          \E i \in CachedIn(cs) : CacheKey(cs[i]) = CacheKey(map[m]) /\ i < j

Summary(cs, map) ==
    EachIsLatest(cs, map) /\ EachHasEntry(cs, map) /\ InOrder(cs, map)

\* One command more.
LEMMA HistoryGrows ==
    ASSUME NEW cs \in Seq(Command), NEW c \in Command
    PROVE  LET ds == Append(cs, c)
               N  == Len(cs) + 1
           IN  /\ N \in Nat /\ ds[N] = c
               /\ \A i \in CachedIn(cs) : i \in 1..Len(cs) /\ i < N /\ ds[i] = cs[i]
               /\ cacheable(c) /\ c.name # InCm =>
                     CachedIn(ds) = CachedIn(cs) \cup {N}
               /\ ~ (cacheable(c) /\ c.name # InCm) => CachedIn(ds) = CachedIn(cs)
<1> DEFINE ds == Append(cs, c)
           L == Len(cs)
           N == L + 1
<1>1. L \in Nat /\ DOMAIN cs = 1..L
  BY LenProperties
<1>2. ds \in Seq(Command) /\ Len(ds) = N /\ ds[N] = c /\ \A i \in 1..L : ds[i] = cs[i]
  BY AppendProperties
<1> HIDE DEF ds, L
<1>3. N \in Nat /\ DOMAIN ds = 1..N /\ 1..N = (1..L) \cup {N}
      /\ \A i \in 1..L : i < N
  BY <1>1, <1>2, LenProperties
<1> HIDE DEF N
<1>4. \A i \in CachedIn(cs) : i \in 1..L /\ i < N /\ ds[i] = cs[i]
  BY <1>1, <1>2, <1>3 DEF CachedIn
<1>5. CachedIn(ds) = CachedIn(cs)
                      \cup {i \in {N} : cacheable(c) /\ c.name # InCm}
  BY <1>1, <1>2, <1>3, <1>4 DEF CachedIn
<1> QED  BY <1>2, <1>3, <1>4, <1>5 DEF ds, N, L

\* A command that is not kept changes nothing.
LEMMA SkipKeeps ==
    ASSUME NEW cs \in Seq(Command), NEW c \in Command, NEW map \in Seq(Command),
           Summary(cs, map), ~ (cacheable(c) /\ c.name # InCm)
    PROVE  Summary(Append(cs, c), map)
<1> DEFINE ds == Append(cs, c)
<1>1. /\ CachedIn(ds) = CachedIn(cs)
      /\ \A i \in CachedIn(cs) : ds[i] = cs[i]
  BY HistoryGrows
<1> HIDE DEF ds
<1>2. EachIsLatest(ds, map)
  BY <1>1 DEF Summary, EachIsLatest, IsLatest
<1>3. EachHasEntry(ds, map)
  BY <1>1 DEF Summary, EachHasEntry
<1>4. InOrder(ds, map)
  BY <1>1 DEF Summary, InOrder
<1> QED  BY <1>2, <1>3, <1>4 DEF Summary, ds

\* A new command takes the place of the one with its key.
LEMMA ReplaceKeeps ==
    ASSUME NEW cs \in Seq(Command), NEW c \in Command, NEW map \in Seq(Command),
           Summary(cs, map), cacheable(c), c.name # InCm,
           \E n \in DOMAIN map : CacheKey(map[n]) = CacheKey(c)
    PROVE  /\ upsert(map, c) \in Seq(Command)
           /\ Summary(Append(cs, c), upsert(map, c))
<1> DEFINE ds == Append(cs, c)
           N == Len(cs) + 1
           C == CachedIn(cs)
           D == CachedIn(ds)
           L == Len(map)
           new == upsert(map, c)
<1>1. /\ N \in Nat /\ ds[N] = c /\ D = C \cup {N}
      /\ \A i \in C : i \in Nat /\ i < N /\ ds[i] = cs[i]
  <2>1. \A i \in 1..Len(cs) : i \in Nat
    OBVIOUS
  <2> QED  BY <2>1, HistoryGrows
<1>2. L \in Nat /\ DOMAIN map = 1..L /\ \A n \in 1..L : map[n] \in Command
  BY LenProperties, ElementOfSeq
<1>3. new = [n \in 1..L |-> IF CacheKey(map[n]) = CacheKey(c) THEN c ELSE map[n]]
  BY <1>2 DEF upsert
<1> HIDE DEF new, L
<1>4. new \in Seq(Command) /\ DOMAIN new = 1..L
  <2>1. new \in [1..L -> Command]
    BY <1>2, <1>3
  <2> QED  BY <1>2, <2>1
<1>5. \A n \in 1..L : /\ CacheKey(new[n]) = CacheKey(map[n])
                      /\ CacheKey(map[n]) = CacheKey(c) => new[n] = c
                      /\ CacheKey(map[n]) # CacheKey(c) => new[n] = map[n]
  BY <1>3
<1> HIDE DEF ds, N, C, D
<1>6. /\ \A n \in 1..L : \E i \in C : map[n] = cs[i] /\ IsLatest(cs, i)
      /\ \A i \in C : \E n \in 1..L : CacheKey(map[n]) = CacheKey(cs[i])
      /\ \A m, n \in 1..L : m < n =>
            \A j \in C : CacheKey(cs[j]) = CacheKey(map[n]) =>
               \E i \in C : CacheKey(cs[i]) = CacheKey(map[m]) /\ i < j
  <2>1. \A n \in 1..L : \E i \in C : map[n] = cs[i] /\ IsLatest(cs, i)
    BY <1>2 DEF Summary, EachIsLatest, C
  <2>2. \A i \in C : \E n \in 1..L : CacheKey(map[n]) = CacheKey(cs[i])
    BY <1>2 DEF Summary, EachHasEntry, C
  <2>3. \A m, n \in 1..L : m < n =>
           \A j \in C : CacheKey(cs[j]) = CacheKey(map[n]) =>
              \E i \in C : CacheKey(cs[i]) = CacheKey(map[m]) /\ i < j
    BY <1>2 DEF Summary, InOrder, C
  <2> QED  BY <2>1, <2>2, <2>3
<1>7. EachIsLatest(ds, new)
  <2>1. ASSUME NEW n \in 1..L
        PROVE  \E i \in D : new[n] = ds[i] /\ IsLatest(ds, i)
    <3>1. CASE CacheKey(map[n]) = CacheKey(c)
      <4>1. \A j \in D : j <= N
        BY <1>1
      <4>2. IsLatest(ds, N)
        BY <4>1 DEF IsLatest, D
      <4> QED  BY <1>1, <1>5, <3>1, <4>2
    <3>2. CASE CacheKey(map[n]) # CacheKey(c)
      <4>1. PICK i \in C : map[n] = cs[i] /\ IsLatest(cs, i)
        BY <1>6
      <4>2. i \in D /\ ds[i] = cs[i] /\ new[n] = ds[i]
        BY <1>1, <1>5, <3>2, <4>1
      <4>3. CacheKey(ds[i]) # CacheKey(c)
        BY <3>2, <4>1, <4>2
      <4>4. IsLatest(ds, i)
        <5>1. ASSUME NEW j \in D, CacheKey(ds[j]) = CacheKey(ds[i])
              PROVE  j <= i
          <6>1. j # N
            BY <1>1, <4>3, <5>1
          <6>2. j \in C /\ ds[j] = cs[j]
            BY <1>1, <6>1
          <6> QED  BY <4>1, <4>2, <5>1, <6>2 DEF IsLatest, C
        <5> QED  BY <5>1 DEF IsLatest, D
      <4> QED  BY <4>2, <4>4
    <3> QED  BY <3>1, <3>2
  <2> QED  BY <1>4, <2>1 DEF EachIsLatest, D
<1>8. EachHasEntry(ds, new)
  <2>1. ASSUME NEW i \in D
        PROVE  \E n \in 1..L : CacheKey(new[n]) = CacheKey(ds[i])
    <3>1. CASE i = N
      BY <1>1, <1>2, <1>5, <3>1
    <3>2. CASE i # N
      BY <1>1, <1>5, <1>6, <3>2
    <3> QED  BY <3>1, <3>2
  <2> QED  BY <1>4, <2>1 DEF EachHasEntry, D
<1>9. InOrder(ds, new)
  <2>1. ASSUME NEW m \in 1..L, NEW n \in 1..L, m < n, NEW j \in D,
               CacheKey(ds[j]) = CacheKey(new[n])
        PROVE  \E i \in D : CacheKey(ds[i]) = CacheKey(new[m]) /\ i < j
    <3>1. PICK k \in C : CacheKey(cs[k]) = CacheKey(map[n]) /\ k <= j
      <4>1. CASE j = N
        <5>1. PICK k \in C : map[n] = cs[k]
          BY <1>6
        <5>2. k <= j
          BY <1>1, <4>1, <5>1
        <5> QED  BY <5>1, <5>2
      <4>2. CASE j # N
        <5>1. j \in C /\ ds[j] = cs[j] /\ j <= j
          BY <1>1, <4>2
        <5> QED  BY <1>5, <2>1, <5>1
      <4> QED  BY <4>1, <4>2
    <3>2. PICK i \in C : CacheKey(cs[i]) = CacheKey(map[m]) /\ i < k
      BY <1>6, <2>1, <3>1
    <3>3. i \in Nat /\ k \in Nat /\ j \in Nat
      BY <1>1
    <3>4. i < j
      BY <3>1, <3>2, <3>3
    <3>5. i \in D /\ CacheKey(ds[i]) = CacheKey(new[m])
      BY <1>1, <1>5, <3>2
    <3> QED  BY <3>4, <3>5
  <2> QED  BY <1>4, <2>1 DEF InOrder, D
<1> QED  BY <1>4, <1>7, <1>8, <1>9 DEF Summary, new, ds

\* A command with a new key goes last.
LEMMA InsertKeeps ==
    ASSUME NEW cs \in Seq(Command), NEW c \in Command, NEW map \in Seq(Command),
           Summary(cs, map), cacheable(c), c.name # InCm,
           ~ \E n \in DOMAIN map : CacheKey(map[n]) = CacheKey(c)
    PROVE  /\ upsert(map, c) \in Seq(Command)
           /\ Summary(Append(cs, c), upsert(map, c))
<1> DEFINE ds == Append(cs, c)
           N == Len(cs) + 1
           C == CachedIn(cs)
           D == CachedIn(ds)
           L == Len(map)
           M == L + 1
           new == upsert(map, c)
<1>1. /\ N \in Nat /\ ds[N] = c /\ D = C \cup {N}
      /\ \A i \in C : i \in Nat /\ i < N /\ ds[i] = cs[i]
  <2>1. \A i \in 1..Len(cs) : i \in Nat
    OBVIOUS
  <2> QED  BY <2>1, HistoryGrows
<1>2. L \in Nat /\ DOMAIN map = 1..L
  BY LenProperties
<1>3. new = Append(map, c)
  BY DEF upsert
<1> HIDE DEF new
<1>4. /\ new \in Seq(Command) /\ Len(new) = M /\ new[M] = c
      /\ \A n \in 1..L : new[n] = map[n]
  BY <1>3, AppendProperties
<1> HIDE DEF L
<1>5. /\ DOMAIN new = 1..M /\ M \in 1..M
      /\ \A n \in 1..M : n = M \/ n \in 1..L
      /\ \A n \in 1..L : n \in 1..M /\ n < M
  <2>1. DOMAIN new = 1..M
    BY <1>4, LenProperties
  <2> HIDE DEF new
  <2>2. /\ M \in 1..M
        /\ \A n \in 1..M : n = M \/ n \in 1..L
        /\ \A n \in 1..L : n \in 1..M /\ n < M
    <3>1. L \in Nat /\ M = L + 1
      BY <1>2
    <3> HIDE DEF M
    <3> QED  BY <3>1
  <2> QED  BY <2>1, <2>2
<1> HIDE DEF ds, N, C, D, M
<1>6. /\ \A n \in 1..L : \E i \in C : map[n] = cs[i] /\ IsLatest(cs, i)
      /\ \A i \in C : \E n \in 1..L : CacheKey(map[n]) = CacheKey(cs[i])
      /\ \A m, n \in 1..L : m < n =>
            \A j \in C : CacheKey(cs[j]) = CacheKey(map[n]) =>
               \E i \in C : CacheKey(cs[i]) = CacheKey(map[m]) /\ i < j
  <2>1. \A n \in 1..L : \E i \in C : map[n] = cs[i] /\ IsLatest(cs, i)
    BY <1>2 DEF Summary, EachIsLatest, C
  <2>2. \A i \in C : \E n \in 1..L : CacheKey(map[n]) = CacheKey(cs[i])
    BY <1>2 DEF Summary, EachHasEntry, C
  <2>3. \A m, n \in 1..L : m < n =>
           \A j \in C : CacheKey(cs[j]) = CacheKey(map[n]) =>
              \E i \in C : CacheKey(cs[i]) = CacheKey(map[m]) /\ i < j
    BY <1>2 DEF Summary, InOrder, C
  <2> QED  BY <2>1, <2>2, <2>3
<1>7. \A i \in C : CacheKey(cs[i]) # CacheKey(c)
  BY <1>2, <1>6
<1>8. EachIsLatest(ds, new)
  <2>1. ASSUME NEW n \in 1..M
        PROVE  \E i \in D : new[n] = ds[i] /\ IsLatest(ds, i)
    <3>1. CASE n = M
      <4>1. \A j \in D : j <= N
        BY <1>1
      <4>2. IsLatest(ds, N)
        BY <4>1 DEF IsLatest, D
      <4> QED  BY <1>1, <1>4, <3>1, <4>2
    <3>2. CASE n \in 1..L
      <4>1. PICK i \in C : map[n] = cs[i] /\ IsLatest(cs, i)
        BY <1>6, <3>2
      <4>2. i \in D /\ ds[i] = cs[i] /\ new[n] = ds[i]
        BY <1>1, <1>4, <3>2, <4>1
      <4>3. IsLatest(ds, i)
        <5>1. ASSUME NEW j \in D, CacheKey(ds[j]) = CacheKey(ds[i])
              PROVE  j <= i
          <6>1. j # N
            BY <1>1, <1>7, <4>2, <5>1
          <6>2. j \in C /\ ds[j] = cs[j]
            BY <1>1, <6>1
          <6> QED  BY <4>1, <4>2, <5>1, <6>2 DEF IsLatest, C
        <5> QED  BY <5>1 DEF IsLatest, D
      <4> QED  BY <4>2, <4>3
    <3> QED  BY <1>5, <3>1, <3>2
  <2> QED  BY <1>5, <2>1 DEF EachIsLatest, D
<1>9. EachHasEntry(ds, new)
  <2>1. ASSUME NEW i \in D
        PROVE  \E n \in 1..M : CacheKey(new[n]) = CacheKey(ds[i])
    <3>1. CASE i = N
      BY <1>1, <1>4, <1>5, <3>1
    <3>2. CASE i # N
      <4>1. i \in C /\ ds[i] = cs[i]
        BY <1>1, <3>2
      <4>2. PICK n \in 1..L : CacheKey(map[n]) = CacheKey(cs[i])
        BY <1>6, <4>1
      <4> QED  BY <1>4, <1>5, <4>1, <4>2
    <3> QED  BY <3>1, <3>2
  <2> QED  BY <1>5, <2>1 DEF EachHasEntry, D
<1>10. InOrder(ds, new)
  <2>1. ASSUME NEW m \in 1..M, NEW n \in 1..M, m < n, NEW j \in D,
               CacheKey(ds[j]) = CacheKey(new[n])
        PROVE  \E i \in D : CacheKey(ds[i]) = CacheKey(new[m]) /\ i < j
    <3>0. m \in 1..L /\ new[m] = map[m]
      <4>1. m # M
        <5>1. M \in Nat
          BY <1>2 DEF M
        <5> QED  BY <2>1, <5>1
      <4> QED  BY <1>4, <1>5, <4>1
    <3>1. CASE n = M
      <4>1. j = N
        <5>1. new[n] = c
          BY <1>4, <3>1
        <5> QED  BY <1>1, <1>7, <2>1, <5>1
      <4>2. PICK i \in C : map[m] = cs[i]
        BY <1>6, <3>0
      <4> QED  BY <1>1, <3>0, <4>1, <4>2
    <3>2. CASE n \in 1..L
      <4>1. new[n] = map[n]
        BY <1>4, <3>2
      <4>2. CacheKey(map[n]) # CacheKey(c)
        BY <1>2, <3>2
      <4>3. j \in C /\ ds[j] = cs[j]
        BY <1>1, <2>1, <4>1, <4>2
      <4>4. PICK i \in C : CacheKey(cs[i]) = CacheKey(map[m]) /\ i < j
        BY <1>6, <2>1, <3>0, <3>2, <4>1, <4>3
      <4> QED  BY <1>1, <3>0, <4>4
    <3> QED  BY <1>5, <3>1, <3>2
  <2> QED  BY <1>5, <2>1 DEF InOrder, D
<1> QED  BY <1>4, <1>8, <1>9, <1>10 DEF Summary, new, ds

\* One round of ingest_payload.
LEMMA IngestKeeps ==
    ASSUME NEW g \in [map : Seq(Command), ready : BOOLEAN], NEW c \in Command,
           NEW cs \in Seq(Command), Summary(cs, g.map)
    PROVE  /\ ingest_command(g, c) \in [map : Seq(Command), ready : BOOLEAN]
           /\ Summary(Append(cs, c), ingest_command(g, c).map)
<1> DEFINE h == ingest_command(g, c)
<1>1. g.map \in Seq(Command) /\ g = [map |-> g.map, ready |-> g.ready]
      /\ g.ready \in BOOLEAN
  OBVIOUS
<1>2. CASE ~ (cacheable(c) /\ c.name # InCm)
  <2>1. h = g \/ h = [g EXCEPT !.ready = TRUE]
    BY <1>2 DEF ingest_command
  <2> HIDE DEF h
  <2>2. h \in [map : Seq(Command), ready : BOOLEAN] /\ h.map = g.map
    BY <1>1, <2>1
  <2>3. Summary(Append(cs, c), g.map)
    BY <1>1, <1>2, SkipKeeps
  <2> QED  BY <2>2, <2>3 DEF h
<1>3. CASE cacheable(c) /\ c.name # InCm
  <2> DEFINE new == upsert(g.map, c)
  <2>1. h = [g EXCEPT !.map = new]
    BY <1>3 DEF ingest_command
  <2>2. new \in Seq(Command) /\ Summary(Append(cs, c), new)
    BY <1>1, <1>3, ReplaceKeeps, InsertKeeps
  <2> HIDE DEF h, new
  <2>3. h \in [map : Seq(Command), ready : BOOLEAN] /\ h.map = new
    BY <1>1, <2>1, <2>2
  <2> QED  BY <2>2, <2>3 DEF h
<1> QED  BY <1>2, <1>3

(***************************************************************************)
(* The invariant: the cache holds a summary of the commands so far.        *)
(***************************************************************************)
CacheInv ==
    /\ cmds \in Seq(Command)
    /\ cache \in [map : Seq(Command), ready : BOOLEAN]
    /\ Summary(cmds, cache.map)

\* Every command keeps it.
LEMMA Caching == Spec => []CacheInv
<1>1. Init => CacheInv
  <2> SUFFICES ASSUME Init  PROVE CacheInv
    OBVIOUS
  <2>1. cmds = <<>> /\ cache = [map |-> <<>>, ready |-> FALSE]
    BY DEF Init, cache_new
  <2>2. <<>> \in Seq(Command)
    BY EmptySeq
  <2>3. Summary(<<>>, <<>>)
    <3>1. DOMAIN <<>> = {}
      OBVIOUS
    <3> QED
      BY <3>1 DEF Summary, EachIsLatest, EachHasEntry, InOrder, CachedIn
  <2> QED  BY <2>1, <2>2, <2>3 DEF CacheInv
<1>2. CacheInv /\ [Next]_vars => CacheInv'
  <2> SUFFICES ASSUME CacheInv, [Next]_vars  PROVE CacheInv'
    OBVIOUS
  <2>1. CASE AddCommand
    <3>1. PICK c \in Command :
             cmds' = Append(cmds, c) /\ cache' = ingest_command(cache, c)
      BY <2>1 DEF AddCommand
    <3>2. /\ cmds \in Seq(Command) /\ Summary(cmds, cache.map)
          /\ cache \in [map : Seq(Command), ready : BOOLEAN]
      BY DEF CacheInv
    <3>3. /\ ingest_command(cache, c) \in [map : Seq(Command), ready : BOOLEAN]
          /\ Summary(Append(cmds, c), ingest_command(cache, c).map)
      BY <3>2, IngestKeeps
    <3>4. Append(cmds, c) \in Seq(Command)
      BY <3>2, AppendProperties
    <3> QED  BY <3>1, <3>3, <3>4 DEF CacheInv
  <2>2. CASE UNCHANGED <<cmds, cache>>
    BY <2>2 DEF CacheInv
  <2> QED  BY <2>1, <2>2 DEF Next, AddCell, Configure, vars
<1> QED  BY <1>1, <1>2, PTL DEF Spec

\* The dump is the entries and the synthetic InCm.
LEMMA DumpCells ==
    ASSUME NEW g, g.map \in Seq(Command)
    PROVE  LET d == cache_dump(g)
               L == Len(g.map)
           IN  /\ L \in Nat /\ DOMAIN g.map = 1..L
               /\ Len(d) = L + 1 /\ DOMAIN d = 1..L + 1
               /\ d[L + 1] = synthetic_init_complete
               /\ \A n \in 1..L : d[n] = g.map[n] /\ g.map[n] \in Command
<1> DEFINE map == g.map
           d == cache_dump(g)
           L == Len(map)
           T == Command \cup {synthetic_init_complete}
<1>1. /\ L \in Nat /\ DOMAIN map = 1..L
      /\ \A n \in 1..L : map[n] \in Command
  BY LenProperties, ElementOfSeq
<1>2. map \in Seq(T) /\ synthetic_init_complete \in T
  <2>1. \A n \in 1..L : map[n] \in T
    BY <1>1
  <2>2. map = [n \in 1..L |-> map[n]]
    BY <1>1, LenProperties
  <2> HIDE DEF L, map, T
  <2>3. map \in [1..L -> T]
    BY <2>1, <2>2
  <2>4. map \in Seq(T)
    BY <1>1, <2>3
  <2> QED  BY <2>4 DEF T
<1> HIDE DEF T
<1>3. /\ d \in Seq(T) /\ Len(d) = L + 1 /\ d[L + 1] = synthetic_init_complete
      /\ \A n \in 1..L : d[n] = map[n]
  BY <1>2, AppendProperties DEF cache_dump
<1> HIDE DEF d, L, map
<1>4. DOMAIN d = 1..L + 1
  BY <1>3, LenProperties
<1> QED  BY <1>1, <1>3, <1>4 DEF d, L, map

(***************************************************************************)
(* After any history, of any length, the dump a client gets has one        *)
(* command per key, the latest one, in the order the keys were first seen, *)
(* with InCm at the end (cache.rs).                                        *)
(***************************************************************************)
THEOREM DumpIsLatest == Spec => []LatestPerKey
<1>1. CacheInv => LatestPerKey
  <2> SUFFICES ASSUME CacheInv  PROVE LatestPerKey
    OBVIOUS
  <2> DEFINE d == cache_dump(cache)
             map == cache.map
             L == Len(map)
             Entry == 1 .. Len(d) - 1
             key(n) == CacheKey(d[n])
  <2>1. cmds \in Seq(Command) /\ map \in Seq(Command) /\ Summary(cmds, map)
    BY DEF CacheInv
  <2>2. L \in Nat /\ DOMAIN map = 1..L /\ Cached = CachedIn(cmds)
    BY <2>1, LenProperties DEF Cached, CachedIn
  <2>3. Cached \subseteq Nat
    <3>1. DOMAIN cmds = 1..Len(cmds) /\ Len(cmds) \in Nat
      BY <2>1, LenProperties
    <3> QED  BY <3>1 DEF Cached
  <2>4. /\ Len(d) = L + 1 /\ d[L + 1] = synthetic_init_complete
        /\ \A n \in 1..L : d[n] = map[n]
    BY <2>1, DumpCells
  <2> HIDE DEF d, map, L
  <2>5. Len(d) - 1 = L /\ Entry = 1..L
    BY <2>2, <2>4
  <2>6. /\ \A n \in 1..L : \E i \in Cached : map[n] = cmds[i] /\ IsLatest(cmds, i)
        /\ \A i \in Cached : \E n \in 1..L : CacheKey(map[n]) = CacheKey(cmds[i])
        /\ \A m, n \in 1..L : m < n =>
              \A j \in Cached : CacheKey(cmds[j]) = CacheKey(map[n]) =>
                 \E i \in Cached : CacheKey(cmds[i]) = CacheKey(map[m]) /\ i < j
    BY <2>1, <2>2 DEF Summary, EachIsLatest, EachHasEntry, InOrder
  <2>7. d[Len(d)] = synthetic_init_complete
    BY <2>4
  <2>8. {key(n) : n \in Entry} = {CacheKey(cmds[i]) : i \in Cached}
    <3>1. ASSUME NEW n \in Entry
          PROVE  \E i \in Cached : key(n) = CacheKey(cmds[i])
      BY <2>4, <2>5, <2>6
    <3>2. ASSUME NEW i \in Cached
          PROVE  \E n \in Entry : key(n) = CacheKey(cmds[i])
      BY <2>4, <2>5, <2>6
    <3> HIDE DEF Entry, key
    <3> QED  BY <3>1, <3>2
  <2>9. ASSUME NEW n \in Entry
        PROVE  d[n] = cmds[Max(SeenAt(key(n)))]
    <3>1. PICK i \in Cached : map[n] = cmds[i] /\ IsLatest(cmds, i)
      BY <2>5, <2>6
    <3>2. d[n] = cmds[i]
      BY <2>4, <2>5, <3>1
    <3> DEFINE S == SeenAt(key(n))
    <3>3. S \in SUBSET Nat /\ i \in S
      BY <2>3, <3>1, <3>2 DEF SeenAt
    <3>4. \A k \in S : k <= i
      BY <2>2, <3>1, <3>2 DEF SeenAt, IsLatest
    <3> HIDE DEF S
    <3>5. Max(S) = i
      BY <3>3, <3>4, MaxIs
    <3> QED  BY <3>2, <3>5 DEF S
  <2>10. ASSUME NEW m \in Entry, NEW n \in Entry, m < n
         PROVE  Min(SeenAt(key(m))) < Min(SeenAt(key(n)))
    <3> DEFINE S == SeenAt(key(m))
               T == SeenAt(key(n))
    <3>1. S \in SUBSET Nat /\ T \in SUBSET Nat
      BY <2>3 DEF SeenAt
    <3>2. S # {} /\ T # {}
      <4>1. ASSUME NEW k \in Entry  PROVE SeenAt(key(k)) # {}
        <5>1. PICK i \in Cached : map[k] = cmds[i]
          BY <2>5, <2>6
        <5>2. i \in SeenAt(key(k))
          BY <2>4, <2>5, <5>1 DEF SeenAt
        <5> QED  BY <5>2
      <4> QED  BY <4>1
    <3>3. \A j \in T : \E i \in S : i < j
      <4> TAKE j \in T
      <4>1. j \in Cached /\ CacheKey(cmds[j]) = CacheKey(map[n])
        BY <2>4, <2>5 DEF SeenAt
      <4>2. PICK i \in Cached : CacheKey(cmds[i]) = CacheKey(map[m]) /\ i < j
        BY <2>5, <2>6, <2>10, <4>1
      <4>3. i \in S
        BY <2>4, <2>5, <4>2 DEF SeenAt
      <4> QED  BY <4>2, <4>3
    <3> HIDE DEF S, T
    <3>4. PICK a \in S : \A k \in S : a <= k
      BY <3>1, <3>2, Least
    <3>5. PICK b \in T : \A k \in T : b <= k
      BY <3>1, <3>2, Least
    <3>6. Min(S) = a /\ Min(T) = b
      BY <3>1, <3>4, <3>5, MinIs
    <3>7. PICK i \in S : i < b
      BY <3>3, <3>5
    <3>8. a \in Nat /\ b \in Nat /\ i \in Nat /\ a <= i
      BY <3>1, <3>4, <3>5, <3>7
    <3>9. a < b
      BY <3>7, <3>8
    <3> QED  BY <3>6, <3>9 DEF S, T
  <2> QED
    BY <2>7, <2>8, <2>9, <2>10, Zenon DEF LatestPerKey, d
<1> QED  BY <1>1, Caching, PTL

\* A command is about index i of a name.
About(c, name, i) == c.name = name /\ Len(c.body) >= 2 /\ c.body[1] = i

\* A name coalesced by its first byte is known by its index.
LEMMA IdentityIsIndex ==
    ASSUME NEW c \in Command, c.name \in FirstByte
    PROVE  /\ c.body = <<>> => CacheKey(c) = <<c.name, <<>>>>
           /\ c.body # <<>> => /\ CacheKey(c) = <<c.name, <<c.body[1]>>>>
                               /\ Len(c.body) >= 2
<1> DEFINE b == c.body
<1>1. b \in Seq(Nat) /\ Len(b) \in Nat
  BY CommandType, LenProperties DEF Parsed
<1>2. CacheKey(c) = <<c.name, SubSeq(b, 1, Min({1, Len(b)}))>>
  <2>1. c.name \notin FourBytes
    BY CacheAssumption
  <2>2. command_identity(c) = SubSeq(b, 1, Min({1, Len(b)}))
    BY <2>1 DEF command_identity
  <2> QED  BY <2>2 DEF CacheKey
<1>3. b = <<>> \/ Len(b) >= 2
  <2>1. c.name # InCm
    BY CacheAssumption
  <2>2. CASE c \in [name : Name, body : {<<i, d>> : i \in Index, d \in Datum}]
    <3>1. PICK i \in Index, d \in Datum : b = <<i, d>>
      BY <2>2
    <3> QED  BY <3>1
  <2>3. CASE c = [name |-> InCm, body |-> <<1>>]
    BY <2>1, <2>3
  <2>4. CASE \E n \in Name : c = [name |-> n, body |-> <<>>]
    BY <2>4
  <2>5. CASE \E n \in Name : c = [name |-> n, body |-> [i \in 1..LongBody |-> 0]]
    <3> DEFINE z == [i \in 1..LongBody |-> 0]
    <3>1. LongBody \in Nat /\ LongBody >= 2
      BY AlgorithmsAssumption
    <3>2. z \in Seq(Nat) /\ Len(z) = LongBody
      BY <3>1
    <3>3. b = z
      BY <2>5
    <3> HIDE DEF z, b
    <3> QED  BY <3>1, <3>2, <3>3
  <2> QED  BY <2>2, <2>3, <2>4, <2>5 DEF Command
<1> HIDE DEF b
<1>4. CASE b = <<>>
  <2>1. Len(b) = 0
    BY <1>4
  <2>2. Min({1, 0}) = 0
    <3>1. {1, 0} \in SUBSET Nat /\ 0 \in {1, 0} /\ \A k \in {1, 0} : 0 <= k
      OBVIOUS
    <3> DEFINE S == {1, 0}
    <3> HIDE DEF S
    <3>2. S \in SUBSET Nat /\ 0 \in S /\ \A k \in S : 0 <= k
      BY <3>1 DEF S
    <3>3. Min(S) = 0
      BY <3>2, MinIs
    <3> QED  BY <3>3 DEF S
  <2>3. SubSeq(b, 1, 0) = <<>>
    BY <1>1, SubSeqEmpty
  <2>4. CacheKey(c) = <<c.name, <<>>>>
    BY <1>2, <2>1, <2>2, <2>3
  <2> QED  BY <1>4, <2>4 DEF b
<1>5. CASE b # <<>>
  <2>1. Len(b) >= 2
    BY <1>3, <1>5
  <2>2. Min({1, Len(b)}) = 1
    <3> DEFINE S == {1, Len(b)}
    <3>1. S \in SUBSET Nat /\ 1 \in S /\ \A k \in S : 1 <= k
      BY <1>1, <2>1
    <3> HIDE DEF S
    <3>2. Min(S) = 1
      BY <3>1, MinIs
    <3> QED  BY <3>2 DEF S
  <2>3. SubSeq(b, 1, 1) = <<b[1]>>
    <3>1. 1 \in 1..Len(b)
      BY <1>1, <2>1
    <3>2. b[1] \in Nat
      BY <1>1, <3>1, ElementOfSeq
    <3> DEFINE s == SubSeq(b, 1, 1)
               t == <<b[1]>>
    <3>3. s \in Seq(Nat) /\ Len(s) = 1 /\ s[1] = b[1]
      <4>1. \A i \in 1..1 : b[i] \in Nat
        BY <3>2
      <4>2. /\ s \in Seq(Nat)
            /\ Len(s) = IF 1 <= 1 THEN 1 - 1 + 1 ELSE 0
            /\ \A i \in 1..1 - 1 + 1 : s[i] = b[1 + i - 1]
        BY <4>1, SubSeqProperties
      <4> HIDE DEF s
      <4>3. 1 \in 1..1 - 1 + 1 /\ 1 + 1 - 1 = 1
        OBVIOUS
      <4>4. s[1] = b[1 + 1 - 1]
        BY <4>2, <4>3
      <4> QED  BY <4>2, <4>3, <4>4
    <3>4. t \in Seq(Nat) /\ Len(t) = 1 /\ t[1] = b[1]
      BY <3>2
    <3> HIDE DEF s, t
    <3>5. \A i \in 1..Len(s) : s[i] = t[i]
      BY <3>3, <3>4
    <3>6. s = t
      BY <3>3, <3>4, <3>5, SeqEqual
    <3> QED  BY <3>6 DEF s, t
  <2>4. CacheKey(c) = <<c.name, <<b[1]>>>>
    BY <1>2, <2>2, <2>3
  <2> QED  BY <1>5, <2>1, <2>4 DEF b
<1> QED  BY <1>4, <1>5

\* Commands with the same key are about the same.
LEMMA SameKeySameIndex ==
    ASSUME NEW c \in Command, NEW e \in Command, NEW name \in FirstByte, NEW i,
           About(c, name, i)
    PROVE  CacheKey(e) = CacheKey(c) <=> About(e, name, i)
<1>1. c.name = name /\ c.body # <<>> /\ CacheKey(c) = <<name, <<i>>>>
  <2>1. c.body # <<>>
    BY DEF About
  <2> QED  BY <2>1, IdentityIsIndex DEF About
<1>2. ASSUME CacheKey(e) = CacheKey(c)  PROVE About(e, name, i)
  <2>1. CacheKey(e) = <<name, <<i>>>>
    BY <1>1, <1>2
  <2>2. e.name = name
    BY <2>1 DEF CacheKey
  <2>3. e.body # <<>>
    <3>1. <<name, <<i>>>> # <<name, <<>>>>
      OBVIOUS
    <3> QED  BY <2>1, <2>2, <3>1, IdentityIsIndex
  <2>4. Len(e.body) >= 2 /\ CacheKey(e) = <<name, <<e.body[1]>>>>
    BY <2>2, <2>3, IdentityIsIndex
  <2>5. e.body[1] = i
    BY <2>1, <2>4
  <2> QED  BY <2>2, <2>4, <2>5 DEF About
<1>3. ASSUME About(e, name, i)  PROVE CacheKey(e) = CacheKey(c)
  <2>1. e.name = name /\ e.body # <<>> /\ e.body[1] = i
    BY <1>3 DEF About
  <2>2. CacheKey(e) = <<name, <<i>>>>
    BY <2>1, IdentityIsIndex
  <2> QED  BY <1>1, <2>2
<1>4. (CacheKey(e) = CacheKey(c)) \in BOOLEAN /\ About(e, name, i) \in BOOLEAN
  BY DEF About
<1> QED  BY <1>2, <1>3, <1>4

(***************************************************************************)
(* For the names that are coalesced by their first byte a client that      *)
(* replays the dump ends up with the same value for every index as one     *)
(* that saw the whole history, of any length.                              *)
(***************************************************************************)
THEOREM DumpReplaysIndexed == Spec => []IndexedStateReplays
<1>1. CacheInv => IndexedStateReplays
  <2> SUFFICES ASSUME CacheInv, NEW name \in FirstByte, NEW idx \in Index
               PROVE  LastOf(cache_dump(cache), name, idx) = LastOf(cmds, name, idx)
    BY DEF IndexedStateReplays, Replays
  <2> DEFINE map == cache.map
             d == cache_dump(cache)
             L == Len(map)
             C == CachedIn(cmds)
             At(s) == {i \in DOMAIN s : /\ s[i].name = name
                                        /\ Len(s[i].body) >= 2
                                        /\ s[i].body[1] = idx}
             A == At(cmds)
             B == At(d)
  <2>1. cmds \in Seq(Command) /\ map \in Seq(Command) /\ Summary(cmds, map)
    BY DEF CacheInv
  <2>2. /\ L \in Nat /\ DOMAIN map = 1..L
        /\ Len(cmds) \in Nat /\ DOMAIN cmds = 1..Len(cmds)
        /\ \A n \in 1..L : map[n] \in Command
        /\ \A n \in DOMAIN cmds : cmds[n] \in Command
    BY <2>1, LenProperties, ElementOfSeq
  <2>3. /\ DOMAIN d = 1..L + 1 /\ d[L + 1] = synthetic_init_complete
        /\ \A n \in 1..L : d[n] = map[n]
    BY <2>1, DumpCells
  <2>4. name # InCm /\ name \notin NotCached
    BY CacheAssumption
  <2>5. synthetic_init_complete.name = InCm
    BY DEF synthetic_init_complete
  <2> HIDE DEF d, map, L, C
  <2>6. /\ \A n \in 1..L : \E i \in C : map[n] = cmds[i] /\ IsLatest(cmds, i)
        /\ \A i \in C : \E n \in 1..L : CacheKey(map[n]) = CacheKey(cmds[i])
    BY <2>1, <2>2 DEF Summary, EachIsLatest, EachHasEntry, C
  <2>7. \A j \in A : j \in C /\ About(cmds[j], name, idx) /\ cmds[j] \in Command
    BY <2>2, <2>4 DEF CachedIn, cacheable, About, C
  <2>8. \A i \in C : i \in DOMAIN cmds
    BY DEF CachedIn, C
  <2>9. ASSUME NEW k \in B
        PROVE  k \in 1..L /\ \E j \in A : d[k] = cmds[j] /\ Max(A) = j
    <3>1. k \in 1..L
      <4>1. k # L + 1
        BY <2>3, <2>4, <2>5
      <4>2. k \in 1..L + 1
        BY <2>3
      <4> QED  BY <2>2, <4>1, <4>2
    <3>2. PICK j \in C : map[k] = cmds[j] /\ IsLatest(cmds, j)
      BY <2>6, <3>1
    <3>3. d[k] = cmds[j]
      BY <2>3, <3>1, <3>2
    <3>4. j \in A
      BY <2>8, <3>3
    <3>5. \A i \in A : CacheKey(cmds[i]) = CacheKey(cmds[j])
      <4> HIDE DEF A
      <4> QED  BY <2>7, <3>4, SameKeySameIndex
    <3>6. A \in SUBSET Nat
      BY <2>2
    <3> HIDE DEF A
    <3>7. \A i \in A : i <= j
      BY <2>7, <3>2, <3>5 DEF IsLatest, C
    <3>8. Max(A) = j
      BY <3>4, <3>6, <3>7, MaxIs
    <3> QED  BY <3>1, <3>3, <3>4, <3>8
  <2>10. ASSUME NEW j \in A  PROVE B # {}
    <3>1. j \in C /\ About(cmds[j], name, idx) /\ cmds[j] \in Command
      BY <2>7
    <3>2. PICK n \in 1..L : CacheKey(map[n]) = CacheKey(cmds[j])
      BY <2>6, <3>1
    <3>3. map[n] \in Command
      BY <2>2
    <3>4. About(map[n], name, idx)
      BY <3>1, <3>2, <3>3, SameKeySameIndex
    <3>5. d[n] = map[n] /\ n \in DOMAIN d
      BY <2>2, <2>3
    <3>6. n \in B
      BY <3>4, <3>5 DEF About
    <3> QED  BY <3>6
  <2>11. LastOf(d, name, idx) = IF B = {} THEN <<>> ELSE <<d[Max(B)].body[2]>>
    BY DEF LastOf
  <2>12. LastOf(cmds, name, idx)
           = IF A = {} THEN <<>> ELSE <<cmds[Max(A)].body[2]>>
    BY DEF LastOf
  <2>13. B \in SUBSET (0..L)
    <3>1. \A k \in B : k \in 0..L
      BY <2>2, <2>9
    <3> HIDE DEF B
    <3> QED  BY <3>1
  <2> HIDE DEF A, B
  <2>14. CASE B = {}
    <3>1. A = {}
      BY <2>10, <2>14
    <3> QED  BY <2>11, <2>12, <2>14, <3>1 DEF d
  <2>15. CASE B # {}
    <3>1. Max(B) \in B
      BY <2>2, <2>13, <2>15, Greatest
    <3>2. PICK j \in A : d[Max(B)] = cmds[j] /\ Max(A) = j
      BY <2>9, <3>1
    <3> QED  BY <2>11, <2>12, <2>15, <3>2 DEF d
  <2> QED  BY <2>14, <2>15
<1> QED  BY <1>1, Caching, PTL
=============================================================================
