---------------------------- MODULE BrokerProofs ----------------------------
(***************************************************************************)
(* Proofs about the lock broker in SoftAtem, for every order of requests,  *)
(* status messages, timeouts, re-joins and lost upstream sessions.  What   *)
(* becomes of a store is decided by the lock commands and statuses under   *)
(* way, in the order in which they take effect.  Two things matter about   *)
(* them: whether there is one of a certain kind (Has), and whether each    *)
(* one of a kind is followed by one of another kind (Covered).             *)
(***************************************************************************)
EXTENDS SoftAtemProofs, SequenceTheorems

-----------------------------------------------------------------------------
(* Sequences: does one have an element of P; is each element of P followed *)
(* by an element of Q?                                                     *)

Has(q, P) == \E i \in 1..Len(q) : q[i] \in P

Covered(P, Q, q) ==
    \A i \in 1..Len(q) : q[i] \in P => \E j \in i+1..Len(q) : q[j] \in Q

\* The two shortest sequences.
LEMMA HasShort ==
    /\ \A P : ~ Has(<<>>, P)
    /\ \A x, P : Has(<<x>>, P) <=> x \in P
    /\ \A P, Q : Covered(P, Q, <<>>)
<1>1. Len(<<>>) = 0 /\ 1..0 = {}
  OBVIOUS
<1>2. ASSUME NEW x, NEW P  PROVE Has(<<x>>, P) <=> x \in P
  <2>1. Len(<<x>>) = 1 /\ <<x>>[1] = x /\ 1..1 = {1}
    OBVIOUS
  <2> QED  BY <2>1 DEF Has
<1>3. ASSUME NEW P  PROVE ~ Has(<<>>, P)
  BY <1>1 DEF Has
<1>4. ASSUME NEW P, NEW Q  PROVE Covered(P, Q, <<>>)
  BY <1>1 DEF Covered
<1> QED  BY <1>2, <1>3, <1>4

\* Appending adds one element.
LEMMA HasAppend ==
    ASSUME NEW S, NEW q \in Seq(S), NEW m \in S, NEW P
    PROVE  Has(Append(q, m), P) <=> Has(q, P) \/ m \in P
<1> DEFINE r == Append(q, m)
           n == Len(q)
<1>1. /\ Len(r) = n + 1 /\ n \in Nat /\ r[n + 1] = m
      /\ \A i \in 1..n : r[i] = q[i]
  BY AppendProperties, LenProperties
<1> HIDE DEF r, n
<1>2. /\ n + 1 \in 1..Len(r) /\ \A i \in 1..n : i \in 1..Len(r)
      /\ \A i \in 1..Len(r) : i \in 1..n \/ i = n + 1
  BY <1>1
<1>3. Has(r, P) <=> Has(q, P) \/ m \in P
  BY <1>1, <1>2 DEF Has, n
<1> QED  BY <1>3 DEF r

\* A sequence is its head and its tail.
LEMMA HasHeadTail ==
    ASSUME NEW S, NEW q \in Seq(S), q # <<>>, NEW P
    PROVE  Has(q, P) <=> Head(q) \in P \/ Has(Tail(q), P)
<1> DEFINE t == Tail(q)
           n == Len(q)
<1>1. /\ n \in Nat /\ n > 0 /\ Len(t) = n - 1 /\ Head(q) = q[1]
      /\ \A i \in 1..Len(t) : t[i] = q[i + 1]
  BY HeadTailProperties, LenProperties, EmptySeq
<1> HIDE DEF t, n
<1>2. 1 \in 1..n /\ \A i \in 1..Len(t) : i + 1 \in 1..n
  BY <1>1
<1>3. \A i \in 1..n : i # 1 => i - 1 \in 1..Len(t) /\ t[i - 1] = q[i]
  <2> SUFFICES ASSUME NEW i \in 1..n, i # 1
               PROVE  i - 1 \in 1..Len(t) /\ t[i - 1] = q[i]
    OBVIOUS
  <2>1. i - 1 \in 1..Len(t) /\ (i - 1) + 1 = i
    BY <1>1
  <2> QED  BY <1>1, <2>1
<1>4. Has(q, P) => q[1] \in P \/ Has(t, P)
  BY <1>3 DEF Has, n
<1>5. q[1] \in P \/ Has(t, P) => Has(q, P)
  <2>1. q[1] \in P => Has(q, P)
    BY <1>2 DEF Has, n
  <2>2. Has(t, P) => Has(q, P)
    BY <1>1, <1>2 DEF Has, n
  <2> QED  BY <2>1, <2>2
<1> QED  BY <1>1, <1>4, <1>5 DEF t

\* A concatenation has the elements of both parts.
LEMMA HasConcat ==
    ASSUME NEW S, NEW p \in Seq(S), NEW q \in Seq(S), NEW P
    PROVE  Has(p \o q, P) <=> Has(p, P) \/ Has(q, P)
<1> DEFINE r == p \o q
<1>1. /\ Len(r) = Len(p) + Len(q) /\ Len(p) \in Nat /\ Len(q) \in Nat
      /\ \A i \in 1..Len(p) : r[i] = p[i]
      /\ \A i \in 1..Len(q) : r[Len(p) + i] = q[i]
  BY ConcatProperties, LenProperties
<1> HIDE DEF r
<1>2. \A i \in 1..Len(r) :
         i \in 1..Len(p) \/ (i - Len(p) \in 1..Len(q) /\ i = Len(p) + (i - Len(p)))
  BY <1>1
<1>3. /\ \A i \in 1..Len(p) : i \in 1..Len(r)
      /\ \A i \in 1..Len(q) : Len(p) + i \in 1..Len(r)
  BY <1>1
<1>4. Has(r, P) => Has(p, P) \/ Has(q, P)
  <2> SUFFICES ASSUME NEW i \in 1..Len(r), r[i] \in P
               PROVE  Has(p, P) \/ Has(q, P)
    BY DEF Has
  <2>1. CASE i \in 1..Len(p)
    BY <1>1, <2>1 DEF Has
  <2>2. CASE i - Len(p) \in 1..Len(q) /\ i = Len(p) + (i - Len(p))
    <3> DEFINE k == i - Len(p)
    <3>1. k \in 1..Len(q) /\ i = Len(p) + k
      BY <2>2
    <3> HIDE DEF k
    <3>2. q[k] \in P
      BY <1>1, <3>1
    <3> QED  BY <3>1, <3>2 DEF Has
  <2> QED  BY <1>2, <2>1, <2>2
<1>5. Has(p, P) => Has(r, P)
  BY <1>1, <1>3 DEF Has
<1>6. Has(q, P) => Has(r, P)
  <2> SUFFICES ASSUME NEW i \in 1..Len(q), q[i] \in P  PROVE Has(r, P)
    BY DEF Has
  <2>1. Len(p) + i \in 1..Len(r) /\ r[Len(p) + i] \in P
    BY <1>1, <1>3
  <2> QED  BY <2>1 DEF Has
<1> QED  BY <1>4, <1>5, <1>6 DEF r

\* An element of Q at the end covers everything before it, and an element that
\* is not of P needs no cover.
LEMMA CoveredAppend ==
    ASSUME NEW S, NEW q \in Seq(S), NEW m \in S, NEW P, NEW Q, m \notin P,
           Covered(P, Q, q) \/ m \in Q
    PROVE  Covered(P, Q, Append(q, m))
<1> DEFINE r == Append(q, m)
           n == Len(q)
<1>1. /\ Len(r) = n + 1 /\ n \in Nat /\ r[n + 1] = m
      /\ \A i \in 1..n : r[i] = q[i]
  BY AppendProperties, LenProperties
<1> HIDE DEF r, n
<1>2. ASSUME NEW i \in 1..Len(r), r[i] \in P
      PROVE  \E j \in i+1..Len(r) : r[j] \in Q
  <2>1. i \in 1..n /\ q[i] \in P
    BY <1>1, <1>2
  <2>2. CASE m \in Q
    <3>1. n + 1 \in i+1..Len(r)
      BY <1>1, <2>1
    <3> QED  BY <1>1, <2>2, <3>1
  <2>3. CASE Covered(P, Q, q)
    <3>1. PICK j \in i+1..n : q[j] \in Q
      BY <2>1, <2>3 DEF Covered, n
    <3>2. j \in i+1..Len(r) /\ j \in 1..n
      BY <1>1, <2>1
    <3> QED  BY <1>1, <3>1, <3>2
  <2> QED  BY <2>2, <2>3
<1>3. Covered(P, Q, r)
  BY <1>2 DEF Covered
<1> QED  BY <1>3 DEF r

\* What covers the head is in the tail.
LEMMA CoveredTail ==
    ASSUME NEW S, NEW q \in Seq(S), q # <<>>, NEW P, NEW Q, Covered(P, Q, q)
    PROVE  /\ Covered(P, Q, Tail(q))
           /\ Head(q) \in P => Has(Tail(q), Q)
<1> DEFINE t == Tail(q)
           n == Len(q)
<1>1. /\ n \in Nat /\ n > 0 /\ Len(t) = n - 1 /\ Head(q) = q[1]
      /\ \A i \in 1..Len(t) : t[i] = q[i + 1]
  BY HeadTailProperties, LenProperties, EmptySeq
<1> HIDE DEF t, n
<1>2. \A i \in 1..n : i # 1 => i - 1 \in 1..Len(t) /\ t[i - 1] = q[i]
  <2> SUFFICES ASSUME NEW i \in 1..n, i # 1
               PROVE  i - 1 \in 1..Len(t) /\ t[i - 1] = q[i]
    OBVIOUS
  <2>1. i - 1 \in 1..Len(t) /\ (i - 1) + 1 = i
    BY <1>1
  <2> QED  BY <1>1, <2>1
<1>3. ASSUME q[1] \in P  PROVE Has(t, Q)
  <2>1. 1 \in 1..n
    BY <1>1
  <2>2. PICK j \in 1+1..n : q[j] \in Q
    BY <1>3, <2>1 DEF Covered, n
  <2>3. j \in 1..n /\ j # 1
    BY <1>1
  <2> QED  BY <1>2, <2>2, <2>3 DEF Has
<1>4. ASSUME NEW i \in 1..Len(t), t[i] \in P
      PROVE  \E j \in i+1..Len(t) : t[j] \in Q
  <2>1. i + 1 \in 1..n /\ q[i + 1] \in P
    BY <1>1, <1>4
  <2>2. PICK j \in (i+1)+1..n : q[j] \in Q
    BY <2>1 DEF Covered, n
  <2>3. j \in 1..n /\ j # 1 /\ j - 1 \in i+1..Len(t)
    BY <1>1
  <2> QED  BY <1>2, <2>2, <2>3
<1>5. Covered(P, Q, t)
  BY <1>4 DEF Covered
<1> QED  BY <1>1, <1>3, <1>5 DEF t

\* Where nothing can cover, nothing needs it.
LEMMA CoveredNone ==
    ASSUME NEW P, NEW Q, NEW q, Len(q) \in Nat, Covered(P, Q, q), ~ Has(q, Q)
    PROVE  ~ Has(q, P)
<1> SUFFICES ASSUME NEW i \in 1..Len(q), q[i] \in P  PROVE FALSE
  BY DEF Has
<1>1. PICK j \in i+1..Len(q) : q[j] \in Q
  BY DEF Covered
<1>2. j \in 1..Len(q)
  OBVIOUS
<1> QED  BY <1>1, <1>2 DEF Has

-----------------------------------------------------------------------------
(* The stream of commands from the channel to the switcher, oldest first.  *)

Stream == toSw \o chan

\* It is a sequence of commands and has those of its two parts.
LEMMA StreamHas ==
    ASSUME TypeOK
    PROVE  /\ Stream \in Seq(Command)
           /\ \A P : Has(Stream, P) <=> Has(toSw, P) \/ Has(chan, P)
<1>1. toSw \in Seq(Command) /\ chan \in Seq(Command)
  BY DEF TypeOK
<1> QED  BY <1>1, HasConcat DEF Stream

\* A command handed over by recv or tick is the last of the stream.
LEMMA StreamSend ==
    ASSUME TypeOK, NEW m \in Command, chan' = Append(chan, m), toSw' = toSw
    PROVE  Stream' = Append(Stream, m)
<1>1. chan \in Seq(Command) /\ toSw \in Seq(Command)
  BY DEF TypeOK
<1>2. \A p \in Seq(Command), q \in Seq(Command) :
         p \o Append(q, m) = Append(p \o q, m)
  OBVIOUS
<1> QED  BY <1>1, <1>2 DEF Stream

\* Forwarding the channel leaves the stream as it is.
LEMMA StreamForward ==
    ASSUME TypeOK, chan' = <<>>, toSw' = toSw \o chan
    PROVE  Stream' = Stream
<1>1. Stream \in Seq(Command)
  BY StreamHas
<1>2. \A p \in Seq(Command) : p \o <<>> = p
  OBVIOUS
<1> QED  BY <1>1, <1>2 DEF Stream

\* The switcher takes the first command of the stream.
LEMMA StreamSwitcher ==
    ASSUME TypeOK, toSw # <<>>, toSw' = Tail(toSw), chan' = chan
    PROVE  /\ Stream \in Seq(Command) /\ Stream # <<>>
           /\ Head(Stream) = Head(toSw) /\ Stream' = Tail(Stream)
<1>1. chan \in Seq(Command) /\ toSw \in Seq(Command)
  BY DEF TypeOK
<1>2. \A p \in Seq(Command), q \in Seq(Command) :
         p # <<>> => /\ p \o q \in Seq(Command) /\ p \o q # <<>>
                     /\ Head(p \o q) = Head(p)
                     /\ Tail(p \o q) = Tail(p) \o q
  <2> SUFFICES ASSUME NEW p \in Seq(Command), NEW q \in Seq(Command), p # <<>>
               PROVE  /\ p \o q \in Seq(Command) /\ p \o q # <<>>
                      /\ Head(p \o q) = Head(p)
                      /\ Tail(p \o q) = Tail(p) \o q
    OBVIOUS
  <2> QED  BY HeadTailProperties, ConcatProperties, LenProperties, EmptySeq
<1> QED  BY <1>1, <1>2 DEF Stream

-----------------------------------------------------------------------------
(* What is said about the lock on a store. *)

\* The commands about s; those that lock it for a client in X; those that
\* release it.
LockOf(s)    == {m \in Command : m.name = "LOCK" /\ m.store = s}
LockOn(s, X) == {m \in LockOf(s) : m.on /\ m.from \in X}
LockOff(s)   == {m \in LockOf(s) : ~ m.on}

\* The status messages that say s is locked, or unlocked.
Locked(s)   == {st \in Status : st.store = s /\ st.locked}
Unlocked(s) == {st \in Status : st.store = s /\ ~ st.locked}

\* A sequence of commands touches or releases a store if it has one of these.
LEMMA TouchesMeans ==
    ASSUME NEW q \in Seq(Command), NEW s
    PROVE  /\ Touches(q, s) <=> Has(q, LockOf(s))
           /\ Releases(q, s) <=> Has(q, LockOff(s))
<1>1. \A i \in 1..Len(q) : q[i] \in Command
  BY LenProperties
<1> QED  BY <1>1 DEF Touches, Releases, Has, LockOf, LockOff

\* The same of the model's words for what is under way.
LEMMA UnderWayMeans ==
    ASSUME TypeOK, NEW s
    PROVE  /\ Settled(s) => /\ ~ Has(recvOut, LockOf(s)) /\ ~ Has(tickOut, LockOf(s))
                            /\ ~ Has(Stream, LockOf(s))
                            /\ ~ Has(fromSw, Locked(s)) /\ ~ Has(fromSw, Unlocked(s))
           /\ UnlockUnderWay(s) <=> \/ Has(recvOut, LockOff(s))
                                    \/ Has(tickOut, LockOff(s))
                                    \/ Has(Stream, LockOff(s))
           /\ ReleaseUnderWay(s) <=> \/ UnlockUnderWay(s)
                                     \/ Has(fromSw, Unlocked(s))
<1>1. /\ recvOut \in Seq(Command) /\ tickOut \in Seq(Command)
      /\ toSw \in Seq(Command) /\ chan \in Seq(Command)
  BY DEF TypeOK
<1>2. \A q \in {recvOut, tickOut, chan, toSw} :
         /\ Touches(q, s) <=> Has(q, LockOf(s))
         /\ Releases(q, s) <=> Has(q, LockOff(s))
  BY <1>1, TouchesMeans
<1>3. /\ Has(Stream, LockOf(s)) <=> Has(toSw, LockOf(s)) \/ Has(chan, LockOf(s))
      /\ Has(Stream, LockOff(s)) <=> Has(toSw, LockOff(s)) \/ Has(chan, LockOff(s))
  BY StreamHas
<1>4. \A i \in 1..Len(fromSw) : fromSw[i] \in Status
  <2>1. fromSw \in Seq(Status)
    BY DEF TypeOK
  <2> QED  BY <2>1, LenProperties
<1>5. Settled(s) => /\ ~ Has(fromSw, Locked(s)) /\ ~ Has(fromSw, Unlocked(s))
  BY DEF Settled, Has, Locked, Unlocked
<1>6. (\E i \in 1..Len(fromSw) : fromSw[i].store = s /\ ~ fromSw[i].locked)
         <=> Has(fromSw, Unlocked(s))
  BY <1>4 DEF Has, Unlocked
<1>7. Settled(s) => /\ ~ Has(recvOut, LockOf(s)) /\ ~ Has(tickOut, LockOf(s))
                    /\ ~ Has(Stream, LockOf(s))
  BY <1>2, <1>3 DEF Settled
<1>8. UnlockUnderWay(s) <=> \/ Has(recvOut, LockOff(s))
                            \/ Has(tickOut, LockOff(s))
                            \/ Has(Stream, LockOff(s))
  BY <1>2, <1>3 DEF UnlockUnderWay
<1> QED  BY <1>5, <1>6, <1>7, <1>8 DEF ReleaseUnderWay

\* What one has of a part it has of the whole, and the lock commands for a
\* store are those of one client and those of the others.
LEMMA HasParts ==
    ASSUME NEW q, NEW s, NEW X \in SUBSET Client
    PROVE  /\ Has(q, LockOn(s, X)) => Has(q, LockOn(s, Client))
           /\ Has(q, LockOn(s, Client)) => \/ Has(q, LockOn(s, X))
                                           \/ Has(q, LockOn(s, Client \ X))
           /\ Has(q, LockOn(s, Client)) => Has(q, LockOf(s))
           /\ Has(q, LockOff(s)) => Has(q, LockOf(s))
  BY DEF Has, LockOn, LockOff, LockOf

-----------------------------------------------------------------------------
(* The inductive invariant, store by store. *)

\* tick only releases locks.
TickQuiet(s) == ~ Has(tickOut, LockOn(s, Client))

(***************************************************************************)
(* The owner's lock commands come last: of all those that recv and the     *)
(* stream hold, and as long as there are none, the switcher holds the      *)
(* store for the owner or the broker is about to hear that it does not.    *)
(***************************************************************************)
ComesLast(s, x) ==
    /\ ~ Has(recvOut, LockOn(s, Client \ {x}))
    /\ \/ Has(recvOut, LockOn(s, {x}))
       \/ /\ Covered(LockOn(s, Client \ {x}), LockOn(s, {x}), Stream)
          /\ swBy[s] \in {None, x} \/ Has(Stream, LockOn(s, {x}))
    /\ \/ swBy[s] = x
       \/ Has(recvOut, LockOn(s, {x})) \/ Has(Stream, LockOn(s, {x}))
       \/ Has(fromSw, Unlocked(s))

OwnerComesLast(s) ==
    \A x \in Client : locks[s].owner = x => ComesLast(s, x)

\* While the switcher holds a store, the last the broker hears is that it is
\* locked.
StatusTells(s) ==
    swBy[s] # None =>
        /\ Covered(Unlocked(s), Locked(s), fromSw)
        /\ locks[s].upstream_locked \/ Has(fromSw, Locked(s))

(***************************************************************************)
(* The rest is so until a race happens to the store.  An owner is served;  *)
(* nothing that would release its lock is under way.                       *)
(***************************************************************************)
OwnerUndisturbed(s) ==
    locks[s].owner # None =>
        /\ locks[s].owner \in sessions \cup dead
        /\ ~ Has(recvOut, LockOff(s)) /\ ~ Has(tickOut, LockOff(s))
        /\ ~ Has(Stream, LockOff(s)) /\ ~ Has(fromSw, Unlocked(s))

\* Without an owner, every lock command is followed by a release.
FreeIsReleased(s) ==
    locks[s].owner = None =>
        /\ ~ Has(recvOut, LockOn(s, Client))
        /\ \/ Has(recvOut, LockOff(s)) \/ Has(tickOut, LockOff(s))
           \/ /\ Covered(LockOn(s, Client), LockOff(s), Stream)
              /\ swBy[s] = None \/ Has(Stream, LockOff(s))

\* One client at most, the owner if there is one, has lock commands under way
\* or holds the store.
SoleClient(s, y) ==
    /\ locks[s].owner \in {None, y}
    /\ ~ Has(Stream, LockOn(s, Client \ {y}))
    /\ swBy[s] \in {None, y}

Tracked(s) ==
    /\ OwnerUndisturbed(s)
    /\ FreeIsReleased(s)
    /\ \E y \in Client \cup {None} : SoleClient(s, y)

StoreInv(s) ==
    /\ TickQuiet(s) /\ OwnerComesLast(s) /\ StatusTells(s)
    /\ s \in raced \/ Tracked(s)

BrokerInv == \A s \in Store : StoreInv(s)

-----------------------------------------------------------------------------
(* The kinds of lock commands. *)

\* A lock command for a store is one of a given client, one of another client,
\* or a release.
LEMMA Kinds ==
    ASSUME NEW m, NEW s, NEW x \in Client \cup {None}
    PROVE  /\ m \in LockOn(s, {x}) => m \notin LockOn(s, Client \ {x})
           /\ m \in LockOn(s, Client) => m \notin LockOff(s)
           /\ m \in LockOn(s, Client \ {x}) => m \in LockOn(s, Client)
           /\ x # None /\ m \in LockOn(s, {x}) => m \in LockOn(s, Client)
           /\ m \in LockOn(s, Client) => \/ m \in LockOn(s, {x})
                                         \/ m \in LockOn(s, Client \ {x})
  BY DEF LockOn, LockOff

\* They are lock commands for that store.
LEMMA KindsOf ==
    \A s, X : LockOn(s, X) \subseteq LockOf(s) /\ LockOff(s) \subseteq LockOf(s)
  BY DEF LockOn, LockOff

\* The kinds of a command that the filter makes.
LEMMA LockKinds ==
    ASSUME NEW c \in Client, NEW s \in Store, NEW r \in Store, NEW on \in BOOLEAN
    PROVE  /\ Lock(c, r, on) \in LockOf(s) => r = s
           /\ \A X : Lock(c, s, on) \in LockOn(s, X) <=> on /\ c \in X
           /\ Lock(c, s, on) \in LockOff(s) <=> ~ on
<1>1. Lock(c, r, on) \in Command /\ Lock(c, s, on) \in Command
  BY LockIsCommand
<1> QED  BY <1>1 DEF LockOf, LockOn, LockOff, Lock

\* The commands of other names are not among them.
LEMMA OtherKinds ==
    \A s : /\ \A c \in Client, nm \in AudioName, on \in BOOLEAN :
                 Audio(c, nm, on) \notin LockOf(s)
           /\ \A c \in Client, ft \in FtName : Upload(c, ft) \notin LockOf(s)
<1>1. "LOCK" \notin AudioName /\ "LOCK" \notin FtName
  BY FilterAssumption DEF FtName
<1> QED  BY <1>1 DEF LockOf, Audio, Upload

-----------------------------------------------------------------------------
\* An order of a finite set visits each of its elements.
LEMMA OrdersCover ==
    ASSUME NEW S, IsFiniteSet(S), NEW f \in Orders(S)
    PROVE  \A s \in S : \E i \in DOMAIN f : f[i] = s
<1> DEFINE n == Cardinality(S)
<1>1. n \in Nat
  BY FS_CardinalityType
<1>2. /\ f \in [1..n -> S] /\ DOMAIN f = 1..n
      /\ \A i, j \in 1..n : f[i] = f[j] => i = j
  BY DEF Orders
<1>3. f \in Injection(1..n, S)
  BY <1>2 DEF Injection, IsInjective
<1>4. Cardinality(1..n) = n
  <2> HIDE DEF n
  <2> QED  BY <1>1, FS_Interval
<1>5. f \in Surjection(1..n, S)
  BY <1>3, <1>4, FS_Injection
<1> QED  BY <1>2, <1>5 DEF Surjection

\* The lock commands a client's end sends: an unlock for each store that the
\* broker has confirmed for it.
LEMMA DisconnectLocks ==
    ASSUME NEW t \in LockTable, NEW A, NEW l \in AudioName \cup {None},
           NEW c \in Client, NEW q \in disconnect_commands(t, A, l, c),
           NEW s \in Store
    PROVE  /\ ~ Has(q, LockOn(s, Client))
           /\ Has(q, LockOf(s)) => s \in unlocks(t, c)
           /\ s \in unlocks(t, c) => Has(q, LockOff(s))
<1> DEFINE S == unlocks(t, c)
           audioPart == IF A = {c} /\ l # None
                        THEN <<Audio(c, l, FALSE)>> ELSE <<>>
<1>1. S \subseteq Store /\ IsFiniteSet(S)
  <2>1. S \subseteq Store
    BY DEF unlocks
  <2> QED  BY <2>1, LocksAssumption, FS_Subset
<1>2. PICK f \in Orders(S) :
         q = audioPart \o [i \in DOMAIN f |-> Lock(c, f[i], FALSE)]
  BY DEF disconnect_commands
<1> DEFINE u == [i \in DOMAIN f |-> Lock(c, f[i], FALSE)]
<1>3. f \in [DOMAIN f -> S] /\ DOMAIN f = 1..Cardinality(S)
  BY DEF Orders
<1>4. Cardinality(S) \in Nat
  BY <1>1, FS_CardinalityType
<1>5. u \in Seq(Command) /\ Len(u) = Cardinality(S)
  <2>1. \A i \in DOMAIN f : Lock(c, f[i], FALSE) \in Command
    BY <1>1, <1>3, LockIsCommand
  <2>2. u \in [DOMAIN f -> Command]
    BY <2>1
  <2> HIDE DEF u, S
  <2>3. u \in [1..Cardinality(S) -> Command]
    BY <1>3, <2>2
  <2> QED  BY <1>4, <2>3
<1>6. /\ \A i \in 1..Len(u) : f[i] \in S /\ u[i] = Lock(c, f[i], FALSE)
      /\ \A r \in S : \E i \in 1..Len(u) : u[i] = Lock(c, r, FALSE)
  <2>1. \A r \in S : \E i \in DOMAIN f : f[i] = r
    BY <1>1, <1>2, OrdersCover
  <2>2. \A i \in DOMAIN f : u[i] = Lock(c, f[i], FALSE) /\ f[i] \in S
    BY <1>3
  <2>3. DOMAIN f = 1..Len(u)
    BY <1>3, <1>5
  <2> HIDE DEF u, S
  <2> QED  BY <2>1, <2>2, <2>3
<1>7. audioPart \in Seq(Command) /\ ~ Has(audioPart, LockOf(s))
  <2>1. CASE A = {c} /\ l # None
    <3>1. l \in AudioName /\ Audio(c, l, FALSE) \in Command
      BY <2>1, AudioIsCommand
    <3>2. <<Audio(c, l, FALSE)>> \in Seq(Command)
      BY <3>1, SingletonSeq
    <3>3. Audio(c, l, FALSE) \notin LockOf(s)
      BY <3>1, OtherKinds
    <3>4. audioPart = <<Audio(c, l, FALSE)>>
      BY <2>1
    <3> HIDE DEF audioPart
    <3> QED  BY <3>2, <3>3, <3>4, HasShort
  <2>2. CASE ~ (A = {c} /\ l # None)
    <3>1. audioPart = <<>>
      BY <2>2
    <3> HIDE DEF audioPart
    <3>2. <<>> \in Seq(Command)
      OBVIOUS
    <3> QED  BY <3>1, <3>2, HasShort
  <2> QED  BY <2>1, <2>2
<1> HIDE DEF u, audioPart, S
<1>8. q = audioPart \o u
  BY <1>2 DEF u
<1>9. \A P : Has(q, P) <=> Has(audioPart, P) \/ Has(u, P)
  <2>1. audioPart \in Seq(Command)
    BY <1>7
  <2> QED  BY <1>5, <1>8, <2>1, HasConcat
<1>10. \A P : P \subseteq LockOf(s) => (Has(q, P) <=> Has(u, P))
  <2>1. \A P : P \subseteq LockOf(s) => ~ Has(audioPart, P)
    BY <1>7 DEF Has
  <2> QED  BY <1>9, <2>1
<1>11. ASSUME NEW r \in S
       PROVE  /\ Lock(c, r, FALSE) \notin LockOn(s, Client)
              /\ Lock(c, r, FALSE) \in LockOf(s) => r = s
              /\ r = s => Lock(c, r, FALSE) \in LockOff(s)
  <2>1. r \in Store
    BY <1>1
  <2>2. Lock(c, r, FALSE) \in LockOf(s) => r = s
    BY <2>1, LockKinds
  <2>3. /\ Lock(c, s, FALSE) \notin LockOn(s, Client)
        /\ Lock(c, s, FALSE) \in LockOff(s)
    BY LockKinds
  <2> QED  BY <2>2, <2>3, KindsOf
<1>12. ~ Has(u, LockOn(s, Client))
  BY <1>6, <1>11 DEF Has
<1>13. Has(u, LockOf(s)) => s \in S
  BY <1>6, <1>11 DEF Has
<1>14. ASSUME s \in S  PROVE Has(u, LockOff(s))
  <2>1. PICK i \in 1..Len(u) : u[i] = Lock(c, s, FALSE)
    BY <1>6, <1>14
  <2>2. u[i] \in LockOff(s)
    BY <1>11, <1>14, <2>1
  <2> QED  BY <2>2 DEF Has
<1> QED  BY <1>10, <1>12, <1>13, <1>14, KindsOf DEF S

-----------------------------------------------------------------------------
(* What each kind of step does to the invariant of a store. *)

(***************************************************************************)
(* A step that neither moves nor adds a command or status about the store  *)
(* and leaves the broker's and the switcher's entry as they are.           *)
(***************************************************************************)
LEMMA StoreSilent ==
    ASSUME NEW s \in Store, StoreInv(s),
           \A P : P \subseteq LockOf(s) => (Has(recvOut', P) <=> Has(recvOut, P)),
           \A P : P \subseteq LockOf(s) => (Has(tickOut', P) <=> Has(tickOut, P)),
           Stream' = Stream, fromSw' = fromSw,
           locks'[s] = locks[s], swBy'[s] = swBy[s], raced \subseteq raced',
           s \notin raced' /\ locks[s].owner \in sessions \cup dead
              => locks[s].owner \in sessions' \cup dead'
    PROVE  StoreInv(s)'
<1>1. \A X : /\ Has(recvOut', LockOn(s, X)) <=> Has(recvOut, LockOn(s, X))
             /\ Has(tickOut', LockOn(s, X)) <=> Has(tickOut, LockOn(s, X))
  BY KindsOf
<1>2. /\ Has(recvOut', LockOff(s)) <=> Has(recvOut, LockOff(s))
      /\ Has(tickOut', LockOff(s)) <=> Has(tickOut, LockOff(s))
  BY KindsOf
<1>3. TickQuiet(s)' /\ StatusTells(s)'
  BY <1>1 DEF StoreInv, TickQuiet, StatusTells
<1>4. OwnerComesLast(s)'
  BY <1>1 DEF StoreInv, OwnerComesLast, ComesLast
<1>5. ASSUME s \notin raced'  PROVE Tracked(s)'
  <2>1. Tracked(s)
    BY <1>5 DEF StoreInv
  <2>2. OwnerUndisturbed(s)'
    BY <1>2, <1>5, <2>1 DEF Tracked, OwnerUndisturbed
  <2>3. FreeIsReleased(s)'
    BY <1>1, <1>2, <2>1 DEF Tracked, FreeIsReleased
  <2>4. \E y \in Client \cup {None} : SoleClient(s, y)'
    BY <2>1 DEF Tracked, SoleClient
  <2> QED  BY <2>2, <2>3, <2>4 DEF Tracked
<1> QED  BY <1>3, <1>4, <1>5 DEF StoreInv

\* A step that leaves all of this alone, for a step about other things.
LEMMA SilentStep ==
    ASSUME BrokerInv,
           UNCHANGED <<recvOut, tickOut, Stream, fromSw, locks, swBy>>,
           raced \subseteq raced',
           \A s \in Store :
              s \notin raced' /\ locks[s].owner \in sessions \cup dead
                 => locks[s].owner \in sessions' \cup dead'
    PROVE  BrokerInv'
<1> SUFFICES ASSUME NEW s \in Store  PROVE StoreInv(s)'
  BY DEF BrokerInv
<1>1. StoreInv(s)
  BY DEF BrokerInv
<1> QED  BY <1>1, StoreSilent

\* What it means for the sequences that recv or tick pushes its next command.
LEMMA PushMeans ==
    ASSUME TypeOK, NEW q \in Seq(Command), q # <<>>, NEW q2, q2 = Tail(q),
           chan' = Append(chan, Head(q)), toSw' = toSw
    PROVE  /\ Head(q) \in Command
           /\ \A P : Has(q, P) <=> Head(q) \in P \/ Has(q2, P)
           /\ \A P : Has(Stream', P) <=> Has(Stream, P) \/ Head(q) \in P
           /\ \A P, Q : /\ Head(q) \notin P
                        /\ Covered(P, Q, Stream) \/ Head(q) \in Q
                        => Covered(P, Q, Stream')
<1>1. Head(q) \in Command
  BY HeadTailProperties
<1>2. Stream' = Append(Stream, Head(q)) /\ Stream \in Seq(Command)
  BY <1>1, StreamSend, StreamHas
<1>3. \A P : Has(q, P) <=> Head(q) \in P \/ Has(q2, P)
  BY HasHeadTail
<1>4. \A P : Has(Stream', P) <=> Has(Stream, P) \/ Head(q) \in P
  BY <1>1, <1>2, HasAppend
<1>5. \A P, Q : Head(q) \notin P /\ (Covered(P, Q, Stream) \/ Head(q) \in Q)
                   => Covered(P, Q, Stream')
  BY <1>1, <1>2, CoveredAppend
<1> QED  BY <1>1, <1>3, <1>4, <1>5

\* recv pushes a command: the owner's lock command is still the last, and a
\* release still covers what came before it.
LEMMA RecvSendKeeps ==
    ASSUME TypeOK, BrokerInv, RecvSend  PROVE BrokerInv'
<1> SUFFICES ASSUME NEW s \in Store  PROVE StoreInv(s)'
  BY DEF BrokerInv
<1> DEFINE m == Head(recvOut)
<1>0. UNCHANGED <<sessions, dead, locks, raced, tickOut, fromSw, swBy>>
  BY DEF RecvSend, filterVars, tickVars, linkVars
<1>1. /\ \A P : Has(recvOut, P) <=> m \in P \/ Has(recvOut', P)
      /\ \A P : Has(Stream', P) <=> Has(Stream, P) \/ m \in P
      /\ \A P, Q : m \notin P /\ (Covered(P, Q, Stream) \/ m \in Q)
                      => Covered(P, Q, Stream')
  <2>1. recvOut \in Seq(Command) /\ recvOut # <<>> /\ recvOut' = Tail(recvOut)
    BY DEF RecvSend, TypeOK
  <2>2. chan' = Append(chan, Head(recvOut)) /\ toSw' = toSw
    BY DEF RecvSend, linkVars
  <2> QED  BY <2>1, <2>2, PushMeans
<1>2. StoreInv(s)
  BY DEF BrokerInv
<1> HIDE DEF m
<1>3. TickQuiet(s)' /\ StatusTells(s)'
  BY <1>0, <1>2 DEF StoreInv, TickQuiet, StatusTells
<1>4. ASSUME NEW x \in Client, locks[s].owner = x  PROVE ComesLast(s, x)'
  <2>1. ComesLast(s, x)
    BY <1>2, <1>4 DEF StoreInv, OwnerComesLast
  <2>2. m \in LockOn(s, {x}) => m \notin LockOn(s, Client \ {x})
    BY Kinds
  <2> QED  BY <1>0, <1>1, <2>1, <2>2 DEF ComesLast
<1>5. ASSUME s \notin raced  PROVE Tracked(s)'
  <2>1. Tracked(s)
    BY <1>2, <1>5 DEF StoreInv
  <2>2. OwnerUndisturbed(s)'
    BY <1>0, <1>1, <2>1 DEF Tracked, OwnerUndisturbed
  <2>3. FreeIsReleased(s)'
    BY <1>0, <1>1, <2>1 DEF Tracked, FreeIsReleased
  <2>4. PICK y \in Client \cup {None} : SoleClient(s, y)
    BY <2>1 DEF Tracked
  <2>5. CASE locks[s].owner = None
    <3>1. ~ Has(recvOut, LockOn(s, Client))
      BY <2>1, <2>5 DEF Tracked, FreeIsReleased
    <3>2. m \notin LockOn(s, Client \ {y})
      BY <1>1, <3>1, Kinds
    <3>3. SoleClient(s, y)'
      BY <1>0, <1>1, <2>4, <3>2 DEF SoleClient
    <3> QED  BY <2>2, <2>3, <3>3 DEF Tracked
  <2>6. CASE locks[s].owner # None
    <3>1. locks[s].owner = y /\ y \in Client
      BY <2>4, <2>6 DEF SoleClient
    <3>2. m \notin LockOn(s, Client \ {y})
      BY <1>1, <1>2, <3>1 DEF StoreInv, OwnerComesLast, ComesLast
    <3>3. SoleClient(s, y)'
      BY <1>0, <1>1, <2>4, <3>2 DEF SoleClient
    <3> QED  BY <2>2, <2>3, <3>3 DEF Tracked
  <2> QED  BY <2>5, <2>6
<1>6. OwnerComesLast(s)'
  BY <1>0, <1>4 DEF OwnerComesLast
<1> QED  BY <1>0, <1>3, <1>5, <1>6 DEF StoreInv

\* tick pushes a command, which is not a lock command.
LEMMA TickSendKeeps ==
    ASSUME TypeOK, BrokerInv, TickSend  PROVE BrokerInv'
<1> SUFFICES ASSUME NEW s \in Store  PROVE StoreInv(s)'
  BY DEF BrokerInv
<1> DEFINE m == Head(tickOut)
<1>0. UNCHANGED <<sessions, dead, locks, raced, recvOut, fromSw, swBy>>
  BY DEF TickSend, filterVars, recvVars, linkVars
<1>1. /\ \A P : Has(tickOut, P) <=> m \in P \/ Has(tickOut', P)
      /\ \A P : Has(Stream', P) <=> Has(Stream, P) \/ m \in P
      /\ \A P, Q : m \notin P /\ (Covered(P, Q, Stream) \/ m \in Q)
                      => Covered(P, Q, Stream')
  <2>1. tickOut \in Seq(Command) /\ tickOut # <<>> /\ tickOut' = Tail(tickOut)
    BY DEF TickSend, TypeOK
  <2>2. chan' = Append(chan, Head(tickOut)) /\ toSw' = toSw
    BY DEF TickSend, linkVars
  <2> QED  BY <2>1, <2>2, PushMeans
<1>2. StoreInv(s)
  BY DEF BrokerInv
<1> HIDE DEF m
<1>3. TickQuiet(s)' /\ StatusTells(s)' /\ m \notin LockOn(s, Client)
  BY <1>0, <1>1, <1>2 DEF StoreInv, TickQuiet, StatusTells
<1>4. ASSUME NEW x \in Client, locks[s].owner = x  PROVE ComesLast(s, x)'
  <2>1. ComesLast(s, x)
    BY <1>2, <1>4 DEF StoreInv, OwnerComesLast
  <2>2. m \notin LockOn(s, {x}) /\ m \notin LockOn(s, Client \ {x})
    BY <1>3, Kinds, LocksAssumption
  <2> QED  BY <1>0, <1>1, <2>1, <2>2 DEF ComesLast
<1>5. ASSUME s \notin raced  PROVE Tracked(s)'
  <2>1. Tracked(s)
    BY <1>2, <1>5 DEF StoreInv
  <2>2. OwnerUndisturbed(s)'
    BY <1>0, <1>1, <2>1 DEF Tracked, OwnerUndisturbed
  <2>3. FreeIsReleased(s)'
    BY <1>0, <1>1, <1>3, <2>1 DEF Tracked, FreeIsReleased
  <2>4. PICK y \in Client \cup {None} : SoleClient(s, y)
    BY <2>1 DEF Tracked
  <2>5. m \notin LockOn(s, Client \ {y})
    BY <1>3, Kinds
  <2>6. SoleClient(s, y)'
    BY <1>0, <1>1, <2>4, <2>5 DEF SoleClient
  <2> QED  BY <2>2, <2>3, <2>6 DEF Tracked
<1>6. OwnerComesLast(s)'
  BY <1>0, <1>4 DEF OwnerComesLast
<1> QED  BY <1>0, <1>3, <1>5, <1>6 DEF StoreInv

\* A client locks or unlocks the store: its command is alone in recv.  The
\* command locks a store that is free or its own, and the race is that a
\* release is under way.
LEMMA LockRequestKeeps ==
    ASSUME TypeOK, BrokerInv, NEW c \in Client, NEW r \in Store,
           NEW on \in BOOLEAN, LockRequest(c, r, on)
    PROVE  BrokerInv'
<1> SUFFICES ASSUME NEW s \in Store  PROVE StoreInv(s)'
  BY DEF BrokerInv
<1>0. /\ UNCHANGED <<sessions, dead, tickOut, Stream, fromSw, swBy>>
      /\ recvOut = <<>> /\ c \in sessions /\ raced \subseteq raced'
      /\ locks \in LockTable
  BY DEF LockRequest, Receives, RecvIdle, tickVars, linkVars, Stream, TypeOK
<1>1. StoreInv(s)
  BY DEF BrokerInv
<1>2. \A P : ~ Has(recvOut, P)
  BY <1>0, HasShort
<1>3. CASE ~ (LockMode = "SingleOwner" /\ lock_allowed(locks, c, r))
  <2>1. recvOut' = <<>> /\ locks' = locks
    BY <1>3 DEF LockRequest, client_lock_request
  <2> QED  BY <1>0, <1>1, <2>1, StoreSilent
<1>4. CASE LockMode = "SingleOwner" /\ lock_allowed(locks, c, r) /\ r # s
  <2>1. recvOut' = <<Lock(c, r, on)>> /\ locks'[s] = locks[s]
    BY <1>0, <1>4 DEF LockRequest, client_lock_request, LockTable
  <2>2. Lock(c, r, on) \notin LockOf(s)
    BY <1>4, LockKinds
  <2>3. \A P : P \subseteq LockOf(s) => ~ Has(recvOut', P)
    BY <2>1, <2>2, HasShort
  <2> QED  BY <1>0, <1>1, <1>2, <2>1, <2>3, StoreSilent
<1>5. CASE LockMode = "SingleOwner" /\ lock_allowed(locks, c, r) /\ r = s
  <2>1. /\ recvOut' = <<Lock(c, s, on)>>
        /\ locks'[s].owner = IF on THEN c ELSE None
        /\ locks'[s].upstream_locked = locks[s].upstream_locked
        /\ locks[s].owner \in {None, c}
    BY <1>0, <1>5 DEF LockRequest, client_lock_request, lock_allowed, LockTable,
                      StoreLock
  <2>2. /\ \A X : Has(recvOut', LockOn(s, X)) <=> on /\ c \in X
        /\ Has(recvOut', LockOff(s)) <=> ~ on
    BY <2>1, HasShort, LockKinds
  <2>3. TickQuiet(s)' /\ StatusTells(s)'
    BY <1>0, <1>1, <2>1 DEF StoreInv, TickQuiet, StatusTells
  <2>4. OwnerComesLast(s)'
    <3>1. ASSUME NEW x \in Client, locks'[s].owner = x  PROVE ComesLast(s, x)'
      <4>1. on /\ c = x
        BY <2>1, <3>1, LocksAssumption
      <4>2. Has(recvOut', LockOn(s, {x})) /\ ~ Has(recvOut', LockOn(s, Client \ {x}))
        BY <2>2, <4>1
      <4> QED  BY <4>2 DEF ComesLast
    <3> QED  BY <3>1 DEF OwnerComesLast
  <2>5. ASSUME s \notin raced'  PROVE Tracked(s)'
    <3>1. Tracked(s)
      BY <1>0, <1>1, <2>5 DEF StoreInv
    <3>2. CASE ~ on
      <4>1. locks'[s].owner = None
        BY <2>1, <3>2
      <4>2. OwnerUndisturbed(s)' /\ FreeIsReleased(s)'
        BY <2>2, <3>2, <4>1 DEF OwnerUndisturbed, FreeIsReleased
      <4>3. PICK y \in Client \cup {None} : SoleClient(s, y)
        BY <3>1 DEF Tracked
      <4>4. SoleClient(s, y)'
        BY <1>0, <4>1, <4>3 DEF SoleClient
      <4> QED  BY <4>2, <4>4 DEF Tracked
    <3>3. CASE on
      <4>1. locks'[s].owner = c /\ c # None
        BY <2>1, <3>3, LocksAssumption
      <4>2. ~ ReleaseUnderWay(s)
        BY <1>5, <2>5, <3>3 DEF LockRequest, Contended
      <4>3. /\ ~ Has(recvOut, LockOff(s)) /\ ~ Has(tickOut, LockOff(s))
            /\ ~ Has(Stream, LockOff(s)) /\ ~ Has(fromSw, Unlocked(s))
        BY <4>2, UnderWayMeans
      <4>4. OwnerUndisturbed(s)'
        BY <1>0, <2>2, <3>3, <4>1, <4>3 DEF OwnerUndisturbed
      <4>5. FreeIsReleased(s)'
        BY <4>1 DEF FreeIsReleased
      <4>6. ~ Has(Stream, LockOn(s, Client \ {c})) /\ swBy[s] \in {None, c}
        <5>1. CASE locks[s].owner = None
          <6>1. Covered(LockOn(s, Client), LockOff(s), Stream) /\ swBy[s] = None
            BY <1>2, <3>1, <4>3, <5>1 DEF Tracked, FreeIsReleased
          <6>2. Len(Stream) \in Nat
            BY StreamHas, LenProperties
          <6>3. ~ Has(Stream, LockOn(s, Client))
            BY <4>3, <6>1, <6>2, CoveredNone
          <6>4. ~ Has(Stream, LockOn(s, Client \ {c}))
            BY <6>3, HasParts
          <6> QED  BY <6>1, <6>4
        <5>2. CASE locks[s].owner = c
          BY <3>1, <4>1, <5>2 DEF Tracked, SoleClient
        <5> QED  BY <2>1, <5>1, <5>2
      <4>7. SoleClient(s, c)'
        BY <1>0, <4>1, <4>6 DEF SoleClient
      <4> QED  BY <4>4, <4>5, <4>7 DEF Tracked
    <3> QED  BY <3>2, <3>3
  <2> QED  BY <2>3, <2>4, <2>5 DEF StoreInv
<1> QED  BY <1>3, <1>4, <1>5

\* The broker forgets a client.  It sends the unlock of a store unless it has
\* not heard that the store was locked; and that is a race unless the store is
\* settled, when it has heard.
LEMMA CleanupKeeps ==
    ASSUME TypeOK, BrokerInv, NEW c \in Client, Cleanup(c)  PROVE BrokerInv'
<1> SUFFICES ASSUME NEW s \in Store  PROVE StoreInv(s)'
  BY DEF BrokerInv
<1>0. /\ UNCHANGED <<sessions, recvOut, Stream, fromSw, swBy>>
      /\ tickOut = <<>> /\ dead' = dead \ {c} /\ raced \subseteq raced'
      /\ locks \in LockTable /\ lastEnable \in AudioName \cup {None}
  BY DEF Cleanup, recvVars, linkVars, Stream, TypeOK
<1>1. StoreInv(s)
  BY DEF BrokerInv
<1>2. \A P : ~ Has(tickOut, P)
  BY <1>0, HasShort
<1>3. /\ ~ Has(tickOut', LockOn(s, Client))
      /\ Has(tickOut', LockOf(s)) => s \in unlocks(locks, c)
      /\ s \in unlocks(locks, c) => Has(tickOut', LockOff(s))
  <2>1. tickOut' \in disconnect_commands(locks, subs, lastEnable, c)
    BY DEF Cleanup
  <2> QED  BY <1>0, <2>1, DisconnectLocks
<1>4. locks'[s] = IF locks[s].owner = c THEN [locks[s] EXCEPT !.owner = None]
                                        ELSE locks[s]
  BY DEF Cleanup, locks_client_disconnected
<1>5. CASE locks[s].owner # c
  <2>1. locks'[s] = locks[s]
    BY <1>4, <1>5
  <2>2. ~ Has(tickOut', LockOf(s))
    BY <1>3, <1>5 DEF unlocks
  <2>3. \A P : P \subseteq LockOf(s) => ~ Has(tickOut', P)
    BY <2>2 DEF Has
  <2> QED  BY <1>0, <1>1, <1>2, <1>5, <2>1, <2>3, StoreSilent
<1>6. CASE locks[s].owner = c
  <2>1. /\ locks'[s].owner = None
        /\ locks'[s].upstream_locked = locks[s].upstream_locked
    BY <1>0, <1>4, <1>6 DEF LockTable, StoreLock
  <2>2. TickQuiet(s)' /\ StatusTells(s)'
    BY <1>0, <1>1, <1>3, <2>1 DEF StoreInv, TickQuiet, StatusTells
  <2>3. OwnerComesLast(s)'
    BY <2>1, LocksAssumption DEF OwnerComesLast
  <2>4. ASSUME s \notin raced'  PROVE Tracked(s)'
    <3>1. Tracked(s)
      BY <1>0, <1>1, <2>4 DEF StoreInv
    <3>2. Settled(s) \/ (locks[s].upstream_locked /\ ~ Touches(recvOut, s))
      BY <1>6, <2>4 DEF Cleanup, Unconfirmed
    <3>3. ~ Has(recvOut, LockOf(s))
      <4>1. recvOut \in Seq(Command)
        BY DEF TypeOK
      <4>2. Touches(recvOut, s) <=> Has(recvOut, LockOf(s))
        BY <4>1, TouchesMeans
      <4> QED  BY <3>2, <4>2, UnderWayMeans
    <3>4. locks[s].upstream_locked
      <4> SUFFICES ASSUME Settled(s)  PROVE locks[s].upstream_locked
        BY <3>2
      <4>1. /\ ~ Has(recvOut, LockOf(s)) /\ ~ Has(Stream, LockOf(s))
            /\ ~ Has(fromSw, Locked(s)) /\ ~ Has(fromSw, Unlocked(s))
        BY UnderWayMeans
      <4>2. ~ Has(recvOut, LockOn(s, {c})) /\ ~ Has(Stream, LockOn(s, {c}))
        BY <4>1, HasParts
      <4>3. swBy[s] = c
        BY <1>1, <1>6, <4>1, <4>2 DEF StoreInv, OwnerComesLast, ComesLast
      <4> QED  BY <1>1, <4>1, <4>3, LocksAssumption DEF StoreInv, StatusTells
    <3>5. Has(tickOut', LockOff(s))
      BY <1>3, <1>6, <3>4 DEF unlocks
    <3>6. OwnerUndisturbed(s)'
      BY <2>1 DEF OwnerUndisturbed
    <3>7. ~ Has(recvOut', LockOn(s, Client))
      BY <1>0, <3>3, HasParts
    <3>8. FreeIsReleased(s)'
      BY <3>5, <3>7 DEF FreeIsReleased
    <3>9. PICK y \in Client \cup {None} : SoleClient(s, y)
      BY <3>1 DEF Tracked
    <3>10. SoleClient(s, y)'
      BY <1>0, <2>1, <3>9 DEF SoleClient
    <3> QED  BY <3>6, <3>8, <3>10 DEF Tracked
  <2> QED  BY <2>2, <2>3, <2>4 DEF StoreInv
<1> QED  BY <1>5, <1>6

\* The upstream task applies a status.  An unlocked status for the store finds
\* it without an owner unless a race has happened, and what covers it is still
\* to come.
LEMMA LockStatusKeeps ==
    ASSUME TypeOK, BrokerInv, LockStatus  PROVE BrokerInv'
<1> SUFFICES ASSUME NEW s \in Store  PROVE StoreInv(s)'
  BY DEF BrokerInv
<1> DEFINE st == Head(fromSw)
<1>0. /\ UNCHANGED <<sessions, dead, recvOut, tickOut, Stream, swBy, raced>>
      /\ fromSw # <<>> /\ fromSw' = Tail(fromSw) /\ fromSw \in Seq(Status)
      /\ locks' = on_upstream_lock_status(locks, st.store, st.locked)
      /\ locks \in LockTable
  BY DEF LockStatus, recvVars, tickVars, Stream, TypeOK
<1>1. StoreInv(s)
  BY DEF BrokerInv
<1>2. st \in Status
  BY <1>0, HeadTailProperties
<1>3. /\ \A P : Has(fromSw, P) <=> st \in P \/ Has(fromSw', P)
      /\ \A P, Q : Covered(P, Q, fromSw) => /\ Covered(P, Q, fromSw')
                                            /\ st \in P => Has(fromSw', Q)
  BY <1>0, HasHeadTail, CoveredTail
<1> HIDE DEF st
<1>4. /\ st \in Locked(s) <=> st.store = s /\ st.locked
      /\ st \in Unlocked(s) <=> st.store = s /\ ~ st.locked
  BY <1>2 DEF Locked, Unlocked
<1>5. /\ st.store # s => locks'[s] = locks[s]
      /\ st.store = s => /\ locks'[s].upstream_locked = st.locked
                         /\ st.locked => locks'[s].owner = locks[s].owner
                         /\ ~ st.locked => locks'[s].owner = None
  BY <1>0 DEF on_upstream_lock_status, LockTable, StoreLock
<1>6. st \in Unlocked(s) \/ locks'[s].owner = locks[s].owner
  BY <1>4, <1>5, <1>2 DEF Status
<1>7. StatusTells(s)'
  <2> SUFFICES ASSUME swBy[s] # None
               PROVE  /\ Covered(Unlocked(s), Locked(s), fromSw')
                      /\ locks'[s].upstream_locked \/ Has(fromSw', Locked(s))
    BY <1>0 DEF StatusTells
  <2>1. /\ Covered(Unlocked(s), Locked(s), fromSw)
        /\ locks[s].upstream_locked \/ Has(fromSw, Locked(s))
    BY <1>1 DEF StoreInv, StatusTells
  <2>2. Covered(Unlocked(s), Locked(s), fromSw')
    BY <1>3, <2>1
  <2>3. CASE st.store # s
    BY <1>3, <1>4, <1>5, <2>1, <2>2, <2>3
  <2>4. CASE st.store = s /\ st.locked
    BY <1>5, <2>2, <2>4
  <2>5. CASE st.store = s /\ ~ st.locked
    BY <1>3, <1>4, <2>1, <2>2, <2>5
  <2> QED  BY <2>3, <2>4, <2>5
<1>8. TickQuiet(s)'
  BY <1>0, <1>1 DEF StoreInv, TickQuiet
<1>9. OwnerComesLast(s)'
  <2> SUFFICES ASSUME NEW x \in Client, locks'[s].owner = x
               PROVE  ComesLast(s, x)'
    BY DEF OwnerComesLast
  <2>1. st \notin Unlocked(s)
    BY <1>4, <1>5, LocksAssumption
  <2>2. ComesLast(s, x)
    BY <1>1, <1>6, <2>1 DEF StoreInv, OwnerComesLast
  <2> QED  BY <1>0, <1>3, <2>1, <2>2 DEF ComesLast
<1>10. ASSUME s \notin raced  PROVE Tracked(s)'
  <2>1. Tracked(s)
    BY <1>1, <1>10 DEF StoreInv
  <2>2. locks'[s].owner = locks[s].owner
    <3>1. CASE st \in Unlocked(s)
      <4>1. Has(fromSw, Unlocked(s))
        BY <1>3, <3>1
      <4>2. locks[s].owner = None
        BY <2>1, <4>1 DEF Tracked, OwnerUndisturbed
      <4> QED  BY <1>4, <1>5, <3>1, <4>2
    <3> QED  BY <1>6, <3>1
  <2>3. OwnerUndisturbed(s)'
    BY <1>0, <1>3, <2>1, <2>2 DEF Tracked, OwnerUndisturbed
  <2>4. FreeIsReleased(s)'
    BY <1>0, <2>1, <2>2 DEF Tracked, FreeIsReleased
  <2>5. \E y \in Client \cup {None} : SoleClient(s, y)'
    BY <1>0, <2>1, <2>2 DEF Tracked, SoleClient
  <2> QED  BY <2>3, <2>4, <2>5 DEF Tracked
<1> QED  BY <1>0, <1>7, <1>8, <1>9, <1>10 DEF StoreInv

\* What the switcher does to the store: it takes the first command of the
\* stream and, if that is about the store, answers.
LEMMA SwitcherMeans ==
    ASSUME TypeOK, Switcher, NEW s \in Store, NEW m, m = Head(toSw)
    PROVE  /\ m \in Command
           /\ m \notin LockOf(s) => swBy'[s] = swBy[s]
           /\ m \in LockOf(s) =>
                 /\ swBy'[s] = IF m.on THEN m.from ELSE None
                 /\ fromSw' = Append(fromSw, [store |-> s, locked |-> m.on])
           /\ m \notin LockOf(s) =>
                 \/ fromSw' = fromSw
                 \/ \E st \in Status : st.store # s /\ fromSw' = Append(fromSw, st)
<1>1. toSw \in Seq(Command) /\ toSw # <<>> /\ swBy \in [Store -> Client \cup {None}]
  BY DEF Switcher, TypeOK
<1>2. m \in Command
  BY <1>1, HeadTailProperties
<1>3. CASE m.name = "LOCK"
  <2>1. m.store \in Store /\ m.from \in Client /\ m.on \in BOOLEAN
    BY <1>2, <1>3, LockFields
  <2>2. "LOCK" \notin AudioName /\ "LOCK" \notin FtName
    BY FilterAssumption DEF FtName
  <2>3. /\ swBy' = [swBy EXCEPT ![m.store] = IF m.on THEN m.from ELSE None]
        /\ fromSw' = Append(fromSw, [store |-> m.store, locked |-> m.on])
    BY <1>3, <2>2 DEF Switcher
  <2>4. m \in LockOf(s) <=> m.store = s
    BY <1>2, <1>3 DEF LockOf
  <2>5. [store |-> m.store, locked |-> m.on] \in Status
    BY <2>1 DEF Status
  <2>6. m.store # s => swBy'[s] = swBy[s]
    BY <1>1, <2>1, <2>3
  <2>7. m.store = s => swBy'[s] = IF m.on THEN m.from ELSE None
    BY <1>1, <2>1, <2>3
  <2>8. m.store # s =>
           \E st \in Status : st.store # s /\ fromSw' = Append(fromSw, st)
    BY <2>3, <2>5
  <2> QED  BY <1>2, <2>3, <2>4, <2>6, <2>7, <2>8
<1>4. CASE m.name # "LOCK"
  <2>1. swBy' = swBy /\ fromSw' = fromSw
    BY <1>4 DEF Switcher
  <2>2. m \notin LockOf(s)
    BY <1>4 DEF LockOf
  <2> QED  BY <1>2, <2>1, <2>2
<1> QED  BY <1>3, <1>4

\* The switcher obeys a command: after one that locks the store, what covers it
\* is still in the stream, and a status that says so is on its way.
LEMMA SwitcherKeeps ==
    ASSUME TypeOK, BrokerInv, Switcher  PROVE BrokerInv'
<1> SUFFICES ASSUME NEW s \in Store  PROVE StoreInv(s)'
  BY DEF BrokerInv
<1> DEFINE m == Head(toSw)
<1>0. /\ UNCHANGED <<sessions, dead, locks, raced, recvOut, tickOut>>
      /\ fromSw \in Seq(Status)
  BY DEF Switcher, filterVars, recvVars, tickVars, TypeOK
<1>1. StoreInv(s)
  BY DEF BrokerInv
<1>2. /\ m \in Command
      /\ m \notin LockOf(s) => swBy'[s] = swBy[s]
      /\ m \in LockOf(s) =>
            /\ swBy'[s] = IF m.on THEN m.from ELSE None
            /\ fromSw' = Append(fromSw, [store |-> s, locked |-> m.on])
      /\ m \notin LockOf(s) =>
            \/ fromSw' = fromSw
            \/ \E st \in Status : st.store # s /\ fromSw' = Append(fromSw, st)
  BY SwitcherMeans
<1>3. /\ \A P : Has(Stream, P) <=> m \in P \/ Has(Stream', P)
      /\ \A P, Q : Covered(P, Q, Stream) => /\ Covered(P, Q, Stream')
                                            /\ m \in P => Has(Stream', Q)
  <2>1. toSw # <<>> /\ toSw' = Tail(toSw) /\ chan' = chan
    BY DEF Switcher
  <2>2. /\ Stream \in Seq(Command) /\ Stream # <<>>
        /\ Head(Stream) = m /\ Stream' = Tail(Stream)
    BY <2>1, StreamSwitcher
  <2> HIDE DEF m
  <2> QED  BY <2>2, HasHeadTail, CoveredTail
<1> HIDE DEF m
<1>4. TickQuiet(s)'
  BY <1>0, <1>1 DEF StoreInv, TickQuiet
<1>5. CASE m \notin LockOf(s)
  <2>1. /\ Has(fromSw', Locked(s)) <=> Has(fromSw, Locked(s))
        /\ Has(fromSw', Unlocked(s)) <=> Has(fromSw, Unlocked(s))
        /\ Covered(Unlocked(s), Locked(s), fromSw)
              => Covered(Unlocked(s), Locked(s), fromSw')
    <3>1. CASE fromSw' = fromSw
      BY <3>1
    <3>2. CASE \E st \in Status : st.store # s /\ fromSw' = Append(fromSw, st)
      <4>1. PICK st \in Status : st.store # s /\ fromSw' = Append(fromSw, st)
        BY <3>2
      <4>2. st \notin Locked(s) /\ st \notin Unlocked(s)
        BY <4>1 DEF Locked, Unlocked
      <4> QED  BY <1>0, <4>1, <4>2, HasAppend, CoveredAppend
    <3> QED  BY <1>2, <1>5, <3>1, <3>2
  <2>2. \A P : P \subseteq LockOf(s) => (Has(Stream', P) <=> Has(Stream, P))
    BY <1>3, <1>5
  <2>3. /\ \A X : Has(Stream', LockOn(s, X)) <=> Has(Stream, LockOn(s, X))
        /\ Has(Stream', LockOff(s)) <=> Has(Stream, LockOff(s))
    BY <2>2, KindsOf
  <2>4. StatusTells(s)'
    BY <1>0, <1>1, <1>2, <1>5, <2>1 DEF StoreInv, StatusTells
  <2>5. OwnerComesLast(s)'
    BY <1>0, <1>1, <1>2, <1>3, <1>5, <2>1, <2>3
       DEF StoreInv, OwnerComesLast, ComesLast
  <2>6. ASSUME s \notin raced  PROVE Tracked(s)'
    <3>1. Tracked(s)
      BY <1>1, <2>6 DEF StoreInv
    <3>2. OwnerUndisturbed(s)'
      BY <1>0, <2>1, <2>3, <3>1 DEF Tracked, OwnerUndisturbed
    <3>3. FreeIsReleased(s)'
      BY <1>0, <1>2, <1>3, <1>5, <2>3, <3>1 DEF Tracked, FreeIsReleased
    <3>4. \E y \in Client \cup {None} : SoleClient(s, y)'
      BY <1>0, <1>2, <1>5, <2>3, <3>1 DEF Tracked, SoleClient
    <3> QED  BY <3>2, <3>3, <3>4 DEF Tracked
  <2> QED  BY <1>0, <1>4, <2>4, <2>5, <2>6 DEF StoreInv
<1>6. CASE m \in LockOf(s)
  <2> DEFINE st == [store |-> s, locked |-> m.on]
  <2>1. /\ m.from \in Client /\ m.on \in BOOLEAN
        /\ swBy'[s] = IF m.on THEN m.from ELSE None
        /\ fromSw' = Append(fromSw, st)
    <3>1. m.name = "LOCK"
      BY <1>6 DEF LockOf
    <3> QED  BY <1>2, <1>6, <3>1, LockFields
  <2>2. /\ st \in Status
        /\ st \in Locked(s) <=> m.on
        /\ st \in Unlocked(s) <=> ~ m.on
    BY <2>1 DEF Status, Locked, Unlocked
  <2>3. /\ m \in LockOff(s) <=> ~ m.on
        /\ \A X : m \in LockOn(s, X) <=> m.on /\ m.from \in X
    BY <1>6 DEF LockOn, LockOff
  <2> HIDE DEF st
  <2>4. /\ \A P : Has(fromSw', P) <=> Has(fromSw, P) \/ st \in P
        /\ m.on => Covered(Unlocked(s), Locked(s), fromSw')
    <3>1. \A P : Has(fromSw', P) <=> Has(fromSw, P) \/ st \in P
      BY <1>0, <2>1, <2>2, HasAppend
    <3>2. m.on => Covered(Unlocked(s), Locked(s), fromSw')
      BY <1>0, <2>1, <2>2, CoveredAppend
    <3> QED  BY <3>1, <3>2
  <2>5. StatusTells(s)'
    BY <2>1, <2>2, <2>4 DEF StatusTells
  <2>6. OwnerComesLast(s)'
    <3> SUFFICES ASSUME NEW x \in Client, locks[s].owner = x
                 PROVE  ComesLast(s, x)'
      BY <1>0 DEF OwnerComesLast
    <3>1. ComesLast(s, x)
      BY <1>1 DEF StoreInv, OwnerComesLast
    <3>2. CASE ~ m.on
      <4>1. swBy'[s] = None /\ Has(fromSw', Unlocked(s))
        BY <2>1, <2>2, <2>4, <3>2
      <4>2. \A X : m \notin LockOn(s, X)
        BY <2>3, <3>2
      <4> QED  BY <1>0, <1>3, <3>1, <4>1, <4>2 DEF ComesLast
    <3>3. CASE m.on /\ m.from = x
      <4>1. swBy'[s] = x
        BY <2>1, <3>3
      <4> QED  BY <1>0, <1>3, <3>1, <4>1 DEF ComesLast
    <3>4. CASE m.on /\ m.from # x
      <4>1. m \in LockOn(s, Client \ {x})
        BY <2>1, <2>3, <3>4
      <4>2. m \notin LockOn(s, {x})
        BY <2>3, <3>4
      <4> QED  BY <1>0, <1>3, <3>1, <4>1, <4>2 DEF ComesLast
    <3> QED  BY <2>1, <3>2, <3>3, <3>4
  <2>7. ASSUME s \notin raced  PROVE Tracked(s)'
    <3>1. Tracked(s)
      BY <1>1, <2>7 DEF StoreInv
    <3>2. OwnerUndisturbed(s)'
      <4> SUFFICES ASSUME locks[s].owner # None
                   PROVE  OwnerUndisturbed(s)'
        BY <1>0 DEF OwnerUndisturbed
      <4>1. m \notin LockOff(s)
        BY <1>3, <3>1 DEF Tracked, OwnerUndisturbed
      <4>2. st \notin Unlocked(s)
        BY <2>2, <2>3, <4>1
      <4> QED  BY <1>0, <1>3, <2>4, <3>1, <4>2 DEF Tracked, OwnerUndisturbed
    <3>3. FreeIsReleased(s)'
      <4>1. m.on => m \in LockOn(s, Client) /\ m \notin LockOff(s)
        BY <2>1, <2>3
      <4>2. ~ m.on => swBy'[s] = None
        BY <2>1
      <4> QED  BY <1>0, <1>3, <3>1, <4>1, <4>2 DEF Tracked, FreeIsReleased
    <3>4. PICK y \in Client \cup {None} : SoleClient(s, y)
      BY <3>1 DEF Tracked
    <3>5. m \notin LockOn(s, Client \ {y})
      BY <1>3, <3>4 DEF SoleClient
    <3>6. swBy'[s] \in {None, y}
      BY <2>1, <2>3, <3>5
    <3>7. SoleClient(s, y)'
      BY <1>0, <1>3, <3>4, <3>6 DEF SoleClient
    <3> QED  BY <3>2, <3>3, <3>7 DEF Tracked
  <2> QED  BY <1>0, <1>4, <2>5, <2>6, <2>7 DEF StoreInv
<1> QED  BY <1>5, <1>6

\* The upstream session is lost: what is left of the stream is in the channel,
\* and unless that or what recv and tick hold is about the store, nothing is.
LEMMA UpstreamLostKeeps ==
    ASSUME TypeOK, BrokerInv, UpstreamLost  PROVE BrokerInv'
<1> SUFFICES ASSUME NEW s \in Store  PROVE StoreInv(s)'
  BY DEF BrokerInv
<1>0. /\ UNCHANGED <<sessions, dead, recvOut, tickOut, chan>>
      /\ toSw' = <<>> /\ fromSw' = <<>> /\ swBy'[s] = None
      /\ locks'[s].owner = None /\ raced' = raced \cup Leftover
  BY DEF UpstreamLost, recvVars, tickVars, locks_clear
<1>1. StoreInv(s)
  BY DEF BrokerInv
<1>2. TickQuiet(s)' /\ StatusTells(s)'
  BY <1>0, <1>1 DEF StoreInv, TickQuiet, StatusTells
<1>3. OwnerComesLast(s)'
  BY <1>0, LocksAssumption DEF OwnerComesLast
<1>4. ASSUME s \notin raced'  PROVE Tracked(s)'
  <2>1. recvOut \in Seq(Command) /\ tickOut \in Seq(Command) /\ chan \in Seq(Command)
    BY DEF TypeOK
  <2>2. ~ Touches(recvOut, s) /\ ~ Touches(chan, s)
    BY <1>0, <1>4 DEF Leftover
  <2>3. ~ Has(recvOut, LockOf(s)) /\ ~ Has(chan, LockOf(s))
    BY <2>1, <2>2, TouchesMeans
  <2>4. Stream' = chan
    BY <1>0, <2>1 DEF Stream
  <2>5. /\ ~ Has(recvOut, LockOn(s, Client)) /\ ~ Has(chan, LockOn(s, Client))
        /\ ~ Has(chan, LockOn(s, Client \ {None}))
    BY <2>3, KindsOf DEF Has
  <2>6. Covered(LockOn(s, Client), LockOff(s), chan)
    BY <2>5 DEF Covered, Has
  <2>7. OwnerUndisturbed(s)'
    BY <1>0 DEF OwnerUndisturbed
  <2>8. FreeIsReleased(s)'
    BY <1>0, <2>4, <2>5, <2>6 DEF FreeIsReleased
  <2>9. SoleClient(s, None)'
    BY <1>0, <2>4, <2>5 DEF SoleClient
  <2> QED  BY <2>7, <2>8, <2>9 DEF Tracked
<1> QED  BY <1>2, <1>3, <1>4 DEF StoreInv

\* Uploads and subscriptions are not about a lock.
LEMMA OtherRequestsKeep ==
    ASSUME TypeOK, BrokerInv, NEW c \in Client,
           \/ \E ft \in FtName : TransferRequest(c, ft)
           \/ \E nm \in AudioName, on \in BOOLEAN : AudioRequest(c, nm, on)
    PROVE  BrokerInv'
<1> SUFFICES ASSUME NEW s \in Store  PROVE StoreInv(s)'
  BY DEF BrokerInv
<1>1. StoreInv(s)
  BY DEF BrokerInv
<1>2. /\ UNCHANGED <<sessions, dead, tickOut, Stream, fromSw, swBy, locks, raced>>
      /\ recvOut = <<>>
  <2>1. CASE \E ft \in FtName : TransferRequest(c, ft)
    BY <2>1 DEF TransferRequest, Receives, RecvIdle, tickVars, linkVars, Stream
  <2>2. CASE \E nm \in AudioName, on \in BOOLEAN : AudioRequest(c, nm, on)
    BY <2>2 DEF AudioRequest, Receives, RecvIdle, tickVars, linkVars, Stream
  <2> QED  BY <2>1, <2>2
<1>3. recvOut' = <<>> \/ \E m : m \notin LockOf(s) /\ recvOut' = <<m>>
  <2>1. ASSUME NEW ft \in FtName, TransferRequest(c, ft)
        PROVE  recvOut' \in {<<>>, <<Upload(c, ft)>>}
    BY <2>1 DEF TransferRequest
  <2>2. ASSUME NEW nm \in AudioName, NEW on \in BOOLEAN, AudioRequest(c, nm, on)
        PROVE  recvOut' \in {<<>>, <<Audio(c, nm, on)>>}
    BY <2>2 DEF AudioRequest
  <2> QED  BY <2>1, <2>2, OtherKinds
<1>4. \A P : P \subseteq LockOf(s) => (Has(recvOut', P) <=> Has(recvOut, P))
  BY <1>2, <1>3, HasShort
<1> QED  BY <1>1, <1>2, <1>4, StoreSilent

\* Every step keeps the invariant.
LEMMA BrokerStep == TypeOK /\ BrokerInv /\ [Next]_vars => BrokerInv'
<1> SUFFICES ASSUME TypeOK, BrokerInv, [Next]_vars  PROVE BrokerInv'
  OBVIOUS
<1>1. ASSUME NEW c \in Client, HelloCheck(c)  PROVE BrokerInv'
  BY <1>1, SilentStep DEF HelloCheck, filterVars, tickVars, linkVars, Stream
<1>2. CASE HelloInsert
  BY <1>2, SilentStep DEF HelloInsert, filterVars, tickVars, linkVars, Stream
<1>3. ASSUME NEW c \in Client, NEW s \in Store, NEW on \in BOOLEAN,
             LockRequest(c, s, on)
      PROVE  BrokerInv'
  BY <1>3, LockRequestKeeps
<1>4. ASSUME NEW c \in Client,
             \/ \E ft \in FtName : TransferRequest(c, ft)
             \/ \E nm \in AudioName, on \in BOOLEAN : AudioRequest(c, nm, on)
      PROVE  BrokerInv'
  BY <1>4, OtherRequestsKeep
<1>5. CASE RecvSend
  BY <1>5, RecvSendKeeps
<1>6. ASSUME NEW D \in SUBSET sessions, Expire(D)  PROVE BrokerInv'
  <2>1. /\ UNCHANGED <<recvOut, tickOut, Stream, fromSw, locks, swBy, raced>>
        /\ dead = {} /\ sessions' = sessions \ D /\ dead' = D
    BY <1>6 DEF Expire, TickIdle, filterVars, recvVars, linkVars, Stream
  <2> QED  BY <2>1, SilentStep
<1>7. ASSUME NEW c \in Client, Cleanup(c)  PROVE BrokerInv'
  BY <1>7, CleanupKeeps
<1>8. CASE TickSend
  BY <1>8, TickSendKeeps
<1>9. CASE Forward
  <2>1. Stream' = Stream
    BY <1>9, StreamForward DEF Forward
  <2>2. UNCHANGED <<sessions, dead, raced, recvOut, tickOut, fromSw, locks, swBy>>
    BY <1>9 DEF Forward, filterVars, recvVars, tickVars
  <2> QED  BY <2>1, <2>2, SilentStep
<1>10. CASE LockStatus
  BY <1>10, LockStatusKeeps
<1>11. CASE UpstreamLost
  BY <1>11, UpstreamLostKeeps
<1>12. CASE UpstreamInit
  BY <1>12, SilentStep
     DEF UpstreamInit, filterVars, recvVars, tickVars, linkVars, Stream
<1>13. CASE UpstreamReady
  BY <1>13, SilentStep
     DEF UpstreamReady, filterVars, recvVars, tickVars, linkVars, Stream
<1>14. CASE Disconnected
  <2>1. /\ UNCHANGED <<recvOut, tickOut, Stream, fromSw, locks, swBy, dead>>
        /\ raced' = raced \cup Abandoned
    BY <1>14 DEF Disconnected, recvVars, tickVars, linkVars, Stream
  <2>2. \A s \in Store : s \notin raced' => locks[s].owner \notin sessions
    BY <2>1 DEF Abandoned
  <2> QED  BY <2>1, <2>2, SilentStep
<1>15. CASE Switcher
  BY <1>15, SwitcherKeeps
<1>16. CASE UNCHANGED vars
  BY <1>16, SilentStep DEF vars, Stream
<1> QED  BY <1>1, <1>2, <1>3, <1>4, <1>5, <1>6, <1>7, <1>8, <1>9, <1>10, <1>11,
            <1>12, <1>13, <1>14, <1>15, <1>16 DEF Next

-----------------------------------------------------------------------------
(***************************************************************************)
(* In every order of events: tick only releases; the owner's lock commands *)
(* come last; the last status says what the switcher holds; and, until one *)
(* of the four races happens to a store, no release is under way against   *)
(* an owner, a store without one is being released, and a single client    *)
(* has anything to do with it.                                             *)
(***************************************************************************)
THEOREM BrokerInvariant == Spec => []BrokerInv
<1>1. Init => BrokerInv
  <2> SUFFICES ASSUME Init, NEW s \in Store  PROVE StoreInv(s)
    BY DEF BrokerInv
  <2>1. /\ recvOut = <<>> /\ tickOut = <<>> /\ fromSw = <<>>
        /\ locks[s].owner = None /\ swBy[s] = None
    BY DEF Init, locks_clear
  <2>2. Stream = <<>>
    BY DEF Init, Stream
  <2>3. TickQuiet(s) /\ StatusTells(s) /\ OwnerComesLast(s)
    BY <2>1, HasShort, LocksAssumption
       DEF TickQuiet, StatusTells, OwnerComesLast
  <2>4. OwnerUndisturbed(s) /\ FreeIsReleased(s)
    BY <2>1, <2>2, HasShort DEF OwnerUndisturbed, FreeIsReleased
  <2>5. SoleClient(s, None)
    BY <2>1, <2>2, HasShort DEF SoleClient
  <2> QED  BY <2>3, <2>4, <2>5 DEF StoreInv, Tracked
<1>2. TypeOK /\ BrokerInv /\ [Next]_vars => BrokerInv'
  BY BrokerStep
<1> QED  BY <1>1, <1>2, TypeCorrect, PTL DEF Spec

(***************************************************************************)
(* The client the broker has as the owner of a settled store is the one    *)
(* the switcher holds it for, in every order of events.                    *)
(***************************************************************************)
THEOREM OwnersHoldTheirLocks == Spec => []OwnerHoldsLock
<1>1. TypeOK /\ BrokerInv => OwnerHoldsLock
  <2> SUFFICES ASSUME TypeOK, BrokerInv, NEW s \in Store, Settled(s),
                      locks[s].owner # None
               PROVE  swBy[s] = locks[s].owner
    BY DEF OwnerHoldsLock
  <2>1. locks[s].owner \in Client
    BY DEF TypeOK, LockTable, StoreLock
  <2>2. ComesLast(s, locks[s].owner)
    BY <2>1 DEF BrokerInv, StoreInv, OwnerComesLast
  <2>3. /\ ~ Has(recvOut, LockOf(s)) /\ ~ Has(Stream, LockOf(s))
        /\ ~ Has(fromSw, Unlocked(s))
    BY UnderWayMeans
  <2>4. \A X : ~ Has(recvOut, LockOn(s, X)) /\ ~ Has(Stream, LockOn(s, X))
    BY <2>3, KindsOf DEF Has
  <2> QED  BY <2>2, <2>3, <2>4 DEF ComesLast
<1> QED  BY <1>1, TypeCorrect, BrokerInvariant, PTL

(***************************************************************************)
(* A settled store that no race has happened to has the same owner in the  *)
(* broker as at the switcher, none included.                               *)
(***************************************************************************)
THEOREM BrokerAgreesWithSwitcher == Spec => []BrokerAgrees
<1>1. TypeOK /\ BrokerInv /\ OwnerHoldsLock => BrokerAgrees
  <2> SUFFICES ASSUME TypeOK, BrokerInv, OwnerHoldsLock,
                      NEW s \in Store \ raced, Settled(s)
               PROVE  locks[s].owner = swBy[s]
    BY DEF BrokerAgrees
  <2>1. CASE locks[s].owner # None
    BY <2>1 DEF OwnerHoldsLock
  <2>2. CASE locks[s].owner = None
    <3>1. FreeIsReleased(s)
      BY DEF BrokerInv, StoreInv, Tracked
    <3>2. /\ ~ Has(recvOut, LockOf(s)) /\ ~ Has(tickOut, LockOf(s))
          /\ ~ Has(Stream, LockOf(s))
      BY UnderWayMeans
    <3>3. /\ ~ Has(recvOut, LockOff(s)) /\ ~ Has(tickOut, LockOff(s))
          /\ ~ Has(Stream, LockOff(s))
      BY <3>2, KindsOf DEF Has
    <3> QED  BY <2>2, <3>1, <3>3 DEF FreeIsReleased
  <2> QED  BY <2>1, <2>2
<1> QED  BY <1>1, TypeCorrect, BrokerInvariant, OwnersHoldTheirLocks, PTL

(***************************************************************************)
(* While the switcher holds a store, to which no race has happened, for a  *)
(* client that is gone, the unlock is between tick and the switcher.       *)
(***************************************************************************)
THEOREM GoneClientsAreReleased == Spec => []ReleaseIsUnderWay
<1>1. TypeOK /\ BrokerInv => ReleaseIsUnderWay
  <2> SUFFICES ASSUME TypeOK, BrokerInv, NEW s \in Store \ raced,
                      swBy[s] \notin sessions \cup dead \cup {None}
               PROVE  UnlockUnderWay(s)
    BY DEF ReleaseIsUnderWay
  <2>1. Tracked(s)
    BY DEF BrokerInv, StoreInv
  <2>2. locks[s].owner = None
    BY <2>1 DEF Tracked, SoleClient, OwnerUndisturbed
  <2>3. \/ Has(recvOut, LockOff(s)) \/ Has(tickOut, LockOff(s))
        \/ Has(Stream, LockOff(s))
    BY <2>1, <2>2 DEF Tracked, FreeIsReleased
  <2> QED  BY <2>3, UnderWayMeans
<1> QED  BY <1>1, TypeCorrect, BrokerInvariant, PTL

-----------------------------------------------------------------------------
\* A step that leaves the switcher alone changes the holders by giving up the
\* stores that a race happens to.
LEMMA RacesGiveUp ==
    ASSUME raced \subseteq raced', swBy' = swBy, raced' \in SUBSET Store
    PROVE  LockSrv!Next
<1>1. Holder' = [s \in Store |-> IF s \in raced' THEN None ELSE Holder[s]]
  BY DEF Holder
<1>2. LockSrv!Release(raced')
  BY <1>1 DEF LockSrv!Release
<1> QED  BY <1>2 DEF LockSrv!Next

(***************************************************************************)
(* Seen from the switcher, and as long as no race happens to a store, the  *)
(* proxy is a lock service: a store is granted only while it is free.      *)
(***************************************************************************)
THEOREM ProxyImplementsLockService == Spec => ImplementsLockService
<1>1. Init => LockSrv!Init
  BY DEF Init, LockSrv!Init, Holder
<1>2. TypeOK /\ TypeOK' /\ BrokerInv /\ [Next]_vars => [LockSrv!Next]_Holder
  <2> SUFFICES ASSUME TypeOK, TypeOK', BrokerInv, [Next]_vars
               PROVE  [LockSrv!Next]_Holder
    OBVIOUS
  <2>1. CASE Switcher
    <3> DEFINE m == Head(toSw)
    <3>1. /\ raced' = raced /\ swBy \in [Store -> Client \cup {None}]
          /\ swBy' \in [Store -> Client \cup {None}]
      BY <2>1 DEF Switcher, filterVars, TypeOK
    <3>2. \A s \in Store :
             /\ m \in Command
             /\ m \notin LockOf(s) => swBy'[s] = swBy[s]
             /\ m \in LockOf(s) => swBy'[s] = IF m.on THEN m.from ELSE None
      BY <2>1, SwitcherMeans
    <3>3. \A P : m \in P => Has(Stream, P)
      <4>1. toSw # <<>> /\ toSw' = Tail(toSw) /\ chan' = chan
        BY <2>1 DEF Switcher
      <4>2. Stream \in Seq(Command) /\ Stream # <<>> /\ Head(Stream) = m
        BY <4>1, StreamSwitcher
      <4> HIDE DEF m
      <4> QED  BY <4>2, HasHeadTail
    <3> HIDE DEF m
    <3>4. CASE \A s \in Store \ raced : m \notin LockOf(s)
      <4>1. Holder' = Holder
        BY <3>1, <3>2, <3>4 DEF Holder
      <4> QED  BY <4>1
    <3>5. ASSUME NEW s \in Store \ raced, m \in LockOf(s)
          PROVE  [LockSrv!Next]_Holder
      <4>1. /\ m.from \in Client /\ m.on \in BOOLEAN
            /\ \A r \in Store : m \in LockOf(r) => r = s
        <5>1. m \in Command /\ m.name = "LOCK" /\ m.store = s
          BY <3>5 DEF LockOf
        <5>2. m.from \in Client /\ m.on \in BOOLEAN
          BY <5>1, LockFields
        <5> QED  BY <5>1, <5>2 DEF LockOf
      <4>2. \A r \in Store : r # s => swBy'[r] = swBy[r]
        BY <3>2, <4>1
      <4>3. CASE ~ m.on
        <5>1. Holder' = [r \in Store |-> IF r \in {s} THEN None ELSE Holder[r]]
          BY <3>1, <3>2, <3>5, <4>2, <4>3 DEF Holder
        <5>2. LockSrv!Release({s})
          BY <5>1 DEF LockSrv!Release
        <5> QED  BY <5>2 DEF LockSrv!Next
      <4>4. CASE m.on
        <5>1. PICK y \in Client \cup {None} : SoleClient(s, y)
          BY DEF BrokerInv, StoreInv, Tracked
        <5>2. m.from = y
          <6>1. m \notin LockOn(s, Client \ {y})
            BY <3>3, <5>1 DEF SoleClient
          <6> QED  BY <3>5, <4>1, <4>4, <6>1 DEF LockOn
        <5>3. swBy'[s] = m.from
          BY <3>2, <3>5, <4>4
        <5>4. CASE swBy[s] = None
          <6>1. Holder[s] = None
            BY <5>4 DEF Holder
          <6>2. Holder' = [Holder EXCEPT ![s] = m.from]
            BY <3>1, <4>2, <5>3 DEF Holder
          <6>3. LockSrv!Grant(m.from, s)
            BY <6>1, <6>2 DEF LockSrv!Grant
          <6> QED  BY <4>1, <6>3 DEF LockSrv!Next
        <5>5. CASE swBy[s] = m.from
          <6>1. \A r \in Store : swBy'[r] = swBy[r]
            BY <4>2, <5>3, <5>5
          <6>2. Holder' = Holder
            BY <3>1, <6>1 DEF Holder
          <6> QED  BY <6>2
        <5> QED  BY <5>1, <5>2, <5>4, <5>5 DEF SoleClient
      <4> QED  BY <4>1, <4>3, <4>4
    <3> QED  BY <3>4, <3>5
  <2>2. CASE UpstreamLost
    <3>1. \A s \in Store : swBy'[s] = None
      BY <2>2 DEF UpstreamLost
    <3>2. Holder' = [s \in Store |-> IF s \in Store THEN None ELSE Holder[s]]
      BY <3>1 DEF Holder
    <3>3. LockSrv!Release(Store)
      BY <3>2 DEF LockSrv!Release
    <3> QED  BY <3>3 DEF LockSrv!Next
  <2>3. CASE ~ Switcher /\ ~ UpstreamLost
    <3>1. swBy' = swBy /\ raced \subseteq raced'
      BY <2>3 DEF Next, vars, HelloCheck, HelloInsert, LockRequest, Receives,
             TransferRequest, AudioRequest, RecvSend, Expire, Cleanup, TickSend,
             Forward, LockStatus, UpstreamInit, UpstreamReady, Disconnected,
             filterVars, linkVars
    <3>2. raced' \in SUBSET Store
      BY DEF TypeOK
    <3> QED  BY <3>1, <3>2, RacesGiveUp
  <2> QED  BY <2>1, <2>2, <2>3
<1> QED
  BY <1>1, <1>2, TypeCorrect, BrokerInvariant, PTL
     DEF Spec, ImplementsLockService, LockSrv!Spec
=============================================================================
