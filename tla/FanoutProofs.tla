---------------------------- MODULE FanoutProofs ----------------------------
(***************************************************************************)
(* Proofs about Fanout, for every set of clients, keys and values, every   *)
(* capacity of the broadcast ring and every number of changes and losses.  *)
(*                                                                         *)
(* Everything a client will apply is a concatenation, and the last word of *)
(* a concatenation is that of its last part that speaks of the key at all. *)
(* The lemmas of the first section say so; with them each action is a      *)
(* matter of which part grows and which loses its head.                    *)
(***************************************************************************)
EXTENDS Fanout, SequenceTheorems, TLAPS

-----------------------------------------------------------------------------
(* Last words. *)

\* The last word of s \o t is that of t, or that of s when t is quiet.
LEMMA ConcatWord ==
    ASSUME NEW s \in Seq(Msg), NEW t \in Seq(Msg), NEW k \in Key,
           NEW v, v # Unset
    PROVE  LastWord(s \o t, k, v)
             <=> (LastWord(t, k, v) \/ (Quiet(t, k) /\ LastWord(s, k, v)))
<1> DEFINE u == s \o t
<1>1. /\ Len(s) \in Nat /\ Len(t) \in Nat /\ Len(u) = Len(s) + Len(t)
      /\ \A i \in 1..Len(s) : u[i] = s[i]
      /\ \A i \in 1..Len(t) : u[Len(s) + i] = t[i]
  BY LenProperties, ConcatProperties
<1>2. \A i \in 1..Len(u) : i > Len(s) => i - Len(s) \in 1..Len(t)
                                         /\ u[i] = t[i - Len(s)]
  BY <1>1
<1> HIDE DEF u
<1>3. ASSUME LastWord(u, k, v)
      PROVE  LastWord(t, k, v) \/ (Quiet(t, k) /\ LastWord(s, k, v))
  <2>1. PICK i \in 1..Len(u) : /\ u[i].map[k] = v
                               /\ \A j \in i+1..Len(u) : u[j].map[k] = Unset
    BY <1>3 DEF LastWord
  <2>2. CASE i > Len(s)
    <3>1. i - Len(s) \in 1..Len(t) /\ t[i - Len(s)].map[k] = v
      BY <1>2, <2>1, <2>2
    <3>2. \A j \in (i - Len(s)) + 1..Len(t) : t[j].map[k] = Unset
      <4> TAKE j \in (i - Len(s)) + 1..Len(t)
      <4>1. Len(s) + j \in i+1..Len(u) /\ j \in 1..Len(t)
        BY <1>1, <2>1, <2>2
      <4> QED  BY <4>1, <2>1, <1>1
    <3> QED  BY <3>1, <3>2 DEF LastWord
  <2>3. CASE i <= Len(s)
    <3>1. i \in 1..Len(s) /\ s[i].map[k] = v
      BY <1>1, <2>1, <2>3
    <3>2. \A j \in i+1..Len(s) : s[j].map[k] = Unset
      BY <1>1, <2>1
    <3>3. \A j \in 1..Len(t) : t[j].map[k] = Unset
      <4> TAKE j \in 1..Len(t)
      <4>1. Len(s) + j \in i+1..Len(u)
        BY <1>1, <2>1, <2>3
      <4> QED  BY <4>1, <2>1, <1>1
    <3> QED  BY <3>1, <3>2, <3>3 DEF LastWord, Quiet
  <2> QED  BY <2>2, <2>3, <1>1
<1>4. ASSUME LastWord(t, k, v)
      PROVE  LastWord(u, k, v)
  <2>1. PICK i \in 1..Len(t) : /\ t[i].map[k] = v
                               /\ \A j \in i+1..Len(t) : t[j].map[k] = Unset
    BY <1>4 DEF LastWord
  <2>2. Len(s) + i \in 1..Len(u) /\ u[Len(s) + i].map[k] = v
    BY <1>1, <2>1
  <2>3. \A j \in (Len(s) + i) + 1..Len(u) : u[j].map[k] = Unset
    <3> TAKE j \in (Len(s) + i) + 1..Len(u)
    <3>1. j - Len(s) \in i+1..Len(t) /\ j \in 1..Len(u) /\ j > Len(s)
      BY <1>1, <2>1
    <3> QED  BY <3>1, <2>1, <1>2
  <2> QED  BY <2>2, <2>3 DEF LastWord
<1>5. ASSUME Quiet(t, k), LastWord(s, k, v)
      PROVE  LastWord(u, k, v)
  <2>1. PICK i \in 1..Len(s) : /\ s[i].map[k] = v
                               /\ \A j \in i+1..Len(s) : s[j].map[k] = Unset
    BY <1>5 DEF LastWord
  <2>2. i \in 1..Len(u) /\ u[i].map[k] = v
    BY <1>1, <2>1
  <2>3. \A j \in i+1..Len(u) : u[j].map[k] = Unset
    <3> TAKE j \in i+1..Len(u)
    <3>1. CASE j <= Len(s)
      BY <1>1, <2>1, <3>1
    <3>2. CASE j > Len(s)
      BY <1>1, <1>2, <1>5, <3>2, <2>1 DEF Quiet
    <3> QED  BY <3>1, <3>2, <1>1, <2>1
  <2> QED  BY <2>2, <2>3 DEF LastWord
<1> QED  BY <1>3, <1>4, <1>5 DEF u

\* A concatenation is quiet when both parts are.
LEMMA ConcatQuiet ==
    ASSUME NEW s \in Seq(Msg), NEW t \in Seq(Msg), NEW k \in Key
    PROVE  Quiet(s \o t, k) <=> (Quiet(s, k) /\ Quiet(t, k))
<1> DEFINE u == s \o t
<1>1. /\ Len(s) \in Nat /\ Len(t) \in Nat /\ Len(u) = Len(s) + Len(t)
      /\ \A i \in 1..Len(s) : u[i] = s[i]
      /\ \A i \in 1..Len(t) : u[Len(s) + i] = t[i]
  BY LenProperties, ConcatProperties
<1>2. \A i \in 1..Len(u) : i > Len(s) => i - Len(s) \in 1..Len(t)
                                         /\ u[i] = t[i - Len(s)]
  BY <1>1
<1> HIDE DEF u
<1>3. ASSUME Quiet(u, k)  PROVE Quiet(s, k) /\ Quiet(t, k)
  <2>1. \A i \in 1..Len(s) : i \in 1..Len(u)
    BY <1>1
  <2>2. \A i \in 1..Len(t) : Len(s) + i \in 1..Len(u)
    BY <1>1
  <2> QED  BY <1>1, <1>3, <2>1, <2>2 DEF Quiet
<1>4. ASSUME Quiet(s, k), Quiet(t, k)  PROVE Quiet(u, k)
  <2> SUFFICES ASSUME NEW i \in 1..Len(u)  PROVE u[i].map[k] = Unset
    BY DEF Quiet
  <2>1. CASE i <= Len(s)
    BY <1>1, <1>4, <2>1 DEF Quiet
  <2>2. CASE i > Len(s)
    BY <1>2, <1>4, <2>2 DEF Quiet
  <2> QED  BY <2>1, <2>2, <1>1
<1> QED  BY <1>3, <1>4 DEF u

\* One message, and none.
LEMMA OneMessage ==
    ASSUME NEW m \in Msg, NEW k \in Key, NEW v
    PROVE  /\ LastWord(<<m>>, k, v) <=> m.map[k] = v
           /\ Quiet(<<m>>, k) <=> m.map[k] = Unset
           /\ Quiet(<<>>, k)
           /\ ~ LastWord(<<>>, k, v)
           /\ <<m>> \in Seq(Msg)
<1>1. Len(<<m>>) = 1 /\ <<m>>[1] = m /\ <<m>> \in Seq(Msg)
  OBVIOUS
<1>2. Len(<<>>) = 0
  OBVIOUS
<1> QED  BY <1>1, <1>2 DEF LastWord, Quiet

\* A sequence is its head and its tail, and Append puts a message behind it.
LEMMA Parts ==
    ASSUME NEW s \in Seq(Msg)
    PROVE  /\ s # <<>> => /\ Head(s) \in Msg /\ Tail(s) \in Seq(Msg)
                          /\ s = <<Head(s)>> \o Tail(s)
           /\ \A m \in Msg : Append(s, m) = s \o <<m>>
                             /\ Append(s, m) \in Seq(Msg)
<1>1. s # <<>> => Head(s) \in Msg /\ Tail(s) \in Seq(Msg)
  BY HeadTailProperties
<1>2. s # <<>> => s = <<Head(s)>> \o Tail(s)
  OBVIOUS
<1>3. \A m \in Msg : Append(s, m) = s \o <<m>> /\ Append(s, m) \in Seq(Msg)
  BY AppendIsConcat, AppendProperties
<1> QED  BY <1>1, <1>2, <1>3

-----------------------------------------------------------------------------
(* What is under way. *)

\* Losing the head keeps what was fresh and empty; what leaves with the tail
\* or the head leaves with the whole.
LEMMA TailStaysFresh ==
    ASSUME NEW s \in Seq(Msg), s # <<>>, NEW ch \in State,
           Fresh(s, ch), SignalsAreEmpty(s)
    PROVE  /\ Fresh(Tail(s), ch)
           /\ SignalsAreEmpty(Tail(s))
           /\ Leaving(s) <=> (Head(s).kind = "disconnected" \/ Leaving(Tail(s)))
<1> DEFINE t == Tail(s)
<1>1. /\ t \in Seq(Msg) /\ Len(t) \in Nat /\ Len(s) = Len(t) + 1
      /\ Head(s) = s[1]
      /\ \A i \in 1..Len(t) : t[i] = s[i + 1]
  BY HeadTailProperties, LenProperties
<1>2. /\ Head(s) \in Msg /\ s = <<Head(s)>> \o t
  BY Parts
<1> HIDE DEF t
<1>3. \A k \in Key : Quiet(t, k) \/ \E v \in Value : LastWord(t, k, v)
  <2> TAKE k \in Key
  <2>1. CASE Quiet(s, k)
    BY <2>1, <1>1, <1>2, ConcatQuiet, OneMessage
  <2>2. CASE \E v \in Value : LastWord(s, k, v)
    <3>1. PICK v \in Value : LastWord(s, k, v)
      BY <2>2
    <3>2. v # Unset
      BY FanoutAssumption
    <3>3. <<Head(s)>> \in Seq(Msg)
      BY <1>2
    <3>4. LastWord(<<Head(s)>> \o t, k, v)
      BY <3>1, <1>2
    <3>5. LastWord(t, k, v) \/ Quiet(t, k)
      BY <3>2, <3>3, <3>4, <1>1, ConcatWord
    <3> QED  BY <3>5
  <2> QED  BY <2>1, <2>2 DEF Fresh
<1>4. \A k \in Key, i \in 1..Len(t) :
         (/\ t[i].map[k] # Unset
          /\ \A j \in i+1..Len(t) : /\ t[j].map[k] = Unset
                                     /\ t[j].kind # "disconnected")
             => t[i].map[k] = ch[k]
  <2> TAKE k \in Key, i \in 1..Len(t)
  <2> HAVE /\ t[i].map[k] # Unset
           /\ \A j \in i+1..Len(t) : /\ t[j].map[k] = Unset
                                      /\ t[j].kind # "disconnected"
  <2>1. i + 1 \in 1..Len(s) /\ t[i] = s[i + 1]
    BY <1>1
  <2>2. \A j \in (i + 1) + 1..Len(s) : /\ s[j].map[k] = Unset
                                        /\ s[j].kind # "disconnected"
    <3> TAKE j \in (i + 1) + 1..Len(s)
    <3>1. j - 1 \in i+1..Len(t) /\ j - 1 \in 1..Len(t) /\ (j - 1) + 1 = j
      BY <1>1
    <3>2. t[j - 1] = s[j]
      BY <3>1, <1>1
    <3> QED  BY <3>1, <3>2
  <2> QED  BY <2>1, <2>2 DEF Fresh
<1>5. SignalsAreEmpty(t)
  <2>1. \A i \in 1..Len(t) : i + 1 \in 1..Len(s)
    BY <1>1
  <2> QED  BY <1>1, <2>1 DEF SignalsAreEmpty
<1>6. ASSUME Leaving(s)  PROVE Head(s).kind = "disconnected" \/ Leaving(t)
  <2>1. PICK i \in 1..Len(s) : s[i].kind = "disconnected"
    BY <1>6 DEF Leaving
  <2>2. CASE i = 1
    BY <1>1, <2>1, <2>2
  <2>3. CASE i # 1
    <3>1. i - 1 \in 1..Len(t) /\ (i - 1) + 1 = i
      BY <1>1, <2>1, <2>3
    <3>2. t[i - 1] = s[i]
      BY <3>1, <1>1
    <3> QED  BY <3>1, <3>2, <2>1 DEF Leaving
  <2> QED  BY <2>2, <2>3
<1>7. ASSUME Head(s).kind = "disconnected" \/ Leaving(t)  PROVE Leaving(s)
  <2>1. 1 \in 1..Len(s) /\ \A i \in 1..Len(t) : i + 1 \in 1..Len(s)
    BY <1>1
  <2> QED  BY <1>1, <1>7, <2>1 DEF Leaving
<1> QED  BY <1>3, <1>4, <1>5, <1>6, <1>7 DEF Fresh, t

\* A new message that agrees with the new contents of the cache keeps what is
\* under way fresh; a Disconnected makes the past irrelevant.
LEMMA AppendStaysFresh ==
    ASSUME NEW s \in Seq(Msg), NEW m \in Msg, NEW ch, NEW ch2,
           Fresh(s, ch), SignalsAreEmpty(s),
           m.kind # "state" => m.map = Nothing,
           \A k \in Key : m.map[k] # Unset => ch2[k] = m.map[k],
           \A k \in Key : m.map[k] = Unset /\ m.kind # "disconnected"
                             => ch2[k] = ch[k]
    PROVE  /\ Fresh(Append(s, m), ch2)
           /\ SignalsAreEmpty(Append(s, m))
           /\ Leaving(Append(s, m)) <=> (m.kind = "disconnected" \/ Leaving(s))
<1> DEFINE u == Append(s, m)
<1>1. /\ u \in Seq(Msg) /\ Len(s) \in Nat /\ Len(u) = Len(s) + 1
      /\ u[Len(u)] = m
      /\ \A i \in 1..Len(s) : u[i] = s[i]
  BY AppendProperties, LenProperties
<1>2. u = s \o <<m>> /\ <<m>> \in Seq(Msg)
  BY AppendIsConcat
<1> HIDE DEF u
<1>3. \A k \in Key : Quiet(u, k) \/ \E v \in Value : LastWord(u, k, v)
  <2> TAKE k \in Key
  <2>1. CASE m.map[k] # Unset
    <3>1. m.map[k] \in Value
      BY <2>1 DEF Msg, State
    <3> QED  BY <3>1, <2>1, <1>2, ConcatWord, OneMessage
  <2>2. CASE m.map[k] = Unset
    <3>1. Quiet(<<m>>, k)
      BY <2>2, OneMessage
    <3>2. CASE Quiet(s, k)
      BY <3>1, <3>2, <1>2, ConcatQuiet
    <3>3. CASE \E v \in Value : LastWord(s, k, v)
      <4>1. PICK v \in Value : LastWord(s, k, v)
        BY <3>3
      <4>2. v # Unset
        BY FanoutAssumption
      <4> QED  BY <4>1, <4>2, <3>1, <1>2, ConcatWord
    <3> QED  BY <3>2, <3>3 DEF Fresh
  <2> QED  BY <2>1, <2>2
<1>4. \A k \in Key, i \in 1..Len(u) :
         (/\ u[i].map[k] # Unset
          /\ \A j \in i+1..Len(u) : /\ u[j].map[k] = Unset
                                     /\ u[j].kind # "disconnected")
             => u[i].map[k] = ch2[k]
  <2> TAKE k \in Key, i \in 1..Len(u)
  <2> HAVE /\ u[i].map[k] # Unset
           /\ \A j \in i+1..Len(u) : /\ u[j].map[k] = Unset
                                      /\ u[j].kind # "disconnected"
  <2>1. CASE i = Len(u)
    BY <2>1, <1>1
  <2>2. CASE i # Len(u)
    <3>1. i \in 1..Len(s) /\ Len(u) \in i+1..Len(u) /\ u[i] = s[i]
      BY <2>2, <1>1
    <3>2. m.map[k] = Unset /\ m.kind # "disconnected"
      BY <3>1, <1>1
    <3>3. \A j \in i+1..Len(s) : /\ s[j].map[k] = Unset
                                 /\ s[j].kind # "disconnected"
      <4> TAKE j \in i+1..Len(s)
      <4>1. j \in i+1..Len(u) /\ j \in 1..Len(s)
        BY <3>1, <1>1
      <4> QED  BY <4>1, <1>1
    <3>4. s[i].map[k] = ch[k]
      BY <3>1, <3>3 DEF Fresh
    <3> QED  BY <3>1, <3>2, <3>4
  <2> QED  BY <2>1, <2>2
<1>5. SignalsAreEmpty(u)
  <2> SUFFICES ASSUME NEW i \in 1..Len(u), u[i].kind # "state"
               PROVE  u[i].map = Nothing
    BY DEF SignalsAreEmpty
  <2>1. CASE i = Len(u)
    BY <1>1, <2>1
  <2>2. CASE i # Len(u)
    <3>1. i \in 1..Len(s)
      BY <1>1, <2>2
    <3> QED  BY <3>1, <1>1 DEF SignalsAreEmpty
  <2> QED  BY <2>1, <2>2
<1>6. ASSUME Leaving(u)  PROVE m.kind = "disconnected" \/ Leaving(s)
  <2>1. PICK i \in 1..Len(u) : u[i].kind = "disconnected"
    BY <1>6 DEF Leaving
  <2>2. CASE i = Len(u)
    BY <1>1, <2>1, <2>2
  <2>3. CASE i # Len(u)
    <3>1. i \in 1..Len(s)
      BY <1>1, <2>3
    <3> QED  BY <3>1, <1>1, <2>1 DEF Leaving
  <2> QED  BY <2>2, <2>3
<1>7. ASSUME m.kind = "disconnected" \/ Leaving(s)  PROVE Leaving(u)
  <2>1. Len(u) \in 1..Len(u) /\ \A i \in 1..Len(s) : i \in 1..Len(u)
    BY <1>1
  <2> QED  BY <1>1, <1>7, <2>1 DEF Leaving
<1> QED  BY <1>3, <1>4, <1>5, <1>6, <1>7 DEF Fresh, u

\* What is fresh and not leaving is silent about a key or ends with its cached
\* value.
LEMMA FreshWord ==
    ASSUME NEW s \in Seq(Msg), NEW ch, Fresh(s, ch), ~ Leaving(s), NEW k \in Key
    PROVE  Quiet(s, k) \/ LastWord(s, k, ch[k])
<1> SUFFICES ASSUME ~ Quiet(s, k)  PROVE LastWord(s, k, ch[k])
  OBVIOUS
<1>1. PICK v \in Value : LastWord(s, k, v)
  BY DEF Fresh
<1>2. PICK i \in 1..Len(s) : /\ s[i].map[k] = v
                             /\ \A j \in i+1..Len(s) : s[j].map[k] = Unset
  BY <1>1 DEF LastWord
<1>3. Len(s) \in Nat /\ v # Unset
  BY LenProperties, FanoutAssumption
<1>4. \A j \in i+1..Len(s) : j \in 1..Len(s)
  BY <1>2, <1>3
<1>5. s[i].map[k] = ch[k]
  BY <1>2, <1>3, <1>4 DEF Fresh, Leaving
<1> QED  BY <1>2, <1>5 DEF LastWord

\* The ring and the events yet to be sent are one flow: taking the oldest
\* event takes its head, sending moves nothing, an overflow loses the head, and
\* a new event goes behind it.
LEMMA OneFlow ==
    ASSUME NEW e \in Seq(Msg), NEW p \in Seq(Msg)
    PROVE  /\ e \o p \in Seq(Msg)
           /\ e # <<>> => /\ e \o p # <<>> /\ Head(e \o p) = Head(e)
                          /\ Tail(e) \o p = Tail(e \o p)
           /\ p # <<>> => /\ e \o p # <<>>
                          /\ Append(e, Head(p)) \o Tail(p) = e \o p
                          /\ Tail(Append(e, Head(p))) \o Tail(p) = Tail(e \o p)
           /\ p = <<>> => \A m \in Msg : e \o <<m>> = Append(e \o p, m)
<1>1. e \o p \in Seq(Msg)
  OBVIOUS
<1>2. ASSUME e # <<>>
      PROVE  /\ e \o p # <<>> /\ Head(e \o p) = Head(e)
             /\ Tail(e) \o p = Tail(e \o p)
  BY <1>2
<1>3. ASSUME p # <<>>
      PROVE  /\ e \o p # <<>>
             /\ Append(e, Head(p)) \o Tail(p) = e \o p
             /\ Tail(Append(e, Head(p))) \o Tail(p) = Tail(e \o p)
  <2>1. /\ Head(p) \in Msg /\ Tail(p) \in Seq(Msg)
    BY <1>3, Parts
  <2>2. e \o p # <<>>
    BY <1>3
  <2>3. Append(e, Head(p)) \o Tail(p) = e \o p
    <3>1. Append(e, Head(p)) = e \o <<Head(p)>> /\ p = <<Head(p)>> \o Tail(p)
      BY <1>3, <2>1, Parts
    <3>2. (e \o <<Head(p)>>) \o Tail(p) = e \o (<<Head(p)>> \o Tail(p))
      BY <2>1, ConcatAssociative
    <3> QED  BY <3>1, <3>2
  <2>4. Tail(Append(e, Head(p))) \o Tail(p) = Tail(Append(e, Head(p)) \o Tail(p))
    <3> DEFINE r == Append(e, Head(p))  t == Tail(p)
    <3>1. r # <<>> /\ r \in Seq(Msg) /\ t \in Seq(Msg)
      BY <2>1
    <3> HIDE DEF r, t
    <3>2. Tail(r) \o t = Tail(r \o t)
      BY <3>1
    <3> QED  BY <3>2 DEF r, t
  <2> QED  BY <2>2, <2>3, <2>4
<1>4. ASSUME p = <<>>
      PROVE  \A m \in Msg : e \o <<m>> = Append(e \o p, m)
  <2>1. e \o p = e
    BY <1>4
  <2> QED  BY <2>1, Parts
<1> QED  BY <1>1, <1>2, <1>3, <1>4

-----------------------------------------------------------------------------
(* The words of the parts. *)

\* A client's stream speaks last through its last part that speaks.
Says(V, q, r, F, k, v) ==
    \/ LastWord(F, k, v)
    \/ Quiet(F, k) /\ LastWord(r, k, v)
    \/ Quiet(F, k) /\ Quiet(r, k) /\ LastWord(q, k, v)
    \/ Quiet(F, k) /\ Quiet(r, k) /\ Quiet(q, k) /\ V[k] = v

\* ... which is what the last word of the concatenation is.
LEMMA StreamWord ==
    ASSUME NEW V \in State, NEW q \in Seq(Msg), NEW r \in Seq(Msg),
           NEW F \in Seq(Msg), NEW k \in Key, NEW v, v # Unset
    PROVE  LastWord(<<StateMsg(V)>> \o q \o r \o F, k, v)
             <=> Says(V, q, r, F, k, v)
<1> DEFINE h == <<StateMsg(V)>>
<1>1. StateMsg(V) \in Msg /\ StateMsg(V).map = V
  BY DEF StateMsg, Msg, Kind
<1>2. h \in Seq(Msg) /\ (LastWord(h, k, v) <=> V[k] = v)
  BY <1>1, OneMessage
<1> HIDE DEF h
<1>3. h \o q \in Seq(Msg) /\ h \o q \o r \in Seq(Msg)
  BY <1>2, ConcatProperties
<1>4. LastWord(h \o q \o r \o F, k, v)
        <=> (LastWord(F, k, v) \/ (Quiet(F, k) /\ LastWord(h \o q \o r, k, v)))
  BY <1>3, ConcatWord
<1>5. LastWord(h \o q \o r, k, v)
        <=> (LastWord(r, k, v) \/ (Quiet(r, k) /\ LastWord(h \o q, k, v)))
  BY <1>3, ConcatWord
<1>6. LastWord(h \o q, k, v)
        <=> (LastWord(q, k, v) \/ (Quiet(q, k) /\ LastWord(h, k, v)))
  BY <1>2, ConcatWord
<1> QED  BY <1>2, <1>4, <1>5, <1>6 DEF h, Says

\* A sequence with a head speaks through its tail, or through its head when the
\* tail is quiet.
LEMMA HeadWord ==
    ASSUME NEW s \in Seq(Msg), s # <<>>, NEW k \in Key, NEW v, v # Unset
    PROVE  /\ LastWord(s, k, v) <=> \/ LastWord(Tail(s), k, v)
                                    \/ Quiet(Tail(s), k) /\ Head(s).map[k] = v
           /\ Quiet(s, k) <=> Head(s).map[k] = Unset /\ Quiet(Tail(s), k)
<1> DEFINE h == <<Head(s)>>  t == Tail(s)
<1>1. h \in Seq(Msg) /\ t \in Seq(Msg) /\ s = h \o t
      /\ (LastWord(h, k, v) <=> Head(s).map[k] = v)
      /\ (Quiet(h, k) <=> Head(s).map[k] = Unset)
  BY Parts, OneMessage
<1> HIDE DEF h, t
<1>2. LastWord(h \o t, k, v)
        <=> (LastWord(t, k, v) \/ (Quiet(t, k) /\ LastWord(h, k, v)))
  BY <1>1, ConcatWord
<1>3. Quiet(h \o t, k) <=> (Quiet(h, k) /\ Quiet(t, k))
  BY <1>1, ConcatQuiet
<1> QED  BY <1>1, <1>2, <1>3 DEF t

\* ... and one with a message behind it.
LEMMA AppendWord ==
    ASSUME NEW s \in Seq(Msg), NEW m \in Msg, NEW k \in Key, NEW v, v # Unset
    PROVE  /\ LastWord(Append(s, m), k, v)
                <=> m.map[k] = v \/ (m.map[k] = Unset /\ LastWord(s, k, v))
           /\ Quiet(Append(s, m), k) <=> Quiet(s, k) /\ m.map[k] = Unset
<1>1. Append(s, m) = s \o <<m>> /\ <<m>> \in Seq(Msg)
  BY Parts, OneMessage
<1>2. LastWord(s \o <<m>>, k, v)
        <=> (LastWord(<<m>>, k, v) \/ (Quiet(<<m>>, k) /\ LastWord(s, k, v)))
  BY <1>1, ConcatWord
<1>3. Quiet(s \o <<m>>, k) <=> (Quiet(s, k) /\ Quiet(<<m>>, k))
  BY <1>1, ConcatQuiet
<1> QED  BY <1>1, <1>2, <1>3, OneMessage

\* A dump says what the cache holds.
LEMMA DumpWord ==
    ASSUME cache \in State, NEW k \in Key, NEW v, v # Unset
    PROVE  /\ dump \in Seq(Msg) /\ dump # <<>>
           /\ LastWord(dump, k, v) <=> cache[k] = v
           /\ Quiet(dump, k) <=> cache[k] = Unset
<1> DEFINE m == StateMsg(cache)  n == Signal("InCm")  s == <<m>>
<1>1. m \in Msg /\ n \in Msg /\ m.map = cache /\ n.map[k] = Unset
  BY DEF StateMsg, Signal, Msg, Kind, Nothing, State
<1> HIDE DEF m, n
<1>2. /\ s \in Seq(Msg)
      /\ LastWord(s, k, v) <=> m.map[k] = v
      /\ Quiet(s, k) <=> m.map[k] = Unset
  BY <1>1, OneMessage
<1>3. dump = Append(s, n)
  <2>1. dump = <<m, n>>
    BY DEF dump, m, n
  <2>2. <<m, n>> = Append(s, n)
    BY <1>1
  <2> QED  BY <2>1, <2>2
<1>4. Append(s, n) \in Seq(Msg) /\ Append(s, n) # <<>>
  BY <1>1
<1> HIDE DEF s
<1>5. /\ LastWord(Append(s, n), k, v)
             <=> n.map[k] = v \/ (n.map[k] = Unset /\ LastWord(s, k, v))
      /\ Quiet(Append(s, n), k) <=> Quiet(s, k) /\ n.map[k] = Unset
  BY <1>1, <1>2, AppendWord
<1> QED  BY <1>1, <1>2, <1>3, <1>4, <1>5

-----------------------------------------------------------------------------
(* Type correctness. *)

\* The messages and maps the actions build are messages and maps.
LEMMA MessageTypes ==
    /\ Nothing \in State
    /\ \A m \in State : StateMsg(m) \in Msg
    /\ \A kd \in Kind : Signal(kd) \in Msg
    /\ \A m, old \in State : Apply(m, old) \in State
BY DEF Nothing, State, StateMsg, Signal, Msg, Kind, Apply

\* Only opened sessions have anything queued, so only they can be told InCm.
TypeInv == TypeOK /\ QueuesAreOpened

\* Every step keeps the types, the ring within its capacity and the queues of
\* sessions that are not open empty.
LEMMA TypeStep == TypeInv /\ [Next]_vars => TypeInv'
<1> SUFFICES ASSUME TypeOK, QueuesAreOpened, [Next]_vars
             PROVE  TypeOK' /\ QueuesAreOpened'
  BY DEF TypeInv
<1> USE FanoutAssumption
<1>1. ASSUME NEW k \in Key, NEW v \in Value, Change(k, v)
      PROVE  TypeOK' /\ QueuesAreOpened'
  <2>1. [Nothing EXCEPT ![k] = v] \in State
    BY DEF Nothing, State
  <2>2. fromSw' \in Seq(Msg)
    BY <1>1, <2>1, MessageTypes DEF Change, Report, TypeOK
  <2>3. truth' \in [Key -> Value] /\ changes' \in 0..MaxChanges
    BY <1>1 DEF Change, TypeOK
  <2> QED  BY <1>1, <2>2, <2>3 DEF Change, TypeOK, QueuesAreOpened, ringVars,
                                   cliVars
<1>2. ASSUME Levels  PROVE TypeOK' /\ QueuesAreOpened'
  <2>1. fromSw' \in Seq(Msg)
    BY <1>2, MessageTypes DEF Levels, Report, TypeOK, Kind
  <2>2. changes' \in 0..MaxChanges
    BY <1>2 DEF Levels, TypeOK
  <2> QED  BY <1>2, <2>1, <2>2 DEF Levels, TypeOK, QueuesAreOpened, ringVars,
                                   cliVars
<1>3. ASSUME UpstreamOpen  PROVE TypeOK' /\ QueuesAreOpened'
  <2>1. truth \in State
    BY DEF TypeOK, State
  <2>2. fromSw' \in Seq(Msg)
    BY <1>3, <2>1, MessageTypes DEF UpstreamOpen, Kind
  <2> QED  BY <1>3, <2>2 DEF UpstreamOpen, TypeOK, QueuesAreOpened, swVars,
                             ringVars, cliVars
<1>4. ASSUME UpstreamLost  PROVE TypeOK' /\ QueuesAreOpened'
  <2>1. pend' \in Seq(Msg) /\ cache' \in State
    BY <1>4, MessageTypes DEF UpstreamLost, Kind
  <2>2. drops' \in 0..MaxDrops
    BY <1>4 DEF UpstreamLost, TypeOK
  <2> QED  BY <1>4, <2>1, <2>2 DEF UpstreamLost, TypeOK, QueuesAreOpened,
                                   swVars, ringVars, cliVars
<1>5. ASSUME IngestState  PROVE TypeOK' /\ QueuesAreOpened'
  <2>1. Head(fromSw) \in Msg /\ Tail(fromSw) \in Seq(Msg)
    BY <1>5, Parts DEF IngestState, TypeOK
  <2>2. Head(fromSw).map \in State
    BY <2>1 DEF Msg
  <2>3. pend' \in Seq(Msg) /\ cache' \in State /\ fromSw' \in Seq(Msg)
    BY <1>5, <2>1, <2>2, MessageTypes DEF IngestState, TypeOK
  <2> QED  BY <1>5, <2>3 DEF IngestState, TypeOK, QueuesAreOpened, swVars,
                             ringVars, cliVars
<1>6. ASSUME IngestLevels  PROVE TypeOK' /\ QueuesAreOpened'
  <2>1. Head(fromSw) \in Msg /\ Tail(fromSw) \in Seq(Msg)
    BY <1>6, Parts DEF IngestLevels, TypeOK
  <2>2. pend' \in Seq(Msg) /\ fromSw' \in Seq(Msg)
    BY <1>6, <2>1 DEF IngestLevels
  <2> QED  BY <1>6, <2>2 DEF IngestLevels, TypeOK, QueuesAreOpened, swVars,
                             ringVars, cliVars
<1>7. ASSUME IngestInCm  PROVE TypeOK' /\ QueuesAreOpened'
  <2>1. Tail(fromSw) \in Seq(Msg)
    BY <1>7, Parts DEF IngestInCm, TypeOK
  <2>2. pend' \in Seq(Msg) /\ fromSw' \in Seq(Msg)
    BY <1>7, <2>1, MessageTypes DEF IngestInCm, Kind
  <2> QED  BY <1>7, <2>2 DEF IngestInCm, TypeOK, QueuesAreOpened, swVars,
                             ringVars, cliVars
<1>8. ASSUME Broadcast  PROVE TypeOK' /\ QueuesAreOpened'
  <2>1. Head(pend) \in Msg /\ Tail(pend) \in Seq(Msg)
    BY <1>8, Parts DEF Broadcast, TypeOK
  <2> DEFINE ring == Append(events, Head(pend))
  <2>2. /\ ring \in Seq(Msg) /\ ring # <<>> /\ Len(ring) = Len(events) + 1
        /\ Tail(ring) \in Seq(Msg) /\ Len(Tail(ring)) = Len(events)
    <3>1. /\ events \in Seq(Msg) /\ ring \in Seq(Msg) /\ ring # <<>>
          /\ Len(ring) = Len(events) + 1
      <4> DEFINE m == Head(pend)
      <4> HIDE DEF m
      <4>1. m \in Msg /\ events \in Seq(Msg)
        BY <2>1 DEF TypeOK, m
      <4>2. /\ Append(events, m) \in Seq(Msg) /\ Append(events, m) # <<>>
            /\ Len(Append(events, m)) = Len(events) + 1
        BY <4>1, AppendProperties
      <4> QED  BY <4>1, <4>2 DEF m
    <3> HIDE DEF ring
    <3>2. Len(Tail(ring)) = Len(ring) - 1 /\ Tail(ring) \in Seq(Msg)
      BY <3>1, HeadTailProperties
    <3>3. Len(events) \in Nat
      BY <3>1, LenProperties
    <3> QED  BY <3>1, <3>2, <3>3
  <2>3. \/ events' = Tail(ring) /\ lagged' = TRUE
        \/ events' = ring /\ Len(ring) <= EventCap /\ lagged' = lagged
    <3> HIDE DEF ring
    <3>1. Len(ring) \in Int
      BY <2>2, LenProperties
    <3> QED  BY <1>8, <3>1 DEF Broadcast, ring
  <2>4. events' \in Seq(Msg) /\ Len(events') <= EventCap /\ lagged' \in BOOLEAN
    <3> HIDE DEF ring
    <3> QED  BY <2>2, <2>3 DEF TypeOK
  <2> HIDE DEF ring
  <2> QED  BY <1>8, <2>1, <2>4 DEF Broadcast, TypeOK, QueuesAreOpened, swVars,
                                   cliVars
<1>9. ASSUME FanState  PROVE TypeOK' /\ QueuesAreOpened'
  <2>1. Head(events) \in Msg /\ Tail(events) \in Seq(Msg)
        /\ Len(Tail(events)) <= EventCap
    BY <1>9, HeadTailProperties DEF FanState, CanRecv, TypeOK
  <2>2. \A c \in Client : Append(queue[c], Head(events)) \in Seq(Msg)
    BY <2>1 DEF TypeOK
  <2>3. queue' \in [Client -> Seq(Msg)] /\ QueuesAreOpened'
    BY <1>9, <2>2 DEF FanState, TypeOK, QueuesAreOpened
  <2> QED  BY <1>9, <2>1, <2>3 DEF FanState, TypeOK, swVars, upVars
<1>10. ASSUME FanDisconnected  PROVE TypeOK' /\ QueuesAreOpened'
  <2>1. Tail(events) \in Seq(Msg) /\ Len(Tail(events)) <= EventCap
    BY <1>10, HeadTailProperties DEF FanDisconnected, CanRecv, TypeOK
  <2>2. /\ queue' \in [Client -> Seq(Msg)] /\ QueuesAreOpened'
        /\ view' \in [Client -> State]
    BY <1>10, MessageTypes DEF FanDisconnected, Forget, TypeOK, QueuesAreOpened
  <2>3. opened' = {} /\ inited' = {} /\ session' = {}
    BY <1>10 DEF FanDisconnected, Forget, TypeOK
  <2> QED  BY <1>10, <2>1, <2>2, <2>3 DEF FanDisconnected, TypeOK, swVars, upVars
<1>11. ASSUME FanOther  PROVE TypeOK' /\ QueuesAreOpened'
  <2>1. Tail(events) \in Seq(Msg) /\ Len(Tail(events)) <= EventCap
    BY <1>11, HeadTailProperties DEF FanOther, CanRecv, TypeOK
  <2> QED  BY <1>11, <2>1 DEF FanOther, TypeOK, QueuesAreOpened, swVars, upVars,
                              cliVars
<1>12. ASSUME LagDump  PROVE TypeOK' /\ QueuesAreOpened'
  <2>1. resync' \in Seq(Msg)
    BY <1>12, MessageTypes DEF LagDump, dump, Kind, TypeOK
  <2> QED  BY <1>12, <2>1 DEF LagDump, TypeOK, QueuesAreOpened, swVars, upVars,
                              cliVars
<1>13. ASSUME LagQueue  PROVE TypeOK' /\ QueuesAreOpened'
  <2>1. \A c \in Client : queue[c] \o resync \in Seq(Msg)
    BY DEF TypeOK
  <2>2. queue' \in [Client -> Seq(Msg)] /\ QueuesAreOpened'
    BY <1>13, <2>1 DEF LagQueue, TypeOK, QueuesAreOpened
  <2> QED  BY <1>13, <2>2 DEF LagQueue, TypeOK, swVars, upVars, ringVars
<1>14. ASSUME NEW c \in Client, HelloCheck(c)  PROVE TypeOK' /\ QueuesAreOpened'
  BY <1>14 DEF HelloCheck, TypeOK, QueuesAreOpened, swVars, upVars, ringVars,
               cliVars
<1>15. ASSUME HelloInsert  PROVE TypeOK' /\ QueuesAreOpened'
  <2>1. /\ queue' \in [Client -> Seq(Msg)] /\ QueuesAreOpened'
        /\ view' \in [Client -> State]
    BY <1>15, MessageTypes DEF HelloInsert, Forget, TypeOK, QueuesAreOpened
  <2>2. /\ session' \in SUBSET Client /\ opened' \in SUBSET session'
        /\ inited' \in SUBSET opened'
    BY <1>15 DEF HelloInsert, Forget, TypeOK
  <2> QED  BY <1>15, <2>1, <2>2 DEF HelloInsert, TypeOK, swVars, upVars, ringVars
<1>16. ASSUME NEW c \in Client, Open(c)  PROVE TypeOK' /\ QueuesAreOpened'
  <2>1. dump \in Seq(Msg)
    BY MessageTypes DEF dump, Kind, TypeOK
  <2>2. queue[c] \o dump \in Seq(Msg)
    BY <2>1 DEF TypeOK
  <2>3. queue' \in [Client -> Seq(Msg)] /\ QueuesAreOpened'
    BY <1>16, <2>2 DEF Open, TypeOK, QueuesAreOpened
  <2> QED  BY <1>16, <2>3 DEF Open, TypeOK, swVars, upVars, ringVars
<1>17. ASSUME NEW c \in Client, Deliver(c)  PROVE TypeOK' /\ QueuesAreOpened'
  <2>1. Head(queue[c]) \in Msg /\ Tail(queue[c]) \in Seq(Msg)
    BY <1>17, Parts DEF Deliver, TypeOK
  <2>2. Head(queue[c]).map \in State /\ view[c] \in State
    BY <2>1 DEF Msg, TypeOK
  <2>3. c \in opened
    BY <1>17 DEF Deliver, QueuesAreOpened
  <2>4. /\ queue' \in [Client -> Seq(Msg)] /\ QueuesAreOpened'
        /\ view' \in [Client -> State]
    BY <1>17, <2>1, <2>2, <2>3, MessageTypes DEF Deliver, TypeOK, QueuesAreOpened
  <2>5. inited' \in SUBSET opened'
    BY <1>17, <2>3 DEF Deliver, TypeOK
  <2> QED  BY <1>17, <2>4, <2>5 DEF Deliver, TypeOK, swVars, upVars, ringVars
<1>18. ASSUME NEW c \in Client, Expire(c)  PROVE TypeOK' /\ QueuesAreOpened'
  <2>1. /\ queue' \in [Client -> Seq(Msg)] /\ QueuesAreOpened'
        /\ view' \in [Client -> State]
    BY <1>18, MessageTypes DEF Expire, Forget, TypeOK, QueuesAreOpened
  <2>2. /\ session' \in SUBSET Client /\ opened' \in SUBSET session'
        /\ inited' \in SUBSET opened'
    BY <1>18 DEF Expire, Forget, TypeOK
  <2> QED  BY <1>18, <2>1, <2>2 DEF Expire, TypeOK, swVars, upVars, ringVars
<1>19. ASSUME UNCHANGED vars  PROVE TypeOK' /\ QueuesAreOpened'
  BY <1>19 DEF TypeOK, QueuesAreOpened, vars, swVars, upVars, ringVars, cliVars
<1> QED
  BY <1>1, <1>2, <1>3, <1>4, <1>5, <1>6, <1>7, <1>8, <1>9, <1>10, <1>11, <1>12,
     <1>13, <1>14, <1>15, <1>16, <1>17, <1>18, <1>19
     DEF Next, Upstream, Events

\* The initial states are well typed.
LEMMA InitIsTyped == Init => TypeInv
<1> SUFFICES ASSUME Init  PROVE TypeInv
  OBVIOUS
<1>1. queue \in [Client -> Seq(Msg)] /\ view \in [Client -> State]
  BY MessageTypes DEF Init
<1>2. events \in Seq(Msg) /\ Len(events) = 0
  BY DEF Init
<1>3. 0 \in 0..MaxChanges /\ 0 \in 0..MaxDrops /\ 0 <= EventCap
  BY FanoutAssumption
<1>4. QueuesAreOpened
  BY DEF Init, QueuesAreOpened
<1>5. TypeOK
  BY <1>1, <1>2, <1>3, MessageTypes DEF Init, TypeOK
<1> QED  BY <1>4, <1>5 DEF TypeInv

\* Every reachable state of the fan-out is well typed: the ring never holds
\* more than its capacity, sessions are opened only once they exist, and a
\* client is told InCm only in a session that is open.
THEOREM FanoutTypeCorrect == Spec => []TypeOK
<1>1. TypeInv => TypeOK
  BY DEF TypeInv
<1> QED  BY <1>1, InitIsTyped, TypeStep, PTL DEF Spec

-----------------------------------------------------------------------------
(* Nothing is missed. *)

\* What a client's stream says, in the state of the specification.
LEMMA ClientWord ==
    ASSUME TypeOK, NEW c \in Client, NEW k \in Key, NEW v, v # Unset
    PROVE  LastWord(Stream(c), k, v)
             <=> Says(view[c], queue[c], resync, Flow, k, v)
<1>1. /\ view[c] \in State /\ queue[c] \in Seq(Msg) /\ resync \in Seq(Msg)
      /\ Flow \in Seq(Msg)
  BY OneFlow DEF TypeOK, Flow
<1> QED  BY <1>1, StreamWord DEF Stream

\* ... and in its next state.
LEMMA NextClientWord ==
    ASSUME TypeOK', NEW c \in Client, NEW k \in Key, NEW v, v # Unset
    PROVE  LastWord(Stream(c)', k, v)
             <=> Says(view'[c], queue'[c], resync', Flow', k, v)
<1>1. /\ view'[c] \in State /\ queue'[c] \in Seq(Msg) /\ resync' \in Seq(Msg)
      /\ Flow' \in Seq(Msg)
  BY OneFlow DEF TypeOK, Flow
<1> QED  BY <1>1, StreamWord DEF Stream

\* The sessions that stay open keep what they were told and have yet to be.
SessionsKept ==
    \A c \in opened' : c \in opened /\ queue'[c] = queue[c] /\ view'[c] = view[c]

\* Steps that leave everything under way where it is.
LEMMA FlowUntouched ==
    ASSUME FanoutInv, TypeInv', SignalsAreEmpty(fromSw'),
           Flow' = Flow, cache' = cache, lagged' = lagged, resync' = resync,
           SessionsKept
    PROVE  FanoutInv'
<1>1. SignalsAreEmpty(Flow') /\ Fresh(Flow', cache') /\ ResyncIsFresh'
  BY DEF FanoutInv, ResyncIsFresh
<1>2. NothingMissed'
  <2>1. \A c \in opened' : Stream(c)' = Stream(c)
    BY DEF Stream, SessionsKept
  <2> QED  BY <2>1 DEF FanoutInv, NothingMissed, SessionsKept
<1> QED  BY <1>1, <1>2 DEF FanoutInv, TypeInv

\* Steps that put a message behind what is under way, with what it says in the
\* cache already.
LEMMA FlowGrows ==
    ASSUME FanoutInv, TypeInv', SignalsAreEmpty(fromSw'),
           NEW m \in Msg, Flow' = Append(Flow, m),
           lagged' = lagged, resync' = resync, SessionsKept,
           m.kind # "state" => m.map = Nothing,
           \A k \in Key : m.map[k] # Unset => cache'[k] = m.map[k],
           \A k \in Key : m.map[k] = Unset /\ m.kind # "disconnected"
                             => cache'[k] = cache[k]
    PROVE  FanoutInv'
<1>1. /\ Flow \in Seq(Msg) /\ resync \in Seq(Msg) /\ TypeOK /\ TypeOK'
      /\ opened \in SUBSET Client /\ opened' \in SUBSET Client
      /\ Flow' \in Seq(Msg)
  BY OneFlow DEF FanoutInv, TypeInv, TypeOK, Flow
<1>2. /\ Fresh(Flow', cache') /\ SignalsAreEmpty(Flow')
      /\ Leaving(Flow') <=> (m.kind = "disconnected" \/ Leaving(Flow))
  BY <1>1, AppendStaysFresh DEF FanoutInv
<1>3. \A k \in Key : \A v :
         v # Unset =>
           /\ LastWord(Flow', k, v)
                <=> m.map[k] = v \/ (m.map[k] = Unset /\ LastWord(Flow, k, v))
           /\ Quiet(Flow', k) <=> Quiet(Flow, k) /\ m.map[k] = Unset
  BY <1>1, AppendWord
<1>4. ResyncIsFresh'
  <2> SUFFICES ASSUME resync # <<>>, ~ lagged, ~ Leaving(Flow'),
                      NEW k \in Key, cache'[k] # Unset
               PROVE  LastWord(resync \o Flow', k, cache'[k])
    BY DEF ResyncIsFresh, Covers
  <2>1. CASE m.map[k] # Unset
    <3>1. LastWord(Flow', k, cache'[k])
      BY <2>1, <1>3
    <3> QED  BY <3>1, <1>1, ConcatWord
  <2>2. CASE m.map[k] = Unset
    <3>1. cache'[k] = cache[k] /\ ~ Leaving(Flow)
      BY <2>2, <1>2
    <3>2. LastWord(resync \o Flow, k, cache[k])
      BY <3>1 DEF FanoutInv, ResyncIsFresh, Covers
    <3>3. \/ LastWord(Flow, k, cache[k])
          \/ Quiet(Flow, k) /\ LastWord(resync, k, cache[k])
      BY <3>1, <3>2, <1>1, ConcatWord
    <3>4. \/ LastWord(Flow', k, cache'[k])
          \/ Quiet(Flow', k) /\ LastWord(resync, k, cache'[k])
      BY <3>1, <3>3, <2>2, <1>3
    <3> QED  BY <3>4, <1>1, ConcatWord
  <2> QED  BY <2>1, <2>2
<1>5. NothingMissed'
  <2> SUFFICES ASSUME ~ lagged', ~ Leaving(Flow'), NEW c \in opened',
                      NEW k \in Key, cache'[k] # Unset
               PROVE  LastWord(Stream(c)', k, cache'[k])
    BY DEF NothingMissed
  <2>1. LastWord(Stream(c)', k, cache'[k])
          <=> Says(view'[c], queue'[c], resync', Flow', k, cache'[k])
    BY <1>1, NextClientWord
  <2>2. CASE m.map[k] # Unset
    BY <2>1, <2>2, <1>3 DEF Says
  <2>3. CASE m.map[k] = Unset
    <3>1. cache'[k] = cache[k] /\ ~ Leaving(Flow) /\ c \in opened
      BY <2>3, <1>2 DEF SessionsKept
    <3>2. LastWord(Stream(c), k, cache[k])
      BY <3>1 DEF FanoutInv, NothingMissed
    <3>3. Says(view[c], queue[c], resync, Flow, k, cache[k])
      BY <3>1, <3>2, <1>1, ClientWord
    <3> QED  BY <3>1, <3>3, <2>1, <2>3, <1>3 DEF Says, SessionsKept
  <2> QED  BY <2>2, <2>3
<1> QED  BY <1>1, <1>2, <1>4, <1>5 DEF FanoutInv, TypeInv

\* Steps that take the oldest message from what is under way.
LEMMA FlowShrinks ==
    ASSUME FanoutInv, Flow # <<>>, Flow' = Tail(Flow), cache' = cache
    PROVE  /\ Fresh(Flow', cache') /\ SignalsAreEmpty(Flow')
           /\ Leaving(Flow) <=> (Head(Flow).kind = "disconnected" \/ Leaving(Flow'))
           /\ Head(Flow) \in Msg
           /\ Head(Flow).kind # "state" => Head(Flow).map = Nothing
           /\ \A k \in Key : \A v :
                 v # Unset =>
                   /\ LastWord(Flow, k, v)
                        <=> \/ LastWord(Flow', k, v)
                            \/ Quiet(Flow', k) /\ Head(Flow).map[k] = v
                   /\ Quiet(Flow, k) <=> Head(Flow).map[k] = Unset /\ Quiet(Flow', k)
<1>1. Flow \in Seq(Msg) /\ cache \in State
  BY OneFlow DEF FanoutInv, TypeOK, Flow
<1>2. /\ Fresh(Flow', cache') /\ SignalsAreEmpty(Flow')
      /\ Leaving(Flow) <=> (Head(Flow).kind = "disconnected" \/ Leaving(Flow'))
  BY <1>1, TailStaysFresh DEF FanoutInv
<1>3. Head(Flow) \in Msg /\ Head(Flow) = Flow[1] /\ 1 \in 1..Len(Flow)
  BY <1>1, HeadTailProperties, LenProperties, EmptySeq
<1>4. Head(Flow).kind # "state" => Head(Flow).map = Nothing
  BY <1>3 DEF FanoutInv, SignalsAreEmpty
<1>5. \A k \in Key : \A v :
         v # Unset =>
           /\ LastWord(Flow, k, v)
                <=> \/ LastWord(Flow', k, v)
                    \/ Quiet(Flow', k) /\ Head(Flow).map[k] = v
           /\ Quiet(Flow, k) <=> Head(Flow).map[k] = Unset /\ Quiet(Flow', k)
  BY <1>1, HeadWord
<1> QED  BY <1>2, <1>3, <1>4, <1>5

\* What the switcher sends keeps to the rule that signals carry no state.
LEMMA ReportKeepsRule ==
    ASSUME fromSw \in Seq(Msg), SignalsAreEmpty(fromSw), NEW m \in Msg,
           m.kind # "state" => m.map = Nothing, Report(m)
    PROVE  SignalsAreEmpty(fromSw')
<1>1. CASE fromSw' = fromSw
  BY <1>1
<1>2. CASE fromSw' = Append(fromSw, m)
  <2>1. /\ Len(fromSw) \in Nat /\ Len(fromSw') = Len(fromSw) + 1
        /\ fromSw'[Len(fromSw) + 1] = m
        /\ \A i \in 1..Len(fromSw) : fromSw'[i] = fromSw[i]
    BY <1>2, AppendProperties, LenProperties
  <2> SUFFICES ASSUME NEW i \in 1..Len(fromSw'), fromSw'[i].kind # "state"
               PROVE  fromSw'[i].map = Nothing
    BY DEF SignalsAreEmpty
  <2>2. i \in 1..Len(fromSw) \/ i = Len(fromSw) + 1
    BY <2>1
  <2> QED  BY <2>1, <2>2 DEF SignalsAreEmpty
<1> QED  BY <1>1, <1>2 DEF Report

\* ... and so does what is left when the oldest payload was read.
LEMMA ReadKeepsRule ==
    ASSUME fromSw \in Seq(Msg), SignalsAreEmpty(fromSw), fromSw # <<>>
    PROVE  /\ SignalsAreEmpty(Tail(fromSw))
           /\ Head(fromSw) \in Msg
           /\ Head(fromSw).kind # "state" => Head(fromSw).map = Nothing
<1> DEFINE t == Tail(fromSw)
<1>1. /\ Len(t) \in Nat /\ Len(fromSw) = Len(t) + 1
      /\ Head(fromSw) = fromSw[1] /\ Head(fromSw) \in Msg
      /\ \A i \in 1..Len(t) : t[i] = fromSw[i + 1]
  BY HeadTailProperties, LenProperties
<1> HIDE DEF t
<1>2. 1 \in 1..Len(fromSw) /\ \A i \in 1..Len(t) : i + 1 \in 1..Len(fromSw)
  BY <1>1
<1> QED  BY <1>1, <1>2 DEF SignalsAreEmpty, t

\* Every step keeps the invariant.
LEMMA FanoutStep == FanoutInv /\ [Next]_vars => FanoutInv'
<1> SUFFICES ASSUME FanoutInv, [Next]_vars  PROVE FanoutInv'
  OBVIOUS
<1>a. TypeInv' /\ TypeOK /\ TypeOK'
  BY TypeStep DEF FanoutInv, TypeInv
<1>b. /\ fromSw \in Seq(Msg) /\ events \in Seq(Msg) /\ pend \in Seq(Msg)
      /\ resync \in Seq(Msg) /\ Flow \in Seq(Msg) /\ cache \in State
      /\ opened \in SUBSET Client /\ opened' \in SUBSET Client
      /\ SignalsAreEmpty(fromSw)
  BY <1>a, OneFlow DEF FanoutInv, TypeOK, Flow
<1>c. dump \in Seq(Msg) /\ \A k \in Key : cache[k] # Unset
                                            => LastWord(dump, k, cache[k])
  <2>1. dump \in Seq(Msg)
    BY <1>b, MessageTypes DEF dump, Kind
  <2>2. ASSUME NEW k \in Key, NEW v, v # Unset, cache[k] = v
        PROVE  LastWord(dump, k, v)
    BY <1>b, <2>2, DumpWord
  <2> QED  BY <2>1, <2>2
<1>1. ASSUME NEW k \in Key, NEW v \in Value, Change(k, v)  PROVE FanoutInv'
  <2>1. SignalsAreEmpty(fromSw')
    <3> DEFINE m == StateMsg([Nothing EXCEPT ![k] = v])
    <3>1. m \in Msg /\ m.kind = "state"
      BY DEF Nothing, State, StateMsg, Msg, Kind
    <3> HIDE DEF m
    <3>2. Report(m)
      BY <1>1 DEF Change, m
    <3> QED  BY <3>1, <3>2, <1>b, ReportKeepsRule
  <2>2. Flow' = Flow
    BY <1>1 DEF Change, Flow, ringVars
  <2>3. SessionsKept
    BY <1>1 DEF Change, SessionsKept, cliVars
  <2> QED  BY <1>1, <1>a, <2>1, <2>2, <2>3, FlowUntouched DEF Change, ringVars
<1>2. ASSUME Levels  PROVE FanoutInv'
  <2>1. SignalsAreEmpty(fromSw')
    <3>1. Signal("levels") \in Msg /\ Signal("levels").map = Nothing
      BY MessageTypes DEF Signal, Kind
    <3> QED  BY <1>2, <3>1, <1>b, ReportKeepsRule DEF Levels
  <2>2. Flow' = Flow
    BY <1>2 DEF Levels, Flow, ringVars
  <2>3. SessionsKept
    BY <1>2 DEF Levels, SessionsKept, cliVars
  <2> QED  BY <1>2, <1>a, <2>1, <2>2, <2>3, FlowUntouched DEF Levels, ringVars
<1>3. ASSUME UpstreamOpen  PROVE FanoutInv'
  <2>1. SignalsAreEmpty(fromSw')
    BY <1>3 DEF UpstreamOpen, SignalsAreEmpty, StateMsg, Signal
  <2>2. Flow' = Flow
    BY <1>3 DEF UpstreamOpen, Flow, ringVars
  <2>3. SessionsKept
    BY <1>3 DEF UpstreamOpen, SessionsKept, cliVars
  <2> QED  BY <1>3, <1>a, <2>1, <2>2, <2>3, FlowUntouched
           DEF UpstreamOpen, ringVars
<1>4. ASSUME UpstreamLost  PROVE FanoutInv'
  <2> DEFINE m == Signal("disconnected")
  <2>1. m \in Msg /\ m.map = Nothing /\ m.kind = "disconnected"
    BY MessageTypes DEF Signal, Kind
  <2>2. \A k \in Key : m.map[k] = Unset
    BY <2>1 DEF Nothing
  <2> HIDE DEF m
  <2>3. Flow' = Append(Flow, m)
    BY <1>4, <1>b, <2>1, OneFlow DEF UpstreamLost, Flow, ringVars, m
  <2>4. SignalsAreEmpty(fromSw')
    BY <1>4 DEF UpstreamLost, SignalsAreEmpty
  <2>5. SessionsKept
    BY <1>4 DEF UpstreamLost, SessionsKept, cliVars
  <2>6. lagged' = lagged /\ resync' = resync
    BY <1>4 DEF UpstreamLost, ringVars
  <2> QED  BY <1>a, <2>1, <2>2, <2>3, <2>4, <2>5, <2>6, FlowGrows
<1>5. ASSUME IngestState  PROVE FanoutInv'
  <2> DEFINE m == Head(fromSw)
  <2>1. /\ fromSw # <<>> /\ m.kind = "state" /\ m \in Msg
        /\ SignalsAreEmpty(fromSw')
    BY <1>5, <1>b, ReadKeepsRule DEF IngestState
  <2>2. \A k \in Key : cache'[k] = IF m.map[k] # Unset THEN m.map[k] ELSE cache[k]
    BY <1>5 DEF IngestState, Apply
  <2>3. lagged' = lagged /\ resync' = resync /\ SessionsKept
    BY <1>5 DEF IngestState, ringVars, cliVars, SessionsKept
  <2>4. Flow' = events \o <<m>> /\ pend = <<>>
    BY <1>5 DEF IngestState, Flow, ringVars
  <2> HIDE DEF m
  <2>5. Flow' = Append(Flow, m)
    BY <1>b, <2>1, <2>4, OneFlow DEF Flow
  <2> QED  BY <1>a, <2>1, <2>2, <2>3, <2>5, FlowGrows
<1>6. ASSUME IngestLevels  PROVE FanoutInv'
  <2> DEFINE m == Head(fromSw)
  <2>1. /\ m.kind = "levels" /\ m \in Msg /\ m.map = Nothing
        /\ SignalsAreEmpty(fromSw')
    BY <1>6, <1>b, ReadKeepsRule DEF IngestLevels
  <2>2. \A k \in Key : m.map[k] = Unset /\ cache'[k] = cache[k]
    BY <1>6, <2>1 DEF IngestLevels, Nothing
  <2>3. lagged' = lagged /\ resync' = resync /\ SessionsKept
    BY <1>6 DEF IngestLevels, ringVars, cliVars, SessionsKept
  <2>4. Flow' = events \o <<m>> /\ pend = <<>>
    BY <1>6 DEF IngestLevels, Flow, ringVars
  <2> HIDE DEF m
  <2>5. Flow' = Append(Flow, m)
    BY <1>b, <2>1, <2>4, OneFlow DEF Flow
  <2> QED  BY <1>a, <2>1, <2>2, <2>3, <2>5, FlowGrows
<1>7. ASSUME IngestInCm  PROVE FanoutInv'
  <2> DEFINE m == Signal("connected")
  <2>1. SignalsAreEmpty(fromSw')
    BY <1>7, <1>b, ReadKeepsRule DEF IngestInCm
  <2>2. /\ lagged' = lagged /\ resync' = resync /\ SessionsKept
        /\ cache' = cache /\ events' = events /\ pend = <<>>
    BY <1>7 DEF IngestInCm, ringVars, cliVars, SessionsKept
  <2>3. m \in Msg /\ m.map = Nothing /\ m.kind = "connected"
    BY MessageTypes DEF Signal, Kind
  <2>4. \A k \in Key : m.map[k] = Unset
    BY <2>3 DEF Nothing
  <2>5. pend' = <<>> \/ pend' = <<m>>
    BY <1>7 DEF IngestInCm
  <2> HIDE DEF m
  <2>6. CASE pend' = <<>>
    <3>1. Flow' = Flow
      BY <2>2, <2>6 DEF Flow
    <3> QED  BY <1>a, <2>1, <2>2, <3>1, FlowUntouched
  <2>7. CASE pend' = <<m>>
    <3>1. Flow' = Append(Flow, m)
      BY <1>b, <2>2, <2>3, <2>7, OneFlow DEF Flow
    <3> QED  BY <1>a, <2>1, <2>2, <2>3, <2>4, <3>1, FlowGrows
  <2> QED  BY <2>5, <2>6, <2>7
<1>8. ASSUME Broadcast  PROVE FanoutInv'
  <2>1. /\ pend # <<>> /\ pend' = Tail(pend) /\ resync' = resync
        /\ cache' = cache /\ fromSw' = fromSw /\ SessionsKept
    BY <1>8 DEF Broadcast, cliVars, SessionsKept
  <2>2. \/ events' = Append(events, Head(pend)) /\ lagged' = lagged
        \/ events' = Tail(Append(events, Head(pend))) /\ lagged' = TRUE
    BY <1>8 DEF Broadcast
  <2>3. CASE events' = Append(events, Head(pend)) /\ lagged' = lagged
    <3>1. Flow' = Flow
      BY <1>b, <2>1, <2>3, OneFlow DEF Flow
    <3> QED  BY <1>a, <1>b, <2>1, <2>3, <3>1, FlowUntouched
  <2>4. CASE events' = Tail(Append(events, Head(pend))) /\ lagged' = TRUE
    <3>1. Flow # <<>> /\ Flow' = Tail(Flow)
      BY <1>b, <2>1, <2>4, OneFlow DEF Flow
    <3>2. Fresh(Flow', cache') /\ SignalsAreEmpty(Flow')
      BY <2>1, <3>1, FlowShrinks
    <3>3. NothingMissed' /\ ResyncIsFresh'
      BY <2>4 DEF NothingMissed, ResyncIsFresh
    <3> QED  BY <1>a, <1>b, <2>1, <3>2, <3>3 DEF FanoutInv, TypeInv
  <2> QED  BY <2>2, <2>3, <2>4
<1>9. ASSUME FanState  PROVE FanoutInv'
  <2> DEFINE h == Head(Flow)
  <2>1. /\ lagged' = lagged /\ resync = <<>> /\ resync' = resync /\ cache' = cache
        /\ fromSw' = fromSw /\ opened' = opened /\ view' = view
        /\ events # <<>> /\ events' = Tail(events) /\ pend' = pend
    BY <1>9 DEF FanState, CanRecv, upVars
  <2>2. Flow # <<>> /\ h = Head(events) /\ Flow' = Tail(Flow)
    BY <1>b, <2>1, OneFlow DEF Flow
  <2>3. h.kind = "state" /\ \A c \in opened : queue'[c] = Append(queue[c], h)
    BY <1>9, <1>b, <2>2 DEF FanState
  <2> HIDE DEF h
  <2>4. /\ Fresh(Flow', cache') /\ SignalsAreEmpty(Flow') /\ h \in Msg
        /\ Leaving(Flow) <=> Leaving(Flow')
        /\ \A k \in Key : \A v :
              v # Unset =>
                /\ LastWord(Flow, k, v)
                     <=> \/ LastWord(Flow', k, v)
                         \/ Quiet(Flow', k) /\ h.map[k] = v
                /\ Quiet(Flow, k) <=> h.map[k] = Unset /\ Quiet(Flow', k)
    BY <2>1, <2>2, <2>3, FlowShrinks DEF h
  <2>5. ResyncIsFresh'
    BY <2>1 DEF ResyncIsFresh
  <2>6. NothingMissed'
    <3> SUFFICES ASSUME ~ lagged', ~ Leaving(Flow'), NEW c \in opened',
                        NEW k \in Key, cache'[k] # Unset
                 PROVE  LastWord(Stream(c)', k, cache'[k])
      BY DEF NothingMissed
    <3>1. LastWord(Stream(c), k, cache[k])
      BY <2>1, <2>4 DEF FanoutInv, NothingMissed
    <3>2. Says(view[c], queue[c], resync, Flow, k, cache[k])
      BY <3>1, <1>a, <1>b, <2>1, ClientWord
    <3>3. Quiet(resync, k) /\ ~ LastWord(resync, k, cache[k])
      BY <2>1, OneMessage, <2>4
    <3>4. /\ LastWord(queue'[c], k, cache[k])
               <=> \/ h.map[k] = cache[k]
                   \/ h.map[k] = Unset /\ LastWord(queue[c], k, cache[k])
          /\ Quiet(queue'[c], k) <=> Quiet(queue[c], k) /\ h.map[k] = Unset
      <4>1. queue[c] \in Seq(Msg) /\ queue'[c] = Append(queue[c], h)
        BY <1>a, <1>b, <2>1, <2>3 DEF TypeOK
      <4> QED  BY <4>1, <2>1, <2>4, AppendWord
    <3>5. Says(view'[c], queue'[c], resync', Flow', k, cache'[k])
      BY <2>1, <2>4, <3>2, <3>3, <3>4 DEF Says
    <3> QED  BY <3>5, <1>a, <1>b, NextClientWord
  <2> QED  BY <1>a, <1>b, <2>1, <2>4, <2>5, <2>6 DEF FanoutInv, TypeInv
<1>10. ASSUME FanDisconnected  PROVE FanoutInv'
  <2>1. /\ resync = <<>> /\ resync' = resync /\ cache' = cache /\ fromSw' = fromSw
        /\ events # <<>> /\ events' = Tail(events) /\ pend' = pend
    BY <1>10 DEF FanDisconnected, CanRecv, upVars
  <2>2. Flow # <<>> /\ Flow' = Tail(Flow)
    BY <1>b, <2>1, OneFlow DEF Flow
  <2>3. Fresh(Flow', cache') /\ SignalsAreEmpty(Flow')
    BY <2>1, <2>2, FlowShrinks
  <2>4. opened' = {}
    BY <1>10, <1>b DEF FanDisconnected, Forget
  <2>5. NothingMissed' /\ ResyncIsFresh'
    BY <2>1, <2>4 DEF NothingMissed, ResyncIsFresh
  <2> QED  BY <1>a, <1>b, <2>1, <2>3, <2>5 DEF FanoutInv, TypeInv
<1>11. ASSUME FanOther  PROVE FanoutInv'
  <2> DEFINE h == Head(Flow)
  <2>1. /\ lagged' = lagged /\ resync = <<>> /\ resync' = resync /\ cache' = cache
        /\ fromSw' = fromSw /\ opened' = opened /\ view' = view /\ queue' = queue
        /\ events # <<>> /\ events' = Tail(events) /\ pend' = pend
    BY <1>11 DEF FanOther, CanRecv, upVars, cliVars
  <2>2. Flow # <<>> /\ h = Head(events) /\ Flow' = Tail(Flow)
    BY <1>b, <2>1, OneFlow DEF Flow
  <2>3. h.kind \in {"connected", "levels"}
    BY <1>11, <2>2 DEF FanOther
  <2> HIDE DEF h
  <2>4. /\ Fresh(Flow', cache') /\ SignalsAreEmpty(Flow') /\ h.map = Nothing
        /\ Leaving(Flow) <=> Leaving(Flow')
        /\ \A k \in Key : \A v :
              v # Unset =>
                /\ LastWord(Flow, k, v)
                     <=> \/ LastWord(Flow', k, v)
                         \/ Quiet(Flow', k) /\ h.map[k] = v
                /\ Quiet(Flow, k) <=> h.map[k] = Unset /\ Quiet(Flow', k)
    BY <2>1, <2>2, <2>3, FlowShrinks DEF h
  <2>5. ResyncIsFresh'
    BY <2>1 DEF ResyncIsFresh
  <2>6. NothingMissed'
    <3> SUFFICES ASSUME ~ lagged', ~ Leaving(Flow'), NEW c \in opened',
                        NEW k \in Key, cache'[k] # Unset
                 PROVE  LastWord(Stream(c)', k, cache'[k])
      BY DEF NothingMissed
    <3>1. LastWord(Stream(c), k, cache[k])
      BY <2>1, <2>4 DEF FanoutInv, NothingMissed
    <3>2. Says(view[c], queue[c], resync, Flow, k, cache[k])
      BY <3>1, <1>a, <1>b, <2>1, ClientWord
    <3>3. h.map[k] = Unset
      BY <2>4 DEF Nothing
    <3>4. Says(view'[c], queue'[c], resync', Flow', k, cache'[k])
      BY <2>1, <2>4, <3>2, <3>3 DEF Says
    <3> QED  BY <3>4, <1>a, <1>b, NextClientWord
  <2> QED  BY <1>a, <1>b, <2>1, <2>4, <2>5, <2>6 DEF FanoutInv, TypeInv
<1>12. ASSUME LagDump  PROVE FanoutInv'
  <2>1. /\ resync' = dump /\ cache' = cache /\ fromSw' = fromSw
        /\ opened' = opened /\ view' = view /\ queue' = queue
        /\ Flow' = Flow
    BY <1>12 DEF LagDump, upVars, cliVars, Flow
  <2>2. ASSUME ~ Leaving(Flow), NEW k \in Key, cache[k] # Unset
        PROVE  /\ dump \in Seq(Msg)
               /\ \/ LastWord(Flow, k, cache[k])
                  \/ Quiet(Flow, k) /\ LastWord(dump, k, cache[k])
    <3>1. Quiet(Flow, k) \/ LastWord(Flow, k, cache[k])
      BY <1>b, <2>2, FreshWord DEF FanoutInv
    <3>2. dump \in Seq(Msg) /\ LastWord(dump, k, cache[k])
      BY <1>c, <2>2
    <3> QED  BY <3>1, <3>2
  <2>3. ResyncIsFresh'
    <3> SUFFICES ASSUME ~ Leaving(Flow), NEW k \in Key, cache[k] # Unset
                 PROVE  LastWord(dump \o Flow, k, cache[k])
      BY <2>1 DEF ResyncIsFresh, Covers
    <3> QED  BY <1>b, <2>2, ConcatWord
  <2>4. NothingMissed'
    <3> SUFFICES ASSUME ~ Leaving(Flow), NEW c \in opened', NEW k \in Key,
                        cache[k] # Unset
                 PROVE  LastWord(Stream(c)', k, cache'[k])
      BY <2>1 DEF NothingMissed
    <3>1. Says(view'[c], queue'[c], resync', Flow', k, cache'[k])
      BY <2>1, <2>2 DEF Says
    <3> QED  BY <2>1, <3>1, <1>a, <1>b, NextClientWord
  <2> QED  BY <1>a, <1>b, <2>1, <2>3, <2>4 DEF FanoutInv, TypeInv
<1>13. ASSUME LagQueue  PROVE FanoutInv'
  <2>1. /\ resync' = <<>> /\ cache' = cache /\ fromSw' = fromSw
        /\ opened' = opened /\ view' = view /\ lagged' = lagged /\ Flow' = Flow
        /\ \A c \in opened : queue'[c] = queue[c] \o resync
    BY <1>13, <1>b DEF LagQueue, upVars, ringVars, Flow
  <2>2. ResyncIsFresh'
    BY <2>1 DEF ResyncIsFresh
  <2>3. NothingMissed'
    <3> SUFFICES ASSUME ~ lagged, ~ Leaving(Flow), NEW c \in opened',
                        NEW k \in Key, cache[k] # Unset
                 PROVE  LastWord(Stream(c)', k, cache'[k])
      BY <2>1 DEF NothingMissed
    <3>1. LastWord(Stream(c), k, cache[k])
      BY <2>1 DEF FanoutInv, NothingMissed
    <3>2. Says(view[c], queue[c], resync, Flow, k, cache[k])
      BY <3>1, <1>a, <1>b, <2>1, ClientWord
    <3>3. /\ LastWord(queue'[c], k, cache[k])
               <=> \/ LastWord(resync, k, cache[k])
                   \/ Quiet(resync, k) /\ LastWord(queue[c], k, cache[k])
          /\ Quiet(queue'[c], k) <=> Quiet(queue[c], k) /\ Quiet(resync, k)
      <4>1. queue[c] \in Seq(Msg) /\ queue'[c] = queue[c] \o resync
        BY <1>a, <1>b, <2>1 DEF TypeOK
      <4> QED  BY <4>1, <1>b, ConcatWord, ConcatQuiet
    <3>4. Quiet(resync', k)
      BY <2>1 DEF Quiet
    <3>5. Says(view'[c], queue'[c], resync', Flow', k, cache'[k])
      BY <2>1, <3>2, <3>3, <3>4 DEF Says
    <3> QED  BY <2>1, <3>5, <1>a, <1>b, NextClientWord
  <2> QED  BY <1>a, <1>b, <2>1, <2>2, <2>3 DEF FanoutInv, TypeInv
<1>14. ASSUME NEW c \in Client, HelloCheck(c)  PROVE FanoutInv'
  <2>1. /\ Flow' = Flow /\ cache' = cache /\ lagged' = lagged /\ resync' = resync
        /\ fromSw' = fromSw /\ SessionsKept
    BY <1>14 DEF HelloCheck, upVars, ringVars, cliVars, Flow, SessionsKept
  <2> QED  BY <1>a, <1>b, <2>1, FlowUntouched
<1>15. ASSUME HelloInsert  PROVE FanoutInv'
  <2>1. /\ Flow' = Flow /\ cache' = cache /\ lagged' = lagged /\ resync' = resync
        /\ fromSw' = fromSw
    BY <1>15 DEF HelloInsert, upVars, ringVars, Flow
  <2>2. SessionsKept
    BY <1>15, <1>b DEF HelloInsert, Forget, SessionsKept
  <2> QED  BY <1>a, <1>b, <2>1, <2>2, FlowUntouched
<1>16. ASSUME NEW c \in Client, Open(c)  PROVE FanoutInv'
  <2>1. /\ Flow' = Flow /\ cache' = cache /\ lagged' = lagged /\ resync' = resync
        /\ fromSw' = fromSw /\ view' = view /\ opened' = opened \cup {c}
        /\ queue'[c] = queue[c] \o dump
        /\ \A d \in opened : d # c => queue'[d] = queue[d]
    BY <1>16, <1>a, <1>b DEF Open, upVars, ringVars, Flow, TypeOK
  <2>2. ResyncIsFresh'
    BY <2>1 DEF FanoutInv, ResyncIsFresh
  <2>3. NothingMissed'
    <3> SUFFICES ASSUME ~ lagged, ~ Leaving(Flow), NEW d \in opened',
                        NEW k \in Key, cache[k] # Unset
                 PROVE  LastWord(Stream(d)', k, cache'[k])
      BY <2>1 DEF NothingMissed
    <3>1. CASE d = c
      <4>1. dump \in Seq(Msg) /\ LastWord(dump, k, cache[k])
        BY <1>c
      <4>2. LastWord(queue'[c], k, cache[k])
        <5>1. queue[c] \in Seq(Msg)
          BY <1>a DEF TypeOK
        <5> QED  BY <5>1, <4>1, <2>1, ConcatWord
      <4>3. Quiet(Flow, k) \/ LastWord(Flow, k, cache[k])
        BY <1>b, FreshWord DEF FanoutInv
      <4>4. \/ LastWord(Flow, k, cache[k])
            \/ Quiet(Flow, k) /\ LastWord(resync, k, cache[k])
            \/ Quiet(Flow, k) /\ Quiet(resync, k)
        <5>1. CASE resync = <<>>
          BY <5>1, <4>3 DEF Quiet
        <5>2. CASE resync # <<>>
          <6>1. LastWord(resync \o Flow, k, cache[k])
            BY <5>2 DEF FanoutInv, ResyncIsFresh, Covers
          <6> QED  BY <6>1, <1>b, ConcatWord
        <5> QED  BY <5>1, <5>2
      <4>5. Says(view'[c], queue'[c], resync', Flow', k, cache'[k])
        BY <2>1, <4>2, <4>4 DEF Says
      <4> QED  BY <2>1, <3>1, <4>5, <1>a, <1>b, NextClientWord
    <3>2. CASE d # c
      <4>1. Stream(d)' = Stream(d) /\ d \in opened
        BY <2>1, <3>2 DEF Stream
      <4> QED  BY <2>1, <4>1 DEF FanoutInv, NothingMissed
    <3> QED  BY <3>1, <3>2
  <2> QED  BY <1>a, <1>b, <2>1, <2>2, <2>3 DEF FanoutInv, TypeInv
<1>17. ASSUME NEW c \in Client, Deliver(c)  PROVE FanoutInv'
  <2> DEFINE h == Head(queue[c])
  <2>1. /\ Flow' = Flow /\ cache' = cache /\ lagged' = lagged /\ resync' = resync
        /\ fromSw' = fromSw /\ opened' = opened
        /\ queue[c] # <<>> /\ queue'[c] = Tail(queue[c])
        /\ view'[c] = Apply(h.map, view[c])
        /\ \A d \in opened : d # c => queue'[d] = queue[d] /\ view'[d] = view[d]
    BY <1>17, <1>a, <1>b DEF Deliver, upVars, ringVars, Flow, TypeOK
  <2> HIDE DEF h
  <2>2. ResyncIsFresh'
    BY <2>1 DEF FanoutInv, ResyncIsFresh
  <2>3. NothingMissed'
    <3> SUFFICES ASSUME ~ lagged, ~ Leaving(Flow), NEW d \in opened',
                        NEW k \in Key, cache[k] # Unset
                 PROVE  LastWord(Stream(d)', k, cache'[k])
      BY <2>1 DEF NothingMissed
    <3>1. CASE d = c
      <4>1. LastWord(Stream(c), k, cache[k])
        BY <2>1, <3>1 DEF FanoutInv, NothingMissed
      <4>2. Says(view[c], queue[c], resync, Flow, k, cache[k])
        BY <4>1, <1>a, ClientWord
      <4>3. /\ LastWord(queue[c], k, cache[k])
                 <=> \/ LastWord(queue'[c], k, cache[k])
                     \/ Quiet(queue'[c], k) /\ h.map[k] = cache[k]
            /\ Quiet(queue[c], k) <=> h.map[k] = Unset /\ Quiet(queue'[c], k)
        <5> DEFINE q == queue[c]
        <5>1. q \in Seq(Msg) /\ q # <<>> /\ h = Head(q) /\ queue'[c] = Tail(q)
          BY <1>a, <2>1 DEF TypeOK, h
        <5> HIDE DEF q
        <5>2. \A v : v # Unset =>
                 /\ LastWord(q, k, v)
                      <=> \/ LastWord(Tail(q), k, v)
                          \/ Quiet(Tail(q), k) /\ Head(q).map[k] = v
                 /\ Quiet(q, k) <=> Head(q).map[k] = Unset /\ Quiet(Tail(q), k)
          BY <5>1, HeadWord
        <5> QED  BY <5>1, <5>2 DEF q
      <4>4. view'[c][k] = IF h.map[k] # Unset THEN h.map[k] ELSE view[c][k]
        BY <2>1 DEF Apply
      <4>5. Says(view'[c], queue'[c], resync', Flow', k, cache'[k])
        BY <2>1, <4>2, <4>3, <4>4 DEF Says
      <4> QED  BY <2>1, <3>1, <4>5, <1>a, <1>b, NextClientWord
    <3>2. CASE d # c
      <4>1. Stream(d)' = Stream(d) /\ d \in opened
        BY <2>1, <3>2 DEF Stream
      <4> QED  BY <2>1, <4>1 DEF FanoutInv, NothingMissed
    <3> QED  BY <3>1, <3>2
  <2> QED  BY <1>a, <1>b, <2>1, <2>2, <2>3 DEF FanoutInv, TypeInv
<1>18. ASSUME NEW c \in Client, Expire(c)  PROVE FanoutInv'
  <2>1. /\ Flow' = Flow /\ cache' = cache /\ lagged' = lagged /\ resync' = resync
        /\ fromSw' = fromSw
    BY <1>18 DEF Expire, upVars, ringVars, Flow
  <2>2. SessionsKept
    BY <1>18, <1>b DEF Expire, Forget, SessionsKept
  <2> QED  BY <1>a, <1>b, <2>1, <2>2, FlowUntouched
<1>19. ASSUME UNCHANGED vars  PROVE FanoutInv'
  <2>1. /\ Flow' = Flow /\ cache' = cache /\ lagged' = lagged /\ resync' = resync
        /\ fromSw' = fromSw /\ SessionsKept
    BY <1>19 DEF vars, upVars, ringVars, cliVars, Flow, SessionsKept
  <2> QED  BY <1>a, <1>b, <2>1, FlowUntouched
<1> QED
  BY <1>1, <1>2, <1>3, <1>4, <1>5, <1>6, <1>7, <1>8, <1>9, <1>10, <1>11, <1>12,
     <1>13, <1>14, <1>15, <1>16, <1>17, <1>18, <1>19
     DEF Next, Upstream, Events

\* The inductive invariant holds throughout.
THEOREM FanoutInvariant == Spec => []FanoutInv
<1>1. ASSUME Init  PROVE FanoutInv
  <2>1. TypeInv
    BY <1>1, InitIsTyped
  <2>2. fromSw = <<>> /\ Flow = <<>> /\ opened = {} /\ resync = <<>>
    BY <1>1 DEF Init, Flow
  <2>3. SignalsAreEmpty(fromSw) /\ SignalsAreEmpty(Flow) /\ Fresh(Flow, cache)
    BY <2>2 DEF SignalsAreEmpty, Fresh, Quiet
  <2>4. ResyncIsFresh /\ NothingMissed
    BY <2>2 DEF ResyncIsFresh, NothingMissed
  <2> QED  BY <2>1, <2>3, <2>4 DEF FanoutInv, TypeInv
<1> QED  BY <1>1, FanoutStep, PTL DEF Spec

\* However clients come, go, open and expire, however far the events task falls
\* behind the broadcast ring, and however often the upstream session is lost:
\* the latest value of every cached key is the last thing an opened client has
\* been told or will be told about it.
THEOREM NothingIsMissed == Spec => []NothingMissed
<1>1. FanoutInv => NothingMissed
  BY DEF FanoutInv
<1> QED  BY <1>1, FanoutInvariant, PTL
=============================================================================
