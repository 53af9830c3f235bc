--------------------------- MODULE SoftAtemProofs ---------------------------
(***************************************************************************)
(* Proofs about SoftAtem, for any clients, stores, channel capacity, order *)
(* of events and numbers of commands and lost upstream sessions.           *)
(***************************************************************************)
EXTENDS SoftAtem, FiniteSetTheorems, TLAPS

-----------------------------------------------------------------------------
\* The operations of the lock broker keep the table well formed.
LEMMA LockTableOps ==
    ASSUME NEW t \in LockTable, NEW c \in Client, NEW s \in Store,
           NEW b \in BOOLEAN
    PROVE  /\ locks_clear \in LockTable
           /\ client_lock_request(t, c, s, b) \in LockTable
           /\ on_upstream_lock_status(t, s, b) \in LockTable
           /\ locks_client_disconnected(t, c) \in LockTable
  BY DEF LockTable, StoreLock, locks_clear, client_lock_request,
         on_upstream_lock_status, locks_client_disconnected

\* What the filter forwards are commands.
LEMMA LockIsCommand ==
    \A c \in Client, s \in Store, on \in BOOLEAN : Lock(c, s, on) \in Command
  BY DEF Command, LockCommand

\* As above, for a subscription.
LEMMA AudioIsCommand ==
    \A c \in Client, nm \in AudioName, on \in BOOLEAN :
        Audio(c, nm, on) \in Command
  BY DEF Command, AudioCommand

\* The fields of a lock command.
LEMMA LockFields ==
    ASSUME NEW m \in Command, m.name = "LOCK"
    PROVE  m.store \in Store /\ m.from \in Client /\ m.on \in BOOLEAN
  BY FilterAssumption DEF Command, LockCommand, AudioCommand, TransferCommand,
                          Lock, Audio, Upload, FtName

\* A sequence of one element.
LEMMA SingletonSeq ==
    ASSUME NEW S, NEW x \in S
    PROVE  <<x>> \in Seq(S)
  OBVIOUS

\* What a client's end sends upstream is a sequence of commands.
LEMMA DisconnectCommandsType ==
    ASSUME NEW t \in LockTable, NEW A, NEW l \in AudioName \cup {None},
           NEW c \in Client, NEW q \in disconnect_commands(t, A, l, c)
    PROVE  q \in Seq(Command)
<1> DEFINE S == unlocks(t, c)
           n == Cardinality(S)
           audioPart == IF A = {c} /\ l # None
                        THEN <<Audio(c, l, FALSE)>> ELSE <<>>
<1>1. n \in Nat
  <2>1. S \subseteq Store
    BY DEF unlocks
  <2>2. IsFiniteSet(S)
    BY <2>1, LocksAssumption, FS_Subset
  <2> QED
    BY <2>2, FS_CardinalityType
<1>2. PICK f \in Orders(S) :
         q = audioPart \o [i \in DOMAIN f |-> Lock(c, f[i], FALSE)]
  BY DEF disconnect_commands
<1>3. f \in [1 .. n -> S]
  BY <1>2 DEF Orders
<1>4. \A i \in 1 .. n : Lock(c, f[i], FALSE) \in Command
  <2>1. \A i \in 1 .. n : f[i] \in Store
    BY <1>3 DEF unlocks
  <2> HIDE DEF n
  <2> QED
    BY <2>1, LockIsCommand
<1>5. [i \in DOMAIN f |-> Lock(c, f[i], FALSE)] \in Seq(Command)
  <2> DEFINE g == [i \in 1 .. n |-> Lock(c, f[i], FALSE)]
  <2>1. DOMAIN f = 1 .. n
    BY <1>3
  <2> HIDE DEF n
  <2>2. g \in [1 .. n -> Command]
    BY <1>4
  <2>3. g \in Seq(Command)
    <3> HIDE DEF g
    <3> QED
      BY <1>1, <2>2
  <2> QED
    BY <2>1, <2>3
<1>6. audioPart \in Seq(Command)
  <2>1. l # None => Audio(c, l, FALSE) \in Command
    BY AudioIsCommand
  <2>2. l # None => <<Audio(c, l, FALSE)>> \in Seq(Command)
    BY <2>1, SingletonSeq
  <2>3. <<>> \in Seq(Command)
    OBVIOUS
  <2> QED
    BY <2>2, <2>3
<1> HIDE DEF audioPart
<1> QED
  BY <1>2, <1>5, <1>6

\* A sender that has room keeps the channel within its capacity.
LEMMA SendKeepsBound ==
    ASSUME TypeOK, NEW m \in Command, HasRoom, chan' = Append(chan, m)
    PROVE  chan' \in Seq(Command) /\ Len(chan') <= Cap
<1>1. chan \in Seq(Command) /\ Cap \in Nat /\ Len(chan) \in Nat
  BY SoftAtemAssumption DEF TypeOK
<1>2. chan' \in Seq(Command) /\ Len(chan') = Len(chan) + 1
  BY <1>1
<1> QED
  BY <1>1, <1>2 DEF HasRoom

-----------------------------------------------------------------------------
(***************************************************************************)
(* Every variable keeps its type, and the command channel never holds more *)
(* than its capacity, whichever of its two senders (recv and tick) pushes. *)
(***************************************************************************)
THEOREM TypeCorrect == Spec => []TypeOK
<1>1. Init => TypeOK
  <2> SUFFICES ASSUME Init PROVE TypeOK
    OBVIOUS
  <2>1. locks \in LockTable
    BY DEF Init, locks_clear, LockTable, StoreLock
  <2>2. chan \in Seq(Command) /\ Len(chan) <= Cap
    BY SoftAtemAssumption DEF Init
  <2>3. swBy \in [Store -> Client \cup {None}]
    BY DEF Init
  <2> QED
    BY <2>1, <2>2, <2>3 DEF Init, TypeOK
<1>2. TypeOK /\ [Next]_vars => TypeOK'
  <2> SUFFICES ASSUME TypeOK, [Next]_vars PROVE TypeOK'
    OBVIOUS
  <2> USE DEF filterVars, recvVars, tickVars, linkVars
  <2>1. CASE UNCHANGED vars
    BY <2>1 DEF vars, TypeOK
  <2>2. ASSUME NEW c \in Client, HelloCheck(c) PROVE TypeOK'
    BY <2>2 DEF HelloCheck, TypeOK
  <2>3. ASSUME NEW c \in Client, NEW s \in Store, NEW on \in BOOLEAN,
               LockRequest(c, s, on)
        PROVE  TypeOK'
    <3>1. locks' \in LockTable
      BY <2>3, LockTableOps DEF LockRequest, TypeOK
    <3>2. recvOut' \in Seq(Command)
      <4>1. Lock(c, s, on) \in Command
        BY LockIsCommand
      <4> QED
        BY <2>3, <4>1 DEF LockRequest
    <3>3. raced' \in SUBSET Store
      BY <2>3 DEF LockRequest, Contended, TypeOK
    <3> QED
      BY <2>3, <3>1, <3>2, <3>3 DEF LockRequest, Receives, TypeOK
  <2>4. ASSUME NEW c \in Client, NEW ft \in FtName, TransferRequest(c, ft)
        PROVE  TypeOK'
    <3>1. lane' \in Client \cup {None}
      BY <2>4 DEF TransferRequest, client_transfer, TypeOK
    <3>2. recvOut' \in Seq(Command)
      <4>1. Upload(c, ft) \in Command
        BY DEF Command, TransferCommand
      <4> QED
        BY <2>4, <4>1 DEF TransferRequest
    <3> QED
      BY <2>4, <3>1, <3>2 DEF TransferRequest, Receives, TypeOK
  <2>5. ASSUME NEW c \in Client, NEW nm \in AudioName, NEW on \in BOOLEAN,
               AudioRequest(c, nm, on)
        PROVE  TypeOK'
    <3>1. /\ subs' \in SUBSET Client /\ audio' \in SUBSET sessions
          /\ lastEnable' \in AudioName \cup {None}
      BY <2>5 DEF AudioRequest, Receives, subs_after, last_after, TypeOK
    <3>2. recvOut' \in Seq(Command)
      <4>1. Audio(c, nm, on) \in Command
        BY AudioIsCommand
      <4> QED
        BY <2>5, <4>1 DEF AudioRequest
    <3> QED
      BY <2>5, <3>1, <3>2 DEF AudioRequest, Receives, TypeOK
  <2>6. ASSUME NEW c \in Client, Cleanup(c) PROVE TypeOK'
    <3>1. tickOut' \in Seq(Command)
      BY <2>6, DisconnectCommandsType DEF Cleanup, TypeOK
    <3>2. locks' \in LockTable
      BY <2>6, LockTableOps DEF Cleanup, TypeOK, LockTable, StoreLock,
                                locks_client_disconnected
    <3>3. lane' \in Client \cup {None}
      BY <2>6 DEF Cleanup, transfer_client_disconnected, TypeOK
    <3>4. raced' \in SUBSET Store
      BY <2>6 DEF Cleanup, Unconfirmed, TypeOK
    <3> QED
      BY <2>6, <3>1, <3>2, <3>3, <3>4 DEF Cleanup, TypeOK
  <2>7. CASE HelloInsert
    BY <2>7 DEF HelloInsert, TypeOK
  <2>8. CASE RecvSend
    <3>1. Head(recvOut) \in Command /\ Tail(recvOut) \in Seq(Command)
      BY <2>8 DEF RecvSend, TypeOK
    <3>2. chan' \in Seq(Command) /\ Len(chan') <= Cap
      BY <2>8, <3>1, SendKeepsBound DEF RecvSend
    <3> QED
      BY <2>8, <3>1, <3>2 DEF RecvSend, TypeOK
  <2>9. ASSUME NEW D \in SUBSET sessions, Expire(D) PROVE TypeOK'
    BY <2>9 DEF Expire, TypeOK
  <2>10. CASE TickSend
    <3>1. Head(tickOut) \in Command /\ Tail(tickOut) \in Seq(Command)
      BY <2>10 DEF TickSend, TypeOK
    <3>2. chan' \in Seq(Command) /\ Len(chan') <= Cap
      BY <2>10, <3>1, SendKeepsBound DEF TickSend
    <3> QED
      BY <2>10, <3>1, <3>2 DEF TickSend, TypeOK
  <2>11. CASE Forward
    <3>1. toSw' \in Seq(Command)
      BY <2>11 DEF Forward, TypeOK
    <3>2. chan' \in Seq(Command) /\ Len(chan') <= Cap
      BY <2>11, SoftAtemAssumption DEF Forward
    <3> QED
      BY <2>11, <3>1, <3>2 DEF Forward, TypeOK
  <2>12. CASE LockStatus
    <3>1. Head(fromSw) \in Status /\ Tail(fromSw) \in Seq(Status)
      BY <2>12 DEF LockStatus, TypeOK
    <3>2. locks' \in LockTable
      BY <2>12, <3>1 DEF LockStatus, TypeOK, LockTable, StoreLock, Status,
                         on_upstream_lock_status
    <3> QED
      BY <2>12, <3>1, <3>2 DEF LockStatus, TypeOK
  <2>13. CASE UpstreamLost
    <3>1. locks' \in LockTable
      BY <2>13 DEF UpstreamLost, locks_clear, LockTable, StoreLock
    <3>2. swBy' \in [Store -> Client \cup {None}]
      BY <2>13 DEF UpstreamLost
    <3>3. raced' \in SUBSET Store
      BY <2>13 DEF UpstreamLost, Leftover, TypeOK
    <3> QED
      BY <2>13, <3>1, <3>2, <3>3 DEF UpstreamLost, TypeOK
  <2>14. CASE UpstreamInit
    BY <2>14 DEF UpstreamInit, TypeOK
  <2>15. CASE UpstreamReady
    BY <2>15 DEF UpstreamReady, TypeOK
  <2>16. CASE Disconnected
    BY <2>16 DEF Disconnected, Abandoned, TypeOK
  <2>17. CASE Switcher
    <3> DEFINE m == Head(toSw)
    <3>1. m \in Command /\ Tail(toSw) \in Seq(Command)
      BY <2>17 DEF Switcher, TypeOK
    <3>2. /\ m.name = "LOCK" => m.name \notin AudioName \cup FtName
          /\ m.name \in AudioName => m.name \notin FtName
      BY FilterAssumption DEF FtName
    <3>3. CASE m.name = "LOCK"
      <4>1. m.store \in Store /\ m.from \in Client /\ m.on \in BOOLEAN
        BY <3>1, <3>3, LockFields
      <4>2. swBy' = [swBy EXCEPT ![m.store] = IF m.on THEN m.from ELSE None]
            /\ fromSw' = Append(fromSw, [store |-> m.store, locked |-> m.on])
            /\ swAudio' = swAudio
        BY <2>17, <3>2, <3>3 DEF Switcher
      <4>3. swBy' \in [Store -> Client \cup {None}]
        BY <4>1, <4>2 DEF TypeOK
      <4>4. fromSw' \in Seq(Status)
        <5>1. [store |-> m.store, locked |-> m.on] \in Status
          BY <4>1 DEF Status
        <5> QED
          BY <4>2, <5>1 DEF TypeOK
      <4> QED
        BY <2>17, <3>1, <4>2, <4>3, <4>4 DEF Switcher, TypeOK
    <3>4. CASE m.name \in AudioName
      BY <2>17, <3>1, <3>2, <3>4 DEF Switcher, TypeOK
    <3>5. CASE m.name \notin {"LOCK"} \cup AudioName
      BY <2>17, <3>1, <3>5 DEF Switcher, TypeOK
    <3> QED
      BY <3>3, <3>4, <3>5
  <2> QED
    BY <2>1, <2>2, <2>3, <2>4, <2>5, <2>6, <2>7, <2>8, <2>9, <2>10, <2>11,
       <2>12, <2>13, <2>14, <2>15, <2>16, <2>17 DEF Next
<1> QED
  BY <1>1, <1>2, PTL DEF Spec

-----------------------------------------------------------------------------
(***************************************************************************)
(* The transfer lane never belongs to a client that is gone: its owner has *)
(* a session or is being taken down by tick, in every order and through    *)
(* every loss of the upstream session.                                     *)
(***************************************************************************)
THEOREM LaneIsServed == Spec => []NoOrphanLane
<1>1. Init => NoOrphanLane
  BY DEF Init, NoOrphanLane
<1>2. TypeOK /\ NoOrphanLane /\ [Next]_vars => NoOrphanLane'
  <2> SUFFICES ASSUME TypeOK, NoOrphanLane, [Next]_vars PROVE NoOrphanLane'
    OBVIOUS
  <2> USE DEF NoOrphanLane, filterVars, recvVars, tickVars, linkVars
  <2>1. CASE UNCHANGED vars
    BY <2>1 DEF vars
  <2>2. ASSUME NEW c \in Client, HelloCheck(c) PROVE NoOrphanLane'
    BY <2>2 DEF HelloCheck
  <2>3. ASSUME NEW c \in Client, NEW s \in Store, NEW on \in BOOLEAN,
               LockRequest(c, s, on)
        PROVE  NoOrphanLane'
    BY <2>3 DEF LockRequest, Receives
  <2>4. ASSUME NEW c \in Client, NEW ft \in FtName, TransferRequest(c, ft)
        PROVE  NoOrphanLane'
    <3>1. c \in sessions /\ lane' \in {lane, c, None}
      BY <2>4 DEF TransferRequest, Receives, client_transfer
    <3> QED
      BY <2>4, <3>1 DEF TransferRequest, Receives
  <2>5. ASSUME NEW c \in Client, NEW nm \in AudioName, NEW on \in BOOLEAN,
               AudioRequest(c, nm, on)
        PROVE  NoOrphanLane'
    BY <2>5 DEF AudioRequest, Receives
  <2>6. ASSUME NEW c \in Client, Cleanup(c) PROVE NoOrphanLane'
    <3>1. lane' = None \/ (lane' = lane /\ lane # c)
      BY <2>6 DEF Cleanup, transfer_client_disconnected
    <3> QED
      BY <2>6, <3>1 DEF Cleanup
  <2>7. CASE HelloInsert
    BY <2>7 DEF HelloInsert
  <2>8. CASE RecvSend
    BY <2>8 DEF RecvSend
  <2>9. ASSUME NEW D \in SUBSET sessions, Expire(D) PROVE NoOrphanLane'
    BY <2>9 DEF Expire, TickIdle
  <2>10. CASE TickSend
    BY <2>10 DEF TickSend
  <2>11. CASE Forward
    BY <2>11 DEF Forward
  <2>12. CASE LockStatus
    BY <2>12 DEF LockStatus
  <2>13. CASE UpstreamLost
    BY <2>13 DEF UpstreamLost
  <2>14. CASE UpstreamInit \/ UpstreamReady
    BY <2>14 DEF UpstreamInit, UpstreamReady
  <2>15. CASE Disconnected
    BY <2>15 DEF Disconnected
  <2>16. CASE Switcher
    BY <2>16 DEF Switcher
  <2> QED
    BY <2>1, <2>2, <2>3, <2>4, <2>5, <2>6, <2>7, <2>8, <2>9, <2>10, <2>11,
       <2>12, <2>13, <2>14, <2>15, <2>16 DEF Next
<1> QED
  BY <1>1, <1>2, TypeCorrect, PTL DEF Spec

-----------------------------------------------------------------------------
\* Every owner has a session or is being taken down.
OwnersServed ==
    \A s \in Store : locks[s].owner \in sessions \cup dead \cup {None}

\* Inductive form of NoOrphanLock.  locks.clear() and the clearing of the
\* sessions are two steps of two tasks, so it is claimed only as long as no
\* upstream session was lost, and then no Disconnected event is under way.
ServedUntilDrop == drops = 0 => gone = 0 /\ OwnersServed

\* It is inductive.
LEMMA ServedInvariant == Spec => []ServedUntilDrop
<1>1. Init => ServedUntilDrop
  BY DEF Init, ServedUntilDrop, OwnersServed, locks_clear
<1>2. TypeOK /\ ServedUntilDrop /\ [Next]_vars => ServedUntilDrop'
  <2> SUFFICES ASSUME TypeOK, ServedUntilDrop, [Next]_vars, drops' = 0
               PROVE  gone' = 0 /\ OwnersServed'
    BY DEF ServedUntilDrop
  <2> USE DEF OwnersServed, filterVars, recvVars, tickVars, linkVars
  <2>1. CASE UNCHANGED vars
    BY <2>1 DEF vars, ServedUntilDrop
  <2>2. ~ UpstreamLost
    BY DEF UpstreamLost, TypeOK
  <2>3. drops = 0 /\ gone = 0 /\ OwnersServed
    <3>1. drops = 0
      BY <2>2 DEF Next, vars, HelloCheck, LockRequest, TransferRequest,
                  AudioRequest, Receives, Cleanup, HelloInsert, RecvSend,
                  Expire, TickSend, Forward, LockStatus, UpstreamInit,
                  UpstreamReady, Disconnected, Switcher
    <3> QED
      BY <3>1 DEF ServedUntilDrop
  <2>4. ~ Disconnected
    BY <2>3 DEF Disconnected
  <2>5. ASSUME NEW c \in Client, HelloCheck(c)
        PROVE  gone' = 0 /\ OwnersServed'
    BY <2>3, <2>5 DEF HelloCheck
  <2>6. ASSUME NEW c \in Client, NEW s \in Store, NEW on \in BOOLEAN,
               LockRequest(c, s, on)
        PROVE  gone' = 0 /\ OwnersServed'
    <3>1. c \in sessions /\ gone' = gone /\ sessions' = sessions /\ dead' = dead
      BY <2>6 DEF LockRequest, Receives
    <3>2. \A r \in Store : locks'[r].owner \in {locks[r].owner, c, None}
      BY <2>6 DEF LockRequest, client_lock_request, TypeOK, LockTable, StoreLock
    <3> QED
      BY <2>3, <3>1, <3>2
  <2>7. ASSUME NEW c \in Client, NEW ft \in FtName, TransferRequest(c, ft)
        PROVE  gone' = 0 /\ OwnersServed'
    BY <2>3, <2>7 DEF TransferRequest, Receives
  <2>8. ASSUME NEW c \in Client, NEW nm \in AudioName, NEW on \in BOOLEAN,
               AudioRequest(c, nm, on)
        PROVE  gone' = 0 /\ OwnersServed'
    BY <2>3, <2>8 DEF AudioRequest, Receives
  <2>9. ASSUME NEW c \in Client, Cleanup(c)
        PROVE  gone' = 0 /\ OwnersServed'
    <3>1. \A r \in Store : \/ locks'[r].owner = None
                            \/ /\ locks'[r].owner = locks[r].owner
                               /\ locks[r].owner # c
      BY <2>9 DEF Cleanup, locks_client_disconnected, TypeOK, LockTable,
                  StoreLock
    <3>2. gone' = gone /\ sessions' = sessions /\ dead' = dead \ {c}
      BY <2>9 DEF Cleanup
    <3> QED
      BY <2>3, <3>1, <3>2
  <2>10. CASE HelloInsert
    BY <2>3, <2>10 DEF HelloInsert
  <2>11. CASE RecvSend
    BY <2>3, <2>11 DEF RecvSend
  <2>12. ASSUME NEW D \in SUBSET sessions, Expire(D)
         PROVE  gone' = 0 /\ OwnersServed'
    BY <2>3, <2>12 DEF Expire, TickIdle
  <2>13. CASE TickSend
    BY <2>3, <2>13 DEF TickSend
  <2>14. CASE Forward
    BY <2>3, <2>14 DEF Forward
  <2>15. CASE LockStatus
    <3>1. \A r \in Store : locks'[r].owner \in {locks[r].owner, None}
      BY <2>15 DEF LockStatus, on_upstream_lock_status, TypeOK, LockTable,
                   StoreLock
    <3>2. gone' = gone /\ sessions' = sessions /\ dead' = dead
      BY <2>15 DEF LockStatus
    <3> QED
      BY <2>3, <3>1, <3>2
  <2>16. CASE UpstreamInit \/ UpstreamReady
    BY <2>3, <2>16 DEF UpstreamInit, UpstreamReady
  <2>17. CASE Switcher
    BY <2>3, <2>17 DEF Switcher
  <2> QED
    BY <2>1, <2>2, <2>4, <2>5, <2>6, <2>7, <2>8, <2>9, <2>10, <2>11, <2>12,
       <2>13, <2>14, <2>15, <2>16, <2>17 DEF Next
<1> QED
  BY <1>1, <1>2, TypeCorrect, PTL DEF Spec

(***************************************************************************)
(* Within one upstream session, no store is owned by a client that is gone *)
(* (LockBroker), in whatever order clients time out and come back.         *)
(***************************************************************************)
THEOREM OwnerIsServed == Spec => []NoOrphanLock
<1>1. ServedUntilDrop => NoOrphanLock
  BY DEF ServedUntilDrop, OwnersServed, NoOrphanLock
<1> QED
  BY <1>1, ServedInvariant, PTL
=============================================================================
