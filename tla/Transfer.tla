------------------------------ MODULE Transfer ------------------------------
(***************************************************************************)
(* The transfer lane (crates/atem-proxy/src/transfer.rs): at most one      *)
(* client at a time uploads or downloads media, and only a client that     *)
(* owns a store lock.  A lane is the owner of the active transfer or None; *)
(* byte counts and time stamps only feed the log.                          *)
(***************************************************************************)
EXTENDS Locks

\* The FT* commands fall into two classes: those that end a transfer (FTDC,
\* FTDE) and the others, for which FTDa stands.
FtName == {"FTDa", "FTDC"}

transfer_allowed(enabled, t, lane, from) ==
    enabled /\ is_owner(t, from) /\ lane \in {None, from}

\* The lane after an FT* command.  The first command opens the lane whatever
\* its name is.
client_transfer(enabled, t, lane, from, name) ==
    IF ~ transfer_allowed(enabled, t, lane, from) THEN lane
    ELSE IF lane = from /\ name = "FTDC"          THEN None
    ELSE from

transfer_client_disconnected(lane, c) == IF lane = c THEN None ELSE lane
=============================================================================
