-------------------------- MODULE MCReliableLink ----------------------------
(* Small instances of ReliableLink for TLC. *)
EXTENDS ReliableLink

AllLossy  == {"data", "ack"}
DataLossy == {"data"}
=============================================================================
