---------------------------- MODULE MCDBConnector ----------------------------
(***************************************************************************)
(* Instances of DBConnector for TLC.  One operation and one class of reply *)
(* are enough: the connector looks at neither.  Two senders, two serials   *)
(* (0 among them, the serial of the NULL sender) and two Callers.          *)
(***************************************************************************)
EXTENDS DBConnector

CONSTANTS s1, s2, c1, c2

MCSerial == 0 .. 1
MCCalls == {c1, c2}
MCSenders == {s1, s2}
=============================================================================
