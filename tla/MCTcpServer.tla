----------------------------- MODULE MCTcpServer -----------------------------
(* Small instances of TcpReading for TLC: only numbers to choose.          *)
EXTENDS TcpReading
=============================================================================
