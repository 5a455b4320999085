----------------------------- MODULE MCTcpClient -----------------------------
(* A small instance of TcpClient for TLC. *)
EXTENDS TcpClient
=============================================================================
