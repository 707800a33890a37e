------------------------------ MODULE MCClient ------------------------------
(* A small instance of Client for TLC: up to four logs over small channels. *)
EXTENDS Client

MCLogs == {<<>>, <<1>>, <<1, 2, 3, 4>>}
=============================================================================
