------------------------------- MODULE MCTcs -------------------------------
(***************************************************************************)
(* An instance of Tcs with room for a listening socket and three sessions, *)
(* or for five connections of a client.                                    *)
(***************************************************************************)
EXTENDS Tcs

MCSocket == 1 .. 5
MCUser   == 1 .. 3
=============================================================================
