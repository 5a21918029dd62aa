------------------------------ MODULE MCServer ------------------------------
(* Instances of Server for TLC.                                            *)
EXTENDS Server

CONSTANTS alice, nameless

SomeNames == {nameless, alice}
=============================================================================
