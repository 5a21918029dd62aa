------------------------------- MODULE MCMmo -------------------------------
(* Instances of Mmo for TLC: one game client among sessions of any kind.   *)
EXTENDS Mmo

CONSTANTS c1, nameless, none, waiting

OneClient  == {c1}
Nameless   == {nameless}
=============================================================================
