------------------------------ MODULE SpeedRun ------------------------------
(***************************************************************************)
(* What the game promises about a run up the mountain: it is over once,    *)
(* its result is then fixed until the player restarts, and the result says *)
(* whether the player flew.  GameRun is shown to implement it.             *)
(***************************************************************************)
CONSTANTS
  NoResult,
  Time,     (* the times a clock can show                                  *)
  Scales    (* what can be collected on the way                            *)

VARIABLES
  phase,    (* "ready", "running" or "over"                                *)
  flown,    (* the player flew in this run                                 *)
  result    (* what is shown when the run is over                          *)

vars == <<phase, flown, result>>

Result == [time : Time, scales : SUBSET Scales, cheated : {0, 1}]

Init ==
  /\ phase = "ready"
  /\ flown = 0
  /\ result = NoResult

(* The player moves, which starts the clock, or flies, which is noted.     *)
Play ==
  /\ phase # "over"
  /\ phase' \in {phase, "running"}
  /\ flown' \in {flown, 1}
  /\ UNCHANGED result

Finish ==
  /\ phase = "running"
  /\ phase' = "over"
  /\ result' \in {r \in Result : r.cheated = flown}
  /\ UNCHANGED flown

(* The player presses the key or dies; the next run may start at once.     *)
Restart ==
  /\ phase' \in {"ready", "running"}
  /\ flown' = 0
  /\ result' = NoResult

Next == Play \/ Finish \/ Restart

Spec == Init /\ [][Next]_vars
=============================================================================
