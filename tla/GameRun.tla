------------------------------- MODULE GameRun -------------------------------
(***************************************************************************)
(* One run of the game: the timer, death and respawn, the collectables and *)
(* the jetpack cheat (src/main.ks).  A step is a key press handled between *)
(* two frames or a whole frame: Game.update reads the input, checks what   *)
(* the player has reached, and then moves the player.                      *)
(*                                                                         *)
(* Geometry is abstracted to the places that matter: the spawn point, the  *)
(* lava, the finish, the collectables, and the field between them.  Time   *)
(* is counted in units of which the delta of a frame takes a few.          *)
(***************************************************************************)
EXTENDS Integers

CONSTANTS
  Scales,     (* the dragon scales                                         *)
  Deltas,     (* the frame times that occur: min(delta_time, 0.050)        *)
  DeathTime,  (* how long a dead player stays so: 1 s                      *)
  MaxTime     (* bound: the timer stops counting here                      *)

ASSUME ScalesAssumption ==
  Scales \cap {"start", "field", "lava", "finish"} = {}
ASSUME TimeAssumption ==
  /\ Deltas \subseteq Nat \ {0}
  /\ DeathTime \in Nat
  /\ MaxTime \in Nat

Place == Scales \cup {"start", "field", "lava", "finish"}

(* Where a frame can take the player from there: at rest on the spawn      *)
(* point, it can fall to the ground and no more.  Nothing is both within   *)
(* the player's radius of the finish and in touch with lava: in the level  *)
(* they are more than six units apart.                                     *)
Reach(place) == IF place = "start" THEN {"start", "field"} ELSE Place

VARIABLES
  run,     (* the fields of Game that restart() resets                     *)
  power,   (* the variant of player.power                                  *)
  slowed,  (* its .active when it is :TimeScale                            *)
  index    (* power_index                                                  *)

vars == <<run, power, slowed, index>>

(* Histories: flown, the free flight of the F key has moved the player     *)
(* before the win; reports, how often beat_game was sent.  (The jetpack    *)
(* that P selects is a power like the parachute, and no cheat.)            *)
Run ==
  [ timer : {"WaitForMove", "Working", "Win"}, time : 0 .. MaxTime,
    dead : {0, 1}, dead_timer : Nat, place : Place, collected : SUBSET Scales,
    jetpack_enabled : {0, 1}, cheated : {0, 1},
    flown : {0, 1}, reports : Nat ]

TypeOK ==
  /\ run \in Run
  /\ run.reports <= 1
  /\ power \in {"TimeScale", "None", "Parachute", "Jetpack"}
  /\ slowed \in {0, 1}
  /\ index \in 0 .. 2

(* restart(): everything but the skin and the power.                       *)
NewRun ==
  [ timer |-> "WaitForMove", time |-> 0, dead |-> 0, dead_timer |-> 0,
    place |-> "start", collected |-> {}, jetpack_enabled |-> 0, cheated |-> 0,
    flown |-> 0, reports |-> 0 ]

Init ==
  /\ run = NewRun
  /\ power = "TimeScale"
  /\ slowed = 0
  /\ index = 0

-----------------------------------------------------------------------------
(* handle_event.                                                           *)

PressR ==
  /\ run' = NewRun
  /\ UNCHANGED <<power, slowed, index>>

PressF ==
  /\ run' = [run EXCEPT !.jetpack_enabled = 1 - @]
  /\ UNCHANGED <<power, slowed, index>>

(* The power the game starts with is not among those the key cycles.       *)
PressP ==
  /\ index' = (index + 1) % 3
  /\ power' = CASE index' = 0 -> "None"
                [] index' = 1 -> "Parachute"
                [] index' = 2 -> "Jetpack"
  /\ slowed' = 0
  /\ UNCHANGED run

-----------------------------------------------------------------------------
(* update: what becomes of the run in each part of a frame, in the order   *)
(* of the code.                                                            *)

(* Mutant: restart() leaves the mark of the cheat.                         *)
RespawnStillMarked(r, dt) ==
  IF r.dead = 0 THEN r
  ELSE IF r.dead_timer + dt > DeathTime THEN [NewRun EXCEPT !.cheated = r.cheated]
  ELSE [r EXCEPT !.dead_timer = @ + dt]

(* Mutant: only the running clock counts the time of death.                *)
RespawnWhenWorking(r, dt) ==
  LET waited == [r EXCEPT !.dead_timer = IF r.timer = "Working" THEN @ + dt ELSE @]
  IN  IF r.dead = 0 THEN r
      ELSE IF waited.dead_timer > DeathTime THEN NewRun
      ELSE waited

Respawn(r, dt) ==
  IF r.dead = 0 THEN r
  ELSE IF r.dead_timer + dt > DeathTime THEN NewRun
  ELSE [r EXCEPT !.dead_timer = @ + dt]

(* Mutant: scales are collected after the win, too.                        *)
CollectAlways(r) ==
  IF r.place \in Scales THEN [r EXCEPT !.collected = @ \cup {r.place}] ELSE r

Collect(r) ==
  IF r.timer # "Win" /\ r.place \in Scales
  THEN [r EXCEPT !.collected = @ \cup {r.place}]
  ELSE r

Capped(t) == IF t <= MaxTime THEN t ELSE MaxTime

Count(r, dt) ==
  IF r.timer = "Working" THEN [r EXCEPT !.time = Capped(@ + dt)] ELSE r

(* Mutant: the timer goes on after the win.                                *)
FinishGoesOn(r) ==
  IF r.place = "finish" /\ r.timer = "Working"
  THEN [r EXCEPT !.reports = @ + 1]
  ELSE r

Finish(r) ==
  IF r.place = "finish" /\ r.timer = "Working"
  THEN [r EXCEPT !.timer = "Win", !.reports = @ + 1]
  ELSE r

(* The mark does not ask whether the player is alive to fly.               *)
MarkCheat(r) ==
  IF r.jetpack_enabled = 1 /\ r.timer # "Win"
  THEN [r EXCEPT !.cheated = 1]
  ELSE r

StartTimer(r, moves) ==
  IF moves /\ r.timer = "WaitForMove"
  THEN [r EXCEPT !.timer = "Working", !.time = 0]
  ELSE r

(* Entity.update_input accelerates the player to fly, in every step of     *)
(* physics, and update_step moves by it: a frame longer than 0.1 ms has    *)
(* one, min_physics_delta_time being 0.                                    *)
Fly(r) ==
  IF r.jetpack_enabled = 1 /\ r.timer # "Win" THEN [r EXCEPT !.flown = 1] ELSE r

(* Mutant: update_step moves the dead, too.                                *)
MovedAlways(r) ==
  {[Fly(r) EXCEPT !.place = p, !.dead = IF p = "lava" THEN 1 ELSE @] :
     p \in Reach(r.place)}

(* The steps of physics: update_step returns at once for the dead, who     *)
(* stay where they are and do not fly, and touching lava kills.            *)
Moved(r) ==
  IF r.dead = 1 THEN {r}
  ELSE {[Fly(r) EXCEPT !.place = p, !.dead = IF p = "lava" THEN 1 ELSE 0] :
          p \in Reach(r.place)}

(* The run when the player is moved, in a frame of length dt.              *)
BeforePhysics(r, dt, moves) ==
  StartTimer(MarkCheat(Finish(Count(Collect(Respawn(r, dt)), dt))), moves)

(* `moves': one of the movement keys is down; `button': the right mouse    *)
(* button is.  The time scale set in one frame is that of the next.        *)
Update(delta, moves, button) ==
  LET dt == IF slowed = 1 THEN delta \div 2 ELSE delta
  IN  /\ run' \in Moved(BeforePhysics(run, dt, moves))
      /\ slowed' = IF power = "TimeScale" THEN button ELSE 0
      /\ UNCHANGED <<power, index>>

Frame == \E delta \in Deltas, moves \in BOOLEAN, button \in {0, 1} :
           Update(delta, moves, button)

Next == PressR \/ PressF \/ PressP \/ Frame

Spec == Init /\ [][Next]_vars

(* The game loop runs frame after frame; nobody owes it a key press.       *)
FairSpec == Spec /\ WF_vars(Frame)

-----------------------------------------------------------------------------
(* Properties.                                                             *)

(* Nobody flies before the win without the mark of the cheat (line 1574),  *)
(* whenever the key was pressed and released.  Who is alive or has won is  *)
(* marked ("with cheats", line 1364) only for having flown: the dead are   *)
(* marked, too, when the key is on although nothing moves them (lines 648, *)
(* 1570), but they lose that mark before they can win.                     *)
CheatedIffFlown ==
  /\ run.flown = 1 => run.cheated = 1
  /\ run.dead = 0 \/ run.timer = "Win" => run.cheated = run.flown

(* Nobody wins dead: the body does not slide into the finish while the     *)
(* respawn is pending (lines 648, 1469-1474, 1563-1569).                   *)
DeadDoNotWin ==
  [][run.timer = "Working" /\ run'.timer = "Win" => run.dead = 0]_vars

(* Whoever died is put back to the start.                                  *)
Respawns == run.dead = 1 ~> run.dead = 0

NoResult == "none"

Abstract == INSTANCE SpeedRun WITH
  Time   <- 0 .. MaxTime,
  phase  <- [WaitForMove |-> "ready", Working |-> "running", Win |-> "over"][run.timer],
  flown  <- run.flown,
  result <- IF run.timer = "Win"
            THEN [time |-> run.time, scales |-> run.collected, cheated |-> run.cheated]
            ELSE NoResult

(* The result that is shown and reported is decided once per run, says     *)
(* whether it was flown, and stays as it is until the next run.            *)
ImplementsSpeedRun == Abstract!Spec
=============================================================================
