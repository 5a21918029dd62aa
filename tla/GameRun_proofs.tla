--------------------------- MODULE GameRun_proofs ---------------------------
(***************************************************************************)
(* Proofs about a run of the game, for every set of collectables, frame    *)
(* times and limits.                                                       *)
(*                                                                         *)
(* A frame is a pipeline: each part of it takes the run to the next, and   *)
(* RunInv is kept by each, but for the two that mark and fly, which only   *)
(* together keep the cheat mark in step with the jetpack - of the living:  *)
(* the dead are marked without flying, and respawn before they can win.    *)
(***************************************************************************)
EXTENDS GameRun, TLAPS

RunInv(r) ==
  /\ r \in Run
  /\ r.flown = 1 => r.cheated = 1
  /\ r.dead = 0 \/ r.timer = "Win" => r.cheated = r.flown
  /\ r.dead = 1 => r.place = "lava"
  /\ r.reports = IF r.timer = "Win" THEN 1 ELSE 0

IInv == RunInv(run) /\ TypeOK

(* What the abstract specification sees of a run.                          *)
Seen(r) == <<r.timer, r.time, r.collected, r.cheated, r.flown>>

(* Replacing one field, or two, leaves a run a run.                        *)
LEMMA FieldTypes ==
  ASSUME NEW r \in Run
  PROVE  /\ \A t \in {"WaitForMove", "Working", "Win"} : [r EXCEPT !.timer = t] \in Run
         /\ \A n \in Nat : [r EXCEPT !.reports = n] \in Run
         /\ \A t \in 0 .. MaxTime : [r EXCEPT !.time = t] \in Run
         /\ \A p \in Place : [r EXCEPT !.place = p] \in Run
         /\ \A d \in {0, 1} : [r EXCEPT !.dead = d] \in Run
BY DEF Run

LEMMA NewRunInv == RunInv(NewRun)
BY TimeAssumption DEF RunInv, NewRun, Run, Place

(* The frame's parts up to the win.                                        *)
LEMMA RespawnInv ==
  ASSUME NEW r, RunInv(r), NEW dt \in Nat
  PROVE  /\ RunInv(Respawn(r, dt))
         /\ \/ Respawn(r, dt) = NewRun
            \/ /\ Seen(Respawn(r, dt)) = Seen(r)
               /\ Respawn(r, dt).dead = r.dead
<1>1. CASE r.dead = 0
  BY <1>1 DEF Respawn
<1>2. CASE r.dead # 0 /\ r.dead_timer + dt > DeathTime
  BY <1>2, NewRunInv DEF Respawn
<1>3. CASE r.dead # 0 /\ ~ (r.dead_timer + dt > DeathTime)
  <2>1. r \in Run
    BY DEF RunInv
  <2>2. r.dead_timer + dt \in Nat
    BY <2>1 DEF Run
  <2>3. Respawn(r, dt) = [r EXCEPT !.dead_timer = r.dead_timer + dt]
    BY <1>3 DEF Respawn
  <2>4. Respawn(r, dt) \in Run
    BY <2>1, <2>2, <2>3 DEF Run
  <2> QED BY <2>1, <2>3, <2>4 DEF RunInv, Run, Seen
<1> QED BY <1>1, <1>2, <1>3

LEMMA CollectInv ==
  ASSUME NEW r, RunInv(r)
  PROVE  /\ RunInv(Collect(r))
         /\ Collect(r).timer = r.timer
         /\ Collect(r).dead = r.dead
         /\ Collect(r).jetpack_enabled = r.jetpack_enabled
         /\ Collect(r).flown = r.flown
         /\ Collect(r).cheated = r.cheated
         /\ Collect(r).place = r.place
         /\ r.timer = "Win" => Collect(r) = r
<1>1. r \in Run
  BY DEF RunInv
<1>2. CASE r.timer # "Win" /\ r.place \in Scales
  <2>1. Collect(r) = [r EXCEPT !.collected = r.collected \cup {r.place}]
    BY <1>2 DEF Collect
  <2>2. r.collected \cup {r.place} \in SUBSET Scales
    BY <1>1, <1>2 DEF Run
  <2>3. Collect(r) \in Run
    BY <1>1, <2>1, <2>2 DEF Run
  <2> QED BY <1>1, <1>2, <2>1, <2>3 DEF RunInv, Run
<1>3. CASE ~ (r.timer # "Win" /\ r.place \in Scales)
  BY <1>3 DEF Collect
<1> QED BY <1>2, <1>3

LEMMA CountInv ==
  ASSUME NEW r, RunInv(r), NEW dt \in Nat
  PROVE  /\ RunInv(Count(r, dt))
         /\ Count(r, dt).timer = r.timer
         /\ Count(r, dt).dead = r.dead
         /\ Count(r, dt).jetpack_enabled = r.jetpack_enabled
         /\ Count(r, dt).flown = r.flown
         /\ Count(r, dt).cheated = r.cheated
         /\ Count(r, dt).place = r.place
         /\ r.timer = "Win" => Count(r, dt) = r
<1>1. r \in Run
  BY DEF RunInv
<1>2. CASE r.timer = "Working"
  <2>1. Count(r, dt) = [r EXCEPT !.time = Capped(r.time + dt)]
    BY <1>2 DEF Count
  <2>2. Capped(r.time + dt) \in 0 .. MaxTime
    BY <1>1, TimeAssumption DEF Run, Capped
  <2>3. Count(r, dt) \in Run
    BY <1>1, <2>1, <2>2 DEF Run
  <2> QED BY <1>1, <1>2, <2>1, <2>3 DEF RunInv, Run
<1>3. CASE r.timer # "Working"
  BY <1>3 DEF Count
<1> QED BY <1>2, <1>3

LEMMA FinishInv ==
  ASSUME NEW r, RunInv(r)
  PROVE  /\ RunInv(Finish(r))
         /\ Finish(r).flown = r.flown
         /\ Finish(r).jetpack_enabled = r.jetpack_enabled
         /\ \/ Finish(r) = r
            \/ /\ r.timer = "Working" /\ r.dead = 0
               /\ Finish(r).timer = "Win"
<1>1. r \in Run
  BY DEF RunInv
<1>2. CASE r.place = "finish" /\ r.timer = "Working"
  <2>1. Finish(r) = [r EXCEPT !.timer = "Win", !.reports = 1]
    BY <1>1, <1>2 DEF Finish, RunInv, Run
  <2>2. Finish(r) \in Run
    <3> DEFINE q == [r EXCEPT !.timer = "Win"]
    <3>1. q \in Run
      BY <1>1, FieldTypes
    <3>2. [q EXCEPT !.reports = 1] \in Run
      BY <3>1, FieldTypes
    <3>3. Finish(r) = [q EXCEPT !.reports = 1]
      BY <1>1, <2>1 DEF Run
    <3> QED BY <3>2, <3>3
  <2>3. r.dead = 0
    BY <1>1, <1>2 DEF RunInv, Run
  <2> QED BY <1>1, <1>2, <2>1, <2>2, <2>3 DEF RunInv, Run
<1>3. CASE ~ (r.place = "finish" /\ r.timer = "Working")
  BY <1>3 DEF Finish
<1> QED BY <1>2, <1>3

-----------------------------------------------------------------------------
(* The rest of the frame marks the cheat, starts the timer and moves the   *)
(* player.                                                                 *)
LEMMA MovedInv ==
  ASSUME NEW r, RunInv(r), NEW moves \in BOOLEAN,
         NEW s \in Moved(StartTimer(MarkCheat(r), moves))
  PROVE  /\ RunInv(s)
         /\ s.collected = r.collected
         /\ s.timer = r.timer \/ (r.timer = "WaitForMove" /\ s.timer = "Working")
         /\ s.flown = r.flown \/ (r.timer # "Win" /\ s.flown = 1 /\ r.jetpack_enabled = 1)
         /\ r.timer = "Win" => s.time = r.time /\ s.flown = r.flown
<1> DEFINE m == MarkCheat(r)
           t == StartTimer(m, moves)
           f == IF t.dead = 1 THEN t ELSE Fly(t)
           flies == r.jetpack_enabled = 1 /\ r.timer # "Win"
<1>1. /\ r \in Run
      /\ r.flown = 1 => r.cheated = 1
      /\ r.dead = 0 \/ r.timer = "Win" => r.cheated = r.flown
      /\ r.dead = 1 => r.place = "lava"
      /\ r.reports = IF r.timer = "Win" THEN 1 ELSE 0
  BY DEF RunInv
<1>2. /\ m \in Run
      /\ m = IF flies THEN [r EXCEPT !.cheated = 1] ELSE r
  BY <1>1 DEF MarkCheat, Run
<1>3. /\ m.timer = r.timer /\ m.time = r.time /\ m.collected = r.collected
      /\ m.jetpack_enabled = r.jetpack_enabled /\ m.flown = r.flown
      /\ m.reports = r.reports /\ m.dead = r.dead /\ m.place = r.place
      /\ m.cheated = IF flies THEN 1 ELSE r.cheated
  BY <1>1, <1>2 DEF Run
<1> HIDE DEF m
<1>4. t = m \/ (m.timer = "WaitForMove" /\ t = [m EXCEPT !.timer = "Working", !.time = 0])
  BY DEF StartTimer
<1>5. t \in Run
  <2> SUFFICES ASSUME t = [m EXCEPT !.timer = "Working", !.time = 0] PROVE t \in Run
    BY <1>2, <1>4
  <2> DEFINE q == [m EXCEPT !.timer = "Working"]
  <2>1. q \in Run
    BY <1>2, FieldTypes
  <2>2. 0 \in 0 .. MaxTime
    BY TimeAssumption
  <2>3. [q EXCEPT !.time = 0] \in Run
    BY <2>1, <2>2, FieldTypes
  <2>4. [q EXCEPT !.time = 0] = t
    BY <1>2 DEF Run
  <2> QED BY <2>3, <2>4
<1>6. /\ t.collected = m.collected /\ t.jetpack_enabled = m.jetpack_enabled
      /\ t.flown = m.flown /\ t.reports = m.reports /\ t.dead = m.dead
      /\ t.place = m.place /\ t.cheated = m.cheated
      /\ t.timer = m.timer \/ (m.timer = "WaitForMove" /\ t.timer = "Working")
      /\ m.timer = "Win" => t = m
  BY <1>2, <1>4 DEF Run
<1> HIDE DEF t
<1>7. t.timer # "Win" <=> r.timer # "Win"
  BY <1>3, <1>6
<1>8. /\ f \in Run
      /\ f = IF flies /\ t.dead = 0 THEN [t EXCEPT !.flown = 1] ELSE t
  BY <1>3, <1>5, <1>6, <1>7 DEF Fly, Run
<1>9. /\ f.timer = t.timer /\ f.time = t.time /\ f.collected = t.collected
      /\ f.reports = t.reports /\ f.dead = t.dead /\ f.place = t.place
      /\ f.cheated = t.cheated
      /\ f.flown = IF flies /\ t.dead = 0 THEN 1 ELSE t.flown
  BY <1>5, <1>8 DEF Run
<1> HIDE DEF f
<1>10. /\ f.flown = 1 => f.cheated = 1
       /\ f.dead = 0 \/ f.timer = "Win" => f.cheated = f.flown
  <2>1. r.cheated \in {0, 1} /\ r.flown \in {0, 1} /\ r.dead \in {0, 1}
    BY <1>1 DEF Run
  <2> QED BY <2>1, <1>1, <1>3, <1>6, <1>7, <1>9
<1>11. s \in Run /\ (s.dead = 1 => s.place = "lava") /\ (s.dead = 0 => f.dead = 0)
       /\ s.timer = f.timer /\ s.time = f.time /\ s.collected = f.collected
       /\ s.reports = f.reports /\ s.cheated = f.cheated /\ s.flown = f.flown
  <2>1. s \in Moved(t)
    BY DEF t, m
  <2>2. CASE t.dead = 1
    <3>1. s = f
      BY <2>1, <2>2 DEF Moved, f
    <3>2. f.place = "lava"
      BY <2>2, <1>1, <1>3, <1>6, <1>9
    <3>3. f.dead = 1
      BY <2>2, <1>9
    <3> QED BY <3>1, <3>2, <3>3, <1>8
  <2>3. CASE t.dead # 1
    <3>1. PICK p \in Reach(t.place) :
            s = [f EXCEPT !.place = p, !.dead = IF p = "lava" THEN 1 ELSE 0]
      BY <2>1, <2>3 DEF Moved, f
    <3>2. p \in Place
      BY DEF Reach, Place
    <3> DEFINE d == IF p = "lava" THEN 1 ELSE 0
               q == [f EXCEPT !.place = p]
    <3>3. q \in Run /\ s = [q EXCEPT !.dead = d] /\ d \in {0, 1}
      BY <3>1, <3>2, <1>8, FieldTypes DEF Run
    <3>4. s \in Run
      BY <3>3, FieldTypes
    <3>5. s.place = p /\ s.dead = d
      BY <3>1, <1>8 DEF Run
    <3>6. /\ s.timer = f.timer /\ s.time = f.time /\ s.collected = f.collected
          /\ s.reports = f.reports /\ s.cheated = f.cheated /\ s.flown = f.flown
      BY <3>1, <1>8 DEF Run
    <3>7. f.dead = 0
      BY <2>3, <1>9, <1>5 DEF Run
    <3> QED BY <3>4, <3>5, <3>6, <3>7
  <2> QED BY <2>2, <2>3
<1>12. s.reports = IF s.timer = "Win" THEN 1 ELSE 0
  BY <1>1, <1>3, <1>6, <1>9, <1>11
<1>13. RunInv(s)
  BY <1>10, <1>11, <1>12 DEF RunInv
<1> QED
  BY <1>3, <1>6, <1>9, <1>11, <1>13

(* A whole frame, and the four things it can do to the run.                *)
Restarted(s) == s.timer \in {"WaitForMove", "Working"} /\ s.flown = 0

Kept(r, s) == r.timer = "Win" /\ Seen(s) = Seen(r)

Finished(r, s) ==
  /\ r.timer = "Working" /\ r.dead = 0
  /\ s.timer = "Win" /\ s.flown = r.flown

Played(r, s) ==
  /\ r.timer # "Win"
  /\ s.timer \in {r.timer, "Working"}
  /\ s.flown \in {r.flown, 1}

LEMMA FrameStep ==
  ASSUME NEW r, RunInv(r), NEW dt \in Nat, NEW moves \in BOOLEAN,
         NEW s \in Moved(BeforePhysics(r, dt, moves))
  PROVE  /\ RunInv(s)
         /\ Restarted(s) \/ Kept(r, s) \/ Finished(r, s) \/ Played(r, s)
<1> DEFINE q1 == Respawn(r, dt)
           q2 == Collect(q1)
           q3 == Count(q2, dt)
           q4 == Finish(q3)
<1>1. s \in Moved(StartTimer(MarkCheat(q4), moves))
  BY DEF BeforePhysics
<1>2. /\ RunInv(q1)
      /\ q1 = NewRun \/ (Seen(q1) = Seen(r) /\ q1.dead = r.dead)
  BY RespawnInv
<1> HIDE DEF q1
<1>3. /\ RunInv(q2)
      /\ q2.timer = q1.timer /\ q2.dead = q1.dead /\ q2.flown = q1.flown
      /\ q2.jetpack_enabled = q1.jetpack_enabled
      /\ q1.timer = "Win" => q2 = q1
  BY <1>2, CollectInv
<1> HIDE DEF q2
<1>4. /\ RunInv(q3)
      /\ q3.timer = q2.timer /\ q3.dead = q2.dead /\ q3.flown = q2.flown
      /\ q3.jetpack_enabled = q2.jetpack_enabled
      /\ q2.timer = "Win" => q3 = q2
  BY <1>3, CountInv
<1> HIDE DEF q3
<1>5. /\ RunInv(q4)
      /\ q4.flown = q3.flown /\ q4.jetpack_enabled = q3.jetpack_enabled
      /\ q4 = q3 \/ (q3.timer = "Working" /\ q3.dead = 0 /\ q4.timer = "Win")
  BY <1>4, FinishInv
<1> HIDE DEF q4
<1>6. /\ RunInv(s)
      /\ s.collected = q4.collected
      /\ s.timer = q4.timer \/ (q4.timer = "WaitForMove" /\ s.timer = "Working")
      /\ s.flown = q4.flown
         \/ (q4.timer # "Win" /\ s.flown = 1 /\ q4.jetpack_enabled = 1)
      /\ q4.timer = "Win" => s.time = q4.time /\ s.flown = q4.flown
  BY <1>1, <1>5, MovedInv
<1>7. CASE q1 = NewRun
  <2>1. q1.timer = "WaitForMove" /\ q1.flown = 0 /\ q1.jetpack_enabled = 0
    BY <1>7 DEF NewRun
  <2>2. q4.timer = "WaitForMove" /\ q4.flown = 0 /\ q4.jetpack_enabled = 0
    BY <2>1, <1>3, <1>4, <1>5
  <2> QED BY <2>2, <1>6 DEF Restarted
<1>8. CASE Seen(q1) = Seen(r) /\ q1.dead = r.dead
  <2>1. /\ q1.timer = r.timer /\ q1.time = r.time /\ q1.collected = r.collected
        /\ q1.cheated = r.cheated /\ q1.flown = r.flown
    BY <1>8 DEF Seen
  <2>2. q3.timer = r.timer /\ q3.flown = r.flown /\ q3.dead = r.dead
    BY <2>1, <1>3, <1>4, <1>8
  <2>3. CASE q4 # q3
    BY <2>2, <2>3, <1>5, <1>6 DEF Finished
  <2>4. CASE q4 = q3 /\ r.timer = "Win"
    <3>1. q4 = q1
      BY <2>1, <2>2, <2>4, <1>3, <1>4
    <3>2. /\ s.timer = r.timer /\ s.time = r.time /\ s.collected = r.collected
          /\ s.flown = r.flown
      BY <2>1, <2>4, <3>1, <1>6
    <3>3. s.cheated = r.cheated
      BY <2>4, <3>2, <1>6 DEF RunInv
    <3> QED BY <2>4, <3>2, <3>3, <1>6 DEF Kept, Seen
  <2>5. CASE q4 = q3 /\ r.timer # "Win"
    BY <2>2, <2>5, <1>6 DEF Played
  <2> QED BY <2>3, <2>4, <2>5
<1> QED BY <1>2, <1>6, <1>7, <1>8

-----------------------------------------------------------------------------
(* The whole state, step by step.                                          *)

(* What a step of Next can do to the run: a key press starts a new run or  *)
(* leaves what is seen of it alone, and a frame does as above.             *)
LEMMA RunStep ==
  ASSUME RunInv(run), [Next]_vars
  PROVE  /\ RunInv(run')
         /\ \/ Seen(run') = Seen(run)
            \/ Restarted(run')
            \/ Finished(run, run')
            \/ Played(run, run')
<1>1. CASE PressR
  <2>1. run' = NewRun
    BY <1>1 DEF PressR
  <2> QED BY <2>1, NewRunInv DEF Restarted, NewRun
<1>2. CASE PressF
  <2>1. run \in Run
    BY DEF RunInv
  <2>2. run' = [run EXCEPT !.jetpack_enabled = 1 - run.jetpack_enabled]
    BY <1>2 DEF PressF
  <2>3. 1 - run.jetpack_enabled \in {0, 1}
    BY <2>1 DEF Run
  <2>4. run' \in Run
    BY <2>1, <2>2, <2>3 DEF Run
  <2> QED BY <2>1, <2>2, <2>4 DEF RunInv, Run, Seen
<1>3. CASE PressP
  BY <1>3 DEF PressP
<1>4. CASE Frame
  <2>1. PICK delta \in Deltas, moves \in BOOLEAN, button \in {0, 1} :
          Update(delta, moves, button)
    BY <1>4 DEF Frame
  <2> DEFINE dt == IF slowed = 1 THEN delta \div 2 ELSE delta
  <2>2. dt \in Nat
    BY TimeAssumption
  <2>3. run' \in Moved(BeforePhysics(run, dt, moves))
    BY <2>1 DEF Update
  <2> HIDE DEF dt
  <2>4. /\ RunInv(run')
        /\ Restarted(run') \/ Kept(run, run') \/ Finished(run, run')
           \/ Played(run, run')
    BY <2>2, <2>3, FrameStep
  <2> QED BY <2>4 DEF Kept
<1>5. CASE UNCHANGED vars
  BY <1>5 DEF vars
<1> QED BY <1>1, <1>2, <1>3, <1>4, <1>5 DEF Next

LEMMA InitIInv == Init => IInv
BY NewRunInv DEF Init, IInv, TypeOK, RunInv, NewRun

LEMMA NextIInv ==
  ASSUME IInv, [Next]_vars
  PROVE  IInv'
<1>1. RunInv(run')
  BY RunStep DEF IInv
<1>2. run' \in Run /\ run'.reports <= 1
  BY <1>1 DEF RunInv
<1>3. /\ power' \in {"TimeScale", "None", "Parachute", "Jetpack"}
      /\ slowed' \in {0, 1}
      /\ index' \in 0 .. 2
  <2>1. CASE PressR
    BY <2>1 DEF PressR, IInv, TypeOK
  <2>2. CASE PressF
    BY <2>2 DEF PressF, IInv, TypeOK
  <2>3. CASE PressP
    <3>1. index \in 0 .. 2
      BY DEF IInv, TypeOK
    <3>2. index' \in 0 .. 2
      BY <2>3, <3>1 DEF PressP
    <3>3. index' = 0 \/ index' = 1 \/ index' = 2
      BY <3>2
    <3>4. power' \in {"None", "Parachute", "Jetpack"}
      BY <2>3, <3>3 DEF PressP
    <3> QED BY <2>3, <3>2, <3>4 DEF PressP
  <2>4. CASE Frame
    BY <2>4 DEF Frame, Update, IInv, TypeOK
  <2>5. CASE UNCHANGED vars
    BY <2>5 DEF vars, IInv, TypeOK
  <2> QED BY <2>1, <2>2, <2>3, <2>4, <2>5 DEF Next
<1> QED BY <1>1, <1>2, <1>3 DEF IInv, TypeOK

(* Whatever keys are pressed and however the frames go, the inductive      *)
(* invariant holds: the mark of a cheat, what killed the player and the    *)
(* report of the win agree with the rest of the run.                       *)
THEOREM Invariance == Spec => []IInv
<1>1. Init => IInv
  BY InitIInv
<1>2. IInv /\ [Next]_vars => IInv'
  BY NextIInv
<1> QED BY <1>1, <1>2, PTL DEF Spec

(* The types of the run, and that a win is reported to the server at most  *)
(* once in a run (main.ks line 1566).                                      *)
THEOREM TypeCorrect == Spec => []TypeOK
<1>1. IInv => TypeOK
  BY DEF IInv
<1> QED BY <1>1, Invariance, PTL

(* No flight goes unmarked, and `with cheats' is shown of exactly the won  *)
(* runs that were flown, for every order of frames, deaths and presses of  *)
(* the key (lines 648, 1469-1474, 1570-1577, 1760).                        *)
THEOREM CheatedIffFlownHolds == Spec => []CheatedIffFlown
<1>1. IInv => CheatedIffFlown
  BY DEF IInv, RunInv, CheatedIffFlown
<1> QED BY <1>1, Invariance, PTL

(* The dead stay in the lava until they respawn, so the check of the       *)
(* finish, which does not look at player.dead, never lets them win.        *)
THEOREM DeadDoNotWinHolds == Spec => DeadDoNotWin
<1>1. ASSUME IInv, [Next]_vars
      PROVE  [run.timer = "Working" /\ run'.timer = "Win" => run.dead = 0]_vars
  <2>1. /\ \/ Seen(run') = Seen(run)
           \/ Restarted(run')
           \/ Finished(run, run')
           \/ Played(run, run')
    BY <1>1, RunStep DEF IInv
  <2> QED BY <2>1 DEF Seen, Restarted, Finished, Played
<1>2. IInv /\ [Next]_vars
        => [run.timer = "Working" /\ run'.timer = "Win" => run.dead = 0]_vars
  BY <1>1
<1> QED BY <1>2, Invariance, PTL DEF Spec, DeadDoNotWin

-----------------------------------------------------------------------------
(* Refinement of SpeedRun.                                                 *)

LEMMA SeenMapping ==
  ASSUME Seen(run') = Seen(run)
  PROVE  UNCHANGED Abstract!vars
BY DEF Seen, Abstract!vars

LEMMA StepMapping ==
  ASSUME RunInv(run), [Next]_vars
  PROVE  [Abstract!Next]_(Abstract!vars)
<1>1. RunInv(run')
  BY RunStep
<1>2. run \in Run /\ run' \in Run
  BY <1>1 DEF RunInv
<1>3. CASE Seen(run') = Seen(run)
  BY <1>3, SeenMapping
<1>4. CASE Restarted(run')
  BY <1>4 DEF Restarted, Abstract!Next, Abstract!Restart
<1>5. CASE Finished(run, run')
  <2>1. [time |-> run'.time, scales |-> run'.collected, cheated |-> run'.cheated]
          \in {r \in Abstract!Result : r.cheated = run.flown}
    BY <1>1, <1>2, <1>5 DEF Finished, RunInv, Run, Abstract!Result
  <2> QED BY <2>1, <1>5 DEF Finished, Abstract!Next, Abstract!Finish
<1>6. CASE Played(run, run')
  <2>1. run.timer \in {"WaitForMove", "Working"}
        /\ run'.timer \in {"WaitForMove", "Working"}
    BY <1>2, <1>6 DEF Played, Run
  <2> QED BY <2>1, <1>6 DEF Played, Abstract!Next, Abstract!Play
<1> QED BY <1>3, <1>4, <1>5, <1>6, RunStep

(* Once won, a run's result - its time, its scales and whether it was      *)
(* flown - is never touched until the next run: by no key, not by dying    *)
(* after the win, nor by walking on through the scales (lines 624-636,     *)
(* 1532-1577).                                                             *)
THEOREM ImplementsSpeedRunHolds == Spec => ImplementsSpeedRun
<1>1. Init => Abstract!Init
  BY DEF Init, NewRun, Abstract!Init
<1>2. IInv /\ [Next]_vars => [Abstract!Next]_(Abstract!vars)
  BY StepMapping DEF IInv
<1> QED BY <1>1, <1>2, Invariance, PTL DEF Spec, ImplementsSpeedRun, Abstract!Spec
=============================================================================
