--------------------------- MODULE RiskHaltProofs ---------------------------
(***************************************************************************)
(* Theorems of RiskHalt, for any number of crashes and failures.           *)
(***************************************************************************)
EXTENDS RiskHalt, TLAPS

LEMMA ScopeType ==
  ASSUME NEW violations \in SUBSET Periods PROVE ScopeOf(violations) \in Periods
  BY DEF ScopeOf, Periods

LEMMA RiskTaskTyped ==
  ASSUME TypeOK, RiskTask \/ EvalKillVanished \/ EvalResumeVanished
  PROVE  TypeOK'
<1> USE RiskHaltAssumption DEF RiskHaltAssumption
<1>1. CASE EvalResume
  BY <1>1, ZenonT(40) DEF EvalResume, ResumeTrading, AfterResume, TypeOK, state, Periods
<1>2. CASE ResumeAnnounced \/ SweepDone \/ Snapshot
  BY <1>2 DEF ResumeAnnounced, SweepDone, Snapshot, TypeOK, state, disk
<1>3. CASE EvalKill \/ EvalKillVanished
  BY <1>3 DEF EvalKill, EvalKillVanished, TypeOK, state, disk
<1>4. CASE EvalLoss
  <2>1. ScopeOf(seen') \in Periods
    BY <1>4, ScopeType DEF EvalLoss, TypeOK
  <2>2. faults' \in 0..MaxFaults
    BY <1>4 DEF EvalLoss, LossHalts, TypeOK
  <2>3. halted' \in BOOLEAN /\ standing' \in BOOLEAN /\ seen' \subseteq Periods
    BY <1>4, Zenon DEF EvalLoss, LossHalts, TypeOK
  <2>4. /\ scope' \in Periods \cup {"none"} /\ haltFile' \in Periods \cup {"none", "stale", "torn"}
        /\ pc' \in {"lossSweep", "snapshot"}
    BY <1>4, <2>1 DEF EvalLoss, LossHalts, TypeOK
  <2> QED BY <1>4, <2>2, <2>3, <2>4 DEF EvalLoss, TypeOK
<1>5. CASE EvalLossBlind
  <2>1. seen' \subseteq Periods
    BY <1>5 DEF EvalLossBlind, TypeOK, Periods
  <2>2. ScopeOf(seen') \in Periods
    BY <2>1, ScopeType
  <2>3. faults' \in 0..MaxFaults
    BY <1>5 DEF EvalLossBlind, TypeOK
  <2>4. halted' \in BOOLEAN /\ standing' \in BOOLEAN
    BY <1>5, Zenon DEF EvalLossBlind, TypeOK
  <2>5. /\ scope' \in Periods \cup {"none"} /\ haltFile' \in Periods \cup {"none", "stale", "torn"}
        /\ pc' \in {"lossSweep", "snapshot"}
    BY <1>5, <2>2 DEF EvalLossBlind, TypeOK
  <2>6. wanted' \in {"none", "kill", "killAfterResume", "resume"}
    BY <1>5 DEF EvalLossBlind, Superseded, TypeOK
  <2> QED BY <1>5, <2>1, <2>3, <2>4, <2>5, <2>6 DEF EvalLossBlind, TypeOK
<1>6. CASE EvalResumeVanished
  BY <1>6 DEF EvalResumeVanished, TypeOK
<1> QED BY <1>1, <1>2, <1>3, <1>4, <1>5, <1>6 DEF RiskTask

LEMMA OthersTyped ==
  ASSUME TypeOK, ApiKill \/ ApiResume \/ ApiUnlink \/ Crash \/ Boot \/ PnlMoves \/ DayEnds
  PROVE  TypeOK'
<1> USE RiskHaltAssumption DEF RiskHaltAssumption
<1>1. CASE ApiKill \/ ApiResume \/ ApiUnlink
  BY <1>1 DEF ApiKill, ApiResume, ApiUnlink, TypeOK, state
<1>2. CASE Crash
  <2>1. faults' \in 0..MaxFaults
    BY <1>2 DEF Crash, TypeOK
  <2>2. /\ haltFile' \in Periods \cup {"none", "stale", "torn"}
        /\ standing' \in BOOLEAN
    BY <1>2, Zenon DEF Crash, TypeOK
  <2> QED BY <1>2, <2>1, <2>2 DEF Crash, Superseded, TypeOK, state
<1>3. CASE Boot
  <2>1. halted' \in BOOLEAN
    BY <1>3 DEF Boot, InScope
  <2> QED BY <1>3, <2>1 DEF Boot, InScope, Superseded, TypeOK, Periods
<1>4. CASE PnlMoves
  BY <1>4 DEF PnlMoves, Superseded, TypeOK, state, disk
<1>5. CASE DayEnds
  <2>1. standing' \in BOOLEAN
    BY <1>5, Zenon DEF DayEnds
  <2> QED BY <1>5, <2>1 DEF DayEnds, TypeOK, state
<1> QED BY <1>1, <1>2, <1>3, <1>4, <1>5

(* Every reachable state of the risk monitor is well typed.                *)
THEOREM RiskHaltTyped == Spec => []TypeOK
<1>1. Init => TypeOK
  <2>1. 0 \in 0..MaxFaults
    BY RiskHaltAssumption DEF RiskHaltAssumption
  <2> QED BY <2>1 DEF Init, TypeOK
<1>2. TypeOK /\ [Next]_vars => TypeOK'
  <2> SUFFICES ASSUME TypeOK, [Next]_vars PROVE TypeOK'
    OBVIOUS
  <2>1. CASE Next
    BY <2>1, RiskTaskTyped, OthersTyped DEF Next
  <2>2. CASE UNCHANGED vars
    BY <2>2 DEF vars, state, disk, TypeOK
  <2> QED BY <2>1, <2>2
<1> QED BY <1>1, <1>2, PTL DEF Spec

-----------------------------------------------------------------------------
(* The check's result is in force from the check to the end of the         *)
(* evaluation: no request is consumed in between.                          *)
CheckHolds ==
  /\ ~up => pc = "sleep"
  /\ up => /\ pc = "lossSweep" => halted
           /\ pc \in {"snapshot", "sleep"} /\ seen # {} => halted

LEMMA NextCheckHolds == TypeOK /\ CheckHolds /\ [Next]_vars => CheckHolds'
<1> SUFFICES ASSUME TypeOK, CheckHolds, [Next]_vars PROVE CheckHolds'
  OBVIOUS
<1>1. CASE EvalResume
  BY <1>1 DEF EvalResume, AfterResume, CheckHolds
<1>2. CASE ResumeAnnounced \/ SweepDone \/ Snapshot
  BY <1>2 DEF ResumeAnnounced, SweepDone, Snapshot, CheckHolds, state
<1>3. CASE EvalKill \/ EvalKillVanished \/ EvalResumeVanished
  BY <1>3 DEF EvalKill, EvalKillVanished, EvalResumeVanished, CheckHolds, state
<1>4. CASE EvalLoss \/ EvalLossBlind
  BY <1>4 DEF EvalLoss, LossHalts, EvalLossBlind, CheckHolds
<1>5. CASE ApiKill \/ ApiResume \/ ApiUnlink \/ PnlMoves \/ DayEnds \/ UNCHANGED vars
  BY <1>5 DEF ApiKill, ApiResume, ApiUnlink, PnlMoves, DayEnds, vars, state, CheckHolds
<1>6. CASE Crash \/ Boot
  BY <1>6 DEF Crash, Boot, CheckHolds
<1> QED BY <1>1, <1>2, <1>3, <1>4, <1>5, <1>6 DEF Next, RiskTask

(* No resume request gets past a breach the evaluation found, however      *)
(* requests, kills and P&L interleave with its awaits.                     *)
THEOREM NoResumePastBreach == Spec => []BreachRehalts
<1>1. Init => CheckHolds
  BY DEF Init, CheckHolds
<1>2. CheckHolds => BreachRehalts
  BY DEF CheckHolds, BreachRehalts
<1> QED BY <1>1, <1>2, NextCheckHolds, RiskHaltTyped, PTL DEF Spec

-----------------------------------------------------------------------------
(* What ties the latch's record to the disk: a loss halt stands exactly    *)
(* while its file is in scope, so load_persisted_halt restores it.         *)
Recorded == standing <=> haltFile \in Periods

LEMMA NextRecorded == TypeOK /\ Recorded /\ [Next]_vars => Recorded'
<1> SUFFICES ASSUME TypeOK, Recorded, [Next]_vars PROVE Recorded'
  OBVIOUS
<1>1. CASE EvalResume
  BY <1>1 DEF EvalResume, ResumeTrading, Recorded, Periods
<1>2. CASE EvalLoss
  <2>1. ScopeOf(seen') \in Periods
    BY <1>2, ScopeType DEF EvalLoss, TypeOK
  <2> QED BY <1>2, <2>1 DEF EvalLoss, LossHalts, Recorded, Periods
<1>3. CASE EvalLossBlind
  <2>1. ScopeOf(seen') \in Periods
    BY <1>3, ScopeType DEF EvalLossBlind, TypeOK, Periods
  <2> QED BY <1>3, <2>1 DEF EvalLossBlind, Recorded
<1>4. CASE Boot
  BY <1>4 DEF Boot, InScope, Recorded, Periods
<1>5. CASE DayEnds
  <2> PICK over \in {{"day"}, Periods} :
        /\ haltFile' = IF haltFile \in over THEN "stale" ELSE haltFile
        /\ standing' = (standing /\ haltFile \notin over)
    BY <1>5 DEF DayEnds
  <2>1. CASE haltFile \in over
    BY <2>1 DEF Recorded, Periods
  <2>2. CASE haltFile \notin over
    BY <2>2 DEF Recorded
  <2> QED BY <2>1, <2>2
<1>6. CASE UNCHANGED <<standing, haltFile>>
  BY <1>6 DEF Recorded
<1>7. CASE ResumeAnnounced \/ SweepDone \/ Snapshot \/ EvalKill \/ EvalKillVanished
            \/ EvalResumeVanished
            \/ ApiKill \/ ApiResume \/ ApiUnlink \/ PnlMoves \/ UNCHANGED vars
  BY <1>6, <1>7 DEF ResumeAnnounced, SweepDone, Snapshot, EvalKill, EvalKillVanished,
                    EvalResumeVanished, ApiKill, ApiResume, ApiUnlink, PnlMoves, vars, disk
<1>8. CASE Crash
  BY <1>6, <1>8 DEF Crash, Recorded, Periods
<1> QED BY <1>1, <1>2, <1>3, <1>4, <1>5, <1>7, <1>8 DEF Next, RiskTask

LEMMA RiskHaltRecords == Spec => []Recorded
<1>1. Init => Recorded
  BY DEF Init, Recorded, Periods
<1> QED BY <1>1, NextRecorded, RiskHaltTyped, PTL DEF Spec

LEMMA StepLatches ==
  ASSUME TypeOK, Recorded, [Next]_vars
  PROVE  [Latch!Next]_(Latch!latch)
<1> USE DEF Latch!Next, Latch!latch
<1>1. CASE EvalResume
  <2>1. CASE resumeFile /\ (halted \/ kill)
    BY <1>1, <2>1, Zenon DEF EvalResume, ResumeTrading, Latch!Rearm
  <2>2. CASE ~(resumeFile /\ (halted \/ kill)) /\ resumeFile
    BY <1>1, <2>2, Zenon DEF EvalResume, state, Latch!Ignore
  <2>3. CASE ~resumeFile
    BY <1>1, <2>3, Zenon DEF EvalResume, state
  <2> QED BY <2>1, <2>2, <2>3
<1>2. CASE EvalKill
  <2>1. CASE KillSeen
    BY <1>2, <2>1, Zenon DEF EvalKill, disk, Latch!Trip
  <2>2. CASE ~KillSeen
    BY <1>2, <2>2, Zenon DEF EvalKill, disk, state
  <2> QED BY <2>1, <2>2
<1>3. CASE EvalLoss
  <2>1. CASE seen' # {} /\ ~halted
    <3>1. /\ up /\ (~halted) = TRUE
          /\ (~halted') = FALSE
          /\ (up' /\ resumeFile') = (up /\ resumeFile) /\ up' = up
      BY <1>3, <2>1, Zenon DEF EvalLoss, LossHalts
    <3>2. CASE standing' \in {standing, TRUE}
      BY <3>1, <3>2, Zenon DEF Latch!Trip
    <3>3. CASE standing' = FALSE
      BY <3>1, <3>3, Zenon DEF Latch!TripUnrecorded
    <3> QED BY <1>3, <2>1, <3>2, <3>3, Zenon DEF EvalLoss, LossHalts
  <2>2. CASE ~(seen' # {} /\ ~halted)
    BY <1>3, <2>2, Zenon DEF EvalLoss
  <2> QED BY <2>1, <2>2
<1>4. CASE EvalLossBlind
  <2>1. CASE seen' # {} /\ ~halted
    BY <1>4, <2>1, Zenon DEF EvalLossBlind, Latch!Trip
  <2>2. CASE ~(seen' # {} /\ ~halted)
    BY <1>4, <2>2, Zenon DEF EvalLossBlind
  <2> QED BY <2>1, <2>2
<1>5. CASE ApiResume
  <2>1. CASE up
    BY <1>5, <2>1, Zenon DEF ApiResume, state, Latch!Ask
  <2>2. CASE ~up
    BY <1>5, <2>2, Zenon DEF ApiResume, state
  <2> QED BY <2>1, <2>2
<1>6. CASE Crash
  <2>1. CASE UNCHANGED standing
    BY <1>6, <2>1, Zenon DEF Crash, state, Latch!Stop
  <2>2. CASE Recording /\ standing' = FALSE
    BY <1>6, <2>2, Zenon DEF Crash, Recording, state, Latch!Stop
  <2> QED BY <1>6, <2>1, <2>2, Zenon DEF Crash
<1>7. CASE Boot
  <2>1. /\ ~up /\ up' /\ ~resumeFile' /\ standing' = standing
        /\ (~halted') = ~standing
    BY <1>7, Zenon DEF Boot, InScope, Recorded
  <2>2. (up' /\ resumeFile') = FALSE /\ (up' = TRUE)
    BY <1>7, <2>1, Zenon DEF Boot
  <2> QED BY <2>1, <2>2, Zenon DEF Latch!Start
<1>8. CASE DayEnds
  <2>1. CASE standing' = standing
    BY <1>8, <2>1, Zenon DEF DayEnds, state
  <2>2. CASE standing' # standing
    <3>1. standing /\ standing' = FALSE
      BY <1>8, <2>2, Zenon DEF DayEnds, TypeOK
    <3> QED BY <1>8, <3>1, Zenon DEF DayEnds, state, Latch!Expire
  <2> QED BY <2>1, <2>2
<1>9. CASE ResumeAnnounced \/ SweepDone \/ Snapshot \/ EvalKillVanished
            \/ ApiKill \/ ApiUnlink \/ PnlMoves \/ UNCHANGED vars
  <2>1. UNCHANGED <<up, halted, resumeFile, standing>>
    BY <1>9 DEF ResumeAnnounced, SweepDone, Snapshot, EvalKillVanished, ApiKill, ApiUnlink,
                PnlMoves, vars, state, disk
  <2> QED BY <2>1
<1>10. CASE EvalResumeVanished
  BY <1>10, Zenon DEF EvalResumeVanished, Latch!HalfRearm
<1> QED BY <1>1, <1>2, <1>3, <1>4, <1>5, <1>6, <1>7, <1>8, <1>9, <1>10 DEF Next, RiskTask

(* The polled files, the risk task and the restarts implement the latch.   *)
THEOREM RiskHaltLatches == Spec => HaltLatches
<1>1. Init => Latch!Init
  BY Zenon DEF Init, Latch!Init
<1>2. TypeOK /\ Recorded /\ [Next]_vars => [Latch!Next]_(Latch!latch)
  BY StepLatches
<1> QED BY <1>1, <1>2, RiskHaltTyped, RiskHaltRecords, PTL DEF Spec, HaltLatches, Latch!Spec
=============================================================================
