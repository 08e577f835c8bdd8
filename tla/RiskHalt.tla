------------------------------ MODULE RiskHalt ------------------------------
(***************************************************************************)
(* When the engine is halted.  The risk task of the trader process         *)
(* (engine/risk.py) evaluates every few seconds; the api process           *)
(* (apps/routes/heartbeat.py) talks to it only through the files           *)
(* run/killswitch and run/resume, and a loss halt is kept across restarts  *)
(* in run/halt_state.json.                                                 *)
(*                                                                         *)
(* One action is the code between two awaits of the risk task, or one file *)
(* access of the api process.  Of the P&L only what the checks compare is  *)
(* kept: whether the day's and the week's loss exceed their budgets.       *)
(***************************************************************************)
EXTENDS Naturals, FiniteSets

CONSTANT MaxFaults   \* bound: crashes and failed accesses in a run

ASSUME RiskHaltAssumption == MaxFaults \in Nat

VARIABLES
  up,         \* the trader process is running
  halted,     \* RiskState.halted
  kill,       \* RiskState.kill_switch
  scope,      \* RiskState.halt_scope: "none" stands for ""
  killFile,   \* run/killswitch exists
  resumeFile, \* run/resume exists
  haltFile,   \* run/halt_state.json: scope, "stale" once that is over, "torn"
              \* when a write of it did not end
  loss,       \* the budgets that today's and this week's P&L exceed
  seen,       \* the budgets that the last evaluation found exceeded
  pc,         \* where the risk task is parked
  api,        \* the api process inside resume_handler
  faults,     \* crashes and failures so far (bound only)
  standing,   \* history: a loss halt recorded for a period not yet over
  wanted      \* history: the operator's last command

state == <<halted, kill, scope>>
disk == <<killFile, resumeFile, haltFile>>
vars == <<up, state, disk, loss, seen, pc, api, faults, standing, wanted>>

-----------------------------------------------------------------------------
Periods == {"day", "week"}

(* The scope a loss halt gets: the weekly check overrides the daily one. *)
ScopeOf(violations) == IF "week" \in violations THEN "week" ELSE "day"

(* A command that something else than the operator has overtaken. *)
Superseded == IF wanted = "resume" THEN "none" ELSE wanted

Init ==
  /\ up = TRUE
  /\ halted = FALSE /\ kill = FALSE /\ scope = "none"
  /\ killFile = FALSE /\ resumeFile = FALSE /\ haltFile = "none"
  /\ loss = {} /\ seen = {}
  /\ pc = "sleep"
  /\ api = "idle"
  /\ faults = 0
  /\ standing = FALSE
  /\ wanted = "none"

-----------------------------------------------------------------------------
(* The risk task: one evaluation, await by await. *)

(* Where an evaluation goes on after resume(). *)
AfterResumeReturn == "sleep"
AfterResume == "resumed"

(* resume(): state and markers are cleared, the request consumed. *)
ResumeKeepsKillFile ==
  /\ halted' = FALSE /\ kill' = FALSE /\ scope' = "none"
  /\ haltFile' = "none"
  /\ UNCHANGED killFile
ResumeTrading ==
  /\ halted' = FALSE /\ kill' = FALSE /\ scope' = "none"
  /\ killFile' = FALSE
  /\ haltFile' = "none"

(* A resume request, if there is one; without a halt it is dropped. *)
EvalResume ==
  /\ up /\ pc \in {"sleep", "failed"}
  /\ resumeFile' = FALSE
  /\ IF resumeFile /\ (halted \/ kill)
     THEN ResumeTrading /\ standing' = FALSE /\ pc' = AfterResume
     ELSE UNCHANGED <<state, killFile, haltFile, standing>> /\ pc' = "kill"
  /\ UNCHANGED <<up, loss, seen, api, faults, wanted>>

(* resume() finds the kill switch file, and resume_handler removes it      *)
(* before resume() does: unlink() raises.  The flags are cleared already;  *)
(* the halt's file and the request stay, and the evaluation is abandoned.  *)
(* The next one finds nothing halted and drops the request (EvalResume).   *)
EvalResumeVanished ==
  /\ up /\ pc \in {"sleep", "failed"}
  /\ resumeFile /\ (halted \/ kill)
  /\ killFile /\ api = "unlink"
  /\ halted' = FALSE /\ kill' = FALSE /\ scope' = "none"
  /\ killFile' = FALSE
  /\ api' = "idle"
  /\ pc' = "failed"
  /\ UNCHANGED <<up, resumeFile, haltFile, loss, seen, faults, standing, wanted>>

(* The on_resume callbacks have sent their message. *)
ResumeAnnounced ==
  /\ up /\ pc = "resumed"
  /\ pc' = "kill"
  /\ UNCHANGED <<up, state, disk, loss, seen, api, faults, standing, wanted>>

(* The kill switch file halts, once. *)
KillSeen == killFile /\ ~kill
EvalKill ==
  /\ up /\ pc = "kill"
  /\ IF KillSeen
     THEN /\ kill' = TRUE /\ halted' = TRUE /\ scope' = "none"
          /\ pc' = "killSweep"
     ELSE UNCHANGED state /\ pc' = "refresh"
  /\ UNCHANGED <<up, disk, loss, seen, api, faults, standing, wanted>>

(* The file is gone between exists() and read_text(): the evaluation       *)
(* raises and is abandoned until the next one.                             *)
EvalKillVanished ==
  /\ up /\ pc = "kill"
  /\ KillSeen /\ api = "unlink"
  /\ killFile' = FALSE
  /\ api' = "idle"
  /\ pc' = "failed"
  /\ UNCHANGED <<up, state, resumeFile, haltFile, loss, seen, faults, standing, wanted>>

(* The on_halt callbacks have flattened (HaltSweep); the evaluation goes on. *)
SweepDone ==
  /\ up /\ pc \in {"killSweep", "lossSweep"}
  /\ pc' = IF pc = "killSweep" THEN "refresh" ELSE "snapshot"
  /\ UNCHANGED <<up, state, disk, loss, seen, api, faults, standing, wanted>>

(* refresh_pnl returns; both budgets are checked, and a first breach halts *)
(* and is written down.  A write that fails leaves the file as it was, or  *)
(* cut off after write_text has opened it.  Without the database the day   *)
(* is judged by what this process has realized, the week by the last value *)
(* read.                                                                   *)
LossHalts(violations) ==
  /\ halted' = TRUE
  /\ scope' = ScopeOf(violations)
  /\ \/ haltFile' = scope' /\ standing' = TRUE /\ UNCHANGED faults
     \/ /\ faults < MaxFaults /\ faults' = faults + 1
        /\ \/ UNCHANGED <<haltFile, standing>>
           \/ haltFile' = "torn" /\ standing' = FALSE
  /\ pc' = "lossSweep"

EvalLoss ==
  /\ up /\ pc = "refresh"
  /\ seen' = loss
  /\ IF seen' # {} /\ ~halted
     THEN LossHalts(seen')
     ELSE UNCHANGED <<halted, scope, haltFile, standing, faults>> /\ pc' = "snapshot"
  /\ UNCHANGED <<up, kill, killFile, resumeFile, loss, api, wanted>>

EvalLossBlind ==
  /\ up /\ pc = "refresh"
  /\ faults < MaxFaults
  /\ \E today \in SUBSET {"day"} : seen' = today \cup (seen \cap {"week"})
  /\ faults' = faults + 1
  /\ IF seen' # {} /\ ~halted
     THEN /\ halted' = TRUE /\ scope' = ScopeOf(seen')
          /\ haltFile' = scope' /\ standing' = TRUE
          /\ pc' = "lossSweep"
     ELSE UNCHANGED <<halted, scope, haltFile, standing>> /\ pc' = "snapshot"
  /\ wanted' = Superseded
  /\ UNCHANGED <<up, kill, killFile, resumeFile, loss, api>>

(* The equity snapshot is written; the task sleeps until the next check. *)
Snapshot ==
  /\ up /\ pc = "snapshot"
  /\ pc' = "sleep"
  /\ UNCHANGED <<up, state, disk, loss, seen, api, faults, standing, wanted>>

RiskTask ==
  \/ EvalResume \/ ResumeAnnounced \/ EvalKill \/ SweepDone
  \/ EvalLoss \/ EvalLossBlind \/ Snapshot

-----------------------------------------------------------------------------
(* The api process. *)

(* killswitch_handler; a kill issued while a resume request is still on    *)
(* disk is told apart.                                                     *)
ApiKill ==
  /\ api = "idle"
  /\ killFile' = TRUE
  /\ wanted' = IF resumeFile THEN "killAfterResume" ELSE "kill"
  /\ UNCHANGED <<up, state, resumeFile, haltFile, loss, seen, pc, api, faults, standing>>

(* resume_handler writes the request first and removes the kill switch     *)
(* second.  It can only be answered by a running engine that is halted.    *)
ApiResume ==
  /\ api = "idle"
  /\ resumeFile' = TRUE
  /\ api' = "unlink"
  /\ wanted' = IF up /\ halted /\ loss = {} THEN "resume" ELSE "none"
  /\ UNCHANGED <<up, state, killFile, haltFile, loss, seen, pc, faults, standing>>

ApiUnlink ==
  /\ api = "unlink"
  /\ killFile' = FALSE
  /\ api' = "idle"
  /\ UNCHANGED <<up, state, resumeFile, haltFile, loss, seen, pc, faults, standing, wanted>>

-----------------------------------------------------------------------------
(* Crash and restart of the trader; its memory is lost, and with it the    *)
(* record of a halt that it was writing.                                   *)
Recording == pc = "refresh" /\ loss # {} /\ ~halted
Crash ==
  /\ up /\ faults < MaxFaults
  /\ up' = FALSE
  /\ faults' = faults + 1
  /\ pc' = "sleep"
  /\ \/ UNCHANGED <<haltFile, standing>>
     \/ Recording /\ haltFile' = "torn" /\ standing' = FALSE
  /\ wanted' = Superseded
  /\ UNCHANGED <<state, killFile, resumeFile, loss, seen, api>>

(* load_persisted_halt restores a halt in scope and removes any other file *)
(* of a halt, one that it cannot read too; a resume request from before    *)
(* the boot is discarded.                                                  *)
InScopeToday == haltFile = "day"
InScope == haltFile \in Periods
Boot ==
  /\ ~up
  /\ up' = TRUE
  /\ halted' = InScope
  /\ scope' = IF InScope THEN haltFile ELSE "none"
  /\ kill' = FALSE
  /\ haltFile' = IF InScope THEN haltFile ELSE "none"
  /\ resumeFile' = FALSE
  /\ seen' = {}
  /\ wanted' = Superseded
  /\ UNCHANGED <<killFile, loss, pc, api, faults, standing>>

-----------------------------------------------------------------------------
(* The P&L moves; a breach overtakes a resume. *)
PnlMoves ==
  /\ loss' \in SUBSET Periods
  /\ wanted' = IF loss' = {} THEN wanted ELSE Superseded
  /\ UNCHANGED <<up, state, disk, seen, pc, api, faults, standing>>

(* A day ends, and a week with some: the halts of their scope are over, in *)
(* the file's terms; nothing clears the state of a running engine.         *)
DayEnds ==
  /\ \E over \in {{"day"}, Periods} :
       /\ loss' = loss \ over
       /\ haltFile' = IF haltFile \in over THEN "stale" ELSE haltFile
       /\ standing' = (standing /\ haltFile \notin over)
  /\ UNCHANGED <<up, state, killFile, resumeFile, seen, pc, api, faults, wanted>>

Next ==
  \/ RiskTask \/ EvalKillVanished \/ EvalResumeVanished
  \/ ApiKill \/ ApiResume \/ ApiUnlink
  \/ Crash \/ Boot \/ PnlMoves \/ DayEnds

Spec == Init /\ [][Next]_vars

(* The risk task is scheduled again and again, systemd restarts the        *)
(* trader, and an api handler that has begun ends.                         *)
Fairness == WF_vars(RiskTask) /\ WF_vars(Boot) /\ WF_vars(ApiUnlink)

FairSpec == Spec /\ Fairness

-----------------------------------------------------------------------------
(* Type invariant of the risk monitor. *)
TypeOK ==
  /\ up \in BOOLEAN /\ halted \in BOOLEAN /\ kill \in BOOLEAN
  /\ scope \in Periods \cup {"none"}
  /\ killFile \in BOOLEAN /\ resumeFile \in BOOLEAN
  /\ haltFile \in Periods \cup {"none", "stale", "torn"}
  /\ loss \subseteq Periods /\ seen \subseteq Periods
  /\ pc \in {"sleep", "failed", "resumed", "kill", "killSweep", "refresh", "lossSweep", "snapshot"}
  /\ api \in {"idle", "unlink"}
  /\ faults \in 0..MaxFaults
  /\ standing \in BOOLEAN
  /\ wanted \in {"none", "kill", "killAfterResume", "resume"}

(* "An operator can never click resume past a still-breached daily/weekly  *)
(* loss budget" (risk.py): whenever an evaluation has run to its end, a    *)
(* breach that it found leaves the engine halted, whatever was requested   *)
(* meanwhile.                                                              *)
BreachRehalts == up /\ pc = "sleep" /\ seen # {} => halted

Latch == INSTANCE HaltLatch WITH
  running <- up, armed <- ~halted, asked <- up /\ resumeFile

(* The files and the polling implement the latch: nothing but a request    *)
(* made to the running process rearms it, and a loss halt whose record is  *)
(* in scope comes back after a restart (load_persisted_halt, main's        *)
(* discarded flag), even where a resume that raised has rearmed meanwhile. *)
HaltLatches == Latch!Spec

(* A kill issued with no resume request pending, and followed by none,     *)
(* ends with the engine halted for good, over restarts and whatever else   *)
(* halts it in between (risk.py 349-356, heartbeat.py 137-147).            *)
KillHolds == <>[](up /\ wanted = "kill") => <>[]halted

(* "Kill switch flag set - trader halts" (heartbeat.py): the same for      *)
(* every kill, one that follows a resume not yet consumed included.        *)
EveryKillHolds == <>[](up /\ wanted \in {"kill", "killAfterResume"}) => <>[]halted

(* A resume asked of a halted engine within its budgets rearms it, and it  *)
(* stays armed until a kill, a breach or a crash (resume_handler's order   *)
(* of writes, the consumption of the flag after resume()).                 *)
ResumeHolds == <>[](up /\ wanted = "resume") => <>[]~halted

(* Both commands of the operator, over restarts and failures.              *)
CommandsHold == KillHolds /\ ResumeHolds
=============================================================================
