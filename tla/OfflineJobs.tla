---------------------------- MODULE OfflineJobs ----------------------------
(***************************************************************************)
(* The jobs that run beside the trader, each a process of its own with its *)
(* own tables: they share the broker's token file and nothing that the     *)
(* properties see.  A behaviour follows one of them.                       *)
(***************************************************************************)
EXTENDS Backfill, OptionHistory, PaperLedger, UsageReport

VARIABLE followed  \* "backfill", "history", "paper" or "usage"

Jobs == {"backfill", "history", "paper", "usage"}
vars == <<followed, backfillVars, historyVars, paperVars, usageVars>>

Init == followed \in Jobs /\ InitBackfill /\ InitHistory /\ InitPaper /\ InitUsage

Next ==
  /\ UNCHANGED followed
  /\ \/ /\ followed = "backfill" /\ BackfillNext
        /\ UNCHANGED <<historyVars, paperVars, usageVars>>
     \/ /\ followed = "history" /\ HistoryNext
        /\ UNCHANGED <<backfillVars, paperVars, usageVars>>
     \/ /\ followed = "paper" /\ PaperNext
        /\ UNCHANGED <<backfillVars, historyVars, usageVars>>
     \/ /\ followed = "usage" /\ UsageNext
        /\ UNCHANGED <<backfillVars, historyVars, paperVars>>

(* The backfill runs on, a broker that answers answers something, and a    *)
(* trader without a token mints one.                                       *)
BackfillFairness ==
  /\ WF_backfillVars(followed = "backfill" /\ (BeginBatch \/ BatchDone \/ Finish))
  /\ \A i \in Securities : WF_backfillVars(followed = "backfill" /\ Answered(i))
  /\ WF_backfillVars(followed = "backfill" /\ Rotates)

(* Days go by, processes run on, and cron starts a collector again and     *)
(* again.                                                                  *)
PaperFairness ==
  /\ WF_paperVars(followed = "paper" /\ SessionTurns)
  /\ \A p \in Processes : WF_paperVars(followed = "paper" /\ Runs(p))
  /\ SF_paperVars(followed = "paper" /\ \E p \in Collectors : Starts(p, "collector"))

Spec == Init /\ [][Next]_vars /\ BackfillFairness /\ PaperFairness

(* What the jobs have written stays: a checkpoint never falls back, an     *)
(* entry is never rewritten, a settled trade is final.                     *)
WrittenStays == CheckpointKept /\ EntryKept
=============================================================================
