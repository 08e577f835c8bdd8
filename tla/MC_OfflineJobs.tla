-------------------------- MODULE MC_OfflineJobs --------------------------
(***************************************************************************)
(* Inputs of OfflineJobs: arguments of the backfill, those of the segment, *)
(* of a later pass for its daily bars alone and of an --ids run that       *)
(* leaves out its first and its last; and last bars of a day, one with an  *)
(* IV and a later one without, so that two pulls of a day may have rows of *)
(* different times.                                                        *)
(***************************************************************************)
EXTENDS OfflineJobs

GivenArguments ==
  {[list |-> <<1, 2, 3>>, from |-> 1, ask |-> "all"],
   [list |-> <<1, 2, 3>>, from |-> 1, ask |-> "daily"],
   [list |-> <<2>>, from |-> 1, ask |-> "all"]}

LastBars == {[time |-> 1, iv |-> TRUE], [time |-> 2, iv |-> FALSE]}
=============================================================================
