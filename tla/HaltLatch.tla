------------------------------ MODULE HaltLatch ------------------------------
(***************************************************************************)
(* What the engine promises about a trading halt, without files, polling   *)
(* or processes: it latches.  Only an operator's request made to the       *)
(* running process rearms it, and a loss halt on record whose day or week  *)
(* is not over outlives a restart.  The record goes with an answered       *)
(* request, or with a later halt that is written over it and lost.         *)
(***************************************************************************)
VARIABLES
  running,   \* the trader process is up
  armed,     \* new entries are allowed
  asked,     \* the operator has asked this process to resume
  standing   \* a loss halt is recorded for a day or week that is not over

latch == <<running, armed, asked, standing>>

Init == running = TRUE /\ armed = TRUE /\ asked = FALSE /\ standing = FALSE

(* A kill or a loss stops entries; a loss halt may be recorded. *)
Trip ==
  /\ running
  /\ armed' = FALSE
  /\ standing' \in {standing, TRUE}
  /\ UNCHANGED <<running, asked>>

(* A halt of an armed engine whose own record is cut off.  *)
TripUnrecorded ==
  /\ running /\ armed
  /\ armed' = FALSE
  /\ standing' = FALSE
  /\ UNCHANGED <<running, asked>>

Ask == asked' = TRUE /\ UNCHANGED <<running, armed, standing>>

(* A request is answered: the halt and its record are gone. *)
Rearm ==
  /\ running /\ asked
  /\ armed' = TRUE
  /\ standing' = FALSE
  /\ asked' = FALSE
  /\ UNCHANGED running

(* A request is answered by half: the engine is armed again, the record of *)
(* its halt stands, and the request is still there.                        *)
HalfRearm ==
  /\ running /\ asked
  /\ armed' = TRUE
  /\ UNCHANGED <<running, asked, standing>>

(* A request made while nothing is halted is dropped. *)
Ignore == asked /\ armed /\ asked' = FALSE /\ UNCHANGED <<running, armed, standing>>

(* The day or the week of a loss halt is over; the running process stays   *)
(* halted until it is asked.                                               *)
Expire == standing /\ standing' = FALSE /\ UNCHANGED <<running, armed, asked>>

(* The process stops, perhaps in the middle of recording a halt. *)
Stop ==
  /\ running
  /\ running' = FALSE
  /\ asked' = FALSE
  /\ \/ UNCHANGED standing
     \/ armed /\ standing' = FALSE
  /\ UNCHANGED armed

(* A restart forgets requests, and every halt without a standing record. *)
Start ==
  /\ ~running
  /\ running' = TRUE
  /\ armed' = ~standing
  /\ asked' = FALSE
  /\ UNCHANGED standing

Next ==
  \/ Trip \/ TripUnrecorded
  \/ Ask \/ Rearm \/ HalfRearm \/ Ignore
  \/ Expire \/ Stop \/ Start

Spec == Init /\ [][Next]_latch
=============================================================================
