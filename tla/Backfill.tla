------------------------------ MODULE Backfill ------------------------------
(***************************************************************************)
(* The historical backfill (backfill.py), a process of its own: batches of *)
(* securities run concurrently over one client, each fetches its 90-day    *)
(* chunks of minute bars and then its daily bars; a checkpoint file or, if *)
(* there is none, the bars in the database say where the next process      *)
(* starts.  Every process has its own arguments, a list of securities and  *)
(* what to fetch of them, but those of one segment share one checkpoint.   *)
(* The token is the trader's: the backfill only reads its file.            *)
(***************************************************************************)
EXTENDS Integers, Sequences, FiniteSetsExt

CONSTANTS
  Ids,          \* the securities of the segment, 1..Ids
  Chunks,       \* chunks of minute bars; the daily bars are one more
  Arguments,    \* what processes are started with: [list, from, ask]
  Concurrency,  \* --concurrency
  MaxTries,     \* len(_CHUNK_RETRY_WAIT)
  MaxTokens,    \* bound: tokens the trader mints
  MaxRuns       \* bound: processes started

ASSUME BackfillAssumption ==
  /\ {Ids, Chunks, Concurrency, MaxTokens, MaxRuns} \subseteq Nat \ {0}
  /\ MaxTries \in Nat

Securities == 1..Ids
Daily == Chunks + 1
Parts == 1..Daily

(* A process is given a list of securities, all of the segment in order or *)
(* any of them with --ids; --from, the chunk its minute bars begin with;   *)
(* and --daily, --all or neither.                                          *)
ASSUME ArgumentsAssumption ==
  \A a \in Arguments :
    /\ a \in [list : Seq(Securities), from : 1..Chunks, ask : {"minutes", "daily", "all"}]
    /\ \A k, m \in DOMAIN a.list : a.list[k] = a.list[m] => k = m

VARIABLES
  proc,        \* the process: "none", "between" (batches), "batch"
  force,       \* it runs with --force
  args,        \* its other arguments; with no process, those of the last one
  start,        \* index of the first security of its batch
  began,       \* history: the index it started at
  at,          \* every security: "idle", "fetch", "wait" (for a token), "done"
  part,        \* the part it is fetching
  tries,       \* retries of that part
  stored,      \* what came of a part: "none" yet, "bars", "nothing" (no data, or skipped)
  ckpt,        \* the segment's checkpoint file: [id, place] of its last security
  runs,        \* processes started
  file,        \* dhan_token.json: [gen, live (by its clock)]
  held,        \* generation of the token in the shared client
  good,        \* generation the broker accepts, 0: none
  interrupted, \* securities of the batches a crash cut
  passed,      \* securities a seeded start left behind it unfinished
  mixed        \* processes with different arguments have run

workVars  == <<start, began, at, part, tries, stored>>
tokenVars == <<file, held, good>>
traceVars == <<interrupted, passed, mixed>>
backfillVars == <<proc, force, args, ckpt, runs, workVars, tokenVars, traceVars>>

NoFile == [id |-> 0, place |-> 0]

InitBackfill ==
  /\ proc = "none" /\ force = FALSE /\ ckpt = NoFile /\ runs = 0 /\ start = 1 /\ began = 1
  /\ args \in Arguments
  /\ at = [i \in Securities |-> "idle"]
  /\ part = [i \in Securities |-> 1] /\ tries = [i \in Securities |-> 0]
  /\ stored = [i \in Securities |-> [p \in Parts |-> "none"]]
  /\ file = [gen |-> 1, live |-> TRUE] /\ held = 0 /\ good = 1
  /\ interrupted = {} /\ passed = {} /\ mixed = FALSE

-----------------------------------------------------------------------------
(* The trader, elsewhere: its token expires or is revoked by the broker    *)
(* while the file's clock still holds, and it mints another.               *)
Expire ==
  /\ file.live /\ file.gen < MaxTokens
  /\ file' = [file EXCEPT !.live = FALSE] /\ good' = 0
  /\ UNCHANGED held

Revoke == good # 0 /\ file.gen < MaxTokens /\ good' = 0 /\ UNCHANGED <<file, held>>

Accepted == good # 0 /\ held = good

Rotate ==
  /\ good = 0 /\ file.gen < MaxTokens
  /\ file' = [gen |-> file.gen + 1, live |-> TRUE]
  /\ good' = file.gen + 1
  /\ UNCHANGED held

Rotates == Rotate /\ UNCHANGED <<proc, force, args, ckpt, runs, workVars, traceVars>>

Trader ==
  \/ Rotates
  \/ /\ Expire \/ Revoke
     /\ UNCHANGED <<proc, force, args, ckpt, runs, workVars, traceVars>>

(* Mutant: a rotation is seen but not given to the client. *)
ReloadedUnpushed == held

(* _reload_token(): the generation the client holds after it. *)
Reloaded == IF file.live THEN file.gen ELSE held

-----------------------------------------------------------------------------
(* The parts that a process with arguments a fetches, from the first to    *)
(* the last.                                                               *)
FirstPart(a) == IF a.ask = "daily" THEN Daily ELSE a.from
LastPart(a) == IF a.ask = "minutes" THEN Chunks ELSE Daily

Settled(a, i) == \A p \in FirstPart(a)..LastPart(a) : stored[i][p] # "none"

(* The place in its list of the checkpoint's last_id, 0 if it has none.    *)
Mark(a) == Max({0} \cup {k \in DOMAIN a.list : a.list[k] = ckpt.id})

(* Where the file lets a process go on from: the place is looked up at the *)
(* file's index first, and an index past the end of the list makes the     *)
(* file unreadable.                                                        *)
Resumed(a) == IF ckpt.place <= Len(a.list) THEN Mark(a) ELSE 0

(* The seeding query, whatever is to be fetched: minute bars from the      *)
(* chunk of --from to the last one.                                        *)
Loaded(a) ==
  {k \in DOMAIN a.list :
     LET i == a.list[k]
     IN  stored[i][a.from] = "bars" /\ stored[i][Chunks] = "bars"}

(* No checkpoint in the list: after the last security that is loaded,      *)
(* whatever lies before it.                                                *)
Seed(a) == 1 + Max(Loaded(a) \cup {0})

(* run_backfill() up to its loop; a seeding query may fail, a forced run   *)
(* reads no checkpoint and starts at the first security.                   *)
StartBackfill(a, f, seeded) ==
  /\ proc = "none" /\ runs < MaxRuns
  /\ runs = 0 => a = args
  /\ ~seeded => Resumed(a) = 0 /\ ~f
  /\ runs' = runs + 1 /\ force' = f /\ args' = a /\ proc' = "between"
  /\ start' = IF f \/ ~seeded THEN 1
              ELSE IF Resumed(a) # 0 THEN Resumed(a) + 1 ELSE Seed(a)
  /\ began' = start'
  /\ held' = IF file.live THEN file.gen ELSE held
  /\ passed' = IF f \/ Resumed(a) # 0 THEN passed
               ELSE passed \cup {i \in {a.list[k] : k \in 1..(start' - 1)} : ~Settled(a, i)}
  /\ mixed' = (mixed \/ a # args)
  /\ UNCHANGED <<ckpt, at, part, tries, stored, file, good, interrupted>>

Turn == {k \in DOMAIN args.list : start <= k /\ k < start + Concurrency}
Batch == {args.list[k] : k \in Turn}

BeginBatch ==
  /\ proc = "between" /\ Batch # {}
  /\ proc' = "batch" /\ held' = Reloaded
  /\ at' = [i \in Securities |-> IF i \in Batch THEN "fetch" ELSE "idle"]
  /\ part' = [i \in Securities |-> FirstPart(args)] /\ tries' = [i \in Securities |-> 0]
  /\ UNCHANGED <<force, args, ckpt, runs, start, began, stored, file, good, traceVars>>

(* The part is settled, as a hole if it must be, and the next one is asked. *)
Settles(i, what) ==
  /\ stored' = [stored EXCEPT ![i][part[i]] = what]
  /\ at' = [at EXCEPT ![i] = IF part[i] = LastPart(args) THEN "done" ELSE "fetch"]
  /\ part' = [part EXCEPT ![i] = IF @ = LastPart(args) THEN @ ELSE @ + 1]
  /\ tries' = [tries EXCEPT ![i] = 0]
  /\ UNCHANGED <<start, began, ckpt, proc, force, args, runs, tokenVars, traceVars>>

Fetching(i) == proc = "batch" /\ at[i] = "fetch"

(* The broker accepts the token and answers with candles, which are        *)
(* upserted, or with none.                                                 *)
AnswerChunk(i) ==
  /\ Fetching(i) /\ Accepted
  /\ \/ Settles(i, "bars")
     \/ Settles(i, IF stored[i][part[i]] = "none" THEN "nothing" ELSE stored[i][part[i]])

(* DH-905, or the last retry: the chunk is skipped for good; daily bars    *)
(* have no retry.  What an earlier run has stored stays.                   *)
SkipChunk(i, noData) ==
  /\ Fetching(i)
  /\ IF noData THEN Accepted ELSE part[i] = Daily \/ tries[i] = MaxTries
  /\ Settles(i, IF stored[i][part[i]] = "none" THEN "nothing" ELSE stored[i][part[i]])

RetryChunk(i) ==
  /\ Fetching(i) /\ part[i] # Daily /\ tries[i] < MaxTries
  /\ tries' = [tries EXCEPT ![i] = @ + 1]
  /\ UNCHANGED <<proc, force, args, ckpt, runs, start, began, at, part, stored, tokenVars, traceVars>>

(* DH-901: with a live file the same chunk is asked again at once, with    *)
(* its count of retries; otherwise _TokenExpired.                          *)
AuthFails(i) ==
  /\ Fetching(i) /\ ~Accepted
  /\ held' = Reloaded
  /\ at' = [at EXCEPT ![i] = IF file.live THEN @ ELSE "wait"]
  /\ UNCHANGED <<proc, force, args, ckpt, runs, start, began, part, tries, stored, file, good, traceVars>>

(* _wait_for_fresh_token() sees a live file, or gives up after max_wait_s: *)
(* either way the security starts over from its first chunk.               *)
Resumes(i) ==
  /\ proc = "batch" /\ at[i] = "wait"
  /\ at' = [at EXCEPT ![i] = "fetch"]
  /\ part' = [part EXCEPT ![i] = FirstPart(args)] /\ tries' = [tries EXCEPT ![i] = 0]
  /\ held' = Reloaded
  /\ UNCHANGED <<proc, force, args, ckpt, runs, start, began, stored, file, good, traceVars>>

LastOf(places) == LET k == Min({places, Len(args.list)}) IN [id |-> args.list[k], place |-> k]

(* Mutant: the checkpoint is the end of the next batch. *)
SavesNext == IF force THEN ckpt ELSE LastOf(start + 2 * Concurrency - 1)

(* _save_checkpoint(): a forced run has a file of its own, which none reads. *)
Saves == IF force THEN ckpt ELSE LastOf(start + Concurrency - 1)

NoWork ==
  /\ at' = [i \in Securities |-> "idle"]
  /\ part' = [i \in Securities |-> 1] /\ tries' = [i \in Securities |-> 0]

BatchDone ==
  /\ proc = "batch" /\ \A i \in Batch : at[i] = "done"
  /\ ckpt' = Saves
  /\ start' = start + Concurrency
  /\ proc' = "between"
  /\ NoWork
  /\ UNCHANGED <<force, args, runs, began, stored, tokenVars, traceVars>>

Ends ==
  /\ proc' = "none" /\ force' = FALSE /\ held' = 0 /\ start' = 1 /\ began' = 1
  /\ NoWork
  /\ UNCHANGED <<args, ckpt, runs, stored, file, good>>

Finish == proc = "between" /\ Batch = {} /\ Ends /\ UNCHANGED traceVars

(* A crash, a restart of the service, or an upsert that failed its five    *)
(* attempts: gather() raises and the process ends with its batch.          *)
Crash ==
  /\ proc # "none" /\ runs < MaxRuns
  /\ Ends
  /\ interrupted' = IF proc = "batch" THEN interrupted \cup Batch ELSE interrupted
  /\ UNCHANGED <<passed, mixed>>

(* What the broker and the token file make of a security that goes on. *)
Answered(i) == AnswerChunk(i) \/ AuthFails(i) \/ Resumes(i)

Security(i) == (\E noData \in BOOLEAN : SkipChunk(i, noData)) \/ RetryChunk(i) \/ Answered(i)

BackfillNext ==
  \/ \E a \in Arguments, f, seeded \in BOOLEAN : StartBackfill(a, f, seeded)
  \/ BeginBatch \/ BatchDone \/ Finish \/ Crash \/ Trader
  \/ \E i \in Securities : Security(i)

-----------------------------------------------------------------------------
BackfillTypeOK ==
  /\ proc \in {"none", "between", "batch"} /\ ckpt \in [id : 0..Ids, place : Nat] /\ runs \in 0..MaxRuns
  /\ args \in Arguments /\ mixed \in BOOLEAN
  /\ at \in [Securities -> {"idle", "fetch", "wait", "done"}]
  /\ part \in [Securities -> Parts] /\ tries \in [Securities -> 0..MaxTries]
  /\ \A i \in Securities : stored[i] \in [Parts -> {"none", "bars", "nothing"}]
  /\ {held, good, file.gen} \subseteq 0..MaxTokens

(* As long as every run had the same list and asked for the same bars:     *)
(* every security up to the checkpoint has been fetched to its last part,  *)
(* holes included, unless a seeded start went past it.  No crash, expired  *)
(* token or forced run makes the file claim more than was done.            *)
CheckpointCovers ==
  ~mixed => \A k \in 1..Mark(args) :
              Settled(args, args.list[k]) \/ args.list[k] \in passed

(* As long as the runs were alike, a security that a seeded start leaves   *)
(* behind unfinished was in a batch that a crash cut; nothing else is ever *)
(* passed over.                                                            *)
PassedWasInterrupted ==
  ~mixed => \A i \in passed : Settled(args, i) \/ i \in interrupted

(* Whatever was run before with whatever arguments: a process leaves       *)
(* nothing of its list unfetched from where it started to where it is.     *)
RunCovers ==
  proc # "none" => \A k \in began..(start - 1) :
                     k \in DOMAIN args.list => Settled(args, args.list[k])

(* What the checkpoint of run_backfill() and its loop vouch for.           *)
BackfillSound ==
  /\ BackfillTypeOK
  /\ RunCovers
  /\ CheckpointCovers /\ PassedWasInterrupted

(* A repair run never moves the segment's checkpoint, whatever its list    *)
(* ("the main segment checkpoint is untouched", --force); another run only *)
(* moves it on, as long as the runs were alike.                            *)
CheckpointKept ==
  [][ckpt' # ckpt => ~force /\ (~mixed => Mark(args)' > Mark(args))]_backfillVars

(* A process that is not killed comes to an end, through any expiry,       *)
(* revocation or rotation of the token.                                    *)
BackfillFinishes == proc # "none" ~> proc = "none"
=============================================================================
