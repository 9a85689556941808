------------------------- MODULE ThreadPoolExecutor -------------------------
(***************************************************************************)
(* ThreadPoolExecutor::run of src/executor.rs: the caller's thread spawns  *)
(* one thread per job of a batch, joins them in order, and goes on to the  *)
(* next batch when none of them failed.  Jobs are numbered from 1, job j   *)
(* returns j, and how and when it ends is up to its thread.                *)
(***************************************************************************)
EXTENDS Integers, Sequences, FiniteSets

CONSTANTS
  JobCount,    (* jobs.len()                                                *)
  Threads      (* config.threads; ThreadPoolConfig::new refuses 0, the      *)
               (* public field does not                                     *)

ASSUME ExecutorAssumption == JobCount \in Nat /\ Threads \in Nat

VARIABLES
  pc,              (* where run() is                                        *)
  taken,           (* jobs taken from the iterator so far                   *)
  first,           (* the first job of the batch                            *)
  spawned,         (* the last job that has a thread                        *)
  joined,          (* the last job that was joined                          *)
  job,             (* what became of each job                               *)
  batch_outputs,
  first_error,     (* the job whose error is kept, 0 for None               *)
  outputs

vars == <<pc, taken, first, spawned, joined, job, batch_outputs, first_error, outputs>>

Jobs == 1 .. JobCount

Running == {j \in Jobs : job[j] = "running"}

(* Mutant: a batch has one job more.                                       *)
BatchOneMore == IF taken + Threads < JobCount THEN taken + Threads + 1 ELSE JobCount

(* The last job of the batch that would start after `taken`.               *)
BatchEnd == IF taken + Threads <= JobCount THEN taken + Threads ELSE JobCount

-----------------------------------------------------------------------------
(* collect() takes up to Threads jobs; an empty batch ends the run.        *)
TakeBatch ==
  /\ pc = "take"
  /\ BatchEnd > taken
  /\ pc' = "spawn"
  /\ first' = taken + 1
  /\ taken' = BatchEnd
  /\ batch_outputs' = << >>
  /\ first_error' = 0
  /\ UNCHANGED <<spawned, joined, job, outputs>>

ReturnOk ==
  /\ pc = "take"
  /\ BatchEnd = taken
  /\ pc' = "ok"
  /\ UNCHANGED <<taken, first, spawned, joined, job, batch_outputs, first_error, outputs>>

Spawn ==
  /\ pc = "spawn"
  /\ spawned < taken
  /\ spawned' = spawned + 1
  /\ job' = [job EXCEPT ![spawned + 1] = "running"]
  /\ UNCHANGED <<pc, taken, first, joined, batch_outputs, first_error, outputs>>

(* thread::spawn panics when the system gives it no thread: run() unwinds  *)
(* and drops the handles it has, which detaches their threads.             *)
SpawnPanics ==
  /\ pc = "spawn"
  /\ spawned < taken
  /\ pc' = "panicked"
  /\ UNCHANGED <<taken, first, spawned, joined, job, batch_outputs, first_error, outputs>>

SpawnsDone ==
  /\ pc = "spawn"
  /\ spawned = taken
  /\ pc' = "join"
  /\ UNCHANGED <<taken, first, spawned, joined, job, batch_outputs, first_error, outputs>>

(* Mutants: the error of the last job that failed is kept; a thread that   *)
(* panicked is waited for.                                                 *)
JoinKeepsLast ==
  LET j == joined + 1
  IN  /\ pc = "join"
      /\ joined < taken
      /\ job[j] \in {"value", "error", "panic"}
      /\ joined' = j
      /\ batch_outputs' = IF job[j] = "value" THEN Append(batch_outputs, j)
                                              ELSE batch_outputs
      /\ first_error' = IF job[j] # "value" THEN j ELSE first_error
      /\ UNCHANGED <<pc, taken, first, spawned, job, outputs>>

JoinWaits ==
  LET j == joined + 1
  IN  /\ pc = "join"
      /\ joined < taken
      /\ job[j] \in {"value", "error"}
      /\ joined' = j
      /\ batch_outputs' = IF job[j] = "value" THEN Append(batch_outputs, j)
                                              ELSE batch_outputs
      /\ first_error' = IF job[j] # "value" /\ first_error = 0 THEN j ELSE first_error
      /\ UNCHANGED <<pc, taken, first, spawned, job, outputs>>

(* handle.join() waits for the next thread of the batch.                   *)
Join ==
  LET j == joined + 1
  IN  /\ pc = "join"
      /\ joined < taken
      /\ job[j] \in {"value", "error", "panic"}
      /\ joined' = j
      /\ batch_outputs' = IF job[j] = "value" THEN Append(batch_outputs, j)
                                              ELSE batch_outputs
      /\ first_error' = IF job[j] # "value" /\ first_error = 0 THEN j ELSE first_error
      /\ UNCHANGED <<pc, taken, first, spawned, job, outputs>>

(* Mutants: the first error returns at once; an error waits for the end of *)
(* the whole list.                                                         *)
BatchDoneEarly ==
  /\ pc = "join"
  /\ joined = taken \/ first_error # 0
  /\ IF first_error # 0
       THEN pc' = "error" /\ UNCHANGED outputs
       ELSE pc' = "take" /\ outputs' = outputs \o batch_outputs
  /\ UNCHANGED <<taken, first, spawned, joined, job, batch_outputs, first_error>>

BatchDoneGoesOn ==
  /\ pc = "join"
  /\ joined = taken
  /\ pc' = IF first_error # 0 /\ taken = JobCount THEN "error" ELSE "take"
  /\ outputs' = outputs \o batch_outputs
  /\ UNCHANGED <<taken, first, spawned, joined, job, batch_outputs, first_error>>

BatchDone ==
  /\ pc = "join"
  /\ joined = taken
  /\ IF first_error # 0
       THEN pc' = "error" /\ UNCHANGED outputs
       ELSE pc' = "take" /\ outputs' = outputs \o batch_outputs
  /\ UNCHANGED <<taken, first, spawned, joined, job, batch_outputs, first_error>>

(* A worker thread ends.                                                   *)
JobEnds(j) ==
  /\ job[j] = "running"
  /\ \E end \in {"value", "error", "panic"} : job' = [job EXCEPT ![j] = end]
  /\ UNCHANGED <<pc, taken, first, spawned, joined, batch_outputs, first_error, outputs>>

-----------------------------------------------------------------------------
Init ==
  /\ pc = "take"
  /\ taken = 0
  /\ first = 1
  /\ spawned = 0
  /\ joined = 0
  /\ job = [j \in Jobs |-> "waiting"]
  /\ batch_outputs = << >>
  /\ first_error = 0
  /\ outputs = << >>

RunStep ==
  \/ TakeBatch
  \/ ReturnOk
  \/ Spawn
  \/ SpawnPanics
  \/ SpawnsDone
  \/ Join
  \/ BatchDone

Next ==
  \/ RunStep
  \/ \E j \in Jobs : JobEnds(j)

Spec == Init /\ [][Next]_vars

(* The scheduler runs the caller and every worker, and every job returns   *)
(* or panics.                                                              *)
FairSpec ==
  /\ Spec
  /\ WF_vars(RunStep)
  /\ \A j \in Jobs : WF_vars(JobEnds(j))

-----------------------------------------------------------------------------
(* Properties.                                                             *)

Returned == pc \in {"ok", "error"}

(* Every variable has its type.                                            *)
TypeOK ==
  /\ pc \in {"take", "spawn", "join", "ok", "error", "panicked"}
  /\ taken \in 0 .. JobCount
  /\ first \in 1 .. JobCount + 1
  /\ spawned \in 0 .. taken
  /\ joined \in 0 .. spawned
  /\ job \in [Jobs -> {"waiting", "running", "value", "error", "panic"}]
  /\ batch_outputs \in Seq(Jobs)
  /\ first_error \in {0} \cup Jobs
  /\ outputs \in Seq(Jobs)

(* No more than Threads workers live at any time: a batch is joined to its *)
(* last thread, failures or not, before the next one starts.               *)
WorkersBounded == Cardinality(Running) <= Threads

(* run() leaves no thread behind when it returns, an early failure         *)
(* included: nothing runs, and jobs that never started never will.         *)
NoWorkerLeft == Returned => Running = {}

(* A failure stops the run at its batch: a job of a later batch never      *)
(* starts once a job has failed.                                           *)
FailureStopsBatches ==
  \A i, j \in Jobs :
    job[i] \in {"error", "panic"} /\ job[j] # "waiting" => (j - 1) \div Threads <= (i - 1) \div Threads

Map == INSTANCE SequentialMap
         WITH outputs <- IF first_error = 0
                           THEN outputs \o (IF pc = "join" THEN batch_outputs ELSE << >>)
                           ELSE [j \in 1 .. (first_error - 1) |-> j],
              status <- IF first_error # 0 THEN [kind |-> "error", job |-> first_error]
                        ELSE IF pc = "ok" THEN [kind |-> "ok"]
                        ELSE [kind |-> "running"]

(* Whatever the order in which threads end, the run returns what running   *)
(* the jobs one by one would: outputs in job order, or the error of the    *)
(* first job of the list that fails.                                       *)
ImplementsMap == Map!Spec

(* Every run ends.                                                         *)
RunEnds == <>(pc \in {"ok", "error", "panicked"})

=============================================================================
