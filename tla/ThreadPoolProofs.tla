--------------------------- MODULE ThreadPoolProofs ---------------------------
(***************************************************************************)
(* Theorems about ThreadPoolExecutor, for every number of jobs and threads *)
(* and every order in which the threads end.                               *)
(***************************************************************************)
EXTENDS ThreadPoolExecutor, FiniteSetTheorems, SequenceTheorems, TLAPS

(* The first n jobs in order: what the first n jobs return.                *)
FirstJobs(n) == [j \in 1 .. n |-> j]

(* The inductive invariant: a batch is at most Threads jobs, first ..      *)
(* taken; jobs up to joined have ended, jobs past spawned have not begun;  *)
(* between batches everything that was taken has been joined.              *)
Batched ==
  /\ first - 1 <= joined
  /\ taken - (first - 1) <= Threads
  /\ pc \in {"take", "ok", "error"} => joined = taken
  /\ pc \in {"take", "join", "ok", "error"} => spawned = taken
  /\ \A j \in Jobs : j <= joined => job[j] \in {"value", "error", "panic"}
  /\ \A j \in Jobs : j > spawned => job[j] = "waiting"

Inv == TypeOK /\ Batched

(* Sequences of jobs stay sequences of jobs.                               *)
LEMMA SequenceSteps ==
  ASSUME NEW S, NEW s \in Seq(S)
  PROVE  /\ \A e \in S : Append(s, e) \in Seq(S)
         /\ \A t \in Seq(S) : s \o t \in Seq(S)
BY AppendProperties, ConcatProperties

(* Initially nothing has been taken.                                       *)
LEMMA InitInv == Init => Inv
BY ExecutorAssumption DEF Init, Inv, TypeOK, Batched, Jobs

(* Every step keeps the invariant.                                         *)
LEMMA NextInv == Inv /\ [Next]_vars => Inv'
<1> SUFFICES ASSUME Inv, [Next]_vars PROVE Inv'
  OBVIOUS
<1> USE ExecutorAssumption DEF Inv, TypeOK, Batched, Jobs
<1>1. CASE TakeBatch
  BY <1>1 DEF TakeBatch, BatchEnd
<1>2. CASE ReturnOk
  BY <1>2 DEF ReturnOk
<1>3. CASE Spawn
  BY <1>3 DEF Spawn
<1>4. CASE SpawnPanics
  BY <1>4 DEF SpawnPanics
<1>5. CASE SpawnsDone
  BY <1>5 DEF SpawnsDone
<1>6. CASE Join
  <2>1. /\ pc = "join" /\ joined + 1 \in Jobs /\ joined' = joined + 1
        /\ job[joined + 1] \in {"value", "error", "panic"}
        /\ UNCHANGED <<pc, taken, first, spawned, job, outputs>>
    BY <1>6 DEF Join
  <2>2. batch_outputs' \in Seq(Jobs)
    <3>1. batch_outputs' = Append(batch_outputs, joined + 1) \/ batch_outputs' = batch_outputs
      BY <1>6 DEF Join
    <3>2. batch_outputs \in Seq(Jobs)
      OBVIOUS
    <3>3. joined + 1 \in Jobs
      BY <2>1
    <3> HIDE DEF Jobs, Inv, TypeOK, Batched
    <3>4. Append(batch_outputs, joined + 1) \in Seq(Jobs)
      BY <3>2, <3>3, SequenceSteps
    <3> QED
      BY <3>1, <3>2, <3>4
  <2>3. first_error' \in {0} \cup Jobs
    BY <1>6, <2>1 DEF Join
  <2>4. joined' \in 0 .. spawned
    BY <1>6 DEF Join
  <2>5. TypeOK'
    BY <2>1, <2>2, <2>3, <2>4
  <2>6. Batched'
    BY <2>1
  <2> QED
    BY <2>5, <2>6
<1>7. CASE BatchDone
  <2>1. /\ pc = "join" /\ joined = taken /\ pc' \in {"error", "take"}
        /\ outputs' \in {outputs, outputs \o batch_outputs}
        /\ UNCHANGED <<taken, first, spawned, joined, job, batch_outputs, first_error>>
    BY <1>7 DEF BatchDone
  <2>2. outputs' \in Seq(Jobs)
    <3>1. outputs \in Seq(Jobs) /\ batch_outputs \in Seq(Jobs)
      OBVIOUS
    <3>2. outputs' \in {outputs, outputs \o batch_outputs}
      BY <2>1
    <3> HIDE DEF Jobs, Inv, TypeOK, Batched
    <3>3. outputs \o batch_outputs \in Seq(Jobs)
      BY <3>1, SequenceSteps
    <3> QED
      BY <3>1, <3>2, <3>3
  <2>3. TypeOK'
    BY <2>1, <2>2
  <2>4. Batched'
    BY <2>1
  <2> QED
    BY <2>3, <2>4
<1>8. ASSUME NEW j \in Jobs, JobEnds(j) PROVE Inv'
  BY <1>8 DEF JobEnds
<1>9. CASE UNCHANGED vars
  BY <1>9 DEF vars
<1> QED
  BY <1>1, <1>2, <1>3, <1>4, <1>5, <1>6, <1>7, <1>8, <1>9 DEF Next, RunStep

(* Every reachable state satisfies the inductive invariant.                *)
THEOREM Invariant == Spec => []Inv
<1>1. Init => Inv
  BY InitInv
<1>2. Inv /\ [Next]_vars => Inv'
  BY NextInv
<1> QED
  BY <1>1, <1>2, PTL DEF Spec

(* Every variable has its type.                                            *)
THEOREM TypeCorrect == Spec => []TypeOK
<1>1. Inv => TypeOK
  BY DEF Inv
<1> QED
  BY <1>1, Invariant, PTL

(* No more than Threads workers live at any time.                          *)
THEOREM WorkersAreBounded == Spec => []WorkersBounded
<1>1. Inv => WorkersBounded
  <2> SUFFICES ASSUME Inv PROVE Cardinality(Running) <= Threads
    BY DEF WorkersBounded
  <2>1. /\ first \in Nat \ {0} /\ taken \in Nat /\ Threads \in Nat
        /\ taken - (first - 1) <= Threads
    BY ExecutorAssumption DEF Inv, TypeOK, Batched
  <2>6. Running \subseteq first .. taken
    <3> SUFFICES ASSUME NEW j \in Jobs, job[j] = "running"
                 PROVE  j \in first .. taken
      BY DEF Running
    <3>1. j \in Nat /\ ~(j <= joined) /\ ~(j > spawned)
      BY DEF Inv, Batched, Jobs
    <3>2. joined \in Nat /\ spawned \in Nat /\ spawned <= taken /\ first - 1 <= joined
      BY <2>1, ExecutorAssumption DEF Inv, TypeOK, Batched
    <3> QED
      BY <2>1, <3>1, <3>2
  <2>2. /\ IsFiniteSet(first .. taken)
        /\ Cardinality(first .. taken) = IF first > taken THEN 0 ELSE taken - first + 1
    BY <2>1, FS_Interval
  <2>3. Cardinality(Running) <= Cardinality(first .. taken)
    BY <2>2, <2>6, FS_Subset
  <2>4. Cardinality(Running) \in Nat
    BY <2>2, <2>6, FS_Subset, FS_CardinalityType
  <2>5. Cardinality(first .. taken) <= Threads
    BY <2>1, <2>2
  <2> QED
    BY <2>1, <2>2, <2>3, <2>4, <2>5
<1> QED
  BY <1>1, Invariant, PTL

(* A run that returned, with Ok or with an error, left no thread behind.   *)
THEOREM NoWorkerIsLeft == Spec => []NoWorkerLeft
<1>1. Inv => NoWorkerLeft
  BY ExecutorAssumption DEF Inv, TypeOK, Batched, NoWorkerLeft, Returned, Running, Jobs
<1> QED
  BY <1>1, Invariant, PTL

-----------------------------------------------------------------------------
(* Failures.                                                               *)

(* Batches are Threads jobs long, all but the last one, and nothing before *)
(* the batch under way has failed.                                         *)
Aligned ==
  /\ \E k \in Nat : first - 1 = Threads * k
  /\ taken < JobCount => \E k \in Nat : taken = Threads * k
  /\ \A j \in Jobs : j < first => job[j] = "value"
  /\ first_error = 0 => \A j \in Jobs : j <= joined => job[j] = "value"
  /\ pc \in {"take", "ok"} => first_error = 0

(* Every step keeps batches aligned.                                       *)
LEMMA AlignedInv == Inv /\ Aligned /\ [Next]_vars => Aligned'
<1> SUFFICES ASSUME Inv, Aligned, [Next]_vars PROVE Aligned'
  OBVIOUS
<1>0. /\ JobCount \in Nat /\ Threads \in Nat /\ Jobs = 1 .. JobCount
      /\ taken \in 0 .. JobCount /\ first \in 1 .. JobCount + 1
      /\ spawned \in 0 .. taken /\ joined \in 0 .. spawned
      /\ job \in [Jobs -> {"waiting", "running", "value", "error", "panic"}]
  BY ExecutorAssumption DEF Inv, TypeOK, Jobs
<1>1. CASE TakeBatch
  <2>1. /\ pc = "take" /\ pc' = "spawn" /\ first' = taken + 1 /\ taken' = BatchEnd
        /\ first_error' = 0 /\ joined' = joined /\ job' = job
        /\ BatchEnd > taken /\ joined = taken /\ first_error = 0
    BY <1>1 DEF TakeBatch, Inv, Batched, Aligned
  <2>2. taken < JobCount
    BY <1>0, <2>1 DEF BatchEnd
  <2>3. PICK k \in Nat : taken = Threads * k
    BY <2>2 DEF Aligned
  <2>4. first' - 1 = Threads * k
    BY <1>0, <2>1, <2>3
  <2>5. BatchEnd < JobCount => BatchEnd = Threads * (k + 1)
    <3>1. Threads * (k + 1) = Threads * k + Threads
      BY <1>0
    <3> QED
      BY <1>0, <2>3, <3>1 DEF BatchEnd
  <2>6. \A j \in Jobs : j <= joined => job[j] = "value"
    BY <2>1 DEF Aligned
  <2>7. k + 1 \in Nat
    OBVIOUS
  <2>8. (\E m \in Nat : first' - 1 = Threads * m)
    BY <2>3, <2>4
  <2>9. taken' < JobCount => \E m \in Nat : taken' = Threads * m
    BY <2>1, <2>5, <2>7
  <2>10. \A j \in Jobs : j < first' => job'[j] = "value"
    BY <1>0, <2>1, <2>6
  <2> QED
    BY <2>1, <2>6, <2>8, <2>9, <2>10 DEF Aligned, Jobs
<1>2. CASE ReturnOk
  BY <1>2 DEF ReturnOk, Aligned, Jobs
<1>3. CASE Spawn
  BY <1>0, <1>3 DEF Spawn, Aligned, Inv, Batched, Jobs
<1>4. CASE SpawnPanics
  BY <1>4 DEF SpawnPanics, Aligned, Jobs
<1>5. CASE SpawnsDone
  BY <1>5 DEF SpawnsDone, Aligned, Jobs
<1>6. CASE Join
  BY <1>0, <1>6 DEF Join, Aligned, Jobs
<1>7. CASE BatchDone
  BY <1>0, <1>7 DEF BatchDone, Aligned, Jobs
<1>8. ASSUME NEW j \in Jobs, JobEnds(j) PROVE Aligned'
  BY <1>0, <1>8 DEF JobEnds, Aligned, Jobs
<1>9. CASE UNCHANGED vars
  BY <1>9 DEF vars, Aligned, Jobs
<1> QED
  BY <1>1, <1>2, <1>3, <1>4, <1>5, <1>6, <1>7, <1>8, <1>9 DEF Next, RunStep

(* The quotient of a number that a multiple bounds, from below and above.  *)
LEMMA QuotientBounds ==
  ASSUME NEW a \in Nat, NEW b \in Nat \ {0}, NEW k \in Nat
  PROVE  /\ b * k <= a => k <= a \div b
         /\ a < b * k + b => a \div b <= k
<1> DEFINE d == a \div b
<1>1. d \in Nat /\ b * d <= a /\ a < b * d + b
  BY SMT
<1>2. ASSUME b * k <= a, d < k PROVE FALSE
  <2>1. b * (d + 1) <= b * k
    BY <1>1, <1>2, SMT
  <2> QED
    BY <1>1, <1>2, <2>1, SMT
<1>3. ASSUME a < b * k + b, k < d PROVE FALSE
  <2>1. b * (k + 1) <= b * d
    BY <1>1, <1>3, SMT
  <2> QED
    BY <1>1, <1>3, <2>1, SMT
<1> HIDE DEF d
<1>4. (b * k <= a => k <= d) /\ (a < b * k + b => d <= k)
  BY <1>1, <1>2, <1>3, SMT
<1> QED
  BY <1>4 DEF d

(* A failure stops the run at its batch, however many jobs and threads:    *)
(* job j is in batch (j - 1) \div Threads.                                 *)
THEOREM FailureStopsTheRun == Spec => []FailureStopsBatches
<1>1. Init => Aligned
  <2> SUFFICES ASSUME Init PROVE Aligned
    OBVIOUS
  <2>1. first - 1 = Threads * 0 /\ taken = Threads * 0
    BY ExecutorAssumption DEF Init
  <2> QED
    BY <2>1, ExecutorAssumption DEF Init, Aligned, Jobs
<1>2. Inv /\ Aligned /\ [Next]_vars => Aligned'
  BY AlignedInv
<1>3. Inv /\ Aligned => FailureStopsBatches
  <2> SUFFICES ASSUME Inv, Aligned, NEW i \in Jobs, NEW j \in Jobs,
                      job[i] \in {"error", "panic"}, job[j] # "waiting"
               PROVE  (j - 1) \div Threads <= (i - 1) \div Threads
    BY DEF FailureStopsBatches
  <2>1. /\ JobCount \in Nat /\ Threads \in Nat /\ i \in Nat \ {0} /\ j \in Nat \ {0}
        /\ first \in Nat \ {0} /\ taken \in Nat /\ spawned \in Nat /\ spawned <= taken
        /\ joined \in Nat
    BY ExecutorAssumption DEF Inv, TypeOK, Jobs
  <2>2. ~ (i < first) /\ ~ (j > spawned) /\ ~ (i > spawned) /\ taken - (first - 1) <= Threads
    BY DEF Aligned, Inv, Batched
  <2>3. PICK k \in Nat : first - 1 = Threads * k
    BY DEF Aligned
  <2>4. Threads # 0
    BY <2>1, <2>2
  <2>5. Threads * k <= i - 1 /\ j - 1 < Threads * k + Threads
    BY <2>1, <2>2, <2>3
  <2>6. i - 1 \in Nat /\ j - 1 \in Nat
    BY <2>1
  <2>7. k <= (i - 1) \div Threads /\ (j - 1) \div Threads <= k
    BY <2>1, <2>4, <2>5, <2>6, QuotientBounds
  <2>8. (i - 1) \div Threads \in Nat /\ (j - 1) \div Threads \in Nat
    BY <2>1, <2>4, <2>6, SMT
  <2> QED
    BY <2>7, <2>8
<1> QED
  BY <1>1, <1>2, <1>3, Invariant, PTL DEF Spec

-----------------------------------------------------------------------------
(* Refinement.                                                             *)

(* The outputs of the first n jobs, and of one more.                       *)
LEMMA FirstJobsFacts ==
  ASSUME NEW n \in Nat
  PROVE  /\ FirstJobs(n) \in Seq(Nat) /\ Len(FirstJobs(n)) = n
         /\ Append(FirstJobs(n), n + 1) = FirstJobs(n + 1)
BY DEF FirstJobs

(* The same when they are in two pieces.                                   *)
LEMMA FirstJobsInTwo ==
  ASSUME NEW n \in Nat, NEW S, NEW s \in Seq(S), NEW t \in Seq(S), n + 1 \in S,
         s \o t = FirstJobs(n)
  PROVE  s \o Append(t, n + 1) = FirstJobs(n + 1)
<1>1. s \o Append(t, n + 1) = Append(s \o t, n + 1)
  OBVIOUS
<1> QED
  BY <1>1, FirstJobsFacts

(* What the outputs are: between batches the first `joined` jobs, and in a *)
(* batch without an error so are the outputs with those of the batch.      *)
Ordered ==
  /\ first_error # 0 => first_error \in 1 .. joined /\ pc \in {"join", "error"}
  /\ pc = "error" => first_error # 0
  /\ pc = "spawn" => batch_outputs = << >>
  /\ first_error = 0 =>
       FirstJobs(joined) = IF pc = "join" THEN outputs \o batch_outputs ELSE outputs

(* Appending nothing.                                                      *)
LEMMA ConcatEmpty == \A S : \A s \in Seq(S) : s \o << >> = s
BY ConcatEmptySeq

(* Every step keeps the outputs in order.                                  *)
LEMMA OrderedInv == Inv /\ Ordered /\ [Next]_vars => Ordered'
<1> SUFFICES ASSUME Inv, Ordered, [Next]_vars PROVE Ordered'
  OBVIOUS
<1>0. /\ outputs \in Seq(Jobs) /\ batch_outputs \in Seq(Jobs)
      /\ joined \in Nat /\ taken \in Nat /\ spawned \in Nat /\ joined <= spawned
      /\ first_error \in {0} \cup Jobs
  BY ExecutorAssumption DEF Inv, TypeOK
<1>1. CASE TakeBatch
  BY <1>1 DEF TakeBatch, Ordered
<1>2. CASE ReturnOk
  BY <1>2 DEF ReturnOk, Ordered
<1>3. CASE Spawn
  BY <1>3 DEF Spawn, Ordered
<1>4. CASE SpawnPanics
  BY <1>4 DEF SpawnPanics, Ordered
<1>5. CASE SpawnsDone
  <2>1. outputs \o << >> = outputs
    BY <1>0, ConcatEmpty
  <2> QED
    BY <1>5, <2>1 DEF SpawnsDone, Ordered
<1>6. CASE Join
  <2>1. /\ pc = "join" /\ pc' = pc /\ joined' = joined + 1 /\ outputs' = outputs
        /\ joined + 1 \in Jobs
    BY <1>6, <1>0, ExecutorAssumption DEF Join, Inv, TypeOK, Jobs
  <2>2. CASE job[joined + 1] = "value"
    <3>1. batch_outputs' = Append(batch_outputs, joined + 1) /\ first_error' = first_error
      BY <1>6, <2>2 DEF Join
    <3>2. first_error = 0 => outputs \o Append(batch_outputs, joined + 1) = FirstJobs(joined + 1)
      <4>1. first_error = 0 => outputs \o batch_outputs = FirstJobs(joined)
        BY <2>1 DEF Ordered
      <4> HIDE DEF Jobs
      <4> QED
        BY <4>1, <1>0, <2>1, FirstJobsInTwo
    <3> QED
      BY <1>0, <2>1, <3>1, <3>2 DEF Ordered
  <2>3. CASE job[joined + 1] # "value"
    <3>1. first_error' = IF first_error = 0 THEN joined + 1 ELSE first_error
      BY <1>6, <2>3 DEF Join
    <3> QED
      BY <1>0, <2>1, <3>1 DEF Ordered
  <2> QED
    BY <2>2, <2>3
<1>7. CASE BatchDone
  BY <1>7, <1>0 DEF BatchDone, Ordered
<1>8. ASSUME NEW j \in Jobs, JobEnds(j) PROVE Ordered'
  BY <1>8 DEF JobEnds, Ordered
<1>9. CASE UNCHANGED vars
  BY <1>9 DEF vars, Ordered
<1> QED
  BY <1>1, <1>2, <1>3, <1>4, <1>5, <1>6, <1>7, <1>8, <1>9 DEF Next, RunStep

(* The first state is the first state of the sequential run.               *)
LEMMA InitRefines == Init => Map!Init
<1> SUFFICES ASSUME Init PROVE Map!Init
  OBVIOUS
<1>1. pc = "take" /\ first_error = 0 /\ outputs = << >>
  BY DEF Init
<1>2. outputs \o << >> = << >>
  BY <1>1
<1> QED
  BY <1>1, <1>2 DEF Map!Init

(* The outputs of the sequential run that a state stands for.              *)
MapOutputs == IF first_error = 0
                THEN outputs \o (IF pc = "join" THEN batch_outputs ELSE << >>)
                ELSE [j \in 1 .. (first_error - 1) |-> j]

MapStatus == IF first_error # 0 THEN [kind |-> "error", job |-> first_error]
             ELSE IF pc = "ok" THEN [kind |-> "ok"]
             ELSE [kind |-> "running"]

(* They are those of the jobs joined so far, or before the failure.        *)
LEMMA MapOutputsAre ==
  ASSUME Inv, Ordered
  PROVE  MapOutputs = FirstJobs(IF first_error = 0 THEN joined ELSE first_error - 1)
<1>1. CASE first_error # 0
  BY <1>1 DEF MapOutputs, FirstJobs
<1>2. CASE first_error = 0
  <2>1. outputs \in Seq(Jobs)
    BY DEF Inv, TypeOK
  <2>2. outputs \o << >> = outputs
    BY <2>1, ConcatEmpty
  <2>3. FirstJobs(joined) = IF pc = "join" THEN outputs \o batch_outputs ELSE outputs
    BY <1>2 DEF Ordered
  <2> QED
    BY <1>2, <2>2, <2>3 DEF MapOutputs
<1> QED
  BY <1>1, <1>2

(* The same of the next state.                                             *)
LEMMA NextMapOutputsAre ==
  ASSUME Inv', Ordered'
  PROVE  MapOutputs' = FirstJobs(IF first_error' = 0 THEN joined' ELSE first_error' - 1)
<1>1. CASE first_error' # 0
  BY <1>1 DEF MapOutputs, FirstJobs
<1>2. CASE first_error' = 0
  <2>1. outputs' \in Seq(Jobs)
    BY DEF Inv, TypeOK, Jobs
  <2>2. outputs' \o << >> = outputs'
    BY <2>1, ConcatEmpty
  <2>3. FirstJobs(joined') = IF pc' = "join" THEN outputs' \o batch_outputs' ELSE outputs'
    BY <1>2 DEF Ordered, FirstJobs
  <2> QED
    BY <1>2, <2>2, <2>3 DEF MapOutputs
<1> QED
  BY <1>1, <1>2

(* Every step is a step of the sequential run or leaves it as it is: a     *)
(* join of the next value is a success, the first join of a failure is the *)
(* failure, and the return of Ok is the end.                               *)
LEMMA StepRefines ==
  ASSUME Threads # 0, Inv, Ordered, Inv', Ordered', [Next]_vars
  PROVE  \/ /\ MapStatus.kind = "running" /\ Len(MapOutputs) < JobCount
            /\ \/ /\ MapOutputs' = Append(MapOutputs, Len(MapOutputs) + 1)
                  /\ MapStatus' = MapStatus
               \/ /\ MapOutputs' = MapOutputs
                  /\ MapStatus' = [kind |-> "error", job |-> Len(MapOutputs) + 1]
         \/ /\ MapStatus.kind = "running" /\ Len(MapOutputs) = JobCount
            /\ MapStatus' = [kind |-> "ok"]
            /\ MapOutputs' = MapOutputs
         \/ MapOutputs' = MapOutputs /\ MapStatus' = MapStatus
<1>1. MapOutputs = FirstJobs(IF first_error = 0 THEN joined ELSE first_error - 1)
  BY MapOutputsAre
<1>2. MapOutputs' = FirstJobs(IF first_error' = 0 THEN joined' ELSE first_error' - 1)
  BY NextMapOutputsAre
<1>3. /\ joined \in Nat /\ taken \in 0 .. JobCount /\ joined <= taken /\ JobCount \in Nat
      /\ Threads \in Nat /\ Threads # 0
  BY ExecutorAssumption DEF Inv, TypeOK
<1>4. Len(FirstJobs(joined)) = joined /\ Append(FirstJobs(joined), joined + 1) = FirstJobs(joined + 1)
  BY <1>3, FirstJobsFacts
<1>5. ASSUME joined' = joined, first_error' = first_error, pc' = "ok" <=> pc = "ok"
      PROVE  MapOutputs' = MapOutputs /\ MapStatus' = MapStatus
  BY <1>1, <1>2, <1>5 DEF MapStatus
<1>6. CASE TakeBatch
  <2>1. first_error = 0 /\ first_error' = 0 /\ joined' = joined /\ pc = "take" /\ pc' = "spawn"
    BY <1>6 DEF TakeBatch, Ordered
  <2> QED
    BY <2>1, <1>5
<1>7. CASE ReturnOk
  <2>1. /\ first_error = 0 /\ first_error' = 0 /\ joined' = joined
        /\ pc = "take" /\ pc' = "ok" /\ joined = taken /\ BatchEnd = taken
    BY <1>7 DEF ReturnOk, Ordered, Inv, Batched
  <2>2. joined = JobCount
    BY <1>3, <2>1 DEF BatchEnd
  <2> QED
    BY <1>1, <1>2, <1>4, <2>1, <2>2 DEF MapStatus
<1>8. CASE Spawn \/ SpawnPanics \/ SpawnsDone
  BY <1>5, <1>8 DEF Spawn, SpawnPanics, SpawnsDone
<1>9. CASE Join
  <2>1. /\ pc = "join" /\ pc' = "join" /\ joined' = joined + 1 /\ joined < JobCount
        /\ first_error' = IF job[joined + 1] # "value" /\ first_error = 0
                            THEN joined + 1 ELSE first_error
    BY <1>3, <1>9 DEF Join
  <2>2. CASE first_error # 0
    BY <1>1, <1>2, <2>1, <2>2 DEF MapStatus
  <2>3. CASE first_error = 0 /\ first_error' = 0
    BY <1>1, <1>2, <1>4, <2>1, <2>3 DEF MapStatus
  <2>4. CASE first_error = 0 /\ first_error' # 0
    <3>1. first_error' = joined + 1 /\ first_error' - 1 = joined
      BY <1>3, <2>1, <2>4
    <3> QED
      BY <1>1, <1>2, <1>4, <2>1, <2>4, <3>1 DEF MapStatus
  <2> QED
    BY <2>2, <2>3, <2>4
<1>10. CASE BatchDone
  BY <1>5, <1>10 DEF BatchDone
<1>11. ASSUME NEW j \in Jobs, JobEnds(j)
       PROVE  MapOutputs' = MapOutputs /\ MapStatus' = MapStatus
  BY <1>5, <1>11 DEF JobEnds
<1>12. CASE UNCHANGED vars
  BY <1>5, <1>12 DEF vars
<1> QED
  BY <1>6, <1>7, <1>8, <1>9, <1>10, <1>11, <1>12 DEF Next, RunStep

(* With at least one thread, a run returns what running the jobs one by    *)
(* one would, for every number of jobs and threads and every order in      *)
(* which the threads end: the outputs in job order, or the error of the    *)
(* first job of the list that fails.                                       *)
THEOREM RunImplementsMap ==
  ASSUME Threads # 0
  PROVE  Spec => ImplementsMap
<1>1. Init => Map!Init /\ Ordered
  BY InitRefines, ExecutorAssumption DEF Init, Ordered, FirstJobs
<1>2. Inv /\ Ordered /\ [Next]_vars => Ordered'
  BY OrderedInv
<1>3. Inv /\ Ordered /\ Inv' /\ Ordered' /\ [Next]_vars => [Map!Next]_(Map!vars)
  BY StepRefines DEF MapOutputs, MapStatus, Map!Next, Map!JobSucceeds, Map!JobFails,
                     Map!Finish, Map!vars
<1> QED
  BY <1>1, <1>2, <1>3, Invariant, PTL DEF Spec, ImplementsMap, Map!Spec

=============================================================================
