----------------------------- MODULE BatchProofs ------------------------------
(***************************************************************************)
(* Proofs about the repository of batches: the counters of the row agree   *)
(* with the jobs that were counted, however the statements of the jobs     *)
(* interleave, fail and race with Cancel and Prune.                        *)
(***************************************************************************)
EXTENDS BatchRepository, FiniteSetTheorems, TLAPS

(* What the row and the goroutines know of each other. Before Create no    *)
(* goroutine has moved; while the row is there, pending_jobs is what is    *)
(* left of the jobs; a counted job is past its UPDATE, a reported one has  *)
(* ended, and nobody read an id that was not reported.                     *)
Fresh ==
    ~exists /\ totalJobs = 0 =>
        ~finished /\ counted = {} /\ \A j \in Job : at[j] = "running"

Counts ==
    /\ exists => totalJobs = Cardinality(Job)
    /\ exists => pendingJobs = Cardinality(Job) - Cardinality(counted)
    /\ finished => totalJobs = Cardinality(Job) /\ Job # {}

Placed ==
    /\ \A j \in counted : at[j] \in {"find", "done"}
    /\ \A j \in reported : at[j] = "done"
    /\ \A j \in Job : Range(read[j]) \subseteq reported

BatchInv == TypeOK /\ Fresh /\ Counts /\ Placed /\ FailuresCounted

-----------------------------------------------------------------------------
(* What an appended list holds.                                            *)
LEMMA RangeOfAppend ==
    ASSUME NEW S, NEW s \in Seq(S), NEW x \in S
    PROVE  Append(s, x) \in Seq(S) /\ Range(Append(s, x)) = Range(s) \cup {x}
  <1> DEFINE t == Append(s, x)
  <1>1. /\ t \in Seq(S) /\ DOMAIN t = 1..(Len(s) + 1) /\ DOMAIN s = 1..Len(s)
        /\ t[Len(s) + 1] = x /\ \A i \in 1..Len(s) : t[i] = s[i]
    OBVIOUS
  <1>2. Len(s) \in Nat
    OBVIOUS
  <1> HIDE DEF t
  <1>3. Range(t) = Range(s) \cup {x}
    BY <1>1, <1>2 DEF Range
  <1> QED
    BY <1>1, <1>3 DEF t

(* A rounded-down percentage is between 0 and 100, and is 100 for the      *)
(* whole only.                                                             *)
LEMMA Percentage ==
    ASSUME NEW t \in Nat, t # 0, NEW p \in 0..t
    PROVE  /\ ((t - p) * 100) \div t \in 0..100
           /\ ((t - p) * 100) \div t = 100 <=> p = 0
  <1> DEFINE q == ((t - p) * 100) \div t
  <1>1. q \in Int /\ q * t <= (t - p) * 100 /\ (t - p) * 100 < (q + 1) * t
    OBVIOUS
  <1>2. q >= 0
    BY <1>1
  <1>3. q <= 100
    BY <1>1
  <1>4. q = 100 <=> p = 0
    BY <1>1
  <1> QED
    BY <1>1, <1>2, <1>3, <1>4

(* The jobs that were counted, or reported, are finitely many, at most all *)
(* of them, and one fewer before one is added.                             *)
LEMMA JobSets ==
    ASSUME NEW S, S \subseteq Job
    PROVE  /\ Cardinality(S) \in 0..Cardinality(Job)
           /\ Cardinality(Job) \in Nat
           /\ Cardinality(Job) = 0 <=> Job = {}
           /\ \A j \in Job \ S : /\ Cardinality(S \cup {j}) = Cardinality(S) + 1
                               /\ Cardinality(S) < Cardinality(Job)
  <1>1. IsFiniteSet(S) /\ Cardinality(S) <= Cardinality(Job)
    BY FS_Subset, BatchAssumption
  <1>2. Cardinality(S) \in Nat /\ Cardinality(Job) \in Nat
    BY <1>1, FS_CardinalityType, BatchAssumption
  <1>3. Cardinality(Job) = 0 <=> Job = {}
    BY FS_EmptySet, BatchAssumption
  <1>4. ASSUME NEW j \in Job \ S
        PROVE  Cardinality(S \cup {j}) = Cardinality(S) + 1 /\ Cardinality(S) < Cardinality(Job)
    <2>1. Cardinality(S \cup {j}) = Cardinality(S) + 1
      BY <1>1, FS_AddElement
    <2>2. Cardinality(S \cup {j}) <= Cardinality(Job)
      BY FS_Subset, BatchAssumption
    <2> QED
      BY <1>2, <2>1, <2>2
  <1> QED
    BY <1>1, <1>2, <1>3, <1>4

LEMMA BatchInitInv == Init => BatchInv
  <1> SUFFICES ASSUME Init PROVE BatchInv
    OBVIOUS
  <1>1. Cardinality({}) = 0 /\ Cardinality(Job) \in Nat
    BY FS_EmptySet, JobSets
  <1>2. <<>> \in Seq(Job) /\ Range(<<>>) = {}
    BY DEF Range
  <1>3. TypeOK
    <2>1. exists \in BOOLEAN /\ cancelled \in BOOLEAN /\ finished \in BOOLEAN
      BY DEF Init
    <2>2. /\ totalJobs \in 0..Cardinality(Job)
          /\ pendingJobs \in 0..Cardinality(Job)
          /\ failedJobs \in 0..Cardinality(Job)
      BY <1>1 DEF Init
    <2>3. faults \in 0..MaxFaults
      BY BatchAssumption DEF BatchAssumption, Init
    <2>4. at \in [Job -> {"running", "decrement", "find", "findIds", "writeIds", "done"}]
      BY DEF Init
    <2>5. failedJobIds \in Seq(Job) /\ read \in [Job -> Seq(Job)]
      BY <1>2 DEF Init
    <2>6. counted \subseteq Job /\ reported \subseteq Job /\ overlapped \subseteq Job /\ sawFinish \subseteq Job
      BY DEF Init
    <2> QED
      BY <2>1, <2>2, <2>3, <2>4, <2>5, <2>6 DEF TypeOK
  <1>4. Fresh /\ Counts
    BY <1>1 DEF Init, Fresh, Counts
  <1>5. Placed /\ FailuresCounted
    BY <1>1, <1>2 DEF Init, Placed, FailuresCounted
  <1> QED
    BY <1>3, <1>4, <1>5 DEF BatchInv

-----------------------------------------------------------------------------
(* Every step keeps the invariant, whichever order the database assigns    *)
(* in.                                                                     *)
LEMMA BatchNextInv == BatchInv /\ [Next]_vars => BatchInv'
  <1> SUFFICES ASSUME BatchInv, [Next]_vars PROVE BatchInv'
    OBVIOUS
  <1> USE DEF BatchInv
  <1>c. Cardinality(Job) \in Nat /\ (Cardinality(Job) = 0 <=> Job = {})
    BY JobSets
  <1>f. MaxFaults \in Nat /\ (Fault => faults' \in 0..MaxFaults)
    BY BatchAssumption DEF BatchAssumption, Fault, TypeOK
  <1>b. exists \in BOOLEAN /\ cancelled \in BOOLEAN /\ finished \in BOOLEAN
    BY DEF TypeOK
  <1>1. CASE Create
    <2>1. /\ counted = {} /\ ~finished /\ ~exists /\ Cardinality({}) = 0
          /\ exists' = TRUE
          /\ totalJobs' = Cardinality(Job) /\ pendingJobs' = Cardinality(Job)
          /\ UNCHANGED <<failedJobs, failedJobIds, cancelled, finished, at, read, counted,
                         reported, overlapped, sawFinish, faults>>
      BY <1>1, FS_EmptySet DEF Create, Fresh, hist
    <2>2. TypeOK'
      BY <1>c, <2>1 DEF TypeOK
    <2>3. Fresh' /\ Counts'
      BY <1>c, <2>1 DEF Fresh, Counts
    <2>4. Placed' /\ FailuresCounted'
      BY <2>1 DEF Placed, FailuresCounted
    <2> QED
      BY <2>2, <2>3, <2>4
  <1>2. ASSUME NEW j \in Job, JobEnds(j) PROVE BatchInv'
    BY <1>2 DEF JobEnds, Goto, row, hist, TypeOK, Fresh, Counts, Placed, FailuresCounted
  <1>3. ASSUME NEW j \in Job, Decrement(j) PROVE BatchInv'
    <2>1. j \notin counted /\ j \notin reported
      BY <1>3 DEF Decrement, Placed
    <2>2. counted \subseteq Job
      BY DEF TypeOK
    <2>3. /\ Cardinality(counted \cup {j}) = Cardinality(counted) + 1
          /\ Cardinality(counted) < Cardinality(Job)
          /\ Cardinality(counted) \in Nat
      BY <2>1, <2>2, JobSets
    <2>4. exists \/ totalJobs # 0
      BY <1>3 DEF Decrement, Fresh
    <2>m. /\ \/ exists /\ pendingJobs' = pendingJobs - 1 /\ counted' = counted \cup {j}
             \/ ~exists /\ pendingJobs' = pendingJobs /\ counted' = counted \cup {j}
             \/ pendingJobs' = pendingJobs /\ counted' = counted
          /\ finished' \in BOOLEAN /\ (finished' => finished \/ exists)
          /\ Goto(j, "find") \/ Goto(j, "done")
          /\ faults' = faults \/ Fault
          /\ UNCHANGED <<exists, totalJobs, failedJobs, failedJobIds, cancelled, read,
                         reported, overlapped, sawFinish>>
      BY <1>3 DEF Decrement, TypeOK
    <2>n. pendingJobs \in Nat /\ pendingJobs <= Cardinality(Job)
      BY <1>c DEF TypeOK
    <2>5. TypeOK'
      <3>1. pendingJobs' \in 0..Cardinality(Job)
        BY <1>c, <2>3, <2>m, <2>n DEF Counts
      <3>2. at' \in [Job -> {"running", "decrement", "find", "findIds", "writeIds", "done"}]
        BY <2>m DEF Goto, TypeOK
      <3>3. counted' \subseteq Job /\ faults' \in 0..MaxFaults
        BY <1>f, <2>2, <2>m DEF TypeOK
      <3> QED
        BY <2>m, <3>1, <3>2, <3>3 DEF TypeOK
    <2>6. Fresh'
      BY <2>4, <2>m DEF Fresh
    <2>c. Counts'
      <3>1. exists' => pendingJobs' = Cardinality(Job) - Cardinality(counted')
        <4>1. exists => pendingJobs = Cardinality(Job) - Cardinality(counted)
          BY DEF Counts
        <4>2. CASE exists /\ pendingJobs' = pendingJobs - 1 /\ counted' = counted \cup {j}
          BY <1>c, <2>3, <4>1, <4>2
        <4>3. CASE pendingJobs' = pendingJobs /\ counted' = counted
          BY <2>m, <4>1, <4>3
        <4> QED
          BY <2>m, <4>2, <4>3
      <3> QED
        BY <2>m, <3>1 DEF Counts
    <2>7. Placed' /\ FailuresCounted'
      BY <1>3, <2>1, <2>2 DEF Decrement, Goto, TypeOK, Placed, FailuresCounted
    <2> QED
      BY <2>5, <2>6, <2>c, <2>7
  <1>4. ASSUME NEW j \in Job, Find(j) PROVE BatchInv'
    BY <1>4, BatchAssumption
    DEF Find, Goto, Fault, row, TypeOK, Fresh, Counts, Placed, FailuresCounted
  <1>5. ASSUME NEW j \in Job, FindIds(j) PROVE BatchInv'
    <2>1. /\ read' = read \/ read' = [read EXCEPT ![j] = failedJobIds]
          /\ Goto(j, "writeIds") \/ Goto(j, "done")
          /\ faults' = faults \/ Fault
          /\ at[j] = "findIds"
          /\ UNCHANGED <<row, hist>>
      BY <1>5 DEF FindIds
    <2>2. TypeOK'
      BY <1>f, <2>1 DEF Goto, row, hist, TypeOK
    <2>3. Fresh' /\ Counts'
      BY <2>1 DEF row, hist, Fresh, Counts
    <2>4. Placed' /\ FailuresCounted'
      BY <2>1 DEF Goto, row, hist, TypeOK, Placed, FailuresCounted
    <2> QED
      BY <2>2, <2>3, <2>4
  <1>6. ASSUME NEW j \in Job, WriteIds(j) PROVE BatchInv'
    <2>1. j \notin reported /\ j \notin counted
      BY <1>6 DEF WriteIds, Placed
    <2>2. reported \subseteq Job
      BY DEF TypeOK
    <2>3. /\ Cardinality(reported \cup {j}) = Cardinality(reported) + 1
          /\ Cardinality(reported) < Cardinality(Job)
          /\ Cardinality(reported) \in Nat
      BY <2>1, <2>2, JobSets
    <2>4. Append(read[j], j) \in Seq(Job) /\ Range(Append(read[j], j)) = Range(read[j]) \cup {j}
      BY RangeOfAppend DEF TypeOK
    <2>r. Range(failedJobIds) \subseteq Job
      BY <2>2 DEF FailuresCounted
    <2>5. TypeOK'
      <3>1. failedJobs' \in 0..Cardinality(Job)
        BY <1>6, <1>c, <2>3 DEF WriteIds, TypeOK, FailuresCounted
      <3>2. /\ at' \in [Job -> {"running", "decrement", "find", "findIds", "writeIds", "done"}]
            /\ faults' \in 0..MaxFaults
        BY <1>6, <1>f DEF WriteIds, Goto, TypeOK
      <3>3. failedJobIds' \in Seq(Job) /\ reported' \subseteq Job /\ overlapped' \subseteq Job
        BY <1>6, <2>2, <2>4, <2>r DEF WriteIds, TypeOK
      <3>4. UNCHANGED <<exists, totalJobs, pendingJobs, cancelled, finished, read,
                        counted, sawFinish>>
        BY <1>6 DEF WriteIds
      <3> QED
        BY <3>1, <3>2, <3>3, <3>4 DEF TypeOK
    <2>6. Fresh' /\ Counts'
      BY <1>6, <2>1 DEF WriteIds, Goto, TypeOK, Fresh, Counts
    <2>7. Placed'
      BY <1>6, <2>1, <2>2 DEF WriteIds, Goto, TypeOK, Placed
    <2>8. FailuresCounted'
      BY <1>6, <2>3, <2>4 DEF WriteIds, Placed, FailuresCounted
    <2> QED
      BY <2>5, <2>6, <2>7, <2>8
  <1>7. CASE Cancel
    BY <1>7 DEF Cancel, hist, TypeOK, Fresh, Counts, Placed, FailuresCounted
  <1>8. CASE Prune
    BY <1>8, <1>c DEF Prune, hist, TypeOK, Fresh, Counts, Placed, FailuresCounted
  <1>9. CASE Done \/ UNCHANGED vars
    BY <1>9 DEF Done, vars, row, hist, TypeOK, Fresh, Counts, Placed, FailuresCounted
  <1> QED
    BY <1>1, <1>2, <1>3, <1>4, <1>5, <1>6, <1>7, <1>8, <1>9 DEF Next

LEMMA BatchAlways == Spec => []BatchInv
  BY BatchInitInv, BatchNextInv, PTL DEF Spec

(* The variables of BatchRepository keep their types; in particular        *)
(* pending_jobs never goes below zero and no counter passes the number of  *)
(* jobs, on every database.                                                *)
THEOREM BatchTypeOK == Spec => []TypeOK
  <1>1. BatchInv => TypeOK
    BY DEF BatchInv
  <1> QED
    BY <1>1, BatchAlways, PTL

(* failed_jobs counts the reported failures exactly, and an id is missing  *)
(* from failed_job_ids only when another report overwrote it.              *)
THEOREM BatchFailuresCounted == Spec => []FailuresCounted
  <1>1. BatchInv => FailuresCounted
    BY DEF BatchInv
  <1> QED
    BY <1>1, BatchAlways, PTL

-----------------------------------------------------------------------------
(* A job that is to be counted is among the pending ones.                  *)
LEMMA PendingWhileCounting ==
    ASSUME BatchInv, NEW j \in Job, at[j] = "decrement"
    PROVE  exists => pendingJobs \in 1..Cardinality(Job)
  <1>1. j \notin counted /\ counted \subseteq Job
    BY DEF BatchInv, Placed, TypeOK
  <1>2. Cardinality(counted) \in Nat /\ Cardinality(Job) \in Nat
    BY <1>1, JobSets
  <1>3. Cardinality(counted) < Cardinality(Job)
    BY <1>1, JobSets
  <1> QED
    BY <1>2, <1>3 DEF BatchInv, Counts

(* With the rule of standard SQL, and a batch of at least one job, the row *)
(* is marked finished by the decrement that brings pending_jobs to zero    *)
(* and by no other.                                                        *)
LEMMA FinishedStep ==
    ASSUME ~LeftToRight, Job # {}, BatchInv, FinishedWhenZero, [Next]_vars
    PROVE  FinishedWhenZero'
  <1>c. Cardinality(Job) \in Nat /\ Cardinality(Job) # 0
    BY JobSets
  <1>1. CASE Create
    BY <1>1, <1>c DEF Create, BatchInv, Fresh, FinishedWhenZero
  <1>2. ASSUME NEW j \in Job, Decrement(j) PROVE FinishedWhenZero'
    <2>1. exists => pendingJobs \in 1..Cardinality(Job)
      BY <1>2, PendingWhileCounting DEF Decrement
    <2>2. \/ exists /\ pendingJobs' = pendingJobs - 1 /\ (finished' <=> finished \/ pendingJobs = 1)
          \/ ~exists
          \/ pendingJobs' = pendingJobs /\ finished' = finished
      BY <1>2 DEF Decrement
    <2>3. exists' = exists
      BY <1>2 DEF Decrement
    <2> QED
      BY <1>c, <2>1, <2>2, <2>3 DEF FinishedWhenZero
  <1>3. ASSUME NEW j \in Job, JobEnds(j) \/ Find(j) \/ FindIds(j) \/ WriteIds(j)
        PROVE  FinishedWhenZero'
    BY <1>3 DEF JobEnds, Find, FindIds, WriteIds, row, FinishedWhenZero
  <1>4. CASE Cancel \/ Prune \/ Done \/ UNCHANGED vars
    BY <1>4 DEF Cancel, Prune, Done, vars, row, FinishedWhenZero
  <1> QED
    BY <1>1, <1>2, <1>3, <1>4 DEF Next

(* "DecrementPendingJobs atomically decrements pending and marks finished  *)
(* if zero", for every number of jobs but none, every interleaving and     *)
(* every failed statement, on a database that evaluates SET against the    *)
(* old row.                                                                *)
THEOREM BatchFinishedWhenZero ==
    ASSUME ~LeftToRight, Job # {}
    PROVE  Spec => []FinishedWhenZero
  <1>1. Init => FinishedWhenZero
    BY DEF Init, FinishedWhenZero
  <1>2. BatchInv /\ FinishedWhenZero /\ [Next]_vars => FinishedWhenZero'
    BY FinishedStep
  <1> QED
    BY <1>1, <1>2, BatchAlways, PTL DEF Spec

(* What that means for the jobs: while the row is there it is finished     *)
(* when the UPDATE of every job of the batch was executed, so a job whose  *)
(* decrement failed, or that was only reported as failed, keeps the batch  *)
(* open for good.                                                          *)
THEOREM BatchFinishedMeansAll ==
    ASSUME ~LeftToRight, Job # {}
    PROVE  Spec => [](exists => (finished <=> counted = Job))
  <1>1. ASSUME BatchInv, FinishedWhenZero PROVE exists => (finished <=> counted = Job)
    <2>1. counted \subseteq Job /\ IsFiniteSet(Job)
      BY <1>1, BatchAssumption DEF BatchAssumption, BatchInv, TypeOK
    <2>2. Cardinality(counted) = Cardinality(Job) <=> counted = Job
      BY <2>1, FS_Subset
    <2>3. Cardinality(counted) \in Nat /\ Cardinality(Job) \in Nat
      BY <2>1, JobSets
    <2>4. exists => pendingJobs = Cardinality(Job) - Cardinality(counted)
      BY <1>1 DEF BatchInv, Counts
    <2>5. exists => (pendingJobs = 0 <=> counted = Job)
      BY <2>2, <2>3, <2>4
    <2> QED
      BY <1>1, <2>5 DEF FinishedWhenZero
  <1> QED
    BY <1>1, BatchAlways, BatchFinishedWhenZero, PTL

-----------------------------------------------------------------------------
(* On MySQL the CASE sees the decremented value, and only a decrement to   *)
(* one marks the row: a batch of several jobs is finished with one of them *)
(* pending, and a batch of one job is not finished by its only decrement.  *)
FinishedOneEarly == exists => (finished <=> pendingJobs <= 1 /\ Cardinality(Job) > 1)

LEMMA FinishedEarlyStep ==
    ASSUME LeftToRight, BatchInv, FinishedOneEarly, [Next]_vars
    PROVE  FinishedOneEarly'
  <1>c. Cardinality(Job) \in Nat
    BY JobSets
  <1>1. CASE Create
    BY <1>1, <1>c DEF Create, BatchInv, Fresh, FinishedOneEarly
  <1>2. ASSUME NEW j \in Job, Decrement(j) PROVE FinishedOneEarly'
    <2>1. exists => pendingJobs \in 1..Cardinality(Job)
      BY <1>2, PendingWhileCounting DEF Decrement
    <2>2. \/ exists /\ pendingJobs' = pendingJobs - 1 /\ (finished' <=> finished \/ pendingJobs' = 1)
          \/ ~exists
          \/ pendingJobs' = pendingJobs /\ finished' = finished
      BY <1>2 DEF Decrement
    <2>3. exists' = exists
      BY <1>2 DEF Decrement
    <2> QED
      BY <1>c, <2>1, <2>2, <2>3 DEF FinishedOneEarly
  <1>3. ASSUME NEW j \in Job, JobEnds(j) \/ Find(j) \/ FindIds(j) \/ WriteIds(j)
        PROVE  FinishedOneEarly'
    BY <1>3 DEF JobEnds, Find, FindIds, WriteIds, row, FinishedOneEarly
  <1>4. CASE Cancel \/ Prune \/ Done \/ UNCHANGED vars
    BY <1>4 DEF Cancel, Prune, Done, vars, row, FinishedOneEarly
  <1> QED
    BY <1>1, <1>2, <1>3, <1>4 DEF Next

(* What DecrementPendingJobs does on a database that evaluates SET from    *)
(* left to right, for every number of jobs: finished_at is set while the   *)
(* last job is still pending, and never for a batch of one job.            *)
THEOREM BatchFinishedOneEarly ==
    ASSUME LeftToRight
    PROVE  Spec => []FinishedOneEarly
  <1>1. Init => FinishedOneEarly
    BY DEF Init, FinishedOneEarly
  <1>2. BatchInv /\ FinishedOneEarly /\ [Next]_vars => FinishedOneEarly'
    BY FinishedEarlyStep
  <1> QED
    BY <1>1, <1>2, BatchAlways, PTL DEF Spec

(* The completion is not missed on any database: the decrement that marks  *)
(* the row goes on to read it.                                             *)
THEOREM BatchFinishIsSeen == Spec => []FinishIsSeen
  <1>1. Init => FinishIsSeen
    BY DEF Init, FinishIsSeen
  <1>2. ASSUME BatchInv, FinishIsSeen, [Next]_vars PROVE FinishIsSeen'
    <2> USE DEF FinishIsSeen, BatchInv, TypeOK
    <2>1. CASE Create
      BY <1>2, <2>1 DEF Create, Fresh, hist
    <2>2. ASSUME NEW j \in Job, JobEnds(j) PROVE FinishIsSeen'
      BY <1>2, <2>2 DEF JobEnds, Goto, row, hist
    <2>n. faults \in Nat
      BY <1>2, BatchAssumption DEF BatchAssumption
    <2>3. ASSUME NEW j \in Job, Decrement(j) PROVE FinishIsSeen'
      <3>1. \/ at' = [at EXCEPT ![j] = "find"]
            \/ faults' = faults + 1
        BY <2>3 DEF Decrement, Goto, Fault
      <3> QED
        BY <1>2, <2>n, <3>1
    <2>4. ASSUME NEW j \in Job, Find(j) PROVE FinishIsSeen'
      <3>1. \/ faults' = faults + 1
            \/ sawFinish' = IF exists /\ finished THEN sawFinish \cup {j} ELSE sawFinish
        BY <2>4 DEF Find, Fault
      <3>2. exists' = exists /\ finished' = finished
        BY <2>4 DEF Find, row
      <3> QED
        BY <2>n, <3>1, <3>2
    <2>5. ASSUME NEW j \in Job, FindIds(j) \/ WriteIds(j) PROVE FinishIsSeen'
      <3>1. /\ at[j] # "find" /\ \A x \in Job \ {j} : at'[x] = at[x]
            /\ faults' = faults \/ faults' = faults + 1
            /\ UNCHANGED <<exists, finished, sawFinish>>
        BY <1>2, <2>5 DEF FindIds, WriteIds, Goto, Fault, row, hist
      <3>2. faults' = 0 => faults = 0
        BY <2>n, <3>1
      <3>3. \A x \in Job : at[x] = "find" => at'[x] = "find"
        BY <3>1
      <3> QED
        BY <1>2, <3>1, <3>2, <3>3 DEF FinishIsSeen
    <2>6. CASE Cancel \/ Prune \/ Done \/ UNCHANGED vars
      BY <1>2, <2>6 DEF Cancel, Prune, Done, vars, row, hist
    <2> QED
      BY <1>2, <2>1, <2>2, <2>3, <2>4, <2>5, <2>6 DEF Next
  <1> QED
    BY <1>1, <1>2, BatchAlways, PTL DEF Spec

(* The progress of a batch of at least one job is a percentage, and reads  *)
(* 100 exactly when no job is pending.                                     *)
THEOREM BatchProgressHonest ==
    ASSUME Job # {}
    PROVE  Spec => []ProgressHonest
  <1>1. ASSUME BatchInv PROVE ProgressHonest
    <2>1. Cardinality(Job) \in Nat /\ Cardinality(Job) # 0
      BY JobSets
    <2>2. pendingJobs \in 0..Cardinality(Job) /\ (exists => totalJobs = Cardinality(Job))
      BY <1>1 DEF BatchInv, TypeOK, Counts
    <2> QED
      BY <2>1, <2>2, Percentage DEF ProgressHonest, Progress
  <1> QED
    BY <1>1, BatchAlways, PTL
=============================================================================
