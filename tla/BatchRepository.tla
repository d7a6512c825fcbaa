--------------------------- MODULE BatchRepository ----------------------------
(***************************************************************************)
(* Repository of pkg/batch/repository.go for one batch: the row of the     *)
(* job_batches table, and the goroutines that finish the jobs of the batch *)
(* and record it. Every SQL statement is atomic; DecrementPendingJobs and  *)
(* IncrementFailedJobs are two statements each.                            *)
(***************************************************************************)
EXTENDS Integers, Sequences, FiniteSets, Functions

CONSTANTS Job,          \* the jobs of the batch, each finished by a goroutine
          LeftToRight,  \* do SET assignments see the ones before them (MySQL)?
          MaxFaults     \* bound: failed statements

ASSUME BatchAssumption ==
    /\ IsFiniteSet(Job)
    /\ LeftToRight \in BOOLEAN
    /\ MaxFaults \in Nat

VARIABLES exists,      \* is there a row?
          totalJobs, pendingJobs, failedJobs, failedJobIds,
          cancelled,   \* cancelled_at IS NOT NULL
          finished,    \* finished_at IS NOT NULL
          at,          \* where the goroutine of each job is
          read,        \* the FailedJobIDs its Find returned
          counted,     \* history: jobs whose decrement was executed
          reported,    \* history: jobs whose failure was counted
          overlapped,  \* history: jobs whose id another report overwrote
          sawFinish,   \* history: jobs whose Find returned a finished batch
          faults

row == <<exists, totalJobs, pendingJobs, failedJobs, failedJobIds, cancelled, finished>>
hist == <<counted, reported, overlapped, sawFinish>>
vars == <<row, at, read, hist, faults>>

Init ==
    /\ exists = FALSE
    /\ totalJobs = 0
    /\ pendingJobs = 0
    /\ failedJobs = 0
    /\ failedJobIds = <<>>
    /\ cancelled = FALSE
    /\ finished = FALSE
    /\ at = [j \in Job |-> "running"]
    /\ read = [j \in Job |-> <<>>]
    /\ counted = {}
    /\ reported = {}
    /\ overlapped = {}
    /\ sawFinish = {}
    /\ faults = 0

Goto(j, l) == at' = [at EXCEPT ![j] = l]

Fault ==
    /\ faults < MaxFaults
    /\ faults' = faults + 1

-----------------------------------------------------------------------------
Create ==
    /\ ~exists /\ totalJobs = 0
    /\ exists' = TRUE
    /\ totalJobs' = Cardinality(Job)
    /\ pendingJobs' = Cardinality(Job)
    /\ UNCHANGED <<failedJobs, failedJobIds, cancelled, finished, at, read, hist, faults>>

(* A job of the batch ends; its caller records a success, or a failure.    *)
(* Once per job: the queue may deliver a job again, and the UPDATE would   *)
(* count it again, as nothing in the row tells who has reported; to report *)
(* a job once is left to the callers, none of which is in the repository.  *)
JobEnds(j) ==
    /\ at[j] = "running"
    /\ exists
    /\ Goto(j, "decrement") \/ Goto(j, "findIds")
    /\ UNCHANGED <<row, read, hist, faults>>

(* Mutant: the CASE compares the old value with zero.                      *)
DecrementAtZero(j) ==
    /\ at[j] = "decrement"
    /\ IF exists THEN pendingJobs' = pendingJobs - 1 ELSE UNCHANGED pendingJobs
    /\ finished' = (finished \/ pendingJobs = 0)
    /\ counted' = counted \cup {j}
    /\ Goto(j, "find")
    /\ UNCHANGED <<exists, totalJobs, failedJobs, failedJobIds, cancelled, read,
                   reported, overlapped, sawFinish, faults>>

(* The UPDATE of DecrementPendingJobs: the CASE looks at pending_jobs      *)
(* before or after the decrement, by the rules of the database.            *)
Decrement(j) ==
    /\ at[j] = "decrement"
    /\ \/ /\ IF exists
             THEN /\ pendingJobs' = pendingJobs - 1
                  /\ finished' = (finished \/
                        (IF LeftToRight THEN pendingJobs' ELSE pendingJobs) = 1)
             ELSE UNCHANGED <<pendingJobs, finished>>
          /\ counted' = counted \cup {j}
          /\ \/ Goto(j, "find") /\ UNCHANGED faults
             \/ Goto(j, "done") /\ Fault
       \/ /\ Goto(j, "done")
          /\ Fault
          /\ UNCHANGED <<pendingJobs, finished, counted>>
    /\ UNCHANGED <<exists, totalJobs, failedJobs, failedJobIds, cancelled, read,
                   reported, overlapped, sawFinish>>

(* Mutants: only unfinished batches are selected; a failed Find starts the *)
(* whole of DecrementPendingJobs again.                                    *)
FindUnfinished(j) ==
    /\ at[j] = "find"
    /\ Goto(j, "done")
    /\ UNCHANGED <<row, read, hist, faults>>

FindRetries(j) ==
    /\ at[j] = "find"
    /\ \/ Goto(j, "done") /\ UNCHANGED faults
       \/ Goto(j, "decrement") /\ Fault
    /\ UNCHANGED <<row, read, hist>>

(* The Find that follows it; it fails when the row was pruned.             *)
Find(j) ==
    /\ at[j] = "find"
    /\ Goto(j, "done")
    /\ \/ /\ sawFinish' = IF exists /\ finished THEN sawFinish \cup {j} ELSE sawFinish
          /\ UNCHANGED faults
       \/ /\ Fault
          /\ UNCHANGED sawFinish
    /\ UNCHANGED <<row, read, counted, reported, overlapped>>

(* IncrementFailedJobs: the read, and the write of what was read plus one. *)
FindIds(j) ==
    /\ at[j] = "findIds"
    /\ \/ /\ exists
          /\ read' = [read EXCEPT ![j] = failedJobIds]
          /\ Goto(j, "writeIds")
          /\ UNCHANGED faults
       \/ /\ ~exists
          /\ Goto(j, "done")
          /\ UNCHANGED <<read, faults>>
       \/ /\ Fault
          /\ Goto(j, "done")
          /\ UNCHANGED read
    /\ UNCHANGED <<row, hist>>

(* Mutant: the new count is computed from what was read.                   *)
WriteCount(j) ==
    /\ at[j] = "writeIds"
    /\ Goto(j, "done")
    /\ failedJobs' = Len(read[j]) + 1
    /\ failedJobIds' = Append(read[j], j)
    /\ reported' = reported \cup {j}
    /\ overlapped' = overlapped \cup (Range(failedJobIds) \ Range(read[j]))
    /\ UNCHANGED <<exists, totalJobs, pendingJobs, cancelled, finished, read,
                   counted, sawFinish, faults>>

WriteIds(j) ==
    /\ at[j] = "writeIds"
    /\ Goto(j, "done")
    /\ \/ /\ exists
          /\ failedJobs' = failedJobs + 1
          /\ failedJobIds' = Append(read[j], j)
          /\ reported' = reported \cup {j}
          /\ overlapped' = overlapped \cup (Range(failedJobIds) \ Range(read[j]))
          /\ UNCHANGED faults
       \/ /\ ~exists
          /\ UNCHANGED <<failedJobs, failedJobIds, reported, overlapped, faults>>
       \/ /\ Fault
          /\ UNCHANGED <<failedJobs, failedJobIds, reported, overlapped>>
    /\ UNCHANGED <<exists, totalJobs, pendingJobs, cancelled, finished, read,
                   counted, sawFinish>>

Cancel ==
    /\ exists /\ ~cancelled
    /\ cancelled' = TRUE
    /\ UNCHANGED <<exists, totalJobs, pendingJobs, failedJobs, failedJobIds,
                   finished, at, read, hist, faults>>

(* Only rows with a finished_at are ever deleted.                          *)
Prune ==
    /\ exists /\ finished
    /\ exists' = FALSE
    /\ UNCHANGED <<totalJobs, pendingJobs, failedJobs, failedJobIds, cancelled,
                   finished, at, read, hist, faults>>

(* Mutant: failed jobs are taken as processed.                             *)
ProgressWithFailed ==
    IF totalJobs = 0 THEN 0
    ELSE ((totalJobs - pendingJobs + failedJobs) * 100) \div totalJobs

Progress ==
    IF totalJobs = 0 THEN 0 ELSE ((totalJobs - pendingJobs) * 100) \div totalJobs

Done ==
    /\ \A j \in Job : at[j] = "done"
    /\ UNCHANGED vars

Next ==
    \/ Create
    \/ \E j \in Job : \/ JobEnds(j)
                      \/ Decrement(j)
                      \/ Find(j)
                      \/ FindIds(j)
                      \/ WriteIds(j)
    \/ Cancel
    \/ Prune
    \/ Done

Spec == Init /\ [][Next]_vars

-----------------------------------------------------------------------------
TypeOK ==
    /\ exists \in BOOLEAN /\ cancelled \in BOOLEAN /\ finished \in BOOLEAN
    /\ totalJobs \in 0..Cardinality(Job)
    /\ pendingJobs \in 0..Cardinality(Job)
    /\ failedJobs \in 0..Cardinality(Job)
    /\ failedJobIds \in Seq(Job)
    /\ at \in [Job -> {"running", "decrement", "find", "findIds", "writeIds", "done"}]
    /\ read \in [Job -> Seq(Job)]
    /\ counted \subseteq Job /\ reported \subseteq Job
    /\ overlapped \subseteq Job /\ sawFinish \subseteq Job
    /\ faults \in 0..MaxFaults

(* "DecrementPendingJobs atomically decrements pending and marks finished  *)
(* if zero" (pkg/batch/repository.go): the batch is finished when the last *)
(* of its jobs was counted, and not before.                                *)
FinishedWhenZero == exists => (finished <=> pendingJobs = 0)

(* The completion of a batch is not missed: some caller of                 *)
(* DecrementPendingJobs gets a finished batch, or is about to, unless a    *)
(* statement failed or the row was pruned first.                           *)
FinishIsSeen ==
    exists /\ finished /\ faults = 0 =>
        \/ sawFinish # {}
        \/ \E j \in Job : at[j] = "find"

(* Every reported failure is counted, and its id is in the list unless     *)
(* another report was between its read and its write ("Accept the race     *)
(* trade-off", pkg/batch/repository.go).                                   *)
FailuresCounted ==
    /\ failedJobs = Cardinality(reported)
    /\ Range(failedJobIds) \subseteq reported
    /\ reported \subseteq Range(failedJobIds) \cup overlapped

(* The progress is a percentage that reads 100 exactly when no job is      *)
(* pending, though it is a rounded-down quotient.                          *)
ProgressHonest ==
    exists => Progress \in 0..100 /\ (Progress = 100 <=> pendingJobs = 0)
=============================================================================
