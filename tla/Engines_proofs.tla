---------------------------- MODULE Engines_proofs ----------------------------
(***************************************************************************)
(* Proofs about the engines behind the requests: the retry loop of the     *)
(* inventory lock (RedisLock), the export worker with its poller           *)
(* (ExportWorker), the scheduler of the billing (Billing) and the approval *)
(* of workflows (Workflow).  The components share nothing; each is a       *)
(* specification of its own.                                               *)
(***************************************************************************)
EXTENDS RedisLock, ExportWorker, Billing, Workflow, FiniteSetTheorems, SequenceTheorems, TLAPS

-----------------------------------------------------------------------------
(***************************************************************************)
(* RedisLock, for any sets of keys and callers, any number of retries,     *)
(* with and without faults.  UnexpiredOwnsKey is the inductive invariant:  *)
(* with the type invariant it is preserved by every step, and mutual       *)
(* exclusion of unexpired holders follows because a key has one value.     *)
(***************************************************************************)

(***************************************************************************)
(* Every behaviour of the lock keeps its type: in particular the attempt   *)
(* counter of Acquire stays within its bound.                              *)
(***************************************************************************)
THEOREM RedisLockTypeOK == LockSpec => []LockTypeOK
<1> USE RetriesAssumption, LockModeAssumption, NoHolderAssumption
    DEF LockTypeOK, LockTableTypeOK
<1>1. LockInit => LockTypeOK
  BY DEF LockInit, LockTableInit
<1>2. LockTypeOK /\ [LockNext]_lockVars => LockTypeOK'
  <2> SUFFICES ASSUME LockTypeOK, [LockNext]_lockVars
               PROVE  LockTypeOK'
    OBVIOUS
  <2>1. ASSUME NEW h \in Holder, NEW k \in Key, AcquireInventoryLock(h, k)
        PROVE  LockTypeOK'
    BY <2>1 DEF AcquireInventoryLock
  <2>2. ASSUME NEW h \in Holder, AttemptSucceeds(h)
        PROVE  LockTypeOK'
    BY <2>2 DEF AttemptSucceeds, Granted, SetNX
  <2>3. ASSUME NEW h \in Holder, AttemptFails(h)
        PROVE  LockTypeOK'
    BY <2>3 DEF AttemptFails, Refused
  <2>4. ASSUME NEW h \in Holder, AttemptReplyLost(h)
        PROVE  LockTypeOK'
    BY <2>4 DEF AttemptReplyLost, ReplyLost, SetNX
  <2>5. ASSUME NEW h \in Holder, Release(h)
        PROVE  LockTypeOK'
    BY <2>5 DEF Release, Released, Unlock
  <2>6. ASSUME NEW h \in Holder, HolderDies(h)
        PROVE  LockTypeOK'
    BY <2>6 DEF HolderDies
  <2>7. ASSUME NEW k \in Key, TTLExpires(k)
        PROVE  LockTypeOK'
    BY <2>7 DEF TTLExpires, KeyExpires
  <2>8. CASE UNCHANGED lockVars
    BY <2>8 DEF lockVars
  <2> QED BY <2>1, <2>2, <2>3, <2>4, <2>5, <2>6, <2>7, <2>8 DEF LockNext
<1> QED BY <1>1, <1>2, PTL DEF LockSpec

(***************************************************************************)
(* A caller within its ttl owns its key.  The step that matters is         *)
(* Release: the script compares the value, so it cannot take the key of    *)
(* the caller that followed an expired one.                                *)
(***************************************************************************)
THEOREM UnexpiredHolderOwnsKey == LockSpec => []UnexpiredOwnsKey
<1> USE NoHolderAssumption DEF UnexpiredOwnsKey, LockTypeOK, LockTableTypeOK, Free
<1>1. LockInit => UnexpiredOwnsKey
  BY DEF LockInit
<1>2. LockTypeOK /\ UnexpiredOwnsKey /\ [LockNext]_lockVars => UnexpiredOwnsKey'
  <2> SUFFICES ASSUME LockTypeOK, UnexpiredOwnsKey, [LockNext]_lockVars,
                      LockMode = "redis"
               PROVE  UnexpiredOwnsKey'
    OBVIOUS
  <2>1. ASSUME NEW h \in Holder, NEW k \in Key, AcquireInventoryLock(h, k)
        PROVE  UnexpiredOwnsKey'
    BY <2>1 DEF AcquireInventoryLock
  <2>2. ASSUME NEW h \in Holder, AttemptSucceeds(h)
        PROVE  UnexpiredOwnsKey'
    BY <2>2 DEF AttemptSucceeds, Granted, SetNX
  <2>3. ASSUME NEW h \in Holder, AttemptFails(h)
        PROVE  UnexpiredOwnsKey'
    BY <2>3 DEF AttemptFails, Refused
  <2>4. ASSUME NEW h \in Holder, AttemptReplyLost(h)
        PROVE  UnexpiredOwnsKey'
    BY <2>4 DEF AttemptReplyLost, ReplyLost, SetNX
  <2>5. ASSUME NEW h \in Holder, Release(h)
        PROVE  UnexpiredOwnsKey'
    <3>1. \A k \in Key, g \in Holder : g # h /\ lockKey[k] = g => lockKey'[k] = g
      BY <2>5 DEF Release, Released, Unlock
    <3>2. phase' = [phase EXCEPT ![h] = "idle"] /\ UNCHANGED <<want, expired>>
      BY <2>5 DEF Release
    <3> QED BY <3>1, <3>2
  <2>6. ASSUME NEW h \in Holder, HolderDies(h)
        PROVE  UnexpiredOwnsKey'
    BY <2>6 DEF HolderDies
  <2>7. ASSUME NEW k \in Key, TTLExpires(k)
        PROVE  UnexpiredOwnsKey'
    BY <2>7 DEF TTLExpires, KeyExpires, InSection
  <2>8. CASE UNCHANGED lockVars
    BY <2>8 DEF lockVars
  <2> QED BY <2>1, <2>2, <2>3, <2>4, <2>5, <2>6, <2>7, <2>8 DEF LockNext
<1> QED BY <1>1, <1>2, RedisLockTypeOK, PTL DEF LockSpec

(***************************************************************************)
(* Mutual exclusion up to expiry: two callers in one critical section      *)
(* means the key of one of them expired under it.                          *)
(***************************************************************************)
THEOREM MutualExclusionUpToExpiry == LockSpec => []OverlapNeedsExpiry
<1>1. UnexpiredOwnsKey => OverlapNeedsExpiry
  BY DEF UnexpiredOwnsKey, OverlapNeedsExpiry, InSection
<1> QED BY <1>1, UnexpiredHolderOwnsKey, PTL

(***************************************************************************)
(* Keys are leases: whoever is let in found the key free, and a caller     *)
(* within its ttl would own it.  Asking, failing and losing replies change *)
(* nothing anybody in a section would notice.                              *)
(***************************************************************************)
Inside == {p \in Holder \X Key : InSection(p[1], p[2])}
Overrunning == {h \in expired : phase[h] = "holding"}

(* One caller goes in.                                                     *)
LEMMA OneEnters ==
  ASSUME LockTypeOK, NEW h \in Holder, phase[h] # "holding",
         phase' = [phase EXCEPT ![h] = "holding"], UNCHANGED want
  PROVE  Inside' = Inside \cup {<<h, want[h]>>}
<1>1. /\ phase'[h] = "holding" /\ want' = want /\ want[h] \in Key
      /\ \A g \in Holder \ {h} : phase'[g] = phase[g]
  BY DEF LockTypeOK
<1>2. \A q \in Holder \X Key : q[1] # h => (q \in Inside' <=> q \in Inside)
  BY <1>1 DEF Inside, InSection
<1>3. \A q \in Holder \X Key : q[1] = h => (q \in Inside' <=> q = <<h, want[h]>>)
  BY <1>1 DEF Inside, InSection
<1>4. \A q \in Holder \X Key : q[1] = h => q \notin Inside
  BY DEF Inside, InSection
<1>5. Inside' \subseteq Holder \X Key /\ Inside \subseteq Holder \X Key
  BY DEF Inside
<1> QED BY <1>1, <1>2, <1>3, <1>4, <1>5

(* One caller goes out.                                                    *)
LEMMA OneLeaves ==
  ASSUME LockTypeOK, NEW h \in Holder,
         phase' = [phase EXCEPT ![h] = "idle"], UNCHANGED want
  PROVE  Inside' = {q \in Inside : q[1] # h}
<1>1. /\ phase'[h] = "idle" /\ want' = want
      /\ \A g \in Holder \ {h} : phase'[g] = phase[g]
  BY DEF LockTypeOK
<1>2. \A q \in Holder \X Key : q[1] # h => (q \in Inside' <=> q \in Inside)
  BY <1>1 DEF Inside, InSection
<1>3. \A q \in Holder \X Key : q[1] = h => q \notin Inside'
  BY <1>1 DEF Inside, InSection
<1>4. Inside' \subseteq Holder \X Key /\ Inside \subseteq Holder \X Key
  BY DEF Inside
<1> QED BY <1>2, <1>3, <1>4

(* Whoever is still trying has no lease to overrun.                         *)
TryingIsFresh == \A h \in Holder : phase[h] = "trying" => h \notin expired

LEMMA TryingStaysFresh == LockSpec => []TryingIsFresh
<1>1. LockInit => TryingIsFresh
  BY DEF LockInit, TryingIsFresh
<1>2. LockTypeOK /\ TryingIsFresh /\ [LockNext]_lockVars => TryingIsFresh'
  BY DEF LockTypeOK, TryingIsFresh, LockNext, lockVars, AcquireInventoryLock, AttemptSucceeds,
         AttemptFails, AttemptReplyLost, Release, HolderDies, TTLExpires, InSection
<1> QED BY <1>1, <1>2, RedisLockTypeOK, PTL DEF LockSpec

(* Every step is a step of the leases or one they do not see.               *)
LEMMA StepLeases ==
  ASSUME LockMode = "redis", LockTypeOK, UnexpiredOwnsKey, TryingIsFresh, [LockNext]_lockVars
  PROVE  [Leases!Next]_<<Inside, Overrunning>>
<1> USE DEF LockTypeOK
<1>0. Inside' = Inside /\ Overrunning' = Overrunning => [Leases!Next]_<<Inside, Overrunning>>
  OBVIOUS
<1>1. ASSUME NEW h \in Holder, NEW k \in Key, AcquireInventoryLock(h, k)
      PROVE  [Leases!Next]_<<Inside, Overrunning>>
  <2>0. /\ phase[h] = "idle" /\ phase' = [phase EXCEPT ![h] = "trying"]
        /\ want' = [want EXCEPT ![h] = k] /\ expired' = expired \ {h}
    BY <1>1 DEF AcquireInventoryLock
  <2>1. \A g \in Holder : phase'[g] = "holding" <=> phase[g] = "holding"
    BY <2>0
  <2>2. \A g \in Holder : phase[g] = "holding" =>
            want'[g] = want[g] /\ (g \in expired' <=> g \in expired)
    BY <2>0
  <2>3. expired' \subseteq Holder
    BY <2>0
  <2>4. Inside' = Inside
    BY <2>1, <2>2 DEF Inside, InSection
  <2>5. Overrunning' = Overrunning
    BY <2>1, <2>2, <2>3 DEF Overrunning
  <2> QED BY <1>0, <2>4, <2>5
<1>2. ASSUME NEW h \in Holder, AttemptSucceeds(h)
      PROVE  [Leases!Next]_<<Inside, Overrunning>>
  <2> DEFINE k == want[h]
  <2>1. /\ phase[h] = "trying" /\ k \in Key /\ lockKey[k] = NoHolder
        /\ phase' = [phase EXCEPT ![h] = "holding"] /\ UNCHANGED <<want, expired>>
    BY <1>2 DEF AttemptSucceeds, Granted, SetNX, Free
  <2>0. UNCHANGED want
    BY <2>1
  <2>2. Inside' = Inside \cup {<<h, k>>}
    BY <2>0, <2>1, OneEnters
  <2>3. \A t \in Key : <<h, t>> \notin Inside
    BY <2>1 DEF Inside, InSection
  <2>4. \A d \in Holder \ Overrunning : <<d, k>> \notin Inside
    BY <2>1, NoHolderAssumption DEF Inside, InSection, Overrunning, UnexpiredOwnsKey
  <2>5. Overrunning' = Overrunning
    BY <2>1 DEF Overrunning, TryingIsFresh
  <2> HIDE DEF k
  <2>6. Leases!Enter(h, k)
    BY <2>2, <2>3, <2>4, <2>5 DEF Leases!Enter, Inside, Overrunning
  <2> QED BY <2>1, <2>6 DEF Leases!Next
<1>3. ASSUME NEW h \in Holder, phase[h] = "trying", phase' = phase \/ phase' = [phase EXCEPT ![h] = "idle"],
             UNCHANGED <<want, expired>>
      PROVE  [Leases!Next]_<<Inside, Overrunning>>
  <2>1. \A g \in Holder : phase'[g] = "holding" <=> phase[g] = "holding"
    BY <1>3
  <2>2. want' = want /\ expired' = expired /\ expired \subseteq Holder
    BY <1>3
  <2>3. Inside' = Inside
    BY <2>1, <2>2 DEF Inside, InSection
  <2>4. Overrunning' = Overrunning
    BY <2>1, <2>2 DEF Overrunning
  <2> QED BY <1>0, <2>3, <2>4
<1>4. ASSUME NEW h \in Holder, phase' = [phase EXCEPT ![h] = "idle"], UNCHANGED <<want, expired>>
      PROVE  [Leases!Next]_<<Inside, Overrunning>>
  <2>0. UNCHANGED want
    BY <1>4
  <2>1. Inside' = {q \in Inside : q[1] # h}
    BY <1>4, <2>0, OneLeaves
  <2>2. Overrunning' = Overrunning \ {h}
    BY <1>4 DEF Overrunning
  <2>3. Leases!Leave(h)
    BY <2>1, <2>2 DEF Leases!Leave, Inside, Overrunning
  <2> QED BY <2>3 DEF Leases!Next
<1>5. ASSUME NEW k \in Key, TTLExpires(k)
      PROVE  [Leases!Next]_<<Inside, Overrunning>>
  <2>1. /\ expired' = expired \cup {h \in Holder : InSection(h, k) /\ lockKey[k] = h}
        /\ UNCHANGED <<phase, want>>
    BY <1>5 DEF TTLExpires
  <2>2. Inside' = Inside
    BY <2>1 DEF Inside, InSection
  <2>3. CASE \E h \in Holder : InSection(h, k) /\ lockKey[k] = h
    <3>1. PICK h \in Holder : InSection(h, k) /\ lockKey[k] = h
      BY <2>3
    <3>2. expired' = expired \cup {h}
      BY <2>1, <3>1
    <3>3. Overrunning' = Overrunning \cup {h} /\ <<h, k>> \in Inside
      BY <2>1, <3>1, <3>2 DEF Overrunning, Inside, InSection
    <3>4. Leases!Overrun(h)
      BY <2>2, <3>3 DEF Leases!Overrun, Inside, Overrunning
    <3> QED BY <3>4 DEF Leases!Next
  <2>4. CASE ~ \E h \in Holder : InSection(h, k) /\ lockKey[k] = h
    <3>1. expired' = expired
      BY <2>1, <2>4
    <3> QED BY <1>0, <2>1, <2>2, <3>1 DEF Overrunning
  <2> QED BY <2>3, <2>4
<1>6. ASSUME NEW h \in Holder, AttemptFails(h) \/ AttemptReplyLost(h)
      PROVE  [Leases!Next]_<<Inside, Overrunning>>
  BY <1>3, <1>6 DEF AttemptFails, AttemptReplyLost
<1>7. ASSUME NEW h \in Holder, Release(h) \/ HolderDies(h)
      PROVE  [Leases!Next]_<<Inside, Overrunning>>
  BY <1>4, <1>7 DEF Release, HolderDies
<1>8. CASE UNCHANGED lockVars
  BY <1>0, <1>8 DEF lockVars, Inside, InSection, Overrunning
<1> QED BY <1>1, <1>2, <1>5, <1>6, <1>7, <1>8 DEF LockNext

(***************************************************************************)
(* With Redis, Acquire and Release implement leases on the sections, for   *)
(* any callers, keys, retries and faults.                                  *)
(***************************************************************************)
THEOREM LocksAreLeases ==
  ASSUME LockMode = "redis"
  PROVE  LockSpec => KeysAreLeases
<1>1. LockInit => Leases!Init
  BY DEF LockInit, Leases!Init, InSection
<1>2. LockTypeOK /\ UnexpiredOwnsKey /\ TryingIsFresh /\ [LockNext]_lockVars => [Leases!Next]_(Leases!leaseVars)
  BY StepLeases DEF Leases!leaseVars, Inside, Overrunning
<1> QED BY <1>1, <1>2, RedisLockTypeOK, UnexpiredHolderOwnsKey, TryingStaysFresh, PTL
       DEF LockSpec, KeysAreLeases, Leases!Spec

-----------------------------------------------------------------------------
(***************************************************************************)
(* ExportWorker, for any tasks, capacity, poll limit and number of mishaps.*)
(*                                                                         *)
(* The properties hold whatever the channel and the polls contain, since   *)
(* the worker looks at the status of a task before it does anything: the   *)
(* invariant says nothing of queue, handed, polled and born.               *)
(***************************************************************************)

StoreOK ==
  /\ status \in [Task -> {"none", "pending", "running"} \cup Ended]
  /\ file \in [Task -> {"absent", "partial", "complete"}]
  /\ downloads \subseteq Task
  /\ generated \in [Task -> Nat]
  /\ mishaps \in Nat

Executing(t) == \E label \in Labels \ {"find"} : worker = WorkerAt(label, t)
Generating(t) == \E label \in {"write", "saveCompleted", "saveFailed"} : worker = WorkerAt(label, t)

\* The worker executes only tasks that did not end, and is about to complete
\* one only with its file written.
WorkerKnowsTask ==
  \A t \in Task : /\ Executing(t) => status[t] \in {"pending", "running"}
                  /\ worker = WorkerAt("saveCompleted", t) => file[t] = "complete"

CompletedHaveFiles ==
  \A t \in Task : /\ status[t] = "completed" => file[t] = "complete"
                  /\ t \in downloads => status[t] = "completed"

\* One generation is paid for by the end of the task or is under way, every
\* other one by a mishap.
GenerationsPaid ==
  \A t \in Task : /\ generated[t] <= mishaps + 1
                  /\ status[t] \notin Ended /\ ~ Generating(t) => generated[t] <= mishaps

ExportInv == StoreOK /\ WorkerKnowsTask /\ CompletedHaveFiles /\ GenerationsPaid

\* The worker is idle, or at one statement with one task.
LEMMA WorkerStates ==
  /\ \A label, t : WorkerAt(label, t) # WorkerIdle
  /\ \A label, t, other, u : WorkerAt(label, t) = WorkerAt(other, u) => label = other /\ t = u
BY DEF WorkerAt, WorkerIdle

\* An update of a task by the worker that executes it, applied or not.
LEMMA UpdateTaskEffect ==
  ASSUME NEW t \in Task, NEW s, NEW then, UpdateTask(t, s, then), StoreOK
  PROVE  /\ \/ status' = [status EXCEPT ![t] = s] /\ worker' = then /\ mishaps' = mishaps
            \/ status' = [status EXCEPT ![t] = s] /\ worker' = WorkerIdle /\ mishaps' = mishaps + 1
            \/ status' = status /\ worker' = WorkerIdle /\ mishaps' = mishaps + 1
         /\ UNCHANGED downloads
BY DEF UpdateTask, Mishap

(***************************************************************************)
(* The invariant is inductive.  The steps that matter: FindTask admits     *)
(* only tasks that did not end, so no step of an execution touches the     *)
(* file or the status of an ended task; and every way back to WorkerIdle before  *)
(* the end of a task counts as a mishap.                                   *)
(***************************************************************************)
THEOREM ExportInvariant == ExportSpec => []ExportInv
<1> USE DEF ExportInv, StoreOK, WorkerKnowsTask, CompletedHaveFiles, GenerationsPaid,
            Executing, Generating, Labels, Ended
<1> USE WorkerStates
<1>1. ExportInit => ExportInv
  BY DEF ExportInit
<1>2. ExportInv /\ [ExportNext]_exportVars => ExportInv'
  <2> SUFFICES ASSUME ExportInv, [ExportNext]_exportVars
               PROVE  ExportInv'
    OBVIOUS
  <2>1. ASSUME NEW t \in Task, CreateTask(t)
        PROVE  ExportInv'
    BY <2>1 DEF CreateTask
  <2>2. ASSUME NEW t \in Task, EnqueueCreated(t)
        PROVE  ExportInv'
    BY <2>2 DEF EnqueueCreated
  <2>3. ASSUME NEW t \in Task, DownloadTask(t)
        PROVE  ExportInv'
    BY <2>3 DEF DownloadTask, MayDownload, memory
  <2>4. CASE Poll
    BY <2>4 DEF Poll, Mishap
  <2>5. CASE EnqueuePolled
    BY <2>5 DEF EnqueuePolled
  <2>6. CASE Dequeue
    BY <2>6 DEF Dequeue
  <2>7. ASSUME NEW t \in Task, FindTask(t)
        PROVE  ExportInv'
    BY <2>7 DEF FindTask, Executable, Mishap
  <2>8. ASSUME NEW t \in Task, StartTask(t)
        PROVE  ExportInv'
    BY <2>8, UpdateTaskEffect DEF StartTask
  <2>9. ASSUME NEW t \in Task, Generate(t)
        PROVE  ExportInv'
    BY <2>9 DEF Generate
  <2>10. ASSUME NEW t \in Task, WriteFile(t)
         PROVE  ExportInv'
    BY <2>10 DEF WriteFile
  <2>11. ASSUME NEW t \in Task, CompleteTask(t)
         PROVE  ExportInv'
    BY <2>11, UpdateTaskEffect DEF CompleteTask
  <2>12. ASSUME NEW t \in Task, FailTask(t)
         PROVE  ExportInv'
    BY <2>12, UpdateTaskEffect DEF FailTask
  <2>13. CASE Crash
    BY <2>13 DEF Crash, Mishap
  <2>14. CASE UNCHANGED exportVars
    BY <2>14 DEF exportVars
  <2> QED BY <2>1, <2>2, <2>3, <2>4, <2>5, <2>6, <2>7, <2>8, <2>9, <2>10, <2>11, <2>12,
             <2>13, <2>14 DEF ExportNext
<1> QED BY <1>1, <1>2, PTL DEF ExportSpec

(***************************************************************************)
(* What a user can download is complete: duplicates, restarts and retries  *)
(* never truncate the file of a completed task.                            *)
(***************************************************************************)
THEOREM CompletedTasksHaveFiles == ExportSpec => []DownloadsAreComplete
<1>1. ExportInv => DownloadsAreComplete
  BY DEF ExportInv, CompletedHaveFiles, DownloadsAreComplete
<1> QED BY <1>1, ExportInvariant, PTL

(***************************************************************************)
(* A file is generated once, and once more for each mishap, however often  *)
(* its task is enqueued.                                                   *)
(***************************************************************************)
THEOREM FilesAreGeneratedOnce == ExportSpec => []GeneratedOnce
<1>1. ExportInv => GeneratedOnce
  <2> SUFFICES ASSUME ExportInv, NEW t \in Task
               PROVE  generated[t] <= 1 + mishaps
    BY DEF GeneratedOnce
  <2>1. generated[t] \in Nat /\ mishaps \in Nat
    BY DEF ExportInv, StoreOK
  <2>2. generated[t] <= mishaps \/ generated[t] <= mishaps + 1
    BY DEF ExportInv, GenerationsPaid
  <2> QED BY <2>1, <2>2
<1> QED BY <1>1, ExportInvariant, PTL

(***************************************************************************)
(* The outcome of a task is final: only an execution updates a status, and *)
(* an execution has a task that did not end.                               *)
(***************************************************************************)
THEOREM OutcomesAreFinal == ExportSpec => EndedIsFinal
<1>1. ExportInv /\ [ExportNext]_exportVars =>
        [\A t \in Task : status[t] \in Ended => status'[t] = status[t]]_exportVars
  <2> SUFFICES ASSUME ExportInv, ExportNext, NEW u \in Task, status[u] \in Ended
               PROVE  status'[u] = status[u]
    BY DEF exportVars
  <2> USE DEF ExportInv, StoreOK, WorkerKnowsTask, Executing, Labels, Ended
  <2>1. ASSUME NEW t \in Task, CreateTask(t)
        PROVE  status'[u] = status[u]
    BY <2>1 DEF CreateTask
  <2>2. ASSUME NEW t \in Task, StartTask(t) \/ CompleteTask(t) \/ FailTask(t)
        PROVE  status'[u] = status[u]
    <3>1. t # u
      BY <2>2 DEF StartTask, CompleteTask, FailTask
    <3>2. \E s, then : UpdateTask(t, s, then)
      BY <2>2 DEF StartTask, CompleteTask, FailTask
    <3> QED BY <3>1, <3>2, UpdateTaskEffect
  <2>3. CASE UNCHANGED status
    BY <2>3
  <2> QED BY <2>1, <2>2, <2>3
      DEF ExportNext, EnqueueCreated, DownloadTask, Poll, EnqueuePolled, Dequeue, FindTask,
          Generate, WriteFile, Crash
<1> QED BY <1>1, ExportInvariant, PTL DEF ExportSpec, EndedIsFinal

-----------------------------------------------------------------------------
(***************************************************************************)
(* Billing, for any operators, schedulers, plans, periods and bounds.      *)
(* Operators and schedulers write back whole rows they read some time ago; *)
(* the invariants therefore speak of the copies in memory as they do of    *)
(* the table.                                                              *)
(***************************************************************************)

SubscriptionRow ==
    [plan : Plans, cycle : {"monthly", "yearly"}, status : {"active", "past_due", "suspended"},
     from : Int, to : Int, grace : Int]

(***************************************************************************)
(* The rows that do not contradict themselves at moment t.                 *)
(***************************************************************************)
Fitting(t) ==
    {row \in SubscriptionRow :
        /\ row.status = "active" => row.grace = None
        /\ row.status \in {"past_due", "suspended"} =>
               HasPeriod(row) /\ row.grace = row.to + Grace /\ t > row.to
        /\ row.status = "suspended" => t > row.grace}

WithRow == {"renew", "charge", "upgrade", "downgrade", "change"}

StoreFits  == now \in Nat /\ subs \in Seq(Fitting(now))
CallsFit   == \A o \in Operators : calls[o].at \in WithRow => calls[o].row \in Fitting(now)
PassesFit  == passes \in [Schedulers -> Seq([sub : Nat, row : Fitting(now)])]
FitInv     == DOMAIN calls = Operators /\ StoreFits /\ CallsFit /\ PassesFit

(***************************************************************************)
(* A row that fits goes on fitting while time passes.                      *)
(***************************************************************************)
LEMMA FittingLasts ==
    ASSUME NEW t \in Nat
    PROVE  Fitting(t) \subseteq Fitting(t + 1)
BY PeriodsAssumption DEF Fitting, SubscriptionRow, None

(***************************************************************************)
(* What saving, a renewal and a pass make of a row that fits, fits.        *)
(***************************************************************************)
LEMMA ReplannedFits ==
    ASSUME NEW t \in Nat, NEW row \in Fitting(t), NEW plan \in Plans
    PROVE  [row EXCEPT !.plan = plan] \in Fitting(t)
<1>1. row \in SubscriptionRow
  BY DEF Fitting
<1> DEFINE new == [row EXCEPT !.plan = plan]
<1>2. /\ new \in SubscriptionRow
      /\ new.status = row.status /\ new.to = row.to /\ new.grace = row.grace
  BY <1>1 DEF SubscriptionRow
<1> HIDE DEF new
<1>3. new \in Fitting(t)
  BY <1>2 DEF Fitting, HasPeriod
<1> QED BY <1>3 DEF new

(* A renewed subscription has a period, and a grace end, that fit.          *)
LEMMA RenewedFits ==
    ASSUME NEW t \in Nat, NEW row \in Fitting(t), now \in Nat
    PROVE  Renewed(row) \in Fitting(t)
<1>1. row \in SubscriptionRow
  BY DEF Fitting
<1> DEFINE start == IF HasPeriod(row) THEN row.to ELSE now
           end   == start + Length(row.cycle)
<1>2. end \in Int /\ start \in Int /\ None \in Int
  BY <1>1, PeriodsAssumption DEF SubscriptionRow, Length, None
<1> DEFINE new == [row EXCEPT !.from = start, !.to = end, !.status = "active", !.grace = None]
<1>3. Renewed(row) = new
  BY DEF Renewed
<1> HIDE DEF start, end
<1>4. new \in SubscriptionRow /\ new.status = "active" /\ new.grace = None
  BY <1>1, <1>2 DEF SubscriptionRow
<1>5. Renewed(row) \in SubscriptionRow /\ Renewed(row).status = "active" /\ Renewed(row).grace = None
  BY <1>3, <1>4
<1> QED BY <1>5 DEF Fitting

(* The scheduler's change of a subscription leaves one that fits the time.  *)
LEMMA ProcessedFits ==
    ASSUME now \in Nat, NEW row \in Fitting(now)
    PROVE  Processed(row) \in Fitting(now)
<1>1. row \in SubscriptionRow
  BY DEF Fitting
<1>2. CASE HasPeriod(row) /\ Due(row)
  <2> DEFINE end == row.to + Grace
             new == [row EXCEPT !.status = "past_due", !.grace = end]
  <2>0. end \in Int
    BY <1>1, PeriodsAssumption DEF SubscriptionRow
  <2> HIDE DEF end
  <2>1. /\ new \in SubscriptionRow /\ new.status = "past_due"
        /\ new.to = row.to /\ new.grace = end
    BY <1>1, <2>0 DEF SubscriptionRow
  <2> HIDE DEF new
  <2>2. new \in Fitting(now)
    BY <1>2, <2>1 DEF Fitting, HasPeriod, Due, end
  <2> QED BY <1>2, <2>2 DEF new, end, Processed
<1>3. CASE HasPeriod(row) /\ ~Due(row) /\ Lapsed(row)
  <2> DEFINE new == [row EXCEPT !.status = "suspended"]
  <2>1. /\ new \in SubscriptionRow /\ new.status = "suspended"
        /\ new.to = row.to /\ new.grace = row.grace
    BY <1>1 DEF SubscriptionRow
  <2> HIDE DEF new
  <2>2. new \in Fitting(now)
    BY <1>3, <2>1 DEF Fitting, HasPeriod, Lapsed
  <2> QED BY <1>3, <2>2 DEF new, Processed
<1> QED BY <1>2, <1>3 DEF Processed

(* The scheduler does not move the period of a subscription.                *)
LEMMA ProcessedKeepsPeriod ==
    ASSUME NEW row \in SubscriptionRow
    PROVE  /\ Processed(row) \in SubscriptionRow
           /\ Processed(row).from = row.from /\ Processed(row).to = row.to
<1>1. row.to + Grace \in Int
  BY PeriodsAssumption DEF SubscriptionRow
<1>2. \A g \in Int : LET new == [row EXCEPT !.status = "past_due", !.grace = g]
                     IN  new \in SubscriptionRow /\ new.from = row.from /\ new.to = row.to
  BY DEF SubscriptionRow
<1>3. LET new == [row EXCEPT !.status = "suspended"]
      IN  new \in SubscriptionRow /\ new.from = row.from /\ new.to = row.to
  BY DEF SubscriptionRow
<1> QED BY <1>1, <1>2, <1>3 DEF Processed

(***************************************************************************)
(* Replacing an element of a sequence, or none, leaves a sequence.         *)
(***************************************************************************)
LEMMA ReplacedInSequence ==
    ASSUME NEW R, NEW q \in Seq(R), NEW i, NEW e, i \in DOMAIN q => e \in R
    PROVE  [q EXCEPT ![i] = e] \in Seq(R)
<1>1. ASSUME i \in DOMAIN q
      PROVE  [q EXCEPT ![i] = e] \in Seq(R)
  <2>1. i \in 1..Len(q) /\ e \in R
    BY <1>1
  <2> QED BY <2>1, ExceptSeq
<1>2. ASSUME i \notin DOMAIN q
      PROVE  [q EXCEPT ![i] = e] = q
  <2>1. q = [j \in DOMAIN q |-> q[j]]
    OBVIOUS
  <2>2. [q EXCEPT ![i] = e] = [j \in DOMAIN q |-> IF j = i THEN e ELSE q[j]]
    BY <2>1
  <2>3. [j \in DOMAIN q |-> IF j = i THEN e ELSE q[j]] = [j \in DOMAIN q |-> q[j]]
    BY <1>2
  <2> QED BY <2>1, <2>2, <2>3
<1> QED BY <1>1, <1>2

(***************************************************************************)
(* Saving a row that fits leaves a table that fits.                        *)
(***************************************************************************)
LEMMA SavingFits ==
    ASSUME StoreFits, NEW s, NEW row \in Fitting(now), SaveSubscription(s, row), now' = now
    PROVE  StoreFits'
<1> DEFINE saved == [row EXCEPT !.plan = subs[s].plan]
<1>1. subs' = [subs EXCEPT ![s] = saved]
  BY DEF SaveSubscription
<1>2. ASSUME s \in DOMAIN subs
      PROVE  saved \in Fitting(now)
  <2>1. subs[s] \in Fitting(now)
    BY <1>2 DEF StoreFits
  <2>2. subs[s].plan \in Plans
    BY <2>1 DEF Fitting, SubscriptionRow
  <2> QED BY <2>2, ReplannedFits DEF StoreFits
<1> HIDE DEF saved
<1>3. subs' \in Seq(Fitting(now))
  BY <1>1, <1>2, ReplacedInSequence DEF StoreFits
<1> QED BY <1>3 DEF StoreFits

(***************************************************************************)
(* A step that leaves time and passes alone and moves one call on.         *)
(***************************************************************************)
LEMMA CallsGoOn ==
    ASSUME FitInv, NEW o \in Operators, NEW held, UNCHANGED <<now, passes>>,
           calls' = [calls EXCEPT ![o] = held],
           held.at \in WithRow => held.row \in Fitting(now), StoreFits'
    PROVE  FitInv'
BY DEF FitInv, CallsFit, PassesFit

(***************************************************************************)
(* Schedulers, renewals and changes of plan write old rows over new ones,  *)
(* and yet no row ever contradicts itself.                                 *)
(***************************************************************************)
THEOREM FitInvariant == BillingSpec => []FitInv
<1>1. BillingInit => FitInv
  BY DEF BillingInit, FitInv, StoreFits, CallsFit, PassesFit, WithRow, Idle
<1>2. FitInv /\ [BillingNext]_billingVars => FitInv'
  <2> SUFFICES ASSUME FitInv, [BillingNext]_billingVars
               PROVE  FitInv'
    OBVIOUS
  <2>0. (UNCHANGED <<now, subs>>) => StoreFits'
    BY DEF FitInv, StoreFits
  <2>1. CASE TimePasses
    <3>1. now' = now + 1 /\ UNCHANGED <<subs, calls, passes>>
      BY <2>1 DEF TimePasses
    <3>2. Fitting(now) \subseteq Fitting(now')
      BY <3>1, FittingLasts DEF FitInv, StoreFits
    <3>3. StoreFits'
      BY <3>1, <3>2 DEF FitInv, StoreFits
    <3>4. CallsFit'
      BY <3>1, <3>2 DEF FitInv, CallsFit
    <3>5. PassesFit'
      <4>1. [sub : Nat, row : Fitting(now)] \subseteq [sub : Nat, row : Fitting(now')]
        BY <3>2
      <4>2. \A S, T : S \subseteq T => Seq(S) \subseteq Seq(T)
        OBVIOUS
      <4>3. Seq([sub : Nat, row : Fitting(now)]) \subseteq Seq([sub : Nat, row : Fitting(now')])
        BY <4>1, <4>2
      <4> QED BY <3>1, <4>3 DEF FitInv, PassesFit
    <3> QED BY <3>1, <3>3, <3>4, <3>5 DEF FitInv
  <2>2. ASSUME NEW o \in Operators, NEW plan \in Plans, NEW cycle \in Cycles,
               Subscribe(o, plan, cycle)
        PROVE  FitInv'
    <3> DEFINE row == [plan |-> plan, cycle |-> cycle, status |-> "active",
                       from |-> now, to |-> now + Length(cycle), grace |-> None]
               held == [at |-> "charge", sub |-> Len(subs) + 1, row |-> row]
    <3>1. row \in Fitting(now)
      BY PeriodsAssumption DEF FitInv, StoreFits, Fitting, SubscriptionRow, Length, None
    <3>2. calls' = [calls EXCEPT ![o] = held] /\ UNCHANGED <<now, passes>> /\ subs' = Append(subs, row)
      BY <2>2 DEF Subscribe, Begin
    <3>3. held.row = row
      OBVIOUS
    <3> HIDE DEF row, held
    <3>4. StoreFits'
      BY <3>1, <3>2 DEF FitInv, StoreFits
    <3> QED BY <3>1, <3>2, <3>3, <3>4, CallsGoOn
  <2>13. ASSUME NEW o \in Operators, NEW plan \in Plans, CreateSubscription(o, plan)
         PROVE  FitInv'
    <3> DEFINE row == [plan |-> plan, cycle |-> "monthly", status |-> "active",
                       from |-> None, to |-> None, grace |-> None]
    <3>1. row \in Fitting(now)
      BY PeriodsAssumption DEF Fitting, SubscriptionRow, None
    <3>2. UNCHANGED <<now, calls, passes>> /\ subs' = Append(subs, row)
      BY <2>13 DEF CreateSubscription
    <3> HIDE DEF row
    <3>3. StoreFits'
      BY <3>1, <3>2 DEF FitInv, StoreFits
    <3> QED BY <3>2, <3>3 DEF FitInv, CallsFit, PassesFit
  <2>3. ASSUME NEW o \in Operators, NEW s \in Rows, StartRenew(o, s)
        PROVE  FitInv'
    <3>1. subs[s] \in Fitting(now)
      BY DEF FitInv, StoreFits, Rows
    <3>2. calls' = [calls EXCEPT ![o] = [at |-> "renew", sub |-> s, row |-> subs[s]]]
          /\ UNCHANGED <<now, subs, passes>>
      BY <2>3 DEF StartRenew, Begin
    <3> QED BY <2>0, <3>1, <3>2, CallsGoOn
  <2>4. ASSUME NEW o \in Operators, NEW s \in Rows, NEW plan \in Plans,
               NEW op \in {"upgrade", "downgrade"}, StartChange(o, s, plan, op)
        PROVE  FitInv'
    <3>1. subs[s] \in Fitting(now)
      BY DEF FitInv, StoreFits, Rows
    <3>2. calls' = [calls EXCEPT ![o] = [at |-> op, sub |-> s, row |-> subs[s], new |-> plan]]
          /\ UNCHANGED <<now, subs, passes>>
      BY <2>4 DEF StartChange, Begin
    <3> QED BY <2>0, <3>1, <3>2, CallsGoOn
  <2>5. ASSUME NEW o \in Operators, NEW b \in DOMAIN bills, StartRefund(o, b)
        PROVE  FitInv'
    <3>1. calls' = [calls EXCEPT ![o] = [at |-> "refund", bill |-> b]]
          /\ UNCHANGED <<now, subs, passes>>
      BY <2>5 DEF StartRefund, Begin
    <3> QED BY <2>0, <3>1, CallsGoOn DEF WithRow
  <2>6. ASSUME NEW o \in Operators, SaveRenewed(o)
        PROVE  FitInv'
    <3> DEFINE row == Renewed(calls[o].row)
    <3>1. calls[o].row \in Fitting(now)
      BY <2>6 DEF SaveRenewed, At, FitInv, CallsFit, WithRow
    <3>2. row \in Fitting(now)
      BY <3>1, RenewedFits DEF FitInv, StoreFits
    <3>3. calls' = [calls EXCEPT ![o].at = "charge", ![o].row = row]
          /\ UNCHANGED <<now, passes>>
          /\ (SaveSubscription(calls[o].sub, row) \/ UNCHANGED subs)
      BY <2>6 DEF SaveRenewed
    <3> HIDE DEF row
    <3>4. StoreFits'
      BY <2>0, <3>2, <3>3, SavingFits DEF FitInv
    <3>5. calls'[o].row \in {row, calls[o].row} /\ DOMAIN calls' = DOMAIN calls
          /\ \A p \in Operators \ {o} : calls'[p] = calls[p]
      BY <3>3 DEF FitInv
    <3> QED BY <3>1, <3>2, <3>3, <3>4, <3>5 DEF FitInv, CallsFit, PassesFit
  <2>7. ASSUME NEW o \in Operators, Charge(o) \/ SaveRefund(o) \/ CallDies(o)
        PROVE  FitInv'
    <3>1. calls' = [calls EXCEPT ![o] = Idle] /\ UNCHANGED <<now, subs, passes>>
      BY <2>7 DEF Charge, SaveRefund, CallDies, Ends
    <3> QED BY <2>0, <3>1, CallsGoOn DEF WithRow, Idle
  <2>8. ASSUME NEW o \in Operators, ChargeChange(o)
        PROVE  FitInv'
    <3>1. UNCHANGED <<now, subs, passes>>
      BY <2>8 DEF ChargeChange
    <3>2. CASE calls' = [calls EXCEPT ![o].at = "change"]
      <4>1. calls[o].row \in Fitting(now)
        BY <2>8 DEF ChargeChange, FitInv, CallsFit, WithRow
      <4>2. calls'[o].row = calls[o].row /\ DOMAIN calls' = DOMAIN calls
            /\ \A p \in Operators \ {o} : calls'[p] = calls[p]
        BY <3>2 DEF FitInv
      <4> QED BY <2>0, <3>1, <4>1, <4>2 DEF FitInv, CallsFit, PassesFit
    <3>3. CASE Ends(o)
      BY <2>0, <3>1, <3>3, CallsGoOn DEF Ends, WithRow, Idle
    <3> QED BY <2>8, <3>2, <3>3 DEF ChargeChange, Goes
  <2>9. ASSUME NEW o \in Operators, SaveChange(o)
        PROVE  FitInv'
    <3>1. calls[o].row \in Fitting(now)
      BY <2>9 DEF SaveChange, At, FitInv, CallsFit, WithRow
    <3>2. StoreFits'
      BY <2>0, <2>9, <3>1, SavingFits DEF SaveChange, FitInv
    <3> QED BY <2>9, <3>2, CallsGoOn DEF SaveChange, Ends, WithRow, Idle
  <2>10. ASSUME NEW k \in Schedulers, FindActiveOrPastDue(k)
         PROVE  FitInv'
    <3> DEFINE S == {s \in Rows : Lists(s)}
               Listed == [sub : Nat, row : Fitting(now)]
    <3>1. PICK listed \in SetToSeqs(S) : passes' = [passes EXCEPT ![k] =
               [i \in DOMAIN listed |-> [sub |-> listed[i], row |-> subs[listed[i]]]]]
      BY <2>10 DEF FindActiveOrPastDue
    <3>2. Rows = 1..Len(subs) /\ Len(subs) \in Nat
      BY DEF Rows, FitInv, StoreFits
    <3>3. Cardinality(S) \in Nat
      <4>1. IsFiniteSet(Rows)
        BY <3>2, FS_Interval
      <4> QED BY <4>1, FS_Subset, FS_CardinalityType
    <3>4. listed \in [1..Cardinality(S) -> S]
      BY <3>1 DEF SetToSeqs
    <3>5. \A s \in S : s \in Nat /\ subs[s] \in Fitting(now)
      BY <3>2 DEF FitInv, StoreFits
    <3> DEFINE n == Cardinality(S)
               pass == [i \in DOMAIN listed |-> [sub |-> listed[i], row |-> subs[listed[i]]]]
    <3> HIDE DEF S
    <3>6. pass \in [1..n -> Listed]
      BY <3>4, <3>5
    <3> HIDE DEF pass, Listed, n
    <3>7. pass \in Seq(Listed)
      BY <3>3, <3>6 DEF n
    <3>8. UNCHANGED <<now, subs, calls>> /\ passes' = [passes EXCEPT ![k] = pass]
      BY <2>10, <3>1 DEF FindActiveOrPastDue, pass
    <3>9. PassesFit'
      BY <3>7, <3>8 DEF FitInv, PassesFit, Listed
    <3> QED BY <2>0, <3>8, <3>9 DEF FitInv, CallsFit
  <2>11. ASSUME NEW k \in Schedulers, ProcessGracePeriod(k) \/ SaveFails(k) \/ PassDies(k)
         PROVE  FitInv'
    <3>1. UNCHANGED <<now, calls>>
      BY <2>11 DEF ProcessGracePeriod, SaveFails, PassDies, Passed
    <3> DEFINE Listed == [sub : Nat, row : Fitting(now)]
    <3>0. \A e \in Listed : e.row \in Fitting(now)
      OBVIOUS
    <3> HIDE DEF Listed
    <3>4. passes \in [Schedulers -> Seq(Listed)]
      BY DEF FitInv, PassesFit, Listed
    <3>2. StoreFits'
      <4>1. CASE UNCHANGED subs
        BY <2>0, <3>1, <4>1
      <4>2. CASE subs' # subs
        <5>1. ProcessGracePeriod(k)
          BY <2>11, <4>2 DEF SaveFails, PassDies
        <5>2. Head(passes[k]) \in Listed
          BY <3>4, <5>1 DEF ProcessGracePeriod, Passed
        <5>3. Processed(Head(passes[k]).row) \in Fitting(now)
          BY <3>0, <5>2, ProcessedFits DEF FitInv, StoreFits
        <5>4. SaveSubscription(Head(passes[k]).sub, Processed(Head(passes[k]).row))
          BY <4>2, <5>1 DEF ProcessGracePeriod
        <5> QED BY <3>1, <5>3, <5>4, SavingFits DEF FitInv
      <4> QED BY <4>1, <4>2
    <3>3. PassesFit'
      <4>1. \A q \in Seq(Listed) : q # <<>> => Tail(q) \in Seq(Listed)
        OBVIOUS
      <4>2. \/ passes' = [passes EXCEPT ![k] = <<>>]
            \/ /\ passes[k] # <<>>
               /\ passes' = [passes EXCEPT ![k] = Tail(passes[k])]
        BY <2>11 DEF ProcessGracePeriod, SaveFails, PassDies, Passed
      <4>3. passes[k] \in Seq(Listed) /\ <<>> \in Seq(Listed)
        BY <3>4
      <4>4. PICK q \in Seq(Listed) : passes' = [passes EXCEPT ![k] = q]
        BY <4>1, <4>2, <4>3, Zenon
      <4>5. passes' \in [Schedulers -> Seq(Listed)]
        BY <3>4, <4>4, Zenon
      <4> QED BY <3>1, <4>5 DEF PassesFit, Listed
    <3> QED BY <3>1, <3>2, <3>3 DEF FitInv, CallsFit
  <2>12. CASE UNCHANGED billingVars
    BY <2>0, <2>12 DEF billingVars, FitInv, CallsFit, PassesFit
  <2> QED BY <2>1, <2>2, <2>3, <2>4, <2>5, <2>6, <2>7, <2>8, <2>9, <2>10, <2>11, <2>12,
         <2>13 DEF BillingNext
<1> QED BY <1>1, <1>2, PTL DEF BillingSpec

(***************************************************************************)
(* Status, period and grace period of a subscription agree.                *)
(***************************************************************************)
THEOREM StatusesFitPeriods == BillingSpec => []StatusFitsPeriod
<1>1. FitInv => StatusFitsPeriod
  <2> SUFFICES ASSUME FitInv, NEW s \in Rows
               PROVE  LET row == subs[s] IN
                        /\ row.status = "active" => row.grace = None
                        /\ row.status \in {"past_due", "suspended"} =>
                               HasPeriod(row) /\ row.grace = row.to + Grace /\ now > row.to
                        /\ row.status = "suspended" => now > row.grace
    BY DEF StatusFitsPeriod
  <2>1. subs[s] \in Fitting(now)
    BY DEF FitInv, StoreFits, Rows
  <2> QED BY <2>1 DEF Fitting
<1> QED BY <1>1, FitInvariant, PTL

-----------------------------------------------------------------------------
(***************************************************************************)
(* A period is paid for: it was charged, its charge was refused by the     *)
(* database, or the call that is to charge it is about to.  There is       *)
(* nothing to pay for without one.                                         *)
(***************************************************************************)
PaidBy(o, s, from, to) ==
    At(o, "charge") /\ calls[o].sub = s /\ calls[o].row.from = from /\ calls[o].row.to = to

Paid(s, from, to) ==
    \/ to = None
    \/ \E b \in DOMAIN bills :
           /\ bills[b].sub = s /\ bills[b].type = "charge"
           /\ bills[b].from = from /\ bills[b].to = to
    \/ <<s, from>> \in refused
    \/ \E o \in Operators : PaidBy(o, s, from, to)

BillingRecord ==
    [sub : Nat, type : {"charge", "upgrade_charge", "downgrade_charge", "downgrade_credit"},
     status : {"pending", "refunded"}, from : Int, to : Int]
PaidCopies == {c \in [sub : Nat, row : SubscriptionRow] : Paid(c.sub, c.row.from, c.row.to)}

HasRow(held) == {"at", "sub", "row"} \subseteq DOMAIN held /\ held.sub \in Nat
BillsTypeOK ==
    bills \in Seq(BillingRecord) /\ \A o \in Operators : calls[o].at \in WithRow => HasRow(calls[o])
RowsPaid   == \A s \in Rows : Paid(s, subs[s].from, subs[s].to)
CallsPaid  == \A o \in Operators :
                 calls[o].at \in WithRow => Paid(calls[o].sub, calls[o].row.from, calls[o].row.to)
PassesPaid == passes \in [Schedulers -> Seq(PaidCopies)]
PaidInv    == BillsTypeOK /\ RowsPaid /\ CallsPaid /\ PassesPaid

(***************************************************************************)
(* A record, once inserted, keeps all but its status.                      *)
(***************************************************************************)
SameBill(b) ==
    /\ b \in DOMAIN bills'
    /\ bills'[b].sub = bills[b].sub /\ bills'[b].type = bills[b].type
    /\ bills'[b].from = bills[b].from /\ bills'[b].to = bills[b].to

(* Appending a bill keeps the bills there are and puts the new one last.    *)
LEMMA AppendedBills ==
    ASSUME BillsTypeOK, NEW bill \in BillingRecord, bills' = Append(bills, bill)
    PROVE  /\ bills' \in Seq(BillingRecord)
           /\ \A b \in DOMAIN bills : SameBill(b)
           /\ Len(bills) + 1 \in DOMAIN bills' /\ bills'[Len(bills) + 1] = bill
BY DEF BillsTypeOK, SameBill

(* A refund changes nothing of a bill but its status.                       *)
LEMMA RefundedBills ==
    ASSUME BillsTypeOK, NEW r, bills' = [bills EXCEPT ![r].status = "refunded"]
    PROVE  bills' \in Seq(BillingRecord) /\ \A b \in DOMAIN bills : SameBill(b)
<1> DEFINE refund == [bills[r] EXCEPT !.status = "refunded"]
<1>1. bills' = [bills EXCEPT ![r] = refund]
  OBVIOUS
<1>2. ASSUME r \in DOMAIN bills
      PROVE  /\ refund \in BillingRecord
             /\ refund.sub = bills[r].sub /\ refund.type = bills[r].type
             /\ refund.from = bills[r].from /\ refund.to = bills[r].to
  <2>1. bills[r] \in BillingRecord
    BY <1>2 DEF BillsTypeOK
  <2> QED BY <2>1 DEF BillingRecord
<1> HIDE DEF refund
<1>3. bills' \in Seq(BillingRecord)
  BY <1>1, <1>2, ReplacedInSequence DEF BillsTypeOK
<1>4. \A b \in DOMAIN bills : SameBill(b)
  BY <1>1, <1>2 DEF SameBill
<1> QED BY <1>3, <1>4

(* A charge of an operator ends in a bill for the period or is refused.     *)
LEMMA ChargeInserts ==
    ASSUME FitInv, BillsTypeOK, NEW o \in Operators, Charge(o)
    PROVE  /\ bills' \in Seq(BillingRecord)
           /\ \A b \in DOMAIN bills : SameBill(b)
           /\ refused \subseteq refused'
           /\ \/ <<calls[o].sub, calls[o].row.from>> \in refused'
              \/ \E b \in DOMAIN bills' :
                    /\ bills'[b].sub = calls[o].sub /\ bills'[b].type = "charge"
                    /\ bills'[b].from = calls[o].row.from /\ bills'[b].to = calls[o].row.to
<1> DEFINE bill == Bill(calls[o].sub, "charge", calls[o].row.from, calls[o].row.to)
<1>1. calls[o].row \in SubscriptionRow /\ calls[o].sub \in Nat
  BY DEF Charge, At, FitInv, CallsFit, Fitting, BillsTypeOK, HasRow, WithRow
<1>2. /\ bill \in BillingRecord
      /\ bill.sub = calls[o].sub /\ bill.type = "charge"
      /\ bill.from = calls[o].row.from /\ bill.to = calls[o].row.to
  <2>1. calls[o].row.from \in Int /\ calls[o].row.to \in Int
    BY <1>1 DEF SubscriptionRow
  <2> QED BY <1>1, <2>1 DEF Bill, BillingRecord
<1>3. CASE bills' = Append(bills, bill) /\ UNCHANGED refused
  <2> HIDE DEF bill
  <2> QED BY <1>2, <1>3, AppendedBills
<1>4. CASE UNCHANGED bills /\ refused' = refused \cup {<<calls[o].sub, calls[o].row.from>>}
  BY <1>4 DEF BillsTypeOK, SameBill
<1> QED BY <1>3, <1>4 DEF Charge, ChargesPeriod, CreateBillingRecord

(* A change of plan appends at most one bill and keeps those there are.     *)
LEMMA ChangeInserts ==
    ASSUME FitInv, BillsTypeOK, NEW o \in Operators, ChargeChange(o)
    PROVE  bills' \in Seq(BillingRecord) /\ \A b \in DOMAIN bills : SameBill(b)
<1> DEFINE bill == Bill(calls[o].sub, ChangeType(calls[o]), now, None)
<1>1. bill \in BillingRecord
  <2>1. calls[o].sub \in Nat /\ now \in Int /\ None \in Int
    BY DEF ChargeChange, FitInv, StoreFits, BillsTypeOK, HasRow, WithRow, None
  <2>2. ChangeType(calls[o]) \in {"upgrade_charge", "downgrade_charge", "downgrade_credit"}
    BY DEF ChangeType
  <2> QED BY <2>1, <2>2 DEF Bill, BillingRecord
<1>2. CASE bills' = Append(bills, bill)
  <2> HIDE DEF bill
  <2> QED BY <1>1, <1>2, AppendedBills
<1>3. CASE UNCHANGED bills
  BY <1>3 DEF BillsTypeOK, SameBill
<1> QED BY <1>2, <1>3 DEF ChargeChange, CreateBillingRecord

(***************************************************************************)
(* What every step does to records and refusals.                           *)
(***************************************************************************)
LEMMA BillsLast ==
    ASSUME FitInv, BillsTypeOK, [BillingNext]_billingVars
    PROVE  /\ bills' \in Seq(BillingRecord)
           /\ \A b \in DOMAIN bills : SameBill(b)
           /\ refused \subseteq refused'
<1>1. CASE UNCHANGED <<bills, refused>>
  BY <1>1 DEF BillsTypeOK, SameBill
<1>2. ASSUME NEW o \in Operators, Charge(o)
      PROVE  /\ bills' \in Seq(BillingRecord)
             /\ \A b \in DOMAIN bills : SameBill(b)
             /\ refused \subseteq refused'
  BY <1>2, ChargeInserts
<1>3. ASSUME NEW o \in Operators, ChargeChange(o)
      PROVE  /\ bills' \in Seq(BillingRecord)
             /\ \A b \in DOMAIN bills : SameBill(b)
             /\ refused \subseteq refused'
  BY <1>3, ChangeInserts DEF ChargeChange
<1>4. ASSUME NEW o \in Operators, SaveRefund(o)
      PROVE  /\ bills' \in Seq(BillingRecord)
             /\ \A b \in DOMAIN bills : SameBill(b)
             /\ refused \subseteq refused'
  <2>1. UNCHANGED refused
    BY <1>4 DEF SaveRefund
  <2>2. CASE UNCHANGED bills
    BY <1>1, <2>1, <2>2
  <2> QED BY <1>4, <2>1, <2>2, RefundedBills DEF SaveRefund
<1>5. ASSUME NEW o \in Operators, CallDies(o)
      PROVE  UNCHANGED bills /\ refused \subseteq refused'
  BY <1>5 DEF CallDies
<1>6. CASE \E o \in Operators : CallDies(o)
  BY <1>5, <1>6 DEF BillsTypeOK, SameBill
<1>7. CASE \/ TimePasses \/ UNCHANGED billingVars
           \/ \E o \in Operators :
                 \/ \E plan \in Plans, cycle \in Cycles : Subscribe(o, plan, cycle)
                 \/ \E plan \in Plans : CreateSubscription(o, plan)
                 \/ \E s \in Rows : StartRenew(o, s)
                 \/ \E s \in Rows, plan \in Plans, op \in {"upgrade", "downgrade"} :
                        StartChange(o, s, plan, op)
                 \/ \E b \in DOMAIN bills : StartRefund(o, b)
                 \/ SaveRenewed(o) \/ SaveChange(o)
           \/ \E k \in Schedulers : FindActiveOrPastDue(k) \/ ProcessGracePeriod(k)
                                    \/ SaveFails(k) \/ PassDies(k)
  <2>1. UNCHANGED <<bills, refused>>
    BY <1>7 DEF TimePasses, billingVars, Subscribe, CreateSubscription, StartRenew, StartChange,
                StartRefund, SaveRenewed, SaveChange, FindActiveOrPastDue, ProcessGracePeriod, SaveFails, PassDies, Passed
  <2> QED BY <1>1, <2>1
<1> QED BY <1>2, <1>3, <1>4, <1>6, <1>7 DEF BillingNext

(***************************************************************************)
(* A call that is to charge a period goes on to, unless it ends by         *)
(* charging it or by dying.                                                *)
(***************************************************************************)
LEMMA ChargesStay ==
    ASSUME FitInv, [BillingNext]_billingVars, NEW p \in Operators, At(p, "charge")
    PROVE  calls'[p] = calls[p] \/ Charge(p) \/ CallDies(p)
<1> SUFFICES ASSUME ~Charge(p), ~CallDies(p)
             PROVE  calls'[p] = calls[p]
  OBVIOUS
<1>1. ASSUME NEW o \in Operators, NEW held, Begin(o, held)
      PROVE  calls'[p] = calls[p]
  BY <1>1 DEF Begin, At, Idle, FitInv
<1>2. CASE \E o \in Operators :
             \/ \E plan \in Plans, cycle \in Cycles : Subscribe(o, plan, cycle)
             \/ \E s \in Rows : StartRenew(o, s)
             \/ \E s \in Rows, plan \in Plans, op \in {"upgrade", "downgrade"} :
                    StartChange(o, s, plan, op)
             \/ \E b \in DOMAIN bills : StartRefund(o, b)
  BY <1>1, <1>2 DEF Subscribe, StartRenew, StartChange, StartRefund
<1>3. ASSUME NEW o \in Operators,
             SaveRenewed(o) \/ Charge(o) \/ ChargeChange(o) \/ SaveChange(o) \/ SaveRefund(o) \/ CallDies(o)
      PROVE  calls'[p] = calls[p]
  <2>1. o # p
    BY <1>3 DEF SaveRenewed, ChargeChange, SaveChange, SaveRefund, At
  <2> QED BY <1>3, <2>1
      DEF SaveRenewed, Charge, ChargeChange, SaveChange, SaveRefund, CallDies, Ends, Goes, FitInv
<1>4. CASE UNCHANGED calls
  BY <1>4
<1> QED BY <1>2, <1>3, <1>4
    DEF BillingNext, billingVars, TimePasses, CreateSubscription, FindActiveOrPastDue,
        ProcessGracePeriod, SaveFails, PassDies, Passed

(***************************************************************************)
(* What is paid for stays paid for.                                        *)
(***************************************************************************)
LEMMA PaymentsLast ==
    ASSUME FitInv, BillsTypeOK, [BillingNext]_billingVars, NEW s, NEW from, NEW to, Paid(s, from, to)
    PROVE  Paid(s, from, to)'
<1>1. CASE \E b \in DOMAIN bills :
             /\ bills[b].sub = s /\ bills[b].type = "charge"
             /\ bills[b].from = from /\ bills[b].to = to
  BY <1>1, BillsLast DEF SameBill, Paid
<1>2. CASE <<s, from>> \in refused
  BY <1>2, BillsLast DEF Paid
<1>3. ASSUME NEW o \in Operators, PaidBy(o, s, from, to)
      PROVE  Paid(s, from, to)'
  <2>1. CASE calls'[o] = calls[o]
    BY <1>3, <2>1 DEF Paid, PaidBy, At
  <2>2. CASE Charge(o)
    BY <1>3, <2>2, ChargeInserts DEF Paid, PaidBy
  <2>3. CASE CallDies(o)
    BY <1>3, <2>3 DEF CallDies, Paid, PaidBy
  <2> QED BY <1>3, <2>1, <2>2, <2>3, ChargesStay DEF PaidBy
<1>4. CASE to = None
  BY <1>4 DEF Paid
<1> QED BY <1>1, <1>2, <1>3, <1>4 DEF Paid

(* A copy of a row whose period is paid stays one.                          *)
LEMMA PaidCopiesLast ==
    ASSUME FitInv, BillsTypeOK, [BillingNext]_billingVars
    PROVE  PaidCopies \subseteq PaidCopies'
<1> SUFFICES ASSUME NEW c \in [sub : Nat, row : SubscriptionRow],
                    Paid(c.sub, c.row.from, c.row.to)
             PROVE  Paid(c.sub, c.row.from, c.row.to)'
  BY DEF PaidCopies
<1> QED BY PaymentsLast

(***************************************************************************)
(* Saving a row whose period is paid for.                                  *)
(***************************************************************************)
LEMMA SavingPaid ==
    ASSUME FitInv, RowsPaid, BillsTypeOK, [BillingNext]_billingVars, NEW s, NEW row \in SubscriptionRow,
           Paid(s, row.from, row.to)', SaveSubscription(s, row)
    PROVE  RowsPaid'
<1> SUFFICES ASSUME NEW r \in DOMAIN subs'
             PROVE  \E from, to : /\ subs'[r].from = from /\ subs'[r].to = to
                                  /\ Paid(r, from, to)'
  BY DEF RowsPaid, Rows
<1>1. r \in DOMAIN subs /\ subs[r] \in SubscriptionRow
  BY DEF SaveSubscription, FitInv, StoreFits, Fitting
<1>2. CASE r = s
  <2> DEFINE saved == [row EXCEPT !.plan = subs[s].plan]
  <2>1. subs'[r] = saved
    BY <1>1, <1>2 DEF SaveSubscription
  <2>2. saved.from = row.from /\ saved.to = row.to
    BY DEF SubscriptionRow
  <2> QED BY <1>2, <2>1, <2>2
<1>3. CASE r # s
  <2>1. subs'[r] = subs[r]
    BY <1>1, <1>3 DEF SaveSubscription
  <2>2. Paid(r, subs[r].from, subs[r].to)
    BY <1>1 DEF RowsPaid, Rows
  <2> QED BY <2>1, <2>2, PaymentsLast
<1> QED BY <1>2, <1>3

(* Rows no step changes stay paid.                                          *)
LEMMA RowsStayPaid ==
    ASSUME FitInv, RowsPaid, BillsTypeOK, [BillingNext]_billingVars, UNCHANGED subs
    PROVE  RowsPaid'
<1> SUFFICES ASSUME NEW r \in DOMAIN subs
             PROVE  \E from, to : /\ subs'[r].from = from /\ subs'[r].to = to
                                  /\ Paid(r, from, to)'
  BY DEF RowsPaid, Rows
<1> QED BY PaymentsLast DEF RowsPaid, Rows

(***************************************************************************)
(* A step that moves at most one call on.                                  *)
(***************************************************************************)
LEMMA CallsStayPaid ==
    ASSUME FitInv, BillsTypeOK, CallsPaid, [BillingNext]_billingVars, NEW o \in Operators,
           \A p \in Operators \ {o} : calls'[p] = calls[p],
           calls'[o].at \in WithRow =>
               \E s \in Nat : \E from, to :
                   /\ HasRow(calls[o])'
                   /\ calls'[o].sub = s /\ calls'[o].row.from = from /\ calls'[o].row.to = to
                   /\ Paid(s, from, to)'
    PROVE  BillsTypeOK' /\ CallsPaid'
<1>1. BillsTypeOK'
  BY BillsLast DEF BillsTypeOK, HasRow
<1>2. ASSUME NEW p \in Operators, calls'[p].at \in WithRow
      PROVE  \E s, from, to :
                 /\ calls'[p].sub = s /\ calls'[p].row.from = from /\ calls'[p].row.to = to
                 /\ Paid(s, from, to)'
  <2>1. CASE p = o
    BY <1>2, <2>1
  <2>2. CASE p # o
    <3>1. calls'[p] = calls[p] /\ Paid(calls[p].sub, calls[p].row.from, calls[p].row.to)
      BY <1>2, <2>2 DEF CallsPaid
    <3> QED BY <3>1, PaymentsLast
  <2> QED BY <2>1, <2>2
<1>3. CallsPaid'
  BY <1>2 DEF CallsPaid
<1> QED BY <1>1, <1>3

(* The copies a pass of the scheduler holds stay paid.                      *)
LEMMA PassesStayPaid ==
    ASSUME FitInv, BillsTypeOK, PassesPaid, [BillingNext]_billingVars, UNCHANGED passes
    PROVE  PassesPaid'
<1>1. \A S, T : S \subseteq T => Seq(S) \subseteq Seq(T)
  OBVIOUS
<1>2. Seq(PaidCopies) \subseteq Seq(PaidCopies')
  BY <1>1, PaidCopiesLast
<1> QED BY <1>2 DEF PassesPaid

(***************************************************************************)
(* Whoever writes a period writes one that is paid for: the copies that    *)
(* operators and schedulers hold are of periods the table once had, and    *)
(* only a call that is to charge it makes a new one.                       *)
(***************************************************************************)
THEOREM PaidInvariant == BillingSpec => []PaidInv
<1>1. BillingInit => PaidInv
  BY DEF BillingInit, PaidInv, BillsTypeOK, RowsPaid, CallsPaid, PassesPaid, Rows, WithRow, Idle
<1>2. FitInv /\ FitInv' /\ PaidInv /\ [BillingNext]_billingVars => PaidInv'
  <2> SUFFICES ASSUME FitInv, FitInv', PaidInv, [BillingNext]_billingVars
               PROVE  PaidInv'
    OBVIOUS
  <2>1. BillsTypeOK /\ RowsPaid /\ CallsPaid /\ PassesPaid
    BY DEF PaidInv
  <2>2. (UNCHANGED subs) => RowsPaid'
    BY <2>1, RowsStayPaid
  <2>3. (UNCHANGED passes) => PassesPaid'
    BY <2>1, PassesStayPaid
  <2>4. (UNCHANGED calls) => BillsTypeOK' /\ CallsPaid'
    <3> SUFFICES ASSUME UNCHANGED calls
                 PROVE  BillsTypeOK' /\ CallsPaid'
      OBVIOUS
    <3>1. BillsTypeOK'
      BY <2>1, BillsLast DEF BillsTypeOK, HasRow
    <3>2. \A p \in Operators : calls[p].at \in WithRow =>
              Paid(calls[p].sub, calls[p].row.from, calls[p].row.to)
      BY <2>1 DEF CallsPaid
    <3>3. \A p \in Operators : calls'[p].at \in WithRow =>
              \E s, from, to : /\ calls'[p].sub = s /\ calls'[p].row.from = from
                               /\ calls'[p].row.to = to /\ Paid(s, from, to)'
      BY <2>1, <3>2, PaymentsLast
    <3> QED BY <3>1, <3>3 DEF CallsPaid
  <2>5. ASSUME NEW o \in Operators, NEW plan \in Plans, NEW cycle \in Cycles,
               Subscribe(o, plan, cycle)
        PROVE  PaidInv'
    <3>1. PICK row, n : /\ n = Len(subs) + 1
                        /\ subs' = Append(subs, row)
                        /\ calls' = [calls EXCEPT ![o] = [at |-> "charge", sub |-> n, row |-> row]]
                        /\ UNCHANGED passes
      BY <2>5 DEF Subscribe, Begin
    <3>2. subs \in Seq(Fitting(now)) /\ n \in Nat
      BY <3>1 DEF FitInv, StoreFits
    <3>3. calls'[o] = [at |-> "charge", sub |-> n, row |-> row]
          /\ \A p \in Operators \ {o} : calls'[p] = calls[p]
      BY <3>1 DEF FitInv
    <3>4. Paid(n, row.from, row.to)'
      BY <3>3 DEF Paid, PaidBy, At
    <3>5. BillsTypeOK' /\ CallsPaid'
      <4>1. HasRow(calls[o])' /\ calls'[o].sub = n /\ calls'[o].row = row
        BY <3>2, <3>3 DEF HasRow
      <4> QED BY <2>1, <3>2, <3>3, <3>4, <4>1, CallsStayPaid
    <3>6. RowsPaid'
      <4> SUFFICES ASSUME NEW r \in DOMAIN subs'
                   PROVE  \E from, to : /\ subs'[r].from = from /\ subs'[r].to = to
                                        /\ Paid(r, from, to)'
        BY DEF RowsPaid, Rows
      <4>1. CASE r = n
        BY <3>1, <3>2, <3>4, <4>1
      <4>2. CASE r # n
        <5>1. r \in DOMAIN subs /\ subs'[r] = subs[r]
          BY <3>1, <3>2, <4>2
        <5> QED BY <2>1, <5>1, PaymentsLast DEF RowsPaid, Rows
      <4> QED BY <4>1, <4>2
    <3> QED BY <2>3, <3>1, <3>5, <3>6 DEF PaidInv
  <2>16. ASSUME NEW o \in Operators, NEW plan \in Plans, CreateSubscription(o, plan)
         PROVE  PaidInv'
    <3>1. PICK row : row.to = None /\ subs' = Append(subs, row) /\ UNCHANGED <<calls, passes>>
      BY <2>16 DEF CreateSubscription
    <3>2. subs \in Seq(Fitting(now))
      BY DEF FitInv, StoreFits
    <3>3. RowsPaid'
      <4> SUFFICES ASSUME NEW r \in DOMAIN subs'
                   PROVE  \E from, to : /\ subs'[r].from = from /\ subs'[r].to = to
                                        /\ Paid(r, from, to)'
        BY DEF RowsPaid, Rows
      <4>1. CASE r = Len(subs) + 1
        <5>1. subs'[r] = row
          BY <3>1, <3>2, <4>1
        <5>2. Paid(r, row.from, row.to)'
          BY <3>1 DEF Paid
        <5> QED BY <5>1, <5>2
      <4>2. CASE r # Len(subs) + 1
        <5>1. r \in DOMAIN subs /\ subs'[r] = subs[r]
          BY <3>1, <3>2, <4>2
        <5> QED BY <2>1, <5>1, PaymentsLast DEF RowsPaid, Rows
      <4> QED BY <4>1, <4>2
    <3> QED BY <2>3, <2>4, <3>1, <3>3 DEF PaidInv
  <2>6. ASSUME NEW o \in Operators, NEW s \in Rows, NEW held, Begin(o, held),
               {"at", "sub", "row"} \subseteq DOMAIN held,
               held.sub = s, held.row = subs[s], UNCHANGED <<subs, passes>>
        PROVE  PaidInv'
    <3>1. calls'[o] = held /\ \A p \in Operators \ {o} : calls'[p] = calls[p]
      BY <2>6 DEF Begin, FitInv
    <3>2. s \in Nat /\ Paid(s, subs[s].from, subs[s].to)
      BY <2>1 DEF RowsPaid, Rows, FitInv, StoreFits
    <3>3. BillsTypeOK' /\ CallsPaid'
      <4>1. HasRow(calls[o])'
        BY <2>6, <3>1, <3>2 DEF HasRow
      <4>2. \E from, to : from = subs[s].from /\ to = subs[s].to /\ Paid(s, from, to)'
        BY <2>1, <3>2, PaymentsLast
      <4> QED BY <2>1, <2>6, <3>1, <3>2, <4>1, <4>2, CallsStayPaid
    <3> QED BY <2>2, <2>3, <2>6, <3>3 DEF PaidInv
  <2>7. ASSUME NEW o \in Operators,
               \/ \E s \in Rows : StartRenew(o, s)
               \/ \E s \in Rows, plan \in Plans, op \in {"upgrade", "downgrade"} :
                      StartChange(o, s, plan, op)
        PROVE  PaidInv'
    BY <2>6, <2>7 DEF StartRenew, StartChange
  <2>8. ASSUME NEW o \in Operators, calls'[o].at \notin WithRow,
               \A p \in Operators \ {o} : calls'[p] = calls[p]
        PROVE  BillsTypeOK' /\ CallsPaid'
    BY <2>1, <2>8, CallsStayPaid
  <2>9. ASSUME NEW o \in Operators,
               \/ \E b \in DOMAIN bills : StartRefund(o, b)
               \/ Charge(o) \/ SaveRefund(o) \/ CallDies(o)
        PROVE  PaidInv'
    <3>1. UNCHANGED <<subs, passes>>
      BY <2>9 DEF StartRefund, Charge, SaveRefund, CallDies
    <3>2. /\ calls'[o].at \in {"refund", "idle"}
          /\ \A p \in Operators \ {o} : calls'[p] = calls[p]
      BY <2>9 DEF StartRefund, Begin, Charge, SaveRefund, CallDies, Ends, Idle, FitInv
    <3> QED BY <2>2, <2>3, <2>8, <3>1, <3>2 DEF PaidInv, WithRow
  <2>10. ASSUME NEW o \in Operators, SaveRenewed(o)
         PROVE  PaidInv'
    <3> DEFINE row == Renewed(calls[o].row)
    <3>1. row \in SubscriptionRow
      BY <2>10, RenewedFits DEF SaveRenewed, At, FitInv, StoreFits, CallsFit, WithRow, Fitting
    <3>2. /\ calls' = [calls EXCEPT ![o].at = "charge", ![o].row = row]
          /\ SaveSubscription(calls[o].sub, row) \/ UNCHANGED subs
          /\ UNCHANGED passes
      BY <2>10 DEF SaveRenewed
    <3>3. HasRow(calls[o]) /\ calls[o].sub \in Nat
      BY <2>1, <2>10 DEF BillsTypeOK, SaveRenewed, At, WithRow, HasRow
    <3> HIDE DEF row
    <3>4. /\ calls'[o].at = "charge" /\ calls'[o].sub = calls[o].sub /\ calls'[o].row = row
          /\ HasRow(calls[o])'
          /\ \A p \in Operators \ {o} : calls'[p] = calls[p]
      BY <3>2, <3>3 DEF FitInv, HasRow
    <3>5. \E s \in Nat : \E from, to :
           /\ s = calls[o].sub /\ from = row.from /\ to = row.to
           /\ Paid(s, from, to)'
      BY <3>3, <3>4 DEF Paid, PaidBy, At
    <3>6. BillsTypeOK' /\ CallsPaid'
      BY <2>1, <3>4, <3>5, CallsStayPaid
    <3>7. RowsPaid'
      BY <2>1, <2>2, <3>1, <3>2, <3>5, SavingPaid
    <3> QED BY <2>3, <3>2, <3>6, <3>7 DEF PaidInv
  <2>11. ASSUME NEW o \in Operators, ChargeChange(o)
         PROVE  PaidInv'
    <3>1. UNCHANGED <<subs, passes>>
      BY <2>11 DEF ChargeChange
    <3>2. CASE calls' = [calls EXCEPT ![o].at = "change"]
      <4>1. /\ calls'[o].sub = calls[o].sub /\ calls'[o].row = calls[o].row
            /\ DOMAIN calls'[o] = DOMAIN calls[o]
            /\ \A p \in Operators \ {o} : calls'[p] = calls[p]
        BY <3>2 DEF FitInv
      <4>2. HasRow(calls[o]) /\ Paid(calls[o].sub, calls[o].row.from, calls[o].row.to)
        BY <2>1, <2>11 DEF ChargeChange, BillsTypeOK, CallsPaid, WithRow
      <4>4. HasRow(calls[o])' /\ calls[o].sub \in Nat
        BY <4>1, <4>2 DEF HasRow
      <4>3. BillsTypeOK' /\ CallsPaid'
        BY <2>1, <4>1, <4>2, <4>4, CallsStayPaid, PaymentsLast
      <4> QED BY <2>2, <2>3, <3>1, <4>3 DEF PaidInv
    <3>3. CASE Ends(o)
      BY <2>2, <2>3, <2>8, <3>1, <3>3 DEF PaidInv, Ends, Idle, WithRow, FitInv
    <3> QED BY <2>11, <3>2, <3>3 DEF ChargeChange, Goes
  <2>12. ASSUME NEW o \in Operators, SaveChange(o)
         PROVE  PaidInv'
    <3>1. calls[o].row \in SubscriptionRow /\ Paid(calls[o].sub, calls[o].row.from, calls[o].row.to)
      BY <2>1, <2>12 DEF SaveChange, At, CallsPaid, FitInv, CallsFit, Fitting, WithRow
    <3>2. \E s, from, to : /\ s = calls[o].sub /\ from = calls[o].row.from /\ to = calls[o].row.to
                           /\ Paid(s, from, to)'
      BY <2>1, <3>1, PaymentsLast
    <3>3. RowsPaid'
      BY <2>1, <2>2, <2>12, <3>1, <3>2, SavingPaid DEF SaveChange
    <3>4. calls'[o].at \notin WithRow /\ \A p \in Operators \ {o} : calls'[p] = calls[p]
      BY <2>12 DEF SaveChange, Ends, Idle, WithRow, FitInv
    <3> QED BY <2>3, <2>8, <2>12, <3>3, <3>4 DEF PaidInv, SaveChange
  <2>13. ASSUME NEW k \in Schedulers, FindActiveOrPastDue(k)
         PROVE  PaidInv'
    <3>1. UNCHANGED <<subs, calls>>
      BY <2>13 DEF FindActiveOrPastDue
    <3>2. PICK q : passes' = [passes EXCEPT ![k] = q]
                   /\ \A i \in DOMAIN q : \E s \in Rows : q[i] = [sub |-> s, row |-> subs[s]]
      <4>1. PICK listed \in SetToSeqs({s \in Rows : Lists(s)}) :
               passes' = [passes EXCEPT ![k] =
                   [i \in DOMAIN listed |-> [sub |-> listed[i], row |-> subs[listed[i]]]]]
        BY <2>13 DEF FindActiveOrPastDue
      <4>2. \A i \in DOMAIN listed : listed[i] \in Rows
        BY <4>1 DEF SetToSeqs
      <4> DEFINE pass == [i \in DOMAIN listed |-> [sub |-> listed[i], row |-> subs[listed[i]]]]
      <4>3. \A i \in DOMAIN pass : pass[i] = [sub |-> listed[i], row |-> subs[listed[i]]] /\ listed[i] \in Rows
        BY <4>2
      <4>4. passes' = [passes EXCEPT ![k] = pass]
        BY <4>1
      <4> HIDE DEF pass
      <4>5. \A i \in DOMAIN pass : \E s \in Rows : pass[i] = [sub |-> s, row |-> subs[s]]
        BY <4>3
      <4> QED BY <4>4, <4>5, Zenon
    <3>3. q \in Seq([sub : Nat, row : Fitting(now')])
      BY <3>2 DEF FitInv, PassesFit
    <3>4. \A i \in DOMAIN q : q[i] \in PaidCopies
      BY <2>1, <3>2 DEF PaidCopies, RowsPaid, Rows, FitInv, StoreFits, Fitting
    <3>5. q \in Seq(PaidCopies)
      BY <3>3, <3>4
    <3>6. PassesPaid'
      <4>1. \A S, T : S \subseteq T => Seq(S) \subseteq Seq(T)
        OBVIOUS
      <4>2. Seq(PaidCopies) \subseteq Seq(PaidCopies')
        BY <2>1, <4>1, PaidCopiesLast
      <4> QED BY <2>1, <3>2, <3>5, <4>2 DEF PassesPaid
    <3> QED BY <2>2, <2>4, <3>1, <3>6 DEF PaidInv
  <2>14. ASSUME NEW k \in Schedulers, ProcessGracePeriod(k) \/ SaveFails(k) \/ PassDies(k)
         PROVE  PaidInv'
    <3>1. UNCHANGED calls
      BY <2>14 DEF ProcessGracePeriod, SaveFails, PassDies, Passed
    <3>2. RowsPaid'
      <4>1. CASE subs' # subs
        <5> DEFINE head == Head(passes[k])
        <5>1. ProcessGracePeriod(k) /\ SaveSubscription(head.sub, Processed(head.row))
          BY <2>14, <4>1 DEF SaveFails, PassDies, ProcessGracePeriod
        <5>2. head \in PaidCopies
          BY <2>1, <5>1 DEF ProcessGracePeriod, Passed, PassesPaid
        <5>3. head.row \in SubscriptionRow /\ Paid(head.sub, head.row.from, head.row.to)
          BY <5>2 DEF PaidCopies
        <5>4. /\ Processed(head.row) \in SubscriptionRow
              /\ Processed(head.row).from = head.row.from /\ Processed(head.row).to = head.row.to
          BY <5>3, ProcessedKeepsPeriod
        <5>5. \E s, from, to : /\ s = head.sub /\ from = head.row.from /\ to = head.row.to
                               /\ Paid(s, from, to)'
          BY <2>1, <5>3, PaymentsLast
        <5> QED BY <2>1, <5>1, <5>4, <5>5, SavingPaid
      <4> QED BY <2>2, <4>1
    <3>3. PassesPaid'
      <4>1. \A S, T : S \subseteq T => Seq(S) \subseteq Seq(T)
        OBVIOUS
      <4>2. Seq(PaidCopies) \subseteq Seq(PaidCopies')
        BY <2>1, <4>1, PaidCopiesLast
      <4>3. \A q \in Seq(PaidCopies) : q # <<>> => Tail(q) \in Seq(PaidCopies)
        OBVIOUS
      <4>4. \/ passes' = [passes EXCEPT ![k] = <<>>]
            \/ /\ passes[k] # <<>>
               /\ passes' = [passes EXCEPT ![k] = Tail(passes[k])]
        BY <2>14 DEF ProcessGracePeriod, SaveFails, PassDies, Passed
      <4>5. passes[k] \in Seq(PaidCopies) /\ <<>> \in Seq(PaidCopies)
        BY <2>1 DEF PassesPaid
      <4>6. PICK q \in Seq(PaidCopies) : passes' = [passes EXCEPT ![k] = q]
        BY <4>3, <4>4, <4>5, Zenon
      <4> QED BY <2>1, <4>2, <4>6 DEF PassesPaid
    <3> QED BY <2>4, <3>1, <3>2, <3>3 DEF PaidInv
  <2>15. CASE TimePasses \/ UNCHANGED billingVars
    BY <2>2, <2>3, <2>4, <2>15 DEF TimePasses, billingVars, PaidInv
  <2> QED BY <2>5, <2>7, <2>9, <2>10, <2>11, <2>12, <2>13, <2>14, <2>15, <2>16
         DEF BillingNext
<1> QED BY <1>1, <1>2, FitInvariant, PTL DEF BillingSpec

(***************************************************************************)
(* The period a subscription stands in was charged, is about to be, or its *)
(* charge was refused.                                                     *)
(***************************************************************************)
THEOREM PeriodsGetCharged == BillingSpec => []PeriodsAreCharged
<1>1. PaidInv => PeriodsAreCharged
  BY DEF PaidInv, RowsPaid, Paid, PaidBy, PeriodsAreCharged, HasPeriod
<1> QED BY <1>1, PaidInvariant, PTL

-----------------------------------------------------------------------------
(***************************************************************************)
(* Workflow, for any definitions, flows, instances, calls, batches, faults *)
(* and deaths, with and without business data.                             *)
(***************************************************************************)

(* Flows and what approving does to a copy.                                *)

(***************************************************************************)
(* A flow ParseFlowConfig accepted is a list of steps that is not empty.   *)
(***************************************************************************)
LEMMA FlowsAreLists ==
  ASSUME NEW flow \in Flow
  PROVE  /\ flow \in Seq(FlowStep) /\ Len(flow) \in Nat \ {0}
         /\ DOMAIN flow = 1 .. Len(flow) /\ 1 \in DOMAIN flow
         /\ DOMAIN flow \subseteq Steps /\ flow # NoFlow
<1>1. flow \in Drafts /\ flow # << >>
  BY DEF Flow, ParseFlowConfig
<1>2. flow \in Seq(FlowStep) /\ flow # NoFlow
  BY <1>1, WorkflowAssumption
<1>3. Len(flow) \in Nat \ {0} /\ DOMAIN flow = 1 .. Len(flow)
  BY <1>1, <1>2, EmptySeq, LenProperties
<1> QED BY <1>2, <1>3 DEF Steps

(***************************************************************************)
(* A passed step leads to steps of its flow or to its end.                 *)
(***************************************************************************)
LEMMA LeadsWithin ==
  ASSUME NEW flow \in Flow, NEW k \in DOMAIN flow
  PROVE  LeadsTo(flow, k) \subseteq 1 .. (Len(flow) + 1)
<1>1. Len(flow) \in Nat \ {0} /\ DOMAIN flow = 1 .. Len(flow)
  BY FlowsAreLists
<1>2. \A name : NamedStep(flow, name) \subseteq 1 .. Len(flow)
  BY <1>1 DEF NamedStep
<1>3. CASE flow[k].kind # "condition"
  BY <1>1, <1>3 DEF LeadsTo
<1>4. CASE flow[k].kind = "condition"
  BY <1>1, <1>2, <1>4 DEF LeadsTo
<1> QED BY <1>3, <1>4

(***************************************************************************)
(* What a call writes is the row of the same instance on a step of its     *)
(* flow, and only an approval makes it approved.                           *)
(***************************************************************************)
LEMMA DecidedInFlow ==
  ASSUME NEW copy \in InstanceRow, InFlow(copy),
         NEW op \in Ops \ {"transfer"}, NEW branch \in Branch \cup {NoBranch},
         NEW row \in Decided(op, copy, branch)
  PROVE  row \in InstanceRow /\ row.def = copy.def /\ InFlow(row)
<1> DEFINE flow == FlowOf(copy)
<1>1. /\ flow \in Flow /\ copy.step \in DOMAIN flow
      /\ Len(flow) \in Nat \ {0} /\ DOMAIN flow = 1 .. Len(flow)
      /\ DOMAIN flow \subseteq Steps /\ flow \in Seq(FlowStep)
  BY FlowsAreLists DEF InFlow
<1> HIDE DEF flow
<1>2. flow[copy.step].kind \in Kinds
  <2>1. flow[copy.step] \in FlowStep
    BY <1>1, ElementOfSeq
  <2> QED BY <2>1 DEF FlowStep
<1>3. ASSUME NEW new \in InstanceRow, new.def = copy.def, new.step \in DOMAIN flow
      PROVE  FlowOf(new) = flow /\ InFlow(new)
  BY <1>1, <1>3 DEF FlowOf, InFlow, flow
<1>4. ASSUME NEW c \in InstanceRow, c.def = copy.def, c.step = copy.step
      PROVE  Onward(c) \in InstanceRow /\ Onward(c).def = copy.def /\ Onward(c).step \in DOMAIN flow
  <2>1. FlowOf(c) = flow
    BY <1>1, <1>3, <1>4
  <2>2. CASE c.step + 1 > Len(flow)
    BY <1>1, <1>4, <2>1, <2>2 DEF Onward, Approved, InstanceRow, Status
  <2>3. CASE ~ (c.step + 1 > Len(flow))
    <3>1. c.step + 1 \in DOMAIN flow
      BY <1>1, <1>4, <2>3
    <3> QED BY <1>1, <1>4, <2>1, <2>3, <3>1 DEF Onward, MovedTo, InstanceRow
  <2> QED BY <2>2, <2>3
<1>5. row \in InstanceRow /\ row.def = copy.def /\ row.step \in DOMAIN flow
  <2>1. CASE op \in {"reject", "return", "resubmit"}
    BY <1>1, <2>1 DEF Decided, InstanceRow, Status
  <2>2. CASE op = "approve" /\ flow[copy.step].kind = "serial"
    <3>1. row = Onward(copy)
      BY <2>2 DEF Decided, StepOf, flow
    <3> QED BY <1>1, <1>4, <3>1
  <2>3. CASE op = "approve" /\ flow[copy.step].kind = "parallel"
    <3> DEFINE marked == WithBranch(copy, branch)
               cleared == [marked EXCEPT !.approved = {}]
    <3>1. row = ApproveParallel(copy, branch)
      BY <2>3 DEF Decided, StepOf, flow
    <3>2. /\ marked \in InstanceRow /\ marked.def = copy.def /\ marked.step = copy.step
          /\ cleared \in InstanceRow /\ cleared.def = copy.def /\ cleared.step = copy.step
      BY DEF WithBranch, InstanceRow
    <3>3. row = marked \/ row = Onward(cleared)
      BY <3>1 DEF ApproveParallel
    <3> HIDE DEF marked, cleared
    <3> QED BY <1>1, <1>4, <3>2, <3>3
  <2>4. CASE op = "approve" /\ flow[copy.step].kind = "condition"
    <3>1. row \in ApproveCondition(copy)
      BY <2>4 DEF Decided, StepOf, flow
    <3>2. row = Approved(copy) \/ \E k \in DOMAIN flow : row = MovedTo(copy, k)
      BY <3>1 DEF ApproveCondition, NamedStep, flow
    <3> QED BY <1>1, <3>2 DEF Approved, MovedTo, InstanceRow, Status
  <2> QED BY <1>2, <2>1, <2>2, <2>3, <2>4 DEF Ops, Kinds
<1> QED BY <1>3, <1>5

-----------------------------------------------------------------------------
(* Types.                                                                  *)

(***************************************************************************)
(* What follows the statement that finds the instance, records its history *)
(* row or saves it.                                                        *)
(***************************************************************************)
LEMMA Order ==
  /\ \A op \in Ops : After[op].find = IF op \in {"return", "resubmit"} THEN "save" ELSE "record"
  /\ \A op \in Ops \ {"resubmit"} :
       After[op].record = IF op \in {"approve", "reject"} THEN "save" ELSE "answer"
  /\ \A op \in Ops \ {"transfer"} : After[op].save = IF op = "return" THEN "record" ELSE "answer"
BY DEF After, Ops

(***************************************************************************)
(* A call under way has an instance to work on, and one less to go when it *)
(* leaves it.                                                              *)
(***************************************************************************)
LEMMA Targets ==
  ASSUME TypeOK, NEW r \in Req, call[r].at \in {"find", "record", "save"}
  PROVE  /\ call[r] \in Finding \cup Working
         /\ call[r].op \in Ops /\ call[r].branch \in Branch \cup {NoBranch}
         /\ Target(r) \in Instance
         /\ Leave(r) => \E new \in Resting \cup Finding : call' = [call EXCEPT ![r] = new]
<1>1. call[r] \in Finding \cup Working
  BY DEF TypeOK, Resting
<1> DEFINE todo == call[r].todo
<1>2. /\ call[r].op \in Ops /\ call[r].branch \in Branch \cup {NoBranch}
      /\ todo \in Seq(Instance) /\ todo # << >>
  BY <1>1 DEF Finding, Working
<1>3. Head(todo) \in Instance /\ Tail(todo) \in Seq(Instance) /\ Len(todo) \in Nat
      /\ Len(Tail(todo)) = Len(todo) - 1
  BY <1>2, HeadTailProperties
<1> HIDE DEF todo
<1>4. ASSUME Leave(r) PROVE \E new \in Resting \cup Finding : call' = [call EXCEPT ![r] = new]
  <2>1. CASE Len(todo) > 1
    <3> DEFINE next == [at |-> "find", op |-> call[r].op, branch |-> call[r].branch, todo |-> Tail(todo)]
    <3>1. Tail(todo) # << >>
      BY <1>3, <2>1, EmptySeq
    <3>2. next \in Finding
      BY <1>2, <1>3, <3>1 DEF Finding
    <3>3. call' = [call EXCEPT ![r] = next]
      BY <1>4, <2>1 DEF Leave, todo
    <3> HIDE DEF next
    <3> QED BY <3>2, <3>3
  <2>2. CASE ~ (Len(todo) > 1)
    <3>1. call' = [call EXCEPT ![r] = [at |-> "done"]]
      BY <1>4, <2>2 DEF Leave, todo
    <3> QED BY <3>1 DEF Resting
  <2> QED BY <2>1, <2>2
<1> QED BY <1>1, <1>2, <1>3, <1>4 DEF Target, todo

(***************************************************************************)
(* Where a call may be after one of its steps: it has left the instance or *)
(* goes on with the copy it has.                                           *)
(***************************************************************************)
LEMMA GoingOn ==
  ASSUME TypeOK, NEW r \in Req, HasCopy(r), NEW at \in {"save", "record", "answer"},
         GoesTo(r, at) \/ Fails(r)
  PROVE  /\ \/ \E new \in Resting \cup Finding : call' = [call EXCEPT ![r] = new]
            \/ at # "answer" /\ call' = [call EXCEPT ![r].at = at]
         /\ \/ UNCHANGED told
            \/ /\ at = "answer" /\ call[r].op # "resubmit"
               /\ told' = [told EXCEPT ![Target(r)] = @ \cup {TheRow(r)}]
<1>1. Leave(r) => \E new \in Resting \cup Finding : call' = [call EXCEPT ![r] = new]
  BY Targets DEF HasCopy
<1> QED BY <1>1 DEF GoesTo, Answer, Fails

(***************************************************************************)
(* A call that leaves its instance or keeps its copy keeps its type, and   *)
(* so does everything else, if no flow changes and no instance leaves its  *)
(* own.                                                                    *)
(***************************************************************************)
LEMMA CallsKeepType ==
  ASSUME TypeOK, NEW r \in Req, UNCHANGED <<defs, inst>>,
         rows' \in [Instance -> SUBSET Row], told' \in [Instance -> SUBSET Row],
         \E new \in Resting \cup Finding : call' = [call EXCEPT ![r] = new]
  PROVE  TypeOK'
<1>1. PICK new \in Resting \cup Finding : call' = [call EXCEPT ![r] = new]
  OBVIOUS
<1>2. new.at \notin {"record", "save"}
  BY <1>1 DEF Resting, Finding
<1>3. call' \in [Req -> Resting \cup Finding \cup Working]
  BY <1>1 DEF TypeOK
<1>4. \A s \in Req : HasCopy(s)' => HasCopy(s) /\ call'[s] = call[s]
  BY <1>1, <1>2 DEF TypeOK, HasCopy
<1> QED BY <1>3, <1>4 DEF TypeOK, InFlow, FlowOf, Exists

(***************************************************************************)
(* The history row of a call has the type of one.                          *)
(***************************************************************************)
LEMMA RowsOfCalls ==
  ASSUME TypeOK, NEW r \in Req, HasCopy(r)
  PROVE  TheRow(r) \in Row
<1>1. call[r] \in Working /\ InFlow(call[r].copy)
  BY Targets DEF TypeOK, HasCopy, Finding
<1>2. call[r].copy.step \in Steps
  BY <1>1, FlowsAreLists DEF InFlow
<1> QED BY <1>1, <1>2 DEF TheRow, Row, Working

(***************************************************************************)
(* Instances and the copies of them stay on the steps of their flows,      *)
(* wherever conditions lead.                                               *)
(***************************************************************************)
LEMMA TypesLast ==
  ASSUME TypeOK, [Next]_vars
  PROVE  TypeOK'
<1>1. ASSUME NEW d \in Definition, CreateDefinition(d)
      PROVE  TypeOK'
  <2>1. PICK flow \in Flow : defs' = [defs EXCEPT ![d] = flow]
    BY <1>1 DEF CreateDefinition
  <2>2. defs' \in [Definition -> Flow \cup {NoFlow}]
    BY <2>1 DEF TypeOK
  <2>3. \A e \in Definition : defs[e] \in Flow => defs'[e] = defs[e]
    BY <1>1, <2>1, FlowsAreLists DEF TypeOK, CreateDefinition
  <2>4. \A row \in InstanceRow : InFlow(row) => InFlow(row)'
    BY <2>3 DEF InFlow, FlowOf, InstanceRow
  <2>5. \A i \in Instance : Exists(i) => inst[i] \in InstanceRow
    BY DEF TypeOK, Exists, NoInst
  <2>6. \A r \in Req : HasCopy(r) => call[r].copy \in InstanceRow
    BY DEF TypeOK, HasCopy, Resting, Finding, Working
  <2>7. UNCHANGED <<inst, rows, call, told>>
    BY <1>1 DEF CreateDefinition
  <2>8. \A i \in Instance : Exists(i)' => InFlow(inst[i])'
    BY <2>4, <2>5, <2>7 DEF TypeOK, Exists, InFlow, FlowOf
  <2>9. \A r \in Req : HasCopy(r)' => InFlow(call[r].copy)'
    BY <2>4, <2>6, <2>7 DEF TypeOK, HasCopy, InFlow, FlowOf
  <2> QED BY <2>2, <2>7, <2>8, <2>9 DEF TypeOK, HasCopy
<1>2. ASSUME NEW i \in Instance, NEW d \in Definition, SubmitWorkflow(i, d)
      PROVE  TypeOK'
  <2> DEFINE new == [status |-> "pending", def |-> d, step |-> 1, approved |-> {}]
  <2>1. inst' = [inst EXCEPT ![i] = new] /\ UNCHANGED <<defs, rows, call, told>>
    BY <1>2 DEF SubmitWorkflow
  <2>2. defs[d] \in Flow
    BY <1>2 DEF SubmitWorkflow, TypeOK
  <2>3. 1 \in DOMAIN defs[d] /\ 1 \in Steps
    BY <2>2, FlowsAreLists
  <2>4. new \in InstanceRow /\ InFlow(new) /\ new.def = d
    BY <2>2, <2>3 DEF InstanceRow, Status, InFlow, FlowOf
  <2> HIDE DEF new
  <2> QED BY <2>1, <2>4 DEF TypeOK, Exists, InFlow, FlowOf, HasCopy
<1>3. ASSUME NEW r \in Req, NEW op \in Ops, NEW b \in Branch \cup {NoBranch},
             NEW ids \in Seq(Instance) \ {<< >>}, Calls(r, op, b, ids)
      PROVE  TypeOK'
  <2> DEFINE new == [at |-> "find", op |-> op, branch |-> b, todo |-> ids]
  <2>1. call' = [call EXCEPT ![r] = new] /\ UNCHANGED <<defs, inst, rows, told>>
    BY <1>3 DEF Calls
  <2>2. new \in Finding
    BY DEF Finding
  <2> HIDE DEF new
  <2>3. rows' \in [Instance -> SUBSET Row] /\ told' \in [Instance -> SUBSET Row]
    BY <2>1 DEF TypeOK
  <2> QED BY <2>1, <2>2, <2>3, CallsKeepType
<1>4. ASSUME NEW r \in Req, NEW i \in Instance,
             \/ Approve(r, i) \/ Reject(r, i) \/ Transfer(r, i)
             \/ ReturnToApplicant(r, i) \/ Resubmit(r, i)
      PROVE  TypeOK'
  <2>1. <<i>> \in Seq(Instance) \ {<< >>}
    OBVIOUS
  <2>2. \E op \in Ops, b \in Branch \cup {NoBranch} : Calls(r, op, b, <<i>>)
    BY <1>4 DEF Approve, Reject, Transfer, ReturnToApplicant, Resubmit, Ops
  <2> QED BY <1>3, <2>1, <2>2
<1>5. ASSUME NEW r \in Req, BatchApprove(r)
      PROVE  TypeOK'
  <2>1. PICK ids \in Batches : Calls(r, "approve", NoBranch, ids)
    BY <1>5 DEF BatchApprove
  <2>2. ids \in Seq(Instance) \ {<< >>}
    BY WorkflowAssumption
  <2> QED BY <1>3, <2>1, <2>2 DEF Ops
<1>6. ASSUME NEW r \in Req, Find(r)
      PROVE  TypeOK'
  <2>1. call[r].at = "find" /\ UNCHANGED <<defs, inst, rows>>
    BY <1>6 DEF Find
  <2>2. CASE Fails(r)
    <3>1. UNCHANGED told /\ \E new \in Resting \cup Finding : call' = [call EXCEPT ![r] = new]
      BY <2>1, <2>2, Targets DEF Fails
    <3>2. rows' \in [Instance -> SUBSET Row] /\ told' \in [Instance -> SUBSET Row]
      BY <2>1, <3>1 DEF TypeOK
    <3> QED BY <2>1, <3>1, <3>2, CallsKeepType
  <2>3. CASE ~ Fails(r)
    <3> DEFINE new == [at |-> After[call[r].op].find, op |-> call[r].op, branch |-> call[r].branch,
                       todo |-> call[r].todo, copy |-> inst[Target(r)]]
    <3>1. call' = [call EXCEPT ![r] = new] /\ UNCHANGED told /\ Admits(call[r].op, inst[Target(r)])
      BY <1>6, <2>3 DEF Find
    <3>2. call[r] \in Finding /\ Target(r) \in Instance /\ call[r].op \in Ops
      BY <2>1, Targets DEF Working
    <3>3. Exists(Target(r))
      BY <3>1 DEF Admits, Exists
    <3>4. inst[Target(r)] \in InstanceRow /\ InFlow(inst[Target(r)])
      BY <3>2, <3>3 DEF TypeOK, Exists, NoInst
    <3>5. /\ new.at = After[call[r].op].find /\ new.op = call[r].op /\ new.copy = inst[Target(r)]
          /\ new \in Working
      BY <3>2, <3>4, Order DEF Finding, Working
    <3>6. new.op \notin IF new.at = "save" THEN {"transfer"} ELSE {"resubmit"}
      BY <3>2, <3>5, Order
    <3> HIDE DEF new
    <3>7. call' \in [Req -> Resting \cup Finding \cup Working]
      BY <3>1, <3>5 DEF TypeOK
    <3>8. \A s \in Req : HasCopy(s)' => /\ InFlow(call[s].copy)'
                                         /\ call'[s].op \notin IF call'[s].at = "save" THEN {"transfer"} ELSE {"resubmit"}
      <4> TAKE s \in Req
      <4>1. CASE s = r
        BY <2>1, <3>1, <3>4, <3>5, <3>6, <4>1 DEF TypeOK, InFlow, FlowOf
      <4>2. CASE s # r
        BY <2>1, <3>1, <4>2 DEF TypeOK, InFlow, FlowOf, HasCopy
      <4> QED BY <4>1, <4>2
    <3> QED BY <2>1, <3>1, <3>7, <3>8 DEF TypeOK, Exists, InFlow, FlowOf
  <2> QED BY <2>2, <2>3
<1>7. ASSUME NEW r \in Req, RecordApproval(r) \/ SaveInstance(r)
      PROVE  TypeOK'
  <2> DEFINE at == IF RecordApproval(r) THEN After[call[r].op].record ELSE After[call[r].op].save
  <2>1. HasCopy(r) /\ UNCHANGED defs
    BY <1>7 DEF RecordApproval, SaveInstance, HasCopy
  <2>2. /\ call[r] \in Working /\ Target(r) \in Instance /\ InFlow(call[r].copy)
        /\ call[r].op \notin IF call[r].at = "save" THEN {"transfer"} ELSE {"resubmit"}
    BY <2>1, Targets DEF TypeOK, HasCopy, Finding
  <2>3. TheRow(r) \in Row
    BY <2>1, RowsOfCalls
  <2>4. /\ GoesTo(r, at) \/ Fails(r)
        /\ at \in {"save", "record", "answer"}
        /\ at = "save" => call[r].op # "transfer"
        /\ at = "record" => call[r].op # "resubmit"
    <3>1. CASE RecordApproval(r)
      BY <2>2, <3>1, Order DEF RecordApproval, Working
    <3>2. CASE ~ RecordApproval(r)
      BY <1>7, <2>2, <3>2, Order DEF SaveInstance, Working
    <3> QED BY <3>1, <3>2
  <2> HIDE DEF at
  <2>5. told' \in [Instance -> SUBSET Row]
    BY <2>1, <2>2, <2>3, <2>4, GoingOn DEF TypeOK
  <2>6. rows' \in [Instance -> SUBSET Row]
    BY <1>7, <2>2, <2>3 DEF RecordApproval, SaveInstance, TypeOK
  <2>7. /\ inst' \in [Instance -> InstanceRow \cup {NoInst}]
        /\ \A i \in Instance : Exists(i)' => InFlow(inst[i])'
    <3>1. CASE UNCHANGED inst
      BY <2>1, <3>1 DEF TypeOK, Exists, InFlow, FlowOf
    <3>2. CASE ~ UNCHANGED inst
      <4>1. /\ call[r].at = "save"
            /\ \E row \in Decided(call[r].op, call[r].copy, call[r].branch) : inst' = [inst EXCEPT ![Target(r)] = row]
        BY <1>7, <3>2 DEF RecordApproval, SaveInstance
      <4>2. PICK row \in Decided(call[r].op, call[r].copy, call[r].branch) : inst' = [inst EXCEPT ![Target(r)] = row]
        BY <4>1
      <4>3. row \in InstanceRow /\ InFlow(row)
        BY <2>2, <4>1, DecidedInFlow DEF Working
      <4> QED BY <2>1, <4>2, <4>3 DEF TypeOK, Exists, InFlow, FlowOf
    <3> QED BY <3>1, <3>2
  <2>8. /\ call' \in [Req -> Resting \cup Finding \cup Working]
        /\ \A s \in Req : HasCopy(s)' => /\ InFlow(call[s].copy)'
                                         /\ call'[s].op \notin IF call'[s].at = "save" THEN {"transfer"} ELSE {"resubmit"}
    <3>1. CASE \E new \in Resting \cup Finding : call' = [call EXCEPT ![r] = new]
      <4>1. PICK new \in Resting \cup Finding : call' = [call EXCEPT ![r] = new]
        BY <3>1
      <4>2. new.at \notin {"record", "save"}
        BY <4>1 DEF Resting, Finding
      <4> QED BY <2>1, <4>1, <4>2 DEF TypeOK, HasCopy, InFlow, FlowOf
    <3>2. CASE at # "answer" /\ call' = [call EXCEPT ![r].at = at]
      <4> DEFINE new == [call[r] EXCEPT !.at = at]
      <4>1. call' = [call EXCEPT ![r] = new]
        BY <3>2
      <4>2. /\ new \in Working /\ new.at = at /\ new.copy = call[r].copy /\ new.op = call[r].op
        BY <2>2, <2>4, <3>2 DEF Working
      <4> HIDE DEF new
      <4>3. call' \in [Req -> Resting \cup Finding \cup Working]
        BY <4>1, <4>2 DEF TypeOK
      <4>4. ASSUME NEW s \in Req, HasCopy(s)'
            PROVE  /\ InFlow(call[s].copy)'
                   /\ call'[s].op \notin IF call'[s].at = "save" THEN {"transfer"} ELSE {"resubmit"}
        <5>1. CASE s = r
          BY <2>1, <2>2, <2>4, <3>2, <4>1, <4>2, <5>1 DEF TypeOK, InFlow, FlowOf
        <5>2. CASE s # r
          BY <2>1, <4>1, <4>4, <5>2 DEF TypeOK, InFlow, FlowOf, HasCopy
        <5> QED BY <5>1, <5>2
      <4> QED BY <4>3, <4>4
    <3> QED BY <2>1, <2>4, <3>1, <3>2, GoingOn
  <2> QED BY <2>1, <2>5, <2>6, <2>7, <2>8 DEF TypeOK
<1>8. ASSUME NEW r \in Req, Dies(r)
      PROVE  TypeOK'
  <2>1. call' = [call EXCEPT ![r] = [at |-> "done"]] /\ [at |-> "done"] \in Resting
        /\ UNCHANGED <<defs, inst, rows, told>>
    BY <1>8 DEF Dies, Resting
  <2>2. rows' \in [Instance -> SUBSET Row] /\ told' \in [Instance -> SUBSET Row]
    BY <2>1 DEF TypeOK
  <2> QED BY <2>1, <2>2, CallsKeepType
<1>9. CASE UNCHANGED vars
  BY <1>9 DEF vars, TypeOK, Exists, InFlow, FlowOf, HasCopy
<1> QED BY <1>1, <1>2, <1>4, <1>5, <1>6, <1>7, <1>8, <1>9 DEF Next

(***************************************************************************)
(* TypeOK is inductive, whatever the calls do.                             *)
(***************************************************************************)
THEOREM WorkflowTypeOK == Spec => []TypeOK
<1>1. Init => TypeOK
  <2> SUFFICES ASSUME Init PROVE TypeOK
    OBVIOUS
  <2>1. \A i \in Instance : inst[i] = NoInst /\ ~ Exists(i)
    BY DEF Init, NoInst, Exists
  <2>2. \A r \in Req : call[r] = [at |-> "new"] /\ ~ HasCopy(r)
    BY DEF Init, HasCopy
  <2> QED BY <2>1, <2>2 DEF Init, TypeOK, Resting
<1>2. TypeOK /\ [Next]_vars => TypeOK'
  BY TypesLast
<1> QED BY <1>1, <1>2, PTL DEF Spec

-----------------------------------------------------------------------------
(* What a step of the engine may change.                                   *)

(***************************************************************************)
(* A call that has a copy of its instance had it before, has just made it, *)
(* or goes from recording to saving or from saving to recording with it.   *)
(***************************************************************************)
LEMMA CopiesComeFrom ==
  ASSUME TypeOK, [Next]_vars, NEW r \in Req, HasCopy(r)'
  PROVE  \/ call'[r] = call[r]
         \/ /\ Target(r)' = Target(r) /\ Target(r) \in Instance
            /\ call'[r].op = call[r].op /\ call[r].op \in Ops
            /\ call'[r].branch = call[r].branch
            /\ \/ /\ call[r].at = "find" /\ call'[r].copy = inst[Target(r)]
                  /\ Admits(call[r].op, inst[Target(r)])
                  /\ call'[r].at = After[call[r].op].find
                  /\ UNCHANGED <<defs, inst, rows>>
               \/ /\ call[r].at = "record" /\ call'[r].at = "save"
                  /\ call'[r].copy = call[r].copy
                  /\ TheRow(r) \in rows'[Target(r)]
               \/ /\ call[r].at = "save" /\ call'[r].at = "record"
                  /\ call'[r].copy = call[r].copy
<1>1. ASSUME NEW s \in Req, NEW new \in Resting \cup Finding, call' = [call EXCEPT ![s] = new]
      PROVE  call'[r] = call[r]
  <2>1. new.at \notin {"record", "save"}
    BY DEF Resting, Finding
  <2> QED BY <1>1, <2>1 DEF TypeOK, HasCopy
<1>2. ASSUME NEW s \in Req, \E new : call' = [call EXCEPT ![s] = new], s # r
      PROVE  call'[r] = call[r]
  BY <1>2 DEF TypeOK
<1>3. ASSUME UNCHANGED call PROVE call'[r] = call[r]
  BY <1>3
<1>4. ASSUME NEW s \in Req, NEW op, NEW b, NEW ids, Calls(s, op, b, ids)
      PROVE  call'[r] = call[r]
  <2> DEFINE new == [at |-> "find", op |-> op, branch |-> b, todo |-> ids]
  <2>1. call' = [call EXCEPT ![s] = new] /\ new.at = "find"
    BY <1>4 DEF Calls
  <2> HIDE DEF new
  <2> QED BY <2>1 DEF TypeOK, HasCopy
<1>5. ASSUME NEW s \in Req, Find(s)
      PROVE  \/ call'[r] = call[r]
             \/ /\ s = r /\ call[r].at = "find"
                /\ call' = [call EXCEPT ![r] =
                     [at |-> After[@.op].find, op |-> @.op, branch |-> @.branch,
                      todo |-> @.todo, copy |-> inst[Target(r)]]]
                /\ Admits(call[r].op, inst[Target(r)])
  <2>1. call[s].at = "find"
    BY <1>5 DEF Find
  <2>2. CASE Fails(s)
    BY <1>1, <2>1, <2>2, Targets DEF Fails
  <2>3. CASE ~ Fails(s)
    <3>1. /\ call' = [call EXCEPT ![s] =
                     [at |-> After[@.op].find, op |-> @.op, branch |-> @.branch,
                      todo |-> @.todo, copy |-> inst[Target(s)]]]
          /\ Admits(call[s].op, inst[Target(s)])
      BY <1>5, <2>3 DEF Find
    <3> QED BY <1>2, <2>1, <3>1
  <2> QED BY <2>2, <2>3
<1>6. ASSUME NEW s \in Req, RecordApproval(s)
      PROVE  \/ call'[r] = call[r]
             \/ /\ s = r /\ call[r].at = "record" /\ TheRow(r) \in rows'[Target(r)]
                /\ call' = [call EXCEPT ![r].at = "save"]
  <2>1. /\ call[s].at = "record" /\ HasCopy(s)
        /\ Fails(s) \/ (GoesTo(s, After[call[s].op].record) /\ (rows' = [rows EXCEPT ![Target(s)] = @ \cup {TheRow(s)}] \/ UNCHANGED rows))
    BY <1>6 DEF RecordApproval, HasCopy
  <2>2. call[s].op \in Ops \ {"resubmit"} /\ Target(s) \in Instance
    BY <2>1, Targets DEF TypeOK, HasCopy
  <2>3. After[call[s].op].record \in {"save", "answer"}
    BY <2>2, Order
  <2>4. CASE Fails(s)
    BY <1>1, <2>1, <2>4, Targets DEF Fails
  <2>5. CASE ~ Fails(s)
    <3>1. rows' = [rows EXCEPT ![Target(s)] = @ \cup {TheRow(s)}]
      BY <1>6, <2>5 DEF RecordApproval
    <3>2. TheRow(s) \in rows'[Target(s)]
      BY <2>2, <3>1 DEF TypeOK
    <3>3. \/ \E new \in Resting \cup Finding : call' = [call EXCEPT ![s] = new]
          \/ call' = [call EXCEPT ![s].at = "save"]
      BY <2>1, <2>3, <2>5, GoingOn
    <3> QED BY <1>1, <1>2, <2>1, <3>2, <3>3
  <2> QED BY <2>4, <2>5
<1>7. ASSUME NEW s \in Req, SaveInstance(s)
      PROVE  \/ call'[r] = call[r]
             \/ s = r /\ call[r].at = "save" /\ call' = [call EXCEPT ![r].at = "record"]
  <2>1. /\ call[s].at = "save" /\ HasCopy(s)
        /\ Fails(s) \/ GoesTo(s, After[call[s].op].save)
    BY <1>7 DEF SaveInstance, HasCopy
  <2>2. call[s].op \in Ops \ {"transfer"}
    BY <2>1, Targets DEF TypeOK
  <2>3. After[call[s].op].save \in {"record", "answer"}
    BY <2>2, Order
  <2>4. \/ \E new \in Resting \cup Finding : call' = [call EXCEPT ![s] = new]
        \/ call' = [call EXCEPT ![s].at = "record"]
    BY <2>1, <2>3, GoingOn
  <2> QED BY <1>1, <1>2, <2>1, <2>4
<1>8. ASSUME NEW s \in Req, Dies(s) PROVE call'[r] = call[r]
  BY <1>1, <1>8 DEF Dies, Resting
<1>9. \/ call'[r] = call[r]
      \/ /\ call[r].at = "find" /\ UNCHANGED <<defs, inst, rows>>
         /\ call' = [call EXCEPT ![r] =
              [at |-> After[@.op].find, op |-> @.op, branch |-> @.branch,
               todo |-> @.todo, copy |-> inst[Target(r)]]]
         /\ Admits(call[r].op, inst[Target(r)])
      \/ /\ call[r].at = "record" /\ TheRow(r) \in rows'[Target(r)]
         /\ call' = [call EXCEPT ![r].at = "save"]
      \/ call[r].at = "save" /\ call' = [call EXCEPT ![r].at = "record"]
  <2>1. CASE \E d \in Definition : CreateDefinition(d)
    BY <1>3, <2>1 DEF CreateDefinition
  <2>2. CASE \E i \in Instance, d \in Definition : SubmitWorkflow(i, d)
    BY <1>3, <2>2 DEF SubmitWorkflow
  <2>3. CASE \E s \in Req, i \in Instance : \/ Approve(s, i) \/ Reject(s, i) \/ Transfer(s, i)
                                            \/ ReturnToApplicant(s, i) \/ Resubmit(s, i)
    BY <1>4, <2>3 DEF Approve, Reject, Transfer, ReturnToApplicant, Resubmit
  <2>4. CASE \E s \in Req : BatchApprove(s)
    BY <1>4, <2>4 DEF BatchApprove
  <2>5. CASE \E s \in Req : Find(s)
    <3>1. UNCHANGED <<defs, inst, rows>>
      BY <2>5 DEF Find
    <3> QED BY <1>5, <2>5, <3>1
  <2>6. CASE UNCHANGED vars
    BY <1>3, <2>6 DEF vars
  <2> QED BY <1>6, <1>7, <1>8, <2>1, <2>2, <2>3, <2>4, <2>5, <2>6 DEF Next
<1>10. CASE call'[r] # call[r]
  <2>1. call[r].at \in {"find", "record", "save"}
    BY <1>9, <1>10
  <2>2. call[r] \in Finding \cup Working /\ call[r].op \in Ops /\ Target(r) \in Instance
    BY <2>1, Targets
  <2>3. call[r].at # "find" => call[r] \in Working
    BY <2>2 DEF Finding
  <2>4. CASE call[r].at = "find" /\ UNCHANGED <<defs, inst, rows>> /\ Admits(call[r].op, inst[Target(r)])
             /\ call' = [call EXCEPT ![r] =
                  [at |-> After[@.op].find, op |-> @.op, branch |-> @.branch,
                   todo |-> @.todo, copy |-> inst[Target(r)]]]
    <3>1. call'[r] = [at |-> After[call[r].op].find, op |-> call[r].op, branch |-> call[r].branch,
                      todo |-> call[r].todo, copy |-> inst[Target(r)]]
      BY <2>4 DEF TypeOK
    <3> QED BY <2>2, <2>4, <3>1 DEF Target
  <2>5. CASE call[r].at = "record" /\ TheRow(r) \in rows'[Target(r)] /\ call' = [call EXCEPT ![r].at = "save"]
    <3>1. call'[r] = [call[r] EXCEPT !.at = "save"] /\ call[r] \in Working
      BY <2>3, <2>5 DEF TypeOK
    <3>2. /\ call'[r].at = "save" /\ call'[r].op = call[r].op /\ call'[r].branch = call[r].branch
          /\ call'[r].todo = call[r].todo /\ call'[r].copy = call[r].copy
      BY <3>1 DEF Working
    <3> QED BY <2>2, <2>5, <3>2 DEF Target
  <2>6. CASE call[r].at = "save" /\ call' = [call EXCEPT ![r].at = "record"]
    <3>1. call'[r] = [call[r] EXCEPT !.at = "record"] /\ call[r] \in Working
      BY <2>3, <2>6 DEF TypeOK
    <3>2. /\ call'[r].at = "record" /\ call'[r].op = call[r].op /\ call'[r].branch = call[r].branch
          /\ call'[r].todo = call[r].todo /\ call'[r].copy = call[r].copy
      BY <3>1 DEF Working
    <3> QED BY <2>2, <2>6, <3>2 DEF Target
  <2> QED BY <1>9, <1>10, <2>4, <2>5, <2>6
<1> QED BY <1>10

(***************************************************************************)
(* The row of an instance changes when it is submitted and when a call     *)
(* saves what it decided on its copy.                                      *)
(***************************************************************************)
LEMMA InstancesComeFrom ==
  ASSUME TypeOK, [Next]_vars, NEW i \in Instance
  PROVE  \/ inst'[i] = inst[i]
         \/ /\ ~ Exists(i) /\ UNCHANGED <<defs, rows, call, told>>
            /\ \E d \in Definition : inst'[i] = [status |-> "pending", def |-> d, step |-> 1, approved |-> {}]
         \/ \E r \in Req : /\ call[r].at = "save" /\ Target(r) = i
                           /\ inst'[i] \in Decided(call[r].op, call[r].copy, call[r].branch)
<1>1. CASE \E j \in Instance, d \in Definition : SubmitWorkflow(j, d)
  BY <1>1 DEF SubmitWorkflow, TypeOK
<1>2. CASE \E r \in Req : SaveInstance(r)
  <2>1. PICK r \in Req : SaveInstance(r)
    BY <1>2
  <2>2. call[r].at = "save" /\ Target(r) \in Instance
    BY <2>1, Targets DEF SaveInstance
  <2> QED BY <2>1, <2>2 DEF SaveInstance, TypeOK
<1>3. CASE UNCHANGED inst
  BY <1>3
<1>4. \/ \E j \in Instance, d \in Definition : SubmitWorkflow(j, d)
      \/ \E r \in Req : SaveInstance(r)
      \/ UNCHANGED inst
  BY DEF Next, vars, CreateDefinition, Calls, Approve, Reject, Transfer, ReturnToApplicant, Resubmit,
         BatchApprove, Find, RecordApproval, Dies
<1> QED BY <1>1, <1>2, <1>3, <1>4

(***************************************************************************)
(* Flows are never changed, and the approval history only grows.           *)
(***************************************************************************)
LEMMA HistoryGrows ==
  ASSUME TypeOK, [Next]_vars
  PROVE  /\ \A d \in Definition : defs[d] \in Flow => defs'[d] = defs[d]
         /\ \A i \in Instance : rows[i] \subseteq rows'[i]
<1>1. CASE \E d \in Definition : CreateDefinition(d)
  BY <1>1, FlowsAreLists DEF CreateDefinition, TypeOK
<1>2. CASE \E r \in Req : RecordApproval(r)
  BY <1>2 DEF RecordApproval, TypeOK
<1>3. CASE UNCHANGED <<defs, rows>>
  BY <1>3
<1>4. \/ \E d \in Definition : CreateDefinition(d)
      \/ \E r \in Req : RecordApproval(r)
      \/ UNCHANGED <<defs, rows>>
  BY DEF Next, vars, SubmitWorkflow, Calls, Approve, Reject, Transfer, ReturnToApplicant, Resubmit,
         BatchApprove, Find, SaveInstance, Dies
<1> QED BY <1>1, <1>2, <1>3, <1>4

(***************************************************************************)
(* A caller is told of success by a call that has just recorded, or that   *)
(* approved or rejected and has just saved.                                *)
(***************************************************************************)
LEMMA ToldComesFrom ==
  ASSUME TypeOK, [Next]_vars, NEW i \in Instance
  PROVE  \/ told'[i] = told[i]
         \/ \E r \in Req : /\ Target(r) = i /\ told'[i] = told[i] \cup {TheRow(r)}
                           /\ \/ TheRow(r) \in rows'[i]
                              \/ call[r].at = "save" /\ call[r].op \in {"approve", "reject"}
<1>1. ASSUME NEW r \in Req, RecordApproval(r) \/ SaveInstance(r), ~ UNCHANGED told
      PROVE  /\ Target(r) \in Instance
             /\ told' = [told EXCEPT ![Target(r)] = @ \cup {TheRow(r)}]
             /\ \/ TheRow(r) \in rows'[Target(r)]
                \/ call[r].at = "save" /\ call[r].op \in {"approve", "reject"}
  <2>1. HasCopy(r) /\ ~ Fails(r)
    BY <1>1 DEF RecordApproval, SaveInstance, HasCopy, Fails
  <2>2. call[r].op \in Ops /\ Target(r) \in Instance
        /\ call[r].op \notin IF call[r].at = "save" THEN {"transfer"} ELSE {"resubmit"}
    BY <2>1, Targets DEF HasCopy, TypeOK
  <2>3. CASE RecordApproval(r)
    <3>1. GoesTo(r, After[call[r].op].record) /\ call[r].at = "record"
          /\ rows' = [rows EXCEPT ![Target(r)] = @ \cup {TheRow(r)}]
      BY <2>1, <2>3 DEF RecordApproval
    <3>2. After[call[r].op].record \in {"save", "answer"}
      BY <2>2, <3>1, Order
    <3>3. told' = [told EXCEPT ![Target(r)] = @ \cup {TheRow(r)}]
      BY <1>1, <2>1, <3>1, <3>2, GoingOn
    <3> QED BY <2>2, <3>1, <3>3 DEF TypeOK
  <2>4. CASE ~ RecordApproval(r)
    <3>1. GoesTo(r, After[call[r].op].save) /\ call[r].at = "save"
      BY <1>1, <2>1, <2>4 DEF SaveInstance
    <3>2. After[call[r].op].save = IF call[r].op = "return" THEN "record" ELSE "answer"
      BY <2>2, <3>1, Order
    <3>3. /\ told' = [told EXCEPT ![Target(r)] = @ \cup {TheRow(r)}]
          /\ After[call[r].op].save = "answer" /\ call[r].op # "resubmit"
      BY <1>1, <2>1, <3>1, <3>2, GoingOn
    <3>4. call[r].op \in {"approve", "reject"}
      BY <2>2, <3>1, <3>2, <3>3 DEF Ops
    <3> QED BY <2>2, <3>1, <3>3, <3>4
  <2> QED BY <2>3, <2>4
<1>2. UNCHANGED told \/ \E r \in Req : RecordApproval(r) \/ SaveInstance(r)
  BY DEF Next, vars, CreateDefinition, SubmitWorkflow, Calls, Approve, Reject, Transfer, ReturnToApplicant,
         Resubmit, BatchApprove, Find, Fails, Dies
<1> QED BY <1>1, <1>2 DEF TypeOK

-----------------------------------------------------------------------------
(* The history is complete.                                                *)

(***************************************************************************)
(* Whoever is about to save an approval or a rejection has recorded it,    *)
(* and every action whose caller was told of success is in the history:    *)
(* rows are added and never taken away, and an error ends the call.        *)
(***************************************************************************)
LEMMA HistoryIsKept == Spec => [](RecordedFirst /\ HistoryIsComplete)
<1> DEFINE Inv == RecordedFirst /\ HistoryIsComplete
<1>1. Init => Inv
  BY DEF Init, RecordedFirst, HistoryIsComplete
<1>2. TypeOK /\ Inv /\ [Next]_vars => Inv'
  <2> SUFFICES ASSUME TypeOK, Inv, [Next]_vars
               PROVE  Inv'
    OBVIOUS
  <2>1. \A i \in Instance : rows[i] \subseteq rows'[i]
    BY HistoryGrows
  <2>2. ASSUME NEW r \in Req, call'[r].at = "save", call'[r].op \in {"approve", "reject"}
        PROVE  TheRow(r)' \in rows'[Target(r)']
    <3>1. HasCopy(r)'
      BY <2>2 DEF HasCopy
    <3>2. CASE call'[r] = call[r]
      <4>1. TheRow(r) \in rows[Target(r)] /\ TheRow(r)' = TheRow(r) /\ Target(r)' = Target(r)
        BY <2>2, <3>2 DEF RecordedFirst, TheRow, Target
      <4>2. Target(r) \in Instance
        BY <2>2, <3>2, Targets
      <4> QED BY <2>1, <4>1, <4>2
    <3>3. CASE call'[r] # call[r]
      <4>1. /\ Target(r)' = Target(r) /\ Target(r) \in Instance
            /\ call'[r].op = call[r].op /\ call[r].op \in Ops /\ call'[r].branch = call[r].branch
            /\ \/ call[r].at = "find" /\ call'[r].at = After[call[r].op].find
               \/ call'[r].copy = call[r].copy /\ TheRow(r) \in rows'[Target(r)]
        BY <2>2, <3>1, <3>3, CopiesComeFrom
      <4>2. call'[r].copy = call[r].copy /\ TheRow(r) \in rows'[Target(r)]
        BY <2>2, <4>1, Order
      <4> QED BY <4>1, <4>2 DEF TheRow
    <3> QED BY <3>2, <3>3
  <2>3. ASSUME NEW i \in Instance
        PROVE  told'[i] \subseteq rows'[i]
    <3>1. CASE told'[i] = told[i]
      BY <2>1, <3>1 DEF HistoryIsComplete
    <3>2. CASE told'[i] # told[i]
      <4>1. PICK r \in Req : /\ Target(r) = i /\ told'[i] = told[i] \cup {TheRow(r)}
                             /\ \/ TheRow(r) \in rows'[i]
                                \/ call[r].at = "save" /\ call[r].op \in {"approve", "reject"}
        BY <3>2, ToldComesFrom
      <4>2. TheRow(r) \in rows'[i]
        BY <2>1, <4>1 DEF RecordedFirst
      <4> QED BY <2>1, <4>1, <4>2 DEF HistoryIsComplete
    <3> QED BY <3>1, <3>2
  <2> QED BY <2>2, <2>3 DEF RecordedFirst, HistoryIsComplete
<1> QED BY <1>1, <1>2, WorkflowTypeOK, PTL DEF Spec

(***************************************************************************)
(* No caller is told of an approval, a rejection, a transfer or a return   *)
(* that the history does not show.                                         *)
(***************************************************************************)
THEOREM SuccessesAreRecorded == Spec => []HistoryIsComplete
BY HistoryIsKept, PTL

-----------------------------------------------------------------------------
(* Decisions are final.                                                    *)

(***************************************************************************)
(* A call works on a copy that its operation admits, of an instance that   *)
(* keeps its flow.                                                         *)
(***************************************************************************)
LEMMA CopiesStayAdmitted ==
  ASSUME TypeOK, CopiesAdmitted, [Next]_vars
  PROVE  /\ CopiesAdmitted'
         /\ \A i \in Instance : Exists(i) =>
              Exists(i)' /\ inst'[i].def = inst[i].def /\ FlowOf(inst[i])' = FlowOf(inst[i])
<1>1. ASSUME NEW i \in Instance, Exists(i)
      PROVE  /\ Exists(i)' /\ inst'[i].def = inst[i].def
             /\ FlowOf(inst[i])' = FlowOf(inst[i])
  <2>1. inst[i] \in InstanceRow /\ InFlow(inst[i])
    BY <1>1 DEF TypeOK, Exists, NoInst
  <2>2. Exists(i)' /\ inst'[i].def = inst[i].def
    <3>1. CASE inst'[i] = inst[i]
      BY <1>1, <3>1 DEF Exists
    <3>2. CASE inst'[i] # inst[i]
      <4>1. PICK r \in Req : /\ call[r].at = "save" /\ Target(r) = i
                             /\ inst'[i] \in Decided(call[r].op, call[r].copy, call[r].branch)
        BY <1>1, <3>2, InstancesComeFrom
      <4>2. /\ call[r] \in Working /\ InFlow(call[r].copy) /\ call[r].op # "transfer"
            /\ inst[i].def = call[r].copy.def
        BY <4>1, Targets DEF TypeOK, HasCopy, Finding, CopiesAdmitted
      <4>3. inst'[i] \in InstanceRow /\ inst'[i].def = call[r].copy.def
        BY <4>1, <4>2, DecidedInFlow DEF Working
      <4> QED BY <4>2, <4>3 DEF Exists, InstanceRow, Status
    <3> QED BY <3>1, <3>2
  <2>3. defs'[inst[i].def] = defs[inst[i].def]
    BY <2>1, HistoryGrows DEF InFlow, FlowOf, InstanceRow
  <2> QED BY <2>2, <2>3 DEF FlowOf
<1>2. ASSUME NEW r \in Req, HasCopy(r)'
      PROVE  /\ Exists(Target(r))' /\ inst'[Target(r)'].def = call'[r].copy.def
             /\ Admits(call[r].op, call[r].copy)'
  <2>1. CASE call'[r] = call[r]
    <3>1. HasCopy(r) /\ Target(r)' = Target(r)
      BY <1>2, <2>1 DEF HasCopy, Target
    <3>2. Target(r) \in Instance
      BY <3>1, Targets DEF HasCopy
    <3> QED BY <1>1, <2>1, <3>1, <3>2 DEF CopiesAdmitted, Exists, Admits
  <2>2. CASE call'[r] # call[r]
    <3>1. /\ Target(r)' = Target(r) /\ Target(r) \in Instance /\ call'[r].op = call[r].op
          /\ \/ /\ call'[r].copy = inst[Target(r)] /\ UNCHANGED inst
                /\ Admits(call[r].op, inst[Target(r)])
             \/ HasCopy(r) /\ call'[r].copy = call[r].copy
      BY <1>2, <2>2, CopiesComeFrom DEF HasCopy
    <3>2. CASE call'[r].copy = inst[Target(r)] /\ UNCHANGED inst /\ Admits(call[r].op, inst[Target(r)])
      BY <3>1, <3>2 DEF Exists, Admits
    <3>3. CASE HasCopy(r) /\ call'[r].copy = call[r].copy
      BY <1>1, <3>1, <3>3 DEF CopiesAdmitted, Exists, Admits
    <3> QED BY <3>1, <3>2, <3>3
  <2> QED BY <2>1, <2>2
<1> QED BY <1>1, <1>2 DEF CopiesAdmitted

(***************************************************************************)
(* The copies of calls are admitted in every behaviour.                    *)
(***************************************************************************)
LEMMA CopiesAreAdmitted == Spec => []CopiesAdmitted
<1>1. Init => CopiesAdmitted
  BY DEF Init, CopiesAdmitted, HasCopy
<1>2. TypeOK /\ CopiesAdmitted /\ [Next]_vars => CopiesAdmitted'
  BY CopiesStayAdmitted
<1> QED BY <1>1, <1>2, WorkflowTypeOK, PTL DEF Spec

(***************************************************************************)
(* An approved or rejected instance stays as it is once no call holds a    *)
(* copy from before the decision: no operation admits a decided instance,  *)
(* so no later call comes to hold one.                                     *)
(***************************************************************************)
THEOREM DecisionsAreFinal == Spec => DecisionIsFinal
<1>1. TypeOK /\ CopiesAdmitted /\ [Next]_vars => [\A i \in Instance : Settled(i) => inst'[i] = inst[i]]_vars
  <2> SUFFICES ASSUME TypeOK, CopiesAdmitted, [Next]_vars, NEW i \in Instance, Settled(i), inst'[i] # inst[i]
               PROVE  FALSE
    OBVIOUS
  <2>1. PICK r \in Req : call[r].at = "save" /\ Target(r) = i
    BY InstancesComeFrom DEF Settled
  <2>2. HasCopy(r)
    BY <2>1 DEF HasCopy
  <2>3. call[r].copy.status \in Decisive /\ Admits(call[r].op, call[r].copy)
    BY <2>1, <2>2 DEF Settled, CopiesAdmitted
  <2> QED BY <2>3 DEF Decisive, Admits
<1> QED BY <1>1, WorkflowTypeOK, CopiesAreAdmitted, PTL DEF Spec, DecisionIsFinal

-----------------------------------------------------------------------------
(* Instances keep to the route of their history.                           *)

(***************************************************************************)
(* The places a history leads to hold the first step and whatever a passed *)
(* step of theirs leads to.                                                *)
(***************************************************************************)
LEMMA ReachedIsClosed ==
  ASSUME NEW i \in Instance, FlowOf(inst[i]) \in Flow
  PROVE  /\ 1 \in Reached(i)
         /\ \A k \in Reached(i) \cap DOMAIN FlowOf(inst[i]) :
              StepPassed(i, k) => LeadsTo(FlowOf(inst[i]), k) \subseteq Reached(i)
<1> DEFINE flow == FlowOf(inst[i])
           places == 1 .. (Len(flow) + 1)
<1>1. Len(flow) \in Nat \ {0} /\ \A k \in DOMAIN flow : LeadsTo(flow, k) \subseteq places
  BY FlowsAreLists, LeadsWithin
<1>2. \A k : k \in Reached(i) <=> k \in places /\ \A S \in SUBSET places : Closed(i, S) => k \in S
  BY DEF Reached
<1>3. \A S : Closed(i, S) <=> 1 \in S /\ \A k \in S \cap DOMAIN flow : StepPassed(i, k) => LeadsTo(flow, k) \subseteq S
  BY DEF Closed
<1> HIDE DEF flow, places
<1>4. 1 \in places
  BY <1>1 DEF places
<1>5. 1 \in Reached(i)
  BY <1>2, <1>3, <1>4
<1>6. ASSUME NEW k \in Reached(i) \cap DOMAIN flow, StepPassed(i, k), NEW m \in LeadsTo(flow, k)
      PROVE  m \in Reached(i)
  BY <1>1, <1>2, <1>3, <1>6
<1> QED BY <1>5, <1>6 DEF flow

(***************************************************************************)
(* A longer history leads to no fewer places.                              *)
(***************************************************************************)
LEMMA ReachedGrows ==
  ASSUME NEW i \in Instance, FlowOf(inst[i])' = FlowOf(inst[i]), rows[i] \subseteq rows'[i]
  PROVE  Reached(i) \subseteq Reached(i)'
<1> DEFINE flow == FlowOf(inst[i])
           places == 1 .. (Len(flow) + 1)
<1>1. \A k : StepPassed(i, k) => StepPassed(i, k)'
  BY DEF StepPassed
<1>2. ASSUME NEW S, Closed(i, S)' PROVE Closed(i, S)
  <2>1. 1 \in S /\ \A k \in S \cap DOMAIN flow : StepPassed(i, k)' => LeadsTo(flow, k)' \subseteq S
    BY <1>2 DEF Closed
  <2>2. \A k : LeadsTo(flow, k)' = LeadsTo(flow, k)
    BY DEF LeadsTo
  <2> QED BY <1>1, <2>1, <2>2 DEF Closed
<1>3. \A k : k \in Reached(i) => k \in places /\ \A S \in SUBSET places : Closed(i, S) => k \in S
  BY DEF Reached
<1>4. \A k : k \in places /\ (\A S \in SUBSET places : Closed(i, S)' => k \in S) => k \in Reached(i)'
  BY DEF Reached
<1> HIDE DEF places
<1> QED BY <1>2, <1>3, <1>4

(***************************************************************************)
(* What a call decides on a copy that is on the route of its history stays *)
(* on it, provided that an approval is recorded first: a step is left only *)
(* for where it leads, and an instance is approved only at the end.        *)
(***************************************************************************)
LEMMA DecidedOnRoute ==
  ASSUME NEW i \in Instance, rows[i] \subseteq Row,
         NEW copy \in InstanceRow, InFlow(copy), FlowOf(inst[i]) = FlowOf(copy),
         OnRoute(i, copy), copy.status # "approved",
         NEW op \in Ops \ {"transfer"}, NEW branch \in Branch \cup {NoBranch},
         op = "approve" => [step |-> copy.step, action |-> "approve", branch |-> branch] \in rows[i],
         NEW row \in Decided(op, copy, branch)
  PROVE  /\ OnRoute(i, row)
         /\ row.status = "approved" => Len(FlowOf(inst[i])) + 1 \in Reached(i)
<1> DEFINE flow == FlowOf(inst[i])
           here == copy.step
           good(new) == /\ OnRoute(i, new)
                        /\ new.status = "approved" => Len(flow) + 1 \in Reached(i)
<1>1. /\ flow \in Flow /\ here \in DOMAIN flow /\ here \in Reached(i)
      /\ Len(flow) \in Nat \ {0} /\ DOMAIN flow = 1 .. Len(flow) /\ flow \in Seq(FlowStep)
      /\ MarksAreRecorded(i, copy)
  BY FlowsAreLists DEF InFlow, OnRoute
<1>2. StepPassed(i, here) => LeadsTo(flow, here) \subseteq Reached(i)
  BY <1>1, ReachedIsClosed
<1>3. StepOf(copy) = flow[here] /\ flow[here].kind \in Kinds
  <2>1. flow[here] \in FlowStep
    BY <1>1, ElementOfSeq
  <2> QED BY <2>1 DEF FlowStep, StepOf
<1>4. flow = FlowOf(copy)
  OBVIOUS
<1>5. flow[here].kind # "parallel" => copy.approved = {}
  BY <1>1, <1>3 DEF MarksAreRecorded
<1> HIDE DEF flow, here
<1>6. ASSUME NEW new \in InstanceRow, new.def = copy.def, new.step \in Reached(i), new.approved = {}
      PROVE  OnRoute(i, new)
  BY <1>6 DEF OnRoute, MarksAreRecorded
<1>7. ASSUME NEW new \in InstanceRow, new.def = copy.def, new.step = here, new.approved = {},
             new.status # "approved", StepPassed(i, here), flow[here].kind # "condition"
      PROVE  good(Onward(new))
  <2>1. here + 1 \in Reached(i)
    BY <1>2, <1>7 DEF LeadsTo
  <2>2. FlowOf(new) = flow
    BY <1>4, <1>7 DEF FlowOf
  <2>3. CASE here + 1 > Len(flow)
    <3>1. Onward(new) = [new EXCEPT !.status = "approved"] /\ here = Len(flow)
      BY <1>1, <1>7, <2>2, <2>3 DEF Onward, Approved
    <3>2. /\ Onward(new) \in InstanceRow /\ Onward(new).def = copy.def /\ Onward(new).step = here
          /\ Onward(new).approved = {}
      BY <1>7, <3>1 DEF InstanceRow, Status
    <3> QED BY <1>1, <1>6, <2>1, <3>1, <3>2
  <2>4. CASE ~ (here + 1 > Len(flow))
    <3>1. Onward(new) = [new EXCEPT !.step = here + 1] /\ here + 1 \in DOMAIN flow
      BY <1>1, <1>7, <2>2, <2>4 DEF Onward, MovedTo
    <3>2. here + 1 \in Steps
      BY <1>1, <3>1, FlowsAreLists
    <3>3. /\ Onward(new) \in InstanceRow /\ Onward(new).def = copy.def /\ Onward(new).step = here + 1
          /\ Onward(new).approved = {} /\ Onward(new).status # "approved"
      BY <1>7, <3>1, <3>2 DEF InstanceRow
    <3> QED BY <1>6, <2>1, <3>3
  <2> QED BY <2>3, <2>4
<1>8. CASE op \in {"reject", "return", "resubmit"}
  <2>1. /\ row.def = copy.def /\ row.step = copy.step /\ row.approved = copy.approved
        /\ row.status # "approved"
    BY <1>8 DEF Decided, InstanceRow
  <2> QED BY <1>1, <2>1 DEF OnRoute, MarksAreRecorded, StepOf, FlowOf, here
<1>9. CASE op = "approve" /\ flow[here].kind # "parallel"
  <2>1. StepPassed(i, here)
    BY <1>9 DEF StepPassed, flow, here
  <2>2. CASE flow[here].kind = "serial"
    <3>1. row = Onward(copy)
      BY <1>3, <1>9, <2>2 DEF Decided
    <3> QED BY <1>5, <1>7, <2>1, <2>2, <3>1 DEF here, flow
  <2>3. CASE flow[here].kind = "condition"
    <3>1. row \in ApproveCondition(copy)
      BY <1>3, <1>9, <2>3 DEF Decided
    <3>2. PICK route \in ConditionRoutes(flow[here]) :
             row \in (IF route = End THEN {Approved(copy)} ELSE {MovedTo(copy, k) : k \in NamedStep(flow, route)})
      BY <1>3, <1>4, <3>1 DEF ApproveCondition
    <3>3. (IF route = End THEN {Len(flow) + 1} ELSE NamedStep(flow, route)) \subseteq Reached(i)
      BY <1>2, <2>1, <2>3, <3>2 DEF LeadsTo
    <3>4. CASE route = End
      <4>1. row = [copy EXCEPT !.status = "approved"]
        BY <3>2, <3>4 DEF Approved
      <4>2. row \in InstanceRow /\ row.def = copy.def /\ row.step = here /\ row.approved = {}
        BY <1>5, <1>9, <4>1 DEF InstanceRow, Status, here
      <4> QED BY <1>1, <1>6, <3>3, <3>4, <4>2 DEF flow
    <3>5. CASE route # End
      <4>1. PICK k \in NamedStep(flow, route) : row = [copy EXCEPT !.step = k]
        BY <3>2, <3>5 DEF MovedTo
      <4>2. k \in Steps
        BY <1>1, <4>1, FlowsAreLists DEF NamedStep
      <4>3. /\ row \in InstanceRow /\ row.def = copy.def /\ row.step = k /\ row.approved = {}
            /\ row.status # "approved"
        BY <1>5, <1>9, <4>1, <4>2 DEF InstanceRow
      <4> QED BY <1>6, <3>3, <3>5, <4>1, <4>3
    <3> QED BY <3>4, <3>5
  <2> QED BY <1>3, <1>9, <2>2, <2>3 DEF Kinds
<1>10. CASE op = "approve" /\ flow[here].kind = "parallel"
  <2> DEFINE marked == WithBranch(copy, branch)
             cleared == [marked EXCEPT !.approved = {}]
  <2>1. row = IF AllParallelBranchesApproved(marked) THEN Onward(cleared) ELSE marked
    BY <1>3, <1>10 DEF Decided, ApproveParallel
  <2>2. /\ marked \in InstanceRow /\ marked.def = copy.def /\ marked.step = here
        /\ marked.approved = copy.approved \cup {branch} /\ marked.status # "approved"
    BY DEF WithBranch, InstanceRow, here
  <2>3. /\ cleared \in InstanceRow /\ cleared.def = copy.def /\ cleared.step = here
        /\ cleared.approved = {} /\ cleared.status # "approved"
    BY <2>2 DEF InstanceRow
  <2>4. \A b \in marked.approved : [step |-> here, action |-> "approve", branch |-> b] \in rows[i]
    BY <1>1, <1>10, <2>2 DEF MarksAreRecorded, here
  <2>5. StepOf(marked) = flow[here]
    BY <1>4, <2>2 DEF StepOf, FlowOf
  <2> HIDE DEF marked, cleared
  <2>6. CASE AllParallelBranchesApproved(marked)
    <3>1. StepPassed(i, here)
      BY <1>10, <2>4, <2>5, <2>6 DEF StepPassed, AllParallelBranchesApproved, flow
    <3> QED BY <1>7, <1>10, <2>1, <2>3, <2>6, <3>1 DEF flow
  <2>7. CASE ~ AllParallelBranchesApproved(marked)
    BY <1>1, <1>10, <2>1, <2>2, <2>4, <2>5, <2>7 DEF OnRoute, MarksAreRecorded
  <2> QED BY <2>6, <2>7
<1> QED BY <1>8, <1>9, <1>10 DEF Ops

(***************************************************************************)
(* A row that is on the route of its instance stays on it while the        *)
(* history grows.                                                          *)
(***************************************************************************)
LEMMA RoutesLast ==
  ASSUME NEW i \in Instance, NEW row, OnRoute(i, row), InFlow(row),
         FlowOf(inst[i])' = FlowOf(inst[i]), FlowOf(row)' = FlowOf(row), rows[i] \subseteq rows'[i]
  PROVE  /\ row.step \in Reached(i)'
         /\ (StepOf(row).kind # "parallel")' => row.approved = {}
         /\ \A b \in row.approved : [step |-> row.step, action |-> "approve", branch |-> b] \in rows'[i]
BY ReachedGrows DEF OnRoute, MarksAreRecorded, StepOf

(***************************************************************************)
(* Instances and the copies calls have of them keep to the routes of their *)
(* histories: of two calls with one copy the second may undo the step of   *)
(* the first, but never reaches a step no approval led to.                 *)
(***************************************************************************)
THEOREM RoutesAreApproved == Spec => []RouteIsApproved
<1> DEFINE Inv == CopiesOnRoute /\ RouteIsApproved
<1>1. Init => Inv
  BY DEF Init, CopiesOnRoute, RouteIsApproved, HasCopy, Exists, NoInst
<1>2. TypeOK /\ CopiesAdmitted /\ RecordedFirst /\ Inv /\ [Next]_vars => Inv'
  <2> SUFFICES ASSUME TypeOK, CopiesAdmitted, RecordedFirst, Inv, [Next]_vars
               PROVE  Inv'
    OBVIOUS
  <2>1. /\ \A d \in Definition : defs[d] \in Flow => defs'[d] = defs[d]
        /\ \A i \in Instance : rows[i] \subseteq rows'[i]
    BY HistoryGrows
  <2>2. \A i \in Instance : Exists(i) =>
          Exists(i)' /\ inst'[i].def = inst[i].def /\ FlowOf(inst[i])' = FlowOf(inst[i])
    BY CopiesStayAdmitted
  <2>3. \A i \in Instance : Exists(i) => inst[i] \in InstanceRow /\ InFlow(inst[i]) /\ OnRoute(i, inst[i])
    BY DEF TypeOK, Exists, NoInst, CopiesOnRoute
  <2>4. ASSUME NEW i \in Instance, Exists(i), NEW row \in InstanceRow, InFlow(row), OnRoute(i, row)
        PROVE  OnRoute(i, row)'
    <3>1. FlowOf(row)' = FlowOf(row)
      BY <2>1, <2>4 DEF InFlow, FlowOf, InstanceRow
    <3> QED BY <2>1, <2>2, <2>4, <3>1, RoutesLast DEF OnRoute, MarksAreRecorded
  <2>5. ASSUME NEW i \in Instance, Exists(i)'
        PROVE  /\ OnRoute(i, inst[i])'
               /\ inst'[i].status = "approved" => (Len(FlowOf(inst[i])) + 1 \in Reached(i))'
    <3>1. CASE inst'[i] = inst[i]
      <4>1. Exists(i)
        BY <2>5, <3>1 DEF Exists
      <4>2. Reached(i) \subseteq Reached(i)'
        BY <2>1, <2>2, <4>1, ReachedGrows
      <4>3. OnRoute(i, inst[i])'
        BY <2>3, <2>4, <3>1, <4>1
      <4>4. inst[i].status = "approved" => Len(FlowOf(inst[i])) + 1 \in Reached(i)
        BY <4>1 DEF RouteIsApproved
      <4> QED BY <2>2, <3>1, <4>1, <4>2, <4>3, <4>4
    <3>2. CASE ~ Exists(i) /\ inst'[i] # inst[i]
               /\ \E d \in Definition : inst'[i] = [status |-> "pending", def |-> d, step |-> 1, approved |-> {}]
      <4>1. inst'[i].step = 1 /\ inst'[i].approved = {} /\ inst'[i].status = "pending"
        BY <3>2
      <4>2. TypeOK'
        BY TypesLast
      <4>3. (1 \in Reached(i))'
        <5>1. PICK flow \in Flow : flow = FlowOf(inst[i])'
          BY <2>5, <4>2 DEF TypeOK, InFlow
        <5>2. 1 \in 1 .. (Len(flow) + 1)
          BY FlowsAreLists
        <5> QED BY <5>1, <5>2 DEF Reached, Closed
      <4> QED BY <4>1, <4>3 DEF OnRoute, MarksAreRecorded
    <3>3. CASE \E r \in Req : /\ call[r].at = "save" /\ Target(r) = i
                              /\ inst'[i] \in Decided(call[r].op, call[r].copy, call[r].branch)
      <4>1. PICK r \in Req : /\ call[r].at = "save" /\ Target(r) = i
                             /\ inst'[i] \in Decided(call[r].op, call[r].copy, call[r].branch)
        BY <3>3
      <4>2. HasCopy(r) /\ call[r] \in Working /\ InFlow(call[r].copy) /\ call[r].op # "transfer"
        BY <4>1, Targets DEF TypeOK, HasCopy, Finding
      <4>3. /\ Exists(i) /\ inst[i].def = call[r].copy.def /\ Admits(call[r].op, call[r].copy)
            /\ OnRoute(i, call[r].copy)
        BY <4>1, <4>2 DEF CopiesAdmitted, CopiesOnRoute
      <4>4. FlowOf(inst[i]) = FlowOf(call[r].copy) /\ call[r].copy.status # "approved"
        BY <4>3 DEF FlowOf, Admits
      <4>5. call[r].op = "approve" =>
              [step |-> call[r].copy.step, action |-> "approve", branch |-> call[r].branch] \in rows[i]
        BY <4>1 DEF RecordedFirst, TheRow
      <4>6. /\ OnRoute(i, inst'[i])
            /\ inst'[i].status = "approved" => Len(FlowOf(inst[i])) + 1 \in Reached(i)
        BY <4>1, <4>2, <4>3, <4>4, <4>5, DecidedOnRoute DEF Working, TypeOK
      <4>7. inst'[i] \in InstanceRow /\ InFlow(inst'[i])
        BY <4>1, <4>2, DecidedInFlow DEF Working
      <4>8. Reached(i) \subseteq Reached(i)'
        BY <2>1, <2>2, <4>3, ReachedGrows
      <4>9. (Len(FlowOf(inst[i])) + 1)' = Len(FlowOf(inst[i])) + 1
        BY <2>2, <4>3
      <4>10. OnRoute(i, inst[i])'
        <5>1. PICK new \in InstanceRow : new = inst'[i]
          BY <4>7
        <5>2. OnRoute(i, new)'
          BY <2>4, <4>3, <4>6, <4>7, <5>1
        <5> QED BY <5>1, <5>2 DEF OnRoute, MarksAreRecorded, StepOf, FlowOf
      <4> QED BY <4>6, <4>8, <4>9, <4>10
    <3> QED BY <3>1, <3>2, <3>3, InstancesComeFrom
  <2>6. ASSUME NEW r \in Req, HasCopy(r)'
        PROVE  OnRoute(Target(r), call[r].copy)'
    <3>1. \/ call'[r] = call[r] /\ HasCopy(r) /\ Target(r)' = Target(r)
          \/ /\ Target(r)' = Target(r)
             /\ \/ call'[r].copy = inst[Target(r)] /\ Admits(call[r].op, inst[Target(r)])
                \/ call'[r].copy = call[r].copy /\ HasCopy(r)
      BY <2>6, CopiesComeFrom DEF HasCopy, Target
    <3>2. PICK i \in Instance : i = Target(r)
      BY <2>6, <3>1, CopiesComeFrom, Targets DEF HasCopy
    <3>3. PICK row : row = call'[r].copy
      OBVIOUS
    <3>4. Exists(i) /\ row \in InstanceRow /\ InFlow(row) /\ OnRoute(i, row)
      <4>1. CASE HasCopy(r) /\ row = call[r].copy
        <5>1. call[r] \in Working
          BY <4>1, Targets DEF HasCopy, Finding
        <5> QED BY <3>2, <4>1, <5>1 DEF TypeOK, CopiesOnRoute, CopiesAdmitted, Working
      <4>2. CASE row = inst[i] /\ Admits(call[r].op, inst[i])
        BY <2>3, <3>2, <4>2 DEF Exists, Admits
      <4> QED BY <3>1, <3>2, <3>3, <4>1, <4>2
    <3>5. OnRoute(i, row)'
      BY <2>4, <3>4
    <3> QED BY <3>1, <3>2, <3>3, <3>5 DEF OnRoute, MarksAreRecorded, StepOf, FlowOf
  <2>7. CopiesOnRoute' /\ RouteIsApproved'
    BY <2>5, <2>6 DEF CopiesOnRoute, RouteIsApproved, OnRoute
  <2> QED BY <2>7
<1> QED BY <1>1, <1>2, WorkflowTypeOK, CopiesAreAdmitted, HistoryIsKept, PTL DEF Spec
=============================================================================
