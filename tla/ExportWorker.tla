----------------------------- MODULE ExportWorker -----------------------------
(***************************************************************************)
(* Export tasks: CreateTask, DownloadTask and ExecuteTask of               *)
(* export_service.go, the worker and poller of export_worker.go, and the   *)
(* handler that creates a task and enqueues it.                            *)
(*                                                                         *)
(* One API process, as deploy/docker-compose runs it: one goroutine takes  *)
(* tasks from a bounded channel, another lists pending tasks every ten     *)
(* seconds.  A crash empties the memory of the process and keeps rows and  *)
(* files; the process is started again.                                    *)
(***************************************************************************)
EXTENDS Naturals, Sequences

CONSTANTS
  Task,
  QueueCap,      \* capacity of the channel: 100
  PollLimit,     \* how many pending tasks one poll lists: 10
  MaxMishaps     \* bound: failed statements, lost replies and crashes of a run

ASSUME ExportAssumption ==
  QueueCap \in Nat \ {0} /\ PollLimit \in Nat \ {0} /\ MaxMishaps \in Nat

VARIABLES
  status,      \* export_tasks.status, "none" before the row exists
  born,        \* tasks in the order of created_at
  file,        \* the file of each task: absent, partial, complete
  queue,       \* the channel
  handed,      \* tasks created by handlers that did not enqueue them yet
  polled,      \* tasks the running poll listed and did not enqueue yet
  worker,      \* the statement the worker runs next, and its task
  downloads,   \* export_histories: tasks that were downloaded
  generated,   \* history: how often the file of a task was begun
  mishaps

exportVars == <<status, born, file, queue, handed, polled, worker, downloads, generated, mishaps>>
memory == <<queue, handed, polled, worker>>

Ended == {"completed", "failed"}
WorkerIdle == [at |-> "idle"]
WorkerAt(label, t) == [at |-> label, task |-> t]
Labels == {"find", "start", "generate", "write", "saveCompleted", "saveFailed"}

ExportInit ==
  /\ status = [t \in Task |-> "none"] /\ born = << >>
  /\ file = [t \in Task |-> "absent"]
  /\ queue = << >> /\ handed = {} /\ polled = << >> /\ worker = WorkerIdle
  /\ downloads = {}
  /\ generated = [t \in Task |-> 0]
  /\ mishaps = 0

Mishap == mishaps < MaxMishaps /\ mishaps' = mishaps + 1

\* Enqueue drops the task when the channel is full.
Enqueue(t) ==
  \/ Len(queue) < QueueCap /\ queue' = Append(queue, t)
  \/ Len(queue) >= QueueCap /\ UNCHANGED queue

-----------------------------------------------------------------------------
(* The handlers.                                                           *)

\* CreateTask inserts the row; a failing insert changes nothing.
CreateTask(t) ==
  /\ status[t] = "none"
  /\ status' = [status EXCEPT ![t] = "pending"]
  /\ born' = Append(born, t)
  /\ handed' = handed \cup {t}
  /\ UNCHANGED <<file, queue, polled, worker, downloads, generated, mishaps>>

EnqueueCreated(t) ==
  /\ t \in handed
  /\ Enqueue(t)
  /\ handed' = handed \ {t}
  /\ UNCHANGED <<status, born, file, polled, worker, downloads, generated, mishaps>>

\* Defect: the status is not looked at.
MayDownloadAny(t) == status[t] # "none"

MayDownload(t) == status[t] = "completed"

\* DownloadTask: the task is read and its download recorded.  An ended task
\* does not change, so that the two statements are one step.
DownloadTask(t) ==
  /\ MayDownload(t)
  /\ downloads' = downloads \cup {t}
  /\ UNCHANGED <<status, born, file, memory, generated, mishaps>>

-----------------------------------------------------------------------------
(* The poller.                                                             *)

Pending(t) == status[t] = "pending"

FirstOf(tasks) ==
  SubSeq(tasks, 1, IF Len(tasks) < PollLimit THEN Len(tasks) ELSE PollLimit)

\* Defect: tasks that nobody took yet are not listed.
ListStartedTasks ==
  LET Started(t) == status[t] = "running"
  IN  FirstOf(SelectSeq(born, Started))

\* The oldest pending tasks.
ListPendingTasks == FirstOf(SelectSeq(born, Pending))

\* pollPendingTasks: a failing list ends the poll.
Poll ==
  /\ polled = << >>
  /\ \/ polled' = ListPendingTasks /\ UNCHANGED mishaps
     \/ Mishap /\ UNCHANGED polled
  /\ UNCHANGED <<status, born, file, queue, handed, worker, downloads, generated>>

EnqueuePolled ==
  /\ polled # << >>
  /\ Enqueue(Head(polled))
  /\ polled' = Tail(polled)
  /\ UNCHANGED <<status, born, file, handed, worker, downloads, generated, mishaps>>

-----------------------------------------------------------------------------
(* The worker.                                                             *)

Dequeue ==
  /\ worker = WorkerIdle /\ queue # << >>
  /\ worker' = WorkerAt("find", Head(queue))
  /\ queue' = Tail(queue)
  /\ UNCHANGED <<status, born, file, handed, polled, downloads, generated, mishaps>>

\* Defect: a task that ended is executed again.
ExecutableAny(t) == status[t] # "none"

\* A duplicate of an ended task is refused, one that is running is taken up.
Executable(t) == status[t] \in {"pending", "running"}

FindTask(t) ==
  /\ worker = WorkerAt("find", t)
  /\ \/ Executable(t) /\ worker' = WorkerAt("start", t) /\ UNCHANGED mishaps
     \/ ~ Executable(t) /\ worker' = WorkerIdle /\ UNCHANGED mishaps
     \/ Mishap /\ worker' = WorkerIdle
  /\ UNCHANGED <<status, born, file, queue, handed, polled, downloads, generated>>

\* UpdateTask; when it fails, applied or not, the worker gives up the task.
UpdateTask(t, s, then) ==
  /\ \/ /\ status' = [status EXCEPT ![t] = s]
        /\ \/ worker' = then /\ UNCHANGED mishaps
           \/ worker' = WorkerIdle /\ Mishap
     \/ UNCHANGED status /\ worker' = WorkerIdle /\ Mishap
  /\ UNCHANGED <<born, queue, handed, polled, downloads>>

StartTask(t) ==
  /\ worker = WorkerAt("start", t)
  /\ UpdateTask(t, "running", WorkerAt("generate", t))
  /\ UNCHANGED <<file, generated>>

\* generateExport: the rows are queried, then writeFile creates or truncates
\* the file, whose name is the task's.
Generate(t) ==
  /\ worker = WorkerAt("generate", t)
  /\ \/ /\ worker' = WorkerAt("write", t)
        /\ file' = [file EXCEPT ![t] = "partial"]
        /\ generated' = [generated EXCEPT ![t] = @ + 1]
     \/ worker' = WorkerAt("saveFailed", t) /\ UNCHANGED <<file, generated>>
  /\ UNCHANGED <<status, born, queue, handed, polled, downloads, mishaps>>

WriteFile(t) ==
  /\ worker = WorkerAt("write", t)
  /\ \/ worker' = WorkerAt("saveCompleted", t) /\ file' = [file EXCEPT ![t] = "complete"]
     \/ worker' = WorkerAt("saveFailed", t) /\ UNCHANGED file
  /\ UNCHANGED <<status, born, queue, handed, polled, downloads, generated, mishaps>>

CompleteTask(t) ==
  /\ worker = WorkerAt("saveCompleted", t)
  /\ UpdateTask(t, "completed", WorkerIdle)
  /\ UNCHANGED <<file, generated>>

FailTask(t) ==
  /\ worker = WorkerAt("saveFailed", t)
  /\ UpdateTask(t, "failed", WorkerIdle)
  /\ UNCHANGED <<file, generated>>

-----------------------------------------------------------------------------
\* The process dies and is started again.
Crash ==
  /\ Mishap
  /\ queue' = << >> /\ handed' = {} /\ polled' = << >> /\ worker' = WorkerIdle
  /\ UNCHANGED <<status, born, file, downloads, generated>>

Work == Dequeue \/ \E t \in Task : \/ FindTask(t) \/ StartTask(t) \/ Generate(t)
                                   \/ WriteFile(t) \/ CompleteTask(t) \/ FailTask(t)

ExportNext ==
  \/ \E t \in Task : CreateTask(t)
  \/ \E t \in Task : EnqueueCreated(t)
  \/ \E t \in Task : DownloadTask(t)
  \/ Poll
  \/ EnqueuePolled
  \/ Dequeue
  \/ \E t \in Task : FindTask(t)
  \/ \E t \in Task : StartTask(t)
  \/ \E t \in Task : Generate(t)
  \/ \E t \in Task : WriteFile(t)
  \/ \E t \in Task : CompleteTask(t)
  \/ \E t \in Task : FailTask(t)
  \/ Crash

ExportSpec == ExportInit /\ [][ExportNext]_exportVars

\* The ticker ticks and both goroutines run; nobody has to create tasks.
ExportFairSpec == ExportSpec /\ WF_exportVars(Poll) /\ WF_exportVars(EnqueuePolled) /\ WF_exportVars(Work)

-----------------------------------------------------------------------------
(* Properties.                                                             *)

\* Every variable keeps its type, the channel its capacity and a poll its limit.
ExportTypeOK ==
  /\ status \in [Task -> {"none", "pending", "running"} \cup Ended]
  /\ born \in Seq(Task)
  /\ file \in [Task -> {"absent", "partial", "complete"}]
  /\ queue \in Seq(Task) /\ Len(queue) <= QueueCap
  /\ handed \subseteq Task
  /\ polled \in Seq(Task) /\ Len(polled) <= PollLimit
  /\ worker \in {WorkerIdle} \cup {WorkerAt(label, t) : label \in Labels, t \in Task}
  /\ downloads \subseteq Task
  /\ generated \in [Task -> Nat]
  /\ mishaps \in 0 .. MaxMishaps

\* A completed task has a complete file, and so has every task that was ever
\* downloaded: duplicates in the channel, restarts and retries never truncate
\* the file of a task a user may fetch (ExecuteTask refuses ended tasks).
DownloadsAreComplete ==
  \A t \in Task : status[t] = "completed" \/ t \in downloads => file[t] = "complete"

\* However often the handler and the poller enqueue a task, its file is begun
\* once, and once more for each mishap: the worker executes one task after
\* another and looks at the status first.
GeneratedOnce == \A t \in Task : generated[t] <= 1 + mishaps

\* A task that ended keeps its outcome.
EndedIsFinal == [][\A t \in Task : status[t] \in Ended => status'[t] = status[t]]_exportVars

\* "task will be picked up by poller": a task that a full channel dropped, or
\* a crash or failure lost, is started in the end.
PickedUpByPoller == \A t \in Task : Pending(t) ~> ~ Pending(t)

=============================================================================
