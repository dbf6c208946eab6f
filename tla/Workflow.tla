------------------------------ MODULE Workflow ------------------------------
(***************************************************************************)
(* The approval engine: workflow_service.go over workflow_repo.go, called  *)
(* by workflow_handler.go and batch_service.go.                            *)
(*                                                                         *)
(* Every operation reads the instance once, decides on that copy, and      *)
(* writes the whole copy back with UpdateInstance; the approval history is *)
(* a second statement, before the update or, for a return, after it.       *)
(* There is no transaction, lock or version between the statements.        *)
(*                                                                         *)
(* The tables are taken as model/workflow.go declares them.  CompletedAt,  *)
(* ReturnReason and ReturnedBy are written in the same record as the       *)
(* status and decided by it, and are left out.  Steps are numbered from 1. *)
(***************************************************************************)
EXTENDS Naturals, Sequences, FiniteSets

CONSTANTS
  Req,                  \* calls of the API, each handled once
  Definition, Instance,
  NoFlow,               \* a definition nobody created
  StepName,             \* step names, End among them
  End,                  \* the name "end", where a condition finishes the flow
  NoStep,               \* an else_step left empty
  Branch, NoBranch,     \* branch names; the empty one
  Drafts,               \* the flow configurations users send
  Batches,              \* the instance lists users send to /batch/approve
  BusinessDataLoaded,   \* FALSE: LoadBusinessData as NewWorkflowEngine sets it
  Faults,               \* "read", "write": statements may fail;
                        \* "reply": a write may be applied and report an error
  Crashes

Kinds == {"serial", "parallel", "condition"}

\* FlowStep; only its own kind reads the fields after kind.
FlowStep == [name : StepName, kind : Kinds, approvers : BOOLEAN,
             branches : SUBSET (Branch \cup {NoBranch}),
             then : StepName \cup {NoStep}, else : StepName \cup {NoStep}]

ASSUME WorkflowAssumption ==
  /\ End \in StepName /\ NoStep \notin StepName
  /\ NoBranch \notin Branch
  /\ Drafts \subseteq Seq(FlowStep) /\ NoFlow \notin Drafts
  /\ Batches \subseteq Seq(Instance) \ {<< >>}
  /\ BusinessDataLoaded \in BOOLEAN /\ Crashes \in BOOLEAN
  /\ IsFiniteSet(Branch)

\* ParseFlowConfig accepts one step.
ValidStep(s) ==
  CASE s.kind = "serial" -> s.approvers
    [] s.kind = "parallel" -> /\ Cardinality(s.branches) >= 2
                              /\ NoBranch \notin s.branches
                              /\ s.approvers
    [] s.kind = "condition" -> s.then # NoStep

ParseFlowConfig(flow) == flow # << >> /\ \A k \in DOMAIN flow : ValidStep(flow[k])

Flow == {flow \in Drafts : ParseFlowConfig(flow)}

Status == {"pending", "approved", "rejected", "returned"}
Ops == {"approve", "reject", "transfer", "return", "resubmit"}

VARIABLES
  defs,   \* wf_definitions: the flow of each definition
  inst,   \* wf_instances: the row of each instance
  rows,   \* wf_approvals of each instance; rows that differ only in who
          \* approved, when and with what comment are one
  call,   \* what each call is doing, with its copy of the instance
  told    \* the rows of each instance whose callers were told of success

vars == <<defs, inst, rows, call, told>>

NoInst == [status |-> "none"]
Exists(i) == inst[i].status # "none"

Steps == UNION {DOMAIN flow : flow \in Flow}

\* WfInstance; approved holds the branch names marked approved in ParallelStatus.
InstanceRow == [status : Status, def : Definition, step : Steps,
                approved : SUBSET (Branch \cup {NoBranch})]
Row == [step : Steps, action : Ops, branch : Branch \cup {NoBranch}]

FlowOf(copy) == defs[copy.def]
StepOf(copy) == FlowOf(copy)[copy.step]

Init ==
  /\ defs = [d \in Definition |-> NoFlow]
  /\ inst = [i \in Instance |-> NoInst]
  /\ rows = [i \in Instance |-> {}]
  /\ told = [i \in Instance |-> {}]
  /\ call = [r \in Req |-> [at |-> "new"]]

-----------------------------------------------------------------------------
(* What approving a step does to a copy of the instance.                   *)

Approved(copy) == [copy EXCEPT !.status = "approved"]
MovedTo(copy, k) == [copy EXCEPT !.step = k]

\* The next step in order, or the end of the flow.
Onward(copy) ==
  IF copy.step + 1 > Len(FlowOf(copy)) THEN Approved(copy) ELSE MovedTo(copy, copy.step + 1)

\* updateParallelBranchStatus: an unknown or empty branch is appended.
WithBranch(copy, branch) == [copy EXCEPT !.approved = @ \cup {branch}]

\* Defect: one approved branch is enough.
AnyParallelBranchApproved(copy) == StepOf(copy).branches \cap copy.approved # {}

AllParallelBranchesApproved(copy) == StepOf(copy).branches \subseteq copy.approved

ApproveParallel(copy, branch) ==
  LET marked == WithBranch(copy, branch)
  IN  IF AllParallelBranchesApproved(marked)
        THEN Onward([marked EXCEPT !.approved = {}])
        ELSE marked

\* evaluateConditionRoute: without business data the field never exists; with
\* it the comparison may go either way, and one that fails routes nowhere.
ConditionRoutes(s) == {s.else} \cup (IF BusinessDataLoaded THEN {s.then} ELSE {})

\* findStepIndexByName: the first step of that name.
NamedStep(flow, name) == {k \in DOMAIN flow : /\ flow[k].name = name
                                              /\ \A j \in 1 .. (k - 1) : flow[j].name # name}

ApproveCondition(copy) ==
  UNION {IF route = End THEN {Approved(copy)}
         ELSE {MovedTo(copy, k) : k \in NamedStep(FlowOf(copy), route)}
           : route \in ConditionRoutes(StepOf(copy))}

\* The copies a call may write; none when its condition leads nowhere.
Decided(op, copy, branch) ==
  CASE op = "reject"   -> {[copy EXCEPT !.status = "rejected"]}
    [] op = "return"   -> {[copy EXCEPT !.status = "returned"]}
    [] op = "resubmit" -> {[copy EXCEPT !.status = "pending"]}
    [] op = "approve"  ->
         CASE StepOf(copy).kind = "parallel"  -> {ApproveParallel(copy, branch)}
           [] StepOf(copy).kind = "condition" -> ApproveCondition(copy)
           [] StepOf(copy).kind = "serial"    -> {Onward(copy)}

\* The condition of this step may fail to evaluate or lead nowhere.
MayLeadNowhere(op, copy) ==
  /\ op = "approve" /\ StepOf(copy).kind = "condition"
  /\ \/ BusinessDataLoaded
     \/ Decided(op, copy, NoBranch) = {}

-----------------------------------------------------------------------------
(* Definitions, instances and the calls on them.                           *)

CreateDefinition(d) ==
  /\ defs[d] = NoFlow
  /\ \E flow \in Flow : defs' = [defs EXCEPT ![d] = flow]
  /\ UNCHANGED <<inst, rows, call, told>>

SubmitWorkflow(i, d) ==
  /\ ~ Exists(i) /\ defs[d] # NoFlow
  /\ inst' = [inst EXCEPT ![i] = [status |-> "pending", def |-> d, step |-> 1,
                                  approved |-> {}]]
  /\ UNCHANGED <<defs, rows, call, told>>

Calls(r, op, branch, todo) ==
  /\ call[r].at = "new"
  /\ call' = [call EXCEPT ![r] = [at |-> "find", op |-> op, branch |-> branch,
                                  todo |-> todo]]
  /\ UNCHANGED <<defs, inst, rows, told>>

Approve(r, i) == \E b \in Branch \cup {NoBranch} : Calls(r, "approve", b, <<i>>)
Reject(r, i) == Calls(r, "reject", NoBranch, <<i>>)
Transfer(r, i) == Calls(r, "transfer", NoBranch, <<i>>)
ReturnToApplicant(r, i) == Calls(r, "return", NoBranch, <<i>>)
Resubmit(r, i) == Calls(r, "resubmit", NoBranch, <<i>>)

\* BatchApprove approves one instance after another, whatever happens to each.
BatchApprove(r) == \E ids \in Batches : Calls(r, "approve", NoBranch, ids)

-----------------------------------------------------------------------------
(* The statements of a call.                                               *)

Target(r) == Head(call[r].todo)
HasCopy(r) == call[r].at \in {"record", "save"}

\* What follows each statement of each operation.
After == [approve  |-> [find |-> "record", record |-> "save", save |-> "answer"],
          reject   |-> [find |-> "record", record |-> "save", save |-> "answer"],
          transfer |-> [find |-> "record", record |-> "answer"],
          return   |-> [find |-> "save", save |-> "record", record |-> "answer"],
          resubmit |-> [find |-> "save", save |-> "answer"]]

\* The call is done with its instance: a batch goes on with the next.
Leave(r) ==
  call' = [call EXCEPT ![r] =
    IF Len(@.todo) > 1
      THEN [at |-> "find", op |-> @.op, branch |-> @.branch, todo |-> Tail(@.todo)]
      ELSE [at |-> "done"]]

TheRow(r) == [step |-> call[r].copy.step, action |-> call[r].op, branch |-> call[r].branch]

Answer(r) ==
  /\ Leave(r)
  /\ told' = IF call[r].op = "resubmit" THEN told
             ELSE [told EXCEPT ![Target(r)] = @ \cup {TheRow(r)}]

GoesTo(r, at) ==
  IF at = "answer" THEN Answer(r)
  ELSE call' = [call EXCEPT ![r].at = at] /\ UNCHANGED told

Fails(r) == Leave(r) /\ UNCHANGED told

\* Defect: any instance may be worked on.
AdmitsAny(op, row) == row.status # "none"

\* The status each operation asks for.
Admits(op, row) == row.status = IF op = "resubmit" THEN "returned" ELSE "pending"

\* FindInstanceByID, the status check, and the definition of the instance.
Find(r) ==
  /\ call[r].at = "find"
  /\ \/ /\ Admits(call[r].op, inst[Target(r)])
        /\ call' = [call EXCEPT ![r] =
             [at |-> After[@.op].find, op |-> @.op, branch |-> @.branch,
              todo |-> @.todo, copy |-> inst[Target(r)]]]
        /\ UNCHANGED told
     \/ /\ ~ Admits(call[r].op, inst[Target(r)]) \/ "read" \in Faults
        /\ Fails(r)
  /\ UNCHANGED <<defs, inst, rows>>

\* Defect: the error of CreateApproval is ignored.
RecordApprovalIgnored(r) ==
  /\ call[r].at = "record"
  /\ \/ rows' = [rows EXCEPT ![Target(r)] = @ \cup {TheRow(r)}]
     \/ "write" \in Faults /\ UNCHANGED rows
  /\ GoesTo(r, After[call[r].op].record)
  /\ UNCHANGED <<defs, inst>>

\* CreateApproval.
RecordApproval(r) ==
  /\ call[r].at = "record"
  /\ \/ /\ rows' = [rows EXCEPT ![Target(r)] = @ \cup {TheRow(r)}]
        /\ \/ GoesTo(r, After[call[r].op].record)
           \/ "reply" \in Faults /\ Fails(r)
     \/ "write" \in Faults /\ UNCHANGED rows /\ Fails(r)
  /\ UNCHANGED <<defs, inst>>

\* UpdateInstance overwrites whatever the row has become.
SaveInstance(r) ==
  /\ call[r].at = "save"
  /\ \/ /\ \E row \in Decided(call[r].op, call[r].copy, call[r].branch) :
             inst' = [inst EXCEPT ![Target(r)] = row]
        /\ \/ GoesTo(r, After[call[r].op].save)
           \/ "reply" \in Faults /\ Fails(r)
     \/ /\ "write" \in Faults \/ MayLeadNowhere(call[r].op, call[r].copy)
        /\ UNCHANGED inst /\ Fails(r)
  /\ UNCHANGED <<defs, rows>>

\* The process dies, or its client goes away, between two statements.
Dies(r) ==
  /\ Crashes
  /\ call[r].at \in {"find", "record", "save"}
  /\ call' = [call EXCEPT ![r] = [at |-> "done"]]
  /\ UNCHANGED <<defs, inst, rows, told>>

Next ==
  \/ \E d \in Definition : CreateDefinition(d)
  \/ \E i \in Instance, d \in Definition : SubmitWorkflow(i, d)
  \/ \E r \in Req, i \in Instance : Approve(r, i)
  \/ \E r \in Req, i \in Instance : Reject(r, i)
  \/ \E r \in Req, i \in Instance : Transfer(r, i)
  \/ \E r \in Req, i \in Instance : ReturnToApplicant(r, i)
  \/ \E r \in Req, i \in Instance : Resubmit(r, i)
  \/ \E r \in Req : BatchApprove(r)
  \/ \E r \in Req : Find(r)
  \/ \E r \in Req : RecordApproval(r)
  \/ \E r \in Req : SaveInstance(r)
  \/ \E r \in Req : Dies(r)

Spec == Init /\ [][Next]_vars

-----------------------------------------------------------------------------
(* Properties.                                                             *)

\* A step of a flow that passed ParseFlowConfig.
InFlow(row) == FlowOf(row) \in Flow /\ row.step \in DOMAIN FlowOf(row)

Resting == {[at |-> "new"], [at |-> "done"]}
Finding == [at : {"find"}, op : Ops, branch : Branch \cup {NoBranch},
            todo : Seq(Instance) \ {<< >>}]
Working == [at : {"record", "save"}, op : Ops, branch : Branch \cup {NoBranch},
            todo : Seq(Instance) \ {<< >>}, copy : InstanceRow]

\* Every variable holds what its table or call can hold, and instances and
\* copies stand on a step of their flow.
TypeOK ==
  /\ defs \in [Definition -> Flow \cup {NoFlow}]
  /\ inst \in [Instance -> InstanceRow \cup {NoInst}]
  /\ \A i \in Instance : Exists(i) => InFlow(inst[i])
  /\ rows \in [Instance -> SUBSET Row]
  /\ told \in [Instance -> SUBSET Row]
  /\ call \in [Req -> Resting \cup Finding \cup Working]
  /\ \A r \in Req : HasCopy(r) =>
       /\ InFlow(call[r].copy)
       /\ call[r].op \notin IF call[r].at = "save" THEN {"transfer"} ELSE {"resubmit"}

\* The history of an instance shows an approval of this step, and for a
\* parallel step one of each branch.
StepPassed(i, k) ==
  LET s == FlowOf(inst[i])[k]
      approves(b) == [step |-> k, action |-> "approve", branch |-> b] \in rows[i]
  IN  IF s.kind = "parallel" THEN \A b \in s.branches : approves(b)
      ELSE \E b \in Branch \cup {NoBranch} : approves(b)

\* Where a passed step may lead; the number after the last step is the end.
LeadsTo(flow, k) ==
  IF flow[k].kind # "condition" THEN {k + 1}
  ELSE UNION {IF route = End THEN {Len(flow) + 1} ELSE NamedStep(flow, route)
                : route \in ConditionRoutes(flow[k])}

\* S holds the first step and whatever a passed step of it leads to.
Closed(i, S) ==
  LET flow == FlowOf(inst[i])
  IN  1 \in S /\ \A k \in S \cap DOMAIN flow : StepPassed(i, k) => LeadsTo(flow, k) \subseteq S

\* The steps an approval history can have brought an instance to: the least
\* set of that kind.
Reached(i) ==
  LET places == 1 .. (Len(FlowOf(inst[i])) + 1)
  IN  {k \in places : \A S \in SUBSET places : Closed(i, S) => k \in S}

\* Wherever concurrent, failing and batched calls put an instance, its history
\* leads there from the first step, and an approved instance has a history
\* that leads to the end (AdvanceStep writes the history row first).
RouteIsApproved ==
  \A i \in Instance : Exists(i) =>
    /\ inst[i].step \in Reached(i)
    /\ inst[i].status = "approved" => Len(FlowOf(inst[i])) + 1 \in Reached(i)

\* An action whose caller was told of success is in the approval history
\* (a failing CreateApproval ends the call with an error).
HistoryIsComplete == \A i \in Instance : told[i] \subseteq rows[i]

Decisive == {"approved", "rejected"}

\* No call that read the instance while it was open still has to write it.
Settled(i) ==
  /\ Exists(i) /\ inst[i].status \in Decisive
  /\ \A r \in Req : HasCopy(r) /\ Target(r) = i => call[r].copy.status \in Decisive

\* A decision is final once the calls that overlapped it are over: AdvanceStep,
\* ReturnToApplicant and Resubmit refuse a decided instance.
DecisionIsFinal ==
  [][\A i \in Instance : Settled(i) => inst'[i] = inst[i]]_vars

-----------------------------------------------------------------------------
(* What the properties rest on; checked beside them and proved.             *)

\* A call works on a copy of its instance in a status its operation asks for.
CopiesAdmitted ==
  \A r \in Req : HasCopy(r) =>
    /\ Exists(Target(r)) /\ inst[Target(r)].def = call[r].copy.def
    /\ Admits(call[r].op, call[r].copy)

\* Approving and rejecting record before they save.
RecordedFirst ==
  \A r \in Req : call[r].at = "save" /\ call[r].op \in {"approve", "reject"} =>
    TheRow(r) \in rows[Target(r)]

\* A branch marked approved on the row or on a copy of it was approved in the
\* history, and only parallel steps have marks.
MarksAreRecorded(i, row) ==
  /\ StepOf(row).kind # "parallel" => row.approved = {}
  /\ \A b \in row.approved : [step |-> row.step, action |-> "approve", branch |-> b] \in rows[i]

\* Rows and the copies of them stand where the history leads, and their marks
\* are in it: a stale copy is behind, but never beside the route.
OnRoute(i, row) == row.step \in Reached(i) /\ MarksAreRecorded(i, row)

CopiesOnRoute ==
  /\ \A i \in Instance : Exists(i) => OnRoute(i, inst[i])
  /\ \A r \in Req : HasCopy(r) => OnRoute(Target(r), call[r].copy)

=============================================================================
