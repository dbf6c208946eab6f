----------------------------- MODULE MCWorkflow -----------------------------
(* Flows, batches and symmetry for Workflow. *)
EXTENDS Workflow, TLC

CONSTANTS i1, a, b, c, finance, legal

Step(name, kind) == [name |-> name, kind |-> kind, approvers |-> TRUE,
                     branches |-> {}, then |-> NoStep, else |-> NoStep]
Serial(name) == Step(name, "serial")
Parallel(name, branches) == [Step(name, "parallel") EXCEPT !.branches = branches]
Condition(name, then, else) ==
  [Step(name, "condition") EXCEPT !.then = then, !.else = else]

\* A parallel step, and a condition that ends the flow or goes back.
Looping == <<Parallel(a, {finance, legal}), Condition(b, End, a)>>
\* A condition with no else_step in front of a serial step.
Blocking == <<Serial(a), Condition(b, c, NoStep), Serial(c)>>
\* Refused by ParseFlowConfig.
OneBranch == <<Parallel(a, {finance})>>

SomeFlows == {Looping, Blocking, OneBranch, << >>}

Names == {a, b, c, End}
\* The handler accepts a list that names an instance twice.
Twice == {<<i1, i1>>}

Callers == Permutations(Req)

=============================================================================
