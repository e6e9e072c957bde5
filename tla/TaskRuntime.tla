----------------------------- MODULE TaskRuntime ----------------------------
(***************************************************************************)
(* Planning, stub execution and verification of one task:                  *)
(* services/rule_engine.py, services/task_runtime_stub.py,                 *)
(* services/repo_review_runtime.py and services/verifier_stub.py.          *)
(***************************************************************************)
EXTENDS AgentProgram

CONSTANTS UnclearGoals,  \* the phrases of VAGUE_TASKS and WRITE_ORIENTED_TASKS
          ReviewGoals    \* the phrases that ask for the repository review

ASSUME GoalAssumption == UnclearGoals \subseteq Text /\ ReviewGoals \subseteq Text

RequiresClarification(goal) == goal \in UnclearGoals

StepType == {"show_understanding", "execute_task_stub", "verify_success_condition"}

RuntimeStep == [type : StepType, requires_confirmation : BOOLEAN]

Step(type, confirm) == [type |-> type, requires_confirmation |-> confirm]

\* Mutant: the caller's wish to leave the first step out is ignored.
PlanAlwaysShows(program, include_show_understanding_step) ==
    (IF program.show_understanding_before_execution
     THEN <<Step("show_understanding", TRUE)>> ELSE << >>)
    \o <<Step("execute_task_stub", FALSE)>>
    \o (IF program.must_check_success_condition
        THEN <<Step("verify_success_condition", FALSE)>> ELSE << >>)

BuildRuntimePlan(program, include_show_understanding_step) ==
    (IF program.show_understanding_before_execution
        /\ include_show_understanding_step
     THEN <<Step("show_understanding", TRUE)>> ELSE << >>)
    \o <<Step("execute_task_stub", FALSE)>>
    \o (IF program.must_check_success_condition
        THEN <<Step("verify_success_condition", FALSE)>> ELSE << >>)

\* review_repository: the verdict is good iff neither scan found anything.
ReviewVerdicts ==
    {~has_type_ignore /\ ~has_mojibake :
        has_type_ignore \in BOOLEAN, has_mojibake \in BOOLEAN}

VerifyStatus(status) == status = "completed"

RuntimeResult(goal, plan, mode, status) ==
    [goal |-> goal, runtime_plan |-> plan, execution_mode |-> mode,
     status |-> status, verified |-> VerifyStatus(status)]

\* execute: every result the runtime may return for a goal under a program.
Executions(goal, program, include_show_understanding_step) ==
    LET plan == BuildRuntimePlan(program, include_show_understanding_step)
    IN  IF goal \in ReviewGoals
        THEN {RuntimeResult(goal, plan, "read_only_repo_review",
                            IF ok THEN "completed" ELSE "failed")
                : ok \in ReviewVerdicts}
        ELSE {RuntimeResult(goal, plan, "stub", "completed")}

\* A review command that cannot be started raises; the stub never does.
MayRaise(goal) == goal \in ReviewGoals

=============================================================================
