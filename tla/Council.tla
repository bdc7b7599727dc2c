------------------------------ MODULE Council ------------------------------
(***************************************************************************)
(* The shadow council: runCouncilShadow (council/orchestrator.ts), the     *)
(* rows of CouncilStore (council/store.ts) and the policy gate             *)
(* (council/policy-gate.ts), as concurrent runs of any envelopes, each of  *)
(* whose statements may fail, or succeed and lose its answer.              *)
(*                                                                         *)
(* A finding is its role and the marks the gate looks at: a missing        *)
(* evidence, a high or critical risk and, for the judge, a denial.         *)
(***************************************************************************)
EXTENDS Integers, Sequences

CONSTANTS
  Runs,        \* calls of runCouncilShadow
  Tasks,       \* envelope.taskId
  Keys,        \* envelope.idempotencyKey
  TaskOf, KeyOf,
  Guarded,     \* tasks of production, or with humanApprovalRequired
  Verdicts,    \* the sets of marks a role may give
  NoTask,
  MaxFaults    \* bound: failed statements and lost answers

ASSUME CouncilAssumption ==
  /\ TaskOf \in [Runs -> Tasks] /\ KeyOf \in [Runs -> Keys]
  /\ NoTask \notin Tasks /\ MaxFaults \in Nat

VARIABLES
  status,      \* council_tasks.status, "none" without a row
  keyOf,       \* the task of the row with each idempotency_key
  log,         \* council_transitions of each task, in order
  findings,    \* council_findings
  decision,    \* council_policy_decisions
  audited,     \* the audit rows of the council
  pc, heard,   \* the runs: the next statement, the outputs validated so far
  saw,         \* the status failClosed has read
  faults

rows == <<status, keyOf, log, findings, decision, audited>>
vars == <<rows, pc, heard, saw, faults>>

COUNCIL_ROLES == {"planner", "verifier", "critic"}
Roles == COUNCIL_ROLES \cup {"judge"}
TERMINAL == {"SHADOW_COMPLETED", "FAILED_CLOSED", "CANCELLED", "EXPIRED"}

\* The states in the order a run takes them.
Successor ==
  [RECEIVED |-> "STATIC_VALIDATED", STATIC_VALIDATED |-> "COUNCIL_QUEUED",
   COUNCIL_QUEUED |-> "PLANNING", PLANNING |-> "VERIFYING",
   VERIFYING |-> "CRITIQUING", CRITIQUING |-> "JUDGING",
   JUDGING |-> "POLICY_DECIDED", POLICY_DECIDED |-> "SHADOW_COMPLETED"]
COUNCIL_STATES == DOMAIN Successor \cup TERMINAL

ALLOWED_TRANSITIONS(from, to) ==
  /\ from \in DOMAIN Successor
  /\ to \in {Successor[from], "FAILED_CLOSED", "CANCELLED", "EXPIRED"}

\* The statements of a run; a transition is named after the state it enters.
After ==
  [insert |-> "received", received |-> "STATIC_VALIDATED",
   STATIC_VALIDATED |-> "COUNCIL_QUEUED", COUNCIL_QUEUED |-> "announce",
   announce |-> "PLANNING", PLANNING |-> "planner", planner |-> "VERIFYING",
   VERIFYING |-> "verifier", verifier |-> "CRITIQUING", CRITIQUING |-> "critic",
   critic |-> "JUDGING", JUDGING |-> "judge", judge |-> "decide",
   decide |-> "POLICY_DECIDED", POLICY_DECIDED |-> "publish",
   publish |-> "SHADOW_COMPLETED", SHADOW_COMPLETED |-> "shadow_completed"]
Transitions == DOMAIN After \cap COUNCIL_STATES
\* A run that answers failed_closed and could not record it is "unrecorded".
Ended == {"shadow_completed", "idempotent_replay", "failed_closed", "unrecorded", "crashed"}

Goto(r, label) == pc' = [pc EXCEPT ![r] = label]
Blame == faults < MaxFaults /\ faults' = faults + 1
Throw(r) == Goto(r, "catch") /\ UNCHANGED <<rows, heard, saw, faults>>

\* A statement that took effect is answered, or its answer is lost.
Answered(r) ==
  \/ Goto(r, After[pc[r]]) /\ UNCHANGED faults
  \/ Blame /\ Goto(r, "catch")

Log(t, from, to) == log' = [log EXCEPT ![t] = Append(log[t], [from |-> from, to |-> to])]

-----------------------------------------------------------------------------
(* createOrGetTask *)

\* Mutant: only the primary key is unique.
TakenTask(r) == status[TaskOf[r]] # "none"
\* UniqueViolation, of the primary key or of the idempotency key.
Taken(r) == status[TaskOf[r]] # "none" \/ keyOf[KeyOf[r]] # NoTask

InsertTask(r) ==
  /\ pc[r] = "insert"
  /\ IF Taken(r)
     THEN Goto(r, "lookup") /\ UNCHANGED <<status, keyOf, faults>>
     ELSE /\ status' = [status EXCEPT ![TaskOf[r]] = "RECEIVED"]
          /\ keyOf' = [keyOf EXCEPT ![KeyOf[r]] = TaskOf[r]]
          /\ Answered(r)
  /\ UNCHANGED <<log, findings, decision, audited, heard, saw>>

\* The row under the key is a replay; a task id under another key is an error.
LookupKey(r) ==
  /\ pc[r] = "lookup"
  /\ Goto(r, IF keyOf[KeyOf[r]] = NoTask THEN "catch" ELSE "idempotent_replay")
  /\ UNCHANGED <<rows, heard, saw, faults>>

LogReceived(r) ==
  /\ pc[r] = "received"
  /\ Log(TaskOf[r], "none", "RECEIVED")
  /\ Answered(r)
  /\ UNCHANGED <<status, keyOf, findings, decision, audited, heard, saw>>

-----------------------------------------------------------------------------
(* The stages *)

\* One transaction, under the lock of the row.
Transition(r) ==
  LET t == TaskOf[r] IN
  /\ pc[r] \in Transitions
  /\ IF ALLOWED_TRANSITIONS(status[t], pc[r])
     THEN /\ status' = [status EXCEPT ![t] = pc[r]]
          /\ Log(t, status[t], pc[r])
          /\ Answered(r)
          /\ UNCHANGED <<keyOf, findings, decision, audited, heard, saw>>
     ELSE Throw(r)

\* appendAudit, before the first role and after the decision.
Audit(r) ==
  /\ pc[r] \in {"announce", "publish"}
  /\ audited' = [audited EXCEPT ![TaskOf[r]] = @ \cup {pc[r]}]
  /\ Answered(r)
  /\ UNCHANGED <<status, keyOf, log, findings, decision, heard, saw>>

\* Mutant: the finding is kept in memory only.
HearRole(r, marks) ==
  /\ pc[r] \in Roles
  /\ heard' = [heard EXCEPT ![r] = @ \cup {[role |-> pc[r], marks |-> marks]}]
  /\ Answered(r)
  /\ UNCHANGED <<rows, saw>>
\* The output of a role is validated and saved; UNIQUE(task_id, role).
RunRole(r, marks) ==
  LET t == TaskOf[r]
      finding == [role |-> pc[r], marks |-> marks]
  IN
  /\ pc[r] \in Roles
  /\ IF \E f \in findings[t] : f.role = pc[r]
     THEN Throw(r)
     ELSE /\ heard' = [heard EXCEPT ![r] = @ \cup {finding}]
          /\ findings' = [findings EXCEPT ![t] = @ \cup {finding}]
          /\ Answered(r)
          /\ UNCHANGED <<status, keyOf, log, decision, audited, saw>>

\* The output is refused: by its schema, or as that of another role or task.
RefuseRole(r) == pc[r] \in Roles /\ Throw(r)

-----------------------------------------------------------------------------
(* The gate *)

Marked(given, mark, roles) == \E f \in given : f.role \in roles /\ mark \in f.marks

evaluateShadowPolicy(t, given) ==
  IF Marked(given, "critical", COUNCIL_ROLES) THEN "deny"
  ELSE IF t \in Guarded \/ Marked(given, "high", {"critic"}) THEN "require_human_approval"
  ELSE IF Marked(given, "missing", Roles) THEN "request_more_evidence"
  ELSE IF Marked(given, "deny", {"judge"}) THEN "deny"
  ELSE "allow_limited_execution"

\* Mutant: what the judge said is saved in place of the outcome.
DecideByJudge(r) ==
  /\ pc[r] = "decide"
  /\ \E f \in heard[r] :
       f.role = "judge" /\ decision' = [decision EXCEPT ![TaskOf[r]] = f.role]
  /\ Answered(r)
  /\ UNCHANGED <<status, keyOf, log, findings, audited, heard, saw>>
\* UNIQUE(task_id)
Decide(r) ==
  LET t == TaskOf[r] IN
  /\ pc[r] = "decide"
  /\ IF decision[t] # "none"
     THEN Throw(r)
     ELSE /\ decision' = [decision EXCEPT ![t] = evaluateShadowPolicy(t, heard[r])]
          /\ Answered(r)
          /\ UNCHANGED <<status, keyOf, log, findings, audited, heard, saw>>

-----------------------------------------------------------------------------
(* failClosed *)

\* Mutant: a terminal state is not spared.
CatchAll(r) ==
  /\ pc[r] = "catch"
  /\ IF status[TaskOf[r]] = "none"
     THEN Goto(r, "failed_closed") /\ UNCHANGED saw
     ELSE saw' = [saw EXCEPT ![r] = status[TaskOf[r]]] /\ Goto(r, "fail_closed")
  /\ UNCHANGED <<rows, heard, faults>>
\* The read, outside the transaction ...
Catch(r) ==
  /\ pc[r] = "catch"
  /\ IF status[TaskOf[r]] \in TERMINAL \cup {"none"}
     THEN Goto(r, "failed_closed") /\ UNCHANGED saw
     ELSE saw' = [saw EXCEPT ![r] = status[TaskOf[r]]] /\ Goto(r, "fail_closed")
  /\ UNCHANGED <<rows, heard, faults>>

\* Mutant: no transition is recorded.
FailUnlogged(r) ==
  /\ pc[r] = "fail_closed"
  /\ status' = [status EXCEPT ![TaskOf[r]] = "FAILED_CLOSED"]
  /\ Goto(r, "failed_closed")
  /\ UNCHANGED <<keyOf, log, findings, decision, audited, heard, saw, faults>>
\* Mutant: the failure is answered and not recorded.
FailSilently(r) ==
  /\ pc[r] = "fail_closed"
  /\ Goto(r, "failed_closed")
  /\ UNCHANGED <<rows, heard, saw, faults>>
\* ... and the unguarded write.
FailClosed(r) ==
  /\ pc[r] = "fail_closed"
  /\ status' = [status EXCEPT ![TaskOf[r]] = "FAILED_CLOSED"]
  /\ Log(TaskOf[r], saw[r], "FAILED_CLOSED")
  /\ Goto(r, "failed_closed")
  /\ UNCHANGED <<keyOf, findings, decision, audited, heard, saw, faults>>

\* A statement fails: the run is caught, and a failing failClosed is swallowed.
Fail(r) ==
  /\ pc[r] \notin Ended \cup {"idle"}
  /\ Blame
  /\ Goto(r, IF pc[r] \in {"catch", "fail_closed"} THEN "unrecorded" ELSE "catch")
  /\ UNCHANGED <<rows, heard, saw>>

Crash(r) ==
  /\ pc[r] \notin Ended \cup {"idle"}
  /\ Blame
  /\ Goto(r, "crashed")
  /\ UNCHANGED <<rows, heard, saw>>

Begin(r) == pc[r] = "idle" /\ Goto(r, "insert") /\ UNCHANGED <<rows, heard, saw, faults>>

Init ==
  /\ status = [t \in Tasks |-> "none"] /\ keyOf = [k \in Keys |-> NoTask]
  /\ log = [t \in Tasks |-> << >>] /\ findings = [t \in Tasks |-> {}]
  /\ decision = [t \in Tasks |-> "none"] /\ audited = [t \in Tasks |-> {}]
  /\ pc = [r \in Runs |-> "idle"] /\ heard = [r \in Runs |-> {}]
  /\ saw = [r \in Runs |-> "none"] /\ faults = 0

Step(r) ==
  \/ InsertTask(r) \/ LookupKey(r) \/ LogReceived(r)
  \/ Transition(r) \/ Audit(r) \/ Decide(r)
  \/ \E marks \in Verdicts : RunRole(r, marks)
  \/ RefuseRole(r) \/ Catch(r) \/ FailClosed(r)

Next == \E r \in Runs : Begin(r) \/ Step(r) \/ Fail(r) \/ Crash(r)

Spec == Init /\ [][Next]_vars
FairSpec == Spec /\ \A r \in Runs : WF_vars(Step(r))

-----------------------------------------------------------------------------
(* Properties *)

Finding == [role : Roles, marks : Verdicts]
Outcomes == {"allow_limited_execution", "require_human_approval",
             "request_more_evidence", "deny"}
Statuses == COUNCIL_STATES \cup {"none"}

TypeOK ==
  /\ status \in [Tasks -> Statuses] /\ keyOf \in [Keys -> Tasks \cup {NoTask}]
  /\ log \in [Tasks -> Seq([from : Statuses, to : COUNCIL_STATES])]
  /\ findings \in [Tasks -> SUBSET Finding]
  /\ decision \in [Tasks -> Outcomes \cup {"none"}]
  /\ audited \in [Tasks -> SUBSET {"announce", "publish"}]
  /\ pc \in [Runs -> DOMAIN After \cup {"idle", "lookup", "catch", "fail_closed"} \cup Ended]
  /\ heard \in [Runs -> SUBSET Finding] /\ saw \in [Runs -> Statuses]
  /\ faults \in Nat

\* One run reviews a key, at work or done with it, and the others are told that it is a
\* replay, however close together they begin (createOrGetTask).
Reviewing(r) == pc[r] \in (DOMAIN After \ {"insert"}) \cup {"shadow_completed"}
OneReviewPerKey ==
  \A r, s \in Runs : KeyOf[r] = KeyOf[s] /\ Reviewing(r) /\ Reviewing(s) => r = s

\* A review that ends as completed has, in the database, one finding of every
\* role, the decision the gate takes on those findings, and both audit rows,
\* whichever of its statements failed or lost their answers.
CompletionIsBacked ==
  \A t \in Tasks : status[t] = "SHADOW_COMPLETED" =>
    /\ \A role \in Roles : \E f \in findings[t] : f.role = role
    /\ \A f, g \in findings[t] : f.role = g.role => f = g
    /\ decision[t] = evaluateShadowPolicy(t, findings[t])
    /\ audited[t] = {"announce", "publish"}

\* council_transitions tells the whole story of a row: each entry starts where
\* the one before it ended, by an allowed transition, and the last is the status.
Linked(entries) ==
  \A i \in 2..Len(entries) :
    /\ entries[i].from = entries[i - 1].to
    /\ ALLOWED_TRANSITIONS(entries[i].from, entries[i].to)
LogTellsStatus ==
  \A t \in Tasks :
    /\ log[t] = << >> => status[t] \in {"none", "RECEIVED"}
    /\ log[t] # << >> => log[t][Len(log[t])].to = status[t]
    /\ Linked(log[t])

\* COUNCIL-SHADOW.md: there is no way back from a terminal state.
TerminalStays == [][\A t \in Tasks : status[t] \in TERMINAL => status'[t] = status[t]]_vars

\* COUNCIL-SHADOW.md: an invalid output or a persistence failure ends in
\* FAILED_CLOSED; no review is left half way, unless its process dies or
\* failClosed itself cannot be recorded.
ReviewsEnd ==
  \A r \in Runs :
    status[TaskOf[r]] # "none" ~>
      \/ status[TaskOf[r]] \in TERMINAL
      \/ pc[r] \in {"crashed", "unrecorded"}
=============================================================================
