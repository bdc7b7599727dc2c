--------------------------- MODULE CouncilProofs ---------------------------
(***************************************************************************)
(* Proofs about Council, for any runs, envelopes, verdicts and faults.     *)
(*                                                                         *)
(* That a key is reviewed once needs no assumption: the unique index keeps *)
(* every second run out.  What is said of the rows of one task needs each  *)
(* envelope to bring a task id of its own, as buildShadowEnvelope makes    *)
(* it: then the statement a run has reached says what its rows hold        *)
(* (Placed), and what a completed row holds is settled when it completes.  *)
(***************************************************************************)
EXTENDS Council, SequenceTheorems, TLAPS

\* randomUUID in buildShadowEnvelope.
FreshTasks == \A r, s \in Runs : TaskOf[r] = TaskOf[s] => r = s

Labels == DOMAIN After \cup {"idle", "lookup", "catch", "fail_closed"} \cup Ended
Entry == [from : Statuses, to : COUNCIL_STATES]

LEMMA LabelsFollow ==
  /\ DOMAIN After \subseteq Labels
  /\ \A label \in DOMAIN After : After[label] \in Labels
  /\ \A label \in DOMAIN After : After[label] # "insert"
  /\ Roles \subseteq DOMAIN After
BY DEF After, Labels, Ended, Roles, COUNCIL_ROLES

LEMMA AnswerTypes ==
  ASSUME NEW r \in Runs, pc \in [Runs -> Labels], faults \in Nat, pc[r] \in DOMAIN After,
         Answered(r)
  PROVE  pc' \in [Runs -> Labels] /\ faults' \in Nat
<1>1. "catch" \in Labels
  BY DEF Labels
<1> QED BY <1>1, LabelsFollow DEF Answered, Blame, Goto

LEMMA LogTypes ==
  ASSUME NEW t \in Tasks, NEW from \in Statuses, NEW to \in COUNCIL_STATES,
         log \in [Tasks -> Seq(Entry)], Log(t, from, to)
  PROVE  log' \in [Tasks -> Seq(Entry)]
<1>1. [from |-> from, to |-> to] \in Entry
  BY DEF Entry
<1>2. Append(log[t], [from |-> from, to |-> to]) \in Seq(Entry)
  BY <1>1, AppendProperties
<1> QED BY <1>2 DEF Log

LEMMA GateTypes ==
  ASSUME NEW t, NEW given PROVE evaluateShadowPolicy(t, given) \in Outcomes
BY DEF evaluateShadowPolicy, Outcomes

LEMMA StatesTypes ==
  /\ Transitions \subseteq COUNCIL_STATES /\ Transitions \subseteq DOMAIN After
  /\ COUNCIL_STATES \subseteq Statuses
  /\ "RECEIVED" \in COUNCIL_STATES /\ "FAILED_CLOSED" \in COUNCIL_STATES /\ "none" \in Statuses
BY DEF Transitions, COUNCIL_STATES, Statuses, Successor, TERMINAL

(* Every reachable state is well typed (council/store.ts, the CHECKs of    *)
(* the council tables).                                                    *)
THEOREM CouncilTypeCorrect == Spec => []TypeOK
  <1>1. Init => TypeOK
    BY CouncilAssumption, EmptySeq, StatesTypes DEF Init, TypeOK, Labels, Entry
  <1>2. TypeOK /\ [Next]_vars => TypeOK'
    <2> SUFFICES ASSUME TypeOK, [Next]_vars PROVE TypeOK'
      OBVIOUS
    <2>0. /\ status \in [Tasks -> Statuses] /\ keyOf \in [Keys -> Tasks \cup {NoTask}]
          /\ log \in [Tasks -> Seq(Entry)] /\ findings \in [Tasks -> SUBSET Finding]
          /\ decision \in [Tasks -> Outcomes \cup {"none"}]
          /\ audited \in [Tasks -> SUBSET {"announce", "publish"}]
          /\ pc \in [Runs -> Labels] /\ heard \in [Runs -> SUBSET Finding]
          /\ saw \in [Runs -> Statuses] /\ faults \in Nat
      BY DEF TypeOK, Labels, Entry
    <2>00. {"insert", "lookup", "idempotent_replay", "catch", "fail_closed", "failed_closed",
            "unrecorded", "crashed"} \subseteq Labels
      BY DEF Labels, Ended, After
    <2>01. /\ status' \in [Tasks -> Statuses] /\ keyOf' \in [Keys -> Tasks \cup {NoTask}]
           /\ log' \in [Tasks -> Seq(Entry)] /\ findings' \in [Tasks -> SUBSET Finding]
           /\ decision' \in [Tasks -> Outcomes \cup {"none"}]
           /\ audited' \in [Tasks -> SUBSET {"announce", "publish"}]
           /\ pc' \in [Runs -> Labels] /\ heard' \in [Runs -> SUBSET Finding]
           /\ saw' \in [Runs -> Statuses] /\ faults' \in Nat
           => TypeOK'
      BY DEF TypeOK, Labels, Entry
    <2>02. ASSUME NEW r \in Runs PROVE TaskOf[r] \in Tasks /\ KeyOf[r] \in Keys
      BY CouncilAssumption
    <2>03. ASSUME NEW r \in Runs, Throw(r) PROVE TypeOK'
      BY <2>00, <2>0, <2>01, <2>03 DEF Throw, Goto, rows
    <2>1. ASSUME NEW r \in Runs, Begin(r) PROVE TypeOK'
      BY <2>00, <2>0, <2>01, <2>1 DEF Begin, Goto, rows
    <2>2. ASSUME NEW r \in Runs, InsertTask(r) PROVE TypeOK'
      <3>1. CASE Taken(r)
        BY <2>00, <2>0, <2>01, <2>2, <3>1 DEF InsertTask, Goto
      <3>2. CASE ~Taken(r)
        <4>1. /\ pc[r] \in DOMAIN After /\ Answered(r)
              /\ status' = [status EXCEPT ![TaskOf[r]] = "RECEIVED"]
              /\ keyOf' = [keyOf EXCEPT ![KeyOf[r]] = TaskOf[r]]
              /\ UNCHANGED <<log, findings, decision, audited, heard, saw>>
          BY <2>2, <3>2 DEF InsertTask, After
        <4>2. pc' \in [Runs -> Labels] /\ faults' \in Nat
          BY <2>0, <4>1, AnswerTypes
        <4> QED BY <2>0, <2>01, <2>02, <4>1, <4>2, StatesTypes
      <3> QED BY <3>1, <3>2
    <2>3. ASSUME NEW r \in Runs, LookupKey(r) PROVE TypeOK'
      BY <2>00, <2>0, <2>01, <2>3 DEF LookupKey, Goto, rows
    <2>4. ASSUME NEW r \in Runs, LogReceived(r) PROVE TypeOK'
      <3>1. pc' \in [Runs -> Labels] /\ faults' \in Nat
        <4>1. Answered(r) /\ pc[r] \in DOMAIN After
          BY <2>4 DEF LogReceived, After
        <4> QED BY <2>0, <4>1, AnswerTypes
      <3>2. log' \in [Tasks -> Seq(Entry)]
        BY <2>0, <2>02, <2>4, LogTypes, StatesTypes DEF LogReceived
      <3> QED BY <2>0, <2>01, <2>4, <3>1, <3>2 DEF LogReceived
    <2>5. ASSUME NEW r \in Runs, Transition(r) PROVE TypeOK'
      <3>1. CASE ~ALLOWED_TRANSITIONS(status[TaskOf[r]], pc[r])
        BY <2>03, <2>5, <3>1 DEF Transition
      <3>2. CASE ALLOWED_TRANSITIONS(status[TaskOf[r]], pc[r])
        <4>1. /\ pc[r] \in Transitions /\ Answered(r)
              /\ Log(TaskOf[r], status[TaskOf[r]], pc[r])
              /\ status' = [status EXCEPT ![TaskOf[r]] = pc[r]]
              /\ UNCHANGED <<keyOf, findings, decision, audited, heard, saw>>
          BY <2>5, <3>2 DEF Transition
        <4>2. pc' \in [Runs -> Labels] /\ faults' \in Nat
          BY <2>0, <4>1, AnswerTypes, StatesTypes
        <4>3. log' \in [Tasks -> Seq(Entry)]
          BY <2>0, <2>02, <4>1, LogTypes, StatesTypes
        <4> QED BY <2>0, <2>01, <2>02, <4>1, <4>2, <4>3, StatesTypes
      <3> QED BY <3>1, <3>2
    <2>6. ASSUME NEW r \in Runs, Audit(r) PROVE TypeOK'
      <3>1. pc' \in [Runs -> Labels] /\ faults' \in Nat
        <4>1. Answered(r) /\ pc[r] \in DOMAIN After
          BY <2>6 DEF Audit, After
        <4> QED BY <2>0, <4>1, AnswerTypes
      <3> QED BY <2>0, <2>01, <2>02, <2>6, <3>1 DEF Audit
    <2>7. ASSUME NEW r \in Runs, NEW marks \in Verdicts, RunRole(r, marks) PROVE TypeOK'
      <3> DEFINE finding == [role |-> pc[r], marks |-> marks]
      <3>1. CASE \E f \in findings[TaskOf[r]] : f.role = pc[r]
        BY <2>03, <2>7, <3>1 DEF RunRole
      <3>2. CASE ~\E f \in findings[TaskOf[r]] : f.role = pc[r]
        <4>1. /\ pc[r] \in Roles /\ Answered(r)
              /\ heard' = [heard EXCEPT ![r] = @ \cup {finding}]
              /\ findings' = [findings EXCEPT ![TaskOf[r]] = @ \cup {finding}]
              /\ UNCHANGED <<status, keyOf, log, decision, audited, saw>>
          BY <2>7, <3>2 DEF RunRole
        <4>2. pc' \in [Runs -> Labels] /\ faults' \in Nat
          BY <2>0, <4>1, AnswerTypes, LabelsFollow
        <4>3. finding \in Finding
          BY <4>1 DEF Finding
        <4> QED BY <2>0, <2>01, <2>02, <4>1, <4>2, <4>3
      <3> QED BY <3>1, <3>2
    <2>8. ASSUME NEW r \in Runs, RefuseRole(r) PROVE TypeOK'
      BY <2>03, <2>8 DEF RefuseRole
    <2>9. ASSUME NEW r \in Runs, Decide(r) PROVE TypeOK'
      <3>1. CASE decision[TaskOf[r]] # "none"
        BY <2>03, <2>9, <3>1 DEF Decide
      <3>2. CASE decision[TaskOf[r]] = "none"
        <4>1. /\ pc[r] \in DOMAIN After /\ Answered(r)
              /\ decision' = [decision EXCEPT ![TaskOf[r]] = evaluateShadowPolicy(TaskOf[r], heard[r])]
              /\ UNCHANGED <<status, keyOf, log, findings, audited, heard, saw>>
          BY <2>9, <3>2 DEF Decide, After
        <4>2. pc' \in [Runs -> Labels] /\ faults' \in Nat
          BY <2>0, <4>1, AnswerTypes
        <4> QED BY <2>0, <2>01, <2>02, <4>1, <4>2, GateTypes
      <3> QED BY <3>1, <3>2
    <2>10. ASSUME NEW r \in Runs, Catch(r) PROVE TypeOK'
      BY <2>00, <2>0, <2>01, <2>02, <2>10 DEF Catch, Goto, rows
    <2>11. ASSUME NEW r \in Runs, FailClosed(r) PROVE TypeOK'
      <3>1. log' \in [Tasks -> Seq(Entry)]
        BY <2>0, <2>02, <2>11, LogTypes, StatesTypes DEF FailClosed
      <3> QED BY <2>00, <2>0, <2>01, <2>02, <2>11, <3>1, StatesTypes DEF FailClosed, Goto
    <2>12. ASSUME NEW r \in Runs, Fail(r) PROVE TypeOK'
      BY <2>00, <2>0, <2>01, <2>12 DEF Fail, Blame, Goto, rows
    <2>13. ASSUME NEW r \in Runs, Crash(r) PROVE TypeOK'
      BY <2>00, <2>0, <2>01, <2>13 DEF Crash, Blame, Goto, rows
    <2>14. CASE UNCHANGED vars
      BY <2>14, <2>0, <2>01 DEF vars, rows
    <2> QED BY <2>1, <2>2, <2>3, <2>4, <2>5, <2>6, <2>7, <2>8, <2>9, <2>10, <2>11, <2>12,
               <2>13, <2>14 DEF Next, Step
  <1> QED BY <1>1, <1>2, PTL DEF Spec
-----------------------------------------------------------------------------
(* Whom a step concerns. *)

Act(r) == Begin(r) \/ Step(r) \/ Fail(r) \/ Crash(r)

\* A step of r changes its own state, and the rows of its own task.
Concerns(r) ==
  /\ \A s \in Runs \ {r} : pc'[s] = pc[s] /\ heard'[s] = heard[s] /\ saw'[s] = saw[s]
  /\ \A t \in Tasks \ {TaskOf[r]} :
       /\ status'[t] = status[t] /\ log'[t] = log[t] /\ findings'[t] = findings[t]
       /\ decision'[t] = decision[t] /\ audited'[t] = audited[t]

LEMMA StepConcerns ==
  ASSUME TypeOK, NEW r \in Runs, Act(r)
  PROVE  Concerns(r)
<1>0. /\ status \in [Tasks -> Statuses] /\ log \in [Tasks -> Seq(Entry)]
      /\ findings \in [Tasks -> SUBSET Finding]
      /\ decision \in [Tasks -> Outcomes \cup {"none"}]
      /\ audited \in [Tasks -> SUBSET {"announce", "publish"}]
      /\ pc \in [Runs -> Labels] /\ heard \in [Runs -> SUBSET Finding]
      /\ saw \in [Runs -> Statuses] /\ TaskOf[r] \in Tasks
  BY CouncilAssumption DEF TypeOK, Labels, Entry
<1>1. ASSUME UNCHANGED <<rows, heard, saw>>, \E label : Goto(r, label)
      PROVE  Concerns(r)
  BY <1>0, <1>1 DEF rows, Goto, Concerns
<1>2. ASSUME Answered(r) PROVE \E label : Goto(r, label)
  BY <1>2 DEF Answered
<1>3. ASSUME Throw(r) PROVE Concerns(r)
  BY <1>1, <1>3 DEF Throw
<1>4. CASE Begin(r) \/ LookupKey(r) \/ Fail(r) \/ Crash(r)
  BY <1>1, <1>4 DEF Begin, LookupKey, Fail, Crash
<1>5. CASE InsertTask(r)
  <2>1. CASE Taken(r)
    BY <1>0, <1>5, <2>1 DEF InsertTask, Goto, Concerns
  <2>2. CASE ~Taken(r)
    BY <1>0, <1>2, <1>5, <2>2 DEF InsertTask, Goto, Concerns
  <2> QED BY <2>1, <2>2
<1>6. CASE LogReceived(r)
  BY <1>0, <1>2, <1>6 DEF LogReceived, Log, Goto, Concerns
<1>7. CASE Transition(r)
  <2>1. CASE ALLOWED_TRANSITIONS(status[TaskOf[r]], pc[r])
    BY <1>0, <1>2, <1>7, <2>1 DEF Transition, Log, Goto, Concerns
  <2> QED BY <1>3, <1>7, <2>1 DEF Transition
<1>8. CASE Audit(r)
  BY <1>0, <1>2, <1>8 DEF Audit, Goto, Concerns
<1>9. ASSUME NEW marks \in Verdicts, RunRole(r, marks) PROVE Concerns(r)
  <2>1. CASE \E f \in findings[TaskOf[r]] : f.role = pc[r]
    BY <1>3, <1>9, <2>1 DEF RunRole
  <2>2. CASE ~\E f \in findings[TaskOf[r]] : f.role = pc[r]
    <3>1. PICK finding :
            /\ heard' = [heard EXCEPT ![r] = @ \cup {finding}]
            /\ findings' = [findings EXCEPT ![TaskOf[r]] = @ \cup {finding}]
            /\ Answered(r)
            /\ UNCHANGED <<status, keyOf, log, decision, audited, saw>>
      BY <1>9, <2>2 DEF RunRole
    <3> QED BY <1>0, <1>2, <3>1 DEF Goto, Concerns
  <2> QED BY <2>1, <2>2
<1>10. CASE RefuseRole(r)
  BY <1>3, <1>10 DEF RefuseRole
<1>11. CASE Decide(r)
  <2>1. CASE decision[TaskOf[r]] = "none"
    <3>1. PICK outcome :
            /\ decision' = [decision EXCEPT ![TaskOf[r]] = outcome]
            /\ Answered(r)
            /\ UNCHANGED <<status, keyOf, log, findings, audited, heard, saw>>
      BY <1>11, <2>1 DEF Decide
    <3> QED BY <1>0, <1>2, <3>1 DEF Goto, Concerns
  <2> QED BY <1>3, <1>11, <2>1 DEF Decide
<1>12. CASE Catch(r)
  BY <1>0, <1>12 DEF Catch, rows, Goto, Concerns
<1>13. CASE FailClosed(r)
  BY <1>0, <1>13 DEF FailClosed, Log, Goto, Concerns
<1> QED BY <1>4, <1>5, <1>6, <1>7, <1>8, <1>9, <1>10, <1>11, <1>12, <1>13 DEF Act, Step

\* Only the insertion of a row takes a key, and only that begins a review.
LEMMA OnlyInsertTakes ==
  ASSUME TypeOK, NEW r \in Runs, Act(r)
  PROVE  \/ /\ ~Taken(r) /\ keyOf' = [keyOf EXCEPT ![KeyOf[r]] = TaskOf[r]]
         \/ /\ keyOf' = keyOf /\ (Reviewing(r)' => Reviewing(r))
<1>0. pc \in [Runs -> Labels]
  BY DEF TypeOK, Labels
<1>1. ASSUME Throw(r) PROVE keyOf' = keyOf /\ ~Reviewing(r)'
  BY <1>0, <1>1 DEF Throw, Goto, rows, Reviewing, After
<1>2. CASE Begin(r) \/ LookupKey(r) \/ Fail(r) \/ Crash(r) \/ Catch(r)
  BY <1>0, <1>2 DEF Begin, LookupKey, Fail, Crash, Catch, Goto, rows, Reviewing, After
<1>3. CASE InsertTask(r)
  <2>1. CASE Taken(r)
    BY <1>0, <1>3, <2>1 DEF InsertTask, Goto, Reviewing, After
  <2> QED BY <1>3, <2>1 DEF InsertTask
<1>4. CASE LogReceived(r) \/ Audit(r)
  BY <1>4 DEF LogReceived, Audit, Reviewing, After
<1>5. CASE Transition(r)
  <2>1. Reviewing(r)
    BY <1>5, StatesTypes DEF Transition, Reviewing, Transitions, COUNCIL_STATES, Successor, TERMINAL
  <2> QED BY <1>1, <1>5, <2>1 DEF Transition
<1>6. ASSUME NEW marks \in Verdicts, RunRole(r, marks)
      PROVE  keyOf' = keyOf /\ Reviewing(r)
  <2>1. Reviewing(r)
    BY <1>6 DEF RunRole, Roles, COUNCIL_ROLES, Reviewing, After
  <2> QED BY <1>1, <1>6, <2>1 DEF RunRole
<1>7. CASE RefuseRole(r)
  BY <1>1, <1>7 DEF RefuseRole
<1>8. CASE Decide(r)
  <2>1. Reviewing(r)
    BY <1>8 DEF Decide, Reviewing, After
  <2> QED BY <1>1, <1>8, <2>1 DEF Decide
<1>9. CASE FailClosed(r)
  BY <1>0, <1>9 DEF FailClosed, Goto, Reviewing, After
<1> QED BY <1>2, <1>3, <1>4, <1>5, <1>6, <1>7, <1>8, <1>9 DEF Act, Step

KeysTaken == \A r \in Runs : Reviewing(r) => keyOf[KeyOf[r]] # NoTask

(* Of all the runs that are given one key, one reviews (createOrGetTask,   *)
(* the unique index of idempotency_key).                                   *)
THEOREM OneReview == Spec => []OneReviewPerKey
  <1>1. Init => OneReviewPerKey /\ KeysTaken
    BY DEF Init, OneReviewPerKey, KeysTaken, Reviewing, After
  <1>2. TypeOK /\ OneReviewPerKey /\ KeysTaken /\ [Next]_vars => (OneReviewPerKey /\ KeysTaken)'
    <2> SUFFICES ASSUME TypeOK, OneReviewPerKey, KeysTaken, [Next]_vars
                 PROVE  (OneReviewPerKey /\ KeysTaken)'
      OBVIOUS
    <2>1. ASSUME NEW r \in Runs, Act(r) PROVE (OneReviewPerKey /\ KeysTaken)'
      <3>0. \A s \in Runs : KeyOf[s] \in Keys /\ TaskOf[s] # NoTask
        BY CouncilAssumption
      <3>1. \A s \in Runs \ {r} : Reviewing(s)' <=> Reviewing(s)
        BY <2>1, StepConcerns DEF Concerns, Reviewing
      <3>2. CASE keyOf' = keyOf /\ (Reviewing(r)' => Reviewing(r))
        BY <3>1, <3>2 DEF OneReviewPerKey, KeysTaken
      <3>3. CASE ~Taken(r) /\ keyOf' = [keyOf EXCEPT ![KeyOf[r]] = TaskOf[r]]
        <4>1. keyOf[KeyOf[r]] = NoTask
          BY <3>3 DEF Taken
        <4>2. \A s \in Runs \ {r} : Reviewing(s) => KeyOf[s] # KeyOf[r]
          BY <4>1 DEF KeysTaken
        <4>3. \A k \in Keys : keyOf'[k] = IF k = KeyOf[r] THEN TaskOf[r] ELSE keyOf[k]
          BY <3>3 DEF TypeOK
        <4> QED BY <3>0, <3>1, <4>2, <4>3 DEF OneReviewPerKey, KeysTaken
      <3> QED BY <2>1, <3>2, <3>3, OnlyInsertTakes
    <2>2. CASE UNCHANGED vars
      BY <2>2 DEF vars, rows, OneReviewPerKey, KeysTaken, Reviewing
    <2> QED BY <2>1, <2>2 DEF Next, Act
  <1> QED BY <1>1, <1>2, CouncilTypeCorrect, PTL DEF Spec
-----------------------------------------------------------------------------
(* Where a run is, and what the rows of its task hold. *)

Rank ==
  [insert |-> 1, received |-> 2, STATIC_VALIDATED |-> 3, COUNCIL_QUEUED |-> 4,
   announce |-> 5, PLANNING |-> 6, planner |-> 7, VERIFYING |-> 8, verifier |-> 9,
   CRITIQUING |-> 10, critic |-> 11, JUDGING |-> 12, judge |-> 13, decide |-> 14,
   POLICY_DECIDED |-> 15, publish |-> 16, SHADOW_COMPLETED |-> 17, shadow_completed |-> 18]
Steps == DOMAIN Rank

\* The status a review has reached before the statement `label`.
Reached ==
  [insert |-> "none", received |-> "RECEIVED", STATIC_VALIDATED |-> "RECEIVED",
   COUNCIL_QUEUED |-> "STATIC_VALIDATED", announce |-> "COUNCIL_QUEUED",
   PLANNING |-> "COUNCIL_QUEUED", planner |-> "PLANNING", VERIFYING |-> "PLANNING",
   verifier |-> "VERIFYING", CRITIQUING |-> "VERIFYING", critic |-> "CRITIQUING",
   JUDGING |-> "CRITIQUING", judge |-> "JUDGING", decide |-> "JUDGING",
   POLICY_DECIDED |-> "JUDGING", publish |-> "POLICY_DECIDED",
   SHADOW_COMPLETED |-> "POLICY_DECIDED", shadow_completed |-> "SHADOW_COMPLETED"]

Past(r, label) == Rank[pc[r]] > Rank[label]

PlacedRows(r, t) ==
  /\ status[t] = Reached[pc[r]]
  /\ log[t] = << >> <=> pc[r] \in {"insert", "received"}
  /\ heard[r] = findings[t]
  /\ \A role \in Roles : (\E f \in findings[t] : f.role = role) <=> Past(r, role)
  /\ \A f, g \in findings[t] : f.role = g.role => f = g
  /\ decision[t] = IF Past(r, "decide") THEN evaluateShadowPolicy(t, findings[t]) ELSE "none"
  /\ \A event \in {"announce", "publish"} : event \in audited[t] <=> Past(r, event)

Blank(r, t) ==
  /\ status[t] = "none" /\ log[t] = << >> /\ findings[t] = {} /\ heard[r] = {}
  /\ decision[t] = "none" /\ audited[t] = {}

Placed(r) ==
  LET t == TaskOf[r] IN
  /\ pc[r] \in {"idle", "insert", "lookup"} => Blank(r, t)
  /\ pc[r] \in Steps => PlacedRows(r, t)
  /\ pc[r] = "fail_closed" => saw[r] = status[t] /\ status[t] \in DOMAIN Successor

Told(t) ==
  /\ log[t] = << >> => status[t] \in {"none", "RECEIVED"}
  /\ log[t] # << >> => log[t][Len(log[t])].to = status[t]
  /\ Linked(log[t])

Backed(t) ==
  status[t] = "SHADOW_COMPLETED" =>
    /\ \A role \in Roles : \E f \in findings[t] : f.role = role
    /\ \A f, g \in findings[t] : f.role = g.role => f = g
    /\ decision[t] = evaluateShadowPolicy(t, findings[t])
    /\ audited[t] = {"announce", "publish"}

Reviewed ==
  /\ \A r \in Runs : Placed(r)
  /\ \A t \in Tasks : Told(t) /\ Backed(t)

LEMMA StepFacts ==
  /\ Steps = DOMAIN After \cup {"shadow_completed"}
  /\ \A label \in Steps : Rank[label] \in Nat
  /\ Steps \cap {"idle", "lookup", "catch", "fail_closed", "failed_closed", "unrecorded",
                "crashed", "idempotent_replay"} = {}
BY DEF Steps, Rank, After

LEMMA AfterFacts ==
  \A label \in DOMAIN After :
    /\ After[label] \in Steps \ {"insert"}
    /\ Rank[After[label]] = Rank[label] + 1
    /\ After[label] = "received" <=> label = "insert"
BY DEF After, Steps, Rank

LEMMA RankFacts ==
  \A label \in Steps, mark \in Roles \cup {"decide", "announce", "publish"} :
    /\ mark \in Steps
    /\ Rank[label] = Rank[mark] => label = mark
BY DEF Steps, Rank, Roles, COUNCIL_ROLES

LEMMA TransitionFacts ==
  \A label \in Transitions :
    /\ Reached[label] \in DOMAIN Successor /\ Reached[label] # label
    /\ Reached[After[label]] = label
    /\ label \notin Roles \cup {"insert", "received", "decide", "announce", "publish"}
BY DEF Transitions, After, COUNCIL_STATES, Successor, TERMINAL, Reached, Roles, COUNCIL_ROLES

LEMMA OtherFacts ==
  /\ \A label \in Roles \cup {"received", "decide", "announce", "publish"} :
       /\ label \in DOMAIN After
       /\ Reached[After[label]] = Reached[label]
       /\ Reached[label] \in DOMAIN Successor
  /\ Reached["insert"] = "none" /\ Reached["received"] = "RECEIVED"
BY DEF After, Roles, COUNCIL_ROLES, Reached, Successor

LEMMA StatusFacts ==
  /\ DOMAIN Successor \cap (TERMINAL \cup {"none"}) = {} /\ "none" \notin TERMINAL
  /\ Statuses = DOMAIN Successor \cup TERMINAL \cup {"none"}
  /\ "RECEIVED" \in DOMAIN Successor
  /\ "FAILED_CLOSED" # "SHADOW_COMPLETED" /\ "SHADOW_COMPLETED" \in TERMINAL
BY DEF Successor, TERMINAL, Statuses, COUNCIL_STATES

LEMMA PastGrows ==
  ASSUME NEW r \in Runs, pc[r] \in DOMAIN After, pc'[r] = After[pc[r]],
         NEW mark \in Roles \cup {"decide", "announce", "publish"}
  PROVE  Past(r, mark)' <=> Past(r, mark) \/ pc[r] = mark
BY StepFacts, AfterFacts, RankFacts DEF Past

\* A run that is caught, or that has ended, owes its rows nothing more.
LEMMA OffThePath ==
  ASSUME NEW r \in Runs,
         pc'[r] \in {"catch", "failed_closed", "unrecorded", "crashed", "idempotent_replay"}
  PROVE  Placed(r)'
BY StepFacts DEF Placed

LEMMA OnThePath ==
  ASSUME NEW r \in Runs, pc'[r] \in Steps \ {"insert"}, PlacedRows(r, TaskOf[r])'
  PROVE  Placed(r)'
BY StepFacts DEF Placed

LEMMA RowsKept ==
  ASSUME NEW t \in Tasks, Told(t), Backed(t),
         status'[t] = status[t], log'[t] = log[t], findings'[t] = findings[t],
         decision'[t] = decision[t], audited'[t] = audited[t]
  PROVE  Told(t)' /\ Backed(t)'
BY DEF Told, Backed

LEMMA AppendTold ==
  ASSUME NEW entries \in Seq(Entry), Linked(entries),
         NEW from \in Statuses, NEW to \in COUNCIL_STATES,
         entries # << >> => entries[Len(entries)].to = from /\ ALLOWED_TRANSITIONS(from, to)
  PROVE  LET longer == Append(entries, [from |-> from, to |-> to]) IN
           /\ longer # << >> /\ longer[Len(longer)].to = to /\ Linked(longer)
<1> DEFINE last == [from |-> from, to |-> to]
           longer == Append(entries, last)
<1>1. last \in Entry
  BY DEF Entry
<1>2. /\ Len(longer) = Len(entries) + 1 /\ longer[Len(entries) + 1] = last
      /\ \A i \in 1..Len(entries) : longer[i] = entries[i]
      /\ longer # << >>
  BY <1>1, AppendProperties
<1>3. Len(entries) \in Nat /\ (Len(entries) # 0 => entries # << >>)
  BY LenProperties
<1>4. last.from = from /\ last.to = to
  OBVIOUS
<1> HIDE DEF longer, last
<1>5. ASSUME NEW i \in 2..Len(longer)
      PROVE  /\ longer[i].from = longer[i - 1].to
             /\ ALLOWED_TRANSITIONS(longer[i].from, longer[i].to)
  <2>1. CASE i \in 2..Len(entries)
    <3>1. i - 1 \in 1..Len(entries) /\ i \in 1..Len(entries)
      BY <1>3, <2>1
    <3> QED BY <1>2, <2>1, <3>1 DEF Linked
  <2>2. CASE i = Len(entries) + 1
    <3>1. i - 1 = Len(entries) /\ Len(entries) \in 1..Len(entries)
      BY <1>2, <1>3, <2>2
    <3> QED BY <1>2, <1>3, <1>4, <2>2, <3>1
  <2> QED BY <1>2, <1>3, <2>1, <2>2
<1>6. Linked(longer)
  BY <1>5 DEF Linked
<1>7. longer[Len(longer)].to = to
  BY <1>2, <1>4
<1> QED BY <1>2, <1>6, <1>7 DEF longer, last

LEMMA LogTold ==
  ASSUME NEW t, Told(t), log[t] \in Seq(Entry), NEW from \in Statuses, NEW to \in COUNCIL_STATES,
         log'[t] = Append(log[t], [from |-> from, to |-> to]),
         log[t] # << >> => from = status[t] /\ ALLOWED_TRANSITIONS(from, to)
  PROVE  log'[t] # << >> /\ log'[t][Len(log'[t])].to = to /\ Linked(log'[t])
<1>1. /\ Linked(log[t])
      /\ log[t] # << >> => log[t][Len(log[t])].to = from /\ ALLOWED_TRANSITIONS(from, to)
  BY DEF Told
<1>2. LET longer == Append(log[t], [from |-> from, to |-> to]) IN
        longer # << >> /\ longer[Len(longer)].to = to /\ Linked(longer)
  BY <1>1, AppendTold
<1> QED BY <1>2

LEMMA InsertFirst ==
  \A mark \in Roles \cup {"decide", "announce", "publish"} : ~(Rank["insert"] > Rank[mark])
BY DEF Rank, Roles, COUNCIL_ROLES

LEMMA CompletionLast ==
  /\ Reached["SHADOW_COMPLETED"] = "POLICY_DECIDED"
  /\ \A mark \in Roles \cup {"decide", "announce", "publish"} :
       Rank["SHADOW_COMPLETED"] > Rank[mark]
  /\ "SHADOW_COMPLETED" \in Steps
BY DEF Reached, Rank, Roles, COUNCIL_ROLES, Steps

\* A completion finds every row it needs.
LEMMA CompletionBacks ==
  ASSUME TypeOK, NEW r \in Runs, pc[r] = "SHADOW_COMPLETED", PlacedRows(r, TaskOf[r])
  PROVE  LET t == TaskOf[r] IN
         /\ \A role \in Roles : \E f \in findings[t] : f.role = role
         /\ \A f, g \in findings[t] : f.role = g.role => f = g
         /\ decision[t] = evaluateShadowPolicy(t, findings[t])
         /\ audited[t] = {"announce", "publish"}
<1> DEFINE t == TaskOf[r]
<1>1. \A mark \in Roles \cup {"decide", "announce", "publish"} : Past(r, mark)
  BY CompletionLast DEF Past
<1>2. audited[t] \in SUBSET {"announce", "publish"}
  BY CouncilAssumption DEF TypeOK
<1>3. "announce" \in audited[t] /\ "publish" \in audited[t]
  BY <1>1 DEF PlacedRows
<1> QED BY <1>1, <1>2, <1>3 DEF PlacedRows

\* A step of a run keeps what the rows of its task hold, and their settled status.
LEMMA StepPlaces ==
  ASSUME TypeOK, NEW r \in Runs, Placed(r), Told(TaskOf[r]), Backed(TaskOf[r]), Act(r)
  PROVE  /\ Placed(r)' /\ Told(TaskOf[r])' /\ Backed(TaskOf[r])'
         /\ status[TaskOf[r]] \in TERMINAL => status'[TaskOf[r]] = status[TaskOf[r]]
<1> DEFINE t == TaskOf[r]
           Kept == /\ Told(t)' /\ Backed(t)'
                   /\ status[t] \in TERMINAL => status'[t] = status[t]
<1> SUFFICES Placed(r)' /\ Kept
  OBVIOUS
<1>0. /\ status \in [Tasks -> Statuses] /\ log \in [Tasks -> Seq(Entry)]
      /\ findings \in [Tasks -> SUBSET Finding]
      /\ decision \in [Tasks -> Outcomes \cup {"none"}]
      /\ audited \in [Tasks -> SUBSET {"announce", "publish"}]
      /\ pc \in [Runs -> Labels] /\ heard \in [Runs -> SUBSET Finding]
      /\ saw \in [Runs -> Statuses] /\ t \in Tasks /\ keyOf \in [Keys -> Tasks \cup {NoTask}]
      /\ KeyOf[r] \in Keys
  BY CouncilAssumption DEF TypeOK, Labels, Entry
<1>01. ASSUME UNCHANGED <<status, log, findings, decision, audited>> PROVE Kept
  BY <1>0, <1>01, RowsKept
<1>02. ASSUME NEW label, Goto(r, label) PROVE pc'[r] = label
  BY <1>0, <1>02 DEF Goto
<1>03. ASSUME Answered(r), pc[r] \in DOMAIN After,
              pc'[r] = After[pc[r]] => PlacedRows(r, t)'
       PROVE  Placed(r)'
  <2>1. CASE Goto(r, After[pc[r]])
    BY <1>02, <1>03, <2>1, AfterFacts, OnThePath
  <2>2. CASE Goto(r, "catch")
    BY <1>02, <2>2, OffThePath
  <2> QED BY <1>03, <2>1, <2>2 DEF Answered
<1>04. ASSUME Throw(r) PROVE Placed(r)' /\ Kept
  <2>1. pc'[r] = "catch"
    BY <1>02, <1>04 DEF Throw
  <2> QED BY <1>01, <1>04, <2>1, OffThePath DEF Throw, rows
<1>1. CASE Begin(r)
  <2>1. pc[r] = "idle" /\ pc'[r] = "insert" /\ UNCHANGED <<rows, heard, saw>>
    BY <1>02, <1>1 DEF Begin
  <2>2. Blank(r, t)
    BY <2>1 DEF Placed
  <2>3. PlacedRows(r, t)'
    BY <2>1, <2>2, InsertFirst, OtherFacts DEF Blank, PlacedRows, Past, rows
  <2>4. Blank(r, t)'
    BY <2>1, <2>2 DEF Blank, rows
  <2>5. Placed(r)'
    BY <2>1, <2>3, <2>4 DEF Placed
  <2> QED BY <1>01, <2>1, <2>5 DEF rows
<1>2. CASE InsertTask(r)
  <2>0. pc[r] = "insert" /\ "insert" \in Steps /\ "insert" \in DOMAIN After
    BY <1>2 DEF InsertTask, Steps, Rank, After
  <2>1. Blank(r, t) /\ PlacedRows(r, t)
    BY <2>0 DEF Placed
  <2>2. CASE Taken(r)
    <3>1. pc'[r] = "lookup" /\ UNCHANGED <<status, log, findings, decision, audited, heard>>
      BY <1>02, <1>2, <2>2 DEF InsertTask
    <3>2. Blank(r, t)'
      BY <2>1, <3>1 DEF Blank
    <3>3. Placed(r)'
      BY <3>1, <3>2, StepFacts DEF Placed
    <3> QED BY <1>01, <3>1, <3>3
  <2>3. CASE ~Taken(r)
    <3>1. /\ status' = [status EXCEPT ![t] = "RECEIVED"] /\ Answered(r) /\ status[t] = "none"
          /\ UNCHANGED <<log, findings, decision, audited, heard>>
      BY <1>2, <2>3 DEF InsertTask, Taken
    <3>2. status'[t] = "RECEIVED"
      BY <1>0, <3>1
    <3>3. ASSUME pc'[r] = After[pc[r]] PROVE PlacedRows(r, t)'
      <4>1. pc'[r] = "received"
        BY <2>0, <3>3, AfterFacts
      <4>2. \A mark \in Roles \cup {"decide", "announce", "publish"} :
              Past(r, mark)' <=> Past(r, mark)
        BY <2>0, <3>3, PastGrows, RankFacts, InsertFirst, StepFacts DEF Past, Roles, COUNCIL_ROLES
      <4> QED BY <2>0, <2>1, <3>1, <3>2, <4>1, <4>2, OtherFacts DEF PlacedRows
    <3>4. Placed(r)'
      BY <1>03, <2>0, <3>1, <3>3
    <3>5. Kept
      BY <2>1, <3>1, <3>2, StatusFacts DEF Blank, Told, Backed
    <3> QED BY <3>4, <3>5
  <2> QED BY <2>2, <2>3
<1>3. CASE LookupKey(r)
  <2>1. pc'[r] \in {"catch", "idempotent_replay"} /\ UNCHANGED rows
    BY <1>02, <1>3 DEF LookupKey
  <2> QED BY <1>01, <2>1, OffThePath DEF rows
<1>4. CASE Fail(r) \/ Crash(r)
  <2>1. pc'[r] \in {"catch", "unrecorded", "crashed"} /\ UNCHANGED rows
    BY <1>02, <1>4 DEF Fail, Crash
  <2> QED BY <1>01, <2>1, OffThePath DEF rows
<1>5. CASE RefuseRole(r)
  BY <1>04, <1>5 DEF RefuseRole
<1>6. CASE LogReceived(r)
  <2>0. pc[r] = "received" /\ "received" \in Steps /\ "received" \in DOMAIN After
    BY <1>6 DEF LogReceived, Steps, Rank, After
  <2>1. PlacedRows(r, t)
    BY <2>0 DEF Placed
  <2>2. /\ log' = [log EXCEPT ![t] = Append(log[t], [from |-> "none", to |-> "RECEIVED"])]
        /\ Answered(r)
        /\ UNCHANGED <<status, findings, decision, audited, heard>>
    BY <1>6 DEF LogReceived, Log
  <2>3. status[t] = "RECEIVED" /\ log[t] = << >>
    BY <2>0, <2>1, OtherFacts DEF PlacedRows
  <2>4. log'[t] # << >> /\ Told(t)'
    <3>1. log'[t] = Append(log[t], [from |-> "none", to |-> "RECEIVED"])
      BY <1>0, <2>2
    <3>2. log'[t] # << >> /\ log'[t][Len(log'[t])].to = "RECEIVED" /\ Linked(log'[t])
      <4>1. log[t] \in Seq(Entry)
        BY <1>0
      <4> QED BY <2>3, <3>1, <4>1, LogTold, StatesTypes
    <3> QED BY <2>2, <2>3, <3>2 DEF Told, Linked
  <2>5. ASSUME pc'[r] = After[pc[r]] PROVE PlacedRows(r, t)'
    <3>1. \A mark \in Roles \cup {"decide", "announce", "publish"} :
            Past(r, mark)' <=> Past(r, mark)
      BY <2>0, <2>5, PastGrows DEF Roles, COUNCIL_ROLES
    <3>2. Reached[pc'[r]] = "RECEIVED" /\ pc'[r] \notin {"insert", "received"}
      BY <2>0, <2>5, OtherFacts, AfterFacts
    <3> QED BY <2>0, <2>1, <2>2, <2>3, <2>4, <3>1, <3>2 DEF PlacedRows
  <2>6. Placed(r)'
    BY <1>03, <2>0, <2>2, <2>5
  <2>7. Kept
    BY <2>2, <2>3, <2>4, StatusFacts DEF Backed
  <2> QED BY <2>6, <2>7
<1>7. CASE Transition(r)
  <2>0. pc[r] \in Transitions /\ pc[r] \in DOMAIN After /\ pc[r] \in Steps
    BY <1>7, StatesTypes, StepFacts DEF Transition
  <2>1. PlacedRows(r, t)
    BY <2>0 DEF Placed
  <2>2. CASE ~ALLOWED_TRANSITIONS(status[t], pc[r])
    BY <1>04, <1>7, <2>2 DEF Transition
  <2>3. CASE ALLOWED_TRANSITIONS(status[t], pc[r])
    <3>1. /\ status' = [status EXCEPT ![t] = pc[r]]
          /\ log' = [log EXCEPT ![t] = Append(log[t], [from |-> status[t], to |-> pc[r]])]
          /\ Answered(r)
          /\ UNCHANGED <<findings, decision, audited, heard>>
      BY <1>7, <2>3 DEF Transition, Log
    <3>2. /\ status'[t] = pc[r]
          /\ log'[t] = Append(log[t], [from |-> status[t], to |-> pc[r]])
      BY <1>0, <3>1
    <3>3. status[t] \in DOMAIN Successor /\ log[t] # << >>
      BY <2>0, <2>1, TransitionFacts DEF PlacedRows
    <3>4. log'[t] # << >> /\ log'[t][Len(log'[t])].to = pc[r] /\ Linked(log'[t])
      <4>1. log[t] \in Seq(Entry) /\ status[t] \in Statuses /\ pc[r] \in COUNCIL_STATES
        BY <1>0, <2>0, StatesTypes
      <4> QED BY <2>3, <3>2, <4>1, LogTold
    <3>5. Told(t)'
      BY <3>2, <3>4 DEF Told, Linked
    <3>6. Backed(t)'
      <4>1. CASE pc[r] = "SHADOW_COMPLETED"
        BY <2>1, <3>1, <4>1, CompletionBacks DEF Backed
      <4>2. CASE pc[r] # "SHADOW_COMPLETED"
        BY <3>2, <4>2 DEF Backed
      <4> QED BY <4>1, <4>2
    <3>7. ASSUME pc'[r] = After[pc[r]] PROVE PlacedRows(r, t)'
      <4>1. \A mark \in Roles \cup {"decide", "announce", "publish"} :
              Past(r, mark)' <=> Past(r, mark)
        BY <2>0, <3>7, PastGrows, TransitionFacts
      <4>2. Reached[pc'[r]] = pc[r] /\ pc'[r] \notin {"insert", "received"}
        BY <2>0, <3>7, TransitionFacts, AfterFacts
      <4> QED BY <2>0, <2>1, <3>1, <3>2, <3>4, <4>1, <4>2 DEF PlacedRows
    <3>8. Placed(r)'
      BY <1>03, <2>0, <3>1, <3>7
    <3> QED BY <3>3, <3>5, <3>6, <3>8, StatusFacts
  <2> QED BY <2>2, <2>3
<1>8. CASE Audit(r)
  <2>0. /\ pc[r] \in {"announce", "publish"} /\ pc[r] \in DOMAIN After /\ pc[r] \in Steps
        /\ pc[r] \notin {"insert", "received"} /\ pc[r] \notin Roles \cup {"decide"}
    BY <1>8, StepFacts, OtherFacts DEF Audit, Roles, COUNCIL_ROLES
  <2>1. PlacedRows(r, t)
    BY <2>0 DEF Placed
  <2>2. /\ audited' = [audited EXCEPT ![t] = @ \cup {pc[r]}] /\ Answered(r)
        /\ UNCHANGED <<status, log, findings, decision, heard>>
    BY <1>8 DEF Audit
  <2>3. audited'[t] = audited[t] \cup {pc[r]}
    BY <1>0, <2>2
  <2>4. status[t] \in DOMAIN Successor
    BY <2>0, <2>1, OtherFacts DEF PlacedRows
  <2>5. ASSUME pc'[r] = After[pc[r]] PROVE PlacedRows(r, t)'
    <3>1. \A mark \in Roles \cup {"decide", "announce", "publish"} :
            Past(r, mark)' <=> Past(r, mark) \/ pc[r] = mark
      BY <2>0, <2>5, PastGrows
    <3>2. Reached[pc'[r]] = Reached[pc[r]] /\ pc'[r] \notin {"insert", "received"}
      BY <2>0, <2>5, OtherFacts, AfterFacts
    <3> QED BY <2>0, <2>1, <2>2, <2>3, <3>1, <3>2 DEF PlacedRows
  <2>6. Placed(r)'
    BY <1>03, <2>0, <2>2, <2>5
  <2>7. Kept
    BY <2>2, <2>4, StatusFacts DEF Backed, Told
  <2> QED BY <2>6, <2>7
<1>9. ASSUME NEW marks \in Verdicts, RunRole(r, marks) PROVE Placed(r)' /\ Kept
  <2> DEFINE finding == [role |-> pc[r], marks |-> marks]
  <2>0. /\ pc[r] \in Roles /\ pc[r] \in DOMAIN After /\ pc[r] \in Steps
        /\ pc[r] \notin {"insert", "received", "decide", "announce", "publish"}
    BY <1>9, StepFacts, OtherFacts DEF RunRole, Roles, COUNCIL_ROLES
  <2>1. PlacedRows(r, t)
    BY <2>0 DEF Placed
  <2>2. CASE \E f \in findings[t] : f.role = pc[r]
    BY <1>04, <1>9, <2>2 DEF RunRole
  <2>3. CASE ~\E f \in findings[t] : f.role = pc[r]
    <3>1. /\ heard' = [heard EXCEPT ![r] = @ \cup {finding}]
          /\ findings' = [findings EXCEPT ![t] = @ \cup {finding}]
          /\ Answered(r)
          /\ UNCHANGED <<status, log, decision, audited>>
      BY <1>9, <2>3 DEF RunRole
    <3>2. finding.role = pc[r]
      OBVIOUS
    <3> HIDE DEF finding
    <3>3. /\ findings'[t] = findings[t] \cup {finding}
          /\ heard'[r] = findings'[t]
      BY <1>0, <2>1, <3>1 DEF PlacedRows
    <3>4. status[t] \in DOMAIN Successor
      BY <2>0, <2>1, OtherFacts DEF PlacedRows
    <3>5. ASSUME pc'[r] = After[pc[r]] PROVE PlacedRows(r, t)'
      <4>1. \A mark \in Roles \cup {"decide", "announce", "publish"} :
              Past(r, mark)' <=> Past(r, mark) \/ pc[r] = mark
        BY <2>0, <3>5, PastGrows
      <4>2. Reached[pc'[r]] = Reached[pc[r]] /\ pc'[r] \notin {"insert", "received"}
        BY <2>0, <3>5, OtherFacts, AfterFacts
      <4>3. \A role \in Roles : (\E f \in findings'[t] : f.role = role) <=> Past(r, role)'
        BY <2>1, <3>2, <3>3, <4>1 DEF PlacedRows
      <4>4. \A f, g \in findings'[t] : f.role = g.role => f = g
        BY <2>1, <2>3, <3>2, <3>3 DEF PlacedRows
      <4>5. ~Past(r, "decide") /\ ~Past(r, "decide")'
        <5>1. ~Past(r, "decide")
          BY <2>0 DEF Past, Rank, Roles, COUNCIL_ROLES
        <5> QED BY <2>0, <4>1, <5>1
      <4>6. decision'[t] = "none"
        BY <2>1, <3>1, <4>5 DEF PlacedRows
      <4>7. \A event \in {"announce", "publish"} : event \in audited'[t] <=> Past(r, event)'
        BY <2>0, <2>1, <3>1, <4>1 DEF PlacedRows
      <4>8. status'[t] = Reached[pc'[r]] /\ log'[t] # << >>
        BY <2>0, <2>1, <3>1, <4>2 DEF PlacedRows
      <4> QED BY <3>3, <4>2, <4>3, <4>4, <4>5, <4>6, <4>7, <4>8 DEF PlacedRows
    <3>6. Placed(r)'
      BY <1>03, <2>0, <3>1, <3>5
    <3>7. Kept
      BY <3>1, <3>4, StatusFacts DEF Backed, Told
    <3> QED BY <3>6, <3>7
  <2> QED BY <2>2, <2>3
<1>10. CASE Decide(r)
  <2>0. /\ pc[r] = "decide" /\ pc[r] \in DOMAIN After /\ pc[r] \in Steps
        /\ pc[r] \notin Roles \cup {"insert", "received", "announce", "publish"}
    BY <1>10, StepFacts, OtherFacts DEF Decide, Roles, COUNCIL_ROLES
  <2>1. PlacedRows(r, t)
    BY <2>0 DEF Placed
  <2>2. CASE decision[t] # "none"
    BY <1>04, <1>10, <2>2 DEF Decide
  <2>3. CASE decision[t] = "none"
    <3>1. /\ decision' = [decision EXCEPT ![t] = evaluateShadowPolicy(t, heard[r])]
          /\ Answered(r)
          /\ UNCHANGED <<status, log, findings, audited, heard>>
      BY <1>10, <2>3 DEF Decide
    <3>2. decision'[t] = evaluateShadowPolicy(t, findings[t])
      BY <1>0, <2>1, <3>1 DEF PlacedRows
    <3>3. status[t] \in DOMAIN Successor
      BY <2>0, <2>1, OtherFacts DEF PlacedRows
    <3>4. ASSUME pc'[r] = After[pc[r]] PROVE PlacedRows(r, t)'
      <4>1. \A mark \in Roles \cup {"decide", "announce", "publish"} :
              Past(r, mark)' <=> Past(r, mark) \/ pc[r] = mark
        BY <2>0, <3>4, PastGrows
      <4>2. Reached[pc'[r]] = Reached[pc[r]] /\ pc'[r] \notin {"insert", "received"}
        BY <2>0, <3>4, OtherFacts, AfterFacts
      <4>3. evaluateShadowPolicy(t, findings[t])' = evaluateShadowPolicy(t, findings[t])
        BY <3>1 DEF evaluateShadowPolicy, Marked
      <4> QED BY <2>0, <2>1, <3>1, <3>2, <4>1, <4>2, <4>3 DEF PlacedRows
    <3>5. Placed(r)'
      BY <1>03, <2>0, <3>1, <3>4
    <3>6. Kept
      BY <3>1, <3>3, StatusFacts DEF Backed, Told
    <3> QED BY <3>5, <3>6
  <2> QED BY <2>2, <2>3
<1>11. CASE Catch(r)
  <2>1. UNCHANGED rows
    BY <1>11 DEF Catch
  <2>2. CASE status[t] \in TERMINAL \cup {"none"}
    <3>1. pc'[r] = "failed_closed"
      BY <1>02, <1>11, <2>2 DEF Catch
    <3> QED BY <1>01, <2>1, <3>1, OffThePath DEF rows
  <2>3. CASE status[t] \notin TERMINAL \cup {"none"}
    <3>1. saw'[r] = status[t] /\ pc'[r] = "fail_closed"
      BY <1>0, <1>02, <1>11, <2>3 DEF Catch
    <3>2. status'[t] = status[t] /\ status[t] \in DOMAIN Successor
      BY <1>0, <2>1, <2>3, StatusFacts DEF rows
    <3>3. Placed(r)'
      BY <3>1, <3>2, StepFacts DEF Placed
    <3> QED BY <1>01, <2>1, <3>3 DEF rows
  <2> QED BY <2>2, <2>3
<1>12. CASE FailClosed(r)
  <2>1. saw[r] = status[t] /\ status[t] \in DOMAIN Successor
    BY <1>12 DEF FailClosed, Placed
  <2>2. /\ status'[t] = "FAILED_CLOSED"
        /\ log'[t] = Append(log[t], [from |-> saw[r], to |-> "FAILED_CLOSED"])
        /\ pc'[r] = "failed_closed"
    BY <1>0, <1>02, <1>12 DEF FailClosed, Log
  <2>3. ALLOWED_TRANSITIONS(saw[r], "FAILED_CLOSED")
    BY <2>1 DEF ALLOWED_TRANSITIONS
  <2>4. log'[t] # << >> /\ log'[t][Len(log'[t])].to = "FAILED_CLOSED" /\ Linked(log'[t])
    <3>1. log[t] \in Seq(Entry) /\ saw[r] \in Statuses
      BY <1>0
    <3>2. log'[t] = Append(log[t], [from |-> saw[r], to |-> "FAILED_CLOSED"])
      BY <2>2
    <3>3. log[t] # << >> => saw[r] = status[t] /\ ALLOWED_TRANSITIONS(saw[r], "FAILED_CLOSED")
      BY <2>1, <2>3
    <3>4. "FAILED_CLOSED" \in COUNCIL_STATES
      BY StatesTypes
    <3> HIDE DEF t
    <3>5. Told(t)
      BY DEF t
    <3> QED BY <3>1, <3>2, <3>3, <3>4, <3>5, LogTold
  <2>5. Kept
    BY <2>1, <2>2, <2>4, StatusFacts DEF Told, Backed, Linked
  <2> QED BY <2>2, <2>5, OffThePath
<1> QED BY <1>1, <1>2, <1>3, <1>4, <1>5, <1>6, <1>7, <1>8, <1>9, <1>10, <1>11, <1>12 DEF Act, Step
-----------------------------------------------------------------------------
(* With an envelope of its own for each task. *)

LEMMA ReviewedAlways ==
  FreshTasks => (Spec => [](TypeOK /\ Reviewed) /\ TerminalStays)
<1> SUFFICES ASSUME FreshTasks PROVE Spec => [](TypeOK /\ Reviewed) /\ TerminalStays
  OBVIOUS
<1>1. Init => Reviewed
  <2> SUFFICES ASSUME Init PROVE Reviewed
    OBVIOUS
  <2>1. \A t \in Tasks : Told(t) /\ Backed(t)
    BY EmptySeq, StatusFacts DEF Init, Told, Backed, Linked
  <2>2. ASSUME NEW r \in Runs PROVE Placed(r)
    <3>1. pc[r] = "idle" /\ TaskOf[r] \in Tasks
      BY CouncilAssumption DEF Init
    <3> QED BY <3>1, StepFacts DEF Init, Placed, Blank
  <2> QED BY <2>1, <2>2 DEF Reviewed
<1>2. TypeOK /\ Reviewed /\ [Next]_vars =>
        /\ Reviewed'
        /\ [\A t \in Tasks : status[t] \in TERMINAL => status'[t] = status[t]]_vars
  <2> SUFFICES ASSUME TypeOK, Reviewed, [Next]_vars
               PROVE  /\ Reviewed'
                      /\ \A t \in Tasks : status[t] \in TERMINAL => status'[t] = status[t]
    OBVIOUS
  <2>1. ASSUME NEW r \in Runs, Act(r)
        PROVE  /\ Reviewed'
               /\ \A t \in Tasks : status[t] \in TERMINAL => status'[t] = status[t]
    <3>0. TaskOf[r] \in Tasks
      BY CouncilAssumption
    <3>1. /\ Placed(r)' /\ Told(TaskOf[r])' /\ Backed(TaskOf[r])'
          /\ status[TaskOf[r]] \in TERMINAL => status'[TaskOf[r]] = status[TaskOf[r]]
      BY <2>1, <3>0, StepPlaces DEF Reviewed
    <3>2. Concerns(r)
      BY <2>1, StepConcerns
    <3>3. ASSUME NEW s \in Runs \ {r} PROVE Placed(s)'
      <4>1. TaskOf[s] \in Tasks \ {TaskOf[r]}
        BY CouncilAssumption DEF FreshTasks
      <4>2. Placed(s)
        BY DEF Reviewed
      <4> QED BY <3>2, <4>1, <4>2 DEF Concerns, Placed, PlacedRows, Blank, Past,
                                       evaluateShadowPolicy, Marked
    <3>4. ASSUME NEW t \in Tasks \ {TaskOf[r]}
          PROVE  Told(t)' /\ Backed(t)' /\ status'[t] = status[t]
      <4>1. Told(t) /\ Backed(t)
        BY DEF Reviewed
      <4>2. /\ status'[t] = status[t] /\ log'[t] = log[t] /\ findings'[t] = findings[t]
            /\ decision'[t] = decision[t] /\ audited'[t] = audited[t]
        BY <3>2 DEF Concerns
      <4> QED BY <4>1, <4>2, RowsKept
    <3> QED BY <3>1, <3>3, <3>4 DEF Reviewed
  <2>2. CASE UNCHANGED vars
    <3>1. UNCHANGED <<status, log, findings, decision, audited, pc, heard, saw>>
      BY <2>2 DEF vars, rows
    <3>2. ASSUME NEW r \in Runs PROVE Placed(r)'
      <4>1. Placed(r)
        BY DEF Reviewed
      <4> QED BY <3>1, <4>1 DEF Placed, PlacedRows, Blank, Past, evaluateShadowPolicy, Marked
    <3>3. ASSUME NEW t \in Tasks PROVE Told(t)' /\ Backed(t)'
      BY <3>1, RowsKept DEF Reviewed
    <3> QED BY <3>1, <3>2, <3>3 DEF Reviewed
  <2> QED BY <2>1, <2>2 DEF Next, Act
<1> QED BY <1>1, <1>2, CouncilTypeCorrect, PTL DEF Spec, TerminalStays

(* A review that ends as completed is backed by its rows, whichever of its *)
(* statements failed or lost their answers (runCouncilShadow, its catch).  *)
THEOREM CompletionAlwaysBacked == FreshTasks => (Spec => []CompletionIsBacked)
<1>1. Reviewed => CompletionIsBacked
  BY DEF Reviewed, Backed, CompletionIsBacked
<1> QED BY <1>1, ReviewedAlways, PTL

(* The transitions recorded for a task tell its status (transition and     *)
(* failClosed in council/store.ts).                                        *)
THEOREM LogAlwaysTells == FreshTasks => (Spec => []LogTellsStatus)
<1>1. Reviewed => LogTellsStatus
  BY DEF Reviewed, Told, LogTellsStatus
<1> QED BY <1>1, ReviewedAlways, PTL

(* No step leaves a terminal state: the read of failClosed, outside its    *)
(* transaction, is not overtaken when no other run has the task.           *)
THEOREM TerminalAlwaysStays == FreshTasks => (Spec => TerminalStays)
BY ReviewedAlways, PTL
=============================================================================
