--------------------------- MODULE VideoLifecycle ---------------------------
(***************************************************************************)
(* One video task (not a restricted one) from its creation to its          *)
(* artifact: runTask and produceVideoPackage (orchestrator.ts), the review *)
(* of its approval (app.ts), and any number of concurrent submissions of   *)
(* that approval (video.ts), which share the rows of the task, its video   *)
(* job, its approval and its artifacts.                                    *)
(*                                                                         *)
(* The gateway that admits a submission is Gateway.tla; here it is the     *)
(* steps ReadInterlock and Admit, which claim the one approval nonce.      *)
(***************************************************************************)
EXTENDS Integers, FiniteSets

CONSTANTS
  Submissions,   \* calls of POST /api/video/submit for this approval
  Nobody,
  RealProvider,  \* VIDEO_PROVIDER_URL is set
  MaxTrips,      \* bound: times the interlock is switched
  MaxFaults      \* bound: database errors, refused budgets and crashes

ASSUME VideoAssumption ==
  /\ Nobody \notin Submissions
  /\ RealProvider \in BOOLEAN
  /\ MaxTrips \in Nat /\ MaxFaults \in Nat

VARIABLES
  interlock, trips, faults,
  task,          \* tasks.status
  job,           \* video_jobs.status
  provider,      \* video_jobs.provider_job_id: the submission it came from
  approval,      \* approvals.status
  lapsed,        \* approvals.expires_at has passed
  owner,         \* the submission that claimed the approval nonce
  artifacts,     \* the submissions that registered an artifact
  runner, results, \* POST /api/tasks and the decisions it collected
  reviewer,      \* POST /api/approvals/:id/review, once it has decided
  pc, verdict, saw, \* the submissions: decision, and job status last read
  accepted       \* submissions the provider accepted

environment == <<interlock, trips, faults, lapsed>>
rows == <<task, job, provider, approval, owner, artifacts>>
runTask == <<runner, results>>
submit == <<pc, verdict, saw, accepted>>
vars == <<environment, rows, runTask, reviewer, submit>>

Terminal == {"completed", "failed", "stopped"}
Completable == {"generating", "queued", "approved"}

\* The statements inside the try block of submitApprovedVideoJob.
InTry == {"queue", "execute", "submitted", "generating", "announce", "fence",
          "complete", "store", "register", "finish", "settle", "report"}
Active == InTry \cup {"lookup", "interlock", "admit", "audit", "refused",
                      "roll_back", "approve", "catch"}

Goto(s, label) == pc' = [pc EXCEPT ![s] = label]
\* A step of s that touches nothing but its own program counter.
Pass(s, from, label) ==
  /\ pc[s] = from
  /\ Goto(s, label)
  /\ UNCHANGED <<environment, rows, runTask, reviewer, verdict, saw, accepted>>
\* A step of s that writes the status of the job.
WriteJob(s, from, status, label) ==
  /\ pc[s] = from
  /\ job' = status
  /\ Goto(s, label)
  /\ UNCHANGED <<environment, task, provider, approval, owner, artifacts, runTask,
                 reviewer, verdict, saw, accepted>>

-----------------------------------------------------------------------------
(* runTask *)

\* A specialist before the video package: it is stopped while the interlock
\* is on, and the package is still produced afterwards.
RunSpecialist(decision) ==
  /\ runner = "specialist"
  /\ decision = "STOP" <=> interlock
  /\ results' = results \cup {decision}
  /\ runner' = "package"
  /\ UNCHANGED <<environment, rows, reviewer, submit>>

\* Brief, script and storyboard, then createVideoJob.
ProducePackage(decision) ==
  /\ runner = "package"
  /\ decision = "STOP" <=> interlock
  /\ results' = results \cup {decision}
  /\ job' = IF decision = "ALLOW" THEN "awaiting_approval" ELSE "draft"
  /\ runner' = IF decision = "ALLOW" THEN "approval" ELSE "settle"
  /\ UNCHANGED <<environment, task, provider, approval, owner, artifacts, reviewer,
                 submit>>

\* createApproval; a message, an audit row and a notification follow.
OpenApproval ==
  /\ runner = "approval"
  /\ approval' = "pending"
  /\ runner' = "settle"
  /\ UNCHANGED <<environment, task, job, provider, owner, artifacts, results,
                 reviewer, submit>>

SettledStatus ==
  IF "STOP" \in results THEN "stopped"
  ELSE IF approval # "none" THEN "awaiting_approval"
  ELSE "denied"

\* The last write of runTask, whatever the task has become since.
SettleTask ==
  /\ runner = "settle"
  /\ task' = SettledStatus
  /\ runner' = "ended"
  /\ UNCHANGED <<environment, job, provider, approval, owner, artifacts, results,
                 reviewer, submit>>

Runner ==
  \/ \E d \in {"ALLOW", "DENY", "STOP"} : RunSpecialist(d) \/ ProducePackage(d)
  \/ OpenApproval
  \/ SettleTask

-----------------------------------------------------------------------------
(* The review *)

\* expireApprovals
Swept == IF approval = "pending" /\ lapsed THEN "expired" ELSE approval

\* The guarded UPDATE decides a pending, unexpired row; a denial goes on.
Review(decision) ==
  /\ approval # "none" /\ reviewer = "idle"
  /\ IF Swept = "pending"
     THEN /\ approval' = decision
          /\ reviewer' = IF decision = "denied" THEN "stop_job" ELSE "ended"
     ELSE approval' = Swept /\ UNCHANGED reviewer
  /\ UNCHANGED <<environment, task, job, provider, owner, artifacts, runTask, submit>>

\* Mutant: only the task is written.
LeaveJob ==
  /\ reviewer = "stop_job"
  /\ reviewer' = "deny_task"
  /\ UNCHANGED <<environment, rows, runTask, submit>>
StopJob ==
  /\ reviewer = "stop_job"
  /\ job' = "stopped"
  /\ reviewer' = "deny_task"
  /\ UNCHANGED <<environment, task, provider, approval, owner, artifacts, runTask,
                 submit>>

DenyTask ==
  /\ reviewer = "deny_task"
  /\ task' = "denied"
  /\ reviewer' = "ended"
  /\ UNCHANGED <<environment, job, provider, approval, owner, artifacts, runTask,
                 submit>>

Reviewer == StopJob \/ DenyTask

-----------------------------------------------------------------------------
(* submitApprovedVideoJob *)

BeginSubmit(s) ==
  /\ pc[s] = "idle" /\ approval # "none"
  /\ approval' = Swept
  /\ Goto(s, "lookup")
  /\ UNCHANGED <<environment, task, job, provider, owner, artifacts, runTask,
                 reviewer, verdict, saw, accepted>>

\* Mutant: the status of the approval is not looked at.
LookupExpiry(s) == Pass(s, "lookup", IF lapsed THEN "ended" ELSE "interlock")
LookupApproval(s) ==
  Pass(s, "lookup", IF approval = "approved" /\ ~lapsed THEN "interlock" ELSE "ended")

Refuse(s, decision) ==
  /\ verdict' = [verdict EXCEPT ![s] = decision]
  /\ Goto(s, "audit")

\* authorize: the interlock, then the checks and the claim of the nonces.
ReadInterlock(s) ==
  /\ pc[s] = "interlock"
  /\ IF interlock THEN Refuse(s, "STOP")
     ELSE Goto(s, "admit") /\ UNCHANGED verdict
  /\ UNCHANGED <<environment, rows, runTask, reviewer, saw, accepted>>

\* Mutant: a second claim of the nonce succeeds.
AdmitReplay(s) ==
  /\ pc[s] = "admit" /\ ~lapsed
  /\ owner' = s
  /\ verdict' = [verdict EXCEPT ![s] = "ALLOW"]
  /\ Goto(s, "audit")
  /\ UNCHANGED <<environment, task, job, provider, approval, artifacts, runTask,
                 reviewer, saw, accepted>>
Admit(s) ==
  /\ pc[s] = "admit"
  /\ IF lapsed \/ owner # Nobody
     THEN Refuse(s, "DENY") /\ UNCHANGED owner
     ELSE /\ owner' = s
          /\ verdict' = [verdict EXCEPT ![s] = "ALLOW"]
          /\ Goto(s, "audit")
  /\ UNCHANGED <<environment, task, job, provider, approval, artifacts, runTask,
                 reviewer, saw, accepted>>

\* The nonces are claimed, and then the budget of the task is exhausted or a later
\* statement of authorize fails.
AdmitUnaffordable(s) ==
  /\ pc[s] = "admit" /\ ~lapsed /\ owner = Nobody
  /\ faults < MaxFaults /\ faults' = faults + 1
  /\ owner' = s
  /\ Refuse(s, "DENY")
  /\ UNCHANGED <<interlock, trips, lapsed, task, job, provider, approval, artifacts,
                 runTask, reviewer, saw, accepted>>

AuditAdmission(s) == Pass(s, "audit", IF verdict[s] = "ALLOW" THEN "approve" ELSE "refused")

\* "A refused retry must never roll a finished job backwards": the read ...
ReadRefused(s) ==
  /\ pc[s] = "refused"
  /\ saw' = [saw EXCEPT ![s] = job]
  /\ Goto(s, "roll_back")
  /\ UNCHANGED <<environment, rows, runTask, reviewer, verdict, accepted>>

\* Mutant: the decision is written for a status.
RollBackToDecision(s) ==
  IF saw[s] \in Terminal THEN Pass(s, "roll_back", "ended")
  ELSE WriteJob(s, "roll_back", verdict[s], "ended")
\* ... and the write.
RollBack(s) ==
  IF saw[s] \in Terminal THEN Pass(s, "roll_back", "ended")
  ELSE WriteJob(s, "roll_back",
                IF verdict[s] = "STOP" THEN "stopped" ELSE "awaiting_approval", "ended")

Approve(s) == WriteJob(s, "approve", "approved", "queue")
Queue(s) == WriteJob(s, "queue", "queued", "execute")

\* verifyCapabilityLease: the lease of a frozen grant names no destination, and
\* the call names the provider's when there is one.
LeaseFits == ~RealProvider

\* executeExternal around submitToProvider; the stub provider always accepts.
Execute(s) ==
  /\ pc[s] = "execute"
  /\ IF interlock \/ ~LeaseFits
     THEN Goto(s, "catch") /\ UNCHANGED accepted
     ELSE accepted' = accepted \cup {s} /\ Goto(s, "submitted")
  /\ UNCHANGED <<environment, rows, runTask, reviewer, verdict, saw>>

AuditResult(s) == Pass(s, "submitted", "generating")

MarkGenerating(s) ==
  /\ pc[s] = "generating"
  /\ job' = "generating" /\ provider' = s
  /\ Goto(s, "announce")
  /\ UNCHANGED <<environment, task, approval, owner, artifacts, runTask, reviewer,
                 verdict, saw, accepted>>

Announce(s) == Pass(s, "announce", "fence")

-----------------------------------------------------------------------------
(* completeVideoJob *)

AssertInterlock(s) == Pass(s, "fence", IF interlock THEN "catch" ELSE "complete")

\* Mutant: a generating job is not completable.
ReadJobTooEarly(s) ==
  Pass(s, "complete", CASE job \notin Completable \ {"generating"} -> "ended"
                        [] provider # s -> "catch"
                        [] OTHER -> "store")
\* A job that is no longer in progress is left alone, without an error.
ReadJob(s) ==
  Pass(s, "complete", CASE job \notin Completable -> "ended"
                        [] provider # s -> "catch"
                        [] OTHER -> "store")

\* authorizeArtifactStorage, then executeExternal around storagePut.
StoreManifest(s) == Pass(s, "store", IF interlock THEN "catch" ELSE "register")

\* Mutant: the row is not written.
SkipArtifact(s) == Pass(s, "register", "finish")
CreateArtifact(s) ==
  /\ pc[s] = "register"
  /\ artifacts' = artifacts \cup {s}
  /\ Goto(s, "finish")
  /\ UNCHANGED <<environment, task, job, provider, approval, owner, runTask, reviewer,
                 verdict, saw, accepted>>

FinishJob(s) == WriteJob(s, "finish", "completed", "settle")

CompleteTask(s) ==
  /\ pc[s] = "settle"
  /\ task' = "completed"
  /\ Goto(s, "report")
  /\ UNCHANGED <<environment, job, provider, approval, owner, artifacts, runTask,
                 reviewer, verdict, saw, accepted>>

\* A message, an audit row and a notification.
Report(s) == Pass(s, "report", "ended")

\* The catch of submitApprovedVideoJob, whatever the job has become.
Catch(s) == WriteJob(s, "catch", "failed", "ended")

Step(s) ==
  \/ LookupApproval(s) \/ ReadInterlock(s) \/ Admit(s) \/ AuditAdmission(s)
  \/ ReadRefused(s) \/ RollBack(s)
  \/ Approve(s) \/ Queue(s) \/ Execute(s) \/ AuditResult(s) \/ MarkGenerating(s)
  \/ Announce(s) \/ AssertInterlock(s) \/ ReadJob(s) \/ StoreManifest(s)
  \/ CreateArtifact(s) \/ FinishJob(s) \/ CompleteTask(s) \/ Report(s) \/ Catch(s)

-----------------------------------------------------------------------------
(* What the environment does. *)

Blame ==
  /\ faults < MaxFaults /\ faults' = faults + 1
  /\ UNCHANGED <<interlock, trips, lapsed>>

\* A statement fails (or storage is refused): authorize turns its own into a refusal,
\* the try block catches its, and anything else ends the request.
Fail(s) ==
  /\ Blame
  /\ pc[s] \in Active
  /\ \/ pc[s] = "interlock" /\ Refuse(s, "STOP")
     \/ pc[s] = "admit" /\ Refuse(s, "DENY")
     \/ /\ pc[s] \notin {"interlock", "admit"}
        /\ Goto(s, IF pc[s] \in InTry THEN "catch" ELSE "ended")
        /\ UNCHANGED verdict
  /\ UNCHANGED <<rows, runTask, reviewer, saw, accepted>>

\* The process of a submission, of the task or of the review dies, or a
\* statement of the last two fails.
Crash ==
  /\ Blame
  /\ \/ /\ \E s \in Submissions : pc[s] \in Active /\ Goto(s, "ended")
        /\ UNCHANGED <<runner, reviewer>>
     \/ /\ runner # "ended" /\ runner' = "ended"
        /\ UNCHANGED <<pc, reviewer>>
     \/ /\ reviewer \in {"stop_job", "deny_task"} /\ reviewer' = "ended"
        /\ UNCHANGED <<pc, runner>>
  /\ UNCHANGED <<rows, results, verdict, saw, accepted>>

SwitchInterlock ==
  /\ trips < MaxTrips /\ trips' = trips + 1
  /\ interlock' = ~interlock
  /\ UNCHANGED <<faults, lapsed, rows, runTask, reviewer, submit>>

Lapse ==
  /\ approval # "none" /\ ~lapsed
  /\ lapsed' = TRUE
  /\ UNCHANGED <<interlock, trips, faults, rows, runTask, reviewer, submit>>

Init ==
  /\ interlock = FALSE /\ trips = 0 /\ faults = 0 /\ lapsed = FALSE
  /\ task = "running" /\ job = "none" /\ provider = Nobody
  /\ approval = "none" /\ owner = Nobody /\ artifacts = {}
  /\ runner = "specialist" /\ results = {} /\ reviewer = "idle"
  /\ pc = [s \in Submissions |-> "idle"]
  /\ verdict = [s \in Submissions |-> "none"]
  /\ saw = [s \in Submissions |-> "none"]
  /\ accepted = {}

Next ==
  \/ Runner \/ Reviewer
  \/ \E d \in {"approved", "denied"} : Review(d)
  \/ \E s \in Submissions : BeginSubmit(s) \/ Step(s) \/ AdmitUnaffordable(s) \/ Fail(s)
  \/ Crash \/ SwitchInterlock \/ Lapse

Spec == Init /\ [][Next]_vars

\* A request that has begun is resumed when its statement is answered.
FairSpec ==
  /\ Spec
  /\ WF_vars(Runner) /\ WF_vars(Reviewer)
  /\ \A s \in Submissions : WF_vars(Step(s))

-----------------------------------------------------------------------------
(* Properties *)

Decisions == {"none", "ALLOW", "DENY", "STOP"}
JobStatus == {"none", "draft", "awaiting_approval", "approved", "queued", "generating"}
               \cup Terminal

TypeOK ==
  /\ interlock \in BOOLEAN /\ trips \in 0..MaxTrips /\ faults \in 0..MaxFaults
  /\ lapsed \in BOOLEAN
  /\ task \in {"running", "awaiting_approval", "completed", "denied", "stopped"}
  /\ job \in JobStatus /\ provider \in Submissions \cup {Nobody}
  /\ approval \in {"none", "pending", "approved", "denied", "expired"}
  /\ owner \in Submissions \cup {Nobody} /\ artifacts \subseteq Submissions
  /\ runner \in {"specialist", "package", "approval", "settle", "ended"}
  /\ results \subseteq Decisions
  /\ reviewer \in {"idle", "stop_job", "deny_task", "ended"}
  /\ pc \in [Submissions -> Active \cup {"idle", "ended"}]
  /\ verdict \in [Submissions -> Decisions] /\ saw \in [Submissions -> JobStatus]
  /\ accepted \subseteq Submissions

\* A denied approval leaves its job stopped and refuses submission
\* (ACCEPTANCE.md): no submission, in whatever order it meets the review,
\* touches the job of an approval that was not approved.
OnlyApprovedJobsRun ==
  approval # "approved" =>
    /\ accepted = {} /\ artifacts = {}
    /\ job \in {"none", "draft", "awaiting_approval", "stopped"}

\* A completed job, and a completed task, have the artifact of the submission
\* whose provider job they record, and only that one: however retries, faults
\* and the interlock fall, completion is never claimed without its evidence.
CompletionHasEvidence ==
  /\ job = "completed" => artifacts = {provider}
  /\ task = "completed" => artifacts # {}
  /\ artifacts \subseteq accepted \cap {provider}

\* A denied job ends up stopped for good, unless the review that denied it died.
DeniedJobStops == approval = "denied" ~> ([](job = "stopped") \/ faults > 0)

\* A submission that was admitted alone brings its job to an end, whatever the
\* interlock does meanwhile.
AdmittedJobSettles ==
  \A s \in Submissions :
    pc[s] = "approve" ~> \/ job \in {"completed", "failed"}
                         \/ faults > 0
                         \/ \E t \in Submissions \ {s} : pc[t] # "idle"

\* The pipeline as an EffectGate with one grant, the frozen one.
Promise == INSTANCE EffectGate WITH
  Grants <- {"video"}, Sensitive <- {"video"}, Tasks <- {}, TaskOf <- [g \in {"video"} |-> "none"],
  NoTask <- "none", Units <- {}, Cost <- [g \in {"video"} |-> 0], Budget <- 0,
  Performers <- Submissions,
  approved <- IF approval = "approved" THEN {"video"} ELSE {},
  spent <- IF owner = Nobody THEN {} ELSE {"video"},
  charged <- {}, used <- [t \in {} |-> 0],
  effected <- {"video"} \X accepted

\* The approval queue and the video pipeline keep the promise of EffectGate:
\* one provider job for one approval, and only after it was approved.
KeepsPromise == Promise!Spec

\* video.ts 58: "A refused retry must never roll a finished job backwards."
FinishedJobStays == [][job = "completed" => job' = "completed"]_vars

\* video.ts 109: "Swap in a real endpoint with VIDEO_PROVIDER_URL": nothing but
\* the interlock or a fault makes an admitted submission fail.
OnlyTroubleFails == job = "failed" => faults > 0 \/ trips > 0
=============================================================================
