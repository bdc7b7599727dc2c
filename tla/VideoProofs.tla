----------------------------- MODULE VideoProofs -----------------------------
(***************************************************************************)
(* What holds of the video pipeline for any number of submissions of one   *)
(* approval, switches of the interlock and faults: its types, that nothing *)
(* runs without the approval, and that completion has its evidence.        *)
(*                                                                         *)
(* Both rest on where a submission stands. Past its look at the approval   *)
(* the approval is approved, and an approved one stays so; past its        *)
(* admission it owns the one nonce, so what it has done at the provider    *)
(* and in the tables is its own.                                           *)
(***************************************************************************)
EXTENDS VideoLifecycle, TLAPS

\* The places after the look at the approval, after the admission, after the provider's
\* answer, after the job names it, and after the artifact.
Filed == {"finish", "settle", "report"}
Named == Filed \cup {"announce", "fence", "complete", "store", "register"}
Sent == Named \cup {"submitted", "generating"}
Admitted == Sent \cup {"approve", "queue", "execute", "catch"}
Looked == Admitted \cup {"interlock", "admit", "audit", "refused", "roll_back"}

\* The approval is opened once, by a task that has not settled.
OpenedOnce == runner \in {"specialist", "package", "approval"} => approval = "none"

PlacesKnow ==
  \A s \in Submissions :
    /\ pc[s] \in Looked => approval = "approved"
    /\ pc[s] \in Admitted \/ (pc[s] = "audit" /\ verdict[s] = "ALLOW") => owner = s
    /\ pc[s] \in Sent => s \in accepted
    /\ pc[s] \in Named => provider = s
    /\ pc[s] \in Filed => s \in artifacts

\* What the provider accepted came from the submission that owns the nonce.
OwnerActs == accepted \subseteq {owner}

VideoInv ==
  /\ TypeOK
  /\ OpenedOnce /\ PlacesKnow /\ OwnerActs
  /\ OnlyApprovedJobsRun /\ CompletionHasEvidence

\* The first state.
LEMMA VideoInitInv == Init => VideoInv
<1> SUFFICES ASSUME Init PROVE VideoInv
  OBVIOUS
<1>1. pc \in [Submissions -> Active \cup {"idle", "ended"}]
  BY DEF Init
<1>2. verdict \in [Submissions -> Decisions] /\ saw \in [Submissions -> JobStatus]
  BY DEF Init, Decisions, JobStatus
<1>3. TypeOK
  <2>1. trips \in 0..MaxTrips /\ faults \in 0..MaxFaults
    BY VideoAssumption DEF Init
  <2>2. /\ provider \in Submissions \cup {Nobody} /\ owner \in Submissions \cup {Nobody}
        /\ artifacts \subseteq Submissions /\ results \subseteq Decisions
        /\ accepted \subseteq Submissions
    BY DEF Init
  <2>3. /\ interlock \in BOOLEAN /\ lapsed \in BOOLEAN /\ job \in JobStatus
        /\ task = "running" /\ approval = "none" /\ runner = "specialist" /\ reviewer = "idle"
    BY DEF Init, JobStatus
  <2> QED
    BY <1>1, <1>2, <2>1, <2>2, <2>3 DEF TypeOK
<1>4. \A s \in Submissions : pc[s] \notin Looked /\ pc[s] # "audit"
  BY DEF Init, Looked, Admitted, Sent, Named, Filed
<1>5. OpenedOnce /\ PlacesKnow /\ OwnerActs
  BY <1>4 DEF Init, OpenedOnce, PlacesKnow, OwnerActs, Looked, Admitted, Sent, Named
<1>6. OnlyApprovedJobsRun /\ CompletionHasEvidence
  BY DEF Init, OnlyApprovedJobsRun, CompletionHasEvidence
<1> QED
  BY <1>3, <1>5, <1>6 DEF VideoInv

\* Every step keeps the types.
LEMMA VideoTypeStep == TypeOK /\ [Next]_vars => TypeOK'
<1> SUFFICES ASSUME TypeOK, [Next]_vars PROVE TypeOK'
  OBVIOUS
<1> USE DEF TypeOK, Decisions, JobStatus, Terminal
<1> USE DEF environment, rows, runTask, submit
<1>0. CASE UNCHANGED vars
  BY <1>0 DEF vars
<1>1. ASSUME NEW s \in Submissions, NEW from, NEW label \in Active \cup {"idle", "ended"},
             Pass(s, from, label)
      PROVE TypeOK'
  BY <1>1 DEF Pass, Goto
<1>2. ASSUME NEW s \in Submissions, NEW from, NEW status \in JobStatus,
             NEW label \in Active \cup {"idle", "ended"}, WriteJob(s, from, status, label)
      PROVE TypeOK'
  BY <1>2 DEF WriteJob, Goto
<1>3. CASE Runner
  <2>1. ASSUME NEW d \in {"ALLOW", "DENY", "STOP"}, RunSpecialist(d) PROVE TypeOK'
    BY <2>1 DEF RunSpecialist
  <2>2. ASSUME NEW d \in {"ALLOW", "DENY", "STOP"}, ProducePackage(d) PROVE TypeOK'
    BY <2>2 DEF ProducePackage
  <2>3. CASE OpenApproval
    BY <2>3 DEF OpenApproval
  <2>4. CASE SettleTask
    BY <2>4 DEF SettleTask, SettledStatus
  <2> QED
    BY <1>3, <2>1, <2>2, <2>3, <2>4 DEF Runner
<1>4. CASE Reviewer
  <2>1. CASE StopJob
    BY <2>1 DEF StopJob
  <2>2. CASE DenyTask
    BY <2>2 DEF DenyTask
  <2> QED
    BY <1>4, <2>1, <2>2 DEF Reviewer
<1>5. ASSUME NEW d \in {"approved", "denied"}, Review(d) PROVE TypeOK'
  BY <1>5 DEF Review, Swept
<1>6. ASSUME NEW s \in Submissions, BeginSubmit(s) PROVE TypeOK'
  BY <1>6 DEF BeginSubmit, Swept, Goto, Active
<1>7. ASSUME NEW s \in Submissions, Step(s) PROVE TypeOK'
  <2>1. CASE LookupApproval(s) \/ AuditAdmission(s) \/ AuditResult(s) \/ Announce(s)
             \/ AssertInterlock(s) \/ ReadJob(s) \/ StoreManifest(s) \/ Report(s)
    <3>1. PICK label, from : label \in Active \cup {"idle", "ended"} /\ Pass(s, from, label)
      BY <2>1 DEF LookupApproval, AuditAdmission, AuditResult, Announce, AssertInterlock, ReadJob,
                  StoreManifest, Report, Active, InTry
    <3> QED
      BY <1>1, <3>1
  <2>2. CASE Approve(s) \/ Queue(s) \/ FinishJob(s) \/ Catch(s)
    <3>1. /\ {"approved", "queued", "completed", "failed"} \subseteq JobStatus
          /\ {"queue", "execute", "settle", "ended"} \subseteq Active \cup {"idle", "ended"}
      BY DEF Active, InTry
    <3> QED
      BY <1>2, <2>2, <3>1 DEF Approve, Queue, FinishJob, Catch
  <2>3. CASE RollBack(s)
    <3>1. "ended" \in Active \cup {"idle", "ended"} /\ {"stopped", "awaiting_approval"} \subseteq JobStatus
      OBVIOUS
    <3> QED
      BY <1>1, <1>2, <2>3, <3>1 DEF RollBack
  <2>4. CASE ReadInterlock(s)
    BY <2>4 DEF ReadInterlock, Refuse, Goto, Active
  <2>7. CASE Admit(s)
    <3>1. "audit" \in Active
      BY DEF Active
    <3>2. pc' = [pc EXCEPT ![s] = "audit"] /\ verdict' \in [Submissions -> Decisions]
          /\ owner' \in Submissions \cup {Nobody}
      BY <2>7 DEF Admit, Refuse, Goto
    <3> QED
      BY <2>7, <3>1, <3>2 DEF Admit
  <2>5. CASE ReadRefused(s)
    BY <2>5 DEF ReadRefused, Goto, Active
  <2>6. CASE Execute(s)
    BY <2>6 DEF Execute, Goto, Active, InTry
  <2>8. CASE MarkGenerating(s)
    BY <2>8 DEF MarkGenerating, Goto, Active, InTry
  <2>9. CASE CreateArtifact(s)
    BY <2>9 DEF CreateArtifact, Goto, Active, InTry
  <2>10. CASE CompleteTask(s)
    BY <2>10 DEF CompleteTask, Goto, Active, InTry
  <2> QED
    BY <1>7, <2>1, <2>2, <2>3, <2>4, <2>5, <2>6, <2>7, <2>8, <2>9, <2>10 DEF Step
<1>8. ASSUME NEW s \in Submissions, AdmitUnaffordable(s) PROVE TypeOK'
  BY <1>8, VideoAssumption DEF AdmitUnaffordable, Refuse, Goto, Active
<1>9. ASSUME NEW s \in Submissions, Fail(s) PROVE TypeOK'
  BY <1>9, VideoAssumption DEF Fail, Blame, Refuse, Goto, Active
<1>10. CASE Crash
  BY <1>10, VideoAssumption DEF Crash, Blame, Goto
<1>11. CASE SwitchInterlock
  BY <1>11, VideoAssumption DEF SwitchInterlock
<1>12. CASE Lapse
  BY <1>12 DEF Lapse
<1> QED
  BY <1>0, <1>3, <1>4, <1>5, <1>6, <1>7, <1>8, <1>9, <1>10, <1>11, <1>12 DEF Next

-----------------------------------------------------------------------------
\* What a submission at a place has to know, now.
Knows(s) ==
  /\ pc[s] \in Looked => approval = "approved"
  /\ pc[s] \in Admitted \/ (pc[s] = "audit" /\ verdict[s] = "ALLOW") => owner = s
  /\ pc[s] \in Sent => s \in accepted
  /\ pc[s] \in Named => provider = s
  /\ pc[s] \in Filed => s \in artifacts

\* The step of one leaves what the others know, if it takes nothing away.
LEMMA OthersKnow ==
  ASSUME PlacesKnow, TypeOK, NEW s \in Submissions, NEW label, Goto(s, label), Knows(s)',
         approval = "approved" => approval' = "approved",
         \A t \in Submissions \ {s} : owner = t => owner' = t,
         \A t \in Submissions \ {s} : verdict'[t] = verdict[t],
         \A t \in Submissions \ {s} : pc[t] \in Named /\ provider = t => provider' = t,
         accepted \subseteq accepted', artifacts \subseteq artifacts'
  PROVE  PlacesKnow'
<1>1. \A t \in Submissions \ {s} : pc'[t] = pc[t]
  BY DEF TypeOK, Goto
<1>2. \A t \in Submissions \ {s} : Knows(t)'
  BY <1>1 DEF Knows, PlacesKnow
<1> QED
  BY <1>2 DEF Knows, PlacesKnow

\* A step that only moves a submission keeps the invariant, if it knows enough there.
LEMMA PassKeeps ==
  ASSUME VideoInv, NEW s \in Submissions, NEW from, NEW label, Pass(s, from, label), Knows(s)'
  PROVE  (OpenedOnce /\ PlacesKnow /\ OwnerActs /\ OnlyApprovedJobsRun /\ CompletionHasEvidence)'
<1>1. Goto(s, label) /\ UNCHANGED <<environment, rows, runTask, reviewer, verdict, saw, accepted>>
  BY DEF Pass
<1>2. PlacesKnow'
  BY <1>1, OthersKnow DEF VideoInv, rows
<1> QED
  BY <1>1, <1>2 DEF VideoInv, OpenedOnce, OwnerActs, OnlyApprovedJobsRun, CompletionHasEvidence,
                    rows, runTask

\* So does one that writes the job of an approved approval, completed if its artifact is there.
LEMMA WriteKeeps ==
  ASSUME VideoInv, NEW s \in Submissions, NEW from, NEW status, NEW label,
         WriteJob(s, from, status, label), Knows(s)', approval = "approved",
         status = "completed" => artifacts = {provider}
  PROVE  (OpenedOnce /\ PlacesKnow /\ OwnerActs /\ OnlyApprovedJobsRun /\ CompletionHasEvidence)'
<1>1. /\ Goto(s, label) /\ job' = status
      /\ UNCHANGED <<environment, task, provider, approval, owner, artifacts, runTask, reviewer,
                      verdict, saw, accepted>>
  BY DEF WriteJob
<1>2. PlacesKnow'
  BY <1>1, OthersKnow DEF VideoInv
<1> QED
  BY <1>1, <1>2 DEF VideoInv, OpenedOnce, OwnerActs, OnlyApprovedJobsRun, CompletionHasEvidence,
                    runTask

\* The admission: the first claims the nonce, the others learn it is gone.
LEMMA AdmissionKeeps ==
  ASSUME VideoInv, NEW s \in Submissions, Admit(s) \/ AdmitUnaffordable(s)
  PROVE  (OpenedOnce /\ PlacesKnow /\ OwnerActs /\ OnlyApprovedJobsRun /\ CompletionHasEvidence)'
<1>p. /\ pc \in [Submissions -> Active \cup {"idle", "ended"}] /\ verdict \in [Submissions -> Decisions]
      /\ Nobody \notin Submissions /\ accepted \subseteq Submissions
  BY VideoAssumption DEF VideoInv, TypeOK
<1>1. /\ pc[s] = "admit" /\ Goto(s, "audit") /\ owner' \in {owner, s}
      /\ owner # Nobody => owner' = owner
      /\ verdict'[s] = "ALLOW" => owner' = s
      /\ \A t \in Submissions \ {s} : verdict'[t] = verdict[t]
      /\ UNCHANGED <<task, job, provider, approval, artifacts, runTask, accepted>>
  BY <1>p DEF Admit, AdmitUnaffordable, Refuse
<1>2. Knows(s)'
  BY <1>1, <1>p DEF VideoInv, PlacesKnow, Knows, Goto, Looked, Admitted, Sent, Named, Filed
<1>3. \A t \in Submissions \ {s} : owner = t => owner' = t
  BY <1>1, <1>p
<1>4. PlacesKnow'
  BY <1>1, <1>2, <1>3, OthersKnow DEF VideoInv
<1>5. OwnerActs'
  BY <1>1, <1>p DEF VideoInv, OwnerActs
<1> QED
  BY <1>1, <1>4, <1>5 DEF VideoInv, OpenedOnce, OnlyApprovedJobsRun, CompletionHasEvidence, runTask

\* The provider's answer: it comes to the owner.
LEMMA ExecuteKeeps ==
  ASSUME VideoInv, NEW s \in Submissions, Execute(s)
  PROVE  (OpenedOnce /\ PlacesKnow /\ OwnerActs /\ OnlyApprovedJobsRun /\ CompletionHasEvidence)'
<1>p. pc \in [Submissions -> Active \cup {"idle", "ended"}]
  BY DEF VideoInv, TypeOK
<1>1. PICK label \in {"catch", "submitted"} :
        /\ pc[s] = "execute" /\ Goto(s, label)
        /\ accepted' = IF label = "submitted" THEN accepted \cup {s} ELSE accepted
        /\ UNCHANGED <<environment, rows, runTask, reviewer, verdict, saw>>
  BY DEF Execute
<1>2. owner = s /\ approval = "approved"
  BY <1>1 DEF VideoInv, PlacesKnow, Looked, Admitted
<1>3. Knows(s)'
  BY <1>1, <1>2, <1>p DEF Knows, rows, Goto, Looked, Admitted, Sent, Named, Filed
<1>4. PlacesKnow'
  BY <1>1, <1>3, OthersKnow DEF VideoInv, rows
<1> QED
  BY <1>1, <1>2, <1>4 DEF VideoInv, OpenedOnce, OwnerActs, OnlyApprovedJobsRun,
                          CompletionHasEvidence, rows, runTask

\* The job takes the owner's provider job; no other has an artifact.
LEMMA MarkKeeps ==
  ASSUME VideoInv, NEW s \in Submissions, MarkGenerating(s)
  PROVE  (OpenedOnce /\ PlacesKnow /\ OwnerActs /\ OnlyApprovedJobsRun /\ CompletionHasEvidence)'
<1>p. pc \in [Submissions -> Active \cup {"idle", "ended"}]
  BY DEF VideoInv, TypeOK
<1>1. /\ pc[s] = "generating" /\ Goto(s, "announce") /\ job' = "generating" /\ provider' = s
      /\ UNCHANGED <<environment, task, approval, owner, artifacts, runTask, reviewer,
                      verdict, saw, accepted>>
  BY DEF MarkGenerating
<1>2. owner = s /\ approval = "approved" /\ s \in accepted
  BY <1>1 DEF VideoInv, PlacesKnow, Looked, Admitted, Sent
<1>3. Knows(s)'
  BY <1>1, <1>2, <1>p DEF Knows, Goto, Looked, Admitted, Sent, Named, Filed
<1>4. \A t \in Submissions \ {s} : pc[t] \notin Named
  BY <1>2 DEF VideoInv, PlacesKnow, Admitted, Sent
<1>5. PlacesKnow'
  BY <1>1, <1>3, <1>4, OthersKnow DEF VideoInv
<1>6. artifacts \subseteq {s}
  BY <1>2 DEF VideoInv, OwnerActs, CompletionHasEvidence
<1> QED
  BY <1>1, <1>2, <1>5, <1>6 DEF VideoInv, OpenedOnce, OwnerActs, OnlyApprovedJobsRun,
                               CompletionHasEvidence, runTask

\* The artifact of the owner, whose provider job the job records.
LEMMA ArtifactKeeps ==
  ASSUME VideoInv, NEW s \in Submissions, CreateArtifact(s)
  PROVE  (OpenedOnce /\ PlacesKnow /\ OwnerActs /\ OnlyApprovedJobsRun /\ CompletionHasEvidence)'
<1>p. pc \in [Submissions -> Active \cup {"idle", "ended"}]
  BY DEF VideoInv, TypeOK
<1>1. /\ pc[s] = "register" /\ Goto(s, "finish") /\ artifacts' = artifacts \cup {s}
      /\ UNCHANGED <<environment, task, job, provider, approval, owner, runTask, reviewer,
                      verdict, saw, accepted>>
  BY DEF CreateArtifact
<1>2. owner = s /\ approval = "approved" /\ s \in accepted /\ provider = s
  BY <1>1 DEF VideoInv, PlacesKnow, Looked, Admitted, Sent, Named
<1>3. Knows(s)'
  BY <1>1, <1>2, <1>p DEF Knows, Goto, Looked, Admitted, Sent, Named, Filed
<1>4. PlacesKnow'
  BY <1>1, <1>3, OthersKnow DEF VideoInv
<1> QED
  BY <1>1, <1>2, <1>4 DEF VideoInv, OpenedOnce, OwnerActs, OnlyApprovedJobsRun,
                          CompletionHasEvidence, runTask

\* Each statement of a submission keeps the invariant.
LEMMA StatementKeeps ==
  ASSUME VideoInv, NEW s \in Submissions, Step(s)
  PROVE  (OpenedOnce /\ PlacesKnow /\ OwnerActs /\ OnlyApprovedJobsRun /\ CompletionHasEvidence)'
<1> DEFINE Kept == (OpenedOnce /\ PlacesKnow /\ OwnerActs /\ OnlyApprovedJobsRun /\ CompletionHasEvidence)'
<1>k. Knows(s)
  BY DEF VideoInv, PlacesKnow, Knows
<1>p. pc \in [Submissions -> Active \cup {"idle", "ended"}]
  BY DEF VideoInv, TypeOK
<1> USE DEF Looked, Admitted, Sent, Named, Filed
<1>1. ASSUME NEW from, NEW label, Pass(s, from, label),
             \/ label = "ended"
             \/ label = "catch" /\ from \in Admitted
             \/ from \in Filed /\ label \in Filed
             \/ from \in Named /\ label \in Named \ Filed
             \/ from \in Sent /\ label \in Sent \ Named
      PROVE Kept
  <2>1. pc[s] = from /\ pc'[s] = label /\ UNCHANGED <<rows, verdict, accepted>>
    BY <1>1, <1>p DEF Pass, Goto
  <2>2. Knows(s)'
    BY <1>1, <1>k, <2>1 DEF Knows, rows
  <2> QED
    BY <1>1, <2>2, PassKeeps
<1>2. CASE LookupApproval(s)
  <2>1. PICK label \in {"interlock", "ended"} :
          Pass(s, "lookup", label) /\ (label = "interlock" => approval = "approved")
    BY <1>2 DEF LookupApproval
  <2>2. pc'[s] = label /\ UNCHANGED <<rows, verdict, accepted>>
    BY <1>p, <2>1 DEF Pass, Goto
  <2>3. Knows(s)'
    BY <2>1, <2>2 DEF Knows, rows
  <2> QED
    BY <2>1, <2>3, PassKeeps
<1>3. CASE ReadInterlock(s)
  <2>1. PICK label \in {"audit", "admit"} :
          /\ pc[s] = "interlock" /\ Goto(s, label) /\ (label = "audit" => verdict'[s] = "STOP")
          /\ \A t \in Submissions \ {s} : verdict'[t] = verdict[t]
          /\ UNCHANGED <<environment, rows, runTask, reviewer, saw, accepted>>
    BY <1>3 DEF ReadInterlock, Refuse, VideoInv, TypeOK
  <2>2. Knows(s)'
    BY <1>k, <1>p, <2>1 DEF Knows, rows, Goto
  <2>3. PlacesKnow'
    BY <2>1, <2>2, OthersKnow DEF VideoInv, rows
  <2> QED
    BY <2>1, <2>3 DEF VideoInv, OpenedOnce, OwnerActs, OnlyApprovedJobsRun, CompletionHasEvidence,
                      rows, runTask
<1>4. CASE Admit(s)
  BY <1>4, AdmissionKeeps
<1>5. CASE AuditAdmission(s)
  <2>1. PICK label \in {"approve", "refused"} :
          Pass(s, "audit", label) /\ (label = "approve" => verdict[s] = "ALLOW")
    BY <1>5 DEF AuditAdmission
  <2>2. pc[s] = "audit" /\ pc'[s] = label /\ UNCHANGED <<rows, verdict, accepted>>
    BY <1>p, <2>1 DEF Pass, Goto
  <2>3. Knows(s)'
    BY <1>k, <2>1, <2>2 DEF Knows, rows
  <2> QED
    BY <2>1, <2>3, PassKeeps
<1>6. CASE ReadRefused(s)
  <2>1. /\ pc[s] = "refused" /\ Goto(s, "roll_back")
        /\ UNCHANGED <<environment, rows, runTask, reviewer, verdict, accepted>>
    BY <1>6 DEF ReadRefused
  <2>2. Knows(s)'
    BY <1>k, <1>p, <2>1 DEF Knows, rows, Goto
  <2>3. PlacesKnow'
    BY <2>1, <2>2, OthersKnow DEF VideoInv, rows
  <2> QED
    BY <2>1, <2>3 DEF VideoInv, OpenedOnce, OwnerActs, OnlyApprovedJobsRun, CompletionHasEvidence,
                      rows, runTask
<1>7. ASSUME NEW from, NEW status, NEW label, WriteJob(s, from, status, label), from \in Looked,
             status # "completed" \/ from \in Filed,
             \/ label = "ended"
             \/ from \in Admitted /\ label \in Admitted \ Sent
             \/ from \in Filed /\ label \in Filed
      PROVE Kept
  <2>1. pc[s] = from /\ pc'[s] = label /\ UNCHANGED <<approval, owner, provider, artifacts, verdict, accepted>>
    BY <1>7, <1>p DEF WriteJob, Goto
  <2>2. Knows(s)' /\ approval = "approved"
    BY <1>7, <1>k, <2>1 DEF Knows
  <2>3. status = "completed" => artifacts = {provider}
    BY <1>7, <1>k, <2>1 DEF Knows, VideoInv, CompletionHasEvidence
  <2> QED
    BY <1>7, <2>2, <2>3, WriteKeeps
<1>8. CASE RollBack(s)
  BY <1>1, <1>7, <1>8 DEF RollBack
<1>9. CASE Approve(s) \/ Queue(s) \/ FinishJob(s) \/ Catch(s)
  BY <1>7, <1>9 DEF Approve, Queue, FinishJob, Catch
<1>10. CASE Execute(s)
  BY <1>10, ExecuteKeeps
<1>11. CASE AuditResult(s) \/ Announce(s) \/ AssertInterlock(s) \/ ReadJob(s) \/ StoreManifest(s) \/ Report(s)
  BY <1>1, <1>11 DEF AuditResult, Announce, AssertInterlock, ReadJob, StoreManifest, Report
<1>12. CASE MarkGenerating(s)
  BY <1>12, MarkKeeps
<1>13. CASE CreateArtifact(s)
  BY <1>13, ArtifactKeeps
<1>14. CASE CompleteTask(s)
  <2>1. /\ pc[s] = "settle" /\ Goto(s, "report") /\ task' = "completed"
        /\ UNCHANGED <<environment, job, provider, approval, owner, artifacts, runTask,
                        reviewer, verdict, saw, accepted>>
    BY <1>14 DEF CompleteTask
  <2>2. Knows(s)'
    BY <1>k, <1>p, <2>1 DEF Knows, Goto
  <2>3. PlacesKnow'
    BY <2>1, <2>2, OthersKnow DEF VideoInv
  <2>4. artifacts # {}
    BY <1>k, <2>1 DEF Knows
  <2> QED
    BY <2>1, <2>3, <2>4 DEF VideoInv, OpenedOnce, OwnerActs, OnlyApprovedJobsRun,
                            CompletionHasEvidence, runTask
<1> QED
  BY <1>2, <1>3, <1>4, <1>5, <1>6, <1>8, <1>9, <1>10, <1>11, <1>12, <1>13, <1>14 DEF Step

\* Every step keeps what the submissions know, and the two properties.
LEMMA VideoKnowStep ==
  VideoInv /\ [Next]_vars =>
    (OpenedOnce /\ PlacesKnow /\ OwnerActs /\ OnlyApprovedJobsRun /\ CompletionHasEvidence)'
<1> DEFINE Kept == (OpenedOnce /\ PlacesKnow /\ OwnerActs /\ OnlyApprovedJobsRun /\ CompletionHasEvidence)'
<1> SUFFICES ASSUME VideoInv, [Next]_vars PROVE Kept
  OBVIOUS
<1>p. /\ pc \in [Submissions -> Active \cup {"idle", "ended"}]
      /\ approval \in {"none", "pending", "approved", "denied", "expired"}
  BY DEF VideoInv, TypeOK
<1>k. \A s \in Submissions : Knows(s)
  BY DEF VideoInv, PlacesKnow, Knows
<1>v. verdict \in [Submissions -> Decisions]
  BY DEF VideoInv, TypeOK
<1>t. approval # "approved" => \A s \in Submissions : pc[s] \notin Looked
  BY <1>k DEF Knows
\* What only touches the rows of the task and of the review.
<1>a. ASSUME approval = "approved" => approval' = "approved",
             UNCHANGED <<owner, provider, artifacts, pc, verdict, accepted>>
      PROVE (PlacesKnow /\ OwnerActs)'
  BY <1>a DEF VideoInv, PlacesKnow, OwnerActs
<1>0. CASE UNCHANGED vars
  BY <1>0 DEF vars, rows, runTask, submit, VideoInv, OpenedOnce, PlacesKnow, OwnerActs,
              OnlyApprovedJobsRun, CompletionHasEvidence
<1>1. ASSUME NEW d \in {"ALLOW", "DENY", "STOP"}, RunSpecialist(d) PROVE Kept
  BY <1>1, <1>a DEF RunSpecialist, rows, submit, VideoInv, OpenedOnce, OnlyApprovedJobsRun,
                    CompletionHasEvidence
<1>2. ASSUME NEW d \in {"ALLOW", "DENY", "STOP"}, ProducePackage(d) PROVE Kept
  BY <1>2, <1>a DEF ProducePackage, submit, VideoInv, OpenedOnce, OnlyApprovedJobsRun,
                    CompletionHasEvidence
<1>3. CASE OpenApproval
  BY <1>3, <1>a DEF OpenApproval, submit, VideoInv, OpenedOnce, OnlyApprovedJobsRun,
                    CompletionHasEvidence
<1>4. CASE SettleTask
  <2>1. task' # "completed"
    BY <1>4 DEF SettleTask, SettledStatus
  <2> QED
    BY <1>4, <1>a, <2>1 DEF SettleTask, submit, VideoInv, OpenedOnce, OnlyApprovedJobsRun,
                            CompletionHasEvidence
<1>5. ASSUME NEW d \in {"approved", "denied"}, Review(d) PROVE Kept
  BY <1>5, <1>a DEF Review, Swept, runTask, submit, VideoInv, OpenedOnce, OnlyApprovedJobsRun,
                    CompletionHasEvidence
<1>6. CASE StopJob
  BY <1>6, <1>a DEF StopJob, runTask, submit, VideoInv, OpenedOnce, OnlyApprovedJobsRun,
                    CompletionHasEvidence
<1>7. CASE DenyTask
  BY <1>7, <1>a DEF DenyTask, runTask, submit, VideoInv, OpenedOnce, OnlyApprovedJobsRun,
                    CompletionHasEvidence
<1>8. ASSUME NEW s \in Submissions, BeginSubmit(s) PROVE Kept
  <2>1. /\ Goto(s, "lookup") /\ approval' = Swept
        /\ UNCHANGED <<task, job, provider, owner, artifacts, runTask, verdict, accepted>>
    BY <1>8 DEF BeginSubmit
  <2>2. approval = "approved" <=> Swept = "approved"
    BY DEF Swept
  <2>3. approval = "none" <=> Swept = "none"
    BY DEF Swept
  <2>4. Knows(s)'
    BY <1>p, <2>1 DEF Goto, Knows, Looked, Admitted, Sent, Named, Filed
  <2>5. PlacesKnow'
    BY <2>1, <2>2, <2>4, OthersKnow DEF VideoInv
  <2> QED
    BY <2>1, <2>2, <2>3, <2>5 DEF runTask, VideoInv, OpenedOnce, OwnerActs, OnlyApprovedJobsRun,
                                 CompletionHasEvidence
<1>9. ASSUME NEW s \in Submissions, Step(s) PROVE Kept
  BY <1>9, StatementKeeps
<1>10. ASSUME NEW s \in Submissions, AdmitUnaffordable(s) PROVE Kept
  BY <1>10, AdmissionKeeps
<1>11. ASSUME NEW s \in Submissions, NEW label, Goto(s, label), pc[s] \in Active,
              label = "ended" \/ (label = "catch" /\ pc[s] \in InTry),
              UNCHANGED <<rows, runner, verdict, accepted>>
       PROVE Kept
  <2>1. pc[s] \in InTry => pc[s] \in Admitted
    BY DEF InTry, Admitted, Sent, Named, Filed
  <2>2. Knows(s)'
    BY <1>11, <1>k, <1>p, <2>1 DEF Goto, Knows, rows, Looked, Admitted, Sent, Named, Filed
  <2>3. PlacesKnow'
    BY <1>11, <2>2, OthersKnow DEF VideoInv, rows
  <2> QED
    BY <1>11, <2>3 DEF rows, VideoInv, OpenedOnce, OwnerActs, OnlyApprovedJobsRun,
                       CompletionHasEvidence
<1>12. ASSUME NEW s \in Submissions, Fail(s) PROVE Kept
  <2>1. /\ pc[s] \in Active
        /\ UNCHANGED <<rows, runTask, reviewer, saw, accepted>>
    BY <1>12 DEF Fail
  <2>2. CASE pc[s] \in {"interlock", "admit"}
    <3>1. /\ Goto(s, "audit") /\ verdict'[s] # "ALLOW"
          /\ \A t \in Submissions \ {s} : verdict'[t] = verdict[t]
      BY <1>12, <1>v, <2>2 DEF Fail, Refuse
    <3>2. Knows(s)'
      BY <1>k, <1>p, <2>1, <2>2, <3>1 DEF Goto, Knows, rows, Looked, Admitted, Sent, Named, Filed
    <3>3. PlacesKnow'
      BY <2>1, <3>1, <3>2, OthersKnow DEF VideoInv, rows
    <3> QED
      BY <2>1, <3>3 DEF rows, runTask, VideoInv, OpenedOnce, OwnerActs, OnlyApprovedJobsRun,
                        CompletionHasEvidence
  <2>3. CASE pc[s] \notin {"interlock", "admit"}
    <3>1. /\ (Goto(s, "catch") /\ pc[s] \in InTry) \/ Goto(s, "ended")
          /\ UNCHANGED verdict
      BY <1>12, <2>3 DEF Fail
    <3> QED
      BY <1>11, <2>1, <3>1 DEF runTask
  <2> QED
    BY <2>2, <2>3
<1>13. CASE Crash
  <2>1. UNCHANGED <<rows, verdict, accepted>>
    BY <1>13 DEF Crash
  <2>2. ASSUME NEW s \in Submissions, pc[s] \in Active, Goto(s, "ended"), UNCHANGED runner PROVE Kept
    BY <1>11, <2>1, <2>2
  <2>3. CASE pc' = pc /\ runner' \in {runner, "ended"}
    BY <1>a, <2>1, <2>3 DEF rows, VideoInv, OpenedOnce, OnlyApprovedJobsRun, CompletionHasEvidence
  <2> QED
    BY <1>13, <2>2, <2>3 DEF Crash
<1>14. CASE SwitchInterlock \/ Lapse
  BY <1>14, <1>a DEF SwitchInterlock, Lapse, rows, runTask, submit, VideoInv, OpenedOnce,
                     OnlyApprovedJobsRun, CompletionHasEvidence
<1> QED
  BY <1>0, <1>1, <1>2, <1>3, <1>4, <1>5, <1>6, <1>7, <1>8, <1>9, <1>10, <1>12, <1>13, <1>14
     DEF Next, Runner, Reviewer

LEMMA VideoInvariant == Spec => []VideoInv
<1>1. VideoInv /\ [Next]_vars => VideoInv'
  BY VideoTypeStep, VideoKnowStep DEF VideoInv
<1> QED
  BY VideoInitInv, <1>1, PTL DEF Spec

\* The rows of the pipeline and its actors always have their types.
THEOREM VideoTypeCorrect == Spec => []TypeOK
<1>1. VideoInv => TypeOK
  BY DEF VideoInv
<1> QED
  BY VideoInvariant, <1>1, PTL

\* However many submissions meet the review of their approval, nothing runs, is accepted
\* or is stored unless the approval is approved (submitApprovedVideoJob, ACCEPTANCE.md).
THEOREM NothingRunsUnapproved == Spec => []OnlyApprovedJobsRun
<1>1. VideoInv => OnlyApprovedJobsRun
  BY DEF VideoInv
<1> QED
  BY VideoInvariant, <1>1, PTL

\* However retries, faults and the interlock fall, a completed job has the artifact of the
\* submission whose provider job it records, and only that (completeVideoJob).
THEOREM CompletedWithEvidence == Spec => []CompletionHasEvidence
<1>1. VideoInv => CompletionHasEvidence
  BY DEF VideoInv
<1> QED
  BY VideoInvariant, <1>1, PTL

-----------------------------------------------------------------------------
\* The steps the promise sees: the approval, the claim of its nonce and the effect; every
\* other step leaves them alone.
Sees(a, o, e) ==
  /\ (approval' = "approved") = a /\ owner' = o /\ accepted' = e
Unseen == Sees(approval = "approved", owner, accepted)

LEMMA WhatIsSeen ==
  ASSUME VideoInv, [Next]_vars
  PROVE  \/ Unseen
         \/ Sees(TRUE, owner, accepted)
         \/ \E s \in Submissions :
              approval = "approved" /\ owner = Nobody /\ Sees(TRUE, s, accepted)
         \/ \E s \in Submissions :
              approval = "approved" /\ owner = s /\ Sees(TRUE, owner, accepted \cup {s})
<1> USE DEF Unseen, Sees
<1>0. CASE UNCHANGED <<owner, accepted>> /\ (approval = "approved" => approval' = "approved")
  BY <1>0
<1>1. ASSUME NEW s \in Submissions, Admit(s) \/ AdmitUnaffordable(s)
      PROVE \/ UNCHANGED <<owner, accepted, approval>>
            \/ approval = "approved" /\ owner = Nobody /\ Sees(TRUE, s, accepted)
  <2>1. approval = "approved"
    BY <1>1 DEF Admit, AdmitUnaffordable, VideoInv, PlacesKnow, Looked
  <2> QED
    BY <1>1, <2>1 DEF Admit, AdmitUnaffordable
<1>2. ASSUME NEW s \in Submissions, Execute(s)
      PROVE \/ UNCHANGED <<owner, accepted, approval>>
            \/ approval = "approved" /\ owner = s /\ Sees(TRUE, owner, accepted \cup {s})
  <2>1. approval = "approved" /\ owner = s
    BY <1>2 DEF Execute, VideoInv, PlacesKnow, Looked, Admitted
  <2> QED
    BY <1>2, <2>1 DEF Execute, rows
<1>3. ASSUME NEW s \in Submissions, Step(s), ~Admit(s), ~Execute(s)
      PROVE UNCHANGED <<owner, accepted, approval>>
  BY <1>3 DEF Step, LookupApproval, ReadInterlock, AuditAdmission, ReadRefused, RollBack, Approve, Queue,
       AuditResult, MarkGenerating, Announce, AssertInterlock, ReadJob, StoreManifest, CreateArtifact,
       FinishJob, CompleteTask, Report, Catch, Pass, WriteJob, rows
<1>4. CASE Runner
  BY <1>0, <1>4 DEF Runner, RunSpecialist, ProducePackage, OpenApproval, SettleTask, rows, submit,
       VideoInv, OpenedOnce
<1>5. CASE Reviewer
  BY <1>0, <1>5 DEF Reviewer, StopJob, DenyTask, submit
<1>6. ASSUME NEW d \in {"approved", "denied"}, Review(d)
      PROVE UNCHANGED <<owner, accepted>> /\ (approval = "approved" => approval' = "approved")
  BY <1>6 DEF Review, Swept, submit
<1>7. ASSUME NEW s \in Submissions, BeginSubmit(s)
      PROVE UNCHANGED <<owner, accepted>> /\ (approval = "approved" => approval' = "approved")
  BY <1>7 DEF BeginSubmit, Swept
<1>8. ASSUME NEW s \in Submissions, Fail(s) PROVE UNCHANGED <<owner, accepted, approval>>
  BY <1>8 DEF Fail, rows
<1>9. CASE Crash
  BY <1>0, <1>9 DEF Crash, rows
<1>10. CASE SwitchInterlock \/ Lapse
  BY <1>0, <1>10 DEF SwitchInterlock, Lapse, rows, submit
<1>11. CASE UNCHANGED vars
  BY <1>0, <1>11 DEF vars, rows, submit
<1> QED
  BY <1>0, <1>1, <1>2, <1>3, <1>4, <1>5, <1>6, <1>7, <1>8, <1>9, <1>10, <1>11 DEF Next

\* Each of them is a step of the promise or a stutter.
LEMMA PromiseStep == VideoInv /\ [Next]_vars => [Promise!Next]_(Promise!gateVars)
<1> SUFFICES ASSUME VideoInv, [Next]_vars
             PROVE Promise!Next \/ UNCHANGED Promise!gateVars
  OBVIOUS
<1> USE DEF Sees
<1>n. Nobody \notin Submissions
  BY VideoAssumption
<1>1. CASE Unseen
  BY <1>1 DEF Unseen, Promise!gateVars
<1>2. CASE Sees(TRUE, owner, accepted)
  <2>1. Promise!Approve("video")
    BY <1>2 DEF Promise!Approve
  <2> QED
    BY <2>1 DEF Promise!Next
<1>3. ASSUME NEW s \in Submissions, approval = "approved", owner = Nobody, Sees(TRUE, s, accepted)
      PROVE Promise!Next
  <2>1. Promise!Spend("video")
    BY <1>3, <1>n DEF Promise!Spend, Promise!Permitted
  <2> QED
    BY <2>1 DEF Promise!Next
<1>4. ASSUME NEW s \in Submissions, approval = "approved", owner = s, Sees(TRUE, owner, accepted \cup {s})
      PROVE Promise!Next \/ UNCHANGED Promise!gateVars
  <2>1. accepted \subseteq {s}
    BY <1>4 DEF VideoInv, OwnerActs
  <2>2. CASE s \in accepted
    <3>1. accepted \cup {s} = accepted
      BY <2>2
    <3> QED
      BY <1>4, <3>1 DEF Promise!gateVars
  <2>3. CASE s \notin accepted
    <3>1. accepted = {} /\ s # Nobody
      BY <1>n, <2>1, <2>3
    <3>2. Promise!TakeEffect("video", s)
      BY <1>4, <3>1 DEF Promise!TakeEffect, Promise!Unused, Promise!Permitted, Promise!Covered
    <3> QED
      BY <3>2 DEF Promise!Next
  <2> QED
    BY <2>2, <2>3
<1> QED
  BY <1>1, <1>2, <1>3, <1>4, WhatIsSeen

\* The approval queue and the video pipeline implement EffectGate: one provider job for one
\* approval, after it was approved, for any number of submissions and faults.
THEOREM PipelineKeepsPromise == Spec => KeepsPromise
<1>1. Init => Promise!Init
  BY DEF Init, Promise!Init
<1> QED
  BY <1>1, PromiseStep, VideoInvariant, PTL DEF Spec, KeepsPromise, Promise!Spec
=============================================================================
