------------------------------ MODULE Gateway ------------------------------
(***************************************************************************)
(* The policy gateway (governance.ts), the capability lease                *)
(* (capability.ts), the effect executor (execution.ts) and the tables they *)
(* share (repo.ts), as concurrent calls on any number of server instances. *)
(*                                                                         *)
(* A call is one invocation of a route that asks for an effect: it takes a *)
(* grant through `authorize` and, when admitted, through                   *)
(* `executeExternal`.  Every awaited statement is a step of its own, since *)
(* between two awaits any other call, on any instance, may run.            *)
(*                                                                         *)
(* A grant is named by its nonce.  A frozen grant is the one stored with   *)
(* an approval (produceVideoPackage) and any number of calls may present   *)
(* it; any other grant is built by the one call that uses it.              *)
(***************************************************************************)
EXTENDS Integers, FiniteSets

CONSTANTS
  Calls, Grants, Tasks, Users,
  Endpoints,     \* destinations, and the absence of one
  AllowedEgress, \* those assertEgressUrl lets pass, the absence of one among them
  NoCall, NoTask,
  Admins,        \* the users whose role is "admin"
  Frozen,        \* the grants stored with an approval row
  GrantOf,       \* the grant each call presents
  UserOf,        \* the signed-in user of each call
  TargetOf,      \* the destination each call hands to executeExternal
  Request,       \* the GovernanceRequest each grant carries
  ToolScopes,    \* AGENT_TOOL_SCOPES
  Units,         \* tokens and bytes
  Budget,        \* the aggregate budget of each task, per unit
  MaxBudget,     \* the ceiling of one request, per unit
  GrantTtl, LeaseTtl, ApprovalTtl,
  MaxClock,      \* bound: the clock stops here
  MaxFaults      \* bound: database errors and crashes in one behaviour

Never == -1      \* the time of what has not happened
Switches == {"kill_switch", "circuit_open"}

RequestType ==
  [subject : Users, agent : DOMAIN ToolScopes, tool : STRING, scope : STRING,
   operation : STRING, classification : STRING, task : Tasks \cup {NoTask},
   budget : [Units -> Nat], reserve : [Units -> Nat], endpoint : Endpoints]

ASSUME GatewayAssumption ==
  /\ NoCall \notin Calls /\ NoTask \notin Tasks
  /\ Frozen \subseteq Grants /\ Admins \subseteq Users
  /\ GrantOf \in [Calls -> Grants] /\ UserOf \in [Calls -> Users]
  /\ TargetOf \in [Calls -> Endpoints] /\ AllowedEgress \subseteq Endpoints
  /\ Request \in [Grants -> RequestType]
  /\ Budget \in [Tasks -> [Units -> Nat]] /\ MaxBudget \in [Units -> Nat]
  /\ GrantTtl \in Nat \ {0} /\ LeaseTtl \in Nat \ {0} /\ ApprovalTtl \in Nat \ {0}
  /\ MaxClock \in Nat /\ MaxFaults \in Nat
\* randomUUID: no two calls build a grant with the same nonce.
ASSUME FreshNonces ==
  \A c, d \in Calls : GrantOf[c] = GrantOf[d] => c = d \/ GrantOf[c] \in Frozen

Lesser(a, b) == IF a <= b THEN a ELSE b
Greater(a, b) == IF a >= b THEN a ELSE b

requiresHumanApproval(r) ==
  \/ r.operation = "provider_job"
  \/ r.classification = "restricted"
  \/ r.tool = "video.provider_job"

Sensitive == {g \in Grants : requiresHumanApproval(Request[g])}

VARIABLES
  clock,
  interlock,        \* system_controls: the switches that are on
  faults,           \* faults so far
  \* the approvals table, one row per frozen grant
  approval, approvalExpires,
  grantExpires,     \* when each grant expires, Never while it is unissued
  \* governance_nonces, with the call that claimed each
  approvalNonce, grantNonce,
  \* budget_reservations, and the task row locked FOR UPDATE
  used, reserved, rowLock,
  \* capability_leases: the expiry of the lease of each call
  leaseExpires, consumed,
  \* the calls
  pc, reason, asOf, seen,
  \* the sink and the evidence
  effects, audit

tables == <<interlock, approval, approvalExpires, grantExpires, approvalNonce,
            grantNonce, used, reserved, rowLock, leaseExpires, consumed>>
calls == <<pc, reason, asOf, seen>>
world == <<clock, faults, effects, audit>>
vars == <<tables, calls, world>>

Running == {"lookup", "interlock", "validate", "claim_approval", "claim_grant",
            "reserve", "commit", "lease", "verify", "consume", "fence", "admission",
            "final_fence", "effect", "result"}
Ended == {"denied", "stopped", "blocked", "completed", "aborted"}

Req(c) == Request[GrantOf[c]]
Goto(c, label) == pc' = [pc EXCEPT ![c] = label]
End(c, label, why) ==
  /\ Goto(c, label)
  /\ reason' = [reason EXCEPT ![c] = why]
Record(c, event) == audit' = audit \cup {<<c, event>>}

-----------------------------------------------------------------------------
(* Grants and approvals. *)

\* Mutant: the lifetime is subtracted.
GrantBornExpired == clock - 1 - GrantTtl
\* buildGrant: issuedAt is one tick in the past.
ExpiryOfNewGrant == clock - 1 + GrantTtl

\* produceVideoPackage freezes the grant and opens a pending approval for it.
Freeze(g) ==
  /\ g \in Frozen
  /\ approval[g] = "none"
  /\ approval' = [approval EXCEPT ![g] = "pending"]
  /\ grantExpires' = [grantExpires EXCEPT ![g] = ExpiryOfNewGrant]
  /\ approvalExpires' = [approvalExpires EXCEPT
                           ![g] = Lesser(clock + ApprovalTtl, ExpiryOfNewGrant)]
  /\ UNCHANGED <<interlock, approvalNonce, grantNonce, used, reserved, rowLock,
                 leaseExpires, consumed, calls, world>>

\* expireApprovals: the approvals table after the sweep.
Swept == [g \in Grants |->
            IF approval[g] = "pending" /\ approvalExpires[g] <= clock
            THEN "expired" ELSE approval[g]]

\* GET /api/approvals and the overview sweep before they read.
Sweep ==
  /\ approval' = Swept
  /\ UNCHANGED <<interlock, approvalExpires, grantExpires, approvalNonce,
                 grantNonce, used, reserved, rowLock, leaseExpires, consumed,
                 calls, world>>

\* Workspaces are personal: a row is visible to the user who asked for it.
SameTenant(u, g) == u = Request[g].subject

MayReview(u, g) ==
  /\ SameTenant(u, g)
  /\ u = Request[g].subject => u \in Admins

\* Mutant: the UPDATE lost its condition on the status.
ReviewAnything(u, g, verdict) ==
  /\ approval[g] # "none"
  /\ MayReview(u, g)
  /\ approval' = [Swept EXCEPT ![g] = verdict]
  /\ UNCHANGED <<interlock, approvalExpires, grantExpires, approvalNonce,
                 grantNonce, used, reserved, rowLock, leaseExpires, consumed,
                 calls, world>>
\* POST /api/approvals/:id/review: sweep, then the guarded single-row UPDATE.
Review(u, g, verdict) ==
  /\ approval[g] # "none"
  /\ MayReview(u, g)
  /\ approval' = IF Swept[g] = "pending"
                 THEN [Swept EXCEPT ![g] = verdict] ELSE Swept
  /\ UNCHANGED <<interlock, approvalExpires, grantExpires, approvalNonce,
                 grantNonce, used, reserved, rowLock, leaseExpires, consumed,
                 calls, world>>

-----------------------------------------------------------------------------
(* The start of a call. *)

\* A tool route, a specialist or a storage continuation builds its own grant.
BeginDirect(c) ==
  /\ pc[c] = "idle"
  /\ GrantOf[c] \notin Frozen
  /\ grantExpires' = [grantExpires EXCEPT ![GrantOf[c]] = ExpiryOfNewGrant]
  /\ Goto(c, "interlock")
  /\ UNCHANGED <<interlock, approval, approvalExpires, approvalNonce, grantNonce,
                 used, reserved, rowLock, leaseExpires, consumed, reason, asOf,
                 seen, world>>

\* submitApprovedVideoJob begins with expireApprovals.
BeginSubmit(c) ==
  /\ pc[c] = "idle"
  /\ GrantOf[c] \in Frozen
  /\ approval[GrantOf[c]] # "none"
  /\ approval' = Swept
  /\ Goto(c, "lookup")
  /\ UNCHANGED <<interlock, approvalExpires, grantExpires, approvalNonce,
                 grantNonce, used, reserved, rowLock, leaseExpires, consumed,
                 reason, asOf, seen, world>>

\* Mutant: the status of the row is not looked at.
SubmittableUnreviewed(c) ==
  LET g == GrantOf[c] IN
  SameTenant(UserOf[c], g) /\ approvalExpires[g] > clock
\* video.ts 24-34: every early return before authorize.
Submittable(c) ==
  LET g == GrantOf[c] IN
  /\ SameTenant(UserOf[c], g)
  /\ approval[g] = "approved"
  /\ approvalExpires[g] > clock
  /\ grantExpires[g] <= approvalExpires[g]

LookupApproval(c) ==
  /\ pc[c] = "lookup"
  /\ IF Submittable(c)
     THEN Goto(c, "interlock") /\ UNCHANGED reason
     ELSE End(c, "denied", "not_submittable")
  /\ UNCHANGED <<tables, asOf, seen, world>>

-----------------------------------------------------------------------------
(* authorize *)

ReadInterlock(c) ==
  /\ pc[c] = "interlock"
  /\ IF interlock = {}
     THEN Goto(c, "validate") /\ UNCHANGED reason
     ELSE End(c, "stopped", "safety_interlock")
  /\ UNCHANGED <<tables, asOf, seen, world>>

\* Tool scope and budget ceilings of one request.
InScope(r) == r.tool \in ToolScopes[r.agent] /\ r.scope = r.tool

WithinCeilings(r) ==
  \A u \in Units : r.budget[u] \in 1..MaxBudget[u] /\ r.reserve[u] \in 1..r.budget[u]

\* The approval a submission carries was read as "approved" by LookupApproval.
\* Its reviewer is its requester (MayReview), so separation of duties asks for
\* the role the submitting user has.
HumanApproved(c) ==
  LET g == GrantOf[c] IN
  /\ g \in Frozen
  /\ approvalExpires[g] > clock
  /\ UserOf[c] \in Admins

Admissible(c) ==
  /\ clock < grantExpires[GrantOf[c]]
  /\ WithinCeilings(Req(c))
  /\ InScope(Req(c))
  /\ GrantOf[c] \in Sensitive => HumanApproved(c)

Validate(c) ==
  /\ pc[c] = "validate"
  /\ asOf' = [asOf EXCEPT ![c] = clock]
  /\ \/ /\ ~Admissible(c)
        /\ End(c, "denied", "not_admissible")
     \/ /\ Admissible(c)
        /\ Goto(c, IF GrantOf[c] \in Sensitive THEN "claim_approval" ELSE "claim_grant")
        /\ UNCHANGED reason
  /\ UNCHANGED <<tables, seen, world>>

\* Mutant: no unique index.
ClaimWithoutUniqueIndex(nonces, g) == TRUE
\* claimNonce: one INSERT under the unique index on (kind, nonce).
Unclaimed(nonces, g) == nonces[g] = NoCall

ClaimApproval(c) ==
  LET g == GrantOf[c] IN
  /\ pc[c] = "claim_approval"
  /\ IF Unclaimed(approvalNonce, g)
     THEN /\ approvalNonce' = [approvalNonce EXCEPT ![g] = c]
          /\ Goto(c, "claim_grant")
          /\ UNCHANGED reason
     ELSE /\ End(c, "denied", "approval_replay")
          /\ UNCHANGED approvalNonce
  /\ UNCHANGED <<interlock, approval, approvalExpires, grantExpires, grantNonce,
                 used, reserved, rowLock, leaseExpires, consumed, asOf, seen, world>>

\* Mutant: no reservation is asked for.
ClaimGrantUncharged(c) ==
  LET g == GrantOf[c] IN
  /\ pc[c] = "claim_grant"
  /\ IF Unclaimed(grantNonce, g)
     THEN /\ grantNonce' = [grantNonce EXCEPT ![g] = c]
          /\ Goto(c, "lease")
          /\ UNCHANGED reason
     ELSE /\ End(c, "denied", "grant_replay")
          /\ UNCHANGED grantNonce
  /\ UNCHANGED <<interlock, approval, approvalExpires, grantExpires, approvalNonce,
                 used, reserved, rowLock, leaseExpires, consumed, asOf, seen, world>>
ClaimGrant(c) ==
  LET g == GrantOf[c] IN
  /\ pc[c] = "claim_grant"
  /\ IF Unclaimed(grantNonce, g)
     THEN /\ grantNonce' = [grantNonce EXCEPT ![g] = c]
          /\ Goto(c, IF Req(c).task = NoTask THEN "lease" ELSE "reserve")
          /\ UNCHANGED reason
     ELSE /\ End(c, "denied", "grant_replay")
          /\ UNCHANGED grantNonce
  /\ UNCHANGED <<interlock, approval, approvalExpires, grantExpires, approvalNonce,
                 used, reserved, rowLock, leaseExpires, consumed, asOf, seen, world>>

\* Mutant: the row is read without FOR UPDATE.
ReadBudgetUnlocked(c) ==
  /\ pc[c] = "reserve"
  /\ seen' = [seen EXCEPT ![c] = used[Req(c).task]]
  /\ Goto(c, "commit")
  /\ UNCHANGED <<tables, reason, asOf, world>>
\* reserveBudget, BEGIN: the task row is locked, then the reservations summed.
LockBudget(c) ==
  LET t == Req(c).task IN
  /\ pc[c] = "reserve"
  /\ rowLock[t] = NoCall
  /\ rowLock' = [rowLock EXCEPT ![t] = c]
  /\ seen' = [seen EXCEPT ![c] = used[t]]
  /\ Goto(c, "commit")
  /\ UNCHANGED <<interlock, approval, approvalExpires, grantExpires, approvalNonce,
                 grantNonce, used, reserved, leaseExpires, consumed, reason, asOf,
                 world>>

Fits(c) ==
  \A u \in Units : seen[c][u] + Req(c).reserve[u] <= Budget[Req(c).task][u]

\* reserveBudget: the INSERT and COMMIT, or the return that releases the row.
CommitBudget(c) ==
  LET t == Req(c).task IN
  /\ pc[c] = "commit"
  /\ rowLock' = [rowLock EXCEPT ![t] = NoCall]
  /\ IF Fits(c)
     THEN /\ reserved' = reserved \cup {GrantOf[c]}
          /\ used' = [used EXCEPT ![t] = [u \in Units |-> @[u] + Req(c).reserve[u]]]
          /\ Goto(c, "lease")
          /\ UNCHANGED reason
     ELSE /\ End(c, "denied", "aggregate_budget_exhausted")
          /\ UNCHANGED <<used, reserved>>
  /\ UNCHANGED <<interlock, approval, approvalExpires, grantExpires, approvalNonce,
                 grantNonce, leaseExpires, consumed, asOf, seen, world>>

\* Mutant: the lifetime is not cut to what is left of the grant.
IssueFullLease(c) ==
  /\ pc[c] = "lease"
  /\ leaseExpires' = [leaseExpires EXCEPT ![c] = asOf[c] + LeaseTtl]
  /\ Goto(c, "verify")
  /\ UNCHANGED <<interlock, approval, approvalExpires, grantExpires, approvalNonce,
                 grantNonce, used, reserved, rowLock, consumed, reason, asOf, seen,
                 world>>
\* issueCapabilityLease with the time authorize started from, then the INSERT.
IssueLease(c) ==
  /\ pc[c] = "lease"
  /\ leaseExpires' = [leaseExpires EXCEPT ![c] =
       asOf[c] + Lesser(LeaseTtl, Greater(1, grantExpires[GrantOf[c]] - asOf[c]))]
  /\ Goto(c, "verify")
  /\ UNCHANGED <<interlock, approval, approvalExpires, grantExpires, approvalNonce,
                 grantNonce, used, reserved, rowLock, consumed, reason, asOf, seen,
                 world>>

-----------------------------------------------------------------------------
(* executeExternal *)

\* Any error in executeExternal is caught, audited when the append succeeds,
\* and rethrown.
Block(c, why) ==
  /\ End(c, "blocked", why)
  /\ Record(c, "effect_blocked")

LeaseVerifies(c) ==
  /\ asOf[c] <= clock
  /\ clock < leaseExpires[c]
  /\ Req(c).endpoint = TargetOf[c]

\* The lease names the grant's subject; the call names its signed-in user.
LeaseBinds(c) == UserOf[c] = Req(c).subject

VerifyLease(c) ==
  /\ pc[c] = "verify"
  /\ IF LeaseVerifies(c) /\ LeaseBinds(c)
     THEN Goto(c, "consume") /\ UNCHANGED <<reason, audit>>
     ELSE Block(c, IF LeaseVerifies(c) THEN "capability_binding"
                   ELSE "invalid_capability_lease")
  /\ UNCHANGED <<tables, asOf, seen, clock, faults, effects>>

ConsumeLease(c) ==
  /\ pc[c] = "consume"
  /\ IF c \notin consumed /\ leaseExpires[c] > clock
     THEN /\ consumed' = consumed \cup {c}
          /\ Goto(c, "fence")
          /\ UNCHANGED <<reason, audit>>
     ELSE /\ Block(c, "capability_replay")
          /\ UNCHANGED consumed
  /\ UNCHANGED <<interlock, approval, approvalExpires, grantExpires, approvalNonce,
                 grantNonce, used, reserved, rowLock, leaseExpires, asOf, seen,
                 clock, faults, effects>>

\* assertFinalInterlock, before and after the admission is audited.
Fence(c, here, next) ==
  /\ pc[c] = here
  /\ IF interlock = {}
     THEN Goto(c, next) /\ UNCHANGED <<reason, audit>>
     ELSE Block(c, "safety_interlock")
  /\ UNCHANGED <<tables, asOf, seen, clock, faults, effects>>

\* Mutant: the admission is not audited.
FenceWithoutAudit(c) == Fence(c, "fence", "effect")
\* The first fence, and the allowlist of destinations behind it.
FirstFence(c) ==
  \/ /\ interlock # {} \/ TargetOf[c] \in AllowedEgress
     /\ Fence(c, "fence", "admission")
  \/ /\ pc[c] = "fence" /\ interlock = {} /\ TargetOf[c] \notin AllowedEgress
     /\ Block(c, "egress_destination_not_allowlisted")
     /\ UNCHANGED <<tables, asOf, seen, clock, faults, effects>>

\* Mutant: the interlock is not read again.
PassFinalFence(c) ==
  /\ pc[c] = "final_fence"
  /\ Goto(c, "effect")
  /\ UNCHANGED <<tables, reason, asOf, seen, clock, faults, effects, audit>>
FinalFence(c) == Fence(c, "final_fence", "effect")

AuditAdmission(c) ==
  /\ pc[c] = "admission"
  /\ Record(c, "effect_admission")
  /\ Goto(c, "final_fence")
  /\ UNCHANGED <<tables, reason, asOf, seen, clock, faults, effects>>

\* effect(): it succeeds, or fails with or without having reached the sink
\* (a refused connection; a timeout or a bad response after acceptance).
PerformEffect(c) ==
  /\ pc[c] = "effect"
  /\ \/ /\ effects' = effects \cup {c}
        /\ Goto(c, "result")
        /\ UNCHANGED <<reason, audit>>
     \/ /\ effects' \in {effects, effects \cup {c}}
        /\ Block(c, "external_effect_failed")
  /\ UNCHANGED <<tables, asOf, seen, clock, faults>>

AuditResult(c) ==
  /\ pc[c] = "result"
  /\ Record(c, "effect_result")
  /\ Goto(c, "completed")
  /\ UNCHANGED <<tables, reason, asOf, seen, clock, faults, effects>>

-----------------------------------------------------------------------------
(* Faults: a failing statement, a process that dies, and everything else. *)

\* Mutant: the transaction stays open.
StillLocked(c) == rowLock
\* A transaction that fails or loses its connection is rolled back.
Unlocked(c) == [t \in Tasks |-> IF rowLock[t] = c THEN NoCall ELSE rowLock[t]]

FaultHappens(c) ==
  /\ faults < MaxFaults
  /\ faults' = faults + 1
  /\ rowLock' = Unlocked(c)
  /\ UNCHANGED <<interlock, approval, approvalExpires, grantExpires, approvalNonce,
                 grantNonce, used, reserved, leaseExpires, consumed, asOf, seen,
                 clock, effects>>

\* The statement a call waits for fails.  An error that reports the loss of a
\* statement that did commit is a fault at the label after it.
StoreError(c) ==
  /\ FaultHappens(c)
  /\ \/ /\ pc[c] = "lookup"
        /\ End(c, "aborted", "internal_error")
        /\ UNCHANGED audit
     \/ /\ pc[c] = "interlock"
        /\ End(c, "stopped", "safety_interlock")
        /\ UNCHANGED audit
     \/ /\ pc[c] \in {"claim_approval", "claim_grant", "reserve", "commit", "lease"}
        /\ End(c, "denied", "governance_failure")
        /\ UNCHANGED audit
     \/ /\ pc[c] \in {"consume", "fence", "admission", "final_fence", "result"}
        /\ End(c, "blocked", "store_failure")
        /\ UNCHANGED audit \/ Record(c, "effect_blocked")

\* The instance that runs the call dies; what it wrote stays.
Crash(c) ==
  /\ pc[c] \in Running
  /\ FaultHappens(c)
  /\ End(c, "aborted", "crash")
  /\ UNCHANGED audit

\* setInterlock: an administrator turns switches on or off in one transaction.
SetInterlock(on) ==
  /\ on # interlock
  /\ interlock' = on
  /\ UNCHANGED <<approval, approvalExpires, grantExpires, approvalNonce, grantNonce,
                 used, reserved, rowLock, leaseExpires, consumed, calls, world>>

Tick ==
  /\ clock < MaxClock
  /\ clock' = clock + 1
  /\ UNCHANGED <<tables, calls, faults, effects, audit>>

-----------------------------------------------------------------------------
Init ==
  /\ clock = 0
  /\ interlock = {}
  /\ faults = 0
  /\ approval = [g \in Grants |-> "none"]
  /\ approvalExpires = [g \in Grants |-> Never]
  /\ grantExpires = [g \in Grants |-> Never]
  /\ approvalNonce = [g \in Grants |-> NoCall]
  /\ grantNonce = [g \in Grants |-> NoCall]
  /\ used = [t \in Tasks |-> [u \in Units |-> 0]]
  /\ reserved = {}
  /\ rowLock = [t \in Tasks |-> NoCall]
  /\ leaseExpires = [c \in Calls |-> Never]
  /\ consumed = {}
  /\ pc = [c \in Calls |-> "idle"]
  /\ reason = [c \in Calls |-> "none"]
  /\ asOf = [c \in Calls |-> Never]
  /\ seen = [c \in Calls |-> [u \in Units |-> 0]]
  /\ effects = {}
  /\ audit = {}

Authorize(c) ==
  \/ ReadInterlock(c) \/ Validate(c) \/ ClaimApproval(c) \/ ClaimGrant(c)
  \/ LockBudget(c) \/ CommitBudget(c) \/ IssueLease(c)

ExecuteExternal(c) ==
  \/ VerifyLease(c) \/ ConsumeLease(c) \/ FirstFence(c) \/ AuditAdmission(c)
  \/ FinalFence(c) \/ PerformEffect(c) \/ AuditResult(c)

\* A started call runs on; whether one starts is up to the users.
Step(c) == LookupApproval(c) \/ Authorize(c) \/ ExecuteExternal(c)

Next ==
  \/ \E c \in Calls : \/ BeginDirect(c) \/ BeginSubmit(c) \/ Step(c)
                       \/ StoreError(c) \/ Crash(c)
  \/ \E g \in Grants : \/ Freeze(g)
                        \/ \E u \in Users, v \in {"approved", "denied"} : Review(u, g, v)
  \/ Sweep
  \/ \E on \in SUBSET Switches : SetInterlock(on)
  \/ Tick

Spec == Init /\ [][Next]_vars

\* The event loop resumes every call whose statement has been answered, and
\* every effect answers or times out.
FairSpec == Spec /\ \A c \in Calls : WF_vars(Step(c))

-----------------------------------------------------------------------------
(* Properties *)

Labels == {"idle"} \cup Running \cup Ended
Reasons == {"none", "not_submittable", "safety_interlock", "not_admissible",
            "approval_replay", "grant_replay", "aggregate_budget_exhausted",
            "governance_failure", "capability_binding", "invalid_capability_lease",
            "capability_replay", "external_effect_failed", "internal_error",
            "egress_destination_not_allowlisted", "store_failure", "crash"}
Events == {"effect_admission", "effect_result", "effect_blocked"}
Times == Nat \cup {Never}

TypeOK ==
  /\ clock \in Nat /\ faults \in Nat
  /\ interlock \subseteq Switches
  /\ approval \in [Grants -> {"none", "pending", "approved", "denied", "expired"}]
  /\ approvalExpires \in [Grants -> Times] /\ grantExpires \in [Grants -> Times]
  /\ approvalNonce \in [Grants -> Calls \cup {NoCall}]
  /\ grantNonce \in [Grants -> Calls \cup {NoCall}]
  /\ used \in [Tasks -> [Units -> Nat]] /\ reserved \subseteq Grants
  /\ rowLock \in [Tasks -> Calls \cup {NoCall}]
  /\ leaseExpires \in [Calls -> Int] /\ consumed \subseteq Calls
  /\ pc \in [Calls -> Labels] /\ reason \in [Calls -> Reasons]
  /\ asOf \in [Calls -> Times] /\ seen \in [Calls -> [Units -> Nat]]
  /\ effects \subseteq Calls /\ audit \subseteq Calls \X Events

\* However many calls present a grant at once, on whatever instances, and
\* whichever of them crash or retry, at most one of them reaches the sink:
\* claimNonce (repo.ts 241) is what makes a replayed approval harmless.
EffectOncePerGrant ==
  \A c, d \in effects : GrantOf[c] = GrantOf[d] => c = d

\* "Every external side effect requires a human approval bound to the exact
\* action": an effect of a sensitive grant implies a row that an administrator
\* approved, and that no sweep or later review has turned into anything else.
EffectsAreApproved ==
  \A c \in effects : GrantOf[c] \in Sensitive => approval[GrantOf[c]] = "approved"

\* Concurrent reservations never take a task past its budget, in either unit
\* (reserveBudget: the sum is read and the row inserted under one row lock).
BudgetHeld ==
  \A t \in Tasks, u \in Units : used[t][u] <= Budget[t][u]

\* An effect charged to a task has a reservation behind it.
EffectsAreCharged ==
  \A c \in effects : Req(c).task # NoTask => GrantOf[c] \in reserved

\* A lease never outlives the grant it was issued for, nor the approval behind
\* that grant, although the three lifetimes are configured separately and the
\* lease is issued some time after the checks it rests on.
LeaseWithinGrant ==
  \A c \in Calls :
    leaseExpires[c] # Never =>
      /\ leaseExpires[c] <= grantExpires[GrantOf[c]]
      /\ GrantOf[c] \in Frozen => leaseExpires[c] <= approvalExpires[GrantOf[c]]

\* Whatever fails in between, an effect has its admission in the audit trail
\* before it happens.
EvidenceComesFirst ==
  \A c \in effects : <<c, "effect_admission">> \in audit

\* Once a switch is on, no call moves on to its effect: only those already past
\* the final fence may still finish (execution.ts 27-30).
StopFences ==
  [][interlock # {} => \A c \in Calls : pc'[c] = "effect" => pc[c] = "effect"]_vars

\* The approval of a grant is decided once: it leaves "pending" for one of
\* three verdicts and keeps it, whatever sweep or review races with it.
DecidedOnce ==
  [][\A g \in Grants : approval[g] \in {"approved", "denied", "expired"}
                          => approval'[g] = approval[g]]_vars

\* ARCHITECTURE.md, grant lifecycle item 4: "a refusal never burns a nonce".
RefusalKeepsNonces ==
  \A c \in Calls :
    pc[c] \in {"denied", "stopped"} =>
      c \notin {grantNonce[GrantOf[c]], approvalNonce[GrantOf[c]]}

\* Every call that starts comes to an end, although calls queue for the row
\* lock and may fail while they hold it.
CallsEnd == \A c \in Calls : pc[c] \in Running ~> pc[c] \in Ended

\* The abstract promise this module implements.
Promise == INSTANCE EffectGate WITH
  TaskOf <- [g \in Grants |-> Request[g].task],
  Cost <- [g \in Grants |-> Request[g].reserve],
  approved <- {g \in Grants : approval[g] = "approved"},
  spent <- {g \in Grants : grantNonce[g] # NoCall},
  charged <- reserved,
  effected <- {<<GrantOf[c], c>> : c \in effects},
  Performers <- Calls

\* The gateway keeps the promise of EffectGate.
KeepsPromise == Promise!Spec
=============================================================================
