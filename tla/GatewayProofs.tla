---------------------------- MODULE GatewayProofs ----------------------------
(***************************************************************************)
(* What Gateway guarantees for any number of calls, grants, tasks and      *)
(* users and any lifetimes and budgets.                                    *)
(***************************************************************************)
EXTENDS Gateway, TLAPS

USE DEF Never, Switches

-----------------------------------------------------------------------------
(* Type correctness. *)

LEMMA RequestTypes ==
  ASSUME NEW c \in Calls
  PROVE /\ GrantOf[c] \in Grants /\ UserOf[c] \in Users
        /\ Req(c).task \in Tasks \cup {NoTask}
        /\ Req(c).reserve \in [Units -> Nat]
        /\ Req(c).subject \in Users
BY GatewayAssumption DEF Req, RequestType

LEMMA LifetimesAreTimes ==
  ASSUME clock \in Nat
  PROVE /\ ExpiryOfNewGrant \in Nat
        /\ Lesser(clock + ApprovalTtl, ExpiryOfNewGrant) \in Nat
BY GatewayAssumption DEF ExpiryOfNewGrant, Lesser

\* A call that waits for its reservation has a task to charge.
ChargesATask == \A c \in Calls : pc[c] \in {"reserve", "commit"} => Req(c).task \in Tasks

Typed == TypeOK /\ ChargesATask

LEMMA GotoTypes ==
  ASSUME pc \in [Calls -> Labels], ChargesATask,
         NEW c \in Calls, NEW l \in Labels, Goto(c, l),
         l \in {"reserve", "commit"} => Req(c).task \in Tasks
  PROVE pc' \in [Calls -> Labels] /\ ChargesATask'
BY DEF Goto, ChargesATask, Req

LEMMA EndTypes ==
  ASSUME pc \in [Calls -> Labels], reason \in [Calls -> Reasons], ChargesATask,
         NEW c \in Calls, NEW l \in Ended, NEW why \in Reasons, End(c, l, why)
  PROVE /\ pc' \in [Calls -> Labels] /\ reason' \in [Calls -> Reasons]
        /\ ChargesATask'
BY DEF Goto, End, Labels, Ended, ChargesATask, Req

LEMMA RecordTypes ==
  ASSUME audit \subseteq Calls \X Events, NEW c \in Calls, NEW e \in Events, Record(c, e)
  PROVE audit' \subseteq Calls \X Events
BY DEF Record

LEMMA BlockTypes ==
  ASSUME pc \in [Calls -> Labels], reason \in [Calls -> Reasons],
         audit \subseteq Calls \X Events, ChargesATask,
         NEW c \in Calls, NEW why \in Reasons, Block(c, why)
  PROVE /\ pc' \in [Calls -> Labels] /\ reason' \in [Calls -> Reasons]
        /\ audit' \subseteq Calls \X Events
        /\ ChargesATask'
BY EndTypes, RecordTypes DEF Block, Labels, Ended, Events

LEMMA AlwaysTyped == Spec => []Typed
<1>1. Init => Typed
  BY GatewayAssumption
  DEF Init, Typed, TypeOK, Labels, Running, Reasons, Times, ChargesATask
<1>2. Typed /\ [Next]_vars => Typed'
  <2> SUFFICES ASSUME Typed, [Next]_vars PROVE Typed'
    OBVIOUS
  <2> USE DEF Typed, TypeOK, tables, calls, world
  <2>1. ASSUME NEW c \in Calls, BeginDirect(c) PROVE Typed'
    BY <2>1, GotoTypes, LifetimesAreTimes, RequestTypes DEF BeginDirect, Labels, Running, Times
  <2>2. ASSUME NEW c \in Calls, BeginSubmit(c) PROVE Typed'
    BY <2>2, GotoTypes DEF BeginSubmit, Swept, Labels, Running
  <2>3. ASSUME NEW c \in Calls, LookupApproval(c) PROVE Typed'
    BY <2>3, GotoTypes, EndTypes DEF LookupApproval, Labels, Running, Ended, Reasons
  <2>4. ASSUME NEW c \in Calls, ReadInterlock(c) PROVE Typed'
    BY <2>4, GotoTypes, EndTypes DEF ReadInterlock, Labels, Running, Ended, Reasons
  <2>5. ASSUME NEW c \in Calls, Validate(c) PROVE Typed'
    BY <2>5, GotoTypes, EndTypes DEF Validate, Labels, Running, Ended, Reasons, Times
  <2>6. ASSUME NEW c \in Calls, ClaimApproval(c) PROVE Typed'
    BY <2>6, GotoTypes, EndTypes, RequestTypes DEF ClaimApproval, ChargesATask, Labels, Running, Ended, Reasons
  <2>7. ASSUME NEW c \in Calls, ClaimGrant(c) PROVE Typed'
    BY <2>7, GotoTypes, EndTypes, RequestTypes DEF ClaimGrant, ChargesATask, Labels, Running, Ended, Reasons
  <2>8. ASSUME NEW c \in Calls, LockBudget(c) PROVE Typed'
    BY <2>8, GotoTypes, RequestTypes DEF LockBudget, ChargesATask, Labels, Running
  <2>9. ASSUME NEW c \in Calls, CommitBudget(c) PROVE Typed'
    <3> DEFINE t == Req(c).task
    <3>1. t \in Tasks /\ Req(c).reserve \in [Units -> Nat] /\ GrantOf[c] \in Grants
      BY <2>9, RequestTypes DEF CommitBudget, ChargesATask
    <3>2. rowLock' \in [Tasks -> Calls \cup {NoCall}]
      BY <2>9 DEF CommitBudget
    <3>3. pc' \in [Calls -> Labels] /\ reason' \in [Calls -> Reasons] /\ ChargesATask'
      BY <2>9, GotoTypes, EndTypes DEF CommitBudget, Labels, Running, Ended, Reasons
    <3>4. [u \in Units |-> used[t][u] + Req(c).reserve[u]] \in [Units -> Nat]
      BY <3>1
    <3>5. used' \in [Tasks -> [Units -> Nat]] /\ reserved' \subseteq Grants
      BY <2>9, <3>1, <3>4 DEF CommitBudget
    <3> QED
      BY <2>9, <3>2, <3>3, <3>5 DEF CommitBudget
  <2>10. ASSUME NEW c \in Calls, IssueLease(c) PROVE Typed'
    <3>1. /\ asOf[c] \in Int /\ grantExpires[GrantOf[c]] \in Int /\ LeaseTtl \in Int
      BY RequestTypes, GatewayAssumption DEF Times
    <3>2. asOf[c] + Lesser(LeaseTtl, Greater(1, grantExpires[GrantOf[c]] - asOf[c])) \in Int
      BY <3>1 DEF Lesser, Greater
    <3>3. leaseExpires' \in [Calls -> Int]
      BY <2>10, <3>2 DEF IssueLease
    <3>4. pc' \in [Calls -> Labels] /\ ChargesATask'
      BY <2>10, GotoTypes DEF IssueLease, Labels, Running
    <3> QED
      BY <2>10, <3>3, <3>4 DEF IssueLease
  <2>11. ASSUME NEW c \in Calls, VerifyLease(c) PROVE Typed'
    BY <2>11, GotoTypes, BlockTypes DEF VerifyLease, Labels, Running, Reasons
  <2>12. ASSUME NEW c \in Calls, ConsumeLease(c) PROVE Typed'
    BY <2>12, GotoTypes, BlockTypes DEF ConsumeLease, Labels, Running, Reasons
  <2>13. ASSUME NEW c \in Calls, FirstFence(c) PROVE Typed'
    BY <2>13, GotoTypes, BlockTypes DEF FirstFence, Fence, Labels, Running, Reasons
  <2>14. ASSUME NEW c \in Calls, AuditAdmission(c) PROVE Typed'
    BY <2>14, GotoTypes, RecordTypes DEF AuditAdmission, Events, Labels, Running
  <2>15. ASSUME NEW c \in Calls, FinalFence(c) PROVE Typed'
    BY <2>15, GotoTypes, BlockTypes DEF FinalFence, Fence, Labels, Running, Reasons
  <2>16. ASSUME NEW c \in Calls, PerformEffect(c) PROVE Typed'
    BY <2>16, GotoTypes, BlockTypes DEF PerformEffect, Labels, Running, Reasons
  <2>17. ASSUME NEW c \in Calls, AuditResult(c) PROVE Typed'
    BY <2>17, GotoTypes, RecordTypes DEF AuditResult, Events, Labels, Ended
  <2>18. ASSUME NEW c \in Calls, StoreError(c) PROVE Typed'
    BY <2>18, EndTypes, RecordTypes DEF StoreError, FaultHappens, Unlocked, Events, Labels, Ended, Reasons
  <2>19. ASSUME NEW c \in Calls, Crash(c) PROVE Typed'
    BY <2>19, EndTypes DEF Crash, FaultHappens, Unlocked, Labels, Ended, Reasons
  <2>20. ASSUME NEW g \in Grants, Freeze(g) PROVE Typed'
    BY <2>20, LifetimesAreTimes DEF Freeze, Times, ChargesATask, Req
  <2>21. ASSUME NEW u \in Users, NEW g \in Grants, NEW v \in {"approved", "denied"}, Review(u, g, v)
        PROVE Typed'
    BY <2>21 DEF Review, Swept, ChargesATask, Req
  <2>22. CASE Sweep
    BY <2>22 DEF Sweep, Swept, ChargesATask, Req
  <2>23. ASSUME NEW on \in SUBSET Switches, SetInterlock(on) PROVE Typed'
    BY <2>23 DEF SetInterlock, ChargesATask, Req
  <2>24. CASE Tick
    BY <2>24 DEF Tick, ChargesATask, Req
  <2>25. CASE UNCHANGED vars
    BY <2>25 DEF vars, ChargesATask, Req
  <2> HIDE DEF Typed, TypeOK, tables, calls, world
  <2> QED
    BY <2>1, <2>2, <2>3, <2>4, <2>5, <2>6, <2>7, <2>8, <2>9, <2>10, <2>11, <2>12, <2>13, <2>14, <2>15, <2>16, <2>17, <2>18, <2>19, <2>20, <2>21, <2>22, <2>23, <2>24, <2>25
    DEF Next, Step, Authorize, ExecuteExternal
<1> QED BY <1>1, <1>2, PTL DEF Spec

\* The type invariant, from the inductive one.
THEOREM TypeCorrect == Spec => []TypeOK
<1>1. Typed => TypeOK
  BY DEF Typed
<1> QED BY <1>1, AlwaysTyped, PTL

-----------------------------------------------------------------------------
(* Which action a change of the state betrays. *)

\* The actions that take a call from one label to another.
Entered(c) ==
  /\ pc'[c] # "idle"
  /\ pc[c] = "idle" => BeginSubmit(c) \/ BeginDirect(c)
  /\ pc'[c] = "lookup" => BeginSubmit(c)
  /\ pc'[c] = "interlock" => BeginDirect(c) \/ LookupApproval(c)
  /\ pc'[c] = "validate" => ReadInterlock(c)
  /\ pc'[c] = "claim_approval" => Validate(c)
  /\ pc'[c] = "claim_grant" => Validate(c) \/ ClaimApproval(c)
  /\ pc'[c] = "reserve" => ClaimGrant(c)
  /\ pc'[c] = "commit" => LockBudget(c)
  /\ pc'[c] = "lease" => ClaimGrant(c) \/ CommitBudget(c)
  /\ pc'[c] = "verify" => IssueLease(c)
  /\ pc'[c] = "consume" => VerifyLease(c)
  /\ pc'[c] = "fence" => ConsumeLease(c)
  /\ pc'[c] = "admission" => FirstFence(c)
  /\ pc'[c] = "final_fence" => AuditAdmission(c)
  /\ pc'[c] = "effect" => FinalFence(c)
  /\ pc'[c] = "result" => PerformEffect(c)
  /\ pc'[c] = "completed" => AuditResult(c)

LEMMA Entries ==
  ASSUME TypeOK, [Next]_vars, NEW c \in Calls
  PROVE pc'[c] = pc[c] \/ Entered(c)
<1> SUFFICES ASSUME pc'[c] # pc[c] PROVE Entered(c)
  OBVIOUS
<1> USE DEF TypeOK, Entered, tables, calls, world, Goto, End, Block
<1>1. ASSUME NEW d \in Calls, BeginDirect(d) PROVE Entered(c)
  BY <1>1 DEF BeginDirect
<1>2. ASSUME NEW d \in Calls, BeginSubmit(d) PROVE Entered(c)
  BY <1>2 DEF BeginSubmit
<1>3. ASSUME NEW d \in Calls, LookupApproval(d) PROVE Entered(c)
  BY <1>3 DEF LookupApproval
<1>4. ASSUME NEW d \in Calls, ReadInterlock(d) PROVE Entered(c)
  BY <1>4 DEF ReadInterlock
<1>5. ASSUME NEW d \in Calls, Validate(d) PROVE Entered(c)
  BY <1>5 DEF Validate
<1>6. ASSUME NEW d \in Calls, ClaimApproval(d) PROVE Entered(c)
  BY <1>6 DEF ClaimApproval
<1>7. ASSUME NEW d \in Calls, ClaimGrant(d) PROVE Entered(c)
  BY <1>7 DEF ClaimGrant
<1>8. ASSUME NEW d \in Calls, LockBudget(d) PROVE Entered(c)
  BY <1>8 DEF LockBudget
<1>9. ASSUME NEW d \in Calls, CommitBudget(d) PROVE Entered(c)
  BY <1>9 DEF CommitBudget
<1>10. ASSUME NEW d \in Calls, IssueLease(d) PROVE Entered(c)
  BY <1>10 DEF IssueLease
<1>11. ASSUME NEW d \in Calls, VerifyLease(d) PROVE Entered(c)
  BY <1>11 DEF VerifyLease
<1>12. ASSUME NEW d \in Calls, ConsumeLease(d) PROVE Entered(c)
  BY <1>12 DEF ConsumeLease
<1>13. ASSUME NEW d \in Calls, FirstFence(d) PROVE Entered(c)
  BY <1>13 DEF FirstFence, Fence
<1>14. ASSUME NEW d \in Calls, AuditAdmission(d) PROVE Entered(c)
  BY <1>14 DEF AuditAdmission
<1>15. ASSUME NEW d \in Calls, FinalFence(d) PROVE Entered(c)
  BY <1>15 DEF FinalFence, Fence
<1>16. ASSUME NEW d \in Calls, PerformEffect(d) PROVE Entered(c)
  BY <1>16 DEF PerformEffect
<1>17. ASSUME NEW d \in Calls, AuditResult(d) PROVE Entered(c)
  BY <1>17 DEF AuditResult
<1>18. ASSUME NEW d \in Calls, StoreError(d) PROVE Entered(c)
  BY <1>18 DEF StoreError, FaultHappens
<1>19. ASSUME NEW d \in Calls, Crash(d) PROVE Entered(c)
  BY <1>19 DEF Crash, FaultHappens, Running
<1>20. ASSUME NEW g \in Grants, Freeze(g) PROVE Entered(c)
  BY <1>20 DEF Freeze
<1>21. ASSUME NEW u \in Users, NEW g \in Grants, NEW v \in {"approved", "denied"}, Review(u, g, v)
      PROVE Entered(c)
  BY <1>21 DEF Review
<1>22. CASE Sweep
  BY <1>22 DEF Sweep
<1>23. ASSUME NEW on \in SUBSET Switches, SetInterlock(on) PROVE Entered(c)
  BY <1>23 DEF SetInterlock
<1>24. CASE Tick
  BY <1>24 DEF Tick
<1>25. CASE UNCHANGED vars
  BY <1>25 DEF vars
<1> HIDE DEF TypeOK, Entered, tables, calls, world, Goto, End, Block
<1> QED
  BY <1>1, <1>2, <1>3, <1>4, <1>5, <1>6, <1>7, <1>8, <1>9, <1>10, <1>11, <1>12, <1>13, <1>14, <1>15, <1>16, <1>17, <1>18, <1>19, <1>20, <1>21, <1>22, <1>23, <1>24, <1>25
  DEF Next, Step, Authorize, ExecuteExternal

\* The actions that write a table.
Written ==
  /\ grantNonce' # grantNonce => \E c \in Calls : ClaimGrant(c)
  /\ <<reserved, used>>' # <<reserved, used>> => \E c \in Calls : CommitBudget(c)
  /\ seen' # seen => \E c \in Calls : LockBudget(c)
  /\ asOf' # asOf => \E c \in Calls : Validate(c)
  /\ leaseExpires' # leaseExpires => \E c \in Calls : IssueLease(c)
  /\ effects' # effects => \E c \in Calls : PerformEffect(c)
  /\ approval' # approval =>
       \/ Sweep \/ \E c \in Calls : BeginSubmit(c)
       \/ \E g \in Grants : \/ Freeze(g)
                            \/ \E u \in Users, v \in {"approved", "denied"} : Review(u, g, v)
  /\ grantExpires' # grantExpires =>
       (\E c \in Calls : BeginDirect(c)) \/ \E g \in Grants : Freeze(g)
  /\ approvalExpires' # approvalExpires => \E g \in Grants : Freeze(g)

LEMMA Writes == [Next]_vars => Written
<1> SUFFICES ASSUME [Next]_vars PROVE Written
  OBVIOUS
<1> USE DEF Written, tables, calls, world
<1>1. ASSUME NEW d \in Calls, BeginDirect(d) PROVE Written
  BY <1>1 DEF BeginDirect
<1>2. ASSUME NEW d \in Calls, BeginSubmit(d) PROVE Written
  BY <1>2 DEF BeginSubmit
<1>3. ASSUME NEW d \in Calls, LookupApproval(d) PROVE Written
  BY <1>3 DEF LookupApproval
<1>4. ASSUME NEW d \in Calls, ReadInterlock(d) PROVE Written
  BY <1>4 DEF ReadInterlock
<1>5. ASSUME NEW d \in Calls, Validate(d) PROVE Written
  BY <1>5 DEF Validate
<1>6. ASSUME NEW d \in Calls, ClaimApproval(d) PROVE Written
  BY <1>6 DEF ClaimApproval
<1>7. ASSUME NEW d \in Calls, ClaimGrant(d) PROVE Written
  BY <1>7 DEF ClaimGrant
<1>8. ASSUME NEW d \in Calls, LockBudget(d) PROVE Written
  BY <1>8 DEF LockBudget
<1>9. ASSUME NEW d \in Calls, CommitBudget(d) PROVE Written
  BY <1>9 DEF CommitBudget
<1>10. ASSUME NEW d \in Calls, IssueLease(d) PROVE Written
  BY <1>10 DEF IssueLease
<1>11. ASSUME NEW d \in Calls, VerifyLease(d) PROVE Written
  BY <1>11 DEF VerifyLease
<1>12. ASSUME NEW d \in Calls, ConsumeLease(d) PROVE Written
  BY <1>12 DEF ConsumeLease
<1>13. ASSUME NEW d \in Calls, FirstFence(d) PROVE Written
  BY <1>13 DEF FirstFence, Fence
<1>14. ASSUME NEW d \in Calls, AuditAdmission(d) PROVE Written
  BY <1>14 DEF AuditAdmission
<1>15. ASSUME NEW d \in Calls, FinalFence(d) PROVE Written
  BY <1>15 DEF FinalFence, Fence
<1>16. ASSUME NEW d \in Calls, PerformEffect(d) PROVE Written
  BY <1>16 DEF PerformEffect
<1>17. ASSUME NEW d \in Calls, AuditResult(d) PROVE Written
  BY <1>17 DEF AuditResult
<1>18. ASSUME NEW d \in Calls, StoreError(d) PROVE Written
  BY <1>18 DEF StoreError, FaultHappens
<1>19. ASSUME NEW d \in Calls, Crash(d) PROVE Written
  BY <1>19 DEF Crash, FaultHappens
<1>20. ASSUME NEW g \in Grants, Freeze(g) PROVE Written
  BY <1>20 DEF Freeze
<1>21. ASSUME NEW u \in Users, NEW g \in Grants, NEW v \in {"approved", "denied"}, Review(u, g, v)
      PROVE Written
  BY <1>21 DEF Review
<1>22. CASE Sweep
  BY <1>22 DEF Sweep
<1>23. ASSUME NEW on \in SUBSET Switches, SetInterlock(on) PROVE Written
  BY <1>23 DEF SetInterlock
<1>24. CASE Tick
  BY <1>24 DEF Tick
<1>25. CASE UNCHANGED vars
  BY <1>25 DEF vars
<1> HIDE DEF Written, tables, calls, world
<1> QED
  BY <1>1, <1>2, <1>3, <1>4, <1>5, <1>6, <1>7, <1>8, <1>9, <1>10, <1>11, <1>12, <1>13, <1>14, <1>15, <1>16, <1>17, <1>18, <1>19, <1>20, <1>21, <1>22, <1>23, <1>24, <1>25
  DEF Next, Step, Authorize, ExecuteExternal

-----------------------------------------------------------------------------
(* A grant has at most one effect. *)

\* The labels of a call that has passed each milestone and has not failed.
Evidenced == {"final_fence", "effect", "result", "completed"}
Charged == {"lease", "verify", "consume", "fence", "admission"} \cup Evidenced
Holding == {"reserve", "commit"} \cup Charged

\* A call that holds a grant, or has had its effect, owns the grant's nonce.
Owned == \A c \in Calls :
  pc[c] \in Holding \/ c \in effects => grantNonce[GrantOf[c]] = c

LEMMA NoncesStay ==
  ASSUME TypeOK, [Next]_vars, NEW g \in Grants, grantNonce[g] # NoCall
  PROVE grantNonce'[g] = grantNonce[g]
<1>1. CASE grantNonce' = grantNonce
  BY <1>1
<1>2. ASSUME NEW c \in Calls, ClaimGrant(c) PROVE grantNonce'[g] = grantNonce[g]
  BY <1>2, RequestTypes DEF ClaimGrant, Unclaimed, TypeOK
<1> QED BY <1>1, <1>2, Writes DEF Written

LEMMA AlwaysOwned == Spec => []Owned
<1>1. Init => Owned
  BY DEF Init, Owned, Holding, Charged, Evidenced
<1>2. Typed /\ Owned /\ [Next]_vars => Owned'
  <2> SUFFICES ASSUME TypeOK, Owned, [Next]_vars, NEW c \in Calls,
                      pc'[c] \in Holding \/ c \in effects'
               PROVE grantNonce'[GrantOf[c]] = c
    BY DEF Owned, Typed
  <2>1. CASE pc[c] \in Holding \/ c \in effects
    <3>1. grantNonce[GrantOf[c]] = c /\ c # NoCall
      BY <2>1, GatewayAssumption DEF Owned
    <3> QED BY <3>1, NoncesStay, RequestTypes
  <2>2. CASE pc[c] \notin Holding /\ c \notin effects
    <3>1. c \notin effects'
      BY <2>2, Writes DEF Written, PerformEffect, Block, Holding, Charged, Evidenced
    <3>2. pc'[c] \in Holding /\ pc'[c] # pc[c]
      BY <2>2, <3>1
    <3>3. ClaimGrant(c)
      <4>1. Entered(c)
        BY <3>2, Entries
      <4> QED
        BY <4>1, <3>2, <2>2
        DEF Entered, Holding, Charged, Evidenced, LockBudget, CommitBudget, IssueLease,
            VerifyLease, ConsumeLease, FirstFence, Fence, AuditAdmission, FinalFence,
            PerformEffect, AuditResult
    <3> QED
      BY <3>2, <3>3, RequestTypes, GatewayAssumption
      DEF ClaimGrant, End, Goto, TypeOK, Holding, Charged, Evidenced
  <2> QED BY <2>1, <2>2
<1> QED BY <1>1, <1>2, AlwaysTyped, PTL DEF Spec

\* For any number of calls on any number of instances, a grant has at most one
\* effect: the unique index under claimNonce is enough.
THEOREM GrantsActOnce == Spec => []EffectOncePerGrant
<1>1. Owned /\ Typed => EffectOncePerGrant
  BY DEF Owned, Typed, TypeOK, EffectOncePerGrant
<1> QED BY <1>1, AlwaysOwned, AlwaysTyped, PTL

-----------------------------------------------------------------------------
(* The budget of a task is never exceeded. *)

\* A call about to commit holds the row of its task, and the sum it read is
\* still the sum.
LockHeld == \A c \in Calls :
  pc[c] = "commit" => rowLock[Req(c).task] = c /\ seen[c] = used[Req(c).task]

BudgetInv == Typed /\ LockHeld /\ BudgetHeld

LEMMA OtherTasksKeepTheirSum ==
  ASSUME TypeOK, NEW c \in Calls, CommitBudget(c), NEW t \in Tasks,
         ~Fits(c) \/ t # Req(c).task
  PROVE used'[t] = used[t]
<1>1. CASE ~Fits(c)
  BY <1>1 DEF CommitBudget
<1>2. CASE Fits(c) /\ t # Req(c).task
  <2> DEFINE new == [u \in Units |-> used[Req(c).task][u] + Req(c).reserve[u]]
  <2>1. used' = [used EXCEPT ![Req(c).task] = new]
    BY <1>2 DEF CommitBudget
  <2> HIDE DEF new
  <2> QED BY <1>2, <2>1 DEF TypeOK
<1> QED BY <1>1, <1>2

LEMMA LocksStay ==
  ASSUME Typed, LockHeld, [Next]_vars, NEW c \in Calls, pc[c] = "commit", pc'[c] = "commit"
  PROVE rowLock'[Req(c).task] = c
<1> DEFINE t == Req(c).task
<1>0. t \in Tasks /\ rowLock[t] = c /\ c # NoCall /\ Req(c)' = Req(c)
  BY GatewayAssumption DEF Typed, LockHeld, ChargesATask, Req
<1>1. ASSUME NEW d \in Calls, LockBudget(d) PROVE rowLock'[t] = c
  BY <1>0, <1>1, RequestTypes DEF LockBudget, Typed, TypeOK
<1>2. ASSUME NEW d \in Calls, CommitBudget(d) PROVE rowLock'[t] = c
  <2>1. d # c /\ rowLock[Req(d).task] = d /\ Req(d).task \in Tasks
    BY <1>2 DEF CommitBudget, Goto, End, LockHeld, Typed, TypeOK, ChargesATask
  <2> QED BY <2>1, <1>0, <1>2 DEF CommitBudget, Typed, TypeOK
<1>3. ASSUME NEW d \in Calls, StoreError(d) \/ Crash(d) PROVE rowLock'[t] = c
  <2>1. d # c
    BY <1>3 DEF StoreError, Crash, End, Goto, Typed, TypeOK
  <2> QED BY <2>1, <1>0, <1>3 DEF StoreError, Crash, FaultHappens, Unlocked, Typed, TypeOK
<1>4. \/ rowLock' = rowLock
      \/ \E d \in Calls : LockBudget(d) \/ CommitBudget(d) \/ StoreError(d) \/ Crash(d)
  BY Writes DEF Written, Next, vars, tables, Step, Authorize, ExecuteExternal, Sweep,
     SetInterlock, Tick, Freeze, Review, BeginDirect, BeginSubmit, LookupApproval,
     ReadInterlock, Validate, ClaimApproval, ClaimGrant, IssueLease, VerifyLease,
     ConsumeLease, FirstFence, FinalFence, Fence, AuditAdmission, PerformEffect, AuditResult
<1> QED BY <1>0, <1>1, <1>2, <1>3, <1>4

LEMMA AlwaysInBudget == Spec => []BudgetInv
<1>1. Init => LockHeld /\ BudgetHeld
  BY GatewayAssumption DEF Init, LockHeld, BudgetHeld
<1>2. BudgetInv /\ [Next]_vars => LockHeld'
  <2> SUFFICES ASSUME BudgetInv, [Next]_vars, NEW c \in Calls, pc'[c] = "commit"
               PROVE rowLock'[Req(c).task] = c /\ seen'[c] = used'[Req(c).task]
    BY DEF LockHeld, Req
  <2> DEFINE t == Req(c).task
  <2> USE DEF BudgetInv, Typed
  <2>1. CASE pc[c] # "commit"
    <3>1. LockBudget(c)
      BY <2>1, Entries DEF Entered
    <3>2. t \in Tasks
      BY <3>1 DEF LockBudget, ChargesATask
    <3> QED BY <3>1, <3>2 DEF LockBudget, TypeOK
  <2>2. CASE pc[c] = "commit"
    <3>1. rowLock'[t] = c
      BY <2>2, LocksStay
    <3>2. seen'[c] = seen[c]
      <4>1. ASSUME NEW d \in Calls, LockBudget(d) PROVE seen'[c] = seen[c]
        BY <4>1, <2>2 DEF LockBudget, TypeOK
      <4> QED BY <4>1, Writes DEF Written
    <3>3. used'[t] = used[t]
      <4>1. ASSUME NEW d \in Calls, CommitBudget(d) PROVE used'[t] = used[t]
        <5>1. d # c /\ rowLock[Req(d).task] = d /\ rowLock[t] = c
          BY <4>1, <2>2 DEF CommitBudget, Goto, End, LockHeld, TypeOK
        <5>2. t # Req(d).task /\ t \in Tasks
          BY <5>1, <2>2 DEF ChargesATask
        <5> QED BY <4>1, <5>2, OtherTasksKeepTheirSum
      <4> QED BY <4>1, Writes DEF Written
    <3> QED BY <2>2, <3>1, <3>2, <3>3 DEF LockHeld
  <2> QED BY <2>1, <2>2
<1>3. BudgetInv /\ [Next]_vars => BudgetHeld'
  <2> SUFFICES ASSUME BudgetInv, [Next]_vars, NEW t \in Tasks, NEW u \in Units
               PROVE used'[t][u] <= Budget[t][u]
    BY DEF BudgetHeld
  <2> USE DEF BudgetInv, Typed
  <2>1. CASE used' = used
    BY <2>1 DEF BudgetHeld
  <2>2. ASSUME NEW c \in Calls, CommitBudget(c) PROVE used'[t][u] <= Budget[t][u]
    <3>1. CASE Fits(c) /\ Req(c).task = t
      <4>1. seen[c] = used[t]
        BY <2>2, <3>1 DEF CommitBudget, LockHeld
      <4>2. used'[t][u] = used[t][u] + Req(c).reserve[u]
        BY <2>2, <3>1 DEF CommitBudget, TypeOK
      <4> QED BY <3>1, <4>1, <4>2 DEF Fits
    <3>2. CASE ~Fits(c) \/ Req(c).task # t
      <4>1. used'[t] = used[t]
        BY <2>2, <3>2, OtherTasksKeepTheirSum
      <4> QED BY <4>1 DEF BudgetHeld
    <3> QED BY <3>1, <3>2
  <2> QED BY <2>1, <2>2, Writes DEF Written
<1>4. BudgetInv <=> (Typed /\ LockHeld /\ BudgetHeld)
  BY DEF BudgetInv
<1> QED BY <1>1, <1>2, <1>3, <1>4, AlwaysTyped, PTL DEF Spec

\* For any number of concurrent reservations, budgets and units: the row lock
\* is enough.
THEOREM BudgetsHold == Spec => []BudgetHeld
<1>1. BudgetInv => BudgetHeld
  BY DEF BudgetInv
<1> QED BY <1>1, AlwaysInBudget, PTL

-----------------------------------------------------------------------------
(* Approvals are decided once, and no sensitive effect lacks one. *)

LEMMA DecisionsStay ==
  ASSUME TypeOK, [Next]_vars, NEW g \in Grants,
         approval[g] \in {"approved", "denied", "expired"}
  PROVE approval'[g] = approval[g]
<1>1. Swept[g] = approval[g]
  BY DEF Swept
<1>2. CASE Sweep \/ \E c \in Calls : BeginSubmit(c)
  BY <1>1, <1>2 DEF Sweep, BeginSubmit
<1>3. ASSUME NEW h \in Grants, Freeze(h) PROVE approval'[g] = approval[g]
  BY <1>3 DEF Freeze, TypeOK
<1>4. ASSUME NEW h \in Grants, NEW u \in Users, NEW v \in {"approved", "denied"},
             Review(u, h, v)
      PROVE approval'[g] = approval[g]
  BY <1>1, <1>4 DEF Review, Swept
<1> QED BY <1>2, <1>3, <1>4, Writes DEF Written

\* An approval keeps its verdict, whatever reviews, sweeps and submissions race.
THEOREM VerdictsStay == Spec => DecidedOnce
<1>1. TypeOK /\ [Next]_vars =>
        [\A g \in Grants : approval[g] \in {"approved", "denied", "expired"}
                             => approval'[g] = approval[g]]_vars
  BY DecisionsStay
<1> QED BY <1>1, TypeCorrect, PTL DEF Spec, DecidedOnce

Validated == {"claim_approval", "claim_grant"} \cup Holding
LookedUp == {"interlock", "validate"} \cup Validated

\* A submission past its lookup has an approved row; a sensitive call past
\* validation is a submission.
Vetted == \A c \in Calls :
  /\ GrantOf[c] \in Frozen /\ pc[c] \in LookedUp => approval[GrantOf[c]] = "approved"
  /\ GrantOf[c] \in Sensitive /\ pc[c] \in Validated => GrantOf[c] \in Frozen
  /\ GrantOf[c] \in Sensitive /\ c \in effects => approval[GrantOf[c]] = "approved"

LEMMA AlwaysVetted == Spec => []Vetted
<1> USE DEF Validated, LookedUp, Holding, Charged, Evidenced
<1>1. Init => Vetted
  BY DEF Init, Vetted
<1>2. TypeOK /\ Vetted /\ [Next]_vars => Vetted'
  <2> SUFFICES ASSUME TypeOK, Vetted, [Next]_vars, NEW c \in Calls
               PROVE /\ GrantOf[c] \in Frozen /\ pc'[c] \in LookedUp
                          => approval'[GrantOf[c]] = "approved"
                     /\ GrantOf[c] \in Sensitive /\ pc'[c] \in Validated
                          => GrantOf[c] \in Frozen
                     /\ GrantOf[c] \in Sensitive /\ c \in effects'
                          => approval'[GrantOf[c]] = "approved"
    BY DEF Vetted, Sensitive
  <2> DEFINE g == GrantOf[c]
  <2>0. g \in Grants /\ (approval[g] = "approved" => approval'[g] = "approved")
    BY RequestTypes, DecisionsStay
  <2>1. ASSUME g \in Frozen, pc'[c] \in LookedUp, pc[c] \notin LookedUp
        PROVE approval'[g] = "approved"
    <3>1. Entered(c)
      BY <2>1, Entries
    <3>2. LookupApproval(c) \/ BeginDirect(c)
      BY <3>1, <2>1
      DEF Entered, ReadInterlock, Validate, ClaimApproval, ClaimGrant, LockBudget,
          CommitBudget, IssueLease, VerifyLease, ConsumeLease, FirstFence, Fence,
          AuditAdmission, FinalFence, PerformEffect, AuditResult
    <3> QED
      BY <3>2, <2>0, <2>1
      DEF LookupApproval, BeginDirect, Submittable, End, Goto, TypeOK, tables
  <2>2. ASSUME g \in Sensitive, pc'[c] \in Validated, pc[c] \notin Validated
        PROVE g \in Frozen
    <3>1. Entered(c)
      BY <2>2, Entries
    <3>2. Validate(c)
      BY <3>1, <2>2
      DEF Entered, ClaimApproval, ClaimGrant, LockBudget, CommitBudget, IssueLease,
          VerifyLease, ConsumeLease, FirstFence, Fence, AuditAdmission, FinalFence,
          PerformEffect, AuditResult
    <3> QED
      BY <3>2, <2>2 DEF Validate, Admissible, HumanApproved, End, Goto, TypeOK
  <2>3. ASSUME g \in Sensitive, c \in effects', c \notin effects
        PROVE approval[g] = "approved"
    <3>1. PerformEffect(c)
      BY <2>3, Writes DEF Written, PerformEffect, Block
    <3> QED BY <3>1, <2>3 DEF PerformEffect, Vetted
  <2>4. g \in Frozen /\ pc'[c] \in LookedUp => approval'[g] = "approved"
    BY <2>0, <2>1 DEF Vetted
  <2>5. g \in Sensitive /\ pc'[c] \in Validated => g \in Frozen
    BY <2>2 DEF Vetted
  <2>6. g \in Sensitive /\ c \in effects' => approval'[g] = "approved"
    BY <2>0, <2>3 DEF Vetted
  <2> QED BY <2>4, <2>5, <2>6
<1> QED BY <1>1, <1>2, TypeCorrect, PTL DEF Spec

\* No effect of a sensitive grant without an administrator's approval, for any
\* number of users, approvals and calls.
THEOREM HumansDecide == Spec => []EffectsAreApproved
<1>1. Vetted /\ TypeOK => EffectsAreApproved
  BY DEF Vetted, TypeOK, EffectsAreApproved
<1> QED BY <1>1, AlwaysVetted, TypeCorrect, PTL

-----------------------------------------------------------------------------
(* An effect is charged to its task and has its admission on record. *)

\* A reservation belongs to a spent grant, a call that waits for one has none
\* yet, and a call past it has one.
Accounted ==
  /\ \A g \in reserved : grantNonce[g] # NoCall
  /\ \A c \in Calls : /\ pc[c] \in {"reserve", "commit"} => GrantOf[c] \notin reserved
                      /\ pc[c] \in Charged \/ c \in effects
                           => Req(c).task = NoTask \/ GrantOf[c] \in reserved

AccountInv == TypeOK /\ Owned /\ ChargesATask /\ Accounted

LEMMA Reservation ==
  ASSUME TypeOK, NEW c \in Calls, CommitBudget(c)
  PROVE \/ reserved' = reserved \cup {GrantOf[c]} /\ pc'[c] = "lease"
        \/ reserved' = reserved /\ pc'[c] = "denied"
BY DEF CommitBudget, End, Goto, TypeOK

LEMMA StepKeepsAccounts == AccountInv /\ [Next]_vars => Accounted'
<1> SUFFICES ASSUME AccountInv, [Next]_vars PROVE Accounted'
  OBVIOUS
<1> USE DEF AccountInv
<1>0. \A c \in Calls : Req(c)' = Req(c) /\ GrantOf[c] \in Grants
  BY RequestTypes DEF Req
<1>1. ASSUME NEW g \in reserved' PROVE grantNonce'[g] # NoCall
  <2>1. CASE g \in reserved
    BY <2>1, NoncesStay DEF Accounted, TypeOK
  <2>2. CASE g \notin reserved
    <3>1. PICK c \in Calls : CommitBudget(c)
      BY <1>1, <2>2, Writes DEF Written
    <3>2. g = GrantOf[c] /\ grantNonce[g] = c /\ c # NoCall
      BY <1>1, <2>2, <3>1, Reservation, GatewayAssumption
      DEF CommitBudget, Owned, Holding
    <3> QED BY <3>2, <1>0, NoncesStay
  <2> QED BY <2>1, <2>2
<1>2. ASSUME NEW c \in Calls, pc'[c] \in {"reserve", "commit"}
      PROVE GrantOf[c] \notin reserved'
  <2>1. GrantOf[c] \notin reserved
    <3>1. CASE pc[c] \in {"reserve", "commit"}
      BY <3>1 DEF Accounted
    <3>2. CASE pc[c] \notin {"reserve", "commit"}
      <4>1. ClaimGrant(c)
        BY <1>2, <3>2, Entries DEF Entered, LockBudget
      <4> QED BY <4>1, <1>2, <3>2 DEF ClaimGrant, Unclaimed, Accounted, End, Goto, TypeOK
    <3> QED BY <3>1, <3>2
  <2>2. ASSUME NEW d \in Calls, CommitBudget(d) PROVE GrantOf[c] \notin reserved'
    <3>1. d # c
      BY <1>2, <2>2, Reservation
    <3>2. pc[c] \in {"reserve", "commit"} /\ pc[d] = "commit"
      BY <2>2, <3>1, <1>2 DEF CommitBudget, End, Goto, TypeOK
    <3>3. GrantOf[c] # GrantOf[d]
      BY <3>1, <3>2 DEF Owned, Holding
    <3> QED BY <2>1, <2>2, <3>3, Reservation
  <2> QED BY <2>1, <2>2, Writes DEF Written
<1>3. ASSUME NEW c \in Calls, pc'[c] \in Charged \/ c \in effects'
      PROVE Req(c).task = NoTask \/ GrantOf[c] \in reserved'
  <2>0. reserved \subseteq reserved'
    BY Reservation, Writes DEF Written
  <2>1. CASE pc[c] \in Charged \/ c \in effects
    BY <2>0, <2>1 DEF Accounted
  <2>2. CASE pc[c] \notin Charged /\ c \notin effects
    <3>1. c \notin effects'
      BY <2>2, Writes DEF Written, PerformEffect, Block, Charged, Evidenced
    <3>2. pc'[c] \in Charged /\ Entered(c)
      BY <1>3, <2>2, <3>1, Entries
    <3>3. ClaimGrant(c) \/ CommitBudget(c)
      BY <3>2, <2>2
      DEF Entered, Charged, Evidenced, IssueLease, VerifyLease, ConsumeLease, FirstFence,
          Fence, AuditAdmission, FinalFence, PerformEffect, AuditResult
    <3>4. CASE ClaimGrant(c)
      BY <3>2, <3>4 DEF ClaimGrant, End, Goto, TypeOK, Charged, Evidenced
    <3>5. CASE CommitBudget(c)
      BY <3>2, <3>5, Reservation DEF Charged, Evidenced
    <3> QED BY <3>3, <3>4, <3>5
  <2> QED BY <2>1, <2>2
<1> QED BY <1>0, <1>1, <1>2, <1>3 DEF Accounted

LEMMA AlwaysAccounted == Spec => []AccountInv
<1>1. Init => Accounted
  BY DEF Init, Accounted, Charged, Evidenced
<1>2. AccountInv <=> (TypeOK /\ Owned /\ ChargesATask /\ Accounted)
  BY DEF AccountInv
<1>3. Typed => ChargesATask
  BY DEF Typed
<1> QED BY <1>1, <1>2, <1>3, StepKeepsAccounts, AlwaysTyped, TypeCorrect, AlwaysOwned, PTL
        DEF Spec

\* An effect that has a task has a reservation of that task's budget.
THEOREM EffectsPay == Spec => []EffectsAreCharged
<1>1. AccountInv => EffectsAreCharged
  BY DEF AccountInv, Accounted, TypeOK, EffectsAreCharged
<1> QED BY <1>1, AlwaysAccounted, PTL

Attested == \A c \in Calls :
  pc[c] \in Evidenced \/ c \in effects => <<c, "effect_admission">> \in audit

LEMMA AuditOnlyGrows == [Next]_vars => audit \subseteq audit'
BY DEF Next, vars, tables, calls, world, Step, Authorize, ExecuteExternal, Sweep, SetInterlock,
   Tick, Freeze, Review, BeginDirect, BeginSubmit, LookupApproval, ReadInterlock, Validate,
   ClaimApproval, ClaimGrant, LockBudget, CommitBudget, IssueLease, VerifyLease,
   ConsumeLease, FirstFence, FinalFence, Fence, AuditAdmission, PerformEffect, AuditResult,
   StoreError, Crash, FaultHappens, Block, Record

LEMMA AlwaysAttested == Spec => []Attested
<1> USE DEF Evidenced
<1>1. Init => Attested
  BY DEF Init, Attested
<1>2. TypeOK /\ Attested /\ [Next]_vars => Attested'
  <2> SUFFICES ASSUME TypeOK, Attested, [Next]_vars, NEW c \in Calls,
                      pc'[c] \in Evidenced \/ c \in effects'
               PROVE <<c, "effect_admission">> \in audit'
    BY DEF Attested
  <2>1. CASE pc[c] \in Evidenced \/ c \in effects
    BY <2>1, AuditOnlyGrows DEF Attested
  <2>2. CASE pc[c] \notin Evidenced /\ c \notin effects
    <3>1. c \notin effects'
      BY <2>2, Writes DEF Written, PerformEffect, Block
    <3>2. AuditAdmission(c)
      BY <2>2, <3>1, Entries DEF Entered, FinalFence, Fence, PerformEffect, AuditResult
    <3> QED BY <3>2 DEF AuditAdmission, Record
  <2> QED BY <2>1, <2>2
<1> QED BY <1>1, <1>2, TypeCorrect, PTL DEF Spec

\* Whatever fails, no effect comes before the record of its admission.
THEOREM EvidenceFirst == Spec => []EvidenceComesFirst
<1>1. Attested /\ TypeOK => EvidenceComesFirst
  BY DEF Attested, TypeOK, EvidenceComesFirst
<1> QED BY <1>1, AlwaysAttested, TypeCorrect, PTL

\* A switch that is on holds every call short of its effect.
THEOREM SwitchesStop == Spec => StopFences
<1>1. TypeOK /\ [Next]_vars =>
        [interlock # {} => \A c \in Calls : pc'[c] = "effect" => pc[c] = "effect"]_vars
  <2> SUFFICES ASSUME TypeOK, [Next]_vars, interlock # {}, NEW c \in Calls, pc'[c] = "effect"
               PROVE pc[c] = "effect"
    OBVIOUS
  <2>1. CASE FinalFence(c)
    BY <2>1 DEF FinalFence, Fence, Block, End, Goto, TypeOK
  <2> QED BY <2>1, Entries DEF Entered
<1> QED BY <1>1, TypeCorrect, PTL DEF Spec, StopFences

-----------------------------------------------------------------------------
(* A lease ends with the grant and the approval it rests on. *)

Unleased == {"claim_approval", "claim_grant", "reserve", "commit", "lease"}

\* When the lifetimes a call relies on are fixed, and how they are ordered.
Timed == \A c \in Calls :
  LET g == GrantOf[c] IN
  /\ pc[c] = "idle" => leaseExpires[c] = Never
  /\ pc[c] # "idle" /\ g \in Frozen => approval[g] # "none"
  /\ pc[c] \in LookedUp /\ g \in Frozen => grantExpires[g] <= approvalExpires[g]
  /\ pc[c] \in Unleased => asOf[c] < grantExpires[g]
  /\ leaseExpires[c] # Never =>
       /\ leaseExpires[c] <= grantExpires[g]
       /\ g \in Frozen => leaseExpires[c] <= approvalExpires[g]

LEMMA RowsStay ==
  ASSUME TypeOK, [Next]_vars, NEW g \in Grants, approval[g] # "none"
  PROVE approval'[g] # "none"
<1>1. CASE Sweep \/ \E c \in Calls : BeginSubmit(c)
  BY <1>1 DEF Sweep, BeginSubmit, Swept
<1>2. ASSUME NEW h \in Grants, Freeze(h) PROVE approval'[g] # "none"
  BY <1>2 DEF Freeze, TypeOK
<1>3. ASSUME NEW h \in Grants, NEW u \in Users, NEW v \in {"approved", "denied"},
             Review(u, h, v)
      PROVE approval'[g] # "none"
  BY <1>3 DEF Review, Swept
<1> QED BY <1>1, <1>2, <1>3, Writes DEF Written

LEMMA ExpiriesStay ==
  ASSUME TypeOK, Timed, [Next]_vars, NEW c \in Calls, pc[c] # "idle"
  PROVE /\ grantExpires'[GrantOf[c]] = grantExpires[GrantOf[c]]
        /\ GrantOf[c] \in Frozen =>
             approvalExpires'[GrantOf[c]] = approvalExpires[GrantOf[c]]
<1> DEFINE g == GrantOf[c]
<1>0. g \in Grants /\ (g \in Frozen => approval[g] # "none")
  BY RequestTypes DEF Timed
<1>1. ASSUME NEW d \in Calls, BeginDirect(d) PROVE grantExpires'[g] = grantExpires[g]
  <2>1. GrantOf[d] # g
    BY <1>1, FreshNonces DEF BeginDirect
  <2> QED BY <1>0, <1>1, <2>1, RequestTypes DEF BeginDirect, TypeOK
<1>2. ASSUME NEW h \in Grants, Freeze(h)
      PROVE /\ grantExpires'[g] = grantExpires[g]
            /\ g \in Frozen => approvalExpires'[g] = approvalExpires[g]
  <2>1. h # g
    BY <1>0, <1>2 DEF Freeze
  <2> QED BY <1>0, <1>2, <2>1 DEF Freeze, TypeOK
<1> QED BY <1>1, <1>2, Writes DEF Written

LEMMA StepKeepsTimes == TypeOK /\ Timed /\ [Next]_vars => Timed'
<1> SUFFICES ASSUME TypeOK, Timed, [Next]_vars, NEW c \in Calls
             PROVE LET g == GrantOf[c] IN
                   /\ pc'[c] = "idle" => leaseExpires'[c] = Never
                   /\ pc'[c] # "idle" /\ g \in Frozen => approval'[g] # "none"
                   /\ pc'[c] \in LookedUp /\ g \in Frozen
                        => grantExpires'[g] <= approvalExpires'[g]
                   /\ pc'[c] \in Unleased => asOf'[c] < grantExpires'[g]
                   /\ leaseExpires'[c] # Never =>
                        /\ leaseExpires'[c] <= grantExpires'[g]
                        /\ g \in Frozen => leaseExpires'[c] <= approvalExpires'[g]
  BY DEF Timed
<1> DEFINE g == GrantOf[c]
<1> USE DEF LookedUp, Validated, Holding, Charged, Evidenced, Unleased
<1>0. g \in Grants
  BY RequestTypes
<1>1. leaseExpires'[c] # leaseExpires[c] => IssueLease(c)
  BY Writes DEF Written, IssueLease, TypeOK
<1>2. asOf'[c] # asOf[c] => Validate(c)
  BY Writes DEF Written, Validate, TypeOK
<1>3. pc'[c] = "idle" => leaseExpires'[c] = Never
  <2>1. pc'[c] = "idle" => pc[c] = "idle"
    BY Entries DEF Entered
  <2> QED BY <2>1, <1>1 DEF IssueLease, Timed
<1>4. pc'[c] # "idle" /\ g \in Frozen => approval'[g] # "none"
  <2>1. CASE pc[c] # "idle"
    BY <1>0, <2>1, RowsStay DEF Timed
  <2>2. ASSUME pc[c] = "idle", pc'[c] # "idle", g \in Frozen PROVE approval[g] # "none"
    <3>1. BeginSubmit(c) \/ BeginDirect(c)
      BY <2>2, Entries DEF Entered
    <3> QED BY <2>2, <3>1 DEF BeginSubmit, BeginDirect
  <2> QED BY <1>0, <2>1, <2>2, RowsStay
<1>5. pc'[c] \in LookedUp /\ g \in Frozen => grantExpires'[g] <= approvalExpires'[g]
  <2>1. CASE pc[c] \in LookedUp
    BY <2>1, ExpiriesStay DEF Timed
  <2>2. ASSUME pc[c] \notin LookedUp, pc'[c] \in LookedUp, g \in Frozen
        PROVE pc[c] # "idle" /\ grantExpires[g] <= approvalExpires[g]
    <3>1. LookupApproval(c)
      BY <2>2, Entries
      DEF Entered, BeginDirect, ReadInterlock, Validate, ClaimApproval, ClaimGrant,
          LockBudget, CommitBudget, IssueLease, VerifyLease, ConsumeLease, FirstFence,
          Fence, AuditAdmission, FinalFence, PerformEffect, AuditResult
    <3> QED BY <2>2, <3>1 DEF LookupApproval, Submittable, End, Goto, TypeOK
  <2> QED BY <2>1, <2>2, ExpiriesStay
<1>6. pc'[c] \in Unleased => asOf'[c] < grantExpires'[g]
  <2>1. CASE pc[c] \in Unleased
    BY <2>1, <1>2, ExpiriesStay DEF Timed, Validate
  <2>2. ASSUME pc[c] \notin Unleased, pc'[c] \in Unleased
        PROVE pc[c] # "idle" /\ asOf'[c] < grantExpires[g]
    <3>1. Validate(c)
      BY <2>2, Entries DEF Entered, ClaimApproval, ClaimGrant, LockBudget, CommitBudget
    <3> QED BY <2>2, <3>1 DEF Validate, Admissible, End, Goto, TypeOK
  <2> QED BY <2>1, <2>2, ExpiriesStay
<1>7. leaseExpires'[c] # Never =>
        /\ leaseExpires'[c] <= grantExpires'[g]
        /\ g \in Frozen => leaseExpires'[c] <= approvalExpires'[g]
  <2>1. CASE leaseExpires'[c] = leaseExpires[c]
    BY <2>1, ExpiriesStay DEF Timed
  <2>2. CASE IssueLease(c)
    <3>1. pc[c] = "lease" /\ asOf[c] < grantExpires[g]
      BY <2>2 DEF IssueLease, Timed
    <3>2. asOf[c] \in Int /\ grantExpires[g] \in Int /\ LeaseTtl \in Int
      BY <1>0, GatewayAssumption DEF TypeOK, Times
    <3>3. leaseExpires'[c] <= grantExpires[g]
      BY <2>2, <3>1, <3>2 DEF IssueLease, Lesser, Greater, TypeOK
    <3>4. g \in Frozen => grantExpires[g] <= approvalExpires[g] /\ approvalExpires[g] \in Int
      BY <1>0, <3>1 DEF Timed, TypeOK, Times
    <3>5. leaseExpires'[c] \in Int
      BY <2>2, <3>2 DEF IssueLease, Lesser, Greater, TypeOK
    <3> QED BY <3>1, <3>2, <3>3, <3>4, <3>5, ExpiriesStay
  <2> QED BY <2>1, <2>2, <1>1
<1> QED BY <1>3, <1>4, <1>5, <1>6, <1>7

\* For any three lifetimes, however late the lease is issued.
THEOREM LeasesEnd == Spec => []LeaseWithinGrant
<1>1. Init => Timed
  BY DEF Init, Timed, LookedUp, Validated, Holding, Charged, Evidenced, Unleased
<1>2. Timed => LeaseWithinGrant
  BY DEF Timed, LeaseWithinGrant
<1> QED BY <1>1, <1>2, StepKeepsTimes, TypeCorrect, PTL DEF Spec

-----------------------------------------------------------------------------
(* The gateway implements EffectGate. *)

GateInv == Typed /\ Owned /\ Accounted /\ Vetted /\ LockHeld

\* What the refinement maps the abstract variables to.
ApprovedGrants == {g \in Grants : approval[g] = "approved"}
SpentGrants == {g \in Grants : grantNonce[g] # NoCall}
EffectPairs == {<<GrantOf[c], c>> : c \in effects}

LEMMA ClaimSpends ==
  ASSUME GateInv, NEW c \in Calls, ClaimGrant(c)
  PROVE Promise!Spend(GrantOf[c]) \/ UNCHANGED Promise!gateVars
<1> USE DEF GateInv, Typed
<1> DEFINE g == GrantOf[c]
<1>0. g \in Grants /\ c # NoCall /\ UNCHANGED <<approval, reserved, used, effects>>
  BY RequestTypes, GatewayAssumption DEF ClaimGrant, world
<1>1. CASE grantNonce[g] # NoCall
  BY <1>0, <1>1 DEF ClaimGrant, Unclaimed, Promise!gateVars
<1>2. CASE grantNonce[g] = NoCall
  <2>1. grantNonce' = [grantNonce EXCEPT ![g] = c]
    BY <1>2 DEF ClaimGrant, Unclaimed
  <2>2. SpentGrants' = SpentGrants \cup {g} /\ g \notin SpentGrants
    BY <1>0, <1>2, <2>1 DEF TypeOK, SpentGrants
  <2>3. g \in Sensitive => g \in ApprovedGrants
    BY <1>0 DEF ClaimGrant, Vetted, Validated, LookedUp, ApprovedGrants
  <2> QED BY <1>0, <2>2, <2>3
          DEF Promise!Spend, Promise!Permitted, SpentGrants, ApprovedGrants
<1> QED BY <1>1, <1>2

LEMMA CommitCharges ==
  ASSUME GateInv, NEW c \in Calls, CommitBudget(c)
  PROVE Promise!Charge(GrantOf[c]) \/ UNCHANGED Promise!gateVars
<1> USE DEF GateInv, Typed
<1> DEFINE g == GrantOf[c]
           t == Request[g].task
<1>0. /\ UNCHANGED <<approval, grantNonce, effects>> /\ g \in Grants /\ c # NoCall
      /\ t \in Tasks /\ t # NoTask
  BY RequestTypes, GatewayAssumption DEF CommitBudget, world, ChargesATask, Req
<1>1. CASE ~Fits(c)
  BY <1>0, <1>1 DEF CommitBudget, Promise!gateVars
<1>2. CASE Fits(c)
  <2>1. grantNonce[g] = c /\ g \notin reserved
    BY DEF CommitBudget, Owned, Accounted, Holding
  <2>2. \A u \in Units : used[t][u] + Request[g].reserve[u] <= Budget[t][u]
    BY <1>2 DEF CommitBudget, LockHeld, Fits, Req
  <2>3. /\ used' = [used EXCEPT ![t] = [u \in Units |-> used[t][u] + Request[g].reserve[u]]]
        /\ reserved' = reserved \cup {g}
    BY <1>2 DEF CommitBudget, Req
  <2>4. [h \in Grants |-> Request[h].task][g] = t
        /\ [h \in Grants |-> Request[h].reserve][g] = Request[g].reserve
    BY <1>0
  <2> QED BY <1>0, <2>1, <2>2, <2>3, <2>4 DEF Promise!Charge
<1> QED BY <1>1, <1>2

LEMMA EffectIsTaken ==
  ASSUME GateInv, NEW c \in Calls, PerformEffect(c)
  PROVE Promise!TakeEffect(GrantOf[c], c) \/ UNCHANGED Promise!gateVars
<1> USE DEF GateInv, Typed
<1> DEFINE g == GrantOf[c]
<1>0. /\ UNCHANGED <<approval, grantNonce, reserved, used>> /\ g \in Grants /\ c # NoCall
      /\ effects' \in {effects, effects \cup {c}}
  BY RequestTypes, GatewayAssumption DEF PerformEffect, tables
<1>1. CASE effects' = effects
  BY <1>0, <1>1 DEF Promise!gateVars
<1>2. CASE effects' = effects \cup {c} /\ c \notin effects
  <2>1. EffectPairs' = EffectPairs \cup {<<g, c>>}
    BY <1>2 DEF EffectPairs
  <2>2. \A p \in Calls : <<g, p>> \notin EffectPairs
    BY <1>2 DEF PerformEffect, Owned, Holding, Charged, Evidenced, EffectPairs
  <2>3. grantNonce[g] = c /\ (g \in Sensitive => approval[g] = "approved")
    BY DEF PerformEffect, Owned, Vetted, Holding, Charged, Evidenced, Validated, LookedUp
  <2>4. Request[g].task # NoTask => g \in reserved
    BY DEF PerformEffect, Accounted, Charged, Evidenced, Req
  <2> QED BY <1>0, <2>1, <2>2, <2>3, <2>4
          DEF Promise!TakeEffect, Promise!Unused, Promise!Permitted, Promise!Covered,
              EffectPairs
<1> QED BY <1>0, <1>1, <1>2

LEMMA ReviewApproves ==
  ASSUME TypeOK, NEW u \in Users, NEW g \in Grants, NEW v \in {"approved", "denied"},
         Review(u, g, v)
  PROVE Promise!Approve(g) \/ UNCHANGED Promise!gateVars
<1>0. UNCHANGED <<grantNonce, reserved, used, effects>>
  BY DEF Review, world
<1>1. ApprovedGrants' \in {ApprovedGrants, ApprovedGrants \cup {g}}
  BY DEF Review, Swept, ApprovedGrants, TypeOK
<1> QED BY <1>0, <1>1 DEF Promise!Approve, Promise!gateVars, ApprovedGrants

LEMMA GateStep == GateInv /\ [Next]_vars => [Promise!Next]_(Promise!gateVars)
<1> SUFFICES ASSUME GateInv, [Next]_vars
             PROVE Promise!Next \/ UNCHANGED Promise!gateVars
  OBVIOUS
<1>0. TypeOK
  BY DEF GateInv, Typed
<1>1. CASE \E c \in Calls : ClaimGrant(c) \/ CommitBudget(c) \/ PerformEffect(c)
  BY <1>1, ClaimSpends, CommitCharges, EffectIsTaken, RequestTypes DEF Promise!Next
<1>2. CASE \E u \in Users, g \in Grants, v \in {"approved", "denied"} : Review(u, g, v)
  BY <1>0, <1>2, ReviewApproves DEF Promise!Next
<1>3. CASE ~ \/ \E c \in Calls : ClaimGrant(c) \/ CommitBudget(c) \/ PerformEffect(c)
             \/ \E u \in Users, g \in Grants, v \in {"approved", "denied"} : Review(u, g, v)
  <2>1. UNCHANGED <<grantNonce, reserved, used, effects>>
    BY <1>3, Writes DEF Written
  <2>2. ApprovedGrants' = ApprovedGrants
    <3>1. CASE Sweep \/ \E c \in Calls : BeginSubmit(c)
      BY <1>0, <3>1 DEF Sweep, BeginSubmit, Swept, ApprovedGrants, TypeOK
    <3>2. ASSUME NEW g \in Grants, Freeze(g) PROVE ApprovedGrants' = ApprovedGrants
      BY <1>0, <3>2 DEF Freeze, ApprovedGrants, TypeOK
    <3> QED BY <1>3, <3>1, <3>2, Writes DEF Written, ApprovedGrants
  <2> QED BY <2>1, <2>2 DEF Promise!gateVars, ApprovedGrants
<1> QED BY <1>1, <1>2, <1>3

\* Every behaviour of the gateway is one of EffectGate, for any instance.
THEOREM GatewayKeepsPromise == Spec => KeepsPromise
<1>1. Init => Promise!Init
  BY DEF Init, Promise!Init
<1>2. GateInv <=> (Typed /\ Owned /\ Accounted /\ Vetted /\ LockHeld)
  BY DEF GateInv
<1>3. AccountInv => Accounted
  BY DEF AccountInv
<1>4. BudgetInv => LockHeld
  BY DEF BudgetInv
<1> QED BY <1>1, <1>2, <1>3, <1>4, GateStep, AlwaysTyped, AlwaysOwned, AlwaysAccounted,
        AlwaysVetted, AlwaysInBudget, PTL
        DEF Spec, KeepsPromise, Promise!Spec
=============================================================================
