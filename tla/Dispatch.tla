------------------------------ MODULE Dispatch ------------------------------
(***************************************************************************)
(* The routes that run a governed tool or a skill on a task: from the      *)
(* request, through the grant the route builds and the policy, to the      *)
(* wrapper that takes the lease to executeExternal, or to the registry     *)
(* that looks at the lease of a skill itself. Routes, wrappers and skills  *)
(* are the tables of Catalog.                                              *)
(*                                                                         *)
(* authorize and executeExternal, whose statements are the actions of      *)
(* Gateway, take one step each here for what they do at once: the policy   *)
(* decides and reserves, the executor verifies, spends the lease, fences,  *)
(* runs the effect. Time passes, and the interlock is switched, between    *)
(* any two steps.                                                          *)
(***************************************************************************)
EXTENDS Naturals, FiniteSets, Catalog

CONSTANTS
  Orders,        \* instances: what each call asks for
  LeaseTtl,      \* CAPABILITY_LEASE_TTL_MS, in ticks
  Affordable,    \* how many reservations the budget of the task covers
  MaxElapse        \* ticks that pass (bound)

ASSUME DispatchAssumption ==
  /\ LeaseTtl \in Nat \ {0} /\ Affordable \in Nat /\ MaxElapse \in Nat
  /\ \A order \in Orders : \A c \in DOMAIN order : order[c] \in Offers

VARIABLES
  orders,      \* call -> the offer it asks for
  restricted,  \* the classification of the task is "restricted"
  stopped,     \* the kill switch or the circuit is on
  time,
  reserved,    \* reservations on the budget of the task
  leases,      \* call -> the lease the policy gave it, NoLease before
  spent,       \* calls whose lease is consumed
  stage,       \* call -> where it stands
  cause        \* call -> why it was refused

dispatchVars == <<orders, restricted, stopped, time, reserved, leases, spent, stage, cause>>

Askers == DOMAIN orders
NoLease == [capability |-> "none", named |-> FALSE, expires |-> 0]
Refusals == {"none", "no_task_or_input", "destructive_command_requires_human_approval",
             "safety_interlock", "tool_not_allowed", "approval_required",
             "aggregate_budget_exhausted", "invalid_capability_lease", "lapsed_lease",
             "capability_binding", "invalid_skill_parameters", "effect_failed"}
Stages == {"idle", "look_up", "screen", "authorize", "enter", "execute", "run_skill", "record",
           "answered", "refused"}

Stands(c, where) == stage[c] = where
Advance(c, where) == stage' = [stage EXCEPT ![c] = where] /\ UNCHANGED cause
Refuse(c, why) ==
  /\ stage' = [stage EXCEPT ![c] = "refused"]
  /\ cause' = [cause EXCEPT ![c] = why]
Still == UNCHANGED <<orders, restricted, stopped, time>>

DispatchInit ==
  /\ orders \in Orders
  /\ restricted \in BOOLEAN
  /\ stopped = FALSE /\ time = 0 /\ reserved = 0 /\ spent = {}
  /\ leases = [c \in Askers |-> NoLease]
  /\ stage = [c \in Askers |-> "idle"]
  /\ cause = [c \in Askers |-> "none"]

\* A request for a task of the workspace, with input of the declared form, or not.
Receive(c) ==
  /\ Stands(c, "idle")
  /\ Advance(c, "look_up")
  /\ Still /\ UNCHANGED <<reserved, leases, spent>>
FindTask(c) ==
  /\ Stands(c, "look_up")
  /\ Advance(c, "screen") \/ Refuse(c, "no_task_or_input")
  /\ Still /\ UNCHANGED <<reserved, leases, spent>>

\* analyzeCommandRisk finds a pattern in the command, or finds none. The route refuses it
\* except on a restricted task, where the policy asks for an approval; the wrapper,
\* which looks again at the same text, refuses it anyway.
IsCommand(c) == orders[c].runs = "runGovernedCommand"
Destructive(c) == IsCommand(c) /\ ~restricted
Screen(c) ==
  /\ Stands(c, "screen")
  /\ \/ Destructive(c) /\ Refuse(c, "destructive_command_requires_human_approval")
     \/ Advance(c, "authorize")
  /\ Still /\ UNCHANGED <<reserved, leases, spent>>

LeaseWithoutTtl(c) == [capability |-> orders[c].tool, named |-> orders[c].named, expires |-> time]
\* What the lease covers: the capability of the grant, which is its tool, and the
\* endpoint of its provider parameters.
LeaseFor(c) == [capability |-> orders[c].tool, named |-> orders[c].named, expires |-> time + LeaseTtl]

\* authorize, without an approval.
Authorize(c) ==
  LET o == orders[c] IN
  /\ Stands(c, "authorize")
  /\ IF stopped THEN Refuse(c, "safety_interlock") /\ UNCHANGED <<reserved, leases>>
     ELSE IF o.tool \notin ToolScopes[o.agent]
       THEN Refuse(c, "tool_not_allowed") /\ UNCHANGED <<reserved, leases>>
     ELSE IF restricted THEN Refuse(c, "approval_required") /\ UNCHANGED <<reserved, leases>>
     ELSE IF reserved = Affordable
       THEN Refuse(c, "aggregate_budget_exhausted") /\ UNCHANGED <<reserved, leases>>
     ELSE /\ reserved' = reserved + 1
          /\ leases' = [leases EXCEPT ![c] = LeaseFor(c)]
          /\ Advance(c, IF IsTool(o) THEN "enter" ELSE "run_skill")
  /\ Still /\ UNCHANGED spent

\* The wrapper before executeExternal: the command is looked at again, the script is
\* written into the sandbox, which may fail.
Enter(c) ==
  /\ Stands(c, "enter")
  /\ \/ Advance(c, "execute")
     \/ orders[c].runs = "runGovernedPython" /\ Refuse(c, "effect_failed")
  /\ Still /\ UNCHANGED <<reserved, leases, spent>>

Lapsed(c) == time >= leases[c].expires
\* The destination of the lease is the one the wrapper hands over, or both have none.
RightDestination(c) == leases[c].named <=> orders[c].runs \in Outbound

\* executeExternal with the capability the wrapper asks for: the lease is verified and
\* bound, spent, the interlock read; then the effect runs, which may fail.
ExecuteTool(c) ==
  /\ Stands(c, "execute")
  /\ IF Lapsed(c) THEN Refuse(c, "lapsed_lease") /\ UNCHANGED spent
     ELSE IF ~RightDestination(c) THEN Refuse(c, "invalid_capability_lease") /\ UNCHANGED spent
     ELSE IF leases[c].capability # AskedBy(orders[c].runs)
       THEN Refuse(c, "capability_binding") /\ UNCHANGED spent
     ELSE /\ spent' = spent \cup {c}
          /\ IF stopped THEN Refuse(c, "safety_interlock")
             ELSE Advance(c, "answered") \/ Refuse(c, "effect_failed")
  /\ Still /\ UNCHANGED <<reserved, leases>>

\* executeSkill: the lease is verified and compared with what the skill requires, its
\* parameters with its schema; the skill computes, and its post-condition is looked at.
\* The lease is not consumed, nor is the interlock read.
ExecuteSkill(c) ==
  LET s == SkillNamed(orders[c].runs) IN
  /\ Stands(c, "run_skill")
  /\ IF Lapsed(c) THEN Refuse(c, "lapsed_lease")
     ELSE IF leases[c].capability # s.capability THEN Refuse(c, "capability_binding")
     ELSE Advance(c, "record") \/ Refuse(c, "invalid_skill_parameters")
  /\ Still /\ UNCHANGED <<reserved, leases, spent>>

\* The row skill_executed precedes the answer; without it there is none.
RecordSkill(c) ==
  /\ Stands(c, "record")
  /\ Advance(c, "answered") \/ Refuse(c, "effect_failed")
  /\ Still /\ UNCHANGED <<reserved, leases, spent>>

ToggleInterlock ==
  /\ stopped' = ~stopped
  /\ UNCHANGED <<orders, restricted, time, reserved, leases, spent, stage, cause>>
Elapse ==
  /\ time < MaxElapse /\ time' = time + 1
  /\ UNCHANGED <<orders, restricted, stopped, reserved, leases, spent, stage, cause>>

DispatchNext ==
  \/ \E c \in Askers :
       \/ Receive(c) \/ FindTask(c) \/ Screen(c) \/ Authorize(c) \/ Enter(c)
       \/ ExecuteTool(c) \/ ExecuteSkill(c) \/ RecordSkill(c)
  \/ ToggleInterlock \/ Elapse

DispatchSpec == DispatchInit /\ [][DispatchNext]_dispatchVars

-----------------------------------------------------------------------------
\* The calls and their leases hold what they are declared to hold.
DispatchTypeOK ==
  /\ orders \in Orders
  /\ restricted \in BOOLEAN /\ stopped \in BOOLEAN
  /\ time \in 0 .. MaxElapse /\ reserved \in 0 .. Affordable
  /\ \A c \in Askers :
       leases[c] = NoLease \/ (/\ leases[c].capability \in ToolScopes[orders[c].agent]
                               /\ leases[c].expires \in LeaseTtl .. MaxElapse + LeaseTtl)
  /\ spent \subseteq Askers
  /\ stage \in [Askers -> Stages] /\ cause \in [Askers -> Refusals]

\* The offers no call can make good, whatever the task, the budget and the interlock.
NeverServed(o) ==
  \/ o.runs = "runGovernedBrowse"
  \/ o.tool \in {"command.run", "governance.status"}
  \/ o.agent = "analysis" /\ o.tool # "memory.query"
  \/ o.agent = "qa" /\ o.tool \in {"memory.query", "code.definition"}

\* The four places that have to agree on the name of a capability (the route, the scope
\* of the agent, the wrapper or the metadata of the skill, and the lease between them)
\* do: a call is refused over its tool, its destination or its capability only if it asks
\* for the fetch of a page or for one of the skills whose specialist may not use the
\* capability the skill requires; and none of those is ever answered.
LeasesFit ==
  \A c \in Askers :
    /\ cause[c] \in {"tool_not_allowed", "invalid_capability_lease", "capability_binding"}
         => NeverServed(orders[c])
    /\ stage[c] = "answered" => ~NeverServed(orders[c])
    /\ stage[c] = "answered" /\ IsTool(orders[c]) => c \in spent
=============================================================================
