----------------------------- MODULE EffectGate -----------------------------
(***************************************************************************)
(* What the policy gateway of gnw/src/server promises about external       *)
(* effects, with no interleaving, clock, lease or nonce table in sight:    *)
(*                                                                         *)
(*   - a grant is spent at most once, and has at most one effect;          *)
(*   - an action that needs a human has an effect only once a human has    *)
(*     approved it;                                                        *)
(*   - the effects of a task never outgrow the budget of the task.         *)
(*                                                                         *)
(* Gateway.tla is the detailed specification that implements this one.     *)
(***************************************************************************)
EXTENDS Integers, FiniteSets

CONSTANTS Grants,      \* grants, named by their nonce
          Sensitive,   \* the grants that need a human approval
          Tasks,       \* tasks with a budget
          TaskOf,      \* the task each grant is charged to
          NoTask,      \* the "task" of a grant that is charged to none
          Units,       \* what a budget is counted in
          Cost,        \* what each grant reserves, per unit
          Budget,      \* the ceiling of each task, per unit
          Performers   \* who may carry an effect out

VARIABLES approved,    \* grants a human has approved
          spent,       \* grants whose nonce is gone
          charged,     \* grants with a budget reservation
          used,        \* what each task has reserved, per unit
          effected     \* the effects let through, each a grant and its performer

gateVars == <<approved, spent, charged, used, effected>>

Covered(g) == TaskOf[g] # NoTask => g \in charged
Permitted(g) == g \in Sensitive => g \in approved

Init ==
  /\ approved = {}
  /\ spent = {}
  /\ charged = {}
  /\ used = [t \in Tasks |-> [u \in Units |-> 0]]
  /\ effected = {}

Approve(g) ==
  /\ approved' = approved \cup {g}
  /\ UNCHANGED <<spent, charged, used, effected>>

Spend(g) ==
  /\ g \notin spent
  /\ Permitted(g)
  /\ spent' = spent \cup {g}
  /\ UNCHANGED <<approved, charged, used, effected>>

Charge(g) ==
  LET t == TaskOf[g] IN
  /\ t # NoTask
  /\ g \in spent \ charged
  /\ \A u \in Units : used[t][u] + Cost[g][u] <= Budget[t][u]
  /\ used' = [used EXCEPT ![t] = [u \in Units |-> used[t][u] + Cost[g][u]]]
  /\ charged' = charged \cup {g}
  /\ UNCHANGED <<approved, spent, effected>>

Unused(g) == \A p \in Performers : <<g, p>> \notin effected

TakeEffect(g, p) ==
  /\ g \in spent
  /\ Unused(g)
  /\ Permitted(g)
  /\ Covered(g)
  /\ effected' = effected \cup {<<g, p>>}
  /\ UNCHANGED <<approved, spent, charged, used>>

Next == \E g \in Grants : \/ Approve(g) \/ Spend(g) \/ Charge(g)
                          \/ \E p \in Performers : TakeEffect(g, p)

Spec == Init /\ [][Next]_gateVars
=============================================================================
