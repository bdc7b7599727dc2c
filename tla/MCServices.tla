----------------------------- MODULE MCServices -----------------------------
(***************************************************************************)
(* The components beside the gateway, each in every behaviour of its own.  *)
(* They share no state, so their steps commute and one run can take them   *)
(* one at a time: part says which component moves, the others stay as they *)
(* start, in one of their initial states.                                  *)
(***************************************************************************)
EXTENDS TLC, Accounts, QuorumEngine, TrajectoryMonitor, TaskSandbox, Dispatch, SecretBroker,
        VectorMemory

CONSTANTS alice, bob, j1, j2, src, dst, script, anywhere

VARIABLE part    \* the component of this behaviour

-----------------------------------------------------------------------------
(* Accounts: three logins at once; two registrations, beside a start of the server if
   anybody may register; a start, a registration and a login; a whole session. *)
Ask(op, email) == [op |-> op, email |-> email]
Plan(self, body, asks) == [selfRegistration |-> self, bodyTokens |-> body, asks |-> asks]
MCPlans ==
  {Plan(FALSE, FALSE, <<Ask("login", alice), Ask("login", alice), Ask("login", alice)>>),
   Plan(TRUE, FALSE, <<Ask("register", alice), Ask("register", bob), Ask("boot", alice)>>),
   Plan(FALSE, FALSE, <<Ask("register", alice), Ask("register", bob)>>),
   Plan(FALSE, FALSE, <<Ask("boot", alice), Ask("register", alice), Ask("login", alice)>>),
   Plan(FALSE, TRUE, <<Ask("register", alice), Ask("login", alice), Ask("logout", alice),
                       Ask("call", alice)>>)}

(* Quorum: a harmless action with a reason, a destructive one without; a proposer who may
   veto, and judges who say yes or no. *)
Vote(approve, veto) == [approve |-> approve, veto |-> veto]
MCActions == {[destructive |-> FALSE, forbidden |-> FALSE, justified |-> TRUE],
              [destructive |-> TRUE, forbidden |-> TRUE, justified |-> FALSE]}
MCBallots == [coder_proposer |-> {Vote(TRUE, FALSE), Vote(FALSE, TRUE)},
              security_auditor |-> {Vote(TRUE, FALSE), Vote(FALSE, FALSE)},
              chief_justice |-> {Vote(TRUE, FALSE), Vote(FALSE, FALSE)}]

(* Monitor: two tools, one that names a file. *)
MCToolCalls == {[tool |-> "a", hash |-> 1, path |-> "p"], [tool |-> "b", hash |-> 1, path |-> anywhere]}

(* Sandbox: a trial beside a write of a file that is text, binary or not there, with each
   kind of command; two trials; a trial that makes a file beside one that is there; two
   scripts of one millisecond; a command that hangs on beside a script. *)
Does(kind, starts) == [kind |-> kind, file |-> src, starts |-> starts]
Both(first, second, found) == [errand |-> j1 :> first @@ j2 :> second, files |-> found]
MCInstances ==
  {Both(Does("trial", starts), Does("write", "plain"), src :> content) :
     starts \in Starts, content \in {"old", "binary", Absent}}
  \cup {Both(Does("trial", "plain"), Does("trial", "plain"), src :> "old"),
        Both(Does("trial", "plain"), Does("write", "plain"), src :> Absent @@ dst :> "old"),
        Both(Does("python", "plain"), Does("python", "plain"), script :> Absent),
        Both(Does("command", "piped"), Does("python", "daemon"), src :> "old" @@ script :> Absent)}

(* Dispatch: every offer alone, and every tool after a reading of a file. *)
ReadFile == CHOOSE o \in ExecuteRoute : o.tool = "file.read"
MCOrders == {<<o>> : o \in Offers} \cup {<<ReadFile, o>> : o \in ToolOffers}

-----------------------------------------------------------------------------
allVars == <<accountsVars, quorumVars, monitorVars, sandboxVars, dispatchVars, brokerVars, memoryVars>>

Parts == {"accounts", "quorum", "monitor", "sandbox", "dispatch", "broker", "memory"}

\* The initial state of a component that does not move in this run.
StillAccounts == settings.bodyTokens
StillMonitor == \A n \in Flights : flight <= n
StillSandbox == errand[j2].kind = "trial"
StillDispatch == orders = <<ReadFile>> /\ restricted

Init ==
  /\ part \in Parts
  /\ AccountsInit /\ (part # "accounts" => StillAccounts)
  /\ QuorumInit
  /\ MonitorInit /\ (part # "monitor" => StillMonitor)
  /\ SandboxInit /\ (part # "sandbox" => StillSandbox)
  /\ DispatchInit /\ (part # "dispatch" => StillDispatch)
  /\ BrokerInit
  /\ MemoryInit

Rest(p) ==
  /\ part' = part
  /\ p # "accounts" => UNCHANGED accountsVars
  /\ p # "quorum" => UNCHANGED quorumVars
  /\ p # "monitor" => UNCHANGED monitorVars
  /\ p # "sandbox" => UNCHANGED sandboxVars
  /\ p # "dispatch" => UNCHANGED dispatchVars
  /\ p # "broker" => UNCHANGED brokerVars
  /\ p # "memory" => UNCHANGED memoryVars

Next ==
  \/ part = "accounts" /\ AccountsNext /\ Rest("accounts")
  \/ part = "quorum" /\ QuorumNext /\ Rest("quorum")
  \/ part = "monitor" /\ MonitorNext /\ Rest("monitor")
  \/ part = "sandbox" /\ SandboxNext /\ Rest("sandbox")
  \/ part = "dispatch" /\ DispatchNext /\ Rest("dispatch")
  \/ part = "broker" /\ BrokerNext /\ Rest("broker")
  \/ part = "memory" /\ MemoryNext /\ Rest("memory")

SandboxProgress(j) == part = "sandbox" /\ SandboxStep(j) /\ Rest("sandbox")
TimerProgress(j) == part = "sandbox" /\ Timeout(j) /\ Rest("sandbox")

Spec ==
  /\ Init /\ [][Next]_<<allVars, part>>
  /\ \A j \in Jobs : WF_sandboxVars(SandboxProgress(j)) /\ WF_sandboxVars(TimerProgress(j))

\* Every component holds what it is declared to hold.
TypeOK ==
  /\ AccountsTypeOK /\ QuorumTypeOK /\ MonitorTypeOK /\ SandboxTypeOK /\ DispatchTypeOK
  /\ BrokerTypeOK /\ MemoryTypeOK
=============================================================================
