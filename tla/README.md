# A verification of GNW, the governed agentic workspace

This directory models the server of `gnw/` in TLA+, checks it with TLC on small
instances and proves the properties that matter most with TLAPS. All paths
below are relative to the repository; `server/` stands for `gnw/src/server/`.

- [The system](#the-system): its parts, their state, how they interact, what is hard about them
- [The modules](#the-modules): what is modelled and how it corresponds to the code
- [The runs](#the-runs): what each check shows, its bounds, the fairness it assumes
- [Disagreements found](#disagreements-found)
- [The proofs](#the-proofs): what holds for every value of the constants, and why
- [What is not modelled](#what-is-not-modelled) and [what could come next](#what-could-come-next)

`tlc -config GatewaySafety.cfg MCGateway.tla` runs a check and
`tlapm GatewayProofs.tla` checks a proof; `PROJECT.json` lists all of them, with the lines
of the source every definition stands for and, for every property, a mutation of
the code that breaks it.

## The system

Users of a personal workspace ask for tasks. Agents (templates around a language
model) write their parts, and everything that touches the outside world goes
through one gate: a policy decision, a short-lived capability lease, and an
executor that consumes the lease once. An approval row lets a human stand in
between. Everything is recorded in a hash-chained audit table.

| Component | State it keeps | Operations |
|---|---|---|
| Policy gateway, `server/governance.ts` | nonces, interlock switches, budget reservations (tables) | `authorize`, `evaluateInterlock` |
| Lease and executor, `server/capability.ts`, `execution.ts` | `capability_leases` | `issueCapabilityLease`, `verifyCapabilityLease`, `executeExternal` |
| Database layer, `server/db/`, `repo.ts` | all tables, on SQLite or Postgres | `transaction`, guarded updates, unique indexes, `reserveBudget`, `claimNonce`, sweeps |
| Orchestrator, `server/orchestrator.ts` | tasks, agent runs | `runTask`, `runSpecialist`, `produceVideoPackage`, `buildGrant` |
| Video pipeline, `server/video.ts`, `notify.ts` | video jobs, artifacts, notifications | `submitApprovedVideoJob`, `completeVideoJob`, `pollVideoJob` |
| Routes, `server/app.ts`, `gnw/api/` | none of their own | review of approvals, interlock, submission, tools, accounts |
| Audit chain, `server/audit.ts` | `audit_events`, `audit_chain_state` | `appendAudit`, `verifyAuditChain`, `listAuditComplete` |
| Merkle proofs, `server/merkle.ts` | none | trees, proofs, signed bundles |
| Shadow council, `server/council/` | council tasks, transitions, findings, decisions | `runCouncilShadow`, `failClosed`, `evaluateShadowPolicy` |
| Accounts, `server/auth.ts` | users, sessions, login attempts | registration, first administrator, throttle, sessions |
| Quorum, `server/quorum.ts` and invariant monitor, `invariants.ts` | proposals, votes; a step history | `submitVote`, `adjudicate`; `recordStep`, `verify` |
| Sandbox, `server/sandbox/`, `executor-client.ts`, `gnw/src/executor/` | a directory and its snapshots | run, write, snapshot, speculative trial |
| Tools, `server/tools/`; skills, `server/skills/` | files, memories | wrappers behind the gateway |
| Secrets, storage, model, environment, guards | leases of secrets; none | adapters and pure functions |
| Client, `gnw/src/client/` | view state | calls the routes |
| Portable skills, `openclaw_portable/` (Python) | in-memory stores, JSON files | outreach with approvals, federated rounds, text tools |
| `mcp-desktop-commander/` | none | one file or command per request |

**Interactions.** A route calls `authorize` and hands what it returns to
`executeExternal` with a closure for the effect. `runTask` freezes a grant into an
approval row, the review route decides the row, and `submitApprovedVideoJob`
brings the frozen grant back through the same gate, possibly days later and on
another instance. All of them append to the one audit chain under the lock of one
row. The council reviews each task on the side; nothing reads its verdict to
permit anything.

**What is hard.** Every `await` is a point where another request, on this or
another instance, may run. On Postgres each statement of a handler is such a
point, and that is the case modelled: a step per statement, any interleaving.
(On SQLite a handler only yields at real asynchronous I/O, which allows fewer of
these behaviours.) A statement can fail, an answer can be lost, a process can die
between any two of them, the interlock can be switched, approvals, grants and
leases expire while they are carried about, and clients retry what they have
already submitted. `PROJECT.json` lists the hazards one by one, each at its line.

**What makes the components correct.**

- *Gateway*: a grant acts at most once; a sensitive effect has a human approval
  that still stands; no task outspends its budget; evidence precedes the effect;
  a lease ends before what it rests on; once a switch is on, nothing moves on to
  its effect; every call ends and releases the row it holds.
- *Video*: only an approved job runs; completion has its artifact; a denial
  sticks; an admitted job comes to an end; a retry changes nothing.
- *Audit*: however many writers append, the chain verifies; a change behind the
  program's back is noticed; proof bundles verify; nobody keeps the lock.
- *Council*: one review per key; completion backed by findings and a decision;
  the log tells the status; terminal states stay; every review ends.
- *Accounts*: who registers after somebody has an account does not become the first
  administrator; guesses sent at once get past the throttle by no more than there were
  under way; a logout whose cookie names its session ends it, whatever credentials later requests combine.
  (Not so: a logout by bearer, two first registrations at once, an empty cookie; disagreements 8 to 10.)
- *Quorum*: a result says APPROVED just when the last votes since the last registration say so.
- *Monitor*: agents that obey exceed no limit by more than the agents already past the check.
- *Sandbox*: a roll-back restores the files; a command that would run for ever is ended, unless
  something else holds its output (disagreement 7).
- *Tools and skills*: route, scope, wrapper and lease agree on what a call may do.
- *Secrets*: a lease of a retired version is not found valid. *Memory*: a tenant has one
  current belief about a subject, and sees no other tenant's.

## The modules

| Module | What it is |
|---|---|
| `EffectGate` | The abstract promise of the gateway: approve, spend, charge, take effect |
| `Gateway` | Detailed model of `authorize`, leases, the executor and their tables; implements `EffectGate` |
| `VideoLifecycle` | One video task: its run, its review, concurrent submissions; implements `EffectGate` too |
| `AuditChain` | `appendAudit` on many instances, `verifyAuditChain`, a change from outside |
| `ProofBundles` | The Merkle tree of a task's events and the bundles of their proofs (extends `AuditChain`) |
| `Council` | The shadow council, as concurrent runs of envelopes |
| `Accounts` | Accounts, workspaces, the login throttle, sessions and their check |
| `QuorumEngine` | Proposals, votes and adjudications of the quorum |
| `TrajectoryMonitor` | The limits on the steps of a task that several agents work on |
| `TaskSandbox` | Commands, scripts, writes and speculative trials in one sandbox |
| `Catalog` | What may be asked of the server: tools, routes, scopes, the fifty skills |
| `Dispatch` | A call of a tool or a skill from its route to its answer (extends `Catalog`) |
| `SecretBroker` | Leases on a secret, and the provider that rotates it |
| `VectorMemory` | The semantic memory behind `memory.store` and `memory.query` |
| `GatewayProofs`, `VideoProofs`, `CouncilProofs`, `AccountsProofs`, `SandboxProofs` | Theorems about the module they are named after (`Video`: `VideoLifecycle`, `Sandbox`: `TaskSandbox`) |
| `AuditChainProofs` | Theorems about `AuditChain` and `ProofBundles` |
| `CollectiveProofs` | Theorems about `QuorumEngine` and `TrajectoryMonitor` |
| `ServicesProofs` | Theorems about `Dispatch`, `SecretBroker`, `VectorMemory` and the composition `MCServices` |
| `MCGateway`, `MCVideo`, `MCAudit`, `MCCouncil` | Small instances for TLC |
| `MCServices` | The small instances of the eight modules from `Accounts` to `VectorMemory`, composed |

Definitions keep the names of the source where there is one (`requiresHumanApproval`,
`hashEvent`, `evaluateShadowPolicy`, `ALLOWED_TRANSITIONS`). An operator that no
specification uses and that stands before one of the same parameters
(`ReplacedBySubject` before `Replaced`) is a plausible bug of it: `PROJECT.json` pairs them
under `mutants`.

### Gateway

A *call* is one request for an effect. It presents a grant and goes through
the labels of `pc`, one per awaited statement:

| Code | Labels |
|---|---|
| `submitApprovedVideoJob` up to `authorize` | `lookup` |
| `authorize` | `interlock`, `validate`, `claim_approval`, `claim_grant`, `reserve`, `commit`, `lease` |
| `executeExternal` | `verify`, `consume`, `fence`, `admission`, `final_fence`, `effect`, `result` |

`validate` is the run of synchronous checks between two awaits, so it is one
action. `reserve`/`commit` are the transaction of `reserveBudget`: the row of
the task is locked, the sum is read, and the reservation is seen by others only
after the commit. `asOf` is the `now` that `authorize` reads once and uses for the lease
several statements later; `seen` is the sum read in the transaction. A grant is
its nonce: the signature, the digests and the parameters that bind it to
its action are what makes two grants different, so a tampered grant is
another grant. The first fence refuses a call whose URL is not in the allowlist of the
environment (`AllowedEgress`, `assertEgressUrl`). Frozen grants live in an approval row and may be presented by
any number of calls; others are built by the call that uses them (`FreshNonces`). `Sweep`,
`Review`, `SetInterlock` and `Tick` are the rest of the world; `StoreError`
and `Crash` are a failing statement, with the catch it meets, and a process that dies.

Workspaces are personal, so the reviewer of a request is the requester, and the
separation of duties in the review route then lets only administrators decide.
The model keeps that condition (`MayReview`).

### VideoLifecycle

One task with its four rows (`tasks`, `video_jobs`, `approvals`, `artifacts`) and the actors
that write them: the run that creates it (`Runner`), the review with its
three separate writes (`Review`, `StopJob`, `DenyTask`), and the submissions. The
gateway appears as `ReadInterlock` and `Admit`, which claims the approval nonce; what
those promise is the subject of `Gateway`. `InTry` is the try block of
`submitApprovedVideoJob`: a fault in it leads to `Catch`. A fault at the interlock or in the admission is a refusal
(`authorize` answers STOP or DENY, and the job is written accordingly); any other ends the request. `RealProvider` says whether `VIDEO_PROVIDER_URL` is set.

### AuditChain and ProofBundles

`Begin` takes the row lock of `audit_chain_state` and builds the row, `Insert` is invisible
until `Commit`, `Rollback` is a failing statement or a dying process. A
digest is the sequence it digests, which makes it collision-free by
construction; what it covers is exactly what `hashEvent` is given. `Tamper` is
one change of the table by something else, with a note (`evidence`) of whether
the walk of `verifyAuditChain` is to notice. `ProofBundles` builds the tree
of a task's rows level by level (`Tower`), with the last digest of an odd level paired
with itself. `exportAuditProofBundle` lists the rows of the task in one statement and walks the chain in
another, so it is given two tables, the first of which may be shorter; `verifyAuditProofBundle` checks
each proof (`Ascent`), the one root, the count and the flags. An inner digest is a term that begins with
`Node`, as the prefix `GNW-MERKLE-NODE-V1` has it, and is no digest of a row.

### Council

A *run* is one call of `runCouncilShadow`. Its labels are its statements; a
transition is named after the state it enters. Every statement may fail with no
effect (`Fail`), or take effect and lose its answer (`Answered`), and both end in
the catch. `Catch` and `FailClosed` are the read and the write of `failClosed`, which
are not in one transaction. A finding is its role and the marks the gate looks
at. Nothing in the application writes `CANCELLED` or `EXPIRED`; they stay in
the tables of states because the transitions allow them.

### Accounts

A *request* is a register, login, logout, any guarded call, or the start of the server that
seeds the owner (`boot`). `at` is the statement it waits for:

| Code | Places |
|---|---|
| `registerUser`, `bootstrapOwner` | `find`, `count`, `create` |
| login route, `recentFailedLogins`, `recordLoginAttempt` | `throttle`, `lookup`, `record` |
| `ensurePersonalWorkspace` | `select`, `workspace`, `member` |
| `createSession`; `revokeSession`; `loadSessionUser` | `session`; `revoke`; `check` |

A user is its e-mail, a password is right or wrong, a token is the user and the
millisecond of its issue, which is all that its signed payload holds; two sign-ins of one user in
one millisecond are one token. `HasSession` keeps what `loadSessionUser` does with two
credentials: the identity is the cookie's if it reads and else the bearer's, the row that is checked is
that of whichever is there. `Break` is a statement that fails and the error answer of `asyncRoute`.
A logout may present its session as a cookie or, when
`SESSION_TOKEN_IN_BODY` is set, as a bearer; the route looks at the cookie alone and answers success in either case.
`late`, `after`, `ended` and `widest` are history, for the properties: `ended` holds the logouts that were answered, each with the session it was
asked with and what brought it, and `after` those that a request arrives after.

### QuorumEngine and TrajectoryMonitor

Both are synchronous code, so an action is a call. The engine takes registrations, votes
and adjudications in any order (`Propose` is the route, which makes them in one go); `calls` is
history, and `QuorumHolds` reads from it alone what the verdict should be. An agent of the
monitor asks (`checkInvariants`), runs, and records (`recordStep`): between the two others ask. What the
constructor sets as limits are constants, and each window is its own constant. The server checks and never
records, so the agents are those of the tests.

### TaskSandbox

A *job* is one governed tool call or one speculative trial. `at` is its statement, `shell` and `child` the
programs it has at work: the shell that was spawned, and what that started and left
(`piped` holds the output open, `daemon` does not). `Close` is the `close` event, which waits for the output and not for the
shell. `Timeout` and `Poll` kill the shell only, as `child.kill("SIGKILL")` does. A trial reads
its snapshot file by file (`Snapshot`; when that throws, the trial has not begun and fails with nothing to undo), and `Undo` is `rollbackSnapshot`: remove what is new, then write what was
there. `Throw` is a statement that throws, with the catch of
`runSpeculativeTrial` that rolls back once more. Contents are old, new, text or not, absent.

### Catalog and Dispatch

`Catalog` is the tables: `AGENT_TOOL_SCOPES`, what each wrapper asks its lease for, what each route puts into its
grant, and agent and capability of the fifty skills. `Dispatch` takes a call through
them; what `Gateway` models statement by statement (`authorize`, `executeExternal`) is one step each here, for the question is
whether the names fit, with time and the interlock moving in between.

### SecretBroker and VectorMemory

The broker waits for the provider twice (`metadata` answers, `Issue` and `Compare` come later), and `put`,
`rotate` and `revokeSecret` change the record meanwhile. `retired` and `before` are
history. A memory document is its tenant and its subject; which documents are near enough to a query is a choice.

### MCServices

The eight modules share no variable, and no action of one reads another's state, so their steps commute:
every behaviour of the whole is an interleaving of a behaviour of each, and each is
checked alone. `part`, chosen at the start, says which component of a behaviour moves; the others keep one of
their initial states. The fairness of the sandbox is stated for its own steps there.

## The runs

| Run | Question | Instance | Result |
|---|---|---|---|
| `gateway_safety` | Is the gate safe in every interleaving, and does it implement `EffectGate`? | two submissions of one frozen grant and a tool call on the same task, whose budget has room for one kind only; lifetimes that can expire; one fault | holds |
| `gateway_liveness` | Does every call end, and is the row lock always released? | a submission and a tool call whose site the allowlist does not have, one fault, fair steps | holds |
| `gateway_refusal` | Does a refusal never burn a nonce? | one submission and a tool call, no fault | violated |
| `video_safety` | Do approvals, jobs, tasks and artifacts agree? | a submission and its retry, interlock on and off, one fault, fair steps | holds |
| `video_retry` | Can a refused retry roll a finished job back? | a submission and its retry, nothing fails | violated |
| `video_provider` | Does a submission to a configured provider work? | one submission, nothing fails | violated |
| `audit_chain` | Does the chain verify, and does it notice changes? | two writers, five events of two tasks, one rollback, one change | holds |
| `audit_tamper` | Does it notice every change? | two events, one change | violated |
| `council_safety` | Is a key reviewed once, and is every review backed, logged and ended? | a review and its repetition under one key, any verdicts, two faults, fair steps | holds |
| `council_replay` | Do terminal states stay when an envelope is repeated? | one envelope twice, one fault | violated |
| `services` | Are accounts, quorum, monitor, sandbox, dispatch, broker and memory each right in every order of their steps? | `MCServices`, below; fair steps of the sandbox | holds |
| `sandbox_trial` | Does a roll-back restore exactly what was there? | the same | violated |

**Bounds.** Two actors with a shared row show every pairwise race; the
third call of `gateway_safety` is there so that two different grants compete for
one budget while two calls compete for one grant. The budget of two units against
reservations of one and two makes both orders refuse somebody. Lifetimes of
two ticks with a clock that stops at one let approvals, grants and leases expire
before, between and after the statements of a call (`issuedAt` lies one tick back,
so that a grant issued at 0 has expired at 1). Five events give Merkle trees of
one to five leaves: a single leaf, even levels, odd levels at the bottom and in
the middle. `MaxFaults` bounds failing statements, lost answers and crashes
*together*; one is enough to reach each catch from each statement, and the council has
two so that failing closed can fail as well. `MaxTrips = 2` switches the interlock
on and off again. `gateway_safety` uses the symmetry of its two submissions, which no
temporal property of that run depends on: its properties are invariants and
box formulas; the runs with leads-to properties use none.

The instance of `services`, part by part:

- *Accounts*: five plans of two to four requests (`MCPlans`): three logins against a limit of two failures, so that all
  can be counted before one is recorded; two registrations with and without self-registration, with a start of the server; a start,
  a registration and a login of the owner; and register, login, logout and a guarded call with every
  cookie and bearer that has been issued, is empty or is junk. Two values of the clock give a user two tokens, or the same one twice.
- *Quorum*: one id (ids do not interact), five calls: a full round of votes and a new registration within
  the round, or a changed vote.
- *Monitor*: limits of two to five, low enough that each is the one that binds in some
  behaviour, one agent or two, windows of no, one and two ticks beside the present one.
- *Sandbox*: two jobs: every kind of trial beside a write, two trials, two scripts of one millisecond, and a command that hangs
  on beside a script; files that are text, not text, or absent.
- *Dispatch*: every offer of the catalog alone, and every tool after another call that takes the
  last unit of the budget; a lease of one tick among three.
- *Broker*: two clients, two versions; *memory*: two tenants, two subjects, four documents: one superseded, superseded again, beside another's.

**Deadlock** is not checked: every behaviour ends when all requests have been served.

**Fairness.** `FairSpec` assumes weak fairness of the steps of a request that has
begun, and of nothing else: the event loop resumes a handler when its statement is answered, and
each statement is answered or fails. That a user submits, an administrator
reviews, a switch is turned or a fault happens is never assumed. `gateway_liveness` needs
no more than that although calls queue for a lock, because the holder is also a
call that steps. `video_safety` excuses a denial from its promise when a fault
happened, and `council_safety` a review whose process died or whose
`failClosed` could not be recorded, because the code has no recovery for these. `services`
assumes that the event loop runs the steps of a job and the timer of a command when they are due. That
a program ends is never assumed: `RunsEnd` rests on the timer alone. It does not reach a program which a command
leaves behind and which holds its output, so the property lets a call wait for that, once its shell is dead.

**What each property guards against** is said in the comment before it, and shown by
its mutant: dropping the unique index of the nonces, reading the budget without its lock, issuing
a lease for its full lifetime, skipping the final fence, looking an approval up without its
status, marking a job completed without its artifact, reading the head of the chain without
`FOR UPDATE`, checking only the link and not the digest, sparing no terminal state in `failClosed`, and so on.

## Disagreements found

Numbers 1 to 6 are each a run that TLC refutes. Numbers 7 to 12 are the exceptions that a property which holds had
to make, named in its statement; number 13 was met while modelling. `PROJECT.json` quotes the lines.

1. **A refusal can burn an approval** (`gateway_refusal`). `authorize` claims the approval
   nonce and the grant nonce before it reserves the budget (`server/governance.ts:169-173`).
   A submission refused for an exhausted budget leaves an approval
   that can never be used, where `ARCHITECTURE.md` says a refusal never burns a nonce.
2. **A refused retry can undo a finished job** (`video_retry`). `submitApprovedVideoJob` reads
   the status of the job and writes a new one without a guard (`server/video.ts:59-62`); if
   the first submission completes in between, the job returns to
   `awaiting_approval`, with its artifact registered.
3. **A configured provider cannot be used** (`video_provider`). The lease takes its destination from
   `providerParameters.endpoint`, which the frozen grant does not have, so
   `verifyCapabilityLease` refuses the provider's URL. The same mismatch makes the live language model and
   the `browse` tool fail with `invalid_capability_lease`: only the visual browser sets the endpoint.
4. **Some changes of the trail go unnoticed** (`audit_tamper`). A row moved to another task or actor,
   and a deleted last row as long as nothing is appended.
5. **A completed review can be failed** (`council_replay`). `failClosed` reads the status before its
   transaction and updates by id alone. The application makes a new envelope for each task, so this needs
   the repeated envelope that the idempotency key is there for.
6. **A roll-back changes files that are not text** (`sandbox_trial`). The snapshot reads every file as UTF-8 and writes the
   text back (`server/sandbox/index.ts:225`); `speculative.ts` promises the exact state before. Texts are restored:
   `TrialRestoresText` holds, and is proved.
7. **The timeout does not end every command** (`HeldOpen`, in `RunsEnd`). The timer kills the shell, and the answer waits for the
   output to close (`server/sandbox/index.ts:123`): a program the shell left, which holds the output open, keeps the call
   running past its timeout. `RunsEnd` says that this is the only thing that can, and that the call ends when it lets go.
8. **A logout by bearer revokes nothing** (an exception of `LogoutEnds`). The route revokes the session of its cookie and answers success
   (`server/app.ts:187`). A client that has its session as a bearer (`SESSION_TOKEN_IN_BODY`) keeps it for the rest of
   its seven days; `SECURITY_BASELINE.md` says that logout invalidates the presented token.
9. **Two accounts can be the first** (`late`, in `LateComersAreUsers`). `registerUser` counts the users and inserts later
   (`server/auth.ts:106`): two registrations that begin before there is an account both become administrators,
   without self-registration, where `ACCEPTANCE.md` says the second is refused. The property can only speak of who arrives later.
10. **A revoked session that comes as a bearer beside an empty cookie is still served** (the other exception of `LogoutEnds`), when
    `SESSION_TOKEN_IN_BODY` is set: `cookie ?? bearer` takes the empty cookie, and no row is read (`server/auth.ts:90`).
11. **Twenty-six of the fifty skills can never be executed** (`NeverServed`, in `LeasesFit`). Their route asks
    the policy for a capability that is not in their specialist's scope (`server/app.ts:899`); two capabilities
    of the catalog are in no scope at all. The skills documentation says that every skill is served.
12. **The page fetch of the browse route never passes its lease** (`NeverServed` too): the route names no endpoint
    (`server/app.ts:474`), the wrapper hands one to the executor.
13. **The throttle counts e-mails, not addresses** (`server/repo.ts:299`), where `gnw/README.md` says failed logins are limited by both:
    the address is stored and never read, so that `attempts` is a count by e-mail.

## The proofs

TLAPS checks every obligation of eight modules; what they assume is the ASSUMEs
of the component's module, which TLC evaluates on every run. Every safety property of a run that passes is proved.

**GatewayProofs.** For any calls, grants, tasks, users, budgets and lifetimes:
type correctness, one effect per grant, budgets held, approvals decided once,
effects approved, charged and preceded by evidence, switches that stop, leases within
grants and approvals, and the refinement of `EffectGate`. None of these is inductive as it stands.
The strengthening says, label by label, what a call that has come this far has
behind it: from `reserve` on the nonce of its grant is its own (`Owned`), past its
reservation the grant is accounted for (`Accounted`), past the lookup a submission has
an approved row and past `validate` a sensitive call is a submission (`Vetted`), from
`final_fence` on its admission is recorded (`Attested`). A call about to commit a reservation
holds the row of its task, and the sum it has read is still the sum (`LockHeld`). For the
lease, `asOf` lies before the end of the grant, and the end of a frozen grant is not after
that of its approval (`Timed`). `Written` says once which actions write which table, so that
most steps of an invariant are those of one or two actions.

**VideoProofs.** For any number of submissions, faults and switches: type correctness, only approved jobs run,
completion has its evidence, and the refinement of `EffectGate`. Both safety properties speak of tables that many actors
write, so the invariant says what each place of a submission knows (`PlacesKnow`): past its look at the approval the
approval is approved, and stays so; past the admission the submission owns the nonce; past the provider's answer it has been accepted; past the
write of the provider's id the job names it; past the artifact the artifact is its own. `OwnerActs` adds that nobody but the owner was accepted, and
`OpenedOnce` that a task which has not settled has no approval yet, so that none is opened over a decided one.

**AuditChainProofs.** For any writers, contents, tasks and number of events: type
correctness, the chain always verifies, loud tampering stays visible. The
invariant looks at neighbours, as the walk does: an open transaction has drafted the row that
follows the head (`Drafts`), the head is the digest of the last row while the table is
untouched, the digest of row i chains exactly i events, so that no row fits in the place of
another, and a row that is broken stays broken when others are appended (`Chain`).

For the bundles TLC sees trees of up to five leaves, the theorems any number. `BundlesVerify`: every level has half as many digests as the one below,
rounded up, so there is a first level of one digest (`HeightIs`), and a verification comes by the digests
above its leaf, level by level (`OneStepUp`, `ProofVerifies`). `RootsBindTheirEvents`: the parents of a level of distinct digests tell
the level, since a last digest that stands alone shows as paired with itself and no two others are equal (`ParentsDetermine`);
trees of one height are then equal from the root down (`SameLevels`), and in trees of two heights a leaf of the lower one would be an inner digest
of the higher one. So two lists of distinct digests with one root are one list (`RootsDetermineLeaves`). That the
digests of the rows are distinct, even in a table that was changed, is an invariant of its own: a new row chains one event more than the head, than which no row
chains more (`Unique`).

**CouncilProofs.** For any runs, envelopes and verdicts: type correctness, and one
review per key. Here the invariant is that the key of a run that reviews is taken; only the insertion of
a row takes one, and the unique index refuses it to everyone else. If no two
runs share a task id (`FreshTasks`, as `randomUUID` in `buildShadowEnvelope`
provides), also: completion is backed, the log tells the status, and terminal states
stay. The invariant (`Reviewed`) puts a rank on the statements of a run and says what the rows of
its task hold when it has come this far: the status, the findings of exactly the roles before
it, the decision after `decide`, the audit rows after theirs. Without `FreshTasks` the last theorem is false,
which is what `council_replay` shows.

**AccountsProofs.** For any e-mails, requests, plans, limits and clocks: type correctness, late comers are users, the throttle, and that
a logout by cookie ends its session. The invariant adds what a place knows (`Places`: whoever is about to insert a first user counted nobody), that users stay
(`LateFoundSomebody`), that requests carry only tokens that were issued (`CarriesIssued`), and that a session which a logout named by its cookie is
revoked or expired for good (`EndedStay`; of one named by a bearer it would be false). The throttle needs the cardinality of the logins under way, one more or one less a step.

**SandboxProofs.** For any jobs, files and commands: type correctness, and that trials restore texts. The invariant
follows a trial nobody touched (`Faithful`): until it writes, the files are as found; from then on the snapshot is; in the roll-back
whatever is not left to do is restored. That nothing of its own command disturbs the roll-back is `Calm`: past `Close` only
a program in the background is at work, and the property excludes those.

**CollectiveProofs.** For any roles, ids, ratios and histories of calls: `QuorumHolds`. The property reads from the whole
history what the verdict should be; the invariant ties the engine's tables to it, call by call: a stored ballot is the `Latest`
of its role `Since` the last of the `Registrations`, and a result is what the votes said when it was adjudicated.
For any limits, windows, tools and numbers of agents: `NoRunaway`. A record that is about to be made was allowed when fewer agents were past
the check, so each count (steps, calls in a window, failures in all and in a row, writes of a path) stays below its limit plus the agents at work; an
agent that records turns one of the agents at work into one of the count. A window that ends before the present is one that was
current when its last step was recorded.

**ServicesProofs.** For any calls, budgets, lifetimes and clocks: `LeasesFit`. The invariant says what a call knows at each stage: past
the policy its tool is in the scope of its agent, and its lease names what the policy was asked for; the rest is a comparison of the tables of `Catalog`.
For any clients and versions: `SecretIsCurrent`. The answer of the provider is old
when it is compared, so the invariant carries it along (`AnswersAreFresh`): a usable answer names no version
its client knew to be retired, unless that was put anew, which takes it out of both.
For any tenants, subjects and numbers of documents: `BeliefsCurrent`, which is inductive with the types.
Last, the composition: a step of `MCServices` is a step of one part and leaves the variables of the others
(`PartsMove`), so that the invariants of the parts carry over, and with them every safety property of the run (`ServicesKeepTheirPromises`).

**Induction.** The prover cannot instantiate a theorem about all predicates, so the library's induction is out of its reach.
The proofs do it by hand: the library proves the order of the natural numbers well-founded, so a set of them that is not
empty has a least member (`LeastNat`), and one with zero and every successor has them all (`AllNat`). A function
that is defined by recursion is first shown to exist, as the union of its beginnings, which gives its two equations (`TowerEquations` and its like).

**Only model-checked.** Liveness (`RunsEnd`, `CallsEnd`, `DeniedJobStops`, `AdmittedJobSettles`, `NobodyHoldsTheHead`,
`ReviewsEnd`), because fairness and ENABLED are beyond this prover. Every other property of the runs that pass is proved.

## What is not modelled

- `pollVideoJob`: the lease it asks for never verifies, for the reason of disagreement 3, so
  it has no effect to model. A notification webhook likewise is never sent, for want of a lease.
- In modelled components: messages and listings of the database layer; the header guard, rate limits, uploads and parsing of the routes; the jail of
  paths, the environment of a command, `destroy` and the remote executor of the sandbox (the last is the same
  operations over one HTTP request each); what the git, code and browser tools parse; what a skill
  computes from its parameters.
- `ensureGuestUser`, which nothing calls.
- Action envelopes, request and prompt guards, storage, language model and environment: pure functions over text, and adapters. Their failures are
  steps of the modules that call them.
- The client manager (`client_manager.py`): approvals, dispatch, rate limiter and circuit breaker under asyncio. It runs apart
  from the server and shares no state with it. `PROJECT.json` lists its worst hazard. The federated learner: its arithmetic over
  floating point numbers is out of TLC's reach. The other portable skills, the MCP commander, the web client and the
  scripts keep no state that two actors share.
- Text: prompts, templates, redaction, canonical forms, signatures. A digest or a signature is the data it covers.
- The order in which `evaluateShadowPolicy` looks at its marks is kept, with the consequence that a judge's
  denial is reported as a request for more evidence when some role lacks evidence; nothing says it should not be.

## What could come next

1. **ClientManager**: the message that is still awaiting approval while its provider call is awaited, against the scheduler that dispatches
   it again; the rate limiter and the circuit breaker at their limits.
2. **Dispatch over Gateway**: the one-step `Authorize` and `ExecuteTool` of `Dispatch` shown to be what `Gateway` does, as a refinement.
3. **Recovery**: if the pipeline or the council learns to resume after a crash, the exclusions of `AdmittedJobSettles`,
   `DeniedJobStops` and `ReviewsEnd` should go.
