----------------------------- MODULE AuditChain -----------------------------
(***************************************************************************)
(* The hash chain of audit.ts: concurrent appendAudit transactions on any  *)
(* number of instances, serialised by the row lock of audit_chain_state,   *)
(* what verifyAuditChain says of the table, and one later change of the    *)
(* table behind the program's back.                                        *)
(*                                                                         *)
(* A digest is the term it digests: the digest of a previous digest and an *)
(* event is the one sequence extended with the other, so that two digests  *)
(* are equal only when everything they chain is.                           *)
(***************************************************************************)
EXTENDS Integers, Sequences

CONSTANTS
  Writers,     \* concurrent calls of appendAudit
  Contents,    \* what hashEvent covers: time, type, decision, reason, payload
  Tasks,       \* task_id, which hashEvent does not cover
  Nobody, NoRow,
  MaxEvents,   \* bound: transactions begun
  MaxFaults    \* bound: rollbacks and crashes

ASSUME AuditAssumption ==
  /\ Nobody \notin Writers
  /\ MaxEvents \in Nat /\ MaxFaults \in Nat

GENESIS_HASH == << >>
hashEvent(previous, content) == Append(previous, content)

VARIABLES
  rows,      \* audit_events in the order of their ids
  head,      \* audit_chain_state.event_hash
  lock,      \* the transaction that holds that row
  pc,
  draft,     \* the row each open transaction is about to commit
  begun, faults,
  evidence   \* history: what was done to the table from outside

vars == <<rows, head, lock, pc, draft, begun, faults, evidence>>

\* A row as appendAudit builds it.
Row(task, content, previous) ==
  [task |-> task, content |-> content, previous |-> previous,
   hash |-> hashEvent(previous, content)]

-----------------------------------------------------------------------------
(* appendAudit *)

\* Mutant: the head is read without FOR UPDATE.
BeginUnlocked(w, task, content) ==
  /\ pc[w] = "idle" /\ begun < MaxEvents
  /\ draft' = [draft EXCEPT ![w] = Row(task, content, head)]
  /\ pc' = [pc EXCEPT ![w] = "insert"]
  /\ begun' = begun + 1
  /\ UNCHANGED <<rows, head, lock, faults, evidence>>
\* BEGIN, and the SELECT ... FOR UPDATE of the head.
Begin(w, task, content) ==
  /\ pc[w] = "idle" /\ begun < MaxEvents
  /\ lock = Nobody
  /\ lock' = w
  /\ draft' = [draft EXCEPT ![w] = Row(task, content, head)]
  /\ pc' = [pc EXCEPT ![w] = "insert"]
  /\ begun' = begun + 1
  /\ UNCHANGED <<rows, head, faults, evidence>>

\* The INSERT and the UPDATE of the head are seen by nobody before the COMMIT.
Insert(w) ==
  /\ pc[w] = "insert"
  /\ pc' = [pc EXCEPT ![w] = "commit"]
  /\ UNCHANGED <<rows, head, lock, draft, begun, faults, evidence>>

End(w) ==
  /\ pc' = [pc EXCEPT ![w] = "idle"]
  /\ draft' = [draft EXCEPT ![w] = NoRow]

\* Mutant: the head is not moved.
CommitRowOnly(w) ==
  /\ pc[w] = "commit"
  /\ rows' = Append(rows, draft[w])
  /\ lock' = Nobody
  /\ End(w)
  /\ evidence' = IF evidence = "trimmed" THEN "loud" ELSE evidence
  /\ UNCHANGED <<head, begun, faults>>
Commit(w) ==
  /\ pc[w] = "commit"
  /\ rows' = Append(rows, draft[w])
  /\ head' = draft[w].hash
  /\ lock' = Nobody
  /\ End(w)
  /\ evidence' = IF evidence = "trimmed" THEN "loud" ELSE evidence
  /\ UNCHANGED <<begun, faults>>

\* Mutant: the transaction that failed keeps the row.
RollbackLocked(w) ==
  /\ pc[w] # "idle" /\ faults < MaxFaults
  /\ End(w)
  /\ faults' = faults + 1
  /\ UNCHANGED <<rows, head, lock, begun, evidence>>
\* A statement fails, or the process dies: ROLLBACK.
Rollback(w) ==
  /\ pc[w] # "idle" /\ faults < MaxFaults
  /\ lock' = Nobody
  /\ End(w)
  /\ faults' = faults + 1
  /\ UNCHANGED <<rows, head, begun, evidence>>

-----------------------------------------------------------------------------
(* verifyAuditChain *)

\* `previous` when the walk reaches row i, all rows before it being sound.
Link(table, i) == IF i = 1 THEN GENESIS_HASH ELSE table[i - 1].hash

\* Mutant: only the link is compared, the digest is not recomputed.
LinkedRow(table, i) == table[i].previous = Link(table, i)
SoundRow(table, i) ==
  /\ table[i].previous = Link(table, i)
  /\ table[i].hash = hashEvent(Link(table, i), table[i].content)

Verified(table) == \A i \in 1..Len(table) : SoundRow(table, i)

-----------------------------------------------------------------------------
(* A change of the table by something else than this program; `evidence`   *)
(* says whether the walk is to notice.                                     *)

Tamper(kind, table) ==
  /\ evidence = "intact" /\ table # rows
  /\ rows' = table
  /\ evidence' = kind
  /\ UNCHANGED <<head, lock, pc, draft, begun, faults>>

Rewrite(i, content) == Tamper("loud", [rows EXCEPT ![i].content = content])
Retag(i, task) == Tamper("silent", [rows EXCEPT ![i].task = task])
Without(i) == [j \in 1..(Len(rows) - 1) |-> IF j < i THEN rows[j] ELSE rows[j + 1]]
Delete(i) == Tamper(IF i = Len(rows) THEN "trimmed" ELSE "loud", Without(i))
Reorder(i, j) == Tamper("loud", [rows EXCEPT ![i] = rows[j], ![j] = rows[i]])

Outside ==
  \E i \in 1..Len(rows) :
    \/ \E content \in Contents : Rewrite(i, content)
    \/ \E task \in Tasks : Retag(i, task)
    \/ Delete(i)
    \/ \E j \in 1..Len(rows) : Reorder(i, j)

Init ==
  /\ rows = << >> /\ head = GENESIS_HASH /\ lock = Nobody
  /\ pc = [w \in Writers |-> "idle"]
  /\ draft = [w \in Writers |-> NoRow]
  /\ begun = 0 /\ faults = 0 /\ evidence = "intact"

Write(w) == Insert(w) \/ Commit(w)

Next ==
  \/ \E w \in Writers :
       \/ \E t \in Tasks, e \in Contents : Begin(w, t, e)
       \/ Write(w) \/ Rollback(w)
  \/ Outside

Spec == Init /\ [][Next]_vars
FairSpec == Spec /\ \A w \in Writers : WF_vars(Write(w))

-----------------------------------------------------------------------------
(* Properties *)

Digests == Seq(Contents)
Rows == [task : Tasks, content : Contents, previous : Digests, hash : Digests]

TypeOK ==
  /\ rows \in Seq(Rows) /\ head \in Digests
  /\ lock \in Writers \cup {Nobody}
  /\ pc \in [Writers -> {"idle", "insert", "commit"}]
  /\ draft \in [Writers -> Rows \cup {NoRow}]
  /\ \A w \in Writers : pc[w] # "idle" => lock = w /\ draft[w] \in Rows
  /\ begun \in Nat /\ faults \in Nat
  /\ evidence \in {"intact", "silent", "trimmed", "loud"}

\* However many instances append at once, and whichever of them fail between
\* their statements, the table verifies and the head is its last digest: an
\* untouched trail never raises a false alarm.
ChainVerifies ==
  evidence = "intact" => Verified(rows) /\ head = Link(rows, Len(rows) + 1)

\* A rewritten, deleted or re-ordered row is noticed, now and after any later
\* appends; a deleted last row is noticed as soon as anything is appended.
LoudTamperingIsCaught == evidence = "loud" => ~Verified(rows)

\* One row lock serialises every audited action of every instance: a
\* writer that fails must never keep the rest from their evidence.
NobodyHoldsTheHead == lock # Nobody ~> lock = Nobody

\* audit.ts 36: "a rewritten or deleted row breaks verification".
TamperingIsCaught == evidence # "intact" => ~Verified(rows)
=============================================================================
