---------------------------- MODULE VectorMemory ----------------------------
(***************************************************************************)
(* The semantic memory of the process: what memory.store keeps and         *)
(* supersedes, and what memory.query finds. A document is a tenant and the *)
(* subject it is about, if it names one; its text and its vector only      *)
(* decide which of the documents a query may return are near enough and    *)
(* among the first, which is a choice here. The gate in front of both      *)
(* (Dispatch, Gateway) has passed; neither waits for anything after it.    *)
(* (The routes name no subject and ask for no superseded documents; the    *)
(* callers are those of the wrappers, the tests' among them.)              *)
(***************************************************************************)
EXTENDS Naturals, Sequences

CONSTANTS
  Tenants,
  Subjects,      \* subject keys
  NoSubject,     \* no subject key was given
  MaxDocuments   \* documents of a behaviour (bound; the store has none)

ASSUME MemoryAssumption == MaxDocuments \in Nat /\ NoSubject \notin Subjects /\ Tenants # {}

VARIABLES
  documents,     \* the documents in the order they were stored
  answer         \* the last answer: who asked, and the documents returned

memoryVars == <<documents, answer>>

Document == [tenant : Tenants, subject : Subjects \cup {NoSubject}, supersededBy : 0 .. MaxDocuments]
Invalidated(i) == documents[i].supersededBy # 0

MemoryInit == documents = <<>> /\ answer = [tenant |-> CHOOSE t \in Tenants : TRUE, found |-> {}]

\* The earlier documents a new one replaces.
ReplacedBySubject(tenant, subject) ==
  {i \in DOMAIN documents : documents[i].subject = subject /\ ~Invalidated(i)}
Replaced(tenant, subject) ==
  {i \in DOMAIN documents :
     /\ documents[i].tenant = tenant /\ documents[i].subject = subject
     /\ ~Invalidated(i)}

runGovernedMemoryStore(tenant, subject) ==
  LET n == Len(documents) + 1
      old == IF subject = NoSubject THEN {} ELSE Replaced(tenant, subject) IN
  /\ n <= MaxDocuments
  /\ documents' = Append([i \in DOMAIN documents |->
                            IF i \in old THEN [documents[i] EXCEPT !.supersededBy = n] ELSE documents[i]],
                         [tenant |-> tenant, subject |-> subject, supersededBy |-> 0])
  /\ UNCHANGED answer

\* The default query: not what was invalidated, and of the asking tenant.
runGovernedMemoryQuery(tenant) ==
  /\ \E found \in SUBSET {i \in DOMAIN documents : documents[i].tenant = tenant /\ ~Invalidated(i)} :
       answer' = [tenant |-> tenant, found |-> found]
  /\ UNCHANGED documents

MemoryNext ==
  \E t \in Tenants :
    \/ \E s \in Subjects \cup {NoSubject} : runGovernedMemoryStore(t, s)
    \/ runGovernedMemoryQuery(t)

MemorySpec == MemoryInit /\ [][MemoryNext]_memoryVars

-----------------------------------------------------------------------------
\* The documents and the answer hold what they are declared to hold.
MemoryTypeOK ==
  /\ documents \in Seq(Document)
  /\ answer.tenant \in Tenants /\ answer.found \subseteq DOMAIN documents

\* Each tenant has one current belief about a subject, its last: a document is superseded
\* just by the next of its own tenant on its own subject, one without a subject by none,
\* and no answer shows a document of another tenant.
BeliefsCurrent ==
  /\ \A i \in DOMAIN documents :
       LET Later == {j \in i + 1 .. Len(documents) :
                       /\ documents[j].tenant = documents[i].tenant
                       /\ documents[j].subject = documents[i].subject
                       /\ documents[i].subject # NoSubject}
       IN IF Later = {} THEN ~Invalidated(i)
          ELSE documents[i].supersededBy \in Later /\ \A j \in Later : documents[i].supersededBy <= j
  /\ \A i \in answer.found : documents[i].tenant = answer.tenant
=============================================================================
