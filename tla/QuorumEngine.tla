---------------------------- MODULE QuorumEngine ----------------------------
(***************************************************************************)
(* The quorum over high-risk proposals: the maps of proposals, votes and   *)
(* results of one engine, the votes of its three roles and the             *)
(* adjudication. The route /governance/quorum/propose runs the whole of it *)
(* in one go for a proposal of its own; the engine takes the calls in any  *)
(* order, and a proposal again under an id it knows.                       *)
(*                                                                         *)
(* What the patterns look for and what a justification has to be are one   *)
(* Boolean each; digests and signatures, which nobody compares, are left   *)
(* out.                                                                    *)
(***************************************************************************)
EXTENDS Naturals, Sequences, FiniteSets

CONSTANTS
  ProposalIds,   \* ids of proposals
  Actions,       \* what may be proposed
  Ballots,       \* role -> the votes it may cast
  MaxCalls       \* registrations and votes of a behaviour (bound)

ASSUME QuorumAssumption ==
  /\ MaxCalls \in Nat
  /\ Actions \subseteq [destructive : BOOLEAN, forbidden : BOOLEAN, justified : BOOLEAN]
  /\ Ballots \in [{"coder_proposer", "security_auditor", "chief_justice"}
                    -> SUBSET [approve : BOOLEAN, veto : BOOLEAN]]

VARIABLES
  proposals,   \* id -> what was proposed under it last, NoProposal before
  votes,       \* id -> role -> its vote, NoVote before
  results,     \* id -> the last adjudication: its status, and how many calls it followed
  calls        \* the registrations and votes so far (history)

quorumVars == <<proposals, votes, results, calls>>

QuorumRole == {"coder_proposer", "security_auditor", "chief_justice"}
Proposal == [destructive : BOOLEAN, forbidden : BOOLEAN, justified : BOOLEAN]
NoProposal == [none |-> TRUE]
QuorumVote == [approve : BOOLEAN, veto : BOOLEAN]
NoVote == [none |-> TRUE]
NoResult == [status |-> "none", after |-> 0]
QuorumStatus == {"APPROVED", "REJECTED", "VETOED", "PENDING"}

\* requiredConsensusRatio, in percent.
RequiredRatio == 66

Registered(i, p) == [id |-> i, call |-> "create", proposal |-> p]
Voted(i, role, vote) == [id |-> i, call |-> "vote", role |-> role, vote |-> vote]

\* Of the votes of one proposal: whose count, whether one of them is a veto (a refusal
\* of the auditor is one), and whether the approvals are enough.
Voters(ballot) == {role \in QuorumRole : ballot[role] # NoVote}
Approvals(ballot) == {role \in Voters(ballot) : ballot[role].approve}
Vetoed(ballot) ==
  \E role \in Voters(ballot) :
    ballot[role].veto \/ (role = "security_auditor" /\ ~ballot[role].approve)
Passed(ballot, destructive) ==
  /\ Cardinality(Voters(ballot)) >= 3
  /\ Cardinality(Approvals(ballot)) * 100
       >= Cardinality(Voters(ballot)) * (IF destructive THEN 100 ELSE RequiredRatio)

Status(ballot, destructive) ==
  IF Vetoed(ballot) THEN "VETOED"
  ELSE IF Passed(ballot, destructive) THEN "APPROVED"
  ELSE IF Cardinality(Voters(ballot)) < 3 THEN "PENDING" ELSE "REJECTED"

\* The vote of the automated auditor and of the automated chief justice.
AuditVote(p) == [approve |-> ~p.forbidden, veto |-> p.forbidden]
JusticeVote(p) == [approve |-> p.justified, veto |-> FALSE]

QuorumInit ==
  /\ proposals = [i \in ProposalIds |-> NoProposal]
  /\ votes = [i \in ProposalIds |-> [role \in QuorumRole |-> NoVote]]
  /\ results = [i \in ProposalIds |-> NoResult]
  /\ calls = <<>>

\* A proposal under an id it knows starts without votes; the result stays.
KeptBallot(i) == votes[i]
FreshBallot(i) == [role \in QuorumRole |-> NoVote]
createProposal(i, p) ==
  /\ proposals' = [proposals EXCEPT ![i] = p]
  /\ votes' = [votes EXCEPT ![i] = FreshBallot(i)]
  /\ calls' = Append(calls, Registered(i, p))
  /\ UNCHANGED results

\* A role's vote replaces the one it had.
submitVote(i, role, vote) ==
  /\ proposals[i] # NoProposal
  /\ votes' = [votes EXCEPT ![i][role] = vote]
  /\ calls' = Append(calls, Voted(i, role, vote))
  /\ UNCHANGED <<proposals, results>>

auditSecurity(i) == proposals[i] # NoProposal /\ submitVote(i, "security_auditor", AuditVote(proposals[i]))
adjudicateChiefJustice(i) == proposals[i] # NoProposal /\ submitVote(i, "chief_justice", JusticeVote(proposals[i]))

adjudicate(i) ==
  /\ proposals[i] # NoProposal
  /\ results' = [results EXCEPT ![i] =
       [status |-> Status(votes[i], proposals[i].destructive), after |-> Len(calls)]]
  /\ UNCHANGED <<proposals, votes, calls>>

\* POST /governance/quorum/propose: an id that is new, the proposer in favour, the two
\* automated roles, the adjudication, without an await in between.
Propose(i, p) ==
  LET ballot == [role \in QuorumRole |->
        CASE role = "coder_proposer" -> [approve |-> TRUE, veto |-> FALSE]
          [] role = "security_auditor" -> AuditVote(p)
          [] role = "chief_justice" -> JusticeVote(p)]
  IN
  /\ proposals[i] = NoProposal
  /\ proposals' = [proposals EXCEPT ![i] = p]
  /\ votes' = [votes EXCEPT ![i] = ballot]
  /\ calls' = calls \o <<Registered(i, p), Voted(i, "coder_proposer", ballot["coder_proposer"]),
                         Voted(i, "security_auditor", AuditVote(p)),
                         Voted(i, "chief_justice", JusticeVote(p))>>
  /\ results' = [results EXCEPT ![i] =
       [status |-> Status(ballot, p.destructive), after |-> Len(calls')]]

QuorumNext ==
  \E i \in ProposalIds :
    \/ /\ Len(calls) < MaxCalls
       /\ \/ \E p \in Actions : createProposal(i, p) \/ Propose(i, p)
          \/ \E role \in QuorumRole : \E vote \in Ballots[role] : submitVote(i, role, vote)
          \/ auditSecurity(i)
          \/ adjudicateChiefJustice(i)
    \/ adjudicate(i)

QuorumSpec == QuorumInit /\ [][QuorumNext]_quorumVars

-----------------------------------------------------------------------------
\* The maps of the engine hold what they are declared to hold.
QuorumTypeOK ==
  /\ proposals \in [ProposalIds -> Proposal \cup {NoProposal}]
  /\ votes \in [ProposalIds -> [QuorumRole -> QuorumVote \cup {NoVote}]]
  /\ results \in [ProposalIds -> [status : QuorumStatus \cup {"none"}, after : 0 .. Len(calls)]]

\* Of the first n calls of s: the registrations of i, the votes on it since the last of
\* them, those of one role, and what that role said last.
Latest(S) == CHOOSE k \in S : \A m \in S : m <= k
Registrations(s, i, n) == {k \in 1 .. n : s[k].id = i /\ s[k].call = "create"}
Since(s, i, n) ==
  {k \in 1 .. n : /\ s[k].id = i /\ s[k].call = "vote"
                  /\ \A m \in Registrations(s, i, n) : m < k}
Said(s, i, role, n) == {k \in Since(s, i, n) : s[k].role = role}
Final(s, i, role, n) == s[Latest(Said(s, i, role, n))].vote

\* What the calls say of i: all three roles voted, no last word is a veto, the auditor's is
\* a yes, and at most one is a no; for a destructive action, none.
Carried(s, i, n) ==
  LET nays == {role \in QuorumRole : ~Final(s, i, role, n).approve}
      proposal == s[Latest(Registrations(s, i, n))].proposal
  IN /\ \A role \in QuorumRole : Said(s, i, role, n) # {} /\ ~Final(s, i, role, n).veto
     /\ "security_auditor" \notin nays
     /\ Cardinality(nays) <= IF proposal.destructive THEN 0 ELSE 1

\* An adjudication approves just what the calls before it carry, whatever was registered
\* again, voted again or adjudicated in between and since.
QuorumHolds ==
  \A i \in ProposalIds :
    results[i] # NoResult => (results[i].status = "APPROVED" <=> Carried(calls, i, results[i].after))
=============================================================================
