-------------------------- MODULE CollectiveProofs --------------------------
(***************************************************************************)
(* What holds of the two places where several agents meet on one object:   *)
(* the ballots of the quorum engine, for any proposals, actions and votes, *)
(* and the trajectory of the invariant monitor, for any limits, tools and  *)
(* number of agents at work.                                               *)
(*                                                                         *)
(* Quorum: a result is compared with the history of calls, the proposals   *)
(* and ballots with what the calls up to now have made of them             *)
(* (Reflects). A ballot is then the last vote of its role since the last   *)
(* registration, so the adjudication sees what the calls carry (Judged),   *)
(* and calls appended afterwards do not change that (CarriedPrefix).       *)
(*                                                                         *)
(* Monitor: a limit is read when a call is allowed and what it counts is   *)
(* written when the call is recorded, so what is recorded may overrun it   *)
(* by the others at work. The invariant counts the record and the agents   *)
(* at work together (Room); a step moves an agent from one to the other.   *)
(* What a window or a run of failures held is remembered when time or a    *)
(* success ends it (PastWindows, PastRuns, PastTurns).                     *)
(***************************************************************************)
EXTENDS QuorumEngine, TrajectoryMonitor, FiniteSetTheorems, NaturalsInduction, TLAPS

\* A set of natural numbers with a member has a least one.
LEMMA LeastNat ==
  ASSUME NEW S, S \subseteq Nat, S # {}
  PROVE  \E m \in S : \A k \in S : m <= k
<1>1. IsWellFoundedOn(OpToRel(<, Nat), Nat)
  BY NatLessThanWellFounded
<1>2. PICK m \in S : \A k \in S : ~(<<k, m>> \in OpToRel(<, Nat))
  BY <1>1, WFMin
<1>3. \A k \in S : ~(k < m)
  BY <1>2 DEF OpToRel
<1> QED
  BY <1>3

\* A set of positions has a last one, and Latest is it.
LEMMA LatestIs ==
  ASSUME NEW n \in Nat, NEW S, S \subseteq 1 .. n, NEW k \in S, \A m \in S : m <= k
  PROVE  Latest(S) = k
<1>1. \E x \in S : \A m \in S : m <= x
  OBVIOUS
<1>2. Latest(S) \in S /\ \A m \in S : m <= Latest(S)
  BY <1>1 DEF Latest
<1>3. Latest(S) \in 1 .. n /\ k \in 1 .. n
  BY <1>2
<1>4. Latest(S) <= k /\ k <= Latest(S)
  BY <1>2
<1> QED
  BY <1>3, <1>4

\* Any positions of a sequence have a last one.
LEMMA LatestExists ==
  ASSUME NEW n \in Nat, NEW S, S \subseteq 1 .. n, S # {}
  PROVE  Latest(S) \in S /\ \A m \in S : m <= Latest(S)
<1> DEFINE T == {x \in 0 .. n : n - x \in S}
<1>1. T \subseteq Nat /\ T # {}
  <2>1. PICK k \in S : TRUE
    OBVIOUS
  <2>2. k \in 1 .. n
    BY <2>1
  <2>3. n - k \in 0 .. n /\ n - (n - k) = k
    BY <2>2
  <2>4. n - k \in T
    BY <2>1, <2>3
  <2>5. T \subseteq Nat
    OBVIOUS
  <2> QED
    BY <2>4, <2>5
<1>2. PICK x \in T : \A y \in T : x <= y
  BY <1>1, LeastNat
<1>3. n - x \in S /\ x \in 0 .. n
  BY <1>2
<1>4. ASSUME NEW m \in S PROVE m <= n - x
  <2>1. m \in 1 .. n /\ n - m \in 0 .. n /\ n - (n - m) = m
    OBVIOUS
  <2>2. n - m \in T
    BY <2>1
  <2>3. x <= n - m
    BY <1>2, <2>2
  <2> QED
    BY <1>3, <2>3
<1>5. \E k \in S : \A m \in S : m <= k
  BY <1>3, <1>4
<1> QED
  BY <1>5 DEF Latest

-----------------------------------------------------------------------------
QuorumCall ==
  {Registered(i, p) : i \in ProposalIds, p \in Actions}
  \cup {Voted(i, role, vote) : i \in ProposalIds, role \in QuorumRole, vote \in QuorumVote}

\* What the calls s have made of the proposal and the ballot of i.
Reflects(s, i, p, ballot) ==
  LET n == Len(s) IN
  /\ \A role \in QuorumRole :
       IF Said(s, i, role, n) = {} THEN ballot[role] = NoVote
       ELSE ballot[role] = Final(s, i, role, n) /\ ballot[role] \in QuorumVote
  /\ p # NoProposal =>
       /\ Registrations(s, i, n) # {}
       /\ s[Latest(Registrations(s, i, n))].proposal = p

\* A registration and a vote are calls, and name what they were given.
LEMMA CallTypes ==
  ASSUME NEW i \in ProposalIds
  PROVE  /\ \A p : Registered(i, p).id = i /\ Registered(i, p).call = "create"
                   /\ Registered(i, p).proposal = p
         /\ \A role, vote : /\ Voted(i, role, vote).id = i /\ Voted(i, role, vote).call = "vote"
                            /\ Voted(i, role, vote).role = role /\ Voted(i, role, vote).vote = vote
         /\ \A p \in Actions : Registered(i, p) \in QuorumCall
         /\ \A role \in QuorumRole, vote \in QuorumVote : Voted(i, role, vote) \in QuorumCall
BY DEF Registered, Voted, QuorumCall

\* What is said of the first calls of a sequence depends on them only.
LEMMA SamePrefix ==
  ASSUME NEW s, NEW s2, NEW n \in Nat, \A k \in 1 .. n : s2[k] = s[k], NEW i
  PROVE  /\ Registrations(s2, i, n) = Registrations(s, i, n)
         /\ Since(s2, i, n) = Since(s, i, n)
         /\ \A role : Said(s2, i, role, n) = Said(s, i, role, n)
         /\ \A role : Said(s, i, role, n) # {} => Final(s2, i, role, n) = Final(s, i, role, n)
         /\ Registrations(s, i, n) # {} =>
              s2[Latest(Registrations(s, i, n))] = s[Latest(Registrations(s, i, n))]
<1>1. Registrations(s2, i, n) = Registrations(s, i, n)
  BY DEF Registrations
<1>2. Since(s2, i, n) = Since(s, i, n)
  BY <1>1 DEF Since
<1>3. \A role : Said(s2, i, role, n) = Said(s, i, role, n)
  BY <1>2 DEF Said, Since
<1>4. ASSUME NEW role, Said(s, i, role, n) # {}
      PROVE  Final(s2, i, role, n) = Final(s, i, role, n)
  <2>1. Said(s, i, role, n) \subseteq 1 .. n
    BY DEF Said, Since
  <2>2. Latest(Said(s, i, role, n)) \in 1 .. n
    BY <1>4, <2>1, LatestExists
  <2> QED
    BY <1>3, <2>2 DEF Final
<1>5. ASSUME Registrations(s, i, n) # {}
      PROVE  s2[Latest(Registrations(s, i, n))] = s[Latest(Registrations(s, i, n))]
  <2>1. Registrations(s, i, n) \subseteq 1 .. n
    BY DEF Registrations
  <2>2. Latest(Registrations(s, i, n)) \in 1 .. n
    BY <1>5, <2>1, LatestExists
  <2> QED
    BY <2>2
<1> QED
  BY <1>1, <1>2, <1>3, <1>4, <1>5

\* What the first n calls carry depends on them only.
LEMMA CarriedPrefix ==
  ASSUME NEW s, NEW s2, NEW n \in Nat, \A k \in 1 .. n : s2[k] = s[k], NEW i,
         Registrations(s, i, n) # {}
  PROVE  Carried(s2, i, n) <=> Carried(s, i, n)
<1>1. /\ Registrations(s2, i, n) = Registrations(s, i, n)
      /\ \A role : Said(s2, i, role, n) = Said(s, i, role, n)
      /\ \A role : Said(s, i, role, n) # {} => Final(s2, i, role, n) = Final(s, i, role, n)
      /\ s2[Latest(Registrations(s, i, n))] = s[Latest(Registrations(s, i, n))]
  BY SamePrefix
<1>2. CASE \A role \in QuorumRole : Said(s, i, role, n) # {}
  <2>1. \A role \in QuorumRole : Final(s2, i, role, n) = Final(s, i, role, n)
    BY <1>1, <1>2
  <2>2. {role \in QuorumRole : ~Final(s2, i, role, n).approve}
          = {role \in QuorumRole : ~Final(s, i, role, n).approve}
    BY <2>1
  <2> QED
    BY <1>1, <2>1, <2>2 DEF Carried
<1>3. CASE ~ \A role \in QuorumRole : Said(s, i, role, n) # {}
  BY <1>1, <1>3 DEF Carried
<1> QED
  BY <1>2, <1>3

\* One call more: the proposals of other ids are as they were.
LEMMA OthersUnchanged ==
  ASSUME NEW s, NEW s2, NEW n \in Nat, \A k \in 1 .. n : s2[k] = s[k], NEW j
  PROVE  s2[n + 1].id # j =>
         /\ Registrations(s2, j, n + 1) = Registrations(s, j, n)
         /\ \A role : Said(s2, j, role, n + 1) = Said(s, j, role, n)
         /\ \A role : Said(s, j, role, n) # {} => Final(s2, j, role, n + 1) = Final(s, j, role, n)
         /\ Registrations(s, j, n) # {} =>
              s2[Latest(Registrations(s, j, n))] = s[Latest(Registrations(s, j, n))]
<1>1. /\ Registrations(s2, j, n) = Registrations(s, j, n)
      /\ \A role : Said(s2, j, role, n) = Said(s, j, role, n)
      /\ \A role : Said(s, j, role, n) # {} => Final(s2, j, role, n) = Final(s, j, role, n)
      /\ Registrations(s, j, n) # {} =>
           s2[Latest(Registrations(s, j, n))] = s[Latest(Registrations(s, j, n))]
  BY SamePrefix
<1> SUFFICES ASSUME s2[n + 1].id # j
             PROVE  /\ Registrations(s2, j, n + 1) = Registrations(s2, j, n)
                    /\ \A role : /\ Said(s2, j, role, n + 1) = Said(s2, j, role, n)
                                 /\ Final(s2, j, role, n + 1) = Final(s2, j, role, n)
  BY <1>1
<1>2. 1 .. n + 1 = (1 .. n) \cup {n + 1}
  OBVIOUS
<1>3. Registrations(s2, j, n + 1) = Registrations(s2, j, n)
  BY <1>2 DEF Registrations
<1>4. Since(s2, j, n + 1) = Since(s2, j, n)
  BY <1>2, <1>3 DEF Since
<1>5. \A role : /\ Said(s2, j, role, n + 1) = Said(s2, j, role, n)
                /\ Final(s2, j, role, n + 1) = Final(s2, j, role, n)
  BY <1>4 DEF Said, Final
<1> QED
  BY <1>3, <1>5

\* A call on a proposal changes nothing about another.
LEMMA OthersReflect ==
  ASSUME NEW s \in Seq(QuorumCall), NEW call \in QuorumCall, NEW j, j # call.id, NEW p, NEW ballot,
         Reflects(s, j, p, ballot)
  PROVE  Reflects(Append(s, call), j, p, ballot)
<1> DEFINE n == Len(s)
           s2 == Append(s, call)
<1>1. n \in Nat /\ Len(s2) = n + 1 /\ s2[n + 1] = call /\ \A k \in 1 .. n : s2[k] = s[k]
  OBVIOUS
<1> HIDE DEF s2, n
<1>2. n \in Nat /\ (\A k \in 1 .. n : s2[k] = s[k]) /\ s2[n + 1].id # j
  BY <1>1
<1>3. /\ Registrations(s2, j, n + 1) = Registrations(s, j, n)
      /\ \A role : Said(s2, j, role, n + 1) = Said(s, j, role, n)
      /\ \A role : Said(s, j, role, n) # {} => Final(s2, j, role, n + 1) = Final(s, j, role, n)
      /\ Registrations(s, j, n) # {} =>
           s2[Latest(Registrations(s, j, n))] = s[Latest(Registrations(s, j, n))]
  BY <1>2, OthersUnchanged, Zenon
<1> QED
  BY <1>1, <1>3 DEF Reflects, s2, n

\* A registration empties the ballot.
LEMMA RegisteredReflects ==
  ASSUME NEW s \in Seq(QuorumCall), NEW i \in ProposalIds, NEW p \in Actions
  PROVE  Reflects(Append(s, Registered(i, p)), i, p, FreshBallot(i))
<1> DEFINE n == Len(s)
           call == Registered(i, p)
           s2 == Append(s, call)
<1>1. call \in QuorumCall /\ call.id = i /\ call.call = "create" /\ call.proposal = p
  BY CallTypes
<1> HIDE DEF call
<1>2. n \in Nat /\ Len(s2) = n + 1 /\ s2[n + 1] = call
  BY <1>1
<1> HIDE DEF s2, n
<1>3. n + 1 \in Registrations(s2, i, n + 1) /\ Registrations(s2, i, n + 1) \subseteq 1 .. n + 1
  BY <1>1, <1>2 DEF Registrations
<1>4. Latest(Registrations(s2, i, n + 1)) = n + 1
  <2>1. \A m \in Registrations(s2, i, n + 1) : m <= n + 1
    BY <1>3
  <2> QED
    BY <1>2, <1>3, <2>1, LatestIs
<1>5. Since(s2, i, n + 1) = {}
  BY <1>2, <1>3 DEF Since
<1>6. \A role : Said(s2, i, role, n + 1) = {}
  BY <1>5 DEF Said
<1> QED
  BY <1>1, <1>2, <1>3, <1>4, <1>6 DEF Reflects, FreshBallot, s2, call, n

\* A vote replaces the one of its role.
LEMMA VotedReflects ==
  ASSUME NEW s \in Seq(QuorumCall), NEW i \in ProposalIds, NEW who \in QuorumRole, NEW vote \in QuorumVote,
         NEW p, NEW ballot \in [QuorumRole -> QuorumVote \cup {NoVote}], Reflects(s, i, p, ballot)
  PROVE  Reflects(Append(s, Voted(i, who, vote)), i, p, [ballot EXCEPT ![who] = vote])
<1> DEFINE n == Len(s)
           call == Voted(i, who, vote)
           s2 == Append(s, call)
<1>1. call \in QuorumCall /\ call.id = i /\ call.call = "vote" /\ call.role = who /\ call.vote = vote
  BY CallTypes
<1> HIDE DEF call
<1>2. n \in Nat /\ Len(s2) = n + 1 /\ s2[n + 1] = call /\ \A k \in 1 .. n : s2[k] = s[k]
  BY <1>1
<1> HIDE DEF s2, n
<1>3. 1 .. n + 1 = (1 .. n) \cup {n + 1}
  BY <1>2
<1>4. Registrations(s2, i, n + 1) = Registrations(s2, i, n)
  BY <1>1, <1>2, <1>3 DEF Registrations
<1>5. Since(s2, i, n + 1) = Since(s2, i, n) \cup {n + 1}
  BY <1>1, <1>2, <1>3, <1>4 DEF Since, Registrations
<1>6. /\ Said(s2, i, who, n + 1) = Said(s2, i, who, n) \cup {n + 1}
      /\ \A role : role # who => Said(s2, i, role, n + 1) = Said(s2, i, role, n)
  BY <1>1, <1>2, <1>5 DEF Said
<1>7. /\ Registrations(s2, i, n) = Registrations(s, i, n)
      /\ \A role : Said(s2, i, role, n) = Said(s, i, role, n)
      /\ \A role : Said(s, i, role, n) # {} => Final(s2, i, role, n) = Final(s, i, role, n)
      /\ Registrations(s, i, n) # {} =>
           s2[Latest(Registrations(s, i, n))] = s[Latest(Registrations(s, i, n))]
  BY <1>2, SamePrefix
<1>8. Final(s2, i, who, n + 1) = vote
  <2>1. Said(s2, i, who, n + 1) \subseteq 1 .. n + 1
    BY DEF Said, Since
  <2>2. \A m \in Said(s2, i, who, n + 1) : m <= n + 1
    BY <2>1
  <2>3. n + 1 \in Said(s2, i, who, n + 1) /\ n + 1 \in Nat
    BY <1>2, <1>6
  <2>4. Latest(Said(s2, i, who, n + 1)) = n + 1
    BY <2>1, <2>2, <2>3, LatestIs
  <2> QED
    BY <1>1, <1>2, <2>4 DEF Final
<1>9. \A role : role # who => Final(s2, i, role, n + 1) = Final(s2, i, role, n)
  BY <1>6 DEF Final
<1> DEFINE ballot2 == [ballot EXCEPT ![who] = vote]
<1>10. ballot2[who] = vote /\ \A role \in QuorumRole \ {who} : ballot2[role] = ballot[role]
  OBVIOUS
<1> HIDE DEF ballot2
<1>11. ASSUME NEW role \in QuorumRole
       PROVE  IF Said(s2, i, role, n + 1) = {} THEN ballot2[role] = NoVote
              ELSE ballot2[role] = Final(s2, i, role, n + 1) /\ ballot2[role] \in QuorumVote
  <2>1. CASE role = who
    BY <1>6, <1>8, <1>10, <2>1
  <2>2. CASE role # who
    BY <1>6, <1>7, <1>9, <1>10, <2>2 DEF Reflects, n
  <2> QED
    BY <2>1, <2>2
<1>12. p # NoProposal =>
         /\ Registrations(s2, i, n + 1) # {}
         /\ s2[Latest(Registrations(s2, i, n + 1))].proposal = p
  BY <1>4, <1>7 DEF Reflects, n
<1>13. Reflects(s2, i, p, ballot2)
  BY <1>2, <1>11, <1>12 DEF Reflects
<1> QED
  BY <1>13 DEF s2, call, ballot2

-----------------------------------------------------------------------------

\* There are three roles, and what a number of them says of the others.
LEMMA RoleCount ==
  /\ IsFiniteSet(QuorumRole) /\ Cardinality(QuorumRole) = 3
  /\ \A S \in SUBSET QuorumRole :
       /\ IsFiniteSet(S) /\ Cardinality(S) \in 0 .. 3
       /\ Cardinality(S) = 3 => S = QuorumRole
       /\ Cardinality(QuorumRole \ S) = 3 - Cardinality(S)
<1> DEFINE A == {"coder_proposer"}
           B == A \cup {"security_auditor"}
<1>1. IsFiniteSet(A) /\ Cardinality(A) = 1
  BY FS_Singleton
<1>2. IsFiniteSet(B) /\ Cardinality(B) = 2
  <2>1. "security_auditor" \notin A
    OBVIOUS
  <2> HIDE DEF A
  <2> QED
    BY <1>1, <2>1, FS_AddElement
<1>3. "chief_justice" \notin B /\ QuorumRole = B \cup {"chief_justice"}
  BY DEF QuorumRole
<1> HIDE DEF B
<1>4. IsFiniteSet(QuorumRole) /\ Cardinality(QuorumRole) = 3
  BY <1>2, <1>3, FS_AddElement
<1>5. ASSUME NEW S \in SUBSET QuorumRole
      PROVE  /\ IsFiniteSet(S) /\ Cardinality(S) \in 0 .. 3
             /\ Cardinality(S) = 3 => S = QuorumRole
             /\ Cardinality(QuorumRole \ S) = 3 - Cardinality(S)
  <2>1. /\ IsFiniteSet(S) /\ Cardinality(S) <= 3
        /\ Cardinality(S) = 3 => S = QuorumRole
    BY <1>4, FS_Subset
  <2>2. Cardinality(S) \in Nat
    BY <2>1, FS_CardinalityType
  <2>3. QuorumRole \cap S = S
    OBVIOUS
  <2>4. Cardinality(QuorumRole \ S) = Cardinality(QuorumRole) - Cardinality(QuorumRole \cap S)
    BY <1>4, FS_Difference
  <2> QED
    BY <1>4, <2>1, <2>2, <2>3, <2>4
<1> QED
  BY <1>4, <1>5

\* No vote is not a vote, and no proposal not a proposal.
LEMMA NoneIsNone == NoVote \notin QuorumVote /\ NoProposal \notin Proposal
<1>1. "approve" \notin DOMAIN NoVote /\ "destructive" \notin DOMAIN NoProposal
  BY DEF NoVote, NoProposal
<1>2. \A v \in QuorumVote : "approve" \in DOMAIN v
  BY DEF QuorumVote
<1>3. \A p \in Proposal : "destructive" \in DOMAIN p
  BY DEF Proposal
<1> QED
  BY <1>1, <1>2, <1>3

\* adjudicate decides by the ballot what the calls carry.
LEMMA StatusCarries ==
  ASSUME NEW s, NEW i, NEW p, p.destructive \in BOOLEAN, p # NoProposal, NEW ballot,
         Reflects(s, i, p, ballot)
  PROVE  Status(ballot, p.destructive) = "APPROVED" <=> Carried(s, i, Len(s))
<1> DEFINE n == Len(s)
           nays == {role \in QuorumRole : ~Final(s, i, role, n).approve}
<1>1. Status(ballot, p.destructive) = "APPROVED"
        <=> ~Vetoed(ballot) /\ Passed(ballot, p.destructive)
  BY DEF Status
<1>2. \A role \in QuorumRole :
        IF Said(s, i, role, n) = {} THEN ballot[role] = NoVote
        ELSE ballot[role] = Final(s, i, role, n) /\ ballot[role] \in QuorumVote
  BY DEF Reflects
<1>3. s[Latest(Registrations(s, i, n))].proposal = p
  BY DEF Reflects
<1>4. CASE \A role \in QuorumRole : Said(s, i, role, n) # {}
  <2>1. \A role \in QuorumRole :
          ballot[role] = Final(s, i, role, n) /\ ballot[role] \in QuorumVote /\ ballot[role] # NoVote
    BY <1>2, <1>4, NoneIsNone
  <2>2. Voters(ballot) = QuorumRole
    BY <2>1 DEF Voters
  <2>3. Approvals(ballot) = QuorumRole \ nays
    BY <2>1, <2>2 DEF Approvals
  <2>4. nays \in SUBSET QuorumRole
    OBVIOUS
  <2>5. Vetoed(ballot) <=> \/ \E role \in QuorumRole : Final(s, i, role, n).veto
                           \/ "security_auditor" \in nays
    BY <2>1, <2>2 DEF Vetoed, QuorumRole
  <2> HIDE DEF nays
  <2>6. /\ Cardinality(nays) \in 0 .. 3 /\ Cardinality(Approvals(ballot)) = 3 - Cardinality(nays)
        /\ Cardinality(Voters(ballot)) = 3
    BY <2>2, <2>3, <2>4, RoleCount
  <2>7. Passed(ballot, p.destructive) <=> Cardinality(nays) <= IF p.destructive THEN 0 ELSE 1
    BY <2>6 DEF Passed, RequiredRatio
  <2>8. Carried(s, i, n) <=>
          /\ \A role \in QuorumRole : ~Final(s, i, role, n).veto
          /\ "security_auditor" \notin nays
          /\ Cardinality(nays) <= IF p.destructive THEN 0 ELSE 1
    BY <1>3, <1>4 DEF Carried, nays
  <2> QED
    BY <1>1, <2>5, <2>7, <2>8
<1>5. CASE ~ \A role \in QuorumRole : Said(s, i, role, n) # {}
  <2>1. PICK role \in QuorumRole : ballot[role] = NoVote
    BY <1>2, <1>5
  <2>2. Voters(ballot) \in SUBSET QuorumRole /\ Voters(ballot) # QuorumRole
    BY <2>1 DEF Voters
  <2>3. Cardinality(Voters(ballot)) \in 0 .. 3 /\ Cardinality(Voters(ballot)) # 3
    BY <2>2, RoleCount
  <2>4. ~Passed(ballot, p.destructive)
    BY <2>3 DEF Passed
  <2> QED
    BY <1>1, <1>5, <2>4 DEF Carried
<1> QED
  BY <1>4, <1>5

-----------------------------------------------------------------------------
\* The result of i is what the calls it followed carry.
Judged(i) ==
  results[i] # NoResult =>
    /\ Registrations(calls, i, results[i].after) # {}
    /\ results[i].status = "APPROVED" <=> Carried(calls, i, results[i].after)

QuorumInv ==
  /\ QuorumTypeOK
  /\ calls \in Seq(QuorumCall) /\ proposals \in [ProposalIds -> Actions \cup {NoProposal}]
  /\ \A i \in ProposalIds : Reflects(calls, i, proposals[i], votes[i]) /\ Judged(i)

\* The invariant at the start.
LEMMA QuorumStart == QuorumInit => QuorumInv
<1> SUFFICES ASSUME QuorumInit PROVE QuorumInv
  OBVIOUS
<1>1. /\ proposals = [i \in ProposalIds |-> NoProposal]
      /\ votes = [i \in ProposalIds |-> [role \in QuorumRole |-> NoVote]]
      /\ results = [i \in ProposalIds |-> NoResult] /\ calls = <<>>
  BY DEF QuorumInit
<1>2. Len(calls) = 0 /\ calls \in Seq(QuorumCall)
  BY <1>1
<1>3. NoResult \in [status : QuorumStatus \cup {"none"}, after : 0 .. Len(calls)]
  BY <1>2 DEF NoResult
<1>4. QuorumTypeOK
  BY <1>1, <1>3 DEF QuorumTypeOK
<1>5. \A i, role : Said(calls, i, role, 0) = {}
  BY DEF Said, Since
<1>6. \A i \in ProposalIds : Reflects(calls, i, proposals[i], votes[i]) /\ Judged(i)
  BY <1>1, <1>2, <1>5 DEF Reflects, Judged
<1> QED
  BY <1>1, <1>2, <1>4, <1>6 DEF QuorumInv

\* What was judged stays judged while calls are only added.
LEMMA JudgedStays ==
  ASSUME QuorumInv, NEW i \in ProposalIds, results'[i] = results[i],
         Len(calls') >= Len(calls), \A k \in 1 .. Len(calls) : calls'[k] = calls[k]
  PROVE  Judged(i)'
<1> SUFFICES ASSUME results[i] # NoResult
             PROVE  /\ Registrations(calls', i, results[i].after) # {}
                    /\ results[i].status = "APPROVED" <=> Carried(calls', i, results[i].after)
  BY DEF Judged
<1>1. /\ Registrations(calls, i, results[i].after) # {}
      /\ results[i].status = "APPROVED" <=> Carried(calls, i, results[i].after)
  BY DEF QuorumInv, Judged
<1>2. results[i] \in [status : QuorumStatus \cup {"none"}, after : 0 .. Len(calls)]
  BY DEF QuorumInv, QuorumTypeOK
<1>3. results[i].after \in Nat /\ results[i].after <= Len(calls) /\ Len(calls) \in Nat
  BY <1>2 DEF QuorumInv
<1>4. \A k \in 1 .. results[i].after : calls'[k] = calls[k]
  BY <1>3
<1>5. Registrations(calls', i, results[i].after) = Registrations(calls, i, results[i].after)
  BY <1>4 DEF Registrations
<1>6. Carried(calls', i, results[i].after) <=> Carried(calls, i, results[i].after)
  BY <1>1, <1>3, <1>4, CarriedPrefix
<1> QED
  BY <1>1, <1>5, <1>6

\* A result keeps its type when there are more calls.
LEMMA ResultTypes ==
  ASSUME QuorumInv, NEW m \in Nat, m >= Len(calls), NEW i \in ProposalIds
  PROVE  results[i] \in [status : QuorumStatus \cup {"none"}, after : 0 .. m]
<1>1. results[i] \in [status : QuorumStatus \cup {"none"}, after : 0 .. Len(calls)]
  BY DEF QuorumInv, QuorumTypeOK
<1>2. Len(calls) \in Nat
  BY DEF QuorumInv
<1> QED
  BY <1>1, <1>2

\* Registering a proposal, the first time or again, keeps the invariant.
LEMMA CreateKept ==
  ASSUME QuorumInv, NEW i \in ProposalIds, NEW p \in Actions, createProposal(i, p)
  PROVE  QuorumInv'
<1> USE DEF QuorumInv
<1>1. /\ proposals' = [proposals EXCEPT ![i] = p] /\ votes' = [votes EXCEPT ![i] = FreshBallot(i)]
      /\ calls' = Append(calls, Registered(i, p)) /\ results' = results
  BY DEF createProposal
<1>2. Registered(i, p) \in QuorumCall /\ Registered(i, p).id = i
  BY CallTypes
<1>3. /\ calls' \in Seq(QuorumCall) /\ Len(calls') = Len(calls) + 1 /\ Len(calls) \in Nat
      /\ \A k \in 1 .. Len(calls) : calls'[k] = calls[k]
  BY <1>1, <1>2
<1>4. /\ proposals' \in [ProposalIds -> Actions \cup {NoProposal}]
      /\ proposals'[i] = p /\ \A j \in ProposalIds \ {i} : proposals'[j] = proposals[j]
  BY <1>1
<1>5. FreshBallot(i) \in [QuorumRole -> QuorumVote \cup {NoVote}]
  BY DEF FreshBallot
<1>6. /\ votes' \in [ProposalIds -> [QuorumRole -> QuorumVote \cup {NoVote}]]
      /\ votes'[i] = FreshBallot(i) /\ \A j \in ProposalIds \ {i} : votes'[j] = votes[j]
  BY <1>1, <1>5 DEF QuorumTypeOK
<1>7. Actions \subseteq Proposal
  BY QuorumAssumption DEF Proposal
<1>8. results' \in [ProposalIds -> [status : QuorumStatus \cup {"none"}, after : 0 .. Len(calls')]]
  <2>1. \A j \in ProposalIds :
          results[j] \in [status : QuorumStatus \cup {"none"}, after : 0 .. Len(calls')]
    BY <1>3, ResultTypes
  <2> QED
    BY <1>1, <2>1 DEF QuorumTypeOK
<1>9. QuorumTypeOK'
  BY <1>4, <1>6, <1>7, <1>8 DEF QuorumTypeOK
<1>10. ASSUME NEW j \in ProposalIds PROVE Reflects(calls', j, proposals'[j], votes'[j])
  <2>1. CASE j = i
    BY <1>1, <1>4, <1>6, <2>1, RegisteredReflects
  <2>2. CASE j # i
    <3>1. Reflects(calls, j, proposals[j], votes[j])
      OBVIOUS
    <3>2. Reflects(Append(calls, Registered(i, p)), j, proposals[j], votes[j])
      BY <1>2, <2>2, <3>1, OthersReflect
    <3> QED
      BY <1>1, <1>4, <1>6, <2>2, <3>2
  <2> QED
    BY <2>1, <2>2
<1>11. ASSUME NEW j \in ProposalIds PROVE Judged(j)'
  BY <1>1, <1>3, JudgedStays
<1> QED
  BY <1>3, <1>4, <1>9, <1>10, <1>11

\* Casting a vote keeps it, for every order of votes.
LEMMA VoteKept ==
  ASSUME QuorumInv, NEW i \in ProposalIds, NEW role \in QuorumRole, NEW vote \in QuorumVote,
         submitVote(i, role, vote)
  PROVE  QuorumInv'
<1> USE DEF QuorumInv
<1> DEFINE ballot == [votes[i] EXCEPT ![role] = vote]
<1>1. /\ proposals' = proposals /\ votes' = [votes EXCEPT ![i] = ballot]
      /\ calls' = Append(calls, Voted(i, role, vote)) /\ results' = results
  BY DEF submitVote
<1>2. Voted(i, role, vote) \in QuorumCall /\ Voted(i, role, vote).id = i
  BY CallTypes
<1>3. /\ calls' \in Seq(QuorumCall) /\ Len(calls') = Len(calls) + 1 /\ Len(calls) \in Nat
      /\ \A k \in 1 .. Len(calls) : calls'[k] = calls[k]
  BY <1>1, <1>2
<1>4. votes[i] \in [QuorumRole -> QuorumVote \cup {NoVote}]
  BY DEF QuorumTypeOK
<1>5. ballot \in [QuorumRole -> QuorumVote \cup {NoVote}]
  BY <1>4
<1>6. Reflects(calls', i, proposals[i], ballot)
  <2>1. Reflects(calls, i, proposals[i], votes[i])
    OBVIOUS
  <2> QED
    BY <1>1, <1>4, <2>1, VotedReflects
<1> HIDE DEF ballot
<1>7. /\ votes' \in [ProposalIds -> [QuorumRole -> QuorumVote \cup {NoVote}]]
      /\ votes'[i] = ballot /\ \A j \in ProposalIds \ {i} : votes'[j] = votes[j]
  BY <1>1, <1>5 DEF QuorumTypeOK
<1>8. results' \in [ProposalIds -> [status : QuorumStatus \cup {"none"}, after : 0 .. Len(calls')]]
  <2>1. \A j \in ProposalIds :
          results[j] \in [status : QuorumStatus \cup {"none"}, after : 0 .. Len(calls')]
    BY <1>3, ResultTypes
  <2> QED
    BY <1>1, <2>1 DEF QuorumTypeOK
<1>9. QuorumTypeOK'
  BY <1>1, <1>7, <1>8 DEF QuorumTypeOK
<1>10. ASSUME NEW j \in ProposalIds PROVE Reflects(calls', j, proposals'[j], votes'[j])
  <2>1. CASE j = i
    BY <1>1, <1>6, <1>7, <2>1
  <2>2. CASE j # i
    <3>1. Reflects(calls, j, proposals[j], votes[j])
      OBVIOUS
    <3>2. Reflects(Append(calls, Voted(i, role, vote)), j, proposals[j], votes[j])
      BY <1>2, <2>2, <3>1, OthersReflect
    <3> QED
      BY <1>1, <1>7, <2>2, <3>2
  <2> QED
    BY <2>1, <2>2
<1>11. ASSUME NEW j \in ProposalIds PROVE Judged(j)'
  BY <1>1, <1>3, JudgedStays
<1> QED
  BY <1>1, <1>3, <1>9, <1>10, <1>11

\* Registering a proposal with its three votes and adjudicating it keeps it.
LEMMA ProposeKept ==
  ASSUME QuorumInv, NEW i \in ProposalIds, NEW p \in Actions, Propose(i, p)
  PROVE  QuorumInv'
<1> USE DEF QuorumInv
<1> DEFINE yes == [approve |-> TRUE, veto |-> FALSE]
           ballot == [role \in QuorumRole |->
                        CASE role = "coder_proposer" -> yes
                          [] role = "security_auditor" -> AuditVote(p)
                          [] role = "chief_justice" -> JusticeVote(p)]
           c1 == Registered(i, p)
           c2 == Voted(i, "coder_proposer", yes)
           c3 == Voted(i, "security_auditor", AuditVote(p))
           c4 == Voted(i, "chief_justice", JusticeVote(p))
           s1 == Append(calls, c1)
           s2 == Append(s1, c2)
           s3 == Append(s2, c3)
           s4 == Append(s3, c4)
           b1 == [FreshBallot(i) EXCEPT !["coder_proposer"] = yes]
           b2 == [b1 EXCEPT !["security_auditor"] = AuditVote(p)]
           b3 == [b2 EXCEPT !["chief_justice"] = JusticeVote(p)]
           Ballot == [QuorumRole -> QuorumVote \cup {NoVote}]
<1>1. /\ "coder_proposer" \in QuorumRole /\ "security_auditor" \in QuorumRole
      /\ "chief_justice" \in QuorumRole
  BY DEF QuorumRole
<1>2. p \in Proposal /\ p # NoProposal /\ p.destructive \in BOOLEAN
  BY NoneIsNone, QuorumAssumption DEF Proposal
<1>3. yes \in QuorumVote /\ AuditVote(p) \in QuorumVote /\ JusticeVote(p) \in QuorumVote
  BY <1>2 DEF QuorumVote, AuditVote, JusticeVote, Proposal
<1>4. /\ c1 \in QuorumCall /\ c2 \in QuorumCall /\ c3 \in QuorumCall /\ c4 \in QuorumCall
      /\ c1.id = i /\ c2.id = i /\ c3.id = i /\ c4.id = i
  BY <1>1, <1>3, CallTypes
<1>5. ballot = b3
  BY DEF FreshBallot, QuorumRole
<1>6. FreshBallot(i) \in Ballot /\ b1 \in Ballot /\ b2 \in Ballot /\ b3 \in Ballot
  BY <1>1, <1>3 DEF FreshBallot
<1>7. /\ proposals' = [proposals EXCEPT ![i] = p] /\ votes' = [votes EXCEPT ![i] = ballot]
      /\ calls' = calls \o <<c1, c2, c3, c4>>
      /\ results' = [results EXCEPT ![i] =
           [status |-> Status(ballot, p.destructive), after |-> Len(calls')]]
  <2>1. ballot["coder_proposer"] = yes
    BY <1>1
  <2> QED
    BY <2>1 DEF Propose
<1> HIDE DEF yes, ballot, c1, c2, c3, c4
<1>8. s1 \in Seq(QuorumCall) /\ s2 \in Seq(QuorumCall) /\ s3 \in Seq(QuorumCall) /\ s4 \in Seq(QuorumCall)
  BY <1>4
<1>9. s4 = calls \o <<c1, c2, c3, c4>>
  BY <1>4
<1>10. /\ calls' \in Seq(QuorumCall) /\ Len(calls') = Len(calls) + 4 /\ Len(calls) \in Nat
       /\ \A k \in 1 .. Len(calls) : calls'[k] = calls[k]
  BY <1>4, <1>7
<1>11. Reflects(s4, i, p, b3)
  <2>1. Reflects(s1, i, p, FreshBallot(i))
    BY RegisteredReflects DEF c1
  <2> HIDE DEF s1
  <2>2. Reflects(s2, i, p, b1)
    BY <1>1, <1>3, <1>6, <1>8, <2>1, VotedReflects DEF c2
  <2> HIDE DEF s2, b1
  <2>3. Reflects(s3, i, p, b2)
    BY <1>1, <1>3, <1>6, <1>8, <2>2, VotedReflects DEF c3
  <2> HIDE DEF s3, b2
  <2> QED
    BY <1>1, <1>3, <1>6, <1>8, <2>3, VotedReflects DEF c4
<1>12. Reflects(calls', i, p, ballot)
  BY <1>5, <1>7, <1>9, <1>11
<1>13. ASSUME NEW j \in ProposalIds, j # i PROVE Reflects(calls', j, proposals[j], votes[j])
  <2>1. Reflects(calls, j, proposals[j], votes[j])
    OBVIOUS
  <2>2. Reflects(s1, j, proposals[j], votes[j])
    BY <1>4, <1>13, <2>1, OthersReflect
  <2> HIDE DEF s1
  <2>3. Reflects(s2, j, proposals[j], votes[j])
    BY <1>4, <1>8, <1>13, <2>2, OthersReflect
  <2> HIDE DEF s2
  <2>4. Reflects(s3, j, proposals[j], votes[j])
    BY <1>4, <1>8, <1>13, <2>3, OthersReflect
  <2> HIDE DEF s3
  <2>5. Reflects(s4, j, proposals[j], votes[j])
    BY <1>4, <1>8, <1>13, <2>4, OthersReflect
  <2> HIDE DEF s4
  <2> QED
    BY <1>7, <1>9, <2>5
<1> HIDE DEF s1, s2, s3, s4, b1, b2, b3
<1>14. /\ proposals' \in [ProposalIds -> Actions \cup {NoProposal}]
       /\ proposals'[i] = p /\ \A j \in ProposalIds \ {i} : proposals'[j] = proposals[j]
  BY <1>7
<1>15. /\ votes' \in [ProposalIds -> [QuorumRole -> QuorumVote \cup {NoVote}]]
       /\ votes'[i] = ballot /\ \A j \in ProposalIds \ {i} : votes'[j] = votes[j]
  BY <1>5, <1>6, <1>7 DEF QuorumTypeOK
<1> DEFINE result == [status |-> Status(ballot, p.destructive), after |-> Len(calls')]
<1>16. /\ result \in [status : QuorumStatus \cup {"none"}, after : 0 .. Len(calls')]
       /\ result.after = Len(calls') /\ result.status = Status(ballot, p.destructive)
  BY <1>10 DEF Status, QuorumStatus
<1>17. results' = [results EXCEPT ![i] = result]
  BY <1>7
<1> HIDE DEF result
<1>18. /\ results' \in [ProposalIds -> [status : QuorumStatus \cup {"none"}, after : 0 .. Len(calls')]]
       /\ results'[i] = result /\ \A j \in ProposalIds \ {i} : results'[j] = results[j]
  <2>1. \A j \in ProposalIds :
          results[j] \in [status : QuorumStatus \cup {"none"}, after : 0 .. Len(calls')]
    BY <1>10, ResultTypes
  <2> QED
    BY <1>16, <1>17, <2>1 DEF QuorumTypeOK
<1>19. Actions \subseteq Proposal
  BY QuorumAssumption DEF Proposal
<1>20. QuorumTypeOK'
  BY <1>14, <1>15, <1>18, <1>19 DEF QuorumTypeOK
<1>21. ASSUME NEW j \in ProposalIds PROVE Reflects(calls', j, proposals'[j], votes'[j])
  BY <1>12, <1>13, <1>14, <1>15
<1>22. ASSUME NEW j \in ProposalIds PROVE Judged(j)'
  <2>1. CASE j = i
    <3>1. Registrations(calls', i, Len(calls')) # {}
      BY <1>2, <1>12 DEF Reflects
    <3>2. result.status = "APPROVED" <=> Carried(calls', i, Len(calls'))
      BY <1>2, <1>12, <1>16, StatusCarries
    <3> QED
      BY <1>16, <1>18, <2>1, <3>1, <3>2 DEF Judged
  <2>2. CASE j # i
    <3>1. results'[j] = results[j] /\ Len(calls') >= Len(calls)
      BY <1>10, <1>18, <2>2
    <3> QED
      BY <1>10, <3>1, JudgedStays
  <2> QED
    BY <2>1, <2>2
<1> QED
  BY <1>10, <1>14, <1>20, <1>21, <1>22

\* Adjudicating what the ballots hold at that moment keeps it.
LEMMA AdjudicateKept ==
  ASSUME QuorumInv, NEW i \in ProposalIds, adjudicate(i)
  PROVE  QuorumInv'
<1> USE DEF QuorumInv
<1> DEFINE result == [status |-> Status(votes[i], proposals[i].destructive), after |-> Len(calls)]
<1>1. /\ proposals' = proposals /\ votes' = votes /\ calls' = calls
      /\ results' = [results EXCEPT ![i] = result] /\ proposals[i] # NoProposal
  BY DEF adjudicate
<1>2. Len(calls) \in Nat
  OBVIOUS
<1>3. /\ result \in [status : QuorumStatus \cup {"none"}, after : 0 .. Len(calls)]
      /\ result.after = Len(calls)
      /\ result.status = Status(votes[i], proposals[i].destructive)
  BY <1>2 DEF Status, QuorumStatus
<1> HIDE DEF result
<1>4. /\ results' \in [ProposalIds -> [status : QuorumStatus \cup {"none"}, after : 0 .. Len(calls)]]
      /\ results'[i] = result /\ \A j \in ProposalIds \ {i} : results'[j] = results[j]
  BY <1>1, <1>3 DEF QuorumTypeOK
<1>5. QuorumTypeOK'
  BY <1>1, <1>4 DEF QuorumTypeOK
<1>6. proposals[i].destructive \in BOOLEAN
  BY <1>1, QuorumAssumption
<1>7. ASSUME NEW j \in ProposalIds PROVE Judged(j)'
  <2>1. CASE j = i
    <3>1. Reflects(calls, i, proposals[i], votes[i])
      OBVIOUS
    <3>2. Registrations(calls, i, Len(calls)) # {}
      BY <1>1, <3>1 DEF Reflects
    <3>3. result.status = "APPROVED" <=> Carried(calls, i, Len(calls))
      BY <1>1, <1>3, <1>6, <3>1, StatusCarries
    <3> QED
      BY <1>1, <1>3, <1>4, <2>1, <3>2, <3>3 DEF Judged
  <2>2. CASE j # i
    BY <1>1, <1>2, <1>4, <2>2, JudgedStays
  <2> QED
    BY <2>1, <2>2
<1> QED
  BY <1>1, <1>5, <1>7

\* Every step keeps the invariant.
LEMMA QuorumStep == QuorumInv /\ [QuorumNext]_quorumVars => QuorumInv'
<1> SUFFICES ASSUME QuorumInv, [QuorumNext]_quorumVars PROVE QuorumInv'
  OBVIOUS
<1>1. ASSUME NEW i \in ProposalIds, NEW p \in Actions, createProposal(i, p) \/ Propose(i, p)
      PROVE  QuorumInv'
  BY <1>1, CreateKept, ProposeKept
<1>2. ASSUME NEW i \in ProposalIds, NEW role \in QuorumRole, NEW vote \in Ballots[role],
             submitVote(i, role, vote)
      PROVE  QuorumInv'
  <2>1. vote \in QuorumVote
    BY QuorumAssumption DEF QuorumVote, QuorumRole
  <2> QED
    BY <1>2, <2>1, VoteKept
<1>3. ASSUME NEW i \in ProposalIds, auditSecurity(i) \/ adjudicateChiefJustice(i)
      PROVE  QuorumInv'
  <2>1. proposals[i] # NoProposal /\ proposals[i] \in Proposal
    BY <1>3, QuorumAssumption DEF auditSecurity, adjudicateChiefJustice, QuorumInv, Proposal
  <2>2. AuditVote(proposals[i]) \in QuorumVote /\ JusticeVote(proposals[i]) \in QuorumVote
    BY <2>1 DEF AuditVote, JusticeVote, QuorumVote, Proposal
  <2>3. "security_auditor" \in QuorumRole /\ "chief_justice" \in QuorumRole
    BY DEF QuorumRole
  <2> QED
    BY <1>3, <2>2, <2>3, VoteKept DEF auditSecurity, adjudicateChiefJustice
<1>4. ASSUME NEW i \in ProposalIds, adjudicate(i)
      PROVE  QuorumInv'
  BY <1>4, AdjudicateKept
<1>5. CASE UNCHANGED quorumVars
  <2>1. proposals' = proposals /\ votes' = votes /\ results' = results /\ calls' = calls
    BY <1>5 DEF quorumVars
  <2> QED
    BY <2>1 DEF QuorumInv, QuorumTypeOK, Judged
<1> QED
  BY <1>1, <1>2, <1>3, <1>4, <1>5 DEF QuorumNext

\* In whatever order proposals are registered, again or anew, votes cast and adjudications
\* made, an adjudication approves just what the calls before it carry.
THEOREM QuorumAlwaysHolds == QuorumSpec => []QuorumHolds
<1>1. QuorumInit => QuorumInv
  BY QuorumStart
<1>2. QuorumInv /\ [QuorumNext]_quorumVars => QuorumInv'
  BY QuorumStep
<1>3. QuorumInv => QuorumHolds
  BY DEF QuorumInv, Judged, QuorumHolds
<1> QED
  BY <1>1, <1>2, <1>3, PTL DEF QuorumSpec

-----------------------------------------------------------------------------
\* The agents at work on the call c (its tool, its parameters), or on the path p.
BusyWith(c) == {a \in Busy : running[a].tool = c.tool /\ running[a].hash = c.hash}
BusyOn(p) == {a \in Busy : running[a].path = p}

Paths == {c.path : c \in ToolCalls} \ {NoPath}
Write == [path : Paths, timestamp : 0 .. MaxTime]

\* What was recorded and what is under way exceed a limit together by no more than the
\* agents beside the one that was allowed last.
Room(recorded, busy, limit) == Cardinality(recorded) + Cardinality(busy) <= limit + (flight - 1)

Counted ==
  /\ Room(DOMAIN trajectory, Busy, MaxSteps)
  /\ Room(CallsWithin(Short), Busy, MaxShort)
  /\ Room(CallsWithin(Long), Busy, MaxLong)
  /\ \A c \in ToolCalls : /\ Room(IdenticalFailures(c), BusyWith(c), MaxIdentical)
                          /\ Room(ConsecutiveFailures(c), BusyWith(c), MaxConsecutive)
  /\ \A p \in Paths : Room(RecentWrites(p), BusyOn(p), MaxThrash)

\* An agent that works alone is not about to alternate once more.
Steady == flight = 1 => \A a \in Busy : ~Oscillates(running[a])

\* What lies back: the windows that are over, the runs of failures that something ended,
\* and every turn of an agent that works alone.
Bounded(S, limit) == Cardinality(S) <= limit + (flight - 1)
WritesTo(p, t) == {i \in Between(fileWrites, t, Thrash) : fileWrites[i].path = p}
PastWindows ==
  \A t \in 0 .. MaxTime :
    /\ t + Short < now => Bounded(Between(trajectory, t, Short), MaxShort)
    /\ t + Long < now => Bounded(Between(trajectory, t, Long), MaxLong)
    /\ t + Thrash < now => \A p \in Paths : Bounded(WritesTo(p, t), MaxThrash)
RunOf(c, i, j) == \A k \in i .. j : Failed(trajectory[k], c)
PastRuns ==
  \A c \in ToolCalls : \A i, j \in DOMAIN trajectory :
    j < Len(trajectory) /\ RunOf(c, i, j) => j - i < MaxConsecutive + (flight - 1)
Alternates(n) ==
  LET tool(k) == trajectory[n - k].call.tool IN
  tool(0) = tool(2) /\ tool(2) = tool(4) /\ tool(1) = tool(3) /\ tool(0) # tool(1)
PastTurns == flight = 1 => \A n \in 5 .. Len(trajectory) : ~Alternates(n)

MonitorInv == MonitorTypeOK /\ Counted /\ Steady /\ PastWindows /\ PastRuns /\ PastTurns

\* A part of a finite set counts no more than the whole.
LEMMA PartCounts ==
  ASSUME NEW S, IsFiniteSet(S), NEW T, T \subseteq S
  PROVE  /\ IsFiniteSet(T) /\ Cardinality(T) \in Nat /\ Cardinality(S) \in Nat
         /\ Cardinality(T) <= Cardinality(S)
<1>1. T \in SUBSET S
  OBVIOUS
<1>2. IsFiniteSet(T) /\ Cardinality(T) <= Cardinality(S)
  BY <1>1, FS_Subset
<1> QED
  BY <1>2, FS_CardinalityType

\* The numbers up to n are n.
LEMMA CountTo ==
  ASSUME NEW n \in Nat
  PROVE  IsFiniteSet(1 .. n) /\ Cardinality(1 .. n) = n
<1>1. IsFiniteSet(1 .. n) /\ Cardinality(1 .. n) = IF 1 > n THEN 0 ELSE n - 1 + 1
  BY FS_Interval
<1> QED
  BY <1>1

\* The numbers from i to n.
LEMMA CountRange ==
  ASSUME NEW i \in Nat, NEW n \in Nat, i <= n
  PROVE  Cardinality(i .. n) = n - i + 1
<1>1. Cardinality(i .. n) = IF i > n THEN 0 ELSE n - i + 1
  BY FS_Interval
<1> QED
  BY <1>1

\* A count of what is recorded and of who is busy keeps to its limit when the record was
\* short of it, when neither grows, and when one who was busy becomes a record.
LEMMA RoomKept ==
  ASSUME NEW S, NEW T, NEW S2, NEW T2, NEW m \in Nat, NEW f \in Nat \ {0},
         IsFiniteSet(S), T \subseteq 1 .. f, IsFiniteSet(S2), T2 \subseteq 1 .. f,
         Cardinality(S) + Cardinality(T) <= m + (f - 1),
         \/ Cardinality(S2) < m
         \/ S2 \subseteq S /\ T2 \subseteq T
         \/ \E a \in T : \E x : T2 \subseteq T \ {a} /\ S2 \subseteq S \cup {x}
  PROVE  Cardinality(S2) + Cardinality(T2) <= m + (f - 1)
<1>1. IsFiniteSet(1 .. f) /\ Cardinality(1 .. f) = f
  BY FS_Interval
<1>2. /\ IsFiniteSet(T) /\ Cardinality(T) \in Nat
      /\ IsFiniteSet(T2) /\ Cardinality(T2) \in Nat /\ Cardinality(T2) <= f
  <2>1. IsFiniteSet(T) /\ Cardinality(T) \in Nat
    BY <1>1, PartCounts
  <2>2. IsFiniteSet(T2) /\ Cardinality(T2) \in Nat /\ Cardinality(T2) <= Cardinality(1 .. f)
    BY <1>1, PartCounts
  <2> QED
    BY <1>1, <2>1, <2>2
<1>3. Cardinality(S) \in Nat /\ Cardinality(S2) \in Nat
  BY FS_CardinalityType
<1>4. CASE Cardinality(S2) < m
  BY <1>2, <1>3, <1>4
<1>5. CASE S2 \subseteq S /\ T2 \subseteq T
  <2>1. Cardinality(S2) <= Cardinality(S) /\ Cardinality(T2) <= Cardinality(T)
    BY <1>2, <1>5, PartCounts
  <2> QED
    BY <1>2, <1>3, <2>1
<1>6. CASE \E a \in T : \E x : T2 \subseteq T \ {a} /\ S2 \subseteq S \cup {x}
  <2>1. PICK a \in T : \E x : T2 \subseteq T \ {a} /\ S2 \subseteq S \cup {x}
    BY <1>6
  <2>2. PICK x : T2 \subseteq T \ {a} /\ S2 \subseteq S \cup {x}
    BY <2>1
  <2>3. IsFiniteSet(T \ {a}) /\ Cardinality(T \ {a}) = Cardinality(T) - 1
    BY <1>2, <2>1, FS_RemoveElement
  <2>4. IsFiniteSet(S \cup {x}) /\ Cardinality(S \cup {x}) <= Cardinality(S) + 1
    <3>1. /\ IsFiniteSet(S \cup {x})
          /\ Cardinality(S \cup {x}) = IF x \in S THEN Cardinality(S) ELSE Cardinality(S) + 1
      BY FS_AddElement
    <3> QED
      BY <1>3, <3>1
  <2>5. Cardinality(T2) <= Cardinality(T) - 1
    BY <2>2, <2>3, PartCounts
  <2>7. Cardinality(S2) <= Cardinality(S \cup {x})
    BY <2>2, <2>4, PartCounts
  <2>6. Cardinality(S \cup {x}) \in Nat
    BY <2>4, FS_CardinalityType
  <2> QED
    BY <1>2, <1>3, <2>4, <2>5, <2>6, <2>7
<1> QED
  BY <1>4, <1>5, <1>6

-----------------------------------------------------------------------------
\* What the types say of the sets that are counted.
LEMMA MonitorFinite ==
  ASSUME MonitorTypeOK
  PROVE  /\ flight \in Nat \ {0} /\ Len(trajectory) \in Nat /\ Len(fileWrites) \in Nat
         /\ DOMAIN trajectory = 1 .. Len(trajectory) /\ DOMAIN fileWrites = 1 .. Len(fileWrites)
         /\ DOMAIN running = 1 .. flight
         /\ IsFiniteSet(DOMAIN trajectory) /\ IsFiniteSet(DOMAIN fileWrites)
         /\ Busy \subseteq 1 .. flight
         /\ \A a \in Busy : running[a] \in ToolCalls
         /\ \A i \in DOMAIN trajectory :
              /\ trajectory[i].call \in ToolCalls /\ trajectory[i].success \in BOOLEAN
              /\ trajectory[i].timestamp \in 0 .. MaxTime
         /\ \A i \in DOMAIN fileWrites : fileWrites[i].timestamp \in 0 .. MaxTime
<1>1. flight \in Nat \ {0} /\ DOMAIN running = 1 .. flight
  BY MonitorAssumption DEF MonitorTypeOK
<1>2. /\ Len(trajectory) \in Nat /\ DOMAIN trajectory = 1 .. Len(trajectory)
      /\ \A i \in DOMAIN trajectory : trajectory[i] \in TrajectoryStep
  BY DEF MonitorTypeOK
<1>3. /\ Len(fileWrites) \in Nat /\ DOMAIN fileWrites = 1 .. Len(fileWrites)
      /\ \A i \in DOMAIN fileWrites :
           fileWrites[i] \in Write
  <2>1. fileWrites \in Seq(Write)
    BY DEF MonitorTypeOK, Write, Paths
  <2> QED
    BY <2>1
<1>4. IsFiniteSet(1 .. Len(trajectory)) /\ IsFiniteSet(1 .. Len(fileWrites))
  BY <1>2, <1>3, FS_Interval
<1>5. Busy \subseteq 1 .. flight /\ \A a \in Busy : running[a] \in ToolCalls
  BY <1>1 DEF Busy, MonitorTypeOK
<1> QED
  BY <1>1, <1>2, <1>3, <1>4, <1>5 DEF TrajectoryStep, Write

\* One agent starts: nobody is recorded, one more is busy.
LEMMA CheckBusy ==
  ASSUME MonitorTypeOK, NEW a \in 1 .. flight, NEW c \in ToolCalls, checkInvariants(a, c)
  PROVE  /\ running' \in [1 .. flight -> ToolCalls \cup {NoCall}]
         /\ running'[a] = c /\ \A b \in 1 .. flight \ {a} : running'[b] = running[b]
         /\ Busy' = Busy \cup {a} /\ a \notin Busy
<1>1. running \in [1 .. flight -> ToolCalls \cup {NoCall}]
  BY DEF MonitorTypeOK
<1>2. running' = [running EXCEPT ![a] = c] /\ running[a] = NoCall
  BY DEF checkInvariants
<1>3. /\ running' \in [1 .. flight -> ToolCalls \cup {NoCall}]
      /\ running'[a] = c /\ \A b \in 1 .. flight \ {a} : running'[b] = running[b]
  BY <1>1, <1>2
<1>4. c # NoCall
  BY MonitorAssumption
<1> QED
  BY <1>1, <1>2, <1>3, <1>4 DEF Busy

\* One agent records: it is busy no more, and the trajectory is one step longer.
LEMMA RecordStep ==
  ASSUME MonitorTypeOK, NEW a \in 1 .. flight, NEW success \in BOOLEAN, recordStep(a, success)
  PROVE  LET c == running[a]
             n == Len(trajectory) + 1
             m == Len(fileWrites) + 1 IN
         /\ c \in ToolCalls /\ a \in Busy /\ Busy' = Busy \ {a}
         /\ running' \in [1 .. flight -> ToolCalls \cup {NoCall}]
         /\ \A b \in Busy' : running'[b] = running[b]
         /\ trajectory' \in Seq(TrajectoryStep) /\ Len(trajectory') = n
         /\ trajectory'[n] = [call |-> c, success |-> success, timestamp |-> now]
         /\ \A i \in 1 .. Len(trajectory) : trajectory'[i] = trajectory[i]
         /\ c.path = NoPath => fileWrites' = fileWrites
         /\ c.path # NoPath =>
              /\ c.path \in Paths
              /\ fileWrites' \in Seq(Write) /\ Len(fileWrites') = m
              /\ fileWrites'[m].path = c.path /\ fileWrites'[m].timestamp = now
              /\ \A i \in 1 .. Len(fileWrites) : fileWrites'[i] = fileWrites[i]
<1> DEFINE c == running[a]
           step == [call |-> c, success |-> success, timestamp |-> now]
           write == [path |-> c.path, timestamp |-> now]
<1>1. running \in [1 .. flight -> ToolCalls \cup {NoCall}] /\ now \in 0 .. MaxTime
  BY DEF MonitorTypeOK
<1>2. running' = [running EXCEPT ![a] = NoCall] /\ c # NoCall
  BY DEF recordStep
<1>3. /\ c \in ToolCalls /\ a \in Busy
      /\ running' \in [1 .. flight -> ToolCalls \cup {NoCall}]
      /\ running'[a] = NoCall /\ \A b \in 1 .. flight \ {a} : running'[b] = running[b]
  BY <1>1, <1>2 DEF Busy
<1>4. Busy' = Busy \ {a} /\ \A b \in Busy' : running'[b] = running[b]
  BY <1>1, <1>3 DEF Busy
<1>5. step \in TrajectoryStep
  BY <1>1, <1>3 DEF TrajectoryStep
<1>6. trajectory' = Append(trajectory, step) /\ trajectory \in Seq(TrajectoryStep)
  BY DEF recordStep, MonitorTypeOK
<1> HIDE DEF step
<1>7. /\ trajectory' \in Seq(TrajectoryStep) /\ Len(trajectory') = Len(trajectory) + 1
      /\ trajectory'[Len(trajectory) + 1] = step
      /\ \A i \in 1 .. Len(trajectory) : trajectory'[i] = trajectory[i]
  BY <1>5, <1>6
<1>8. c.path = NoPath => fileWrites' = fileWrites
  BY DEF recordStep
<1>9. ASSUME c.path # NoPath
      PROVE  /\ c.path \in Paths
             /\ fileWrites' \in Seq(Write)
             /\ Len(fileWrites') = Len(fileWrites) + 1
             /\ fileWrites'[Len(fileWrites) + 1].path = c.path
             /\ fileWrites'[Len(fileWrites) + 1].timestamp = now
             /\ \A i \in 1 .. Len(fileWrites) : fileWrites'[i] = fileWrites[i]
  <2>1. c.path \in Paths
    BY <1>3, <1>9 DEF Paths
  <2>2. write \in Write /\ write.path = c.path /\ write.timestamp = now
    BY <1>1, <2>1 DEF Write
  <2>3. fileWrites' = Append(fileWrites, write) /\ fileWrites \in Seq(Write)
    BY <1>9 DEF recordStep, MonitorTypeOK, Paths, Write
  <2> HIDE DEF write
  <2> QED
    BY <2>1, <2>2, <2>3
<1> QED
  BY <1>3, <1>4, <1>7, <1>8, <1>9 DEF step

\* Every step keeps the types.
LEMMA MonitorTypes ==
  ASSUME MonitorTypeOK, [MonitorNext]_monitorVars
  PROVE  MonitorTypeOK'
<1>1. CASE UNCHANGED monitorVars
  BY <1>1 DEF monitorVars, MonitorTypeOK
<1>2. ASSUME NEW a \in 1 .. flight, NEW c \in ToolCalls, checkInvariants(a, c)
      PROVE  MonitorTypeOK'
  BY <1>2, CheckBusy DEF MonitorTypeOK, checkInvariants
<1>3. ASSUME NEW a \in 1 .. flight, NEW success \in BOOLEAN, recordStep(a, success)
      PROVE  MonitorTypeOK'
  <2>1. flight' = flight /\ now' = now
    BY <1>3 DEF recordStep
  <2> QED
    BY <1>3, <2>1, RecordStep DEF MonitorTypeOK, Paths, Write
<1>4. CASE reset
  BY <1>4 DEF MonitorTypeOK, reset
<1>5. CASE Pass
  BY <1>5, MonitorAssumption DEF MonitorTypeOK, Pass
<1> QED
  BY <1>1, <1>2, <1>3, <1>4, <1>5 DEF MonitorNext

-----------------------------------------------------------------------------
\* How a step may move a count of records S and of busy agents T, to S2 and T2.
Shift(S, T, S2, T2, limit) ==
  \/ Cardinality(S2) < limit
  \/ S2 \subseteq S /\ T2 \subseteq T
  \/ \E a \in T : \E x : T2 \subseteq T \ {a} /\ S2 \subseteq S \cup {x}

Shifted ==
  /\ Shift(DOMAIN trajectory, Busy, DOMAIN trajectory', Busy', MaxSteps)
  /\ Shift(CallsWithin(Short), Busy, CallsWithin(Short)', Busy', MaxShort)
  /\ Shift(CallsWithin(Long), Busy, CallsWithin(Long)', Busy', MaxLong)
  /\ \A c \in ToolCalls :
       /\ Shift(IdenticalFailures(c), BusyWith(c), IdenticalFailures(c)', BusyWith(c)', MaxIdentical)
       /\ Shift(ConsecutiveFailures(c), BusyWith(c), ConsecutiveFailures(c)', BusyWith(c)',
                MaxConsecutive)
  /\ \A p \in Paths : Shift(RecentWrites(p), BusyOn(p), RecentWrites(p)', BusyOn(p)', MaxThrash)

\* A shift leaves the room there was.
LEMMA ShiftRoom ==
  ASSUME NEW S, NEW T, NEW S2, NEW T2, NEW m \in Nat \ {0}, NEW f \in Nat \ {0},
         IsFiniteSet(S), T \subseteq 1 .. f, IsFiniteSet(S2), T2 \subseteq 1 .. f,
         Cardinality(S) + Cardinality(T) <= m + (f - 1),
         Shift(S, T, S2, T2, m)
  PROVE  Cardinality(S2) + Cardinality(T2) <= m + (f - 1)
BY RoomKept DEF Shift

\* A step that shifts every record, and the agents beside it, keeps every count.
LEMMA ShiftedCounts ==
  ASSUME MonitorTypeOK, MonitorTypeOK', flight' = flight, Counted, Shifted
  PROVE  Counted'
<1>1. /\ flight \in Nat \ {0} /\ Busy \subseteq 1 .. flight
      /\ IsFiniteSet(DOMAIN trajectory) /\ IsFiniteSet(DOMAIN fileWrites)
  BY MonitorFinite
<1>2. IsFiniteSet(DOMAIN trajectory') /\ IsFiniteSet(DOMAIN fileWrites')
  <2>1. Len(trajectory') \in Nat /\ DOMAIN trajectory' = 1 .. Len(trajectory')
    BY DEF MonitorTypeOK
  <2>2. Len(fileWrites') \in Nat /\ DOMAIN fileWrites' = 1 .. Len(fileWrites')
    <3>1. fileWrites' \in Seq(Write)
      BY DEF MonitorTypeOK, Write, Paths
    <3> QED
      BY <3>1
  <2> QED
    BY <2>1, <2>2, FS_Interval
<1>3. Busy' \subseteq 1 .. flight
  BY DEF Busy, MonitorTypeOK
<1>4. /\ MaxSteps \in Nat \ {0} /\ MaxShort \in Nat \ {0} /\ MaxLong \in Nat \ {0}
      /\ MaxIdentical \in Nat \ {0} /\ MaxConsecutive \in Nat \ {0} /\ MaxThrash \in Nat \ {0}
  BY MonitorAssumption
<1>5. Room(DOMAIN trajectory, Busy, MaxSteps)'
  <2>1. Cardinality(DOMAIN trajectory) + Cardinality(Busy) <= MaxSteps + (flight - 1)
    BY DEF Counted, Room
  <2>2. Shift(DOMAIN trajectory, Busy, DOMAIN trajectory', Busy', MaxSteps)
    BY DEF Shifted
  <2>3. Cardinality(DOMAIN trajectory') + Cardinality(Busy') <= MaxSteps + (flight - 1)
    BY <1>1, <1>2, <1>3, <1>4, <2>1, <2>2, ShiftRoom
  <2> QED
    BY <2>3 DEF Room
<1>6. Room(CallsWithin(Short), Busy, MaxShort)'
  <2>1. Cardinality(CallsWithin(Short)) + Cardinality(Busy) <= MaxShort + (flight - 1)
    BY DEF Counted, Room
  <2>2. Shift(CallsWithin(Short), Busy, CallsWithin(Short)', Busy', MaxShort)
    BY DEF Shifted
  <2>3. CallsWithin(Short) \subseteq DOMAIN trajectory /\ CallsWithin(Short)' \subseteq DOMAIN trajectory'
    BY DEF CallsWithin
  <2>4. IsFiniteSet(CallsWithin(Short)) /\ IsFiniteSet(CallsWithin(Short)')
    BY <1>1, <1>2, <2>3, PartCounts
  <2>5. Cardinality(CallsWithin(Short)') + Cardinality(Busy') <= MaxShort + (flight - 1)
    BY <1>1, <1>3, <1>4, <2>1, <2>2, <2>4, ShiftRoom
  <2> QED
    BY <2>5 DEF Room
<1>7. Room(CallsWithin(Long), Busy, MaxLong)'
  <2>1. Cardinality(CallsWithin(Long)) + Cardinality(Busy) <= MaxLong + (flight - 1)
    BY DEF Counted, Room
  <2>2. Shift(CallsWithin(Long), Busy, CallsWithin(Long)', Busy', MaxLong)
    BY DEF Shifted
  <2>3. CallsWithin(Long) \subseteq DOMAIN trajectory /\ CallsWithin(Long)' \subseteq DOMAIN trajectory'
    BY DEF CallsWithin
  <2>4. IsFiniteSet(CallsWithin(Long)) /\ IsFiniteSet(CallsWithin(Long)')
    BY <1>1, <1>2, <2>3, PartCounts
  <2>5. Cardinality(CallsWithin(Long)') + Cardinality(Busy') <= MaxLong + (flight - 1)
    BY <1>1, <1>3, <1>4, <2>1, <2>2, <2>4, ShiftRoom
  <2> QED
    BY <2>5 DEF Room
<1>8. ASSUME NEW c \in ToolCalls
      PROVE  /\ Room(IdenticalFailures(c), BusyWith(c), MaxIdentical)'
             /\ Room(ConsecutiveFailures(c), BusyWith(c), MaxConsecutive)'
  <2>1. /\ Cardinality(IdenticalFailures(c)) + Cardinality(BusyWith(c)) <= MaxIdentical + (flight - 1)
        /\ Cardinality(ConsecutiveFailures(c)) + Cardinality(BusyWith(c))
             <= MaxConsecutive + (flight - 1)
    BY DEF Counted, Room
  <2>2. /\ Shift(IdenticalFailures(c), BusyWith(c), IdenticalFailures(c)', BusyWith(c)', MaxIdentical)
        /\ Shift(ConsecutiveFailures(c), BusyWith(c), ConsecutiveFailures(c)', BusyWith(c)',
                 MaxConsecutive)
    BY DEF Shifted
  <2>3. /\ IdenticalFailures(c) \subseteq DOMAIN trajectory
        /\ IdenticalFailures(c)' \subseteq DOMAIN trajectory'
        /\ ConsecutiveFailures(c) \subseteq DOMAIN trajectory
        /\ ConsecutiveFailures(c)' \subseteq DOMAIN trajectory'
    BY DEF IdenticalFailures, ConsecutiveFailures
  <2>4. /\ IsFiniteSet(IdenticalFailures(c)) /\ IsFiniteSet(IdenticalFailures(c)')
        /\ IsFiniteSet(ConsecutiveFailures(c)) /\ IsFiniteSet(ConsecutiveFailures(c)')
    BY <1>1, <1>2, <2>3, PartCounts
  <2>5. BusyWith(c) \subseteq 1 .. flight /\ BusyWith(c)' \subseteq 1 .. flight
    BY <1>1, <1>3 DEF BusyWith
  <2>6. Cardinality(IdenticalFailures(c)') + Cardinality(BusyWith(c)') <= MaxIdentical + (flight - 1)
    BY <1>1, <1>4, <2>1, <2>2, <2>4, <2>5, ShiftRoom
  <2>7. Cardinality(ConsecutiveFailures(c)') + Cardinality(BusyWith(c)')
          <= MaxConsecutive + (flight - 1)
    BY <1>1, <1>4, <2>1, <2>2, <2>4, <2>5, ShiftRoom
  <2> QED
    BY <2>6, <2>7 DEF Room
<1>9. ASSUME NEW p \in Paths
      PROVE  Room(RecentWrites(p), BusyOn(p), MaxThrash)'
  <2>1. Cardinality(RecentWrites(p)) + Cardinality(BusyOn(p)) <= MaxThrash + (flight - 1)
    BY DEF Counted, Room
  <2>2. Shift(RecentWrites(p), BusyOn(p), RecentWrites(p)', BusyOn(p)', MaxThrash)
    BY DEF Shifted
  <2>3. RecentWrites(p) \subseteq DOMAIN fileWrites /\ RecentWrites(p)' \subseteq DOMAIN fileWrites'
    BY DEF RecentWrites
  <2>4. IsFiniteSet(RecentWrites(p)) /\ IsFiniteSet(RecentWrites(p)')
    BY <1>1, <1>2, <2>3, PartCounts
  <2>5. BusyOn(p) \subseteq 1 .. flight /\ BusyOn(p)' \subseteq 1 .. flight
    BY <1>1, <1>3 DEF BusyOn
  <2>6. Cardinality(RecentWrites(p)') + Cardinality(BusyOn(p)') <= MaxThrash + (flight - 1)
    BY <1>1, <1>4, <2>1, <2>2, <2>4, <2>5, ShiftRoom
  <2> QED
    BY <2>6 DEF Room
<1> QED
  BY <1>5, <1>6, <1>7, <1>8, <1>9 DEF Counted, Paths

\* An agent starts: the limits it was checked against had room.
LEMMA CheckShifts ==
  ASSUME MonitorTypeOK, NEW a \in 1 .. flight, NEW c \in ToolCalls, checkInvariants(a, c)
  PROVE  Shifted
<1>1. trajectory' = trajectory /\ fileWrites' = fileWrites /\ now' = now
  BY DEF checkInvariants
<1>2. /\ running'[a] = c /\ \A b \in Busy : running'[b] = running[b]
      /\ Busy' = Busy \cup {a} /\ a \notin Busy
  BY CheckBusy, MonitorFinite
<1>3. /\ Len(trajectory) < MaxSteps
      /\ Cardinality(CallsWithin(Short)) < MaxShort
      /\ Cardinality(CallsWithin(Long)) < MaxLong
      /\ Cardinality(IdenticalFailures(c)) < MaxIdentical
      /\ c.path # NoPath => Cardinality(RecentWrites(c.path)) < MaxThrash
      /\ Cardinality(ConsecutiveFailures(c)) < MaxConsecutive
  BY DEF checkInvariants, Allowed, AllowedUncounted
<1>4. /\ CallsWithin(Short)' = CallsWithin(Short) /\ CallsWithin(Long)' = CallsWithin(Long)
      /\ \A d : /\ IdenticalFailures(d)' = IdenticalFailures(d)
                /\ ConsecutiveFailures(d)' = ConsecutiveFailures(d)
                /\ RecentWrites(d)' = RecentWrites(d)
  BY <1>1 DEF CallsWithin, IdenticalFailures, ConsecutiveFailures, RecentWrites
<1>5. Cardinality(DOMAIN trajectory') < MaxSteps
  <2>1. DOMAIN trajectory' = 1 .. Len(trajectory) /\ Len(trajectory) \in Nat
    BY <1>1, MonitorFinite
  <2>2. Cardinality(1 .. Len(trajectory)) = Len(trajectory)
    BY <2>1, CountTo
  <2> QED
    BY <1>3, <2>1, <2>2
<1>6. ASSUME NEW d \in ToolCalls
      PROVE  /\ Shift(IdenticalFailures(d), BusyWith(d), IdenticalFailures(d)', BusyWith(d)',
                      MaxIdentical)
             /\ Shift(ConsecutiveFailures(d), BusyWith(d), ConsecutiveFailures(d)', BusyWith(d)',
                      MaxConsecutive)
  <2>1. CASE d.tool = c.tool /\ d.hash = c.hash
    <3>1. IdenticalFailures(d) = IdenticalFailures(c) /\ ConsecutiveFailures(d) = ConsecutiveFailures(c)
      BY <2>1 DEF IdenticalFailures, ConsecutiveFailures, Failed
    <3> QED
      BY <1>3, <1>4, <3>1 DEF Shift
  <2>2. CASE ~(d.tool = c.tool /\ d.hash = c.hash)
    <3>1. BusyWith(d)' = {b \in Busy' : running'[b].tool = d.tool /\ running'[b].hash = d.hash}
      BY DEF BusyWith
    <3>2. BusyWith(d)' \subseteq BusyWith(d)
      BY <1>2, <2>2, <3>1 DEF BusyWith
    <3> QED
      BY <1>4, <3>2 DEF Shift
  <2> QED
    BY <2>1, <2>2
<1>7. ASSUME NEW p \in Paths
      PROVE  Shift(RecentWrites(p), BusyOn(p), RecentWrites(p)', BusyOn(p)', MaxThrash)
  <2>1. CASE p = c.path
    BY <1>3, <1>4, <2>1 DEF Shift, Paths
  <2>2. CASE p # c.path
    <3>1. BusyOn(p)' = {b \in Busy' : running'[b].path = p}
      BY DEF BusyOn
    <3>2. BusyOn(p)' \subseteq BusyOn(p)
      BY <1>2, <2>2, <3>1 DEF BusyOn
    <3> QED
      BY <1>4, <3>2 DEF Shift
  <2> QED
    BY <2>1, <2>2
<1>8. /\ Shift(CallsWithin(Short), Busy, CallsWithin(Short)', Busy', MaxShort)
      /\ Shift(CallsWithin(Long), Busy, CallsWithin(Long)', Busy', MaxLong)
      /\ Shift(DOMAIN trajectory, Busy, DOMAIN trajectory', Busy', MaxSteps)
  BY <1>3, <1>4, <1>5 DEF Shift
<1> QED
  BY <1>6, <1>7, <1>8 DEF Shifted

\* An agent records: one busy less, one record more at most.
LEMMA RecordShifts ==
  ASSUME MonitorTypeOK, NEW a \in 1 .. flight, NEW success \in BOOLEAN, recordStep(a, success)
  PROVE  Shifted
<1> DEFINE c == running[a]
           n == Len(trajectory) + 1
           m == Len(fileWrites) + 1
<1>1. now' = now
  BY DEF recordStep
<1>2. /\ c \in ToolCalls /\ a \in Busy /\ Busy' = Busy \ {a}
      /\ \A b \in Busy' : running'[b] = running[b]
      /\ trajectory' \in Seq(TrajectoryStep) /\ Len(trajectory') = n
      /\ trajectory'[n].call = c
      /\ \A i \in 1 .. Len(trajectory) : trajectory'[i] = trajectory[i]
      /\ c.path = NoPath => fileWrites' = fileWrites
      /\ c.path # NoPath =>
           /\ fileWrites' \in Seq(Write) /\ Len(fileWrites') = m /\ fileWrites'[m].path = c.path
           /\ \A i \in 1 .. Len(fileWrites) : fileWrites'[i] = fileWrites[i]
  <2>1. trajectory'[n] = [call |-> c, success |-> success, timestamp |-> now]
    BY RecordStep
  <2>2. trajectory'[n].call = c
    BY <2>1
  <2> QED
    BY <2>2, RecordStep
<1>3. /\ Len(trajectory) \in Nat /\ DOMAIN trajectory = 1 .. Len(trajectory)
      /\ Len(fileWrites) \in Nat /\ DOMAIN fileWrites = 1 .. Len(fileWrites)
  BY MonitorFinite
<1>4. DOMAIN trajectory' = DOMAIN trajectory \cup {n} /\ n \notin DOMAIN trajectory
  BY <1>2, <1>3
<1>8. c.path # NoPath => DOMAIN fileWrites' = DOMAIN fileWrites \cup {m}
  <2> SUFFICES ASSUME c.path # NoPath PROVE DOMAIN fileWrites' = DOMAIN fileWrites \cup {m}
    OBVIOUS
  <2>1. fileWrites' \in Seq(Write) /\ Len(fileWrites') = m
    BY <1>2
  <2>2. DOMAIN fileWrites' = 1 .. Len(fileWrites')
    BY <2>1
  <2> QED
    BY <1>3, <2>1, <2>2
<1>5. /\ Shift(DOMAIN trajectory, Busy, DOMAIN trajectory', Busy', MaxSteps)
      /\ Shift(CallsWithin(Short), Busy, CallsWithin(Short)', Busy', MaxShort)
      /\ Shift(CallsWithin(Long), Busy, CallsWithin(Long)', Busy', MaxLong)
  <2>1. /\ CallsWithin(Short)' \subseteq CallsWithin(Short) \cup {n}
        /\ CallsWithin(Long)' \subseteq CallsWithin(Long) \cup {n}
    BY <1>1, <1>2, <1>3, <1>4 DEF CallsWithin
  <2> QED
    BY <1>2, <1>4, <2>1 DEF Shift
<1>6. ASSUME NEW d \in ToolCalls
      PROVE  /\ Shift(IdenticalFailures(d), BusyWith(d), IdenticalFailures(d)', BusyWith(d)',
                      MaxIdentical)
             /\ Shift(ConsecutiveFailures(d), BusyWith(d), ConsecutiveFailures(d)', BusyWith(d)',
                      MaxConsecutive)
  <2>1. /\ BusyWith(d)' = {b \in Busy' : running'[b].tool = d.tool /\ running'[b].hash = d.hash}
        /\ BusyWith(d)' \subseteq BusyWith(d) \ {a}
    BY <1>2 DEF BusyWith
  <2>2. \A i \in DOMAIN trajectory : Failed(trajectory'[i], d) <=> Failed(trajectory[i], d)
    BY <1>2, <1>3
  <2>3. CASE d.tool = c.tool /\ d.hash = c.hash
    <3>1. a \in BusyWith(d)
      BY <1>2, <2>3 DEF BusyWith
    <3>2. IdenticalFailures(d)' \subseteq IdenticalFailures(d) \cup {n}
      BY <1>4, <2>2 DEF IdenticalFailures
    <3>3. ConsecutiveFailures(d)' \subseteq ConsecutiveFailures(d) \cup {n}
      BY <1>2, <1>3, <1>4, <2>2 DEF ConsecutiveFailures
    <3> QED
      BY <2>1, <3>1, <3>2, <3>3 DEF Shift
  <2>4. CASE ~(d.tool = c.tool /\ d.hash = c.hash)
    <3>1. ~Failed(trajectory'[n], d)
      BY <1>2, <2>4 DEF Failed
    <3>2. IdenticalFailures(d)' \subseteq IdenticalFailures(d)
      BY <1>4, <2>2, <3>1 DEF IdenticalFailures
    <3>3. ConsecutiveFailures(d)' \subseteq ConsecutiveFailures(d)
      BY <1>2, <1>3, <1>4, <3>1 DEF ConsecutiveFailures
    <3> QED
      BY <2>1, <3>2, <3>3 DEF Shift
  <2> QED
    BY <2>3, <2>4
<1>7. ASSUME NEW p \in Paths
      PROVE  Shift(RecentWrites(p), BusyOn(p), RecentWrites(p)', BusyOn(p)', MaxThrash)
  <2>1. /\ BusyOn(p)' = {b \in Busy' : running'[b].path = p}
        /\ BusyOn(p)' \subseteq BusyOn(p) \ {a}
    BY <1>2 DEF BusyOn
  <2>2. CASE p = c.path
    <3>1. a \in BusyOn(p) /\ c.path # NoPath
      BY <1>2, <2>2 DEF BusyOn, Paths
    <3>2. DOMAIN fileWrites' = DOMAIN fileWrites \cup {m}
      BY <1>8, <3>1
    <3>3. RecentWrites(p)' \subseteq RecentWrites(p) \cup {m}
      BY <1>1, <1>2, <1>3, <3>1, <3>2 DEF RecentWrites
    <3> QED
      BY <2>1, <3>1, <3>3 DEF Shift
  <2>3. CASE p # c.path
    <3>1. RecentWrites(p)' \subseteq RecentWrites(p)
      <4>1. CASE c.path = NoPath
        BY <1>1, <1>2, <4>1 DEF RecentWrites
      <4>2. CASE c.path # NoPath
        <5>1. DOMAIN fileWrites' = DOMAIN fileWrites \cup {m} /\ fileWrites'[m].path # p
          BY <1>2, <1>8, <2>3, <4>2
        <5> QED
          BY <1>1, <1>2, <1>3, <4>2, <5>1 DEF RecentWrites
      <4> QED
        BY <4>1, <4>2
    <3> QED
      BY <2>1, <3>1 DEF Shift
  <2> QED
    BY <2>2, <2>3
<1> QED
  BY <1>5, <1>6, <1>7 DEF Shifted

\* Time passes, or the task begins anew: nothing is recorded, nobody starts.
LEMMA RestShifts ==
  ASSUME MonitorTypeOK, reset \/ Pass \/ UNCHANGED monitorVars
  PROVE  Shifted
<1>1. Busy' = Busy /\ \A d : BusyWith(d)' = BusyWith(d) /\ BusyOn(d)' = BusyOn(d)
  BY DEF Busy, BusyWith, BusyOn, reset, Pass, monitorVars
<1>2. CASE reset
  <2>1. DOMAIN trajectory' = {} /\ DOMAIN fileWrites' = {}
    BY <1>2 DEF reset
  <2>2. /\ CallsWithin(Short)' = {} /\ CallsWithin(Long)' = {}
        /\ \A d : /\ IdenticalFailures(d)' = {} /\ ConsecutiveFailures(d)' = {}
                  /\ RecentWrites(d)' = {}
    BY <2>1 DEF CallsWithin, IdenticalFailures, ConsecutiveFailures, RecentWrites
  <2> QED
    BY <1>1, <2>1, <2>2 DEF Shifted, Shift
<1>3. CASE Pass \/ UNCHANGED monitorVars
  <2>1. trajectory' = trajectory /\ fileWrites' = fileWrites /\ now' \in {now, now + 1} /\ now \in Nat
    BY <1>3 DEF Pass, monitorVars, MonitorTypeOK
  <2>2. \A d : IdenticalFailures(d)' = IdenticalFailures(d)
               /\ ConsecutiveFailures(d)' = ConsecutiveFailures(d)
    BY <2>1 DEF IdenticalFailures, ConsecutiveFailures
  <2>3. \A i \in DOMAIN trajectory : trajectory[i].timestamp \in Nat
    BY MonitorFinite
  <2>4. \A i \in DOMAIN fileWrites : fileWrites[i].timestamp \in Nat
    BY MonitorFinite
  <2>5. Short \in Nat /\ Long \in Nat /\ Thrash \in Nat
    BY MonitorAssumption
  <2>6. CallsWithin(Short)' \subseteq CallsWithin(Short) /\ CallsWithin(Long)' \subseteq CallsWithin(Long)
    BY <2>1, <2>3, <2>5 DEF CallsWithin
  <2>7. \A p : RecentWrites(p)' \subseteq RecentWrites(p)
    BY <2>1, <2>4, <2>5 DEF RecentWrites
  <2> QED
    BY <1>1, <2>1, <2>2, <2>6, <2>7 DEF Shifted, Shift
<1> QED
  BY <1>2, <1>3

\* What is counted keeps to its limit, agents under way or not.
LEMMA RoomBounds ==
  ASSUME NEW S, NEW T, NEW x \in Int, IsFiniteSet(S), IsFiniteSet(T),
         Cardinality(S) + Cardinality(T) <= x, NEW U, U \subseteq S
  PROVE  Cardinality(U) \in Nat /\ Cardinality(U) <= x
<1>1. Cardinality(S) \in Nat /\ Cardinality(T) \in Nat
  BY FS_CardinalityType
<1>2. Cardinality(U) \in Nat /\ Cardinality(U) <= Cardinality(S)
  BY PartCounts
<1> QED
  BY <1>1, <1>2

\* What is recorded exceeds no limit by more than the others at work.
LEMMA CountsBounded ==
  ASSUME MonitorTypeOK, Counted
  PROVE  /\ Len(trajectory) <= MaxSteps + (flight - 1)
         /\ \A U \in SUBSET CallsWithin(Short) : Bounded(U, MaxShort)
         /\ \A U \in SUBSET CallsWithin(Long) : Bounded(U, MaxLong)
         /\ \A c \in ToolCalls : /\ Bounded(IdenticalFailures(c), MaxIdentical)
                                 /\ \A U \in SUBSET ConsecutiveFailures(c) : Bounded(U, MaxConsecutive)
         /\ \A p \in Paths : \A U \in SUBSET RecentWrites(p) : Bounded(U, MaxThrash)
<1>1. /\ flight \in Nat \ {0} /\ Busy \subseteq 1 .. flight /\ Len(trajectory) \in Nat
      /\ DOMAIN trajectory = 1 .. Len(trajectory)
      /\ IsFiniteSet(DOMAIN trajectory) /\ IsFiniteSet(DOMAIN fileWrites)
  BY MonitorFinite
<1>2. /\ MaxSteps \in Nat /\ MaxShort \in Nat /\ MaxLong \in Nat
      /\ MaxIdentical \in Nat /\ MaxConsecutive \in Nat /\ MaxThrash \in Nat
  BY MonitorAssumption
<1>3. IsFiniteSet(1 .. flight)
  BY <1>1, CountTo
<1>4. IsFiniteSet(Busy) /\ \A d : IsFiniteSet(BusyWith(d)) /\ IsFiniteSet(BusyOn(d))
  <2>1. \A d : BusyWith(d) \subseteq 1 .. flight /\ BusyOn(d) \subseteq 1 .. flight
    BY <1>1 DEF BusyWith, BusyOn
  <2> QED
    BY <1>1, <1>3, <2>1, PartCounts
<1>5. /\ IsFiniteSet(CallsWithin(Short)) /\ IsFiniteSet(CallsWithin(Long))
      /\ \A d : /\ IsFiniteSet(IdenticalFailures(d)) /\ IsFiniteSet(ConsecutiveFailures(d))
                /\ IsFiniteSet(RecentWrites(d))
  <2>1. /\ CallsWithin(Short) \subseteq DOMAIN trajectory /\ CallsWithin(Long) \subseteq DOMAIN trajectory
        /\ \A d : /\ IdenticalFailures(d) \subseteq DOMAIN trajectory
                  /\ ConsecutiveFailures(d) \subseteq DOMAIN trajectory
                  /\ RecentWrites(d) \subseteq DOMAIN fileWrites
    BY DEF CallsWithin, IdenticalFailures, ConsecutiveFailures, RecentWrites
  <2> QED
    BY <1>1, <2>1, PartCounts
<1>6. Len(trajectory) <= MaxSteps + (flight - 1)
  <2>1. Cardinality(DOMAIN trajectory) + Cardinality(Busy) <= MaxSteps + (flight - 1)
    BY DEF Counted, Room
  <2>2. Cardinality(DOMAIN trajectory) <= MaxSteps + (flight - 1)
    BY <1>1, <1>2, <1>4, <2>1, RoomBounds
  <2> QED
    BY <1>1, <2>2, CountTo
<1>7. ASSUME NEW U \in SUBSET CallsWithin(Short)
      PROVE  Bounded(U, MaxShort)
  <2>1. Cardinality(CallsWithin(Short)) + Cardinality(Busy) <= MaxShort + (flight - 1)
    BY DEF Counted, Room
  <2> QED
    BY <1>1, <1>2, <1>4, <1>5, <2>1, RoomBounds DEF Bounded
<1>8. ASSUME NEW U \in SUBSET CallsWithin(Long)
      PROVE  Bounded(U, MaxLong)
  <2>1. Cardinality(CallsWithin(Long)) + Cardinality(Busy) <= MaxLong + (flight - 1)
    BY DEF Counted, Room
  <2> QED
    BY <1>1, <1>2, <1>4, <1>5, <2>1, RoomBounds DEF Bounded
<1>9. ASSUME NEW c \in ToolCalls
      PROVE  Bounded(IdenticalFailures(c), MaxIdentical)
  <2>1. Cardinality(IdenticalFailures(c)) + Cardinality(BusyWith(c)) <= MaxIdentical + (flight - 1)
    BY DEF Counted, Room
  <2> QED
    BY <1>1, <1>2, <1>4, <1>5, <2>1, RoomBounds DEF Bounded
<1>10. ASSUME NEW c \in ToolCalls, NEW U \in SUBSET ConsecutiveFailures(c)
       PROVE  Bounded(U, MaxConsecutive)
  <2>1. Cardinality(ConsecutiveFailures(c)) + Cardinality(BusyWith(c)) <= MaxConsecutive + (flight - 1)
    BY DEF Counted, Room
  <2> QED
    BY <1>1, <1>2, <1>4, <1>5, <2>1, RoomBounds DEF Bounded
<1>11. ASSUME NEW p \in Paths, NEW U \in SUBSET RecentWrites(p)
       PROVE  Bounded(U, MaxThrash)
  <2>1. Cardinality(RecentWrites(p)) + Cardinality(BusyOn(p)) <= MaxThrash + (flight - 1)
    BY DEF Counted, Room
  <2> QED
    BY <1>1, <1>2, <1>4, <1>5, <2>1, RoomBounds DEF Bounded
<1> QED
  BY <1>6, <1>7, <1>8, <1>9, <1>10, <1>11

\* A window that is open now holds what was recorded within it.
LEMMA OpenWindows ==
  ASSUME MonitorTypeOK, Counted, NEW t \in 0 .. MaxTime
  PROVE  /\ now <= t + Short => Bounded(Between(trajectory, t, Short), MaxShort)
         /\ now <= t + Long => Bounded(Between(trajectory, t, Long), MaxLong)
         /\ now <= t + Thrash => \A p \in Paths : Bounded(WritesTo(p, t), MaxThrash)
<1>1. now \in Nat /\ Short \in Nat /\ Long \in Nat /\ Thrash \in Nat
  BY MonitorAssumption DEF MonitorTypeOK
<1>2. /\ \A i \in DOMAIN trajectory : trajectory[i].timestamp \in Nat
      /\ \A i \in DOMAIN fileWrites : fileWrites[i].timestamp \in Nat
  BY MonitorFinite
<1>3. now <= t + Short => Between(trajectory, t, Short) \subseteq CallsWithin(Short)
  BY <1>1, <1>2 DEF Between, CallsWithin
<1>4. now <= t + Long => Between(trajectory, t, Long) \subseteq CallsWithin(Long)
  BY <1>1, <1>2 DEF Between, CallsWithin
<1>5. now <= t + Thrash => \A p \in Paths : WritesTo(p, t) \subseteq RecentWrites(p)
  BY <1>1, <1>2 DEF Between, WritesTo, RecentWrites
<1> QED
  BY <1>3, <1>4, <1>5, CountsBounded

\* A run of failures that nothing has ended is the one the check counts.
LEMMA OpenRuns ==
  ASSUME MonitorTypeOK, Counted, NEW c \in ToolCalls, NEW i \in DOMAIN trajectory,
         RunOf(c, i, Len(trajectory))
  PROVE  Len(trajectory) - i < MaxConsecutive + (flight - 1)
<1>1. /\ Len(trajectory) \in Nat /\ DOMAIN trajectory = 1 .. Len(trajectory) /\ flight \in Nat \ {0}
      /\ MaxConsecutive \in Nat
  BY MonitorFinite, MonitorAssumption
<1>2. i .. Len(trajectory) \subseteq ConsecutiveFailures(c)
  BY <1>1 DEF ConsecutiveFailures, RunOf
<1>3. Cardinality(i .. Len(trajectory)) <= MaxConsecutive + (flight - 1)
  BY <1>2, CountsBounded DEF Bounded
<1>4. Cardinality(i .. Len(trajectory)) = Len(trajectory) - i + 1
  BY <1>1, CountRange
<1> QED
  BY <1>1, <1>3, <1>4

\* The invariant implies that no limit is overrun.
LEMMA MonitorHolds ==
  ASSUME MonitorInv
  PROVE  NoRunaway
<1> USE DEF MonitorInv
<1>1. now \in 0 .. MaxTime /\ MaxTime \in Nat /\ Short \in Nat /\ Long \in Nat /\ Thrash \in Nat
  BY MonitorAssumption DEF MonitorTypeOK
<1>2. ASSUME NEW t \in 0 .. now
      PROVE  /\ Cardinality(Between(trajectory, t, Short)) <= MaxShort + (flight - 1)
             /\ Cardinality(Between(trajectory, t, Long)) <= MaxLong + (flight - 1)
             /\ \A p \in Paths : Cardinality(WritesTo(p, t)) <= MaxThrash + (flight - 1)
  <2>1. t \in 0 .. MaxTime
    BY <1>1
  <2>2. /\ now <= t + Short \/ t + Short < now
        /\ now <= t + Long \/ t + Long < now
        /\ now <= t + Thrash \/ t + Thrash < now
    BY <1>1, <2>1
  <2>3. Bounded(Between(trajectory, t, Short), MaxShort)
    BY <2>1, <2>2, OpenWindows DEF PastWindows
  <2>4. Bounded(Between(trajectory, t, Long), MaxLong)
    BY <2>1, <2>2, OpenWindows DEF PastWindows
  <2>5. \A p \in Paths : Bounded(WritesTo(p, t), MaxThrash)
    BY <2>1, <2>2, OpenWindows DEF PastWindows
  <2> QED
    BY <2>3, <2>4, <2>5 DEF Bounded
<1>3. ASSUME NEW c \in ToolCalls \ {d \in ToolCalls : d.path = NoPath}, NEW t \in 0 .. now
      PROVE  Cardinality({i \in Between(fileWrites, t, Thrash) : fileWrites[i].path = c.path})
               <= MaxThrash + (flight - 1)
  <2>1. c.path \in Paths
    BY DEF Paths
  <2> QED
    BY <1>2, <2>1 DEF WritesTo
<1>4. ASSUME NEW c \in ToolCalls, NEW i \in DOMAIN trajectory, NEW j \in DOMAIN trajectory,
             \A k \in i .. j : Failed(trajectory[k], c)
      PROVE  j - i < MaxConsecutive + (flight - 1)
  <2>1. RunOf(c, i, j)
    BY <1>4 DEF RunOf
  <2>2. j < Len(trajectory) \/ j = Len(trajectory)
    BY MonitorFinite
  <2>3. CASE j < Len(trajectory)
    BY <2>1, <2>3 DEF PastRuns
  <2>4. CASE j = Len(trajectory)
    BY <2>1, <2>4, OpenRuns
  <2> QED
    BY <2>2, <2>3, <2>4
<1>5. \A c \in ToolCalls : Cardinality(IdenticalFailures(c)) <= MaxIdentical + (flight - 1)
  BY CountsBounded DEF Bounded
<1>6. Len(trajectory) <= MaxSteps + (flight - 1)
  BY CountsBounded
<1>7. flight = 1 => \A n \in 5 .. Len(trajectory) : ~Alternates(n)
  BY DEF PastTurns
<1> QED
  BY <1>2, <1>3, <1>4, <1>5, <1>6, <1>7 DEF NoRunaway, Alternates

\* The steps. Only a record, or time, makes something lie back that did not before.
LEMMA PastKept ==
  ASSUME MonitorInv, MonitorTypeOK', UNCHANGED <<trajectory, fileWrites, flight, now>>
  PROVE  PastWindows' /\ PastRuns' /\ PastTurns'
<1>1. \A t, w : Between(trajectory, t, w)' = Between(trajectory, t, w)
  BY DEF Between
<1>2. \A p, t : WritesTo(p, t)' = WritesTo(p, t)
  BY DEF Between, WritesTo
<1>3. \A n : Alternates(n)' <=> Alternates(n)
  BY DEF Alternates
<1>4. \A c, i, j : RunOf(c, i, j)' <=> RunOf(c, i, j)
  BY DEF RunOf
<1>5. \A S, m : Bounded(S, m) <=> Bounded(S, m)'
  BY DEF Bounded
<1> QED
  BY <1>1, <1>2, <1>3, <1>4, <1>5 DEF MonitorInv, PastWindows, PastRuns, PastTurns

\* Allowing a call of a tool keeps the invariant.
LEMMA CheckKept ==
  ASSUME MonitorInv, MonitorTypeOK', NEW a \in 1 .. flight, NEW c \in ToolCalls, checkInvariants(a, c)
  PROVE  MonitorInv'
<1>1. Counted'
  BY CheckShifts, ShiftedCounts DEF MonitorInv, checkInvariants
<1>2. PastWindows' /\ PastRuns' /\ PastTurns'
  BY PastKept DEF checkInvariants
<1>3. /\ running'[a] = c /\ \A b \in Busy : running'[b] = running[b]
      /\ Busy' = Busy \cup {a}
  BY CheckBusy, MonitorFinite DEF MonitorInv
<1>4. ~Oscillates(c) /\ trajectory' = trajectory /\ flight' = flight
  BY DEF checkInvariants, Allowed, AllowedUncounted
<1>5. \A d : Oscillates(d)' <=> Oscillates(d)
  BY <1>4 DEF Oscillates
<1>6. Steady'
  <2>1. SUFFICES ASSUME flight = 1, NEW b \in Busy'
                 PROVE  ~Oscillates(running'[b])
    BY <1>4, <1>5 DEF Steady, Oscillates
  <2>2. CASE b = a
    BY <1>3, <1>4, <2>2
  <2>3. CASE b # a
    BY <1>3, <2>1, <2>3 DEF MonitorInv, Steady
  <2> QED
    BY <2>2, <2>3
<1> QED
  BY <1>1, <1>2, <1>6 DEF MonitorInv

\* Recording a step, a failure or a success, keeps it.
LEMMA RecordKept ==
  ASSUME MonitorInv, MonitorTypeOK', NEW a \in 1 .. flight, NEW success \in BOOLEAN,
         recordStep(a, success)
  PROVE  MonitorInv'
<1> USE DEF MonitorInv
<1> DEFINE c == running[a]
           n == Len(trajectory) + 1
           m == Len(fileWrites) + 1
<1>1. Counted'
  BY RecordShifts, ShiftedCounts DEF recordStep
<1>2. now' = now /\ flight' = flight /\ now \in 0 .. MaxTime
  BY DEF recordStep, MonitorTypeOK
<1>3. /\ c \in ToolCalls /\ a \in Busy /\ Busy' = Busy \ {a}
      /\ trajectory' \in Seq(TrajectoryStep) /\ Len(trajectory') = n
      /\ trajectory'[n].call = c /\ trajectory'[n].timestamp = now
      /\ \A i \in 1 .. Len(trajectory) : trajectory'[i] = trajectory[i]
  <2>1. trajectory'[n] = [call |-> c, success |-> success, timestamp |-> now]
    BY RecordStep
  <2>2. trajectory'[n].call = c /\ trajectory'[n].timestamp = now
    BY <2>1
  <2> QED
    BY <2>2, RecordStep
<1>4. \/ fileWrites' = fileWrites
      \/ /\ DOMAIN fileWrites' = DOMAIN fileWrites \cup {m}
         /\ fileWrites'[m].timestamp = now
         /\ \A i \in DOMAIN fileWrites : fileWrites'[i] = fileWrites[i]
  <2> SUFFICES ASSUME c.path # NoPath
               PROVE  /\ DOMAIN fileWrites' = DOMAIN fileWrites \cup {m}
                      /\ fileWrites'[m].timestamp = now
                      /\ \A i \in DOMAIN fileWrites : fileWrites'[i] = fileWrites[i]
    BY RecordStep
  <2>1. /\ fileWrites' \in Seq(Write) /\ Len(fileWrites') = m /\ fileWrites'[m].timestamp = now
        /\ \A i \in 1 .. Len(fileWrites) : fileWrites'[i] = fileWrites[i]
    BY RecordStep
  <2>2. DOMAIN fileWrites' = 1 .. Len(fileWrites')
    BY <2>1
  <2>3. Len(fileWrites) \in Nat /\ DOMAIN fileWrites = 1 .. Len(fileWrites)
    BY MonitorFinite
  <2> QED
    BY <2>1, <2>2, <2>3
<1>5. /\ Len(trajectory) \in Nat /\ DOMAIN trajectory = 1 .. Len(trajectory)
      /\ flight \in Nat \ {0} /\ Busy \subseteq 1 .. flight
      /\ Short \in Nat /\ Long \in Nat /\ Thrash \in Nat
  BY MonitorFinite, MonitorAssumption
<1>6. DOMAIN trajectory' = DOMAIN trajectory \cup {n}
  BY <1>3, <1>5
<1>7. PastWindows'
  <2>1. \A t \in Nat, w \in Nat : t + w < now =>
          Between(trajectory, t, w)' \subseteq Between(trajectory, t, w)
    BY <1>2, <1>3, <1>5, <1>6 DEF Between
  <2>2. \A p : \A t \in Nat : t + Thrash < now => WritesTo(p, t)' \subseteq WritesTo(p, t)
    <3>1. \A t \in Nat : t + Thrash < now =>
            Between(fileWrites, t, Thrash)' \subseteq Between(fileWrites, t, Thrash)
      BY <1>2, <1>4, <1>5 DEF Between
    <3>2. \A t : \A i \in Between(fileWrites, t, Thrash) : fileWrites'[i] = fileWrites[i]
      BY <1>4 DEF Between
    <3> QED
      BY <3>1, <3>2 DEF WritesTo
  <2>3. \A t, w : IsFiniteSet(Between(trajectory, t, w)) /\ \A p : IsFiniteSet(WritesTo(p, t))
    <3>1. \A t, w : Between(trajectory, t, w) \subseteq DOMAIN trajectory
                    /\ \A p : WritesTo(p, t) \subseteq DOMAIN fileWrites
      BY DEF Between, WritesTo
    <3> QED
      BY <3>1, MonitorFinite, PartCounts
  <2>4. ASSUME NEW S, NEW U, NEW x \in Nat, IsFiniteSet(S), Bounded(S, x), U \subseteq S
        PROVE  Bounded(U, x)'
    BY <1>2, <1>5, <2>4, PartCounts DEF Bounded
  <2>5. MaxShort \in Nat /\ MaxLong \in Nat /\ MaxThrash \in Nat /\ MaxTime \in Nat
    BY MonitorAssumption
  <2>6. ASSUME NEW t \in 0 .. MaxTime
        PROVE  /\ t + Short < now => Bounded(Between(trajectory, t, Short), MaxShort)'
               /\ t + Long < now => Bounded(Between(trajectory, t, Long), MaxLong)'
               /\ t + Thrash < now => \A p \in Paths : Bounded(WritesTo(p, t), MaxThrash)'
    <3>1. t \in Nat
      BY <2>5
    <3>2. t + Short < now => Bounded(Between(trajectory, t, Short), MaxShort)'
      BY <1>5, <2>1, <2>3, <2>4, <2>5, <3>1 DEF PastWindows
    <3>3. t + Long < now => Bounded(Between(trajectory, t, Long), MaxLong)'
      BY <1>5, <2>1, <2>3, <2>4, <2>5, <3>1 DEF PastWindows
    <3>4. t + Thrash < now => \A p \in Paths : Bounded(WritesTo(p, t), MaxThrash)'
      BY <1>5, <2>2, <2>3, <2>4, <2>5, <3>1 DEF PastWindows
    <3> QED
      BY <3>2, <3>3, <3>4
  <2> QED
    BY <1>2, <2>6 DEF PastWindows, Paths
<1>8. PastRuns'
  <2>1. SUFFICES ASSUME NEW d \in ToolCalls, NEW i \in DOMAIN trajectory', NEW j \in DOMAIN trajectory',
                        j < n, RunOf(d, i, j)'
                 PROVE  j - i < MaxConsecutive + (flight - 1)
    BY <1>2, <1>3 DEF PastRuns
  <2>2. /\ j \in 1 .. Len(trajectory)
        /\ \A k \in i .. j : k \in 1 .. Len(trajectory)
    BY <1>5, <1>6, <2>1
  <2>3. RunOf(d, i, j)
    BY <1>3, <2>1, <2>2 DEF RunOf
  <2>4. CASE i \in DOMAIN trajectory
    <3>1. CASE j < Len(trajectory)
      BY <1>5, <2>2, <2>3, <2>4, <3>1 DEF PastRuns
    <3>2. CASE j = Len(trajectory)
      BY <2>3, <2>4, <3>2, OpenRuns
    <3> QED
      BY <1>5, <2>2, <3>1, <3>2
  <2>5. CASE i = n
    BY <1>5, <2>2, <2>5, MonitorAssumption
  <2> QED
    BY <1>6, <2>4, <2>5
<1>9. flight = 1 => ~Oscillates(c)
  BY <1>3 DEF Steady
<1>10. PastTurns'
  <2>1. SUFFICES ASSUME flight = 1, NEW k \in 5 .. n, Alternates(k)'
                 PROVE  FALSE
    BY <1>2, <1>3 DEF PastTurns
  <2>2. CASE k \in 5 .. Len(trajectory)
    <3>1. \A i \in 0 .. 4 : trajectory'[k - i] = trajectory[k - i]
      BY <1>3, <1>5, <2>2
    <3>2. Alternates(k)
      BY <2>1, <3>1 DEF Alternates
    <3> QED
      BY <2>1, <2>2, <3>2 DEF PastTurns
  <2>3. CASE k = n
    <3>1. /\ trajectory'[n - 1] = trajectory[n - 1] /\ trajectory'[n - 2] = trajectory[n - 2]
          /\ trajectory'[n - 3] = trajectory[n - 3] /\ trajectory'[n - 4] = trajectory[n - 4]
          /\ Len(trajectory) >= 4
      BY <1>3, <1>5, <2>1, <2>3
    <3>2. /\ n - 0 = n /\ n - 1 = Len(trajectory) /\ n - 2 = Len(trajectory) - 1
          /\ n - 3 = Len(trajectory) - 2 /\ n - 4 = Len(trajectory) - 3
      BY <1>5
    <3>3. Oscillates(c)
      BY <1>3, <2>1, <2>3, <3>1, <3>2 DEF Alternates, Oscillates
    <3> QED
      BY <1>9, <2>1, <3>3
  <2> QED
    BY <1>5, <2>1, <2>2, <2>3
<1>11. Steady'
  BY <1>2, <1>3, <1>5 DEF Steady
<1> QED
  BY <1>1, <1>7, <1>8, <1>10, <1>11

\* A reset and the passing of time keep it.
LEMMA RestKept ==
  ASSUME MonitorInv, MonitorTypeOK', reset \/ Pass \/ UNCHANGED monitorVars
  PROVE  MonitorInv'
<1> USE DEF MonitorInv
<1>1. Busy' = Busy /\ running' = running /\ flight' = flight
  BY DEF Busy, reset, Pass, monitorVars
<1>2. Counted'
  BY <1>1, RestShifts, ShiftedCounts
<1>3. CASE reset
  <2>1. /\ trajectory' = <<>> /\ DOMAIN trajectory' = {} /\ DOMAIN fileWrites' = {}
        /\ Len(trajectory') = 0
    BY <1>3 DEF reset
  <2>2. Steady' /\ PastRuns' /\ PastTurns'
    BY <2>1 DEF Steady, Oscillates, PastRuns, PastTurns
  <2>3. \A t, w : Between(trajectory, t, w)' = {} /\ \A p : WritesTo(p, t)' = {}
    BY <2>1 DEF Between, WritesTo
  <2>4. Bounded({}, MaxShort)' /\ Bounded({}, MaxLong)' /\ Bounded({}, MaxThrash)'
    <3>1. flight' \in Nat \ {0}
      BY <1>1, MonitorFinite
    <3>2. Cardinality({}) = 0 /\ MaxShort \in Nat /\ MaxLong \in Nat /\ MaxThrash \in Nat
      BY FS_EmptySet, MonitorAssumption
    <3> QED
      BY <3>1, <3>2 DEF Bounded
  <2>5. PastWindows'
    <3>1. \A t, p : /\ Bounded(Between(trajectory, t, Short), MaxShort)'
                    /\ Bounded(Between(trajectory, t, Long), MaxLong)'
                    /\ Bounded(WritesTo(p, t), MaxThrash)'
      BY <2>3, <2>4 DEF Bounded
    <3> QED
      BY <3>1 DEF PastWindows
  <2> QED
    BY <1>2, <2>2, <2>5
<1>4. CASE Pass \/ UNCHANGED monitorVars
  <2>1. /\ trajectory' = trajectory /\ fileWrites' = fileWrites
        /\ now \in Nat /\ now' \in {now, now + 1}
        /\ Short \in Nat /\ Long \in Nat /\ Thrash \in Nat
    BY <1>4, MonitorAssumption DEF Pass, monitorVars, MonitorTypeOK
  <2>2. Steady' /\ PastRuns' /\ PastTurns'
    BY <1>1, <2>1 DEF Steady, Oscillates, PastRuns, PastTurns, RunOf, Alternates
  <2>4. ASSUME NEW t \in 0 .. MaxTime
        PROVE  /\ t + Short < now' => Bounded(Between(trajectory, t, Short), MaxShort)
               /\ t + Long < now' => Bounded(Between(trajectory, t, Long), MaxLong)
               /\ t + Thrash < now' => \A p \in Paths : Bounded(WritesTo(p, t), MaxThrash)
    <3>1. t \in Nat
      BY MonitorAssumption
    <3>2. t + Short < now' => now <= t + Short \/ t + Short < now
      BY <2>1, <3>1
    <3>3. t + Long < now' => now <= t + Long \/ t + Long < now
      BY <2>1, <3>1
    <3>4. t + Thrash < now' => now <= t + Thrash \/ t + Thrash < now
      BY <2>1, <3>1
    <3> QED
      BY <3>2, <3>3, <3>4, OpenWindows DEF PastWindows
  <2>5. \A t, w : Between(trajectory, t, w)' = Between(trajectory, t, w)
                  /\ \A p : WritesTo(p, t)' = WritesTo(p, t)
    BY <2>1 DEF Between, WritesTo
  <2>6. PastWindows'
    BY <1>1, <2>4, <2>5 DEF PastWindows, Bounded, Paths
  <2> QED
    BY <1>2, <2>2, <2>6
<1> QED
  BY <1>3, <1>4

\* The invariant at the start.
LEMMA MonitorStart == MonitorInit => MonitorInv
<1> SUFFICES ASSUME MonitorInit PROVE MonitorInv
  OBVIOUS
<1>1. /\ trajectory = <<>> /\ fileWrites = <<>> /\ now = 0 /\ flight \in Flights
      /\ running = [a \in 1 .. flight |-> NoCall] /\ flight \in Nat \ {0}
  BY MonitorAssumption DEF MonitorInit
<1>2. MonitorTypeOK
  <2>1. trajectory \in Seq(TrajectoryStep) /\ fileWrites \in Seq(Write)
    BY <1>1
  <2> QED
    BY <1>1, <2>1, MonitorAssumption DEF MonitorTypeOK, Write, Paths
<1>3. Busy = {} /\ DOMAIN trajectory = {} /\ DOMAIN fileWrites = {} /\ Len(trajectory) = 0
  BY <1>1 DEF Busy
<1>4. /\ CallsWithin(Short) = {} /\ CallsWithin(Long) = {}
      /\ \A d : /\ IdenticalFailures(d) = {} /\ ConsecutiveFailures(d) = {} /\ RecentWrites(d) = {}
                /\ BusyWith(d) = {} /\ BusyOn(d) = {}
  BY <1>3 DEF CallsWithin, IdenticalFailures, ConsecutiveFailures, RecentWrites, BusyWith, BusyOn
<1>5. /\ Room({}, {}, MaxSteps) /\ Room({}, {}, MaxShort) /\ Room({}, {}, MaxLong)
      /\ Room({}, {}, MaxIdentical) /\ Room({}, {}, MaxConsecutive) /\ Room({}, {}, MaxThrash)
  BY <1>1, FS_EmptySet, MonitorAssumption DEF Room
<1>6. Counted
  BY <1>3, <1>4, <1>5 DEF Counted
<1>7. Short \in Nat /\ Long \in Nat /\ Thrash \in Nat
  BY MonitorAssumption
<1>8. PastWindows /\ PastRuns /\ PastTurns /\ Steady
  BY <1>1, <1>3, <1>7 DEF PastWindows, PastRuns, PastTurns, Steady
<1> QED
  BY <1>2, <1>6, <1>8 DEF MonitorInv

\* Every step keeps the invariant.
LEMMA MonitorStep == MonitorInv /\ [MonitorNext]_monitorVars => MonitorInv'
<1> SUFFICES ASSUME MonitorInv, [MonitorNext]_monitorVars PROVE MonitorInv'
  OBVIOUS
<1>1. MonitorTypeOK'
  BY MonitorTypes DEF MonitorInv
<1>2. ASSUME NEW a \in 1 .. flight, NEW c \in ToolCalls, checkInvariants(a, c)
      PROVE  MonitorInv'
  BY <1>1, <1>2, CheckKept
<1>3. ASSUME NEW a \in 1 .. flight, NEW success \in BOOLEAN, recordStep(a, success)
      PROVE  MonitorInv'
  BY <1>1, <1>3, RecordKept
<1>4. CASE reset \/ Pass \/ UNCHANGED monitorVars
  BY <1>1, <1>4, RestKept
<1> QED
  BY <1>2, <1>3, <1>4 DEF MonitorNext

\* However many agents work on a task at once, and in whatever order they ask, run and
\* record, checkInvariants keeps every limit but for those already past it; and an agent
\* alone never alternates a fifth time.
THEOREM MonitorNeverRunsAway == MonitorSpec => []NoRunaway
<1>1. MonitorInit => MonitorInv
  BY MonitorStart
<1>2. MonitorInv /\ [MonitorNext]_monitorVars => MonitorInv'
  BY MonitorStep
<1>3. MonitorInv => NoRunaway
  BY MonitorHolds
<1> QED
  BY <1>1, <1>2, <1>3, PTL DEF MonitorSpec
=============================================================================
