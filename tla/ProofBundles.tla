---------------------------- MODULE ProofBundles ----------------------------
(***************************************************************************)
(* The proof bundles of merkle.ts over the audit rows of one task: the     *)
(* Merkle tree of their digests, a proof for each of them, and what        *)
(* verifyAuditProofBundle makes of a bundle. Bundles are built from the    *)
(* table of AuditChain, which may grow while one is exported. Signatures   *)
(* and the fields that are only copied are left out.                       *)
(***************************************************************************)
EXTENDS AuditChain

CONSTANT Node   \* the domain separator of the digests that merkle.ts makes

ASSUME BundleAssumption == Node \notin Contents

hashPair(left, right) == <<Node, left, right>>
EmptyRoot == <<Node>>

-----------------------------------------------------------------------------
(* buildMerkleTree *)

\* The last digest of an odd level is paired with itself.
Sibling(level, k) == IF k + 1 <= Len(level) THEN level[k + 1] ELSE level[k]
\* Mutant: the last digest of an odd level is left out.
ParentsOfPairs(level) ==
  [k \in 1 .. (Len(level) \div 2) |-> hashPair(level[2 * k - 1], level[2 * k])]
Parents(level) ==
  [k \in 1 .. ((Len(level) + 1) \div 2) |->
     hashPair(level[2 * k - 1], Sibling(level, 2 * k - 1))]

\* The levels, from the leaves upwards, ...
Tower(leaves) ==
  LET level[h \in Nat] == IF h = 0 THEN leaves ELSE Parents(level[h - 1]) IN level

\* ... until there is one of a single digest.
Height(leaves) ==
  CHOOSE h \in 0 .. Len(leaves) :
    /\ Len(Tower(leaves)[h]) = 1
    /\ \A k \in 0 .. (h - 1) : Len(Tower(leaves)[k]) > 1

Root(leaves) == IF leaves = << >> THEN EmptyRoot ELSE Tower(leaves)[Height(leaves)][1]

-----------------------------------------------------------------------------
(* generateMerkleProof, for the zero-based index of a leaf; verifyMerkleProof. *)

\* The index of a leaf, and of the digests above it.
Place(index) == LET place[h \in Nat] == IF h = 0 THEN index ELSE place[h - 1] \div 2 IN place

\* The digest beside index k of a level, and the side it is on.
Step(level, k) ==
  IF k % 2 = 1 THEN [position |-> "left", hash |-> level[k]]
  ELSE [position |-> "right", hash |-> Sibling(level, k + 1)]

generateMerkleProof(leaves, index) ==
  [targetHash |-> leaves[index + 1], rootHash |-> Root(leaves),
   index |-> index, totalLeaves |-> Len(leaves),
   path |-> [h \in 1 .. Height(leaves) |-> Step(Tower(leaves)[h - 1], Place(index)[h - 1])]]

\* Mutant: the sibling always goes on the right.
ClimbRight(current, step) == hashPair(current, step.hash)
Climb(current, step) ==
  IF step.position = "left" THEN hashPair(step.hash, current)
  ELSE hashPair(current, step.hash)

\* The digests a verification comes by on its way up.
Ascent(proof) ==
  LET current[h \in Nat] ==
        IF h = 0 THEN proof.targetHash ELSE Climb(current[h - 1], proof.path[h])
  IN current

verifyMerkleProof(proof) ==
  /\ proof.index \in 0 .. (proof.totalLeaves - 1)
  /\ Ascent(proof)[Len(proof.path)] = proof.rootHash

-----------------------------------------------------------------------------
(* The bundle: the rows of the task are listed first, the chain is walked then. *)

\* listAuditComplete: the digests of the rows of a task, in order; those among the first n.
Taken(table, task) ==
  LET taken[n \in Nat] ==
        IF n = 0 THEN << >>
        ELSE IF table[n].task = task THEN Append(taken[n - 1], table[n].hash)
        ELSE taken[n - 1]
  IN taken
Leaves(table, task) == Taken(table, task)[Len(table)]

exportAuditProofBundle(listed, walked, task) ==
  LET leaves == Leaves(listed, task) IN
  [totalEvents |-> Len(leaves), complete |-> Verified(walked), chainValid |-> Verified(walked),
   merkleRoot |-> Root(leaves),
   events |-> [i \in 1 .. Len(leaves) |->
                 [eventHash |-> leaves[i], merkleProof |-> generateMerkleProof(leaves, i - 1)]]]

verifyAuditProofBundle(bundle) ==
  /\ bundle.chainValid
  /\ \A i \in 1 .. Len(bundle.events) :
       LET event == bundle.events[i] IN
       /\ verifyMerkleProof(event.merkleProof)
       /\ event.merkleProof.rootHash = bundle.merkleRoot
       /\ event.eventHash = event.merkleProof.targetHash
  /\ bundle.complete /\ bundle.totalEvents = Len(bundle.events)

-----------------------------------------------------------------------------
(* Properties *)

Listed(n) == SubSeq(rows, 1, n)

\* Whatever the number of events of a task, and however many rows were appended between the
\* listing and the walk, its bundle verifies exactly if the chain does: no proof in it fails.
BundlesVerify ==
  \A t \in Tasks : \A n \in 0 .. Len(rows) :
    verifyAuditProofBundle(exportAuditProofBundle(Listed(n), rows, t)) <=> Verified(rows)

\* The root speaks for all the events of the task: an auditor who recomputes it notices that
\* any one row of the task was left out, be it the only one, the duplicated last digest of
\* an odd level notwithstanding.
RootsBindTheirEvents ==
  \A i \in 1 .. Len(rows) :
    Root(Leaves(Without(i), rows[i].task)) # Root(Leaves(rows, rows[i].task))
=============================================================================
