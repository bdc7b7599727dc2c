-------------------------- MODULE AuditChainProofs --------------------------
(***************************************************************************)
(* Proofs about AuditChain and ProofBundles, for any writers, events,      *)
(* tasks and bounds: the trail an untouched table holds always verifies, a *)
(* change that the digests cover never does, every exported bundle         *)
(* verifies as long as the chain does, and the root of a task's events is  *)
(* another one as soon as any of them is left out.                         *)
(*                                                                         *)
(* The walk of verifyAuditChain looks at neighbours only, so the invariant *)
(* is about them: an open transaction extends the current head (Drafts),   *)
(* and the digest of row i of an untouched table chains exactly i events   *)
(* (Chain), which is why no row fits in the place of another.              *)
(*                                                                         *)
(* The trees are of any height and are made by recursive functions. What   *)
(* these are on the next number is proved of each (TowerEquations, ...),   *)
(* the rest by induction: a set with zero and every successor has all      *)
(* natural numbers (AllNat). That the root binds rests on the digests of   *)
(* the rows being distinct, which is an invariant of the chain (Unique).   *)
(***************************************************************************)
EXTENDS ProofBundles, NaturalsInduction, WellFoundedInduction, SequenceTheorems, TLAPS

\* A digest chains one event more than the one before, and determines both.
LEMMA DigestTypes ==
  ASSUME NEW previous \in Digests, NEW content \in Contents
  PROVE  /\ hashEvent(previous, content) \in Digests
         /\ Len(hashEvent(previous, content)) = Len(previous) + 1
         /\ \A p \in Digests, c \in Contents :
              hashEvent(p, c) = hashEvent(previous, content) => p = previous /\ c = content
  <1>1. /\ hashEvent(previous, content) \in Digests
        /\ Len(hashEvent(previous, content)) = Len(previous) + 1
    BY AppendProperties DEF hashEvent, Digests
  <1>2. ASSUME NEW p \in Digests, NEW c \in Contents,
               hashEvent(p, c) = hashEvent(previous, content)
        PROVE  p = previous /\ c = content
    BY <1>2, AppendInjective DEF hashEvent, Digests
  <1> QED BY <1>1, <1>2

LEMMA RowTypes ==
  ASSUME NEW t \in Tasks, NEW c \in Contents, NEW p \in Digests
  PROVE  /\ Row(t, c, p) \in Rows
         /\ Row(t, c, p).previous = p /\ Row(t, c, p).hash = hashEvent(p, c)
         /\ Row(t, c, p).content = c
  BY DigestTypes DEF Row, Rows

LEMMA GenesisType == GENESIS_HASH \in Digests /\ Len(GENESIS_HASH) = 0
  BY DEF GENESIS_HASH, Digests

(* What each change from outside does to the table. *)
LEMMA RewriteTypes ==
  ASSUME rows \in Seq(Rows), NEW i \in 1..Len(rows), NEW c \in Contents
  PROVE  [rows EXCEPT ![i].content = c] \in Seq(Rows)
<1>1. [rows[i] EXCEPT !.content = c] \in Rows
  <2>1. rows[i] \in Rows
    BY ElementOfSeq
  <2> QED BY <2>1 DEF Rows
<1>2. [rows EXCEPT ![i] = [rows[i] EXCEPT !.content = c]] \in Seq(Rows)
  BY <1>1, ExceptSeq
<1>3. [rows EXCEPT ![i].content = c] = [rows EXCEPT ![i] = [rows[i] EXCEPT !.content = c]]
  OBVIOUS
<1> QED BY <1>2, <1>3

LEMMA RetagTypes ==
  ASSUME rows \in Seq(Rows), NEW i \in 1..Len(rows), NEW t \in Tasks
  PROVE  [rows EXCEPT ![i].task = t] \in Seq(Rows)
<1>1. [rows[i] EXCEPT !.task = t] \in Rows
  <2>1. rows[i] \in Rows
    BY ElementOfSeq
  <2> QED BY <2>1 DEF Rows
<1>2. [rows EXCEPT ![i] = [rows[i] EXCEPT !.task = t]] \in Seq(Rows)
  BY <1>1, ExceptSeq
<1>3. [rows EXCEPT ![i].task = t] = [rows EXCEPT ![i] = [rows[i] EXCEPT !.task = t]]
  OBVIOUS
<1> QED BY <1>2, <1>3

LEMMA DeleteTypes ==
  ASSUME rows \in Seq(Rows), NEW i \in 1..Len(rows)
  PROVE  Without(i) \in Seq(Rows) /\ Len(Without(i)) = Len(rows) - 1
<1>1. Len(rows) - 1 \in Nat
  BY LenProperties
<1>2. \A k \in 1..(Len(rows) - 1) : (IF k < i THEN rows[k] ELSE rows[k + 1]) \in Rows
  BY LenProperties, ElementOfSeq
<1> QED BY <1>1, <1>2, IsASeq, LenProperties DEF Without

LEMMA ReorderTypes ==
  ASSUME rows \in Seq(Rows), NEW i \in 1..Len(rows), NEW j \in 1..Len(rows)
  PROVE  [rows EXCEPT ![i] = rows[j], ![j] = rows[i]] \in Seq(Rows)
<1>1. rows[i] \in Rows /\ rows[j] \in Rows
  BY ElementOfSeq
<1> DEFINE once == [rows EXCEPT ![i] = rows[j]]
<1>2. once \in Seq(Rows) /\ Len(once) = Len(rows)
  BY <1>1, ExceptSeq, LenProperties
<1>3. [once EXCEPT ![j] = rows[i]] \in Seq(Rows)
  BY <1>1, <1>2, ExceptSeq
<1> QED BY <1>3

LEMMA OutsideTampers ==
  ASSUME rows \in Seq(Rows), Outside
  PROVE  \E kind \in {"silent", "trimmed", "loud"}, table \in Seq(Rows) : Tamper(kind, table)
  <1> DEFINE Goal == \E kind \in {"silent", "trimmed", "loud"}, table \in Seq(Rows) :
                       Tamper(kind, table)
  <1>0. ASSUME NEW kind \in {"silent", "trimmed", "loud"}, NEW table \in Seq(Rows),
               Tamper(kind, table)
        PROVE  Goal
    BY <1>0
  <1> HIDE DEF Goal
  <1>1. ASSUME NEW i \in 1..Len(rows), NEW c \in Contents, Rewrite(i, c) PROVE Goal
    <2>1. [rows EXCEPT ![i].content = c] \in Seq(Rows)
      BY RewriteTypes
    <2> QED BY <1>0, <1>1, <2>1 DEF Rewrite
  <1>2. ASSUME NEW i \in 1..Len(rows), NEW t \in Tasks, Retag(i, t) PROVE Goal
    <2>1. [rows EXCEPT ![i].task = t] \in Seq(Rows)
      BY RetagTypes
    <2> QED BY <1>0, <1>2, <2>1 DEF Retag
  <1>3. ASSUME NEW i \in 1..Len(rows), Delete(i) PROVE Goal
    <2>1. Without(i) \in Seq(Rows)
      BY DeleteTypes
    <2> QED BY <1>0, <1>3, <2>1 DEF Delete
  <1>4. ASSUME NEW i \in 1..Len(rows), NEW j \in 1..Len(rows), Reorder(i, j) PROVE Goal
    <2>1. [rows EXCEPT ![i] = rows[j], ![j] = rows[i]] \in Seq(Rows)
      BY ReorderTypes
    <2> QED BY <1>0, <1>4, <2>1 DEF Reorder
  <1>5. Goal
    BY <1>1, <1>2, <1>3, <1>4 DEF Outside
  <1> QED BY <1>5 DEF Goal

(* Every state of the chain is well typed: each open transaction holds the *)
(* head row, whatever fails (appendAudit, transaction).                    *)
THEOREM ChainTypeCorrect == Spec => []TypeOK
  <1>1. Init => TypeOK
    BY GenesisType, EmptySeq DEF Init, TypeOK
  <1>2. TypeOK /\ [Next]_vars => TypeOK'
    <2> SUFFICES ASSUME TypeOK, [Next]_vars PROVE TypeOK'
      OBVIOUS
    <2> USE AuditAssumption DEF TypeOK
    <2>1. ASSUME NEW w \in Writers, NEW t \in Tasks, NEW c \in Contents, Begin(w, t, c)
          PROVE  TypeOK'
      <3>1. Row(t, c, head) \in Rows
        BY RowTypes
      <3> QED BY <2>1, <3>1 DEF Begin
    <2>2. ASSUME NEW w \in Writers, Insert(w) PROVE TypeOK'
      BY <2>2 DEF Insert
    <2>3. ASSUME NEW w \in Writers, Commit(w) PROVE TypeOK'
      <3>1. draft[w] \in Rows /\ draft[w].hash \in Digests
        BY <2>3 DEF Commit, Rows
      <3>2. Append(rows, draft[w]) \in Seq(Rows)
        BY <3>1, AppendProperties
      <3> QED BY <2>3, <3>1, <3>2 DEF Commit, End
    <2>4. ASSUME NEW w \in Writers, Rollback(w) PROVE TypeOK'
      BY <2>4 DEF Rollback, End
    <2>5. ASSUME Outside PROVE TypeOK'
      <3>1. ASSUME NEW kind \in {"silent", "trimmed", "loud"}, NEW table \in Seq(Rows),
                   Tamper(kind, table)
            PROVE  TypeOK'
        BY <3>1 DEF Tamper
      <3> QED BY <2>5, <3>1, OutsideTampers
    <2>6. CASE UNCHANGED vars
      BY <2>6 DEF vars
    <2> QED BY <2>1, <2>2, <2>3, <2>4, <2>5, <2>6 DEF Next, Write
  <1> QED BY <1>1, <1>2, PTL DEF Spec

-----------------------------------------------------------------------------
(* An open transaction extends the current head. *)
Drafts ==
  \A w \in Writers :
    pc[w] # "idle" =>
      /\ draft[w].previous = head
      /\ draft[w].hash = hashEvent(head, draft[w].content)

LEMMA DraftsExtend == Spec => []Drafts
  <1>1. Init => Drafts
    BY DEF Init, Drafts
  <1>2. TypeOK /\ Drafts /\ [Next]_vars => Drafts'
    <2> SUFFICES ASSUME TypeOK, Drafts, [Next]_vars PROVE Drafts'
      OBVIOUS
    <2>1. ASSUME NEW w \in Writers, NEW t \in Tasks, NEW c \in Contents, Begin(w, t, c)
          PROVE  Drafts'
      BY <2>1, RowTypes, AuditAssumption DEF Begin, TypeOK, Drafts
    <2>2. ASSUME NEW w \in Writers, Insert(w) PROVE Drafts'
      BY <2>2 DEF Insert, TypeOK, Drafts
    <2>3. ASSUME NEW w \in Writers, Commit(w) PROVE Drafts'
      BY <2>3 DEF Commit, End, TypeOK, Drafts
    <2>4. ASSUME NEW w \in Writers, Rollback(w) PROVE Drafts'
      BY <2>4 DEF Rollback, End, TypeOK, Drafts
    <2>5. ASSUME NEW kind, NEW table, Tamper(kind, table) PROVE Drafts'
      BY <2>5 DEF Tamper, Drafts
    <2>6. CASE UNCHANGED vars
      BY <2>6 DEF vars, Drafts
    <2> QED BY <2>1, <2>2, <2>3, <2>4, <2>5, <2>6
          DEF Next, Write, Outside, Rewrite, Retag, Delete, Reorder
  <1> QED BY <1>1, <1>2, ChainTypeCorrect, PTL DEF Spec

-----------------------------------------------------------------------------
(* What the walk finds in a changed table. *)

\* The digest of row i of a sound table chains i events.
Sound(table) == Verified(table) /\ \A i \in 1..Len(table) : Len(table[i].hash) = i
Broken(table) == \E i \in 1..Len(table) : ~SoundRow(table, i)

LEMMA BrokenFails == ASSUME NEW table, Broken(table) PROVE ~Verified(table)
BY DEF Broken, Verified

\* What a walk compares is a digest, ...
LEMMA LinkTypes ==
  ASSUME NEW table \in Seq(Rows), NEW i \in 1..(Len(table) + 1)
  PROVE  Link(table, i) \in Digests
<1>1. CASE i = 1
  BY <1>1, GenesisType DEF Link
<1>2. CASE i # 1
  <2>1. i - 1 \in 1..Len(table)
    BY <1>2, LenProperties
  <2>2. table[i - 1] \in Rows
    BY <2>1, ElementOfSeq
  <2> QED BY <1>2, <2>2 DEF Link, Rows
<1> QED BY <1>1, <1>2

\* ... which chains as many events of a sound table as were walked over.
LEMMA LinkLengths ==
  ASSUME NEW table \in Seq(Rows), Sound(table), NEW i \in 1..(Len(table) + 1)
  PROVE  Len(Link(table, i)) = i - 1
<1>1. CASE i = 1
  BY <1>1, GenesisType DEF Link
<1>2. CASE i # 1
  <2>1. i - 1 \in 1..Len(table)
    BY <1>2, LenProperties
  <2> QED BY <1>2, <2>1 DEF Link, Sound
<1> QED BY <1>1, <1>2

\* An append leaves the rows before it, and what the walk compares them with.
LEMMA AppendKeepsRows ==
  ASSUME NEW table \in Seq(Rows), NEW row \in Rows
  PROVE  /\ Len(Append(table, row)) = Len(table) + 1
         /\ Append(table, row)[Len(table) + 1] = row
         /\ \A i \in 1..Len(table) : Append(table, row)[i] = table[i]
         /\ \A i \in 1..(Len(table) + 1) : Link(Append(table, row), i) = Link(table, i)
         /\ Link(Append(table, row), Len(table) + 2) = row.hash
<1>1. /\ Len(Append(table, row)) = Len(table) + 1
      /\ Append(table, row)[Len(table) + 1] = row
      /\ \A i \in 1..Len(table) : Append(table, row)[i] = table[i]
  BY AppendProperties
<1>2. \A i \in 1..(Len(table) + 1) : i # 1 => i - 1 \in 1..Len(table)
  BY LenProperties
<1>3. /\ Len(table) + 2 # 1 /\ (Len(table) + 2) - 1 = Len(table) + 1
  BY LenProperties
<1> QED BY <1>1, <1>2, <1>3 DEF Link

\* A row that extends the last digest of a sound table keeps it sound.
LEMMA AppendKeepsSound ==
  ASSUME NEW table \in Seq(Rows), NEW row \in Rows, Sound(table),
         row.previous = Link(table, Len(table) + 1),
         row.hash = hashEvent(row.previous, row.content)
  PROVE  Sound(Append(table, row))
<1> DEFINE longer == Append(table, row)
<1>1. /\ Len(longer) = Len(table) + 1 /\ longer[Len(table) + 1] = row
      /\ \A i \in 1..Len(table) : longer[i] = table[i]
      /\ \A i \in 1..(Len(table) + 1) : Link(longer, i) = Link(table, i)
  BY AppendKeepsRows
<1>2. Len(table) \in Nat
  BY LenProperties
<1> HIDE DEF longer
<1>3. \A i \in 1..Len(table) : SoundRow(longer, i) /\ Len(longer[i].hash) = i
  BY <1>1, <1>2 DEF Sound, Verified, SoundRow
<1>4. SoundRow(longer, Len(table) + 1)
  BY <1>1, <1>2 DEF SoundRow
<1>5. Len(row.hash) = Len(table) + 1
  <2>1. Link(table, Len(table) + 1) \in Digests /\ row.content \in Contents
    BY <1>2, LinkTypes DEF Rows
  <2>2. Len(Link(table, Len(table) + 1)) = Len(table)
    BY <1>2, LinkLengths
  <2> QED BY <2>1, <2>2, DigestTypes
<1>6. \A i \in 1..Len(longer) : i \in 1..Len(table) \/ i = Len(table) + 1
  BY <1>1, <1>2
<1>7. Sound(longer)
  BY <1>1, <1>3, <1>4, <1>5, <1>6 DEF Sound, Verified
<1> QED BY <1>7 DEF longer

\* No append repairs a table.
LEMMA AppendKeepsBroken ==
  ASSUME NEW table \in Seq(Rows), NEW row \in Rows, Broken(table)
  PROVE  Broken(Append(table, row))
<1>1. PICK i \in 1..Len(table) : ~SoundRow(table, i)
  BY DEF Broken
<1>2. i \in 1..Len(Append(table, row)) /\ i \in 1..(Len(table) + 1)
  BY AppendKeepsRows, LenProperties
<1>3. ~SoundRow(Append(table, row), i)
  BY <1>1, <1>2, AppendKeepsRows DEF SoundRow
<1> QED BY <1>2, <1>3 DEF Broken

\* A row with other contents has not the digest it says.
LEMMA RewriteBreaks ==
  ASSUME rows \in Seq(Rows), Sound(rows), NEW i \in 1..Len(rows), NEW c \in Contents,
         [rows EXCEPT ![i].content = c] # rows
  PROVE  Broken([rows EXCEPT ![i].content = c])
<1> DEFINE table == [rows EXCEPT ![i].content = c]
<1>1. rows[i] \in Rows /\ Len(rows) \in Nat
  BY ElementOfSeq, LenProperties
<1>2. table \in Seq(Rows) /\ Len(table) = Len(rows)
  BY RewriteTypes
<1>3. table[i].content = c /\ table[i].hash = rows[i].hash
  BY <1>1 DEF Rows
<1>4. c # rows[i].content
  <2> SUFFICES ASSUME c = rows[i].content PROVE FALSE
    OBVIOUS
  <2>1. [rows[i] EXCEPT !.content = c] = rows[i]
    BY <1>1 DEF Rows
  <2>2. [rows EXCEPT ![i] = [rows[i] EXCEPT !.content = c]] = rows
    BY <2>1
  <2> QED BY <2>2
<1>5. Link(table, i) = Link(rows, i)
  BY <1>1 DEF Link
<1> HIDE DEF table
<1>6. Link(rows, i) \in Digests
  BY <1>1, LinkTypes
<1>7. rows[i].hash = hashEvent(Link(rows, i), rows[i].content) /\ rows[i].content \in Contents
  BY <1>1 DEF Sound, Verified, SoundRow, Rows
<1>8. hashEvent(Link(rows, i), c) # hashEvent(Link(rows, i), rows[i].content)
  BY <1>4, <1>6, <1>7, DigestTypes
<1>9. ~SoundRow(table, i)
  BY <1>3, <1>5, <1>7, <1>8 DEF SoundRow
<1> QED BY <1>2, <1>9 DEF Broken, table

\* A gap shows in the row after it, or, after the last one, in the head.
LEMMA DeleteBreaks ==
  ASSUME rows \in Seq(Rows), Sound(rows), NEW i \in 1..Len(rows)
  PROVE  /\ i # Len(rows) => Broken(Without(i))
         /\ i = Len(rows) => Link(rows, Len(rows) + 1) # Link(Without(i), Len(rows))
<1>1. Len(rows) \in Nat /\ Len(Without(i)) = Len(rows) - 1
  BY LenProperties, DeleteTypes
<1>2. Link(Without(i), i) = Link(rows, i)
  BY <1>1 DEF Link, Without
<1>3. /\ Len(Link(rows, i)) = i - 1
      /\ Link(rows, i + 1) = rows[i].hash /\ Len(rows[i].hash) = i
  BY <1>1, LinkLengths DEF Link, Sound
<1>4. ASSUME i # Len(rows) PROVE Broken(Without(i))
  <2>1. i \in 1..Len(Without(i)) /\ Without(i)[i] = rows[i + 1] /\ i + 1 \in 1..Len(rows)
    BY <1>1, <1>4 DEF Without
  <2>2. rows[i + 1].previous = Link(rows, i + 1)
    BY <2>1 DEF Sound, Verified, SoundRow
  <2>3. ~SoundRow(Without(i), i)
    BY <1>2, <1>3, <2>1, <2>2 DEF SoundRow
  <2> QED BY <2>1, <2>3 DEF Broken
<1>5. ASSUME i = Len(rows) PROVE Link(rows, Len(rows) + 1) # Link(Without(i), Len(rows))
  BY <1>2, <1>3, <1>5
<1> QED BY <1>4, <1>5

\* A row in an earlier place has another digest before it.
LEMMA ReorderBreaks ==
  ASSUME rows \in Seq(Rows), Sound(rows), NEW i \in 1..Len(rows), NEW j \in 1..Len(rows), i < j
  PROVE  /\ Broken([rows EXCEPT ![i] = rows[j], ![j] = rows[i]])
         /\ Broken([rows EXCEPT ![j] = rows[i], ![i] = rows[j]])
<1> DEFINE table == [rows EXCEPT ![i] = rows[j], ![j] = rows[i]]
<1>1. Len(rows) \in Nat /\ Len(table) = Len(rows)
  BY LenProperties, ReorderTypes
<1>2. table = [rows EXCEPT ![j] = rows[i], ![i] = rows[j]]
  OBVIOUS
<1>3. table[i] = rows[j] /\ Link(table, i) = Link(rows, i)
  BY <1>1 DEF Link
<1> HIDE DEF table
<1>4. rows[j].previous = Link(rows, j)
  BY DEF Sound, Verified, SoundRow
<1>5. Len(Link(rows, i)) = i - 1 /\ Len(Link(rows, j)) = j - 1
  BY <1>1, LinkLengths
<1>6. ~SoundRow(table, i)
  BY <1>3, <1>4, <1>5 DEF SoundRow
<1> QED BY <1>1, <1>2, <1>6 DEF Broken, table
-----------------------------------------------------------------------------
(* What the table and the head are to each other. *)
Chain ==
  /\ evidence = "intact" => Sound(rows) /\ head = Link(rows, Len(rows) + 1)
  /\ evidence = "trimmed" => head # Link(rows, Len(rows) + 1)
  /\ evidence = "loud" => Broken(rows)

LEMMA CommitKeepsChain ==
  ASSUME TypeOK, Drafts, Chain, NEW w \in Writers, Commit(w)
  PROVE  Chain'
<1> DEFINE row == draft[w]
<1>1. /\ rows \in Seq(Rows) /\ row \in Rows /\ Len(rows) \in Nat
      /\ row.previous = head /\ row.hash = hashEvent(head, row.content)
  BY LenProperties DEF TypeOK, Drafts, Commit
<1>2. rows' = Append(rows, row) /\ head' = row.hash
  BY DEF Commit
<1>3. evidence' = IF evidence = "trimmed" THEN "loud" ELSE evidence
  BY DEF Commit
<1> HIDE DEF row
<1>4. rows' \in Seq(Rows) /\ Len(rows') = Len(rows) + 1 /\ Link(rows', Len(rows') + 1) = row.hash
  BY <1>1, <1>2, AppendKeepsRows, AppendProperties
<1>5. CASE evidence = "intact"
  <2>1. Sound(rows')
    BY <1>1, <1>2, <1>5, AppendKeepsSound DEF Chain
  <2> QED BY <1>2, <1>3, <1>4, <1>5, <2>1 DEF Chain
<1>6. CASE evidence = "trimmed"
  <2>1. /\ Link(rows', Len(rows) + 1) = Link(rows, Len(rows) + 1)
        /\ rows'[Len(rows) + 1] = row
    BY <1>1, <1>2, AppendKeepsRows
  <2>2. head # Link(rows, Len(rows) + 1)
    BY <1>6 DEF Chain
  <2>3. ~SoundRow(rows', Len(rows) + 1)
    BY <1>1, <2>1, <2>2 DEF SoundRow
  <2>4. Len(rows) + 1 \in 1..Len(rows')
    BY <1>1, <1>4
  <2>5. Broken(rows')
    BY <2>3, <2>4 DEF Broken
  <2> QED BY <1>3, <1>6, <2>5 DEF Chain
<1>7. CASE evidence = "loud"
  <2>1. Broken(rows')
    BY <1>1, <1>2, <1>7, AppendKeepsBroken DEF Chain
  <2> QED BY <1>3, <1>7, <2>1 DEF Chain
<1>8. CASE evidence = "silent"
  BY <1>3, <1>8 DEF Chain
<1> QED BY <1>5, <1>6, <1>7, <1>8 DEF TypeOK

LEMMA OutsideKeepsChain ==
  ASSUME TypeOK, Chain, Outside
  PROVE  Chain'
<1>1. rows \in Seq(Rows) /\ Len(rows) \in Nat
  BY LenProperties DEF TypeOK
<1>2. ASSUME NEW kind, NEW table, Tamper(kind, table)
      PROVE  /\ Sound(rows) /\ head = Link(rows, Len(rows) + 1) /\ table # rows
             /\ rows' = table /\ evidence' = kind /\ head' = head
  BY <1>2 DEF Tamper, Chain
<1>3. ASSUME NEW i \in 1..Len(rows), NEW c \in Contents, Rewrite(i, c) PROVE Chain'
  <2> DEFINE table == [rows EXCEPT ![i].content = c]
  <2>1. Tamper("loud", table)
    BY <1>3 DEF Rewrite
  <2> HIDE DEF table
  <2>2. Sound(rows) /\ table # rows /\ rows' = table /\ evidence' = "loud"
    BY <1>2, <2>1
  <2>3. Broken(table)
    BY <1>1, <2>2, RewriteBreaks DEF table
  <2> QED BY <2>2, <2>3 DEF Chain
<1>4. ASSUME NEW i \in 1..Len(rows), NEW t \in Tasks, Retag(i, t) PROVE Chain'
  <2>1. evidence' = "silent"
    BY <1>4 DEF Retag, Tamper
  <2> QED BY <2>1 DEF Chain
<1>5. ASSUME NEW i \in 1..Len(rows), Delete(i) PROVE Chain'
  <2> DEFINE kind == IF i = Len(rows) THEN "trimmed" ELSE "loud"
  <2>1. Tamper(kind, Without(i))
    BY <1>5 DEF Delete
  <2> HIDE DEF kind
  <2>2. /\ Sound(rows) /\ head = Link(rows, Len(rows) + 1) /\ rows' = Without(i)
        /\ evidence' = kind /\ head' = head
    BY <1>2, <2>1
  <2>3. CASE i = Len(rows)
    <3>1. Len(rows') + 1 = Len(rows)
      BY <1>1, <2>2, DeleteTypes
    <3>2. head' # Link(rows', Len(rows') + 1)
      BY <1>1, <2>2, <2>3, <3>1, DeleteBreaks
    <3>3. evidence' = "trimmed"
      BY <2>2, <2>3 DEF kind
    <3> QED BY <3>2, <3>3 DEF Chain
  <2>4. CASE i # Len(rows)
    <3>1. Broken(rows')
      BY <1>1, <2>2, <2>4, DeleteBreaks
    <3>2. evidence' = "loud"
      BY <2>2, <2>4 DEF kind
    <3> QED BY <3>1, <3>2 DEF Chain
  <2> QED BY <2>3, <2>4
<1>6. ASSUME NEW i \in 1..Len(rows), NEW j \in 1..Len(rows), Reorder(i, j) PROVE Chain'
  <2> DEFINE table == [rows EXCEPT ![i] = rows[j], ![j] = rows[i]]
  <2>1. Tamper("loud", table)
    BY <1>6 DEF Reorder
  <2>2. ASSUME i = j PROVE table = rows
    BY <1>1, <2>2
  <2> HIDE DEF table
  <2>3. Sound(rows) /\ table # rows /\ rows' = table /\ evidence' = "loud"
    BY <1>2, <2>1
  <2>4. Broken(table)
    <3>1. CASE i < j
      BY <1>1, <2>3, <3>1, ReorderBreaks DEF table
    <3>2. CASE j < i
      BY <1>1, <2>3, <3>2, ReorderBreaks DEF table
    <3> QED BY <1>1, <2>2, <2>3, <3>1, <3>2
  <2> QED BY <2>3, <2>4 DEF Chain
<1> QED BY <1>3, <1>4, <1>5, <1>6 DEF Outside

LEMMA ChainInvariant == Spec => []Chain
  <1>1. Init => Chain
    <2> SUFFICES ASSUME Init PROVE Chain
      OBVIOUS
    <2>1. rows = << >> /\ Len(rows) = 0 /\ head = GENESIS_HASH /\ evidence = "intact"
      BY DEF Init
    <2> QED BY <2>1 DEF Chain, Sound, Verified, Link
  <1>2. TypeOK /\ Drafts /\ Chain /\ [Next]_vars => Chain'
    <2> SUFFICES ASSUME TypeOK, Drafts, Chain, [Next]_vars PROVE Chain'
      OBVIOUS
    <2>1. ASSUME UNCHANGED <<rows, head, evidence>> PROVE Chain'
      BY <2>1 DEF Chain
    <2>2. ASSUME NEW w \in Writers, NEW t \in Tasks, NEW c \in Contents, Begin(w, t, c)
          PROVE  Chain'
      BY <2>1, <2>2 DEF Begin
    <2>3. ASSUME NEW w \in Writers, Insert(w) PROVE Chain'
      BY <2>1, <2>3 DEF Insert
    <2>4. ASSUME NEW w \in Writers, Commit(w) PROVE Chain'
      BY <2>4, CommitKeepsChain
    <2>5. ASSUME NEW w \in Writers, Rollback(w) PROVE Chain'
      BY <2>1, <2>5 DEF Rollback
    <2>6. ASSUME Outside PROVE Chain'
      BY <2>6, OutsideKeepsChain
    <2>7. CASE UNCHANGED vars
      BY <2>1, <2>7 DEF vars
    <2> QED BY <2>2, <2>3, <2>4, <2>5, <2>6, <2>7 DEF Next, Write
  <1> QED BY <1>1, <1>2, ChainTypeCorrect, DraftsExtend, PTL DEF Spec

(* The trail no one else has touched verifies, and the head is its last    *)
(* digest (appendAudit against verifyAuditChain).                          *)
THEOREM ChainAlwaysVerifies == Spec => []ChainVerifies
  <1>1. Chain => ChainVerifies
    BY DEF Chain, ChainVerifies, Sound
  <1> QED BY <1>1, ChainInvariant, PTL

(* A rewritten, re-ordered or deleted row that is not the last one makes   *)
(* the walk of verifyAuditChain fail, and no later append repairs it.      *)
THEOREM LoudTamperingAlwaysCaught == Spec => []LoudTamperingIsCaught
  <1>1. Chain => LoudTamperingIsCaught
    BY BrokenFails DEF Chain, LoudTamperingIsCaught
  <1> QED BY <1>1, ChainInvariant, PTL

-----------------------------------------------------------------------------
(* Induction over the natural numbers. *)

\* A set of natural numbers with a member has a least one, ...
LEMMA LeastNat ==
  ASSUME NEW S, S \subseteq Nat, S # {}
  PROVE  \E m \in S : \A k \in S : m <= k
<1>1. IsWellFoundedOn(OpToRel(<, Nat), Nat)
  BY NatLessThanWellFounded
<1>2. PICK m \in S : \A k \in S : ~(<<k, m>> \in OpToRel(<, Nat))
  BY <1>1, WFMin
<1>3. \A k \in S : ~(k < m)
  BY <1>2 DEF OpToRel
<1> QED
  BY <1>3

\* ... so that a set with zero and every successor has all of them.
LEMMA AllNat ==
  ASSUME NEW S, 0 \in S, \A n \in Nat : n \in S => n + 1 \in S
  PROVE  Nat \subseteq S
<1> SUFFICES ASSUME Nat \ S # {} PROVE FALSE
  OBVIOUS
<1>1. PICK m \in Nat \ S : \A k \in Nat \ S : m <= k
  BY LeastNat
<1>2. m # 0 /\ m - 1 \in Nat /\ m - 1 \in S
  BY <1>1
<1> QED
  BY <1>1, <1>2

-----------------------------------------------------------------------------
(* The recursive functions are what their equations say. Each is the union of its *)
(* beginnings: for every n there is one, and any two agree as far as both go.     *)

\* The levels: each has the parents of the one below.
LEMMA TowerEquations ==
  ASSUME NEW leaves
  PROVE  /\ Tower(leaves)[0] = leaves
         /\ \A h \in Nat : Tower(leaves)[h + 1] = Parents(Tower(leaves)[h])
<1> DEFINE Begins(f, n) ==
             f = [h \in 0 .. n |-> IF h = 0 THEN leaves ELSE Parents(f[h - 1])]
           All(f) == f = [h \in Nat |-> IF h = 0 THEN leaves ELSE Parents(f[h - 1])]
<1>1. \A n \in Nat : \E f : Begins(f, n)
  <2> DEFINE S == {n \in Nat : \E f : Begins(f, n)}
  <2>1. 0 \in S
    <3>1. Begins([h \in 0 .. 0 |-> leaves], 0)
      OBVIOUS
    <3> QED
      BY <3>1
  <2>2. ASSUME NEW n \in Nat, n \in S PROVE n + 1 \in S
    <3>1. PICK f : Begins(f, n)
      BY <2>2
    <3> DEFINE g == [h \in 0 .. (n + 1) |-> IF h = 0 THEN leaves ELSE Parents(f[h - 1])]
    <3>2. \A h \in 0 .. n : g[h] = f[h]
      BY <3>1
    <3>3. \A h \in 0 .. (n + 1) : h # 0 => h - 1 \in 0 .. n
      OBVIOUS
    <3>4. \A h \in 0 .. (n + 1) : h # 0 => f[h - 1] = g[h - 1]
      BY <3>2, <3>3
    <3>5. g = [h \in 0 .. (n + 1) |-> IF h = 0 THEN leaves ELSE Parents(g[h - 1])]
      BY <3>4
    <3> HIDE DEF g
    <3> QED
      BY <3>5
  <2> QED
    BY <2>1, <2>2, AllNat
<1>2. ASSUME NEW n \in Nat, NEW m \in Nat, NEW f, NEW g, Begins(f, n), Begins(g, m)
      PROVE  \A h \in Nat : h <= n /\ h <= m => f[h] = g[h]
  <2> DEFINE S == {h \in Nat : h <= n /\ h <= m => f[h] = g[h]}
  <2>1. 0 \in S
    BY <1>2
  <2>2. ASSUME NEW h \in Nat, h \in S PROVE h + 1 \in S
    <3> SUFFICES ASSUME h + 1 <= n, h + 1 <= m PROVE f[h + 1] = g[h + 1]
      OBVIOUS
    <3>1. f[h] = g[h]
      BY <2>2
    <3>2. /\ h + 1 \in 0 .. n /\ h + 1 \in 0 .. m /\ h + 1 # 0 /\ (h + 1) - 1 = h
      OBVIOUS
    <3>3. f[h + 1] = Parents(f[h]) /\ g[h + 1] = Parents(g[h])
      BY <1>2, <3>2
    <3> QED
      BY <3>1, <3>3
  <2>3. Nat \subseteq S
    BY <2>1, <2>2, AllNat
  <2> QED
    BY <2>3
<1>3. \E f : All(f)
  <2> DEFINE start(n) == CHOOSE f : Begins(f, n)
             g == [n \in Nat |-> start(n)[n]]
  <2>1. \A n \in Nat : Begins(start(n), n)
    BY <1>1
  <2> HIDE DEF start, Begins
  <2>2. \A n \in Nat : n # 0 => g[n] = Parents(g[n - 1])
    <3> SUFFICES ASSUME NEW n \in Nat \ {0} PROVE g[n] = Parents(g[n - 1])
      OBVIOUS
    <3>1. n - 1 \in Nat /\ n \in 0 .. n /\ n - 1 <= n
      OBVIOUS
    <3>2. start(n)[n] = Parents(start(n)[n - 1])
      BY <2>1, <3>1 DEF Begins
    <3>3. start(n)[n - 1] = start(n - 1)[n - 1]
      BY <1>2, <2>1, <3>1
    <3> QED
      BY <3>1, <3>2, <3>3
  <2>3. g[0] = leaves
    BY <2>1 DEF Begins
  <2>4. All(g)
    BY <2>2, <2>3
  <2> QED
    BY <2>4
<1>4. All(Tower(leaves))
  BY <1>3 DEF Tower
<1> QED
  BY <1>4

\* The index of a leaf, halved at every level.
LEMMA PlaceEquations ==
  ASSUME NEW index
  PROVE  /\ Place(index)[0] = index
         /\ \A h \in Nat : Place(index)[h + 1] = Place(index)[h] \div 2
<1> DEFINE Begins(f, n) ==
             f = [h \in 0 .. n |-> IF h = 0 THEN index ELSE f[h - 1] \div 2]
           All(f) == f = [h \in Nat |-> IF h = 0 THEN index ELSE f[h - 1] \div 2]
<1>1. \A n \in Nat : \E f : Begins(f, n)
  <2> DEFINE S == {n \in Nat : \E f : Begins(f, n)}
  <2>1. 0 \in S
    <3>1. Begins([h \in 0 .. 0 |-> index], 0)
      OBVIOUS
    <3> QED
      BY <3>1
  <2>2. ASSUME NEW n \in Nat, n \in S PROVE n + 1 \in S
    <3>1. PICK f : Begins(f, n)
      BY <2>2
    <3> DEFINE g == [h \in 0 .. (n + 1) |-> IF h = 0 THEN index ELSE f[h - 1] \div 2]
    <3>2. \A h \in 0 .. n : g[h] = f[h]
      BY <3>1
    <3>3. \A h \in 0 .. (n + 1) : h # 0 => h - 1 \in 0 .. n
      OBVIOUS
    <3>4. \A h \in 0 .. (n + 1) : h # 0 => f[h - 1] = g[h - 1]
      BY <3>2, <3>3
    <3>5. g = [h \in 0 .. (n + 1) |-> IF h = 0 THEN index ELSE g[h - 1] \div 2]
      BY <3>4
    <3> HIDE DEF g
    <3> QED
      BY <3>5
  <2> QED
    BY <2>1, <2>2, AllNat
<1>2. ASSUME NEW n \in Nat, NEW m \in Nat, NEW f, NEW g, Begins(f, n), Begins(g, m)
      PROVE  \A h \in Nat : h <= n /\ h <= m => f[h] = g[h]
  <2> DEFINE S == {h \in Nat : h <= n /\ h <= m => f[h] = g[h]}
  <2>1. 0 \in S
    BY <1>2
  <2>2. ASSUME NEW h \in Nat, h \in S PROVE h + 1 \in S
    <3> SUFFICES ASSUME h + 1 <= n, h + 1 <= m PROVE f[h + 1] = g[h + 1]
      OBVIOUS
    <3>1. f[h] = g[h]
      BY <2>2
    <3>2. /\ h + 1 \in 0 .. n /\ h + 1 \in 0 .. m /\ h + 1 # 0 /\ (h + 1) - 1 = h
      OBVIOUS
    <3>3. f[h + 1] = f[h] \div 2 /\ g[h + 1] = g[h] \div 2
      BY <1>2, <3>2
    <3> QED
      BY <3>1, <3>3
  <2>3. Nat \subseteq S
    BY <2>1, <2>2, AllNat
  <2> QED
    BY <2>3
<1>3. \E f : All(f)
  <2> DEFINE start(n) == CHOOSE f : Begins(f, n)
             g == [n \in Nat |-> start(n)[n]]
  <2>1. \A n \in Nat : Begins(start(n), n)
    BY <1>1
  <2> HIDE DEF start, Begins
  <2>2. \A n \in Nat : n # 0 => g[n] = g[n - 1] \div 2
    <3> SUFFICES ASSUME NEW n \in Nat \ {0} PROVE g[n] = g[n - 1] \div 2
      OBVIOUS
    <3>1. n - 1 \in Nat /\ n \in 0 .. n /\ n - 1 <= n
      OBVIOUS
    <3>2. start(n)[n] = start(n)[n - 1] \div 2
      BY <2>1, <3>1 DEF Begins
    <3>3. start(n)[n - 1] = start(n - 1)[n - 1]
      BY <1>2, <2>1, <3>1
    <3> QED
      BY <3>1, <3>2, <3>3
  <2>3. g[0] = index
    BY <2>1 DEF Begins
  <2>4. All(g)
    BY <2>2, <2>3
  <2> QED
    BY <2>4
<1>4. All(Place(index))
  BY <1>3 DEF Place
<1> QED
  BY <1>4

\* The digests of a verification.
LEMMA AscentEquations ==
  ASSUME NEW proof
  PROVE  /\ Ascent(proof)[0] = proof.targetHash
         /\ \A h \in Nat : Ascent(proof)[h + 1] = Climb(Ascent(proof)[h], proof.path[h + 1])
<1> DEFINE first == proof.targetHash
           Begins(f, n) ==
             f = [h \in 0 .. n |-> IF h = 0 THEN first ELSE Climb(f[h - 1], proof.path[h])]
           All(f) == f = [h \in Nat |-> IF h = 0 THEN first ELSE Climb(f[h - 1], proof.path[h])]
<1>1. \A n \in Nat : \E f : Begins(f, n)
  <2> DEFINE S == {n \in Nat : \E f : Begins(f, n)}
  <2>1. 0 \in S
    <3>1. Begins([h \in 0 .. 0 |-> proof.targetHash], 0)
      OBVIOUS
    <3> QED
      BY <3>1
  <2>2. ASSUME NEW n \in Nat, n \in S PROVE n + 1 \in S
    <3>1. PICK f : Begins(f, n)
      BY <2>2
    <3> DEFINE g == [h \in 0 .. (n + 1) |-> IF h = 0 THEN first ELSE Climb(f[h - 1], proof.path[h])]
    <3>2. \A h \in 0 .. n : g[h] = f[h]
      BY <3>1
    <3>3. \A h \in 0 .. (n + 1) : h # 0 => h - 1 \in 0 .. n
      OBVIOUS
    <3>4. \A h \in 0 .. (n + 1) : h # 0 => f[h - 1] = g[h - 1]
      BY <3>2, <3>3
    <3>5. g = [h \in 0 .. (n + 1) |-> IF h = 0 THEN first ELSE Climb(g[h - 1], proof.path[h])]
      BY <3>4
    <3> HIDE DEF g
    <3> QED
      BY <3>5
  <2> QED
    BY <2>1, <2>2, AllNat
<1>2. ASSUME NEW n \in Nat, NEW m \in Nat, NEW f, NEW g, Begins(f, n), Begins(g, m)
      PROVE  \A h \in Nat : h <= n /\ h <= m => f[h] = g[h]
  <2> DEFINE S == {h \in Nat : h <= n /\ h <= m => f[h] = g[h]}
  <2>1. 0 \in S
    BY <1>2
  <2>2. ASSUME NEW h \in Nat, h \in S PROVE h + 1 \in S
    <3> SUFFICES ASSUME h + 1 <= n, h + 1 <= m PROVE f[h + 1] = g[h + 1]
      OBVIOUS
    <3>1. f[h] = g[h]
      BY <2>2
    <3>2. /\ h + 1 \in 0 .. n /\ h + 1 \in 0 .. m /\ h + 1 # 0 /\ (h + 1) - 1 = h
      OBVIOUS
    <3>3. f[h + 1] = Climb(f[h], proof.path[h + 1]) /\ g[h + 1] = Climb(g[h], proof.path[h + 1])
      BY <1>2, <3>2
    <3> QED
      BY <3>1, <3>3
  <2>3. Nat \subseteq S
    BY <2>1, <2>2, AllNat
  <2> QED
    BY <2>3
<1>3. \E f : All(f)
  <2> DEFINE start(n) == CHOOSE f : Begins(f, n)
             g == [n \in Nat |-> start(n)[n]]
  <2>1. \A n \in Nat : Begins(start(n), n)
    BY <1>1
  <2> HIDE DEF start, Begins
  <2>2. \A n \in Nat : n # 0 => g[n] = Climb(g[n - 1], proof.path[n])
    <3> SUFFICES ASSUME NEW n \in Nat \ {0} PROVE g[n] = Climb(g[n - 1], proof.path[n])
      OBVIOUS
    <3>1. n - 1 \in Nat /\ n \in 0 .. n /\ n - 1 <= n
      OBVIOUS
    <3>2. start(n)[n] = Climb(start(n)[n - 1], proof.path[n])
      BY <2>1, <3>1 DEF Begins
    <3>3. start(n)[n - 1] = start(n - 1)[n - 1]
      BY <1>2, <2>1, <3>1
    <3> QED
      BY <3>1, <3>2, <3>3
  <2>3. g[0] = proof.targetHash
    BY <2>1 DEF Begins
  <2>4. All(g)
    BY <2>2, <2>3
  <2> QED
    BY <2>4
<1>4. All(Ascent(proof))
  BY <1>3 DEF Ascent
<1> QED
  BY <1>4

\* The digests of the rows of a task among the first ones.
LEMMA TakenEquations ==
  ASSUME NEW table, NEW task
  PROVE  /\ Taken(table, task)[0] = << >>
         /\ \A n \in Nat :
              /\ table[n + 1].task = task =>
                   Taken(table, task)[n + 1] = Append(Taken(table, task)[n], table[n + 1].hash)
              /\ table[n + 1].task # task => Taken(table, task)[n + 1] = Taken(table, task)[n]
<1> DEFINE Grown(v, h) == IF table[h].task = task THEN Append(v, table[h].hash) ELSE v
<1> DEFINE Begins(f, n) ==
             f = [h \in 0 .. n |-> IF h = 0 THEN << >> ELSE Grown(f[h - 1], h)]
           All(f) == f = [h \in Nat |-> IF h = 0 THEN << >> ELSE Grown(f[h - 1], h)]
<1> HIDE DEF Grown
<1>1. \A n \in Nat : \E f : Begins(f, n)
  <2> DEFINE S == {n \in Nat : \E f : Begins(f, n)}
  <2>1. 0 \in S
    <3>1. Begins([h \in 0 .. 0 |-> << >>], 0)
      OBVIOUS
    <3> QED
      BY <3>1
  <2>2. ASSUME NEW n \in Nat, n \in S PROVE n + 1 \in S
    <3>1. PICK f : Begins(f, n)
      BY <2>2
    <3> DEFINE g == [h \in 0 .. (n + 1) |-> IF h = 0 THEN << >> ELSE Grown(f[h - 1], h)]
    <3>2. \A h \in 0 .. n : g[h] = f[h]
      BY <3>1
    <3>3. \A h \in 0 .. (n + 1) : h # 0 => h - 1 \in 0 .. n
      OBVIOUS
    <3>4. \A h \in 0 .. (n + 1) : h # 0 => f[h - 1] = g[h - 1]
      BY <3>2, <3>3
    <3>5. g = [h \in 0 .. (n + 1) |-> IF h = 0 THEN << >> ELSE Grown(g[h - 1], h)]
      BY <3>4
    <3> HIDE DEF g
    <3> QED
      BY <3>5
  <2> QED
    BY <2>1, <2>2, AllNat
<1>2. ASSUME NEW n \in Nat, NEW m \in Nat, NEW f, NEW g, Begins(f, n), Begins(g, m)
      PROVE  \A h \in Nat : h <= n /\ h <= m => f[h] = g[h]
  <2> DEFINE S == {h \in Nat : h <= n /\ h <= m => f[h] = g[h]}
  <2>1. 0 \in S
    BY <1>2
  <2>2. ASSUME NEW h \in Nat, h \in S PROVE h + 1 \in S
    <3> SUFFICES ASSUME h + 1 <= n, h + 1 <= m PROVE f[h + 1] = g[h + 1]
      OBVIOUS
    <3>1. f[h] = g[h]
      BY <2>2
    <3>2. /\ h + 1 \in 0 .. n /\ h + 1 \in 0 .. m /\ h + 1 # 0 /\ (h + 1) - 1 = h
      OBVIOUS
    <3>3. f[h + 1] = Grown(f[h], h + 1) /\ g[h + 1] = Grown(g[h], h + 1)
      BY <1>2, <3>2
    <3> QED
      BY <3>1, <3>3
  <2>3. Nat \subseteq S
    BY <2>1, <2>2, AllNat
  <2> QED
    BY <2>3
<1>3. \E f : All(f)
  <2> DEFINE start(n) == CHOOSE f : Begins(f, n)
             g == [n \in Nat |-> start(n)[n]]
  <2>1. \A n \in Nat : Begins(start(n), n)
    BY <1>1
  <2> HIDE DEF start, Begins
  <2>2. \A n \in Nat : n # 0 => g[n] = Grown(g[n - 1], n)
    <3> SUFFICES ASSUME NEW n \in Nat \ {0} PROVE g[n] = Grown(g[n - 1], n)
      OBVIOUS
    <3>1. n - 1 \in Nat /\ n \in 0 .. n /\ n - 1 <= n
      OBVIOUS
    <3>2. start(n)[n] = Grown(start(n)[n - 1], n)
      BY <2>1, <3>1 DEF Begins
    <3>3. start(n)[n - 1] = start(n - 1)[n - 1]
      BY <1>2, <2>1, <3>1
    <3> QED
      BY <3>1, <3>2, <3>3
  <2>3. g[0] = << >>
    BY <2>1 DEF Begins
  <2>4. All(g)
    BY <2>2, <2>3
  <2> QED
    BY <2>4
<1>4. All(Taken(table, task))
  BY <1>3 DEF Taken, Grown
<1>5. ASSUME NEW h \in Nat \ {0}
      PROVE  Taken(table, task)[h] = Grown(Taken(table, task)[h - 1], h)
  BY <1>4
<1>6. ASSUME NEW n \in Nat
      PROVE  Taken(table, task)[n + 1] = Grown(Taken(table, task)[n], n + 1)
  <2>1. n + 1 \in Nat \ {0} /\ (n + 1) - 1 = n
    OBVIOUS
  <2> QED
    BY <1>5, <2>1
<1>7. Taken(table, task)[0] = << >>
  BY <1>4
<1> QED
  BY <1>6, <1>7 DEF Grown

-----------------------------------------------------------------------------
(* Levels of the tree. *)

Level(s) == s = [k \in 1 .. Len(s) |-> s[k]] /\ Len(s) \in Nat \ {0}

\* A function on 1 .. m is a sequence of that length.
LEMMA LenOf ==
  ASSUME NEW m \in Nat, NEW f, f = [k \in 1 .. m |-> f[k]]
  PROVE  Len(f) = m
<1> DEFINE S == {f[k] : k \in 1 .. m}
<1>1. f \in [1 .. m -> S]
  OBVIOUS
<1> HIDE DEF S
<1>2. f \in Seq(S)
  BY <1>1
<1> QED
  BY <1>1, <1>2

\* The level above: half as many digests, rounded up, each of two neighbours.
LEMMA ParentsOf ==
  ASSUME NEW s, Level(s)
  PROVE  /\ Level(Parents(s)) /\ Len(Parents(s)) = (Len(s) + 1) \div 2
         /\ \A k \in 1 .. (Len(s) + 1) \div 2 :
              Parents(s)[k] = hashPair(s[2 * k - 1], Sibling(s, 2 * k - 1))
<1> DEFINE m == (Len(s) + 1) \div 2
<1>1. m \in Nat \ {0}
  BY DEF Level
<1>2. Parents(s) = [k \in 1 .. m |-> hashPair(s[2 * k - 1], Sibling(s, 2 * k - 1))]
  BY DEF Parents
<1> HIDE DEF m
<1>3. \A k \in 1 .. m : Parents(s)[k] = hashPair(s[2 * k - 1], Sibling(s, 2 * k - 1))
  BY <1>2
<1>4. Parents(s) = [k \in 1 .. m |-> Parents(s)[k]]
  BY <1>2
<1>5. Len(Parents(s)) = m
  BY <1>1, <1>4, LenOf
<1> QED
  BY <1>1, <1>3, <1>4, <1>5 DEF m, Level

\* Every level of a tree is a sequence of one digest or more.
LEMMA TowerLevels ==
  ASSUME NEW leaves, Level(leaves)
  PROVE  \A h \in Nat : Level(Tower(leaves)[h])
<1> DEFINE S == {h \in Nat : Level(Tower(leaves)[h])}
<1>1. 0 \in S
  BY TowerEquations
<1>2. ASSUME NEW h \in Nat, h \in S PROVE h + 1 \in S
  BY <1>2, TowerEquations, ParentsOf
<1>3. Nat \subseteq S
  BY <1>1, <1>2, AllNat
<1> QED
  BY <1>3

\* There is a first level of a single digest, no later than there are leaves.
LEMMA HeightIs ==
  ASSUME NEW leaves, Level(leaves)
  PROVE  /\ Height(leaves) \in 0 .. Len(leaves)
         /\ Len(Tower(leaves)[Height(leaves)]) = 1
         /\ \A k \in 0 .. (Height(leaves) - 1) : Len(Tower(leaves)[k]) > 1
<1> DEFINE len(h) == Len(Tower(leaves)[h])
           Ones == {h \in Nat : len(h) = 1}
           Lens == {len(h) : h \in Nat}
<1>1. \A h \in Nat : len(h) \in Nat \ {0} /\ len(h + 1) = (len(h) + 1) \div 2
  <2> TAKE h \in Nat
  <2>1. Level(Tower(leaves)[h])
    BY TowerLevels
  <2>2. Len(Tower(leaves)[h + 1]) = (Len(Tower(leaves)[h]) + 1) \div 2
    BY <2>1, TowerEquations, ParentsOf
  <2> QED
    BY <2>1, <2>2 DEF Level
<1>2. len(0) = Len(leaves)
  BY TowerEquations
<1> HIDE DEF len
<1>3. Ones # {}
  <2>1. Lens \subseteq Nat /\ len(0) \in Lens
    BY <1>1
  <2>2. PICK m \in Lens : \A k \in Lens : m <= k
    BY <2>1, LeastNat
  <2>3. PICK h \in Nat : m = len(h)
    BY <2>2
  <2>4. m <= len(h + 1) /\ len(h + 1) = (m + 1) \div 2 /\ m \in Nat \ {0}
    BY <1>1, <2>2, <2>3
  <2>5. m = 1
    BY <2>4
  <2> QED
    BY <2>3, <2>5
<1>4. PICK h \in Ones : \A k \in Ones : h <= k
  BY <1>3, LeastNat
<1>5. \A k \in Nat : k < h => len(k) > 1
  <2> SUFFICES ASSUME NEW k \in Nat, k < h PROVE len(k) > 1
    OBVIOUS
  <2>1. h \in Nat /\ (len(k) = 1 => k \in Ones)
    BY <1>4
  <2>2. k \in Ones => h <= k
    BY <1>4
  <2>3. len(k) \in Nat \ {0}
    BY <1>1
  <2> QED
    BY <2>1, <2>2, <2>3
<1>6. h <= Len(leaves)
  <2> DEFINE S == {k \in Nat : k <= h => len(k) + k <= Len(leaves)}
  <2>1. 0 \in S
    BY <1>1, <1>2
  <2>2. ASSUME NEW k \in Nat, k \in S PROVE k + 1 \in S
    <3>1. k + 1 <= h => len(k) + k <= Len(leaves) /\ len(k) > 1
      BY <1>5, <2>2
    <3>2. len(k) \in Nat /\ len(k + 1) = (len(k) + 1) \div 2 /\ Len(leaves) \in Nat
      BY <1>1 DEF Level
    <3> QED
      BY <3>1, <3>2
  <2>3. Nat \subseteq S
    BY <2>1, <2>2, AllNat
  <2>4. len(h) + h <= Len(leaves) /\ len(h) = 1
    BY <2>3
  <2> QED
    BY <1>1, <2>4 DEF Level
<1>7. h \in 0 .. Len(leaves) /\ len(h) = 1 /\ \A k \in 0 .. (h - 1) : len(k) > 1
  BY <1>5, <1>6 DEF Level
<1> QED
  BY <1>7 DEF len, Height

-----------------------------------------------------------------------------
(* A proof verifies. *)

\* One step up from place p of a level ends at place p \div 2 of the next.
LEMMA OneStepUp ==
  ASSUME NEW s, Level(s), NEW p \in 0 .. Len(s) - 1
  PROVE  /\ p \div 2 \in 0 .. Len(Parents(s)) - 1
         /\ Climb(s[p + 1], Step(s, p)) = Parents(s)[(p \div 2) + 1]
<1> DEFINE q == p \div 2
<1>1. /\ Len(s) \in Nat /\ p \in Nat /\ p < Len(s) /\ q \in Nat
      /\ q + 1 \in 1 .. (Len(s) + 1) \div 2
  BY DEF Level
<1>2. Parents(s)[q + 1] = hashPair(s[2 * (q + 1) - 1], Sibling(s, 2 * (q + 1) - 1))
  BY <1>1, ParentsOf
<1>3. q \in 0 .. Len(Parents(s)) - 1
  BY <1>1, ParentsOf
<1>4. CASE p % 2 = 1
  <2>1. p = 2 * q + 1 /\ 2 * (q + 1) - 1 = p
    BY <1>1, <1>4
  <2>2. Sibling(s, p) = s[p + 1]
    BY <1>1 DEF Sibling
  <2>3. Climb(s[p + 1], Step(s, p)) = hashPair(s[p], s[p + 1])
    BY <1>4 DEF Climb, Step
  <2> QED
    BY <1>2, <1>3, <2>1, <2>2, <2>3
<1>5. CASE p % 2 # 1
  <2>1. p = 2 * q /\ 2 * (q + 1) - 1 = p + 1
    BY <1>1, <1>5
  <2>2. Climb(s[p + 1], Step(s, p)) = hashPair(s[p + 1], Sibling(s, p + 1))
    BY <1>5 DEF Climb, Step
  <2> QED
    BY <1>2, <1>3, <2>1, <2>2
<1> QED
  BY <1>4, <1>5

\* By induction on the levels, a verification comes by the digests above its leaf.
LEMMA ProofVerifies ==
  ASSUME NEW leaves, Level(leaves), NEW i \in 1 .. Len(leaves)
  PROVE  verifyMerkleProof(generateMerkleProof(leaves, i - 1))
<1> DEFINE T == Tower(leaves)
           H == Height(leaves)
           P == Place(i - 1)
           proof == generateMerkleProof(leaves, i - 1)
           A == Ascent(proof)
           Right(h) == P[h] \in 0 .. Len(T[h]) - 1 /\ A[h] = T[h][P[h] + 1]
<1>1. H \in Nat /\ Len(T[H]) = 1 /\ \A h \in Nat : Level(T[h])
  BY HeightIs, TowerLevels DEF Level
<1>2. /\ proof.targetHash = leaves[i] /\ proof.rootHash = Root(leaves)
      /\ proof.index = i - 1 /\ proof.totalLeaves = Len(leaves)
      /\ proof.path = [h \in 1 .. H |-> Step(T[h - 1], P[h - 1])]
  BY DEF generateMerkleProof, Level
<1>3. /\ T[0] = leaves /\ \A h \in Nat : T[h + 1] = Parents(T[h])
      /\ P[0] = i - 1 /\ \A h \in Nat : P[h + 1] = P[h] \div 2
      /\ A[0] = proof.targetHash /\ \A h \in Nat : A[h + 1] = Climb(A[h], proof.path[h + 1])
  BY TowerEquations, PlaceEquations, AscentEquations
<1> HIDE DEF T, H, P, proof, A
<1>4. Len(proof.path) = H
  <2>1. proof.path = [h \in 1 .. H |-> proof.path[h]]
    BY <1>2
  <2> QED
    BY <1>1, <2>1, LenOf
<1>5. \A h \in Nat : h < H => proof.path[h + 1] = Step(T[h], P[h])
  <2> SUFFICES ASSUME NEW h \in Nat, h < H PROVE proof.path[h + 1] = Step(T[h], P[h])
    OBVIOUS
  <2>1. h + 1 \in 1 .. H /\ (h + 1) - 1 = h
    BY <1>1
  <2> QED
    BY <1>2, <2>1
<1>6. Right(H)
  <2> DEFINE S == {h \in Nat : h <= H => Right(h)}
  <2>1. 0 \in S
    BY <1>2, <1>3 DEF Level
  <2>2. ASSUME NEW h \in Nat, h \in S PROVE h + 1 \in S
    <3> SUFFICES ASSUME h + 1 <= H PROVE Right(h + 1)
      OBVIOUS
    <3>1. Right(h) /\ h < H
      BY <1>1, <2>2
    <3>2. /\ P[h] \div 2 \in 0 .. Len(Parents(T[h])) - 1
          /\ Climb(T[h][P[h] + 1], Step(T[h], P[h])) = Parents(T[h])[(P[h] \div 2) + 1]
      BY <1>1, <3>1, OneStepUp
    <3>3. A[h + 1] = Climb(T[h][P[h] + 1], Step(T[h], P[h]))
      BY <1>3, <1>5, <3>1
    <3> QED
      BY <1>3, <3>2, <3>3
  <2>3. Nat \subseteq S
    BY <2>1, <2>2, AllNat
  <2>4. H \in Nat
    BY <1>1
  <2>5. H \in S
    BY <2>3, <2>4
  <2>6. H <= H
    BY <2>4
  <2> QED
    BY <2>5, <2>6
<1>7. A[H] = T[H][1]
  BY <1>1, <1>6
<1>8. Root(leaves) = T[H][1]
  BY DEF Root, T, H, Level
<1>9. proof.index \in 0 .. (proof.totalLeaves - 1)
  BY <1>2 DEF Level
<1> QED
  BY <1>2, <1>4, <1>7, <1>8, <1>9 DEF verifyMerkleProof, A, proof

-----------------------------------------------------------------------------
(* The root determines the leaves. *)

Distinct(s) == \A j, k \in 1 .. Len(s) : s[j] = s[k] => j = k

LEMMA PairsDiffer ==
  ASSUME NEW a, NEW b, NEW c, NEW d, hashPair(a, b) = hashPair(c, d)
  PROVE  a = c /\ b = d
BY DEF hashPair

\* No two parents have one digest if no two children have.
LEMMA DistinctParents ==
  ASSUME NEW s, Level(s), Distinct(s)
  PROVE  Distinct(Parents(s))
<1> SUFFICES ASSUME NEW j \in 1 .. Len(Parents(s)), NEW k \in 1 .. Len(Parents(s)),
                    Parents(s)[j] = Parents(s)[k]
             PROVE  j = k
  BY DEF Distinct
<1>1. Len(s) \in Nat /\ Len(Parents(s)) = (Len(s) + 1) \div 2
  BY ParentsOf DEF Level
<1>2. j \in 1 .. (Len(s) + 1) \div 2 /\ k \in 1 .. (Len(s) + 1) \div 2
  BY <1>1
<1>3. hashPair(s[2 * j - 1], Sibling(s, 2 * j - 1)) = hashPair(s[2 * k - 1], Sibling(s, 2 * k - 1))
  BY <1>2, ParentsOf
<1>4. s[2 * j - 1] = s[2 * k - 1]
  BY <1>3, PairsDiffer
<1>5. 2 * j - 1 \in 1 .. Len(s) /\ 2 * k - 1 \in 1 .. Len(s)
  BY <1>1, <1>2
<1>6. 2 * j - 1 = 2 * k - 1
  BY <1>4, <1>5 DEF Distinct
<1> QED
  BY <1>2, <1>6

\* A level of distinct digests is what its parents say: a last one without a neighbour is
\* told from one with a neighbour by being paired with itself.
LEMMA ParentsDetermine ==
  ASSUME NEW s, NEW r, Level(s), Level(r), Distinct(s), Distinct(r), Parents(s) = Parents(r)
  PROVE  s = r
<1> DEFINE m == Len(Parents(s))
<1>1. /\ Len(s) \in Nat \ {0} /\ Len(r) \in Nat \ {0} /\ m \in Nat \ {0}
      /\ m = (Len(s) + 1) \div 2 /\ m = (Len(r) + 1) \div 2
  BY ParentsOf DEF Level
<1>2. /\ \A k \in 1 .. m : Parents(s)[k] = hashPair(s[2 * k - 1], Sibling(s, 2 * k - 1))
      /\ \A k \in 1 .. m : Parents(s)[k] = hashPair(r[2 * k - 1], Sibling(r, 2 * k - 1))
  BY <1>1, ParentsOf
<1> HIDE DEF m
<1>3. \A k \in 1 .. m : s[2 * k - 1] = r[2 * k - 1] /\ Sibling(s, 2 * k - 1) = Sibling(r, 2 * k - 1)
  BY <1>2, PairsDiffer
<1>4. Len(s) = Len(r)
  <2>1. s[2 * m - 1] = r[2 * m - 1] /\ Sibling(s, 2 * m - 1) = Sibling(r, 2 * m - 1)
    BY <1>1, <1>3
  <2>2. CASE Len(s) = 2 * m - 1 /\ Len(r) = 2 * m
    <3>1. r[2 * m] = r[2 * m - 1] /\ 2 * m \in 1 .. Len(r) /\ 2 * m - 1 \in 1 .. Len(r)
      BY <1>1, <2>1, <2>2 DEF Sibling
    <3> QED
      BY <1>1, <3>1 DEF Distinct
  <2>3. CASE Len(r) = 2 * m - 1 /\ Len(s) = 2 * m
    <3>1. s[2 * m] = s[2 * m - 1] /\ 2 * m \in 1 .. Len(s) /\ 2 * m - 1 \in 1 .. Len(s)
      BY <1>1, <2>1, <2>3 DEF Sibling
    <3> QED
      BY <1>1, <3>1 DEF Distinct
  <2> QED
    BY <1>1, <2>2, <2>3
<1>5. ASSUME NEW k \in 1 .. Len(s) PROVE s[k] = r[k]
  <2> DEFINE q == (k + 1) \div 2
  <2>1. q \in 1 .. m /\ (k = 2 * q - 1 \/ k = 2 * q)
    BY <1>1
  <2>2. s[2 * q - 1] = r[2 * q - 1] /\ Sibling(s, 2 * q - 1) = Sibling(r, 2 * q - 1)
    BY <1>3, <2>1
  <2>3. CASE k = 2 * q
    <3>1. (2 * q - 1) + 1 = k /\ k <= Len(s) /\ k <= Len(r)
      BY <1>1, <1>4, <2>1, <2>3
    <3> QED
      BY <2>2, <3>1 DEF Sibling
  <2> QED
    BY <2>1, <2>2, <2>3
<1> QED
  BY <1>4, <1>5 DEF Level

\* The first digest above a level is of its first digest.
LEMMA FirstParent ==
  ASSUME NEW u, Level(u)
  PROVE  \E b : Parents(u)[1] = hashPair(u[1], b)
<1>1. 1 \in 1 .. (Len(u) + 1) \div 2 /\ 2 * 1 - 1 = 1
  BY DEF Level
<1>2. Parents(u)[1] = hashPair(u[2 * 1 - 1], Sibling(u, 2 * 1 - 1))
  BY <1>1, ParentsOf
<1> QED
  BY <1>1, <1>2

\* From the root down to the leaves of the lower tree, the first digests are the same.
LEMMA FirstDigests ==
  ASSUME NEW s, NEW r, Level(s), Level(r), NEW m \in Nat, NEW n \in Nat, m <= n,
         Tower(s)[m][1] = Tower(r)[n][1]
  PROVE  s[1] = Tower(r)[n - m][1]
<1> DEFINE S == {k \in Nat : k <= m => Tower(s)[m - k][1] = Tower(r)[n - k][1]}
<1>1. 0 \in S
  OBVIOUS
<1>2. ASSUME NEW k \in Nat, k \in S PROVE k + 1 \in S
  <2> SUFFICES ASSUME k + 1 <= m PROVE Tower(s)[m - (k + 1)][1] = Tower(r)[n - (k + 1)][1]
    OBVIOUS
  <2> DEFINE i == m - (k + 1)
             j == n - (k + 1)
  <2>1. i \in Nat /\ j \in Nat /\ i + 1 = m - k /\ j + 1 = n - k /\ k <= m
    OBVIOUS
  <2>2. Tower(s)[m - k][1] = Tower(r)[n - k][1]
    BY <1>2, <2>1
  <2> HIDE DEF i, j
  <2>3. Parents(Tower(s)[i])[1] = Parents(Tower(r)[j])[1]
    BY <2>1, <2>2, TowerEquations
  <2>4. /\ Level(Tower(s)[i]) /\ Level(Tower(r)[j])
    BY <2>1, TowerLevels
  <2>6. PICK b, c : /\ Parents(Tower(s)[i])[1] = hashPair(Tower(s)[i][1], b)
                    /\ Parents(Tower(r)[j])[1] = hashPair(Tower(r)[j][1], c)
    BY <2>4, FirstParent
  <2>7. hashPair(Tower(s)[i][1], b) = hashPair(Tower(r)[j][1], c)
    BY <2>3, <2>6
  <2>8. Tower(s)[i][1] = Tower(r)[j][1]
    BY <2>7, PairsDiffer
  <2> QED
    BY <2>8 DEF i, j
<1>3. m \in S
  BY <1>1, <1>2, AllNat
<1>4. m <= m /\ m - m = 0
  OBVIOUS
<1>5. Tower(s)[0][1] = Tower(r)[n - m][1]
  BY <1>3, <1>4
<1> QED
  BY <1>5, TowerEquations

\* If both trees are of one height, so are the levels.
LEMMA SameLevels ==
  ASSUME NEW s, NEW r, Level(s), Level(r), Distinct(s), Distinct(r), NEW m \in Nat,
         Tower(s)[m] = Tower(r)[m]
  PROVE  s = r
<1>1. ASSUME NEW u, Level(u), Distinct(u)
      PROVE  \A h \in Nat : Level(Tower(u)[h]) /\ Distinct(Tower(u)[h])
  <2> DEFINE S == {h \in Nat : Level(Tower(u)[h]) /\ Distinct(Tower(u)[h])}
  <2>1. 0 \in S
    BY <1>1, TowerEquations
  <2>2. ASSUME NEW h \in Nat, h \in S PROVE h + 1 \in S
    <3>1. Level(Tower(u)[h]) /\ Distinct(Tower(u)[h])
      BY <2>2
    <3>2. Level(Parents(Tower(u)[h])) /\ Distinct(Parents(Tower(u)[h]))
      BY <3>1, ParentsOf, DistinctParents
    <3>3. Tower(u)[h + 1] = Parents(Tower(u)[h])
      BY TowerEquations
    <3> QED
      BY <3>2, <3>3
  <2>3. Nat \subseteq S
    BY <2>1, <2>2, AllNat
  <2> QED
    BY <2>3
<1> DEFINE S == {k \in Nat : k <= m => Tower(s)[m - k] = Tower(r)[m - k]}
<1>2. 0 \in S
  OBVIOUS
<1>3. ASSUME NEW k \in Nat, k \in S PROVE k + 1 \in S
  <2> SUFFICES ASSUME k + 1 <= m PROVE Tower(s)[m - (k + 1)] = Tower(r)[m - (k + 1)]
    OBVIOUS
  <2> DEFINE i == m - (k + 1)
  <2>1. i \in Nat /\ i + 1 = m - k /\ k <= m
    OBVIOUS
  <2>2. Tower(s)[m - k] = Tower(r)[m - k]
    BY <1>3, <2>1
  <2> HIDE DEF i
  <2>3. Parents(Tower(s)[i]) = Parents(Tower(r)[i])
    BY <2>1, <2>2, TowerEquations
  <2>4. /\ Level(Tower(s)[i]) /\ Level(Tower(r)[i])
        /\ Distinct(Tower(s)[i]) /\ Distinct(Tower(r)[i])
    BY <1>1, <2>1
  <2>5. Tower(s)[i] = Tower(r)[i]
    BY <2>3, <2>4, ParentsDetermine
  <2> QED
    BY <2>5 DEF i
<1>4. m \in S
  BY <1>2, <1>3, AllNat
<1>5. m <= m /\ m - m = 0
  OBVIOUS
<1>6. Tower(s)[0] = Tower(r)[0]
  BY <1>4, <1>5
<1> QED
  BY <1>6, TowerEquations

\* A digest of a leaf is not one that merkle.ts makes.
LEMMA LeavesAreNoNodes ==
  ASSUME NEW d \in Digests
  PROVE  d # EmptyRoot /\ \A a, b : d # hashPair(a, b)
<1>1. ASSUME d[1] = Node, Len(d) # 0 PROVE FALSE
  <2>1. d[1] \in Contents
    BY <1>1 DEF Digests
  <2> QED
    BY <1>1, <2>1, BundleAssumption
<1>2. EmptyRoot[1] = Node /\ Len(EmptyRoot) = 1
  BY DEF EmptyRoot
<1>3. \A a, b : hashPair(a, b)[1] = Node /\ Len(hashPair(a, b)) = 3
  BY DEF hashPair
<1> QED
  BY <1>1, <1>2, <1>3

\* The digests above the leaves are nodes.
LEMMA InnerDigests ==
  ASSUME NEW s, Level(s), NEW h \in Nat \ {0}
  PROVE  \E a, b : Tower(s)[h][1] = hashPair(a, b)
<1>1. h - 1 \in Nat /\ (h - 1) + 1 = h
  OBVIOUS
<1>2. Tower(s)[h] = Parents(Tower(s)[h - 1]) /\ Level(Tower(s)[h - 1])
  BY <1>1, TowerEquations, TowerLevels
<1> QED
  BY <1>2, FirstParent

\* What the digests of the rows of a task are: no two rows have one digest.
LeafLists == {s \in Seq(Digests) : Distinct(s)}

\* What is known of such a list, and of its tree.
LEMMA LeafListLevel ==
  ASSUME NEW s \in LeafLists, s # << >>
  PROVE  /\ Level(s) /\ Distinct(s) /\ s[1] \in Digests
         /\ Height(s) \in Nat /\ Root(s) = Tower(s)[Height(s)][1]
<1>1. Level(s) /\ Distinct(s) /\ s[1] \in Digests
  BY DEF LeafLists, Level
<1>2. Height(s) \in Nat
  BY <1>1, HeightIs DEF Level
<1> QED
  BY <1>1, <1>2 DEF Root

\* The lower of two trees has no other leaves: they would be nodes of the higher one.
LEMMA RootOrder ==
  ASSUME NEW s \in LeafLists, NEW r \in LeafLists, s # << >>, r # << >>, Root(s) = Root(r),
         Height(s) <= Height(r)
  PROVE  s = r
<1>1. /\ Level(s) /\ Distinct(s) /\ s[1] \in Digests /\ Height(s) \in Nat
      /\ Level(r) /\ Distinct(r) /\ r[1] \in Digests /\ Height(r) \in Nat
      /\ Tower(s)[Height(s)][1] = Tower(r)[Height(r)][1]
  BY LeafListLevel
<1>2. s[1] = Tower(r)[Height(r) - Height(s)][1]
  BY <1>1, FirstDigests
<1>3. CASE Height(r) = Height(s)
  <2>1. /\ Level(Tower(s)[Height(s)]) /\ Len(Tower(s)[Height(s)]) = 1
        /\ Level(Tower(r)[Height(r)]) /\ Len(Tower(r)[Height(r)]) = 1
    BY <1>1, HeightIs, TowerLevels
  <2>2. Tower(s)[Height(s)] = Tower(r)[Height(s)]
    BY <1>1, <1>3, <2>1 DEF Level
  <2> QED
    BY <1>1, <2>2, SameLevels
<1>4. CASE Height(r) # Height(s)
  <2>1. Height(r) - Height(s) \in Nat \ {0}
    BY <1>1, <1>4
  <2>2. \E a, b : s[1] = hashPair(a, b)
    BY <1>1, <1>2, <2>1, InnerDigests
  <2> QED
    BY <1>1, <2>2, LeavesAreNoNodes
<1> QED
  BY <1>3, <1>4

\* Two lists of distinct digests with one root are one list, whatever their lengths.
THEOREM RootsDetermineLeaves ==
  ASSUME NEW s \in LeafLists, NEW r \in LeafLists, Root(s) = Root(r)
  PROVE  s = r
<1>1. ASSUME NEW u \in LeafLists, u # << >> PROVE Root(u) # EmptyRoot
  <2>1. Level(u) /\ u[1] \in Digests /\ Height(u) \in Nat /\ Root(u) = Tower(u)[Height(u)][1]
    BY <1>1, LeafListLevel
  <2>2. CASE Height(u) = 0
    BY <2>1, <2>2, TowerEquations, LeavesAreNoNodes
  <2>3. CASE Height(u) # 0
    <3>1. PICK a, b : Root(u) = hashPair(a, b)
      BY <2>1, <2>3, InnerDigests
    <3> QED
      BY <3>1 DEF hashPair, EmptyRoot
  <2> QED
    BY <2>2, <2>3
<1>2. CASE s = << >> \/ r = << >>
  <2>1. Root(<< >>) = EmptyRoot
    BY DEF Root
  <2> QED
    BY <1>1, <1>2, <2>1
<1>3. CASE s # << >> /\ r # << >>
  <2>1. Height(s) \in Nat /\ Height(r) \in Nat
    BY <1>3, LeafListLevel
  <2>2. Height(s) <= Height(r) \/ Height(r) <= Height(s)
    BY <2>1
  <2> QED
    BY <1>3, <2>2, RootOrder
<1> QED
  BY <1>2, <1>3

-----------------------------------------------------------------------------
(* The leaves. *)

\* No two rows have one digest.
Unlike(table) == \A i, j \in 1 .. Len(table) : table[i].hash = table[j].hash => i = j

\* What listAuditComplete lists of the first n rows.
Lists(taken, table, task, n) ==
  /\ taken \in Seq(Digests)
  /\ \A j \in 1 .. n : table[j].task = task => \E k \in 1 .. Len(taken) : taken[k] = table[j].hash
  /\ \A k \in 1 .. Len(taken) : \E j \in 1 .. n : table[j].task = task /\ taken[k] = table[j].hash

LEMMA OneMoreLeaf ==
  ASSUME NEW taken \in Seq(Digests), NEW d \in Digests
  PROVE  /\ Append(taken, d) \in Seq(Digests) /\ Len(taken) \in Nat
         /\ Len(Append(taken, d)) = Len(taken) + 1
         /\ \A k \in 1 .. Len(taken) : Append(taken, d)[k] = taken[k]
         /\ Append(taken, d)[Len(taken) + 1] = d
BY AppendProperties, LenProperties

\* The list of the leaves has the digests of the rows of the task, and those only.
LEMMA LeavesAreListed ==
  ASSUME NEW table \in Seq(Rows), NEW task
  PROVE  /\ Lists(Leaves(table, task), table, task, Len(table))
         /\ Unlike(table) => Distinct(Leaves(table, task))
<1> DEFINE T == Taken(table, task)
<1>1. /\ T[0] = << >>
      /\ \A n \in Nat :
           /\ table[n + 1].task = task => T[n + 1] = Append(T[n], table[n + 1].hash)
           /\ table[n + 1].task # task => T[n + 1] = T[n]
  BY TakenEquations
<1> DEFINE Good(n) == /\ Lists(T[n], table, task, n)
                      /\ Unlike(table) => Distinct(T[n])
           S == {n \in Nat : n <= Len(table) => Good(n)}
<1>2. Len(table) \in Nat /\ \A j \in 1 .. Len(table) : table[j].hash \in Digests
  <2>1. \A j \in 1 .. Len(table) : table[j] \in Rows
    BY ElementOfSeq
  <2> QED
    BY <2>1, LenProperties DEF Rows
<1> HIDE DEF T
<1>3. 0 \in S
  <2>1. T[0] \in Seq(Digests) /\ Len(T[0]) = 0
    BY <1>1
  <2> QED
    BY <2>1 DEF Lists, Distinct
<1>4. ASSUME NEW n \in Nat, n \in S PROVE n + 1 \in S
  <2> SUFFICES ASSUME n + 1 <= Len(table) PROVE Good(n + 1)
    OBVIOUS
  <2>1. /\ n <= Len(table) /\ n + 1 \in 1 .. Len(table)
        /\ \A j \in 1 .. n : j \in 1 .. Len(table) /\ j # n + 1
    BY <1>2
  <2>2. Good(n)
    BY <1>4, <2>1
  <2>3. \A j \in 1 .. (n + 1) : j \in 1 .. n \/ j = n + 1
    OBVIOUS
  <2>4. \A j \in 1 .. n : j \in 1 .. (n + 1)
    OBVIOUS
  <2>5. CASE table[n + 1].task # task
    <3>1. T[n + 1] = T[n]
      BY <1>1, <2>5
    <3>2. Lists(T[n], table, task, n + 1)
      BY <2>2, <2>3, <2>4, <2>5 DEF Lists
    <3> QED
      BY <2>2, <3>1, <3>2
  <2>6. CASE table[n + 1].task = task
    <3> DEFINE d == table[n + 1].hash
               old == T[n]
               new == Append(old, d)
    <3>1. T[n + 1] = new
      BY <1>1, <2>6
    <3>2. old \in Seq(Digests) /\ d \in Digests
      BY <1>2, <2>1, <2>2 DEF Lists
    <3>3. /\ new \in Seq(Digests) /\ Len(old) \in Nat /\ Len(new) = Len(old) + 1
          /\ \A k \in 1 .. Len(old) : new[k] = old[k]
          /\ new[Len(old) + 1] = d
      BY <3>2, OneMoreLeaf
    <3>4. /\ \A j \in 1 .. n : table[j].task = task =>
                               \E k \in 1 .. Len(old) : old[k] = table[j].hash
          /\ \A k \in 1 .. Len(old) :
               \E j \in 1 .. n : table[j].task = task /\ old[k] = table[j].hash
      BY <2>2 DEF Lists
    <3> HIDE DEF old, new
    <3>5. /\ \A k \in 1 .. Len(new) : k \in 1 .. Len(old) \/ k = Len(old) + 1
          /\ \A k \in 1 .. Len(old) : k \in 1 .. Len(new)
          /\ Len(old) + 1 \in 1 .. Len(new)
      BY <3>3
    <3>6. \A j \in 1 .. (n + 1) : table[j].task = task =>
                                \E k \in 1 .. Len(new) : new[k] = table[j].hash
      BY <2>3, <3>3, <3>4, <3>5
    <3>7. \A k \in 1 .. Len(new) :
            \E j \in 1 .. (n + 1) : table[j].task = task /\ new[k] = table[j].hash
      <4> SUFFICES ASSUME NEW k \in 1 .. Len(new)
                   PROVE  \E j \in 1 .. (n + 1) : table[j].task = task /\ new[k] = table[j].hash
        OBVIOUS
      <4>1. CASE k \in 1 .. Len(old)
        <5>1. PICK j \in 1 .. n : table[j].task = task /\ old[k] = table[j].hash
          BY <3>4, <4>1
        <5>2. j \in 1 .. (n + 1) /\ new[k] = old[k]
          BY <2>4, <3>3, <4>1
        <5> QED
          BY <5>1, <5>2
      <4>2. CASE k = Len(old) + 1
        <5>1. n + 1 \in 1 .. (n + 1)
          OBVIOUS
        <5> QED
          BY <2>6, <3>3, <4>2, <5>1
      <4> QED
        BY <3>5, <4>1, <4>2
    <3>8. Unlike(table) => Distinct(new)
      <4> SUFFICES ASSUME Unlike(table), NEW j \in 1 .. Len(new), NEW k \in 1 .. Len(new),
                          new[j] = new[k]
                   PROVE  j = k
        BY DEF Distinct
      <4>1. \A i \in 1 .. Len(old) : old[i] # d
        <5> SUFFICES ASSUME NEW i \in 1 .. Len(old), old[i] = d PROVE FALSE
          OBVIOUS
        <5>1. PICK m \in 1 .. n : old[i] = table[m].hash
          BY <3>4
        <5>2. m \in 1 .. Len(table) /\ m # n + 1
          BY <2>1
        <5> QED
          BY <2>1, <5>1, <5>2 DEF Unlike
      <4>2. Distinct(old)
        BY <2>2 DEF old
      <4> QED
        BY <3>3, <3>5, <4>1, <4>2 DEF Distinct
    <3> QED
      BY <3>1, <3>3, <3>6, <3>7, <3>8 DEF Lists
  <2> QED
    BY <2>5, <2>6
<1>5. Len(table) \in S
  BY <1>2, <1>3, <1>4, AllNat
<1>6. Len(table) <= Len(table)
  BY <1>2
<1>7. Good(Len(table))
  BY <1>5, <1>6
<1> QED
  BY <1>7 DEF Leaves, T

-----------------------------------------------------------------------------
(* No two rows have one digest, not even of a table that was changed: no change makes a  *)
(* digest, and a new row chains one event more than the head, than which none is longer. *)

Unique == Unlike(rows) /\ \A i \in 1 .. Len(rows) : Len(rows[i].hash) <= Len(head)

\* A table whose rows are some of the old ones, each at most once, is still so.
LEMMA UnlikePart ==
  ASSUME NEW old, NEW new, Unlike(old), NEW place \in [1 .. Len(new) -> 1 .. Len(old)],
         \A i, j \in 1 .. Len(new) : place[i] = place[j] => i = j,
         \A i \in 1 .. Len(new) : new[i].hash = old[place[i]].hash
  PROVE  Unlike(new)
BY DEF Unlike

\* A change from outside keeps, drops or moves digests.
LEMMA OutsideKeepsUnique ==
  ASSUME TypeOK, Unique, Outside
  PROVE  Unique'
<1>1. rows \in Seq(Rows) /\ Len(rows) \in Nat
  BY LenProperties DEF TypeOK
<1>2. ASSUME NEW kind, NEW table, Tamper(kind, table),
             NEW place \in [1 .. Len(table) -> 1 .. Len(rows)],
             \A i, j \in 1 .. Len(table) : place[i] = place[j] => i = j,
             \A i \in 1 .. Len(table) : table[i].hash = rows[place[i]].hash
      PROVE  Unique'
  <2>1. rows' = table /\ head' = head
    BY <1>2 DEF Tamper
  <2>2. Unlike(table)
    BY <1>2, UnlikePart DEF Unique
  <2>3. \A i \in 1 .. Len(table) : Len(table[i].hash) <= Len(head)
    BY <1>2 DEF Unique
  <2> QED
    BY <2>1, <2>2, <2>3 DEF Unique, Unlike
<1>3. ASSUME NEW i \in 1 .. Len(rows), NEW c \in Contents, Rewrite(i, c) PROVE Unique'
  <2> DEFINE table == [rows EXCEPT ![i].content = c]
             place == [k \in 1 .. Len(rows) |-> k]
  <2>1. Tamper("loud", table)
    BY <1>3 DEF Rewrite
  <2>2. Len(table) = Len(rows) /\ \A k \in 1 .. Len(rows) : table[k].hash = rows[k].hash
    <3>1. /\ table[i] = [rows[i] EXCEPT !.content = c]
          /\ \A k \in 1 .. Len(rows) : k # i => table[k] = rows[k]
      BY <1>1
    <3>2. rows[i] \in Rows
      BY <1>1, ElementOfSeq
    <3>3. table[i].hash = rows[i].hash
      BY <3>1, <3>2 DEF Rows
    <3> QED
      BY <1>1, <3>1, <3>3, RewriteTypes
  <2> HIDE DEF table
  <2>3. place \in [1 .. Len(table) -> 1 .. Len(rows)] /\ \A k \in 1 .. Len(table) : place[k] = k
    BY <2>2
  <2> HIDE DEF place
  <2> QED
    BY <1>2, <2>1, <2>2, <2>3
<1>4. ASSUME NEW i \in 1 .. Len(rows), NEW t \in Tasks, Retag(i, t) PROVE Unique'
  <2> DEFINE table == [rows EXCEPT ![i].task = t]
             place == [k \in 1 .. Len(rows) |-> k]
  <2>1. Tamper("silent", table)
    BY <1>4 DEF Retag
  <2>2. Len(table) = Len(rows) /\ \A k \in 1 .. Len(rows) : table[k].hash = rows[k].hash
    <3>1. /\ table[i] = [rows[i] EXCEPT !.task = t]
          /\ \A k \in 1 .. Len(rows) : k # i => table[k] = rows[k]
      BY <1>1
    <3>2. rows[i] \in Rows
      BY <1>1, ElementOfSeq
    <3>3. table[i].hash = rows[i].hash
      BY <3>1, <3>2 DEF Rows
    <3> QED
      BY <1>1, <3>1, <3>3, RetagTypes
  <2> HIDE DEF table
  <2>3. place \in [1 .. Len(table) -> 1 .. Len(rows)] /\ \A k \in 1 .. Len(table) : place[k] = k
    BY <2>2
  <2> HIDE DEF place
  <2> QED
    BY <1>2, <2>1, <2>2, <2>3
<1>5. ASSUME NEW i \in 1 .. Len(rows), Delete(i) PROVE Unique'
  <2> DEFINE place == [k \in 1 .. (Len(rows) - 1) |-> IF k < i THEN k ELSE k + 1]
  <2>1. PICK kind : Tamper(kind, Without(i))
    BY <1>5 DEF Delete
  <2>2. Len(Without(i)) = Len(rows) - 1
    BY <1>1, DeleteTypes
  <2>3. \A k \in 1 .. (Len(rows) - 1) : Without(i)[k] = rows[place[k]]
    BY DEF Without
  <2>4. /\ place \in [1 .. Len(Without(i)) -> 1 .. Len(rows)]
        /\ \A j, k \in 1 .. Len(Without(i)) : place[j] = place[k] => j = k
    BY <1>1, <2>2
  <2> HIDE DEF place
  <2> QED
    BY <1>2, <2>1, <2>2, <2>3, <2>4
<1>6. ASSUME NEW i \in 1 .. Len(rows), NEW j \in 1 .. Len(rows), Reorder(i, j) PROVE Unique'
  <2> DEFINE table == [rows EXCEPT ![i] = rows[j], ![j] = rows[i]]
             place == [k \in 1 .. Len(rows) |-> IF k = j THEN i ELSE IF k = i THEN j ELSE k]
  <2>1. Tamper("loud", table)
    BY <1>6 DEF Reorder
  <2>2. Len(table) = Len(rows) /\ \A k \in 1 .. Len(rows) : table[k] = rows[place[k]]
    BY <1>1, ReorderTypes
  <2> HIDE DEF table
  <2>3. /\ place \in [1 .. Len(table) -> 1 .. Len(rows)]
        /\ \A k, l \in 1 .. Len(table) : place[k] = place[l] => k = l
    BY <1>1, <2>2
  <2> HIDE DEF place
  <2> QED
    BY <1>2, <2>1, <2>2, <2>3
<1> QED
  BY <1>3, <1>4, <1>5, <1>6 DEF Outside

\* The digest of a new row is longer than any other.
LEMMA CommitKeepsUnique ==
  ASSUME TypeOK, Drafts, Unique, NEW w \in Writers, Commit(w)
  PROVE  Unique'
<1> DEFINE row == draft[w]
<1>1. /\ rows \in Seq(Rows) /\ row \in Rows /\ head \in Digests /\ Len(rows) \in Nat
      /\ row.hash = hashEvent(head, row.content) /\ row.content \in Contents
  BY LenProperties DEF TypeOK, Drafts, Commit, Rows
<1>2. rows' = Append(rows, row) /\ head' = row.hash
  BY DEF Commit
<1> HIDE DEF row
<1>3. Len(row.hash) = Len(head) + 1 /\ Len(head) \in Nat
  BY <1>1, DigestTypes, LenProperties DEF Digests
<1>4. /\ Len(rows') = Len(rows) + 1 /\ rows'[Len(rows) + 1] = row
      /\ \A i \in 1 .. Len(rows) : rows'[i] = rows[i]
  BY <1>1, <1>2, AppendKeepsRows
<1>5. \A i \in 1 .. Len(rows) : Len(rows[i].hash) <= Len(head) /\ Len(rows[i].hash) \in Nat
  <2>1. \A i \in 1 .. Len(rows) : rows[i] \in Rows
    BY <1>1, ElementOfSeq
  <2> QED
    BY <2>1, LenProperties DEF Unique, Rows, Digests
<1>6. \A i \in 1 .. Len(rows) : rows[i].hash # row.hash
  BY <1>3, <1>5
<1>7. \A i \in 1 .. Len(rows') : i \in 1 .. Len(rows) \/ i = Len(rows) + 1
  BY <1>1, <1>4
<1>8. \A i, j \in 1 .. Len(rows') : rows'[i].hash = rows'[j].hash => i = j
  BY <1>4, <1>6, <1>7 DEF Unique, Unlike
<1>9. \A i \in 1 .. Len(rows') : Len(rows'[i].hash) <= Len(head')
  <2> SUFFICES ASSUME NEW i \in 1 .. Len(rows') PROVE Len(rows'[i].hash) <= Len(row.hash)
    BY <1>2
  <2>1. CASE i \in 1 .. Len(rows)
    BY <1>3, <1>4, <1>5, <2>1
  <2>2. CASE i = Len(rows) + 1
    BY <1>3, <1>4, <2>2
  <2> QED
    BY <1>7, <2>1, <2>2
<1> QED
  BY <1>8, <1>9 DEF Unique, Unlike

LEMMA UniqueInvariant == Spec => []Unique
  <1>1. Init => Unique
    <2> SUFFICES ASSUME Init PROVE Unique
      OBVIOUS
    <2>1. Len(rows) = 0
      BY DEF Init
    <2> QED
      BY <2>1 DEF Unique, Unlike
  <1>2. TypeOK /\ Drafts /\ Unique /\ [Next]_vars => Unique'
    <2> SUFFICES ASSUME TypeOK, Drafts, Unique, [Next]_vars PROVE Unique'
      OBVIOUS
    <2>1. ASSUME UNCHANGED <<rows, head>> PROVE Unique'
      BY <2>1 DEF Unique, Unlike
    <2>2. ASSUME NEW w \in Writers, NEW t \in Tasks, NEW c \in Contents, Begin(w, t, c)
          PROVE  Unique'
      BY <2>1, <2>2 DEF Begin
    <2>3. ASSUME NEW w \in Writers, Insert(w) PROVE Unique'
      BY <2>1, <2>3 DEF Insert
    <2>4. ASSUME NEW w \in Writers, Commit(w) PROVE Unique'
      BY <2>4, CommitKeepsUnique
    <2>5. ASSUME NEW w \in Writers, Rollback(w) PROVE Unique'
      BY <2>1, <2>5 DEF Rollback
    <2>6. ASSUME Outside PROVE Unique'
      BY <2>6, OutsideKeepsUnique
    <2>7. CASE UNCHANGED vars
      BY <2>1, <2>7 DEF vars
    <2> QED
      BY <2>2, <2>3, <2>4, <2>5, <2>6, <2>7 DEF Next, Write
  <1> QED
    BY <1>1, <1>2, ChainTypeCorrect, DraftsExtend, PTL DEF Spec

(* Every bundle exported from a table verifies exactly if the chain does, however many  *)
(* events it has and however many were appended while it was exported.                  *)
THEOREM BundlesAlwaysVerify == Spec => []BundlesVerify
  <1>1. TypeOK => BundlesVerify
    <2> SUFFICES ASSUME TypeOK, NEW t \in Tasks, NEW n \in 0 .. Len(rows)
                 PROVE  verifyAuditProofBundle(exportAuditProofBundle(Listed(n), rows, t))
                          <=> Verified(rows)
      BY DEF BundlesVerify
    <2> DEFINE leaves == Leaves(Listed(n), t)
               bundle == exportAuditProofBundle(Listed(n), rows, t)
    <2>1. Listed(n) \in Seq(Rows)
      BY SubSeqProperties DEF TypeOK, Listed
    <2>2. leaves \in Seq(Digests)
      BY <2>1, LeavesAreListed DEF Lists
    <2>3. /\ bundle.totalEvents = Len(leaves) /\ bundle.merkleRoot = Root(leaves)
          /\ bundle.complete = Verified(rows) /\ bundle.chainValid = Verified(rows)
          /\ bundle.events = [i \in 1 .. Len(leaves) |->
               [eventHash |-> leaves[i], merkleProof |-> generateMerkleProof(leaves, i - 1)]]
      BY DEF exportAuditProofBundle
    <2> HIDE DEF leaves, bundle
    <2>4. Len(leaves) \in Nat /\ Len(bundle.events) = Len(leaves)
      <3>1. bundle.events = [i \in 1 .. Len(leaves) |-> bundle.events[i]]
        BY <2>3
      <3> QED
        BY <2>2, <3>1, LenOf, LenProperties
    <2>5. ASSUME NEW i \in 1 .. Len(bundle.events)
          PROVE  /\ verifyMerkleProof(bundle.events[i].merkleProof)
                 /\ bundle.events[i].merkleProof.rootHash = bundle.merkleRoot
                 /\ bundle.events[i].eventHash = bundle.events[i].merkleProof.targetHash
      <3>1. i \in 1 .. Len(leaves) /\ (i - 1) + 1 = i /\ Len(leaves) \in Nat \ {0}
        BY <2>4
      <3>2. /\ bundle.events[i].eventHash = leaves[i]
            /\ bundle.events[i].merkleProof = generateMerkleProof(leaves, i - 1)
        BY <2>3, <3>1
      <3>3. verifyMerkleProof(generateMerkleProof(leaves, i - 1))
        <4>1. Level(leaves)
          BY <2>2, <3>1 DEF Level
        <4> QED
          BY <3>1, <4>1, ProofVerifies
      <3>4. /\ generateMerkleProof(leaves, i - 1).rootHash = Root(leaves)
            /\ generateMerkleProof(leaves, i - 1).targetHash = leaves[i]
        BY <3>1 DEF generateMerkleProof
      <3> QED
        BY <2>3, <3>2, <3>3, <3>4
    <2>6. verifyAuditProofBundle(bundle) <=> Verified(rows)
      BY <2>3, <2>4, <2>5 DEF verifyAuditProofBundle
    <2> QED
      BY <2>6 DEF bundle
  <1> QED
    BY <1>1, ChainTypeCorrect, PTL

(* The root that is stored with a bundle is another one as soon as any row of the task  *)
(* is left out.                                                                         *)
THEOREM RootsAlwaysBind == Spec => []RootsBindTheirEvents
  <1>1. TypeOK /\ Unique => RootsBindTheirEvents
    <2> SUFFICES ASSUME TypeOK, Unique, NEW i \in 1 .. Len(rows),
                        Root(Leaves(Without(i), rows[i].task)) = Root(Leaves(rows, rows[i].task))
                 PROVE  FALSE
      BY DEF RootsBindTheirEvents
    <2> DEFINE t == rows[i].task
               all == Leaves(rows, t)
               less == Leaves(Without(i), t)
    <2>1. /\ rows \in Seq(Rows) /\ Len(rows) \in Nat
          /\ Without(i) \in Seq(Rows) /\ Len(Without(i)) = Len(rows) - 1
      BY DeleteTypes, LenProperties DEF TypeOK
    <2>2. /\ Unlike(rows)
          /\ \A k \in 1 .. Len(Without(i)) : Without(i)[k].hash # rows[i].hash
          /\ Unlike(Without(i))
      <3> DEFINE place(k) == IF k < i THEN k ELSE k + 1
      <3>1. \A k \in 1 .. Len(Without(i)) :
              Without(i)[k] = rows[place(k)] /\ place(k) \in 1 .. Len(rows) /\ place(k) # i
        BY <2>1 DEF Without
      <3>2. \A j, k \in 1 .. Len(Without(i)) : place(j) = place(k) => j = k
        BY <2>1
      <3> QED
        BY <3>1, <3>2 DEF Unique, Unlike
    <2>3. /\ Lists(all, rows, t, Len(rows)) /\ Distinct(all)
          /\ Lists(less, Without(i), t, Len(Without(i))) /\ Distinct(less)
      BY <2>1, <2>2, LeavesAreListed
    <2>4. all \in LeafLists /\ less \in LeafLists
      BY <2>3 DEF Lists, LeafLists
    <2>5. Root(less) = Root(all)
      OBVIOUS
    <2> HIDE DEF all, less, t
    <2>6. less = all
      BY <2>4, <2>5, RootsDetermineLeaves
    <2>7. PICK k \in 1 .. Len(all) : all[k] = rows[i].hash
      BY <2>3 DEF Lists, t
    <2>8. PICK j \in 1 .. Len(Without(i)) : less[k] = Without(i)[j].hash
      BY <2>3, <2>6 DEF Lists
    <2> QED
      BY <2>2, <2>6, <2>7, <2>8
  <1> QED
    BY <1>1, ChainTypeCorrect, UniqueInvariant, PTL
=============================================================================
