--------------------------- MODULE SandboxProofs ----------------------------
(***************************************************************************)
(* What holds of the task sandbox for any jobs, any files and any commands:*)
(* its types, and that a trial that was not disturbed restores a sandbox   *)
(* of texts.                                                               *)
(*                                                                         *)
(* The argument follows one trial that nobody has touched. Until it writes *)
(* the files are as it found them; from then on its snapshot is; when it   *)
(* judges, nothing of its command is left at work, so in its roll-back     *)
(* (and in the second one, after a statement of the first threw) what it   *)
(* has put back stays put back.                                            *)
(***************************************************************************)
EXTENDS TaskSandbox, TLAPS

\* Every map of names is about the names of the instance.
SameNames ==
  /\ files \in [Names -> Contents \cup {Absent}]
  /\ \A j \in Jobs : /\ snapshots[j] \in [Names -> Contents \cup {Absent}]
                     /\ before[j] \in [Names -> Contents \cup {Absent}]

\* Only a trial is judged and undone, and no trial asks the gate; a command is at work while its call runs, and past
\* it only what was sent to the background.
Calm(j) ==
  /\ jobs[j].at \in {"snapshot", "judge", "undo"} => errand[j].kind = "trial"
  /\ jobs[j].at = "gate" => errand[j].kind # "trial"
  /\ jobs[j].at # "running" => ~jobs[j].shell /\ (jobs[j].child => errand[j].starts = "daemon")
  /\ jobs[j].child => errand[j].starts # "plain"

Quiescent == \A j \in Jobs : Calm(j)

\* A trial the property is about: nobody has touched it, it found texts, and leaves no
\* program in the background.
Undisturbed(j) ==
  /\ errand[j].kind = "trial" /\ errand[j].starts # "daemon" /\ j \notin touched
  /\ \A f \in Names : before[j][f] # "binary"

\* How far it is.
Faithful(j) ==
  /\ jobs[j].at \in {"snapshot", "write"} => files = before[j]
  /\ jobs[j].at = "snapshot" => \A f \in Names \ jobs[j].left : snapshots[j][f] = before[j][f]
  /\ jobs[j].at \in {"write", "start", "running", "judge", "undo"} => snapshots[j] = before[j]
  /\ jobs[j].at = "undo" => \A f \in Names \ jobs[j].left : files[f] = before[j][f]

TrialsFaithful == \A j \in Jobs : Undisturbed(j) => Faithful(j)

SandboxInv == SandboxTypeOK /\ SameNames /\ Quiescent /\ TrialsFaithful

Stations == {"begin", "gate", "snapshot", "write", "start", "running", "judge", "undo",
             "over", "kept", "undone", "failed"}
Job == [at : Stations, shell : BOOLEAN, child : BOOLEAN, passed : BOOLEAN, tried : 0 .. 2,
        left : SUBSET Names]

\* The first state.
LEMMA SandboxInitInv == SandboxInit => SandboxInv
<1> SUFFICES ASSUME SandboxInit PROVE SandboxInv
  OBVIOUS
<1>1. PICK i \in Instances : errand = i.errand /\ files = i.files
  BY DEF SandboxInit
<1>2. errand \in [Jobs -> Errand] /\ files \in Holdings
  BY <1>1, SandboxAssumption
<1>3. files \in [Names -> Contents \cup {Absent}]
  BY <1>2 DEF Holdings, Names
<1>4. \A j \in Jobs : jobs[j] = Idle /\ snapshots[j] = files /\ before[j] = files
  BY DEF SandboxInit
<1>5. Idle \in Job /\ Idle.at = "begin" /\ ~Idle.shell /\ ~Idle.child
  BY DEF Idle, Job, Stations
<1>6. jobs \in [Jobs -> Job]
  BY <1>5 DEF SandboxInit
<1>7. SandboxTypeOK
  BY <1>2, <1>6 DEF SandboxInit, SandboxTypeOK, Job, Stations
<1>8. SameNames
  BY <1>3, <1>4 DEF SameNames
<1>9. Quiescent /\ TrialsFaithful
  BY <1>4, <1>5 DEF Quiescent, Calm, TrialsFaithful, Faithful
<1> QED
  BY <1>7, <1>8, <1>9 DEF SandboxInv

-----------------------------------------------------------------------------
\* A job writes nothing or one file; what it writes touches the trials of the others.
Writes(j) ==
  \/ files' = files /\ touched' = touched
  \/ \E f \in Files \cup {Script}, c \in Contents \cup {Absent} : Put(j, f, c)

\* A step of one job leaves the others' places, snapshots and beginnings.
LeavesOthers(j) ==
  /\ errand' = errand
  /\ \A k \in Jobs \ {j} :
       jobs'[k] = jobs[k] /\ snapshots'[k] = snapshots[k] /\ before'[k] = before[k]

\* The names do not change, nor does an undisturbed trial see another's step.
LEMMA WritesKeepNames ==
  ASSUME SameNames, NEW j \in Jobs, Writes(j)
  PROVE  /\ Names' = Names /\ files' \in [Names -> Contents \cup {Absent}]
         /\ touched \subseteq touched' /\ (touched \subseteq Jobs => touched' \subseteq Jobs)
<1>1. CASE files' = files /\ touched' = touched
  BY <1>1 DEF SameNames, Names
<1>2. CASE \E f \in Files \cup {Script}, c \in Contents \cup {Absent} : Put(j, f, c)
  BY <1>2 DEF SameNames, Names, Put
<1> QED
  BY <1>1, <1>2 DEF Writes

LEMMA OthersFaithful ==
  ASSUME SandboxInv, NEW j \in Jobs, LeavesOthers(j), Writes(j), NEW k \in Jobs \ {j}, Undisturbed(k)'
  PROVE  Faithful(k)'
<1>1. /\ jobs'[k] = jobs[k] /\ snapshots'[k] = snapshots[k] /\ before'[k] = before[k]
      /\ errand' = errand
  BY DEF LeavesOthers
<1>2. Names' = Names /\ touched \subseteq touched'
  BY WritesKeepNames DEF SandboxInv
<1>3. Undisturbed(k)
  BY <1>1, <1>2 DEF Undisturbed
<1>4. Faithful(k)
  BY <1>3 DEF SandboxInv, TrialsFaithful
<1>5. CASE files' = files
  BY <1>1, <1>2, <1>4, <1>5 DEF Faithful
<1>6. CASE files' # files
  <2>1. PICK f, c : Put(j, f, c)
    BY <1>6 DEF Writes
  <2>2. c # files[f]
    BY <1>6, <2>1 DEF Put, SandboxInv, SameNames
  <2>3. ~InTrial(k)
    BY <1>3, <2>1, <2>2 DEF Put, Undisturbed
  <2>4. jobs[k].at \notin {"snapshot", "write", "start", "running", "judge", "undo"}
    BY <1>3, <2>3 DEF InTrial, Undisturbed
  <2> QED
    BY <1>1, <2>4 DEF Faithful
<1> QED
  BY <1>5, <1>6

\* So a step of one job keeps the invariant if it keeps what is said of that job.
LEMMA OneJob ==
  ASSUME SandboxInv, NEW j \in Jobs, LeavesOthers(j), Writes(j), interlock' \in BOOLEAN,
         NEW q \in Job, jobs' = [jobs EXCEPT ![j] = q],
         NEW held \in [Names -> Contents \cup {Absent}], snapshots' = [snapshots EXCEPT ![j] = held],
         NEW found \in [Names -> Contents \cup {Absent}], before' = [before EXCEPT ![j] = found],
         Calm(j)', Undisturbed(j)' => Faithful(j)'
  PROVE  SandboxInv'
<1>1. /\ Names' = Names /\ files' \in [Names -> Contents \cup {Absent}] /\ touched' \subseteq Jobs
      /\ errand' = errand
  BY WritesKeepNames DEF SandboxInv, SandboxTypeOK, LeavesOthers
<1>2. jobs' \in [Jobs -> Job]
  BY DEF SandboxInv, SandboxTypeOK, Job, Stations
<1>3. /\ snapshots' \in [Jobs -> [Names -> Contents \cup {Absent}]]
      /\ before' \in [Jobs -> [Names -> Contents \cup {Absent}]]
  BY DEF SandboxInv, SameNames, SandboxTypeOK
<1>4. SameNames'
  BY <1>1, <1>3 DEF SameNames
<1>5. [Names -> Contents \cup {Absent}] \subseteq Holdings
  <2>1. Names \subseteq Files \cup {Script}
    BY DEF SandboxInv, SandboxTypeOK, Holdings, Names
  <2> QED
    BY <2>1 DEF Holdings
<1>6. SandboxTypeOK'
  <2>1. files' \in Holdings /\ snapshots' \in [Jobs -> Holdings] /\ before' \in [Jobs -> Holdings]
    BY <1>1, <1>3, <1>5
  <2>2. errand' \in [Jobs -> Errand]
    BY <1>1 DEF SandboxInv, SandboxTypeOK
  <2> QED
    BY <1>1, <1>2, <2>1, <2>2 DEF SandboxTypeOK, Job, Stations
<1>7. Quiescent'
  <2>1. \A k \in Jobs \ {j} : Calm(k)'
    BY DEF Calm, LeavesOthers, SandboxInv, Quiescent
  <2> QED
    BY <2>1 DEF Quiescent
<1>8. TrialsFaithful'
  <2>1. \A k \in Jobs \ {j} : Undisturbed(k)' => Faithful(k)'
    BY OthersFaithful
  <2> QED
    BY <2>1 DEF TrialsFaithful
<1> QED
  BY <1>4, <1>6, <1>7, <1>8 DEF SandboxInv

-----------------------------------------------------------------------------
\* What is known of a job before its step.
LEMMA KnownOfJob ==
  ASSUME SandboxInv, NEW j \in Jobs
  PROVE  /\ jobs[j] \in Job /\ jobs \in [Jobs -> Job]
         /\ Calm(j) /\ (Undisturbed(j) => Faithful(j))
         /\ errand[j].kind \in Kinds /\ errand[j].starts \in Starts /\ errand[j].file \in Files
         /\ snapshots[j] \in [Names -> Contents \cup {Absent}] /\ snapshots = [snapshots EXCEPT ![j] = @]
         /\ before[j] \in [Names -> Contents \cup {Absent}] /\ before = [before EXCEPT ![j] = @]
         /\ files \in [Names -> Contents \cup {Absent}] /\ Names \subseteq Files \cup {Script}
<1>1. /\ jobs \in [Jobs -> Job] /\ errand[j] \in Errand
      /\ snapshots = [snapshots EXCEPT ![j] = @] /\ before = [before EXCEPT ![j] = @]
  BY DEF SandboxInv, SandboxTypeOK, Job, Stations
<1>2. Names \subseteq Files \cup {Script}
  BY DEF SandboxInv, SandboxTypeOK, Holdings, Names
<1> QED
  BY <1>1, <1>2 DEF SandboxInv, SameNames, Quiescent, TrialsFaithful, Errand

\* A step that only moves its job keeps the invariant if what it says of the job holds.
LEMMA QuietMove ==
  ASSUME SandboxInv, NEW j \in Jobs, NEW q \in Job, jobs' = [jobs EXCEPT ![j] = q],
         UNCHANGED <<files, touched, errand, interlock, snapshots, before>>,
         q.at \in {"snapshot", "judge", "undo"} => errand[j].kind = "trial",
         q.at = "gate" => errand[j].kind # "trial",
         q.at # "running" => ~q.shell /\ (q.child => errand[j].starts = "daemon"),
         q.child => errand[j].starts # "plain",
         ASSUME Undisturbed(j), Faithful(j)
         PROVE  /\ q.at \in {"snapshot", "write"} => files = before[j]
                /\ q.at = "snapshot" => \A f \in Names \ q.left : snapshots[j][f] = before[j][f]
                /\ q.at \in {"write", "start", "running", "judge", "undo"} => snapshots[j] = before[j]
                /\ q.at = "undo" => \A f \in Names \ q.left : files[f] = before[j][f]
  PROVE  SandboxInv'
<1>k. jobs \in [Jobs -> Job] /\ (Undisturbed(j) => Faithful(j))
  BY KnownOfJob
<1>1. LeavesOthers(j) /\ Writes(j) /\ interlock' \in BOOLEAN /\ jobs'[j] = q
  BY <1>k DEF LeavesOthers, Writes, SandboxInv, SandboxTypeOK
<1>2. Names' = Names
  BY DEF Names
<1>3. Calm(j)'
  BY <1>1 DEF Calm
<1>4. Undisturbed(j)' => Faithful(j)'
  BY <1>k, <1>1, <1>2 DEF Undisturbed, Faithful
<1>5. /\ snapshots[j] \in [Names -> Contents \cup {Absent}] /\ snapshots' = [snapshots EXCEPT ![j] = snapshots[j]]
      /\ before[j] \in [Names -> Contents \cup {Absent}] /\ before' = [before EXCEPT ![j] = before[j]]
  BY KnownOfJob
<1> QED
  BY <1>1, <1>3, <1>4, <1>5, OneJob

\* A job sent to its roll-back with every name left is a job.
LEMMA UndoIsJob ==
  ASSUME NEW q \in Job, NEW n \in 0 .. 2
  PROVE  LET u == [q EXCEPT !.at = "undo", !.left = Names, !.tried = n] IN
         u \in Job /\ u.at = "undo" /\ u.left = Names /\ u.shell = q.shell /\ u.child = q.child
<1>1. "undo" \in Stations
  BY DEF Stations
<1>2. [q EXCEPT !.at = "undo", !.left = Names, !.tried = n] \in Job
  BY <1>1 DEF Job
<1> QED
  BY <1>2 DEF Job

\* A thrown statement: the catch rolls back from the whole snapshot, or the call fails.
LEMMA ThrowKeeps ==
  ASSUME SandboxInv, NEW j \in Jobs, Throw(j),
         UNCHANGED <<files, touched, errand, interlock, snapshots, before>>,
         jobs[j].at \in {"write", "start", "judge", "undo"}
  PROVE  SandboxInv'
<1>k. /\ jobs[j] \in Job /\ jobs \in [Jobs -> Job] /\ Calm(j)
  BY KnownOfJob
<1>1. CASE errand[j].kind = "trial" /\ jobs[j].tried < 2
  <2> DEFINE q == [jobs[j] EXCEPT !.at = "undo", !.left = Names, !.tried = 2]
  <2>1. q \in Job /\ q.at = "undo" /\ q.left = Names /\ q.shell = jobs[j].shell /\ q.child = jobs[j].child
    <3>1. 2 \in 0 .. 2
      OBVIOUS
    <3> QED
      BY <1>k, <3>1, UndoIsJob
  <2>2. jobs' = [jobs EXCEPT ![j] = q]
    BY <1>1, <1>k DEF Throw
  <2> HIDE DEF q
  <2> QED
    BY <1>1, <1>k, <2>1, <2>2, QuietMove DEF Calm, Faithful
<1>2. CASE ~(errand[j].kind = "trial" /\ jobs[j].tried < 2)
  <2> DEFINE q == [jobs[j] EXCEPT !.at = "failed"]
  <2>1. q \in Job /\ q.at = "failed" /\ q.shell = jobs[j].shell /\ q.child = jobs[j].child
    BY <1>k DEF Job, Stations
  <2>2. jobs' = [jobs EXCEPT ![j] = q]
    BY <1>2, <1>k DEF Throw
  <2> HIDE DEF q
  <2> QED
    BY <1>k, <2>1, <2>2, QuietMove DEF Calm
<1> QED
  BY <1>1, <1>2

\* A job that goes on with nothing of its command at work, to a place where nothing more
\* is claimed of it than before.
LEMMA MoveToKeeps ==
  ASSUME SandboxInv, NEW j \in Jobs, NEW where \in Stations, MoveTo(j, where),
         UNCHANGED <<files, touched, errand, interlock, snapshots, before>>,
         jobs[j].at # "running" \/ (~jobs[j].shell /\ (jobs[j].child => errand[j].starts = "daemon")),
         \/ where \in {"over", "kept", "undone", "failed"}
         \/ where \in {"start", "write"} /\ errand[j].kind # "trial"
         \/ where = "write" /\ jobs[j].at = "snapshot" /\ jobs[j].left = {}
         \/ where = "judge" /\ jobs[j].at = "running" /\ errand[j].kind = "trial"
  PROVE  SandboxInv'
<1>k. /\ jobs[j] \in Job /\ jobs \in [Jobs -> Job] /\ Calm(j)
      /\ snapshots[j] \in [Names -> Contents \cup {Absent}]
      /\ before[j] \in [Names -> Contents \cup {Absent}]
  BY KnownOfJob
<1> DEFINE q == [jobs[j] EXCEPT !.at = where]
<1>1. q \in Job /\ q.at = where /\ q.shell = jobs[j].shell /\ q.child = jobs[j].child /\ q.left = jobs[j].left
  BY <1>k DEF Job
<1>2. jobs' = [jobs EXCEPT ![j] = q]
  BY <1>k DEF MoveTo
<1>3. ~q.shell /\ (q.child => errand[j].starts = "daemon") /\ (q.child => errand[j].starts # "plain")
  BY <1>1, <1>k DEF Calm
<1> HIDE DEF q
<1>4. where # "gate" /\ (where \in {"judge", "snapshot", "undo"} => errand[j].kind = "trial")
  OBVIOUS
<1>5. ASSUME Undisturbed(j), Faithful(j)
      PROVE  /\ q.at \in {"snapshot", "write"} => files = before[j]
             /\ q.at = "snapshot" => \A f \in Names \ q.left : snapshots[j][f] = before[j][f]
             /\ q.at \in {"write", "start", "running", "judge", "undo"} => snapshots[j] = before[j]
             /\ q.at = "undo" => \A f \in Names \ q.left : files[f] = before[j][f]
  BY <1>1, <1>5, <1>k DEF Undisturbed, Faithful
<1> QED
  BY <1>1, <1>2, <1>3, <1>4, <1>5, QuietMove

\* The verdict of the gate.
LEMMA GateKeeps ==
  ASSUME SandboxInv, NEW j \in Jobs, Gate(j)
  PROVE  SandboxInv'
<1>1. PICK where \in {"write", "start", "failed"} : MoveTo(j, where)
  BY DEF Gate
<1>2. jobs[j].at = "gate" /\ UNCHANGED <<files, touched, errand, interlock, snapshots, before>>
  BY DEF Gate, Is, Quiet
<1>3. errand[j].kind # "trial"
  BY <1>2, KnownOfJob DEF Calm
<1> QED
  BY <1>1, <1>2, <1>3, MoveToKeeps DEF Stations

\* A command at work, or one that ends, whichever way.
LEMMA CommandKeeps ==
  ASSUME SandboxInv, NEW j \in Jobs,
         (\E ok \in BOOLEAN : ShellExits(j, ok)) \/ ChildExits(j) \/ Timeout(j) \/ Poll(j)
  PROVE  SandboxInv'
<1>k. /\ jobs[j] \in Job /\ jobs \in [Jobs -> Job] /\ Calm(j)
  BY KnownOfJob
<1> DEFINE q == jobs'[j]
<1>1. ASSUME NEW ok \in BOOLEAN, jobs' = [jobs EXCEPT ![j].shell = FALSE, ![j].passed = ok]
      PROVE  /\ q \in Job /\ q.at = jobs[j].at /\ q.left = jobs[j].left
             /\ (q.shell => jobs[j].shell) /\ (q.child => jobs[j].child)
             /\ jobs' = [jobs EXCEPT ![j] = q]
  BY <1>1, <1>k DEF Job
<1>2. ASSUME jobs' = [jobs EXCEPT ![j].child = FALSE]
      PROVE  /\ q \in Job /\ q.at = jobs[j].at /\ q.left = jobs[j].left
             /\ (q.shell => jobs[j].shell) /\ (q.child => jobs[j].child)
             /\ jobs' = [jobs EXCEPT ![j] = q]
  BY <1>2, <1>k DEF Job
<1>3. /\ q \in Job /\ q.at = jobs[j].at /\ q.left = jobs[j].left
      /\ (q.shell => jobs[j].shell) /\ (q.child => jobs[j].child)
      /\ jobs' = [jobs EXCEPT ![j] = q]
  BY <1>1, <1>2 DEF ShellExits, ChildExits, Timeout, Poll, Killed
<1>4. UNCHANGED <<files, touched, errand, interlock, snapshots, before>>
  BY DEF ShellExits, ChildExits, Timeout, Poll, Quiet
<1> HIDE DEF q
<1> QED
  BY <1>k, <1>3, <1>4, QuietMove DEF Calm, Faithful

\* What it writes: its command into the files, another trial's included.
LEMMA CommandWritesKeeps ==
  ASSUME SandboxInv, NEW j \in Jobs, NEW f \in Names, NEW c \in {"new", Absent}, CommandWrites(j, f, c)
  PROVE  SandboxInv'
<1>k. /\ jobs[j] \in Job /\ jobs \in [Jobs -> Job] /\ Calm(j) /\ (Undisturbed(j) => Faithful(j))
      /\ Names \subseteq Files \cup {Script} /\ files \in [Names -> Contents \cup {Absent}]
  BY KnownOfJob
<1>1. Put(j, f, c) /\ UNCHANGED <<errand, interlock, jobs, snapshots, before>>
  BY DEF CommandWrites
<1>2. LeavesOthers(j) /\ Writes(j) /\ interlock' \in BOOLEAN
  BY <1>1, <1>k DEF LeavesOthers, Writes, Contents, SandboxInv, SandboxTypeOK
<1>3. /\ jobs[j] \in Job /\ jobs' = [jobs EXCEPT ![j] = jobs[j]]
      /\ snapshots[j] \in [Names -> Contents \cup {Absent}] /\ snapshots' = [snapshots EXCEPT ![j] = snapshots[j]]
      /\ before[j] \in [Names -> Contents \cup {Absent}] /\ before' = [before EXCEPT ![j] = before[j]]
  BY <1>1, <1>k, KnownOfJob
<1>4. Calm(j)'
  BY <1>1, <1>k DEF Calm
<1>5. Undisturbed(j)' => Faithful(j)'
  <2>1. SUFFICES ASSUME Undisturbed(j)' PROVE Faithful(j)'
    OBVIOUS
  <2>2. Names' = Names /\ touched \subseteq touched'
    BY <1>2, WritesKeepNames DEF SandboxInv
  <2>3. Undisturbed(j)
    BY <1>1, <2>1, <2>2 DEF Undisturbed
  <2>4. jobs[j].at = "running"
    BY <1>k, <2>3 DEF CommandWrites, Calm, Undisturbed
  <2> QED
    BY <1>1, <1>k, <2>2, <2>3, <2>4 DEF Faithful
<1> QED
  BY <1>2, <1>3, <1>4, <1>5, OneJob

\* The beginning: a script is written, or a trial remembers what it finds.
LEMMA BeginKeeps ==
  ASSUME SandboxInv, NEW j \in Jobs, Begin(j)
  PROVE  SandboxInv'
<1>k. /\ jobs[j] \in Job /\ jobs \in [Jobs -> Job] /\ Calm(j)
      /\ files \in [Names -> Contents \cup {Absent}]
      /\ snapshots[j] \in [Names -> Contents \cup {Absent}] /\ before[j] \in [Names -> Contents \cup {Absent}]
  BY KnownOfJob
<1> DEFINE trial == errand[j].kind = "trial"
           q == jobs'[j]
           found == IF trial THEN files ELSE before[j]
<1>1. /\ q \in Job /\ jobs' = [jobs EXCEPT ![j] = q] /\ q.left = Names
      /\ q.at = IF trial THEN "snapshot" ELSE "gate"
      /\ q.shell = jobs[j].shell /\ q.child = jobs[j].child
  BY <1>k DEF Begin, Job, Stations
<1>2. LeavesOthers(j) /\ Writes(j) /\ interlock' \in BOOLEAN
  BY DEF Begin, LeavesOthers, Writes, Contents, Quiet, SandboxInv, SandboxTypeOK
<1>3. /\ found \in [Names -> Contents \cup {Absent}] /\ before' = [before EXCEPT ![j] = found]
      /\ snapshots' = [snapshots EXCEPT ![j] = snapshots[j]]
  BY <1>k, KnownOfJob DEF Begin
<1>4. Names' = Names
  BY <1>2, WritesKeepNames DEF SandboxInv
<1>5. Calm(j)'
  BY <1>1, <1>k DEF Begin, Is, Calm
<1>6. trial => files' = files
  BY DEF Begin, Quiet
<1>7. trial => before'[j] = files
  BY DEF Begin, SandboxInv, SandboxTypeOK
<1>8. Undisturbed(j)' => Faithful(j)'
  <2>1. SUFFICES ASSUME Undisturbed(j)' PROVE Faithful(j)'
    OBVIOUS
  <2>2. trial
    BY <2>1 DEF Begin, Undisturbed
  <2> QED
    BY <1>1, <1>4, <1>6, <1>7, <2>2 DEF Faithful
<1> HIDE DEF q, found
<1> QED
  BY <1>1, <1>2, <1>3, <1>5, <1>8, <1>k, OneJob

\* A file joins the snapshot, as a text, or the snapshot is complete.
LEMMA SnapshotKeeps ==
  ASSUME SandboxInv, NEW j \in Jobs, Snapshot(j)
  PROVE  SandboxInv'
<1>k. /\ jobs[j] \in Job /\ jobs \in [Jobs -> Job] /\ Calm(j) /\ (Undisturbed(j) => Faithful(j))
      /\ files \in [Names -> Contents \cup {Absent}]
      /\ snapshots[j] \in [Names -> Contents \cup {Absent}] /\ before[j] \in [Names -> Contents \cup {Absent}]
  BY KnownOfJob
<1>q. /\ jobs[j].at = "snapshot" /\ UNCHANGED <<files, touched, errand, interlock, before>>
  BY DEF Snapshot, Is, Quiet
<1>1. CASE jobs[j].left = {} /\ MoveTo(j, "write") /\ UNCHANGED snapshots
  BY <1>1, <1>q, MoveToKeeps DEF Stations
<1>2. ASSUME NEW f \in jobs[j].left, snapshots' = [snapshots EXCEPT ![j][f] = Utf8(files[f])],
             jobs' = [jobs EXCEPT ![j].left = @ \ {f}]
      PROVE  SandboxInv'
  <2> DEFINE q == jobs'[j]
             held == [snapshots[j] EXCEPT ![f] = Utf8(files[f])]
  <2>1. /\ q \in Job /\ jobs' = [jobs EXCEPT ![j] = q] /\ q.left = jobs[j].left \ {f}
        /\ q.at = "snapshot" /\ q.shell = jobs[j].shell /\ q.child = jobs[j].child
    BY <1>2, <1>k, <1>q DEF Job
  <2>2. f \in Names /\ Utf8(files[f]) \in Contents \cup {Absent}
    BY <1>k DEF Job, Utf8, Contents
  <2>3. held \in [Names -> Contents \cup {Absent}] /\ snapshots' = [snapshots EXCEPT ![j] = held]
        /\ snapshots'[j] = held
    BY <1>2, <1>k, <2>2 DEF SandboxInv, SandboxTypeOK
  <2>4. LeavesOthers(j) /\ Writes(j) /\ interlock' \in BOOLEAN
    BY <1>2, <1>k, <1>q DEF LeavesOthers, Writes, SandboxInv, SandboxTypeOK
  <2>5. Calm(j)'
    BY <1>k, <1>q, <2>1 DEF Calm
  <2>6. before' = [before EXCEPT ![j] = before[j]]
    BY <1>q, KnownOfJob
  <2>7. ASSUME Undisturbed(j)' PROVE Faithful(j)'
    <3>1. Names' = Names
      BY <1>q DEF Names
    <3>2. Undisturbed(j)
      BY <1>q, <2>7, <3>1 DEF Undisturbed
    <3>3. files = before[j] /\ before[j][f] # "binary"
      BY <1>k, <1>q, <2>2, <3>2 DEF Faithful, Undisturbed
    <3>4. \A g \in Names \ q.left : held[g] = before[j][g]
      BY <1>k, <1>q, <2>1, <2>2, <3>2, <3>3 DEF Faithful, Utf8
    <3> QED
      BY <1>q, <2>1, <2>3, <3>1, <3>3, <3>4 DEF Faithful
  <2> HIDE DEF q, held
  <2> QED
    BY <1>k, <2>1, <2>3, <2>4, <2>5, <2>6, <2>7, OneJob
<1>3. CASE MoveTo(j, "failed") /\ UNCHANGED snapshots
  BY <1>3, <1>q, MoveToKeeps DEF Stations
<1> QED
  BY <1>1, <1>2, <1>3 DEF Snapshot

\* The file the call names is written; the snapshot is there by now.
LEMMA WriteFileKeeps ==
  ASSUME SandboxInv, NEW j \in Jobs, WriteFile(j)
  PROVE  SandboxInv'
<1>k. /\ jobs[j] \in Job /\ jobs \in [Jobs -> Job] /\ Calm(j) /\ (Undisturbed(j) => Faithful(j))
      /\ files \in [Names -> Contents \cup {Absent}] /\ errand[j].file \in Files
      /\ snapshots[j] \in [Names -> Contents \cup {Absent}] /\ before[j] \in [Names -> Contents \cup {Absent}]
  BY KnownOfJob
<1>q. jobs[j].at = "write" /\ UNCHANGED <<errand, interlock, snapshots, before>>
  BY DEF WriteFile, Is
<1>1. CASE Throw(j) /\ Quiet
  BY <1>1, <1>q, ThrowKeeps DEF Quiet
<1>2. ASSUME NEW where \in {"start", "over"}, Put(j, errand[j].file, "new"), MoveTo(j, where)
      PROVE  SandboxInv'
  <2> DEFINE q == jobs'[j]
  <2>1. /\ q \in Job /\ jobs' = [jobs EXCEPT ![j] = q] /\ q.at = where
        /\ q.shell = jobs[j].shell /\ q.child = jobs[j].child
    BY <1>2, <1>k DEF MoveTo, Job, Stations
  <2>2. LeavesOthers(j) /\ Writes(j) /\ interlock' \in BOOLEAN
    BY <1>2, <1>k, <1>q DEF MoveTo, LeavesOthers, Writes, Contents, SandboxInv, SandboxTypeOK
  <2>3. /\ snapshots' = [snapshots EXCEPT ![j] = snapshots[j]] /\ before' = [before EXCEPT ![j] = before[j]]
    BY <1>q, KnownOfJob
  <2>4. Calm(j)'
    BY <1>k, <1>q, <2>1 DEF Calm
  <2>5. ASSUME Undisturbed(j)' PROVE Faithful(j)'
    <3>1. Names' = Names /\ touched \subseteq touched'
      BY <2>2, WritesKeepNames DEF SandboxInv
    <3>2. Undisturbed(j)
      BY <1>q, <2>5, <3>1 DEF Undisturbed
    <3> QED
      BY <1>k, <1>q, <2>1, <3>2 DEF Faithful
  <2> HIDE DEF q
  <2> QED
    BY <1>k, <2>1, <2>2, <2>3, <2>4, <2>5, OneJob
<1> QED
  BY <1>1, <1>2 DEF WriteFile

\* The command is started.
LEMMA SpawnKeeps ==
  ASSUME SandboxInv, NEW j \in Jobs, Spawn(j)
  PROVE  SandboxInv'
<1>k. /\ jobs[j] \in Job /\ jobs \in [Jobs -> Job] /\ Calm(j)
  BY KnownOfJob
<1>q. jobs[j].at = "start" /\ UNCHANGED <<files, touched, errand, interlock, snapshots, before>>
  BY DEF Spawn, Is, Quiet
<1>1. CASE Throw(j)
  BY <1>1, <1>q, ThrowKeeps
<1>2. CASE jobs' = [jobs EXCEPT ![j].at = "running", ![j].shell = TRUE,
                              ![j].child = errand[j].starts # "plain"]
  <2> DEFINE q == jobs'[j]
  <2>1. /\ q \in Job /\ jobs' = [jobs EXCEPT ![j] = q] /\ q.at = "running"
        /\ q.child = (errand[j].starts # "plain")
    BY <1>2, <1>k DEF Job, Stations
  <2> HIDE DEF q
  <2> QED
    BY <1>q, <2>1, QuietMove DEF Faithful
<1> QED
  BY <1>1, <1>2 DEF Spawn

\* The end of the call, when nobody holds its output any more.
LEMMA CloseKeeps ==
  ASSUME SandboxInv, NEW j \in Jobs, Close(j)
  PROVE  SandboxInv'
<1>1. /\ jobs[j].at = "running" /\ ~jobs[j].shell /\ (errand[j].starts = "piped" => ~jobs[j].child)
      /\ MoveTo(j, IF errand[j].kind = "trial" THEN "judge" ELSE "over")
      /\ UNCHANGED <<files, touched, errand, interlock, snapshots, before>>
  BY DEF Close, Is, Quiet
<1>2. jobs[j].child => errand[j].starts = "daemon"
  BY <1>1, KnownOfJob DEF Calm, Starts
<1>3. CASE errand[j].kind = "trial"
  <2>1. MoveTo(j, "judge") /\ "judge" \in Stations
    BY <1>1, <1>3 DEF Stations
  <2> QED
    BY <1>1, <1>2, <1>3, <2>1, MoveToKeeps
<1>4. CASE errand[j].kind # "trial"
  <2>1. MoveTo(j, "over") /\ "over" \in Stations
    BY <1>1, <1>4 DEF Stations
  <2> QED
    BY <1>1, <1>2, <1>4, <2>1, MoveToKeeps
<1> QED
  BY <1>3, <1>4

\* The verdict on a trial.
LEMMA JudgeKeeps ==
  ASSUME SandboxInv, NEW j \in Jobs, Judge(j)
  PROVE  SandboxInv'
<1>k. /\ jobs[j] \in Job /\ jobs \in [Jobs -> Job] /\ Calm(j)
  BY KnownOfJob
<1>q. jobs[j].at = "judge" /\ UNCHANGED <<files, touched, errand, interlock, snapshots, before>>
  BY DEF Judge, Is, Quiet
<1>1. CASE Throw(j)
  BY <1>1, <1>q, ThrowKeeps
<1>2. CASE MoveTo(j, "kept")
  <2>1. "kept" \in Stations
    BY DEF Stations
  <2> QED
    BY <1>2, <1>q, <2>1, MoveToKeeps
<1>3. CASE jobs' = [jobs EXCEPT ![j].at = "undo", ![j].left = Names, ![j].tried = 1]
  <2> DEFINE q == [jobs[j] EXCEPT !.at = "undo", !.left = Names, !.tried = 1]
  <2>1. q \in Job /\ q.at = "undo" /\ q.left = Names /\ q.shell = jobs[j].shell /\ q.child = jobs[j].child
    <3>1. 1 \in 0 .. 2
      OBVIOUS
    <3> QED
      BY <1>k, <3>1, UndoIsJob
  <2>2. jobs' = [jobs EXCEPT ![j] = q]
    BY <1>3, <1>k
  <2> HIDE DEF q
  <2> QED
    BY <1>k, <1>q, <2>1, <2>2, QuietMove DEF Calm, Faithful
<1> QED
  BY <1>1, <1>2, <1>3 DEF Judge

\* A file is put back as the snapshot has it, or the roll-back is over.
LEMMA UndoKeeps ==
  ASSUME SandboxInv, NEW j \in Jobs, Undo(j)
  PROVE  SandboxInv'
<1>k. /\ jobs[j] \in Job /\ jobs \in [Jobs -> Job] /\ Calm(j) /\ (Undisturbed(j) => Faithful(j))
      /\ files \in [Names -> Contents \cup {Absent}] /\ Names \subseteq Files \cup {Script}
      /\ snapshots[j] \in [Names -> Contents \cup {Absent}] /\ before[j] \in [Names -> Contents \cup {Absent}]
  BY KnownOfJob
<1>q. jobs[j].at = "undo" /\ UNCHANGED <<errand, interlock, snapshots, before>>
  BY DEF Undo, Is
<1>1. CASE Throw(j) /\ Quiet
  BY <1>1, <1>q, ThrowKeeps DEF Quiet
<1>2. CASE jobs[j].left = {} /\ MoveTo(j, "undone") /\ Quiet
  <2>1. "undone" \in Stations
    BY DEF Stations
  <2> QED
    BY <1>2, <1>q, <2>1, MoveToKeeps DEF Quiet
<1>3. ASSUME NEW f \in jobs[j].left, Put(j, f, snapshots[j][f]), jobs' = [jobs EXCEPT ![j].left = @ \ {f}]
      PROVE  SandboxInv'
  <2> DEFINE q == jobs'[j]
  <2>1. /\ q \in Job /\ jobs' = [jobs EXCEPT ![j] = q] /\ q.left = jobs[j].left \ {f}
        /\ q.at = "undo" /\ q.shell = jobs[j].shell /\ q.child = jobs[j].child
    BY <1>3, <1>k, <1>q DEF Job
  <2>2. f \in Names /\ snapshots[j][f] \in Contents \cup {Absent}
    BY <1>k DEF Job
  <2>3. LeavesOthers(j) /\ Writes(j) /\ interlock' \in BOOLEAN
    BY <1>3, <1>k, <1>q, <2>2 DEF LeavesOthers, Writes, SandboxInv, SandboxTypeOK
  <2>4. /\ snapshots' = [snapshots EXCEPT ![j] = snapshots[j]] /\ before' = [before EXCEPT ![j] = before[j]]
    BY <1>q, KnownOfJob
  <2>5. Calm(j)'
    BY <1>k, <1>q, <2>1 DEF Calm
  <2>6. ASSUME Undisturbed(j)' PROVE Faithful(j)'
    <3>1. Names' = Names /\ touched \subseteq touched'
      BY <2>3, WritesKeepNames DEF SandboxInv
    <3>2. Undisturbed(j)
      BY <1>q, <2>6, <3>1 DEF Undisturbed
    <3>3. snapshots[j] = before[j] /\ \A g \in Names \ jobs[j].left : files[g] = before[j][g]
      BY <1>k, <1>q, <3>2 DEF Faithful
    <3>4. \A g \in Names \ q.left : files'[g] = before[j][g]
      BY <1>3, <1>k, <2>1, <2>2, <3>3 DEF Put
    <3> QED
      BY <1>q, <2>1, <3>1, <3>3, <3>4 DEF Faithful
  <2> HIDE DEF q
  <2> QED
    BY <1>k, <2>1, <2>3, <2>4, <2>5, <2>6, OneJob
<1>4. New(j) \subseteq jobs[j].left
  BY DEF New
<1> QED
  BY <1>1, <1>2, <1>3, <1>4 DEF Undo, Restored

\* Every step of the sandbox keeps the invariant.
LEMMA SandboxInvStep == SandboxInv /\ [SandboxNext]_sandboxVars => SandboxInv'
<1> SUFFICES ASSUME SandboxInv, [SandboxNext]_sandboxVars PROVE SandboxInv'
  OBVIOUS
<1>1. ASSUME UNCHANGED <<errand, files, jobs, snapshots, before, touched>>, interlock' \in BOOLEAN
      PROVE SandboxInv'
  BY <1>1 DEF SandboxInv, SandboxTypeOK, SameNames, Quiescent, Calm, TrialsFaithful, Undisturbed,
              Faithful, Names
<1>2. CASE UNCHANGED sandboxVars
  BY <1>1, <1>2 DEF sandboxVars, SandboxInv, SandboxTypeOK
<1>3. CASE Switch
  BY <1>1, <1>3 DEF Switch, Quiet
<1>4. ASSUME NEW j \in Jobs, SandboxStep(j) PROVE SandboxInv'
  BY <1>4, BeginKeeps, GateKeeps, SnapshotKeeps, WriteFileKeeps, SpawnKeeps, CloseKeeps, JudgeKeeps,
     UndoKeeps DEF SandboxStep
<1>5. ASSUME NEW j \in Jobs, CommandStep(j) PROVE SandboxInv'
  BY <1>5, CommandWritesKeeps, CommandKeeps DEF CommandStep
<1> QED
  BY <1>2, <1>3, <1>4, <1>5 DEF SandboxNext

LEMMA SandboxInvariant == SandboxSpec => []SandboxInv
BY SandboxInitInv, SandboxInvStep, PTL DEF SandboxSpec

\* A roll-back says it is done when nothing is left to put back.
LEMMA OnlyTheEndIsUndone ==
  ASSUME SandboxInv, [SandboxNext]_sandboxVars, NEW j \in Jobs,
         jobs[j].at = "undo", jobs'[j].at = "undone"
  PROVE  jobs[j].left = {}
<1>k. jobs \in [Jobs -> Job]
  BY KnownOfJob
<1>1. jobs' # jobs
  OBVIOUS
<1>2. PICK k \in Jobs : SandboxStep(k) \/ CommandStep(k)
  BY <1>1 DEF SandboxNext, sandboxVars, Switch
<1>3. ~CommandStep(k)
  BY <1>k, <1>1 DEF CommandStep, CommandWrites, ShellExits, ChildExits, Timeout, Poll, Killed, Job
<1>4. k = j
  BY <1>2, <1>3, <1>k DEF SandboxStep, Begin, Gate, Snapshot, WriteFile, Spawn, Close, Judge, Undo,
     MoveTo, Throw
<1>5. Undo(j)
  BY <1>2, <1>3, <1>4 DEF SandboxStep, Begin, Gate, Snapshot, WriteFile, Spawn, Close, Judge, Is
<1>6. ~Throw(j)
  BY <1>k DEF Throw, Job
<1>7. ASSUME NEW f, jobs' = [jobs EXCEPT ![j].left = @ \ {f}] PROVE FALSE
  BY <1>7, <1>k DEF Job
<1> QED
  BY <1>5, <1>6, <1>7 DEF Undo

\* The sandbox, the snapshots and the jobs always have their types.
THEOREM SandboxTypeCorrect == SandboxSpec => []SandboxTypeOK
<1>1. SandboxInv => SandboxTypeOK
  BY DEF SandboxInv
<1> QED
  BY SandboxInvariant, <1>1, PTL

\* The end of such a roll-back: nothing is left to do, and what was done is restored.
LEMMA RollBackStep ==
  ASSUME SandboxInv, [SandboxNext]_sandboxVars, NEW j \in Jobs,
         RolledBack(j), errand[j].starts # "daemon", j \notin touched,
         \A f \in Names : before[j][f] # "binary"
  PROVE  files = before[j]
<1>1. /\ jobs \in [Jobs -> Job] /\ jobs[j].at = "undo" /\ jobs'[j].at = "undone"
      /\ Calm(j) /\ (Undisturbed(j) => Faithful(j))
      /\ files \in [Names -> Contents \cup {Absent}]
      /\ before[j] \in [Names -> Contents \cup {Absent}]
  BY KnownOfJob DEF RolledBack
<1>2. jobs[j].left = {}
  BY <1>1, OnlyTheEndIsUndone
<1>3. Undisturbed(j)
  BY <1>1 DEF Calm, Undisturbed
<1>4. \A f \in Names : files[f] = before[j][f]
  BY <1>1, <1>2, <1>3 DEF Faithful
<1> QED
  BY <1>1, <1>4

\* A trial that nobody disturbed and that says it rolled back has left every file of a
\* sandbox of texts as it found it (createSnapshot, rollbackSnapshot and the catch).
THEOREM TrialsRestoreText == SandboxSpec => TrialRestoresText
<1>1. SandboxInv /\ [SandboxNext]_sandboxVars
        => [\A j \in Jobs :
              /\ RolledBack(j) /\ errand[j].starts # "daemon" /\ j \notin touched
              /\ \A f \in Names : before[j][f] # "binary"
              => files = before[j]]_sandboxVars
  BY RollBackStep
<1> QED
  BY SandboxInvariant, <1>1, PTL DEF SandboxSpec, TrialRestoresText
=============================================================================
