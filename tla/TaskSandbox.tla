---------------------------- MODULE TaskSandbox -----------------------------
(***************************************************************************)
(* The sandbox of one task on the server that runs commands locally: the   *)
(* governed tools that write files and run commands and scripts in it, the *)
(* life of a command (its shell, what the shell starts, the timer, the     *)
(* output limit and the poll of the interlock), and speculative trials,    *)
(* which take a snapshot, act, test, and keep or roll back.                *)
(*                                                                         *)
(* A job is one call. Whether the gate of executeExternal admits it is a   *)
(* choice here (the modules EffectGate and Gateway say when). Every await  *)
(* is a step; commands write while they run. Directories are left out: a   *)
(* file is there with a content, or it is not.                             *)
(***************************************************************************)
EXTENDS Naturals, FiniteSets

CONSTANTS
  Jobs,             \* calls in the sandbox
  Instances,        \* what the jobs of an instance do, and the files they find
  Files,            \* names of files
  Script,           \* script_<ms>.py of the millisecond in which scripts are written
  Mangled           \* the text a content becomes that is not text: U+FFFD for its bytes

VARIABLES
  errand,      \* job -> what it does: kind, the file it names, what its command starts
  files,       \* name -> its content, Absent without one
  interlock,   \* the kill switch or the circuit is on
  jobs,        \* job -> where it stands
  snapshots,   \* job -> the files its snapshot holds
  before,      \* job -> the files when its trial began (history)
  touched      \* trials during which another job wrote (history)

sandboxVars == <<errand, files, interlock, jobs, snapshots, before, touched>>

Names == DOMAIN files       \* the names an instance is about
Absent == "absent"
Kinds == {"command", "python", "write", "trial"}
\* A shell that runs one program, a program that holds the output of the shell, one that
\* does not (it was sent to the background with its output redirected).
Starts == {"plain", "piped", "daemon"}
Contents == {"old", "new", "binary", Mangled} \cup Jobs
Errand == [kind : Kinds, file : Files, starts : Starts]
Holdings == UNION {[N -> Contents \cup {Absent}] : N \in SUBSET (Files \cup {Script})}

ASSUME SandboxAssumption == Instances \subseteq [errand : [Jobs -> Errand], files : Holdings]

Governed(j) == errand[j].kind \in {"command", "python"}
Is(j, where) == jobs[j].at = where
Idle == [at |-> "begin", shell |-> FALSE, child |-> FALSE, passed |-> FALSE, tried |-> 0,
         left |-> {}]
MoveTo(j, where) == jobs' = [jobs EXCEPT ![j].at = where]

\* A statement throws: the catch of a trial rolls back, once (tried counts the attempts).
Throw(j) ==
  jobs' = IF errand[j].kind = "trial" /\ jobs[j].tried < 2
          THEN [jobs EXCEPT ![j].at = "undo", ![j].left = Names, ![j].tried = 2]
          ELSE [jobs EXCEPT ![j].at = "failed"]

\* Reading a file as utf8 and writing it back.
Utf8(c) == IF c = "binary" THEN Mangled ELSE c

InTrial(j) == errand[j].kind = "trial" /\ jobs[j].at \notin {"begin", "over", "kept", "undone", "failed"}
\* j puts content c under name f: every other trial that is on is touched.
Put(j, f, c) ==
  /\ files' = [files EXCEPT ![f] = c]
  /\ touched' = IF c = files[f] THEN touched
                ELSE touched \cup {k \in Jobs \ {j} : InTrial(k)}
Quiet == UNCHANGED <<files, touched>>

SandboxInit ==
  /\ \E i \in Instances : errand = i.errand /\ files = i.files
  /\ interlock = FALSE
  /\ jobs = [j \in Jobs |-> Idle]
  /\ snapshots = [j \in Jobs |-> files]
  /\ before = [j \in Jobs |-> files]
  /\ touched = {}

\* A call begins. A script is written, under a name the millisecond gives it, before the
\* gate is asked; a trial has its snapshot to take.
Begin(j) ==
  /\ Is(j, "begin")
  /\ IF errand[j].kind = "python" THEN Put(j, Script, j) ELSE Quiet
  /\ jobs' = [jobs EXCEPT ![j].left = Names,
       ![j].at = IF errand[j].kind = "trial" THEN "snapshot" ELSE "gate"]
  /\ before' = IF errand[j].kind = "trial" THEN [before EXCEPT ![j] = files] ELSE before
  /\ UNCHANGED <<errand, interlock, snapshots>>

\* executeExternal runs the effect, or throws.
Gate(j) ==
  /\ Is(j, "gate")
  /\ \/ MoveTo(j, IF errand[j].kind = "write" THEN "write" ELSE "start")
     \/ MoveTo(j, "failed")
  /\ Quiet /\ UNCHANGED <<errand, interlock, snapshots, before>>

\* createSnapshot reads the files it finds one after the other, each as text. It may throw,
\* and then the trial has not begun: nothing is written and nothing rolled back.
Snapshot(j) ==
  /\ Is(j, "snapshot")
  /\ \/ \E f \in jobs[j].left :
          /\ snapshots' = [snapshots EXCEPT ![j][f] = Utf8(files[f])]
          /\ jobs' = [jobs EXCEPT ![j].left = @ \ {f}]
     \/ jobs[j].left = {} /\ MoveTo(j, "write") /\ UNCHANGED snapshots
     \/ MoveTo(j, "failed") /\ UNCHANGED snapshots
  /\ Quiet /\ UNCHANGED <<errand, interlock, before>>

\* writeFile, the tool's or the trial's; it may throw before it writes.
WriteFile(j) ==
  /\ Is(j, "write")
  /\ \/ /\ Put(j, errand[j].file, "new")
        /\ MoveTo(j, IF errand[j].kind = "trial" THEN "start" ELSE "over")
     \/ Throw(j) /\ Quiet
  /\ UNCHANGED <<errand, interlock, snapshots, before>>

\* execute: the tools' commands look at the interlock first, and are spawned if it is off;
\* a trial's is not given the interlock to look at. Spawning may throw.
Spawn(j) ==
  /\ Is(j, "start")
  /\ \/ Throw(j)
     \/ /\ Governed(j) => ~interlock
        /\ jobs' = [jobs EXCEPT ![j].at = "running", ![j].shell = TRUE,
                              ![j].child = errand[j].starts # "plain"]
  /\ Quiet /\ UNCHANGED <<errand, interlock, snapshots, before>>

\* A command at work, its own program or one it left behind: it writes and deletes.
CommandWrites(j, f, c) ==
  /\ jobs[j].shell \/ jobs[j].child
  /\ c # files[f]
  /\ Put(j, f, c)
  /\ UNCHANGED <<errand, interlock, jobs, snapshots, before>>

\* The program ends by itself, well or not; so does what it started.
ShellExits(j, ok) ==
  /\ jobs[j].shell
  /\ jobs' = [jobs EXCEPT ![j].shell = FALSE, ![j].passed = ok]
  /\ Quiet /\ UNCHANGED <<errand, interlock, snapshots, before>>
ChildExits(j) ==
  /\ jobs[j].child
  /\ jobs' = [jobs EXCEPT ![j].child = FALSE]
  /\ Quiet /\ UNCHANGED <<errand, interlock, snapshots, before>>

\* SIGKILL goes to the shell: from the timer, ...
Killed(j) == jobs' = [jobs EXCEPT ![j].shell = FALSE, ![j].passed = FALSE]
NoTimeout(j) == FALSE
Timeout(j) ==
  /\ jobs[j].shell
  /\ Killed(j)
  /\ Quiet /\ UNCHANGED <<errand, interlock, snapshots, before>>
\* ... the poll of the interlock, ...
Poll(j) ==
  /\ jobs[j].shell /\ Governed(j) /\ interlock
  /\ Killed(j)
  /\ Quiet /\ UNCHANGED <<errand, interlock, snapshots, before>>

\* ... and after either the call goes on when nobody holds the output any more.
Close(j) ==
  /\ Is(j, "running") /\ ~jobs[j].shell
  /\ errand[j].starts = "piped" => ~jobs[j].child
  /\ MoveTo(j, IF errand[j].kind = "trial" THEN "judge" ELSE "over")
  /\ Quiet /\ UNCHANGED <<errand, interlock, snapshots, before>>

\* Kept if the command ended well and the validator, if any, agrees; it may throw.
Judge(j) ==
  /\ Is(j, "judge")
  /\ \/ jobs[j].passed /\ MoveTo(j, "kept")
     \/ jobs' = [jobs EXCEPT ![j].at = "undo", ![j].left = Names, ![j].tried = 1]
     \/ Throw(j)
  /\ Quiet /\ UNCHANGED <<errand, interlock, snapshots, before>>

\* rollbackSnapshot: what the snapshot has not is removed, then what it has is written,
\* a file at a time. A failure in the first attempt leads to a second, from the catch.
RestoredIfHeld(j, f) == IF snapshots[j][f] = Absent THEN files[f] ELSE snapshots[j][f]
Restored(j, f) == snapshots[j][f]
New(j) == {f \in jobs[j].left : snapshots[j][f] = Absent}
Undo(j) ==
  /\ Is(j, "undo")
  /\ \/ \E f \in IF New(j) # {} THEN New(j) ELSE jobs[j].left :
          /\ Put(j, f, Restored(j, f))
          /\ jobs' = [jobs EXCEPT ![j].left = @ \ {f}]
     \/ jobs[j].left = {} /\ MoveTo(j, "undone") /\ Quiet
     \/ Throw(j) /\ Quiet
  /\ UNCHANGED <<errand, interlock, snapshots, before>>

\* The interlock is switched (where somebody looks at it).
Switch ==
  /\ \E j \in Jobs : Governed(j)
  /\ interlock' = ~interlock
  /\ Quiet /\ UNCHANGED <<errand, jobs, snapshots, before>>

SandboxStep(j) ==
  \/ Begin(j) \/ Gate(j) \/ Snapshot(j) \/ WriteFile(j) \/ Spawn(j) \/ Close(j) \/ Judge(j) \/ Undo(j)

CommandStep(j) ==
  \/ \E f \in Names, c \in {"new", Absent} : CommandWrites(j, f, c)
  \/ \E ok \in BOOLEAN : ShellExits(j, ok)
  \/ ChildExits(j) \/ Timeout(j) \/ Poll(j)

SandboxNext == Switch \/ \E j \in Jobs : SandboxStep(j) \/ CommandStep(j)

\* The event loop runs what is due; nothing says that a program ends.
SandboxFairness ==
  \A j \in Jobs : WF_sandboxVars(SandboxStep(j)) /\ WF_sandboxVars(Timeout(j))

SandboxSpec == SandboxInit /\ [][SandboxNext]_sandboxVars /\ SandboxFairness

-----------------------------------------------------------------------------
\* The sandbox and its jobs hold what they are declared to hold.
SandboxTypeOK ==
  /\ errand \in [Jobs -> Errand]
  /\ files \in Holdings
  /\ interlock \in BOOLEAN
  /\ jobs \in [Jobs -> [at : {"begin", "gate", "snapshot", "write", "start", "running", "judge",
                              "undo", "over", "kept", "undone", "failed"},
                        shell : BOOLEAN, child : BOOLEAN, passed : BOOLEAN, tried : 0 .. 2,
                        left : SUBSET Names]]
  /\ snapshots \in [Jobs -> Holdings]
  /\ before \in [Jobs -> Holdings]
  /\ touched \subseteq Jobs

RolledBack(j) == jobs[j].at = "undo" /\ jobs'[j].at = "undone"

\* A trial that says it rolled back, that left no program in the background and that no
\* other job disturbed, has left every file of a sandbox of texts as it was when it
\* began, whichever of its statements threw, its own first roll-back included.
TrialRestoresText ==
  [][\A j \in Jobs :
       /\ RolledBack(j) /\ errand[j].starts # "daemon" /\ j \notin touched
       /\ \A f \in Names : before[j][f] # "binary"
       => files = before[j]]_sandboxVars

\* "the sandbox instantly and atomically rolls back to its exact pre-execution state"
\* (speculative.ts): the same of every sandbox.
TrialIsExact ==
  [][\A j \in Jobs :
       RolledBack(j) /\ errand[j].starts # "daemon" /\ j \notin touched
         => files = before[j]]_sandboxVars

\* "Enforces timeout, byte limits, and kill-switch termination" (sandbox/index.ts): a call
\* comes to an end however long its command would like to run, or has come to where its
\* shell is dead and a program that the shell left behind holds the output, which the
\* timer does not reach; and as soon as that lets go, the call ends too.
HeldOpen(j) == errand[j].starts = "piped" /\ ~jobs[j].shell /\ jobs[j].child
RunsEnd == \A j \in Jobs : (Is(j, "running") /\ ~HeldOpen(j)) ~> (~Is(j, "running") \/ HeldOpen(j))
=============================================================================
