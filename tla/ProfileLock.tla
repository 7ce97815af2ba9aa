---------------------------- MODULE ProfileLock ----------------------------
(***************************************************************************)
(* The lock file of a profile (internal/profile/profile.go), taken by       *)
(* Runner.Run and SmartRunner.Run for the time of a session, and removed    *)
(* as stale by the next session, by `caam profile unlock` and by            *)
(* `caam doctor --fix`.  Every system call on the file is a step of its     *)
(* own.  Processes are their PIDs: a PID whose process is gone may come     *)
(* back as another session, another command or an unrelated program.        *)
(***************************************************************************)
EXTENDS Integers, FiniteSets

CONSTANTS
  Procs,       \* PIDs
  MaxStarts    \* bound: processes started in a behaviour

Absent == "absent"     \* no lock file
Partial == "partial"   \* created and not yet written: not JSON

ASSUME ConstantsAssumption ==
  /\ Absent \notin Procs /\ Partial \notin Procs /\ Absent # Partial
  /\ MaxStarts \in Nat

VARIABLES
  file,      \* the lock file: Absent, Partial or the PID in it
  pc,        \* what each process does next; "dead" when there is none
  seen,      \* what the process last read from the file
  starts,    \* processes started so far
  overtaken, \* the file changed since the process last looked at it
  raced,     \* a cleaner has removed a file that changed after its last look
  cause      \* during the attempt the file was partial or held a living PID

history == <<overtaken, raced, cause>>
vars == <<file, pc, seen, starts, overtaken, raced, cause>>

Files == Procs \cup {Absent, Partial}
SessionPoints == {"read", "check", "reread", "recheck", "clean", "create", "write",
                  "run", "unlock", "refused"}
CommandPoints == {"unlockRead", "unlockCheck", "doctorStat", "doctorRead", "doctorCheck",
                  "remove"}
Points == SessionPoints \cup CommandPoints \cup {"dead", "other"}

IsProcessAlive(p) == pc[p] # "dead"

\* Processes that are past Lock's O_EXCL: they have the profile to themselves.
Holding == {p \in Procs : pc[p] \in {"write", "run", "unlock"}}

-----------------------------------------------------------------------------
(* Steps.                                                                  *)

Goto(p, q) == pc' = [pc EXCEPT ![p] = q]

Look(p) ==
  /\ seen' = [seen EXCEPT ![p] = file]
  /\ overtaken' = [overtaken EXCEPT ![p] = FALSE]
  /\ UNCHANGED <<file, raced>>

\* The file changes under whoever looked at it before.
Change(p, f) ==
  /\ file' = f
  /\ overtaken' = [q \in Procs |-> q # p \/ overtaken[q]]

Quiet == UNCHANGED <<file, seen, overtaken, raced>>

Start(p) ==
  /\ pc[p] = "dead" /\ starts < MaxStarts
  /\ \E q \in {"read", "unlockRead", "doctorStat", "other"} : Goto(p, q)
  /\ starts' = starts + 1
  /\ seen' = [seen EXCEPT ![p] = Absent]
  /\ overtaken' = [overtaken EXCEPT ![p] = FALSE]
  /\ UNCHANGED <<file, raced>>

\* Killed; or a program ends that has no lock: a refused session, another one.
Die(p) ==
  /\ pc[p] # "dead"
  /\ Goto(p, "dead")
  /\ Quiet /\ UNCHANGED starts

-----------------------------------------------------------------------------
(* LockWithCleanup: CleanStaleLock, then Lock.                             *)

\* Variation: the info is used without asking whether there was a file.
AfterInfoUnasked(next) == IF file = Partial THEN "refused" ELSE next

\* GetLockInfo: no file is no error, a file that does not parse is one.
AfterInfo(next) ==
  IF file = Partial THEN "refused" ELSE IF file = Absent THEN "create" ELSE next

ReadInfo(p) ==
  /\ pc[p] = "read"
  /\ Goto(p, AfterInfo("check"))
  /\ Look(p)

Check(p) ==
  /\ pc[p] = "check"
  /\ Goto(p, IF IsProcessAlive(seen[p]) THEN "create" ELSE "reread")
  /\ Quiet

\* The second look: only a file with the same PID is removed.
Reread(p) ==
  /\ pc[p] = "reread"
  /\ Goto(p, AfterInfo(IF file = seen[p] THEN "recheck" ELSE "create"))
  /\ Look(p)

\* Variation: a lock found stale is left for the user to remove.
RecheckGivesUp(p) ==
  /\ pc[p] = "recheck"
  /\ Goto(p, "create")
  /\ Quiet

Recheck(p) ==
  /\ pc[p] = "recheck"
  /\ Goto(p, IF IsProcessAlive(seen[p]) THEN "create" ELSE "clean")
  /\ Quiet

\* Unlock removes the path, whatever is there now.
RemoveLooked(p) ==
  /\ IF file = Absent THEN UNCHANGED <<file, overtaken>> ELSE Change(p, Absent)
  /\ raced' = (raced \/ overtaken[p])
  /\ UNCHANGED seen

Clean(p) ==
  /\ pc[p] = "clean"
  /\ Goto(p, "create")
  /\ RemoveLooked(p)

\* Variation: created without O_EXCL.
CreateShared(p) ==
  /\ pc[p] = "create"
  /\ Goto(p, "write") /\ Change(p, Partial)
  /\ UNCHANGED <<seen, raced>>

Create(p) ==
  /\ pc[p] = "create"
  /\ IF file = Absent
       THEN Goto(p, "write") /\ Change(p, Partial) /\ UNCHANGED <<seen, raced>>
       ELSE Goto(p, "refused") /\ Quiet

\* A write or sync that fails removes the file and returns the error.
Write(p) ==
  /\ pc[p] = "write"
  /\ \/ Goto(p, "run") /\ Change(p, p)
     \/ Goto(p, "dead") /\ Change(p, Absent)
  /\ UNCHANGED <<seen, raced>>

SessionEnds(p) ==
  /\ pc[p] = "run"
  /\ Goto(p, "unlock")
  /\ Quiet

\* The deferred Unlock of Run; then the process ends.
Unlock(p) ==
  /\ pc[p] = "unlock"
  /\ Goto(p, "dead")
  /\ IF file = Absent THEN UNCHANGED <<file, overtaken>> ELSE Change(p, Absent)
  /\ UNCHANGED <<seen, raced>>

-----------------------------------------------------------------------------
(* caam profile unlock (without --force) and caam doctor --fix.            *)

\* IsLocked, GetLockInfo and IsLockStale; the last read decides.
UnlockRead(p) ==
  /\ pc[p] = "unlockRead"
  /\ Goto(p, IF file \in Procs THEN "unlockCheck" ELSE "dead")
  /\ Look(p)

UnlockCheck(p) ==
  /\ pc[p] = "unlockCheck"
  /\ Goto(p, IF IsProcessAlive(seen[p]) THEN "dead" ELSE "remove")
  /\ Quiet

DoctorStat(p) ==
  /\ pc[p] = "doctorStat"
  /\ Goto(p, IF file = Absent THEN "dead" ELSE "doctorRead")
  /\ Quiet

\* A file that does not parse is an error and stays.  No info at all, which the
\* code takes for a corrupt file, means that the file is gone by now.
DoctorRead(p) ==
  /\ pc[p] = "doctorRead"
  /\ Goto(p, CASE file = Partial -> "dead"
               [] file = Absent -> "remove"
               [] OTHER -> "doctorCheck")
  /\ Look(p)

DoctorCheck(p) ==
  /\ pc[p] = "doctorCheck"
  /\ Goto(p, IF IsProcessAlive(seen[p]) THEN "dead" ELSE "remove")
  /\ Quiet

Remove(p) ==
  /\ pc[p] = "remove"
  /\ Goto(p, "dead")
  /\ RemoveLooked(p)

-----------------------------------------------------------------------------
Init ==
  /\ file = Absent
  /\ pc = [p \in Procs |-> "dead"]
  /\ seen = [p \in Procs |-> Absent]
  /\ starts = 0
  /\ overtaken = [p \in Procs |-> FALSE]
  /\ raced = FALSE
  /\ cause = [p \in Procs |-> FALSE]

LockWithCleanup(p) ==
  ReadInfo(p) \/ Check(p) \/ Reread(p) \/ Recheck(p) \/ Clean(p) \/ Create(p) \/ Write(p)
Session(p) == LockWithCleanup(p) \/ SessionEnds(p) \/ Unlock(p)
Command(p) ==
  \/ UnlockRead(p) \/ UnlockCheck(p)
  \/ DoctorStat(p) \/ DoctorRead(p) \/ DoctorCheck(p) \/ Remove(p)

Step ==
  \E p \in Procs :
    \/ Start(p) \/ Die(p)
    \/ (Session(p) \/ Command(p)) /\ UNCHANGED starts

\* History: a reason to be refused, noted in every state of an attempt.
Reason == file = Partial \/ (file \in Procs /\ IsProcessAlive(file))
NoteCause ==
  cause' = [p \in Procs |-> pc'[p] # "dead" /\ (cause[p] \/ Reason')]

Next == Step /\ NoteCause
Spec == Init /\ [][Next]_vars

-----------------------------------------------------------------------------
\* Files, control points and what a process remembers are of their types; a
\* process that compares PIDs has read one.
TypeOK ==
  /\ file \in Files
  /\ pc \in [Procs -> Points] /\ seen \in [Procs -> Files]
  /\ starts \in 0 .. MaxStarts
  /\ overtaken \in [Procs -> BOOLEAN] /\ raced \in BOOLEAN
  /\ cause \in [Procs -> BOOLEAN]
  /\ \A p \in Procs :
       pc[p] \in {"check", "reread", "recheck", "clean", "unlockCheck", "doctorCheck"} =>
         seen[p] \in Procs

\* Two sessions never have a profile at once, and the lock file of a session is
\* its own for as long as it runs, in every interleaving of sessions, unlock and
\* doctor commands, kills and reused PIDs.  Exempt (raced): what follows once a cleaner
\* has removed a file that changed after its last look (profile.go:421).
Exclusive ==
  ~raced =>
    /\ \A p, q \in Holding : p = q
    /\ \A p \in Procs : pc[p] \in {"run", "unlock"} => file = p
    /\ \A p \in Procs : pc[p] = "write" => file = Partial

\* A session is turned away only for a cause: at some moment of its attempt the
\* file was half written or its PID was alive.  The lock of a killed process
\* turns nobody away (CleanStaleLock).
RefusedForCause == \A p \in Procs : pc[p] = "refused" => cause[p]

\* CleanStaleLock takes the lock from no session: "we don't accidentally remove a lock
\* that was created by another process between our check and removal"
\* (profile.go:374-376).  The code does not keep this promise.
CleanSparesSessions ==
  [][\A p \in Procs : pc[p] = "clean" /\ pc'[p] = "create" => Holding = {}]_vars

\* Sessions implement the exclusive lock: one becomes its owner only when there is
\* none, or after a removal has broken the lock; dying or acquiring never breaks it.
\* The removal that breaks it is the one CleanSparesSessions forbids, or its like in
\* `unlock` and `doctor --fix`: an exemption, raced, and not a case of this property.
Lock == INSTANCE ExclusiveLock WITH owners <- Holding, broken <- raced
LockSpec == Lock!Spec
=============================================================================
