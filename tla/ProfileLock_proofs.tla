------------------------- MODULE ProfileLock_proofs -------------------------
(***************************************************************************)
(* The lock file of a profile for any number of processes: types, why a     *)
(* session is refused, exclusion, and that sessions implement the abstract  *)
(* lock of ExclusiveLock.                                                   *)
(***************************************************************************)
EXTENDS ProfileLock, TLAPS

\* The changes of the file and of what is known of it, a disjunct per kind of step.
Actions(p) ==
  \/ Start(p) \/ Die(p)
  \/ (Session(p) \/ Command(p)) /\ UNCHANGED starts

LEMMA NextActions == Next <=> (\E p \in Procs : Actions(p)) /\ NoteCause
BY DEF Next, Step, Actions

-----------------------------------------------------------------------------
(* Types.                                                                  *)

\* The points at which a process compares the PID it has read.
Compares == {"check", "reread", "recheck", "clean", "unlockCheck", "doctorCheck"}
SeenOK == \A p \in Procs : pc[p] \in Compares => seen[p] \in Procs

Typed ==
  /\ file \in Files /\ pc \in [Procs -> Points] /\ seen \in [Procs -> Files]
  /\ starts \in 0 .. MaxStarts
  /\ overtaken \in [Procs -> BOOLEAN] /\ raced \in BOOLEAN
  /\ cause \in [Procs -> BOOLEAN]

LEMMA TypeParts == TypeOK <=> Typed /\ SeenOK
BY DEF TypeOK, Typed, SeenOK, Compares

LEMMA TypePartsNext == TypeOK' <=> Typed' /\ SeenOK'
BY DEF TypeOK, Typed, SeenOK, Compares

LEMMA GotoType ==
  ASSUME Typed, NEW p \in Procs, NEW q \in Points, Goto(p, q)
  PROVE  pc' \in [Procs -> Points]
BY DEF Typed, Goto

\* The rest of a step: the file and what is known of it.
Kept == /\ file' \in Files /\ seen' \in [Procs -> Files]
        /\ overtaken' \in [Procs -> BOOLEAN] /\ raced' \in BOOLEAN

LEMMA QuietType == Typed /\ Quiet => Kept
BY DEF Typed, Quiet, Kept

LEMMA LookType == ASSUME Typed, NEW p \in Procs, Look(p) PROVE Kept
BY DEF Typed, Look, Kept

LEMMA ChangeType ==
  ASSUME Typed, NEW p \in Procs, NEW f \in Files, Change(p, f), UNCHANGED <<seen, raced>>
  PROVE  Kept
BY DEF Typed, Change, Kept

LEMMA RemoveType == ASSUME Typed, NEW p \in Procs, RemoveLooked(p) PROVE Kept
BY DEF Typed, RemoveLooked, Change, Kept, Files

LEMMA TypedStep == ASSUME Typed, SeenOK, Next PROVE Typed'
<1>1. PICK p \in Procs : Actions(p)
  BY NextActions
<1>2. cause' \in [Procs -> BOOLEAN]
  BY NextActions DEF NoteCause
<1>3. ASSUME Kept, NEW q \in Points, Goto(p, q), UNCHANGED starts
      PROVE  Typed'
  BY <1>2, <1>3, GotoType DEF Typed, Kept
<1>4. Absent \in Files /\ Partial \in Files /\ p \in Files
  BY DEF Files
<1> USE DEF Points, SessionPoints, CommandPoints
<1>5. CASE Start(p)
  <2>1. starts' \in 0 .. MaxStarts
    BY <1>5, ConstantsAssumption DEF Start, Typed
  <2>2. pc' \in [Procs -> Points]
    BY <1>5, GotoType DEF Start
  <2> QED
    BY <1>2, <1>4, <1>5, <2>1, <2>2 DEF Start, Typed
<1>6. CASE Die(p)
  BY <1>3, <1>6, QuietType DEF Die
<1>7. CASE LockWithCleanup(p) /\ UNCHANGED starts
  <2>1. CASE ReadInfo(p)
    <3>1. AfterInfo("check") \in Points
      BY DEF AfterInfo
    <3> QED
      BY <1>3, <1>7, <2>1, <3>1, LookType DEF ReadInfo
  <2>2. CASE Check(p)
    BY <1>3, <1>7, <2>2, QuietType DEF Check
  <2>3. CASE Reread(p)
    <3>1. AfterInfo(IF file = seen[p] THEN "recheck" ELSE "create") \in Points
      BY DEF AfterInfo
    <3> QED
      BY <1>3, <1>7, <2>3, <3>1, LookType DEF Reread
  <2>4. CASE Recheck(p)
    BY <1>3, <1>7, <2>4, QuietType DEF Recheck
  <2>5. CASE Clean(p)
    BY <1>3, <1>7, <2>5, RemoveType DEF Clean
  <2>6. CASE Create(p)
    BY <1>3, <1>4, <1>7, <2>6, QuietType, ChangeType DEF Create
  <2>7. CASE Write(p)
    <3>1. Kept
      BY <1>4, <2>7, ChangeType DEF Write
    <3> QED
      BY <1>3, <1>7, <2>7, <3>1 DEF Write
  <2> QED
    BY <1>7, <2>1, <2>2, <2>3, <2>4, <2>5, <2>6, <2>7 DEF LockWithCleanup
<1>8. CASE SessionEnds(p) /\ UNCHANGED starts
  BY <1>3, <1>8, QuietType DEF SessionEnds
<1>9. CASE Unlock(p) /\ UNCHANGED starts
  <2>1. Kept
    BY <1>4, <1>9, ChangeType DEF Unlock, Kept, Typed
  <2> QED
    BY <1>3, <1>9, <2>1 DEF Unlock
<1>10. CASE Command(p) /\ UNCHANGED starts
  <2>1. CASE UnlockRead(p)
    BY <1>3, <1>10, <2>1, LookType DEF UnlockRead
  <2>2. CASE DoctorRead(p)
    <3> DEFINE q == CASE file = Partial -> "dead"
                      [] file = Absent -> "remove"
                      [] OTHER -> "doctorCheck"
    <3>1. q \in Points
      BY DEF Points
    <3>2. Goto(p, q) /\ Look(p)
      BY <2>2 DEF DoctorRead
    <3> QED
      BY <1>3, <1>10, <3>1, <3>2, LookType
  <2>3. CASE UnlockCheck(p) \/ DoctorStat(p) \/ DoctorCheck(p)
    BY <1>3, <1>10, <2>3, QuietType DEF UnlockCheck, DoctorStat, DoctorCheck
  <2>4. CASE Remove(p)
    BY <1>3, <1>10, <2>4, RemoveType DEF Remove
  <2> QED
    BY <1>10, <2>1, <2>2, <2>3, <2>4 DEF Command
<1> QED
  BY <1>1, <1>5, <1>6, <1>7, <1>8, <1>9, <1>10 DEF Actions, Session

LEMMA SeenStep == ASSUME Typed, SeenOK, Next PROVE SeenOK'
<1>1. PICK p \in Procs : Actions(p)
  BY NextActions
<1> USE DEF SeenOK, Compares, Typed, Goto
<1>3. CASE Start(p)
  BY <1>3 DEF Start
<1>4. CASE Die(p)
  BY <1>4 DEF Die, Quiet
<1>5. CASE ReadInfo(p) \/ Reread(p)
  BY <1>5 DEF ReadInfo, Reread, Look, AfterInfo, Files
<1>6. CASE Check(p) \/ Recheck(p) \/ Clean(p) \/ Create(p) \/ Write(p)
  BY <1>6 DEF Check, Recheck, Clean, Create, Write, Quiet, RemoveLooked
<1>7. CASE SessionEnds(p) \/ Unlock(p)
  BY <1>7 DEF SessionEnds, Unlock, Quiet
<1>8. CASE UnlockRead(p) \/ DoctorRead(p)
  BY <1>8 DEF UnlockRead, DoctorRead, Look, Files
<1>9. CASE UnlockCheck(p) \/ DoctorStat(p) \/ DoctorCheck(p) \/ Remove(p)
  BY <1>9 DEF UnlockCheck, DoctorStat, DoctorCheck, Remove, Quiet, RemoveLooked
<1> QED
  BY <1>1, <1>3, <1>4, <1>5, <1>6, <1>7, <1>8, <1>9 DEF Actions, Session, LockWithCleanup, Command

\* Every reachable state is well typed, and a process that compares PIDs has read one.
THEOREM TypeCorrect == Spec => []TypeOK
<1>1. Init => TypeOK
  <2> SUFFICES ASSUME Init PROVE Typed /\ SeenOK
    BY TypeParts
  <2>1. file \in Files /\ pc \in [Procs -> Points] /\ seen \in [Procs -> Files]
    BY DEF Init, Files, Points
  <2>2. starts \in 0 .. MaxStarts
    BY ConstantsAssumption DEF Init
  <2>3. overtaken \in [Procs -> BOOLEAN] /\ raced \in BOOLEAN /\ cause \in [Procs -> BOOLEAN]
    BY DEF Init
  <2>4. SeenOK
    BY DEF Init, SeenOK, Compares
  <2> QED
    BY <2>1, <2>2, <2>3, <2>4 DEF Typed
<1>2. TypeOK /\ [Next]_vars => TypeOK'
  <2>1. CASE Next
    BY <2>1, TypeParts, TypePartsNext, TypedStep, SeenStep
  <2>2. CASE UNCHANGED vars
    BY <2>2 DEF vars, TypeOK
  <2> QED
    BY <2>1, <2>2
<1> QED
  BY <1>1, <1>2, PTL DEF Spec
-----------------------------------------------------------------------------
(* Exclusion.  A process that has looked and was not overtaken still knows  *)
(* the file; a cleaner that knows the file removes it while nobody holds    *)
(* the profile.  The PID of the file it removes may be that of a new        *)
(* process, but not of one that holds the profile: that one would have      *)
(* created the file anew.                                                   *)

Looks == {"check", "reread", "recheck", "clean", "unlockCheck", "doctorCheck", "remove"}
Knows == \A p \in Procs : pc[p] \in Looks /\ ~overtaken[p] => file = seen[p]

OneHolder == \A p, q \in Holding : p = q
OwnFile == \A p \in Procs : /\ pc[p] \in {"run", "unlock"} => file = p
                            /\ pc[p] = "write" => file = Partial
NothingToLose == \A p \in Procs : pc[p] \in {"clean", "remove"} /\ ~overtaken[p] => Holding = {}

Excl == ~raced => OneHolder /\ OwnFile /\ NothingToLose

LEMMA ExclImplies == Excl => Exclusive
BY DEF Excl, Exclusive, OneHolder, OwnFile

LEMMA KnowsStep == ASSUME Typed, Knows, Next PROVE Knows'
<1>1. PICK p \in Procs : Actions(p)
  BY NextActions
<1> USE DEF Knows, Looks, Typed, Goto
<1>2. CASE Start(p)
  BY <1>2 DEF Start
<1>3. CASE Die(p)
  BY <1>3 DEF Die, Quiet
<1>4. CASE ReadInfo(p) \/ Reread(p)
  BY <1>4 DEF ReadInfo, Reread, Look
<1>5. CASE Check(p) \/ Recheck(p)
  BY <1>5 DEF Check, Recheck, Quiet
<1>6. CASE Clean(p) \/ Remove(p)
  BY <1>6 DEF Clean, Remove, RemoveLooked, Change
<1>7. CASE Create(p) \/ Write(p)
  BY <1>7 DEF Create, Write, Quiet, Change
<1>8. CASE SessionEnds(p) \/ Unlock(p)
  BY <1>8 DEF SessionEnds, Unlock, Quiet, Change
<1>9. CASE UnlockRead(p) \/ DoctorRead(p)
  BY <1>9 DEF UnlockRead, DoctorRead, Look
<1>10. CASE UnlockCheck(p) \/ DoctorStat(p) \/ DoctorCheck(p)
  BY <1>10 DEF UnlockCheck, DoctorStat, DoctorCheck, Quiet
<1> QED
  BY <1>1, <1>2, <1>3, <1>4, <1>5, <1>6, <1>7, <1>8, <1>9, <1>10
  DEF Actions, Session, LockWithCleanup, Command

\* A file that is a living holder's, or half written, is the only thing a holder leaves.
LEMMA HeldFile ==
  ASSUME Typed, OwnFile, NEW f \in Files, file = f, f # Partial,
         f \in Procs => ~IsProcessAlive(f)
  PROVE  Holding = {}
BY ConstantsAssumption DEF OwnFile, Holding, IsProcessAlive, Typed

\* A step that leaves the file alone and gives nobody the profile or a licence to remove.
LEMMA Harmless ==
  ASSUME Typed, Excl, NEW p \in Procs, NEW q \in Points, Goto(p, q),
         UNCHANGED <<file, raced>>,
         \A r \in Procs \ {p} : overtaken'[r] = overtaken[r],
         q \in {"write", "run", "unlock"} => pc[p] = "run" /\ q = "unlock",
         q \in {"clean", "remove"} => (~overtaken'[p] /\ ~raced => Holding = {})
  PROVE  Excl'
BY DEF Typed, Excl, Goto, OneHolder, OwnFile, NothingToLose, Holding

\* A holder that dies leaves its file behind; the others keep theirs.
LEMMA Removed ==
  ASSUME Typed, Excl, NEW p \in Procs, NEW q \in Points, Goto(p, q), file' = Absent,
         q \in {"create", "dead"},
         raced' = raced, ~raced => Holding \subseteq {p},
         \A r \in Procs \ {p} : overtaken[r] => overtaken'[r]
  PROVE  Excl'
BY DEF Typed, Excl, Goto, OneHolder, OwnFile, NothingToLose, Holding

LEMMA ExclStep == ASSUME Typed, SeenOK, Knows, Excl, Next PROVE Excl'
<1>1. PICK p \in Procs : Actions(p)
  BY NextActions
<1>2. IsProcessAlive(seen[p]) \/ overtaken[p] \/ raced \/ Holding = {}
      \/ pc[p] \notin Compares
  BY HeldFile, ConstantsAssumption DEF Knows, Looks, Compares, SeenOK, Excl, Typed
<1> USE DEF Points, SessionPoints, CommandPoints
<1>3. CASE Start(p)
  <2>1. PICK q \in {"read", "unlockRead", "doctorStat", "other"} : Goto(p, q)
    BY <1>3 DEF Start
  <2>2. \A r \in Procs \ {p} : overtaken'[r] = overtaken[r]
    BY <1>3 DEF Start, Typed
  <2> QED
    BY <1>3, <2>1, <2>2, Harmless DEF Start
<1>4. CASE Die(p)
  BY <1>4, Harmless DEF Die, Quiet
<1>5. CASE ReadInfo(p)
  <2>1. AfterInfo("check") \in {"refused", "create", "check"}
    BY DEF AfterInfo
  <2> QED
    BY <1>5, <2>1, Harmless DEF ReadInfo, Look, Typed
<1>6. CASE Reread(p)
  <2>1. AfterInfo(IF file = seen[p] THEN "recheck" ELSE "create") \in {"refused", "create", "recheck"}
    BY DEF AfterInfo
  <2> QED
    BY <1>6, <2>1, Harmless DEF Reread, Look, Typed
<1>7. CASE Check(p) \/ SessionEnds(p) \/ DoctorStat(p)
  BY <1>7, Harmless DEF Check, SessionEnds, DoctorStat, Quiet
<1>8. CASE Recheck(p) \/ UnlockCheck(p) \/ DoctorCheck(p)
  BY <1>2, <1>8, Harmless DEF Recheck, UnlockCheck, DoctorCheck, Quiet, Compares
<1>9. CASE Clean(p) \/ Remove(p)
  <2>1. CASE overtaken[p]
    BY <1>9, <2>1 DEF Clean, Remove, RemoveLooked, Excl
  <2>2. CASE ~overtaken[p]
    <3>1. raced' = raced
      BY <1>9, <2>2 DEF Clean, Remove, RemoveLooked, Typed
    <3>2. ~raced => Holding = {}
      BY <1>9, <2>2 DEF Clean, Remove, Excl, NothingToLose
    <3>3. file' = Absent /\ \A r \in Procs \ {p} : overtaken[r] => overtaken'[r]
      BY <1>9 DEF Clean, Remove, RemoveLooked, Change
    <3>4. Goto(p, "create") \/ Goto(p, "dead")
      BY <1>9 DEF Clean, Remove
    <3> QED
      BY <3>1, <3>2, <3>3, <3>4, Removed
  <2> QED
    BY <2>1, <2>2
<1>10. CASE Create(p)
  <2>1. CASE file = Absent
    <3>1. ~raced => Holding = {}
      BY <2>1, HeldFile, ConstantsAssumption DEF Excl, Files
    <3> QED
      BY <1>10, <2>1, <3>1, ZenonT(30)
      DEF Create, Change, Goto, Typed, Excl, OneHolder, OwnFile, NothingToLose, Holding
  <2>2. CASE file # Absent
    BY <1>10, <2>2, Harmless DEF Create, Quiet
  <2> QED
    BY <2>1, <2>2
<1>11. CASE Write(p) \/ Unlock(p)
  <2>1. ~raced => Holding = {p}
    BY <1>11 DEF Write, Unlock, Excl, OneHolder, Holding
  <2>2. raced' = raced
    BY <1>11 DEF Write, Unlock
  <2>3. CASE Goto(p, "run") /\ Change(p, p)
    BY <2>1, <2>2, <2>3
    DEF Change, Goto, Typed, Excl, OneHolder, OwnFile, NothingToLose, Holding
  <2>4. CASE Goto(p, "dead") /\ file' = Absent
    <3>1. \A r \in Procs \ {p} : overtaken[r] => overtaken'[r]
      BY <1>11 DEF Write, Unlock, Change
    <3> QED
      BY <2>1, <2>2, <2>4, <3>1, Removed
  <2> QED
    BY <1>11, <2>3, <2>4 DEF Write, Unlock, Change
<1>12. CASE UnlockRead(p)
  BY <1>12, Harmless DEF UnlockRead, Look, Typed
<1>13. CASE DoctorRead(p)
  <2>1. file = Absent => raced \/ Holding = {}
    BY HeldFile, ConstantsAssumption DEF Excl, Files
  <2>2. PICK q \in {"dead", "remove", "doctorCheck"} :
          Goto(p, q) /\ (q = "remove" => file = Absent)
    BY <1>13, ConstantsAssumption DEF DoctorRead
  <2> QED
    BY <1>13, <2>1, <2>2, Harmless DEF DoctorRead, Look, Typed
<1> QED
  BY <1>1, <1>3, <1>4, <1>5, <1>6, <1>7, <1>8, <1>9, <1>10, <1>11, <1>12, <1>13
  DEF Actions, Session, LockWithCleanup, Command

Inv == Typed /\ SeenOK /\ Knows /\ Excl

LEMMA InvInit == Init => Inv
<1> SUFFICES ASSUME Init PROVE Inv
  OBVIOUS
<1>1. Typed
  <2>1. file \in Files /\ pc \in [Procs -> Points] /\ seen \in [Procs -> Files]
    BY DEF Init, Files, Points
  <2>2. starts \in 0 .. MaxStarts
    BY ConstantsAssumption DEF Init
  <2>3. overtaken \in [Procs -> BOOLEAN] /\ raced \in BOOLEAN /\ cause \in [Procs -> BOOLEAN]
    BY DEF Init
  <2> QED
    BY <2>1, <2>2, <2>3 DEF Typed
<1>2. SeenOK /\ Knows
  BY DEF Init, SeenOK, Compares, Knows, Looks
<1>3. Excl
  BY DEF Init, Excl, OneHolder, OwnFile, NothingToLose, Holding
<1> QED
  BY <1>1, <1>2, <1>3 DEF Inv

LEMMA InvStep == Inv /\ [Next]_vars => Inv'
<1>1. ASSUME Inv, Next PROVE Inv'
  BY <1>1, TypedStep, SeenStep, KnowsStep, ExclStep DEF Inv
<1>2. ASSUME Inv, UNCHANGED vars PROVE Inv'
  BY <1>2 DEF vars, Inv, Typed, SeenOK, Knows, Excl, OneHolder, OwnFile, NothingToLose, Holding
<1> QED
  BY <1>1, <1>2

LEMMA Invariance == Spec => []Inv
BY InvInit, InvStep, PTL DEF Spec

\* The only way to two sessions of one profile is a file that changes between the last
\* look of a cleaner and its removal.
THEOREM Exclusion == Spec => []Exclusive
<1>1. Inv => Exclusive
  BY ExclImplies DEF Inv
<1> QED
  BY <1>1, Invariance, PTL
-----------------------------------------------------------------------------
(* Refinement of the abstract lock.                                        *)

\* The profile changes hands one process at a time: to a new owner when there is
\* none or the lock is broken, and away from an owner that ends.
LEMMA LockStep == ASSUME Inv, Next PROVE [Lock!Next]_(Lock!lockvars)
<1>1. PICK p \in Procs : Actions(p)
  BY NextActions
<1>2. Typed
  BY DEF Inv
<1> USE DEF Lock!lockvars
<1>3. ASSUME NEW q \in Points, Goto(p, q), pc[p] \notin {"write", "run", "unlock"},
             q \notin {"write", "run", "unlock"}
      PROVE  Holding' = Holding
  BY <1>2, <1>3 DEF Typed, Goto, Holding
<1>4. ASSUME Goto(p, "dead"), raced' = raced
      PROVE  [Lock!Next]_(Lock!lockvars)
  <2>1. Holding' = Holding \ {p}
    BY <1>2, <1>4 DEF Typed, Goto, Holding
  <2> QED
    BY <1>4, <2>1 DEF Lock!Next, Lock!Release
<1>5. ASSUME Holding' = Holding, raced' = raced
      PROVE  [Lock!Next]_(Lock!lockvars)
  BY <1>5
<1> USE DEF Points, SessionPoints, CommandPoints
<1>6. CASE Start(p)
  BY <1>3, <1>5, <1>6 DEF Start
<1>7. CASE Die(p)
  BY <1>4, <1>7 DEF Die, Quiet
<1>8. CASE ReadInfo(p) \/ Reread(p) \/ UnlockRead(p) \/ DoctorRead(p)
  <2>1. PICK q \in {"refused", "create", "check", "recheck", "unlockCheck", "dead", "remove",
                    "doctorCheck"} : Goto(p, q)
    BY <1>8 DEF ReadInfo, Reread, UnlockRead, DoctorRead, AfterInfo
  <2>2. pc[p] \notin {"write", "run", "unlock"} /\ raced' = raced
    BY <1>8 DEF ReadInfo, Reread, UnlockRead, DoctorRead, Look
  <2> QED
    BY <1>3, <1>5, <2>1, <2>2
<1>9. CASE Check(p) \/ Recheck(p) \/ UnlockCheck(p) \/ DoctorStat(p) \/ DoctorCheck(p)
  BY <1>3, <1>5, <1>9 DEF Check, Recheck, UnlockCheck, DoctorStat, DoctorCheck, Quiet
<1>10. CASE Clean(p) \/ Remove(p)
  <2>1. Holding' = Holding
    BY <1>3, <1>10 DEF Clean, Remove
  <2>2. raced' = raced \/ raced' = TRUE
    BY <1>2, <1>10 DEF Clean, Remove, RemoveLooked, Typed
  <2> QED
    BY <1>5, <2>1, <2>2 DEF Lock!Next, Lock!Break
<1>11. CASE Create(p)
  <2>1. CASE file = Absent
    <3>1. Holding = {} \/ raced
      BY <2>1, HeldFile, ConstantsAssumption DEF Inv, Excl, Files
    <3>2. p \notin Holding /\ Holding' = Holding \cup {p} /\ raced' = raced
      BY <1>2, <1>11, <2>1 DEF Create, Goto, Holding, Typed
    <3> QED
      BY <1>2, <3>1, <3>2 DEF Lock!Next, Lock!Acquire, Typed
  <2>2. CASE file # Absent
    BY <1>3, <1>5, <1>11, <2>2 DEF Create, Quiet
  <2> QED
    BY <2>1, <2>2
<1>12. CASE Write(p)
  <2>1. CASE Goto(p, "run")
    <3>1. Holding' = Holding
      BY <1>2, <1>12, <2>1 DEF Write, Goto, Holding, Typed
    <3> QED
      BY <1>5, <1>12, <3>1 DEF Write
  <2> QED
    BY <1>4, <1>12, <2>1 DEF Write
<1>13. CASE SessionEnds(p)
  <2>1. Holding' = Holding
    BY <1>2, <1>13 DEF SessionEnds, Goto, Holding, Typed
  <2> QED
    BY <1>5, <1>13, <2>1 DEF SessionEnds, Quiet
<1>14. CASE Unlock(p)
  BY <1>4, <1>14 DEF Unlock
<1> QED
  BY <1>1, <1>6, <1>7, <1>8, <1>9, <1>10, <1>11, <1>12, <1>13, <1>14
  DEF Actions, Session, LockWithCleanup, Command

\* The sessions of a profile, with every command that removes its lock file, implement
\* the lock of ExclusiveLock.
THEOREM LockRefinement == Spec => LockSpec
<1>1. Init => Lock!Init
  BY DEF Init, Lock!Init, Holding
<1>2. Inv /\ [Next]_vars => [Lock!Next]_(Lock!lockvars)
  <2>1. CASE Next
    BY <2>1, LockStep
  <2>2. CASE UNCHANGED vars
    BY <2>2 DEF vars, Lock!lockvars, Holding
  <2> QED
    BY <2>1, <2>2
<1> QED
  BY <1>1, <1>2, Invariance, PTL DEF Spec, LockSpec, Lock!Spec

-----------------------------------------------------------------------------
(* Why a session is refused.  While no cause was noted, the file is what    *)
(* the session has read, or has gone.                                       *)

NoReasonYet == \A p \in Procs : pc[p] # "dead" /\ ~cause[p] => ~Reason
FileKept ==
  \A p \in Procs : ~cause[p] =>
    /\ pc[p] = "create" => file = Absent
    /\ pc[p] \in {"check", "reread", "recheck", "clean"} => file \in {seen[p], Absent}
Causes == NoReasonYet /\ FileKept /\ RefusedForCause

\* Only a process that is alive, or half way, puts something else in the file.
LEMMA FileSteps ==
  ASSUME Typed, NEW p \in Procs, Actions(p)
  PROVE  file' = file \/ file' = Absent \/ Reason'
<1>1. CASE Create(p)
  BY <1>1 DEF Create, Change, Quiet, Reason
<1>2. CASE Write(p)
  <2>1. CASE Goto(p, "run") /\ Change(p, p)
    <3>1. file' = p /\ pc'[p] = "run"
      BY <2>1 DEF Goto, Change, Typed
    <3> QED
      BY <3>1 DEF Reason, IsProcessAlive
  <2> QED
    BY <1>2, <2>1 DEF Write, Change
<1>3. CASE ~Create(p) /\ ~Write(p)
  BY <1>3
  DEF Actions, Session, LockWithCleanup, Command, Start, Die, ReadInfo, Check, Reread, Recheck,
      Clean, SessionEnds, Unlock, UnlockRead, UnlockCheck, DoctorStat, DoctorRead, DoctorCheck,
      Remove, Look, Quiet, RemoveLooked, Change
<1> QED
  BY <1>1, <1>2, <1>3

LEMMA CauseNext ==
  ASSUME Typed, NoReasonYet, Next
  PROVE  /\ \A p \in Procs : pc'[p] # "dead" /\ ~cause'[p] => ~cause[p] /\ ~Reason'
         /\ NoReasonYet'
<1>1. \A p \in Procs : cause'[p] = (pc'[p] # "dead" /\ (cause[p] \/ Reason'))
  BY NextActions DEF NoteCause
<1> QED
  BY <1>1 DEF NoReasonYet

LEMMA CausesStep == ASSUME Typed, SeenOK, Causes, Next PROVE Causes'
<1>1. PICK p \in Procs : Actions(p)
  BY NextActions
<1>2. NoReasonYet' /\ \A q \in Procs : pc'[q] # "dead" /\ ~cause'[q] => ~cause[q] /\ ~Reason'
  BY CauseNext DEF Causes
<1>3. file' = file \/ file' = Absent \/ Reason'
  BY <1>1, FileSteps
<1>4. \A q \in Procs \ {p} : pc'[q] = pc[q] /\ seen'[q] = seen[q]
  BY <1>1
  DEF Typed, Actions, Session, LockWithCleanup, Command, Start, Die, ReadInfo, Check, Reread,
      Recheck, Clean, Create, Write, SessionEnds, Unlock, UnlockRead, UnlockCheck, DoctorStat,
      DoctorRead, DoctorCheck, Remove, Look, Quiet, RemoveLooked, Change, Goto
<1>5. ASSUME NEW q \in Procs \ {p}, ~cause'[q]
      PROVE  /\ pc'[q] = "create" => file' = Absent
             /\ pc'[q] \in {"check", "reread", "recheck", "clean"} => file' \in {seen'[q], Absent}
             /\ pc'[q] # "refused"
  BY <1>2, <1>3, <1>4, <1>5 DEF Causes, FileKept, RefusedForCause
<1>6. ASSUME ~cause'[p]
      PROVE  /\ pc'[p] = "create" => file' = Absent
             /\ pc'[p] \in {"check", "reread", "recheck", "clean"} => file' \in {seen'[p], Absent}
             /\ pc'[p] # "refused"
  <2> SUFFICES ASSUME pc'[p] \in {"create", "check", "reread", "recheck", "clean", "refused"}
               PROVE  /\ pc'[p] = "create" => file' = Absent
                      /\ pc'[p] \in {"check", "reread", "recheck", "clean"} => file' \in {seen'[p], Absent}
                      /\ pc'[p] # "refused"
    OBVIOUS
  <2>1. ~cause[p] /\ ~Reason'
    BY <1>2, <1>6
  <2>2. /\ pc[p] = "create" => file = Absent
        /\ pc[p] \in {"check", "reread", "recheck", "clean"} => file \in {seen[p], Absent}
    BY <2>1 DEF Causes, FileKept
  <2>3. CASE ReadInfo(p)
    BY <2>1, <2>3 DEF ReadInfo, Look, AfterInfo, Goto, Typed, Reason
  <2>4. CASE Check(p) \/ Recheck(p)
    <3>1. IsProcessAlive(seen[p]) => IsProcessAlive(seen[p])'
      BY <2>4 DEF Check, Recheck, Quiet, Goto, Typed, IsProcessAlive, SeenOK, Compares
    <3>2. seen[p] \in Procs /\ file' = file /\ seen' = seen
      BY <2>4 DEF Check, Recheck, Quiet, SeenOK, Compares
    <3>3. IsProcessAlive(seen[p]) => file' = Absent
      BY <2>1, <2>2, <2>4, <3>1, <3>2 DEF Check, Recheck, Reason
    <3>4. pc'[p] = IF IsProcessAlive(seen[p]) THEN "create"
                   ELSE IF pc[p] = "check" THEN "reread" ELSE "clean"
      BY <2>4 DEF Check, Recheck, Goto, Typed
    <3> QED
      BY <2>2, <2>4, <3>2, <3>3, <3>4 DEF Check, Recheck
  <2>5. CASE Reread(p)
    BY <2>1, <2>2, <2>5 DEF Reread, Look, AfterInfo, Goto, Typed, Reason
  <2>6. CASE Clean(p)
    BY <2>6 DEF Clean, RemoveLooked, Change, Goto, Typed
  <2>7. CASE Create(p)
    BY <2>1, <2>2, <2>7 DEF Create, Goto, Typed
  <2>8. CASE Start(p) \/ Die(p) \/ Write(p) \/ SessionEnds(p) \/ Unlock(p) \/ Command(p)
    BY <2>8, ConstantsAssumption
    DEF Start, Die, Write, SessionEnds, Unlock, Command, UnlockRead, UnlockCheck, DoctorStat,
        DoctorRead, DoctorCheck, Remove, Goto, Typed
  <2> QED
    BY <1>1, <2>3, <2>4, <2>5, <2>6, <2>7, <2>8 DEF Actions, Session, LockWithCleanup
<1> QED
  BY <1>2, <1>5, <1>6 DEF Causes, FileKept, RefusedForCause

\* Nobody is turned away by the lock of a process that is gone.
THEOREM RefusalsHaveACause == Spec => []RefusedForCause
<1>1. Init => Causes
  BY ConstantsAssumption DEF Init, Causes, NoReasonYet, FileKept, RefusedForCause
<1>2. Inv /\ Causes /\ [Next]_vars => Causes'
  <2>1. ASSUME Inv, Causes, Next PROVE Causes'
    BY <2>1, CausesStep DEF Inv
  <2>2. ASSUME Causes, UNCHANGED vars PROVE Causes'
    BY <2>2 DEF vars, Causes, NoReasonYet, FileKept, RefusedForCause, Reason, IsProcessAlive
  <2> QED
    BY <2>1, <2>2
<1>3. Causes => RefusedForCause
  BY DEF Causes
<1> QED
  BY <1>1, <1>2, <1>3, Invariance, PTL DEF Spec
=============================================================================
