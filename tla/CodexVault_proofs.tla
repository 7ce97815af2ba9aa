-------------------------- MODULE CodexVault_proofs --------------------------
(***************************************************************************)
(* Type correctness of the vault, for any accounts, profiles, processes and  *)
(* bounds.  While commands do not overlap: a profile keeps its own account,  *)
(* and activate throws no login away.  With one profile per account as well: *)
(* no consumed token is presented, every saved copy is usable, and caam      *)
(* implements LoginKeeper.                                                   *)
(***************************************************************************)
EXTENDS CodexVault, TLAPS

\* A busy process works on a profile, never on "", and presents a real token.
WellFormed(job) ==
  /\ job \in Jobs
  /\ job.pc # "idle" => job.p \in Profiles \cup {System}
  /\ job.pc \in {"present", "update"} => job.tok \in Tokens
Busy == \A pr \in Procs : WellFormed(jobs[pr])
TInv == TypeOK /\ Busy

LEMMA NamesDiffer == Nobody \notin Profiles /\ System \notin Profiles /\ System # Nobody
BY ConstantsAssumption DEF Nobody, System

LEMMA NotAToken == NoToken \notin Tokens
BY DEF NoToken, Tokens

LEMMA IdleWellFormed == WellFormed(Idle)
BY DEF WellFormed, Idle, Jobs, Commands, Points, Files, NoToken, Nobody

LEMMA CopyType ==
  ASSUME TypeOK, NEW p \in Profiles \cup {System}
  PROVE  Copy(p) \in Files
BY NamesDiffer DEF TypeOK, Copy

LEMMA RestoreType ==
  ASSUME TypeOK, NEW p \in Profiles \cup {System}, Restore(p)
  PROVE  live' \in Files
BY CopyType DEF TypeOK, Restore

LEMMA RedeemType ==
  ASSUME TypeOK, issued < MaxIssued, NEW tk \in Tokens, Redeem(tk)
  PROVE  /\ issued' \in 0 .. MaxIssued
         /\ valid' \subseteq Tokens
         /\ revoked' \subseteq 1 .. MaxIssued
         /\ [tk EXCEPT !.t = issued + 1] \in Tokens
<1>1. issued + 1 \in 1 .. MaxIssued
  BY ConstantsAssumption DEF TypeOK
<1>2. [tk EXCEPT !.t = issued + 1] \in Tokens /\ tk.fam \in 1 .. MaxIssued
  BY <1>1 DEF Tokens
<1> QED
  BY <1>1, <1>2 DEF Redeem, TypeOK

LEMMA RotateType ==
  ASSUME NEW bs \in Seq(Files), Len(bs) <= MaxBackups, NEW tk \in Files
  PROVE  /\ RotateAutoBackups(Append(bs, tk)) \in Seq(Files)
         /\ Len(RotateAutoBackups(Append(bs, tk))) <= MaxBackups
<1> DEFINE cs == Append(bs, tk)
<1>1. cs \in Seq(Files) /\ Len(cs) = Len(bs) + 1 /\ Len(bs) \in Nat
  OBVIOUS
<1>2. CASE Len(cs) > MaxBackups
  <2>1. Len(cs) = MaxBackups + 1
    BY <1>1, <1>2, ConstantsAssumption
  <2>2. RotateAutoBackups(cs) = SubSeq(cs, 2, MaxBackups + 1)
    BY <1>2, <2>1, ConstantsAssumption DEF RotateAutoBackups
  <2>3. SubSeq(cs, 2, MaxBackups + 1) \in Seq(Files) /\ Len(SubSeq(cs, 2, MaxBackups + 1)) = MaxBackups
    BY <1>1, <2>1, ConstantsAssumption
  <2>4. RotateAutoBackups(cs) \in Seq(Files) /\ Len(RotateAutoBackups(cs)) = MaxBackups
    BY <2>2, <2>3
  <2> HIDE DEF cs
  <2>5. Len(RotateAutoBackups(cs)) <= MaxBackups
    BY <2>4, ConstantsAssumption
  <2> QED
    BY <2>4, <2>5 DEF cs
<1>3. CASE ~(Len(cs) > MaxBackups)
  BY <1>1, <1>3, ConstantsAssumption DEF RotateAutoBackups
<1> QED
  BY <1>2, <1>3

-----------------------------------------------------------------------------
(* What a step may do to the jobs.                                         *)

LEMMA SetJob ==
  ASSUME TInv, NEW pr \in Procs, NEW job, WellFormed(job),
         jobs' = [jobs EXCEPT ![pr] = job]
  PROVE  jobs' \in [Procs -> Jobs] /\ Busy'
BY DEF TInv, TypeOK, Busy, WellFormed

LEMMA EndType ==
  ASSUME TInv, NEW pr \in Procs, End(pr)
  PROVE  jobs' \in [Procs -> Jobs] /\ Busy'
BY SetJob, IdleWellFormed DEF End

LEMMA GoType ==
  ASSUME TInv, NEW pr \in Procs, jobs[pr].pc # "idle",
         NEW pc \in Points \ {"idle", "present", "update"}, Go(pr, pc)
  PROVE  jobs' \in [Procs -> Jobs] /\ Busy'
<1> DEFINE job == [jobs[pr] EXCEPT !.pc = pc]
<1>1. WellFormed(jobs[pr]) /\ jobs \in [Procs -> Jobs]
  BY DEF TInv, TypeOK, Busy
<1>2. WellFormed(job)
  BY <1>1 DEF WellFormed, Jobs
<1>3. jobs' = [jobs EXCEPT ![pr] = job]
  BY DEF Go
<1> QED
  BY <1>2, <1>3, SetJob

LEMMA ReturnType ==
  ASSUME TInv, NEW pr \in Procs, jobs[pr].pc # "idle", Return(pr)
  PROVE  jobs' \in [Procs -> Jobs] /\ Busy'
BY GoType, EndType DEF Return, Points

LEMMA SameJobs ==
  ASSUME TInv, UNCHANGED jobs
  PROVE  jobs' \in [Procs -> Jobs] /\ Busy'
BY DEF TInv, TypeOK, Busy, WellFormed

LEMMA BackupType ==
  ASSUME TypeOK, NEW p \in Profiles, Backup(p)
  PROVE  vault' \in [Profiles -> Files]
BY DEF TypeOK, Backup

-----------------------------------------------------------------------------
(* Every action keeps TInv.                                                *)

LEMMA TInvInit == Init => TInv
<1> SUFFICES ASSUME Init PROVE TInv
  OBVIOUS
<1>1. NoToken \in Files
  BY DEF Files
<1>2. TypeOK
  BY <1>1, IdleWellFormed, ConstantsAssumption DEF Init, TypeOK, WellFormed
<1>3. Busy
  BY IdleWellFormed DEF Init, Busy
<1> QED
  BY <1>2, <1>3 DEF TInv

\* The environment: codex, the user, a signal.
LEMMA RotateKeeps == TInv /\ Rotate => TInv'
<1> SUFFICES ASSUME TInv, Rotate PROVE TInv'
  OBVIOUS
<1>1. live \in Tokens /\ TypeOK /\ issued < MaxIssued /\ Redeem(live)
  BY DEF TInv, TypeOK, Rotate, Files
<1>2. live' \in Files
  BY <1>1, RedeemType DEF Rotate, Files
<1>3. jobs' \in [Procs -> Jobs] /\ Busy'
  BY SameJobs DEF Rotate
<1> QED
  BY <1>1, <1>2, <1>3, RedeemType DEF TInv, TypeOK, Rotate

LEMMA LoginKeeps ==
  ASSUME TInv, NEW a \in Accounts, Login(a)
  PROVE  TInv'
<1>1. issued + 1 \in 1 .. MaxIssued
  BY ConstantsAssumption DEF TInv, TypeOK, Login
<1>2. [acct |-> a, fam |-> issued + 1, t |-> issued + 1] \in Tokens
  BY <1>1 DEF Tokens
<1>3. jobs' \in [Procs -> Jobs] /\ Busy'
  BY SameJobs DEF Login
<1> QED
  BY <1>1, <1>2, <1>3 DEF TInv, TypeOK, Login, Files

LEMMA SaveKeeps ==
  ASSUME TInv, NEW pr \in Procs, NEW p \in Profiles, Save(pr, p)
  PROVE  TInv'
<1>1. jobs' \in [Procs -> Jobs] /\ Busy'
  BY SameJobs DEF Save
<1>2. vault' \in [Profiles -> Files]
  BY BackupType DEF Save, TInv
<1> QED
  BY <1>1, <1>2 DEF TInv, TypeOK, Save, idp

LEMMA ClearKeeps ==
  ASSUME TInv, NEW pr \in Procs, Clear(pr)
  PROVE  TInv'
<1>1. jobs' \in [Procs -> Jobs] /\ Busy'
  BY SameJobs DEF Clear
<1> QED
  BY <1>1 DEF TInv, TypeOK, Clear, idp, Files

LEMMA FilesUntouched ==
  ASSUME TInv, UNCHANGED <<files, idp>>, jobs' \in [Procs -> Jobs], Busy'
  PROVE  TInv'
BY DEF TInv, TypeOK, files, idp

LEMMA KillKeeps ==
  ASSUME TInv, NEW pr \in Procs, Kill(pr)
  PROVE  TInv'
BY EndType, FilesUntouched DEF Kill

\* A command starts.
LEMMA TargetsNamed == Targets \subseteq Profiles \cup {System}
BY DEF Targets

LEMMA OutgoingNamed == ActiveProfile \in Profiles \cup {Nobody, System}
<1>1. Matching \in SUBSET Profiles
  BY DEF Matching
<1>2. Matching # {} => (CHOOSE p \in Matching : \A q \in Matching : p <= q) \in Matching
  BY <1>1, ListAssumption
<1> QED
  BY <1>1, <1>2 DEF ActiveProfile

LEMMA StartActivateKeeps ==
  ASSUME TInv, NEW pr \in Procs, NEW p \in Targets, StartActivate(pr, p)
  PROVE  TInv'
<1> DEFINE job == [Idle EXCEPT !.cmd = "activate", !.pc = "original", !.p = p]
<1>1. WellFormed(job)
  BY IdleWellFormed, TargetsNamed DEF WellFormed, Jobs, Commands, Points, Idle
<1> QED
  BY <1>1, SetJob, FilesUntouched DEF StartActivate, Begin

LEMMA StartNextKeeps ==
  ASSUME TInv, NEW pr \in Procs, NEW p \in Profiles, StartNext(pr, p)
  PROVE  TInv'
<1> DEFINE job == [Idle EXCEPT !.cmd = "next", !.pc = "resnap", !.p = p,
                               !.out = ActiveProfile]
<1>1. WellFormed(job)
  BY IdleWellFormed, TargetsNamed, OutgoingNamed
  DEF WellFormed, Jobs, Commands, Points, Idle
<1> QED
  BY <1>1, SetJob, FilesUntouched DEF StartNext, Begin

LEMMA RefreshedCopy ==
  ASSUME TypeOK, NEW p \in Profiles \cup {System}, Refreshable(p)
  PROVE  Copy(p) \in Tokens /\ Snapshot(p) \in Files
BY CopyType DEF Refreshable, Snapshot, Files

LEMMA StartRefreshKeeps ==
  ASSUME TInv, NEW pr \in Procs, NEW p \in Targets, StartRefresh(pr, p)
  PROVE  TInv'
<1> DEFINE job == [Idle EXCEPT !.cmd = "refresh", !.pc = "present", !.p = p,
                               !.snap = Snapshot(p), !.tok = Copy(p)]
<1>1. Copy(p) \in Tokens /\ Snapshot(p) \in Files
  BY RefreshedCopy, TargetsNamed DEF StartRefresh, TInv
<1>2. WellFormed(job)
  BY <1>1, IdleWellFormed, TargetsNamed DEF WellFormed, Jobs, Commands, Points, Idle, Files
<1> QED
  BY <1>2, SetJob, FilesUntouched DEF StartRefresh, Begin

\* The steps of a command.
LEMMA BackupOriginalKeeps ==
  ASSUME TInv, NEW pr \in Procs, BackupOriginal(pr)
  PROVE  TInv'
<1>1. jobs' \in [Procs -> Jobs] /\ Busy'
  BY GoType DEF BackupOriginal, At, Points
<1> QED
  BY <1>1 DEF TInv, TypeOK, BackupOriginal, idp

LEMMA RefreshTargetKeeps ==
  ASSUME TInv, NEW pr \in Procs, RefreshTarget(pr)
  PROVE  TInv'
<1> DEFINE p == jobs[pr].p
           job == [jobs[pr] EXCEPT !.pc = "present", !.snap = Snapshot(p), !.tok = Copy(p)]
<1>1. WellFormed(jobs[pr]) /\ jobs[pr].pc = "choose"
  BY DEF TInv, Busy, RefreshTarget, At
<1>2. p \in Profiles \cup {System}
  BY <1>1 DEF WellFormed
<1>3. Copy(p) \in Tokens /\ Snapshot(p) \in Files
  BY <1>2, RefreshedCopy DEF RefreshTarget, TInv
<1>4. WellFormed(job)
  BY <1>1, <1>2, <1>3 DEF WellFormed, Jobs, Points, Files
<1>5. jobs' = [jobs EXCEPT ![pr] = job]
  BY DEF RefreshTarget
<1> QED
  BY <1>4, <1>5, SetJob, FilesUntouched DEF RefreshTarget

LEMMA NoRefreshKeeps ==
  ASSUME TInv, NEW pr \in Procs, NoRefresh(pr)
  PROVE  TInv'
BY GoType, FilesUntouched DEF NoRefresh, At, Points

LEMMA PresentKeeps ==
  ASSUME TInv, NEW pr \in Procs, Present(pr)
  PROVE  TInv'
<1> DEFINE tk == jobs[pr].tok
           new == [tk EXCEPT !.t = issued + 1]
           job == [jobs[pr] EXCEPT !.pc = "update", !.tok = new]
<1>1. WellFormed(jobs[pr]) /\ jobs[pr].pc = "present" /\ TypeOK /\ issued < MaxIssued
  BY DEF TInv, Busy, Present, At
<1>2. tk \in Tokens /\ Redeem(tk)
  BY <1>1 DEF WellFormed, Present
<1>3. /\ issued' \in 0 .. MaxIssued /\ valid' \subseteq Tokens
      /\ revoked' \subseteq 1 .. MaxIssued /\ new \in Tokens
  BY <1>1, <1>2, RedeemType
<1>4. WellFormed(job)
  BY <1>1, <1>3 DEF WellFormed, Jobs, Points, Files
<1>5. CASE tk \in valid
  <2>1. jobs' = [jobs EXCEPT ![pr] = job]
    BY <1>5 DEF Present
  <2>2. jobs' \in [Procs -> Jobs] /\ Busy'
    BY <1>4, <2>1, SetJob
  <2> QED
    BY <1>3, <2>2 DEF TInv, TypeOK, Present, files
<1>6. CASE tk \notin valid
  <2>1. jobs' \in [Procs -> Jobs] /\ Busy'
    BY <1>1, <1>6, ReturnType DEF Present
  <2> QED
    BY <1>3, <2>1 DEF TInv, TypeOK, Present, files
<1> QED
  BY <1>5, <1>6

LEMMA UpdateCodexAuthKeeps ==
  ASSUME TInv, NEW pr \in Procs, UpdateCodexAuth(pr)
  PROVE  TInv'
<1>1. WellFormed(jobs[pr]) /\ jobs[pr].pc = "update"
  BY DEF TInv, Busy, UpdateCodexAuth, At
<1>2. jobs[pr].tok \in Files /\ jobs[pr].p \in Profiles \cup {System}
  BY <1>1 DEF WellFormed, Files
<1>3. jobs' \in [Procs -> Jobs] /\ Busy'
  BY <1>1, GoType, ReturnType DEF UpdateCodexAuth, Points
<1> QED
  BY <1>2, <1>3 DEF TInv, TypeOK, UpdateCodexAuth, idp

LEMMA RecheckKeeps ==
  ASSUME TInv, NEW pr \in Procs, Recheck(pr)
  PROVE  TInv'
<1>1. jobs' \in [Procs -> Jobs] /\ Busy'
  BY GoType, ReturnType DEF Recheck, At, Points
<1> QED
  BY <1>1, FilesUntouched DEF Recheck

LEMMA PutBackKeeps ==
  ASSUME TInv, NEW pr \in Procs, PutBack(pr)
  PROVE  TInv'
<1>1. jobs[pr].p \in Profiles \cup {System}
  BY DEF TInv, Busy, WellFormed, PutBack, At
<1>2. live' \in Files
  BY <1>1, RestoreType DEF PutBack, TInv
<1>3. jobs' \in [Procs -> Jobs] /\ Busy'
  BY ReturnType DEF PutBack, At
<1> QED
  BY <1>2, <1>3 DEF TInv, TypeOK, PutBack, idp

LEMMA BackupBeforeSwitchKeeps ==
  ASSUME TInv, NEW pr \in Procs, BackupBeforeSwitch(pr)
  PROVE  TInv'
<1>1. jobs' \in [Procs -> Jobs] /\ Busy'
  BY GoType DEF BackupBeforeSwitch, At, Points
<1>2. backups' \in Seq(Files) /\ Len(backups') <= MaxBackups
  BY RotateType DEF TInv, TypeOK, BackupBeforeSwitch, BackupCurrent
<1> QED
  BY <1>1, <1>2 DEF TInv, TypeOK, BackupBeforeSwitch, idp

LEMMA ResnapshotKeeps ==
  ASSUME TInv, NEW pr \in Procs, Resnapshot(pr)
  PROVE  TInv'
<1>1. jobs' \in [Procs -> Jobs] /\ Busy'
  BY GoType DEF Resnapshot, At, Points
<1>2. vault' \in [Profiles -> Files]
  BY BackupType DEF TInv, TypeOK, Resnapshot, ResnapshotOutgoing
<1> QED
  BY <1>1, <1>2 DEF TInv, TypeOK, Resnapshot, idp

LEMMA RestoreTargetKeeps ==
  ASSUME TInv, NEW pr \in Procs, RestoreTarget(pr)
  PROVE  TInv'
<1>1. jobs[pr].p \in Profiles \cup {System}
  BY DEF TInv, Busy, WellFormed, RestoreTarget, At
<1>2. live' \in Files
  BY <1>1, RestoreType DEF RestoreTarget, TInv
<1>3. jobs' \in [Procs -> Jobs] /\ Busy'
  BY EndType DEF RestoreTarget
<1> QED
  BY <1>2, <1>3 DEF TInv, TypeOK, RestoreTarget, idp

LEMMA TInvStep == TInv /\ [Next]_vars => TInv'
<1> SUFFICES ASSUME TInv, [Next]_vars PROVE TInv'
  OBVIOUS
<1>1. CASE Rotate
  BY <1>1, RotateKeeps
<1>2. CASE \E a \in Accounts : Login(a)
  BY <1>2, LoginKeeps
<1>3. CASE \E pr \in Procs : Command(pr)
  BY <1>3, SaveKeeps, ClearKeeps, StartActivateKeeps, StartNextKeeps, StartRefreshKeeps
  DEF Command
<1>4. CASE \E pr \in Procs : Step(pr)
  BY <1>4, BackupOriginalKeeps, RefreshTargetKeeps, NoRefreshKeeps, PresentKeeps,
     UpdateCodexAuthKeeps, RecheckKeeps, PutBackKeeps, BackupBeforeSwitchKeeps,
     ResnapshotKeeps, RestoreTargetKeeps
  DEF Step
<1>5. CASE \E pr \in Procs : Kill(pr)
  BY <1>5, KillKeeps
<1>6. CASE UNCHANGED vars
  <2>1. jobs' \in [Procs -> Jobs] /\ Busy'
    BY <1>6, SameJobs DEF vars
  <2> QED
    BY <1>6, <2>1 DEF TInv, TypeOK, vars
<1> QED
  BY <1>1, <1>2, <1>3, <1>4, <1>5, <1>6 DEF Next

\* Every reachable state is well typed: a busy command works on a profile of
\* the vault, a refresh presents a real token, and the backups stay within
\* their limit whatever the command lines and the daemon do at once.
THEOREM VaultTypeCorrect == Spec => []TypeOK
<1>1. Spec => []TInv
  BY TInvInit, TInvStep, PTL DEF Spec
<1>2. TInv => TypeOK
  BY DEF TInv
<1> QED
  BY <1>1, <1>2, PTL

-----------------------------------------------------------------------------
(* OwnAccount.  Two facts make it inductive: a refresh in flight carries a   *)
(* token of its profile's account, and the profile next takes for the       *)
(* outgoing one is still the owner of the live account when it is written.  *)
(* The second needs that nobody changes the live account meanwhile.         *)

Alone == Quiet /\ \A a, b \in Procs : a = b

TokenOwned(job) ==
  job.pc \in {"present", "update"} /\ job.p \in Profiles => job.tok.acct = Owner[job.p]
OutgoingOwned(job, file) ==
  job.cmd = "next" /\ job.pc = "resnap" /\ job.out \in Profiles
    => file.acct = Owner[job.out]
\* next neither makes a backup nor refreshes.
ShortNext(job) == job.cmd = "next" => job.pc \in {"resnap", "restore"}
Fits(job, file) == TokenOwned(job) /\ OutgoingOwned(job, file) /\ ShortNext(job)
OInv == OwnAccount /\ \A pr \in Procs : Fits(jobs[pr], live)

LEMMA IdleFits == ASSUME NEW file PROVE Fits(Idle, file)
BY DEF Fits, TokenOwned, OutgoingOwned, ShortNext, Idle

\* A profile ActiveProfile returns holds the account of the live file.
LEMMA ActiveOwned ==
  ASSUME OwnAccount, ActiveProfile \in Profiles
  PROVE  live.acct = Owner[ActiveProfile]
<1>1. Matching \in SUBSET Profiles
  BY DEF Matching
<1>2. Matching # {} => (CHOOSE p \in Matching : \A q \in Matching : p <= q) \in Matching
  BY <1>1, ListAssumption
<1>3. ActiveProfile \in Matching
  BY <1>2, NamesDiffer DEF ActiveProfile
<1> QED
  BY <1>3 DEF Matching, OwnAccount

LEMMA BackupOwned ==
  ASSUME TypeOK, OwnAccount, NEW p \in Profiles, live.acct = Owner[p], Backup(p)
  PROVE  OwnAccount'
BY DEF TypeOK, OwnAccount, Backup

\* With one process, its new job is all there is to check.
LEMMA OneJob ==
  ASSUME Alone, TInv, NEW pr \in Procs, NEW job, jobs' = [jobs EXCEPT ![pr] = job],
         Fits(job, live'), OwnAccount'
  PROVE  OInv'
<1>1. \A q \in Procs : jobs'[q] = job
  BY DEF Alone, TInv, TypeOK
<1> QED
  BY <1>1 DEF OInv

LEMMA AllIdle ==
  ASSUME \A q \in Procs : jobs'[q] = Idle, OwnAccount'
  PROVE  OInv'
BY IdleFits DEF OInv

LEMMA OInvInit == Init => OInv
<1> SUFFICES ASSUME Init PROVE OInv
  OBVIOUS
<1> QED
  BY IdleFits DEF Init, OInv, OwnAccount

LEMMA OInvEnvironment ==
  ASSUME Alone, TInv, OInv, Rotate \/ \E a \in Accounts : Login(a)
  PROVE  OInv'
<1>1. CASE Rotate
  <2>1. live \in Tokens
    BY <1>1 DEF TInv, TypeOK, Rotate, Files
  <2>2. live'.acct = live.acct
    BY <1>1, <2>1 DEF Rotate, Tokens
  <2> QED
    BY <1>1, <2>2 DEF OInv, OwnAccount, Fits, OutgoingOwned, Rotate
<1>2. ASSUME NEW a \in Accounts, Login(a) PROVE OInv'
  <2>1. (\A pr \in Procs : jobs'[pr] = Idle) /\ OwnAccount'
    BY <1>2 DEF Alone, Login, OInv, OwnAccount
  <2> QED
    BY <2>1, AllIdle
<1> QED
  BY <1>1, <1>2

LEMMA OInvCommand ==
  ASSUME Alone, TInv, OInv, NEW pr \in Procs, Command(pr)
  PROVE  OInv'
<1>1. CASE Clear(pr)
  <2>1. (\A q \in Procs : jobs'[q] = Idle) /\ OwnAccount'
    BY <1>1 DEF Alone, Clear, OInv, OwnAccount
  <2> QED
    BY <2>1, AllIdle
<1>2. ASSUME NEW p \in Profiles, Save(pr, p) PROVE OInv'
  <2>1. OwnAccount'
    BY <1>2, BackupOwned DEF Save, TInv, OInv
  <2> QED
    BY <1>2, <2>1 DEF OInv, Save
<1>3. ASSUME NEW p \in Targets, StartActivate(pr, p) PROVE OInv'
  <2> DEFINE job == [Idle EXCEPT !.cmd = "activate", !.pc = "original", !.p = p]
  <2>1. Fits(job, live')
    BY DEF Fits, TokenOwned, OutgoingOwned, ShortNext, Idle
  <2>2. OwnAccount' /\ jobs' = [jobs EXCEPT ![pr] = job]
    BY <1>3 DEF OInv, OwnAccount, StartActivate, Begin, files
  <2> HIDE DEF job
  <2> QED
    BY <2>1, <2>2, OneJob
<1>4. ASSUME NEW p \in Profiles, StartNext(pr, p) PROVE OInv'
  <2> DEFINE job == [Idle EXCEPT !.cmd = "next", !.pc = "resnap", !.p = p,
                                 !.out = ActiveProfile]
  <2>1. OwnAccount' /\ jobs' = [jobs EXCEPT ![pr] = job] /\ live' = live
    BY <1>4 DEF OInv, OwnAccount, StartNext, Begin, files
  <2>2. ActiveProfile \in Profiles => live'.acct = Owner[ActiveProfile]
    BY <2>1, ActiveOwned DEF OInv
  <2>3. Fits(job, live')
    BY <2>2 DEF Fits, TokenOwned, OutgoingOwned, ShortNext, Idle
  <2> HIDE DEF job
  <2> QED
    BY <2>1, <2>3, OneJob
<1>5. ASSUME NEW p \in Targets, StartRefresh(pr, p) PROVE OInv'
  <2> DEFINE job == [Idle EXCEPT !.cmd = "refresh", !.pc = "present", !.p = p,
                                 !.snap = Snapshot(p), !.tok = Copy(p)]
  <2>1. p \in Profiles => Copy(p).acct = Owner[p]
    BY <1>5, NamesDiffer DEF StartRefresh, Refreshable, Copy, OInv, OwnAccount
  <2>2. Fits(job, live')
    BY <2>1 DEF Fits, TokenOwned, OutgoingOwned, ShortNext, Idle
  <2>3. OwnAccount' /\ jobs' = [jobs EXCEPT ![pr] = job]
    BY <1>5 DEF OInv, OwnAccount, StartRefresh, Begin, files
  <2> HIDE DEF job
  <2> QED
    BY <2>2, <2>3, OneJob
<1> QED
  BY <1>1, <1>2, <1>3, <1>4, <1>5 DEF Command

\* Steps to a point where nothing is to be shown of the job.
LEMMA EndFits ==
  ASSUME Alone, TInv, NEW pr \in Procs, OwnAccount', End(pr)
  PROVE  OInv'
BY OneJob, IdleFits DEF End

LEMMA GoFits ==
  ASSUME Alone, TInv, NEW pr \in Procs, OwnAccount',
         NEW pc \in {"choose", "backup", "recheck", "putback", "restore"},
         jobs[pr].cmd # "next" \/ pc = "restore", Go(pr, pc)
  PROVE  OInv'
<1> DEFINE job == [jobs[pr] EXCEPT !.pc = pc]
<1>1. jobs[pr] \in Jobs
  BY DEF TInv, TypeOK
<1>2. job.pc = pc /\ job.cmd = jobs[pr].cmd
  BY <1>1 DEF Jobs
<1>3. jobs' = [jobs EXCEPT ![pr] = job]
  BY DEF Go
<1> HIDE DEF job
<1>4. Fits(job, live')
  BY <1>2 DEF Fits, TokenOwned, OutgoingOwned, ShortNext
<1> QED
  BY <1>3, <1>4, OneJob

LEMMA ReturnFits ==
  ASSUME Alone, TInv, NEW pr \in Procs, OwnAccount', Return(pr)
  PROVE  OInv'
<1>1. CASE jobs[pr].cmd = "activate"
  BY <1>1, GoFits DEF Return
<1>2. CASE jobs[pr].cmd # "activate"
  BY <1>2, EndFits DEF Return
<1> QED
  BY <1>1, <1>2

LEMMA OInvPresent ==
  ASSUME Alone, TInv, OInv, NEW pr \in Procs, Present(pr)
  PROVE  OInv'
<1> DEFINE tk == jobs[pr].tok
           job == [jobs[pr] EXCEPT !.pc = "update", !.tok = [tk EXCEPT !.t = issued + 1]]
<1>1. /\ jobs[pr] \in Jobs /\ tk \in Tokens /\ jobs[pr].pc = "present"
      /\ Fits(jobs[pr], live) /\ OwnAccount'
  BY DEF TInv, TypeOK, Busy, WellFormed, Present, At, OInv, OwnAccount, files
<1>2. CASE tk \in valid
  <2>1. /\ job.tok.acct = tk.acct /\ job.p = jobs[pr].p /\ job.pc = "update"
        /\ job.cmd = jobs[pr].cmd
    BY <1>1 DEF Jobs, Tokens
  <2>2. jobs' = [jobs EXCEPT ![pr] = job]
    BY <1>2 DEF Present
  <2> HIDE DEF job
  <2>3. Fits(job, live')
    BY <1>1, <2>1 DEF Fits, TokenOwned, OutgoingOwned, ShortNext
  <2> QED
    BY <1>1, <2>2, <2>3, OneJob
<1>3. CASE tk \notin valid
  <2>1. Return(pr)
    BY <1>3 DEF Present
  <2> QED
    BY <1>1, <2>1, ReturnFits
<1> QED
  BY <1>2, <1>3

LEMMA OInvRefreshTarget ==
  ASSUME Alone, TInv, OInv, NEW pr \in Procs, RefreshTarget(pr)
  PROVE  OInv'
<1> DEFINE p == jobs[pr].p
           job == [jobs[pr] EXCEPT !.pc = "present", !.snap = Snapshot(p), !.tok = Copy(p)]
<1>1. jobs[pr] \in Jobs /\ Fits(jobs[pr], live) /\ jobs[pr].pc = "choose"
  BY DEF TInv, TypeOK, OInv, RefreshTarget, At
<1>2. job.pc = "present" /\ job.tok = Copy(p) /\ job.p = p /\ job.cmd = jobs[pr].cmd
  BY <1>1 DEF Jobs
<1>3. p \in Profiles => Copy(p).acct = Owner[p]
  BY NamesDiffer DEF RefreshTarget, Refreshable, Copy, OInv, OwnAccount
<1>4. OwnAccount' /\ jobs' = [jobs EXCEPT ![pr] = job]
  BY DEF RefreshTarget, OInv, OwnAccount, files
<1> HIDE DEF job
<1>5. Fits(job, live')
  BY <1>1, <1>2, <1>3 DEF Fits, TokenOwned, OutgoingOwned, ShortNext
<1> QED
  BY <1>4, <1>5, OneJob

LEMMA OInvBackupBeforeSwitch ==
  ASSUME Alone, TInv, OInv, NEW pr \in Procs, BackupBeforeSwitch(pr)
  PROVE  OInv'
<1> DEFINE job == [jobs[pr] EXCEPT !.pc = "resnap"]
<1>1. jobs[pr] \in Jobs /\ jobs[pr].cmd # "next"
  BY DEF TInv, TypeOK, OInv, Fits, ShortNext, BackupBeforeSwitch, At
<1>2. job.pc = "resnap" /\ job.cmd # "next"
  BY <1>1 DEF Jobs
<1>3. OwnAccount' /\ jobs' = [jobs EXCEPT ![pr] = job]
  BY DEF BackupBeforeSwitch, Go, OInv, OwnAccount
<1> HIDE DEF job
<1>4. Fits(job, live')
  BY <1>2 DEF Fits, TokenOwned, OutgoingOwned, ShortNext
<1> QED
  BY <1>3, <1>4, OneJob

LEMMA OInvResnapshot ==
  ASSUME Alone, TInv, OInv, NEW pr \in Procs, Resnapshot(pr)
  PROVE  OInv'
<1> DEFINE outgoing == IF jobs[pr].cmd = "next" THEN jobs[pr].out ELSE ActiveProfile
<1>1. outgoing \in Profiles => live.acct = Owner[outgoing]
  BY ActiveOwned DEF OInv, Fits, OutgoingOwned, Resnapshot, At
<1>2. ResnapshotOutgoing(outgoing, jobs[pr].p)
  BY DEF Resnapshot
<1> HIDE DEF outgoing
<1>3. OwnAccount'
  BY <1>1, <1>2, BackupOwned DEF ResnapshotOutgoing, OInv, OwnAccount, TInv
<1> QED
  BY <1>3, GoFits DEF Resnapshot

LEMMA OInvUpdate ==
  ASSUME Alone, TInv, OInv, NEW pr \in Procs, UpdateCodexAuth(pr)
  PROVE  OInv'
<1>1. /\ TokenOwned(jobs[pr]) /\ jobs[pr].pc = "update" /\ jobs[pr].cmd # "next"
      /\ jobs[pr].p \in Profiles \cup {System}
  BY DEF OInv, Fits, ShortNext, UpdateCodexAuth, At, TInv, Busy, WellFormed
<1>2. OwnAccount'
  BY <1>1 DEF TokenOwned, OInv, OwnAccount, UpdateCodexAuth, TInv, TypeOK
<1> QED
  BY <1>1, <1>2, GoFits, ReturnFits DEF UpdateCodexAuth

\* The steps that leave the vault alone.
LEMMA OInvQuietSteps ==
  ASSUME Alone, TInv, OInv, NEW pr \in Procs,
         \/ BackupOriginal(pr) \/ NoRefresh(pr) \/ Recheck(pr) \/ PutBack(pr)
         \/ RestoreTarget(pr) \/ Kill(pr)
  PROVE  OInv'
<1>1. OwnAccount'
  BY DEF OInv, OwnAccount, BackupOriginal, NoRefresh, Recheck, PutBack, RestoreTarget,
         Kill, files
<1>2. jobs[pr].pc \in {"original", "choose", "recheck"} => jobs[pr].cmd # "next"
  BY DEF OInv, Fits, ShortNext
<1>3. CASE BackupOriginal(pr)
  BY <1>1, <1>2, <1>3, GoFits DEF BackupOriginal, At
<1>4. CASE NoRefresh(pr)
  BY <1>1, <1>2, <1>4, GoFits DEF NoRefresh, At
<1>5. CASE Recheck(pr)
  BY <1>1, <1>2, <1>5, GoFits, ReturnFits DEF Recheck, At
<1>6. CASE PutBack(pr)
  BY <1>1, <1>6, ReturnFits DEF PutBack
<1>7. CASE RestoreTarget(pr) \/ Kill(pr)
  BY <1>1, <1>7, EndFits DEF RestoreTarget, Kill
<1> QED
  BY <1>3, <1>4, <1>5, <1>6, <1>7

LEMMA OInvStep == Alone /\ TInv /\ OInv /\ [Next]_vars => OInv'
<1> SUFFICES ASSUME Alone, TInv, OInv, [Next]_vars PROVE OInv'
  OBVIOUS
<1>1. CASE Rotate \/ \E a \in Accounts : Login(a)
  BY <1>1, OInvEnvironment
<1>2. CASE \E pr \in Procs : Command(pr)
  BY <1>2, OInvCommand
<1>3. CASE \E pr \in Procs : Step(pr) \/ Kill(pr)
  BY <1>3, OInvPresent, OInvRefreshTarget, OInvBackupBeforeSwitch, OInvResnapshot,
     OInvUpdate, OInvQuietSteps
  DEF Step
<1>4. CASE UNCHANGED vars
  BY <1>4 DEF OInv, OwnAccount, vars
<1> QED
  BY <1>1, <1>2, <1>3, <1>4 DEF Next

\* While one command runs at a time and nobody logs in during it, a profile
\* keeps the account saved under its name, for any profiles, accounts and
\* owners, wherever a switch or a refresh is killed (ResnapshotOutgoing,
\* UpdateCodexAuth).  Without the premise it fails: two overlapping switches.
THEOREM ProfileKeepsAccount == ASSUME Alone PROVE Spec => []OwnAccount
<1>1. OInv => OwnAccount
  BY DEF OInv
<1>2. Alone
  OBVIOUS
<1>3. TInv /\ OInv /\ [Next]_vars => OInv'
  BY <1>2, OInvStep
<1> QED
  BY <1>1, <1>3, TInvInit, TInvStep, OInvInit, PTL DEF Spec

-----------------------------------------------------------------------------
(* NoReplay and SavedCopyUsable.  A login has one valid token, and the         *)
(* invariant says where it is: in the live file if that is of the account,     *)
(* else in the vault, and with the command while it is refreshed.              *)

\* One profile for an account, _original is nobody's target, and no command is
\* killed between the answer of the identity provider and the files.
Tidy ==
  /\ Alone /\ ~SystemTargets
  /\ \A p, q \in Profiles : Owner[p] = Owner[q] => p = q
  /\ KillPoints \cap {"update", "recheck", "putback"} = {}

\* The job of the one process.
Job == IF Procs = {} THEN Idle ELSE jobs[CHOOSE pr \in Procs : TRUE]

Has(p) == vault[p] # NoToken
LiveProfile(p) == Has(p) /\ Owner[p] = live.acct

\* The live token was redeemed, and its successor is on its way to the live file.
Spent(job) == job.pc \in {"update", "recheck", "putback"} /\ job.snap # NoToken
LiveCurrent == live = NoToken \/ live \in valid \/ Spent(Job)
CopyCurrent(p) ==
  \/ vault[p] = NoToken
  \/ live.acct = Owner[p]
  \/ vault[p] \in valid
  \/ Job.p = p /\ Job.pc = "update"
\* No copy is fresher than the live file, so that Restore keeps the right one.
Behind(p) ==
  LiveProfile(p) =>
    \/ vault[p] = live
    \/ vault[p].t < live.t
    \/ Job.p = p /\ Job.pc \in {"recheck", "putback"}
\* The system profiles are never the freshest.
SystemBehind(tk) ==
  /\ tk.t <= issued
  /\ tk.acct = live.acct => tk.t <= live.t
  /\ \A p \in Profiles : Has(p) /\ tk.acct = Owner[p] => tk.t <= vault[p].t
Places ==
  /\ LiveCurrent /\ live.t <= issued
  /\ \A p \in Profiles : CopyCurrent(p) /\ Behind(p) /\ vault[p].t <= issued
  /\ \A tk \in SystemCopies : SystemBehind(tk)

\* The refresh of a profile that is not live, and of the live one.
Apart(job) == job.snap = NoToken /\ live.acct # job.tok.acct
Together(job) == job.snap = live /\ live # NoToken /\ live.acct = job.tok.acct
PresentOK(job) ==
  job.pc = "present" =>
    /\ job.tok \in valid /\ job.tok = vault[job.p]
    /\ Apart(job) \/ (Together(job) /\ live = job.tok)
UpdateOK(job) ==
  job.pc = "update" =>
    /\ job.tok \in valid /\ job.tok.acct = Owner[job.p] /\ job.tok.t <= issued
    /\ Apart(job) \/ (Together(job) /\ live.t < job.tok.t)
    /\ \A tk \in SystemCopies : tk.acct = job.tok.acct => tk.t <= job.tok.t
PutBackOK(job) ==
  job.pc \in {"recheck", "putback"} =>
    /\ job.tok \in valid /\ job.tok = vault[job.p]
    /\ Together(job) /\ live.t < job.tok.t
\* What the switch is about to overwrite will be, and is, saved.
ResnapOK(job) ==
  job.cmd = "next" /\ job.pc = "resnap" =>
    \A p \in Profiles : LiveProfile(p) => job.out = p
RestoreOK(job) ==
  job.pc = "restore" =>
    \A p \in Profiles : LiveProfile(p) => p = job.p \/ vault[p] = live
JobOK(job) ==
  /\ job.pc # "idle" => job.p \in Profiles /\ Has(job.p)
  /\ PresentOK(job) /\ UpdateOK(job) /\ PutBackOK(job) /\ ResnapOK(job) /\ RestoreOK(job)

RInv == NoReplay /\ Places /\ JobOK(Job)
Base == TInv /\ OInv

LEMMA TheJob ==
  ASSUME Alone, NEW pr \in Procs
  PROVE  Job = jobs[pr] /\ Job' = jobs'[pr]
<1>1. (CHOOSE q \in Procs : TRUE) \in Procs
  OBVIOUS
<1>2. (CHOOSE q \in Procs : TRUE) = pr
  BY <1>1 DEF Alone
<1> QED
  BY <1>2 DEF Job

LEMMA AnyJob == Job = Idle \/ \E pr \in Procs : Job = jobs[pr]
<1>1. Procs # {} => (CHOOSE q \in Procs : TRUE) \in Procs
  OBVIOUS
<1> QED
  BY <1>1 DEF Job

LEMMA JobType == ASSUME TInv PROVE Job \in Jobs
BY AnyJob, IdleWellFormed DEF TInv, TypeOK, WellFormed

\* A process that is idle, and a job that is a named point or Idle.
LEMMA IdlePoint == Idle.pc = "idle" /\ Idle.cmd = "none" /\ Idle.p = Nobody
BY DEF Idle

\* What tells a file apart.
LEMMA FileFacts ==
  /\ \A f \in Files : f.t \in Nat
  /\ \A f \in Files : f # NoToken => f \in Tokens /\ f.acct \in Accounts
  /\ NoToken.acct = NoAccount /\ NoToken.t = 0 /\ NoToken \in Files
  /\ NoAccount \notin Accounts
<1>1. NoToken.acct = NoAccount /\ NoToken.t = 0 /\ NoToken \in Files
  BY DEF NoToken, Files
<1>2. \A f \in Tokens : f.t \in Nat /\ f.acct \in Accounts
  BY DEF Tokens
<1> QED
  BY <1>1, <1>2, ConstantsAssumption DEF Files

LEMMA SystemType == ASSUME TInv PROVE \A tk \in SystemCopies : tk \in Files
BY DEF TInv, TypeOK, SystemCopies

\* Under OInv a copy is of the account its profile is for.
LEMMA CopyOwned ==
  ASSUME Base, NEW p \in Profiles
  PROVE  /\ vault[p] \in Files /\ Owner[p] \in Accounts
         /\ Has(p) => vault[p] \in Tokens /\ vault[p].acct = Owner[p]
         /\ Copy(p) = vault[p]
BY FileFacts, NamesDiffer, ConstantsAssumption
   DEF Base, TInv, TypeOK, OInv, OwnAccount, Has, Copy

\* ActiveProfile finds the profile of the live account, if there is one.
LEMMA ActiveFound ==
  ASSUME Tidy, Base, NEW p \in Profiles, LiveProfile(p)
  PROVE  ActiveProfile = p /\ live # NoToken
<1>1. live # NoToken
  BY CopyOwned, FileFacts DEF LiveProfile
<1>2. p \in Matching /\ \A q \in Matching : q = p
  BY CopyOwned DEF LiveProfile, Has, Matching, Tidy
<1>3. Matching = {p}
  BY <1>2
<1>4. p <= p
  BY ConstantsAssumption
<1>5. (CHOOSE q \in Matching : \A r \in Matching : q <= r) = p
  BY <1>3, <1>4
<1> QED
  BY <1>1, <1>3, <1>5 DEF ActiveProfile

LEMMA NobodyLive ==
  ASSUME Tidy, Base, ActiveProfile = Nobody, NEW p \in Profiles
  PROVE  ~LiveProfile(p)
BY ActiveFound, NamesDiffer

-----------------------------------------------------------------------------
(* Steps that leave the tokens where they are.                              *)

\* Points at which nothing is to be shown of the job.
Neutral(job) ==
  \/ job.pc \in {"idle", "original", "choose", "backup"}
  \/ job.pc = "resnap" /\ job.cmd # "next"

LEMMA NeutralOK ==
  ASSUME NEW job, Neutral(job), job.pc # "idle" => job.p \in Profiles /\ Has(job.p)
  PROVE  JobOK(job)
BY DEF Neutral, JobOK, PresentOK, UpdateOK, PutBackOK, ResnapOK, RestoreOK

Between == {"update", "recheck", "putback"}

\* The same for a job in the next state, which JobOK(Job)' speaks of.
LEMMA NeutralNext ==
  ASSUME Neutral(Job)', Job'.pc # "idle" => Job'.p \in Profiles /\ Has(Job.p)'
  PROVE  JobOK(Job)'
BY DEF Neutral, JobOK, PresentOK, UpdateOK, PutBackOK, ResnapOK, RestoreOK

\* A copy of the live file, made when no profile has that account, joins the
\* system profiles, or none does.
LEMMA PlacesSame ==
  ASSUME Tidy, Base, RInv, UNCHANGED <<live, vault, issued, valid>>, Job.pc \notin Between,
         \A tk \in SystemCopies' :
           tk \in SystemCopies \/ (tk = live /\ ActiveProfile = Nobody)
  PROVE  Places'
<1>1. LiveCurrent' /\ live'.t <= issued'
  BY DEF RInv, Places, LiveCurrent, Spent, Between
<1>2. ASSUME NEW p \in Profiles PROVE CopyCurrent(p)' /\ Behind(p)' /\ vault'[p].t <= issued'
  BY DEF RInv, Places, CopyCurrent, Behind, LiveProfile, Has, Between
<1>3. ASSUME NEW tk \in SystemCopies' PROVE SystemBehind(tk)'
  <2>1. SystemBehind(tk)
    <3>1. CASE tk \in SystemCopies
      BY <3>1 DEF RInv, Places
    <3>2. CASE tk = live /\ ActiveProfile = Nobody
      <4>1. \A p \in Profiles : ~(Has(p) /\ tk.acct = Owner[p])
        BY <3>2, NobodyLive DEF LiveProfile
      <4>2. live.t <= live.t
        BY FileFacts DEF Base, TInv, TypeOK
      <4> QED
        BY <3>2, <4>1, <4>2 DEF SystemBehind, RInv, Places
    <3> QED
      BY <1>3, <3>1, <3>2
  <2> QED
    BY <2>1 DEF SystemBehind, Has
<1> QED
  BY <1>1, <1>2, <1>3 DEF Places

\* As before, with a job that comes to a neutral point.
LEMMA Settles ==
  ASSUME Tidy, Base, RInv, UNCHANGED <<live, vault, issued, valid, revoked>>,
         Job.pc \notin Between,
         \A tk \in SystemCopies' :
           tk \in SystemCopies \/ (tk = live /\ ActiveProfile = Nobody),
         Neutral(Job)', Job'.pc # "idle" => Job'.p \in Profiles /\ Has(Job'.p)
  PROVE  RInv'
<1>1. Job'.pc # "idle" => Job'.p \in Profiles /\ Has(Job.p)'
  BY DEF Has
<1>2. NoReplay'
  BY DEF RInv, NoReplay
<1> QED
  BY <1>1, <1>2, PlacesSame, NeutralNext DEF RInv

\* What Begin, Go and End do to the one job.
LEMMA JobMoves ==
  ASSUME Alone, TInv, NEW pr \in Procs
  PROVE  /\ Job = jobs[pr]
         /\ \A job : jobs' = [jobs EXCEPT ![pr] = job] => Job' = job
         /\ End(pr) => Job' = Idle
         /\ \A pc : Go(pr, pc) => /\ Job'.pc = pc /\ Job'.p = Job.p /\ Job'.cmd = Job.cmd
                                  /\ Job'.out = Job.out /\ Job'.snap = Job.snap /\ Job'.tok = Job.tok
<1>1. Job = jobs[pr] /\ Job' = jobs'[pr] /\ jobs \in [Procs -> Jobs] /\ jobs[pr] \in Jobs
  BY TheJob DEF TInv, TypeOK
<1>2. ASSUME NEW pc, Go(pr, pc)
      PROVE  /\ Job'.pc = pc /\ Job'.p = Job.p /\ Job'.cmd = Job.cmd
             /\ Job'.out = Job.out /\ Job'.snap = Job.snap /\ Job'.tok = Job.tok
  <2>1. Job' = [jobs[pr] EXCEPT !.pc = pc]
    BY <1>1, <1>2 DEF Go
  <2> QED
    BY <1>1, <2>1 DEF Jobs
<1>3. ASSUME NEW job, jobs' = [jobs EXCEPT ![pr] = job] PROVE Job' = job
  BY <1>1, <1>3
<1>4. End(pr) => Job' = Idle
  BY <1>3 DEF End
<1> QED
  BY <1>1, <1>2, <1>3, <1>4

LEMMA SameSystem ==
  ASSUME UNCHANGED <<original, backups>>
  PROVE  SystemCopies' = SystemCopies
BY DEF SystemCopies

LEMMA BackupOriginalR ==
  ASSUME Tidy, Base, RInv, NEW pr \in Procs, BackupOriginal(pr)
  PROVE  RInv'
<1>1. Job.pc = "original" /\ Job'.pc = "choose" /\ Job'.p = Job.p
  BY JobMoves DEF BackupOriginal, At, Tidy, Base
<1>2. Job'.p \in Profiles /\ Has(Job'.p)
  BY <1>1 DEF RInv, JobOK
<1>3. \A tk \in SystemCopies' : tk \in SystemCopies \/ (tk = live /\ ActiveProfile = Nobody)
  BY DEF BackupOriginal, SystemCopies
<1> QED
  BY <1>1, <1>2, <1>3, Settles DEF BackupOriginal, idp, Between, Neutral

LEMMA RotatedEntries ==
  ASSUME NEW bs \in Seq(Files), NEW tk \in Files
  PROVE  LET cs == RotateAutoBackups(Append(bs, tk))
         IN \A i \in DOMAIN cs : cs[i] = tk \/ \E j \in DOMAIN bs : cs[i] = bs[j]
<1> DEFINE as == Append(bs, tk)
           n == Len(as)
<1>1. as \in Seq(Files) /\ n = Len(bs) + 1 /\ Len(bs) \in Nat /\ n \in Nat
  OBVIOUS
<1>2. \A i \in 1 .. n : as[i] = tk \/ \E j \in DOMAIN bs : as[i] = bs[j]
  <2>1. \A i \in 1 .. n : i = n \/ (i \in 1 .. Len(bs) /\ as[i] = bs[i])
    BY <1>1
  <2>2. as[n] = tk
    BY <1>1
  <2>3. DOMAIN bs = 1 .. Len(bs)
    OBVIOUS
  <2> HIDE DEF as, n
  <2> QED
    BY <2>1, <2>2, <2>3
<1>3. CASE n > MaxBackups
  <2> DEFINE m == n - MaxBackups + 1
             cs == SubSeq(as, m, n)
  <2>1. m \in 1 .. n /\ MaxBackups \in Nat
    BY <1>1, <1>3, ConstantsAssumption
  <2>2. DOMAIN cs = 1 .. n - m + 1 /\ \A i \in 1 .. n - m + 1 : cs[i] = as[m + i - 1]
    BY <1>1, <2>1
  <2>3. \A i \in 1 .. n - m + 1 : m + i - 1 \in 1 .. n
    BY <1>1, <2>1
  <2>4. RotateAutoBackups(as) = cs
    BY <1>3 DEF RotateAutoBackups
  <2> HIDE DEF as, n, m, cs
  <2>5. \A i \in DOMAIN cs : cs[i] = tk \/ \E j \in DOMAIN bs : cs[i] = bs[j]
    BY <1>2, <2>2, <2>3
  <2> QED
    BY <2>4, <2>5 DEF as
<1>4. CASE ~(n > MaxBackups)
  <2>1. RotateAutoBackups(as) = as /\ DOMAIN as = 1 .. n
    BY <1>1, <1>4 DEF RotateAutoBackups
  <2> HIDE DEF as, n
  <2>2. \A i \in DOMAIN as : as[i] = tk \/ \E j \in DOMAIN bs : as[i] = bs[j]
    BY <1>2, <2>1
  <2> QED
    BY <2>1, <2>2 DEF as
<1> QED
  BY <1>3, <1>4

LEMMA BackupBeforeSwitchR ==
  ASSUME Tidy, Base, RInv, NEW pr \in Procs, BackupBeforeSwitch(pr)
  PROVE  RInv'
<1>1. Job.pc = "backup" /\ Job'.pc = "resnap" /\ Job'.p = Job.p /\ Job'.cmd = Job.cmd
  BY JobMoves DEF BackupBeforeSwitch, At, Tidy, Base
<1>2. Job.cmd # "next"
  BY <1>1, JobMoves DEF Base, OInv, Fits, ShortNext, Tidy
<1>3. Job'.p \in Profiles /\ Has(Job'.p)
  BY <1>1 DEF RInv, JobOK
<1>4. \A tk \in SystemCopies' : tk \in SystemCopies \/ (tk = live /\ ActiveProfile = Nobody)
  <2>1. CASE NeedsBackup
    <3>1. \A i \in DOMAIN backups' : backups'[i] = live \/ \E j \in DOMAIN backups : backups'[i] = backups[j]
      BY <2>1, RotatedEntries DEF BackupBeforeSwitch, BackupCurrent, Base, TInv, TypeOK
    <3> QED
      BY <2>1, <3>1 DEF SystemCopies, NeedsBackup, BackupBeforeSwitch
  <2>2. CASE ~NeedsBackup
    BY <2>2, SameSystem DEF BackupBeforeSwitch
  <2> QED
    BY <2>1, <2>2
<1> QED
  BY <1>1, <1>2, <1>3, <1>4, Settles DEF BackupBeforeSwitch, idp, Between, Neutral

LEMMA NoRefreshR ==
  ASSUME Tidy, Base, RInv, NEW pr \in Procs, NoRefresh(pr)
  PROVE  RInv'
<1>1. Job.pc = "choose" /\ Job'.pc = "backup" /\ Job'.p = Job.p
  BY JobMoves DEF NoRefresh, At, Tidy, Base
<1>2. Job'.p \in Profiles /\ Has(Job'.p)
  BY <1>1 DEF RInv, JobOK
<1> QED
  BY <1>1, <1>2, SameSystem, Settles DEF NoRefresh, files, idp, Between, Neutral

LEMMA KillR ==
  ASSUME Tidy, Base, RInv, NEW pr \in Procs, Kill(pr)
  PROVE  RInv'
<1>1. Job.pc \notin Between /\ Job' = Idle
  BY JobMoves DEF Kill, Tidy, Base, Between
<1> QED
  BY <1>1, IdlePoint, SameSystem, Settles DEF Kill, files, idp, Neutral

LEMMA StartActivateR ==
  ASSUME Tidy, Base, RInv, NEW pr \in Procs, NEW p \in Targets, StartActivate(pr, p)
  PROVE  RInv'
<1> DEFINE job == [Idle EXCEPT !.cmd = "activate", !.pc = "original", !.p = p]
<1>1. job.pc = "original" /\ job.p = p
  BY DEF Idle
<1>2. p \in Profiles /\ Has(p)
  BY CopyOwned DEF StartActivate, Targets, Tidy, Has
<1>3. jobs' = [jobs EXCEPT ![pr] = job] /\ Job.pc = "idle"
  BY JobMoves, IdlePoint DEF StartActivate, Begin, Tidy, Base
<1> HIDE DEF job
<1>4. Job' = job
  BY <1>3, JobMoves DEF Tidy, Base
<1> QED
  BY <1>1, <1>2, <1>3, <1>4, SameSystem, Settles DEF StartActivate, files, idp, Between, Neutral

\* next saves under the profile it looks up when it starts: the live account's.
LEMMA StartNextR ==
  ASSUME Tidy, Base, RInv, NEW pr \in Procs, NEW p \in Profiles, StartNext(pr, p)
  PROVE  RInv'
<1> DEFINE job == [Idle EXCEPT !.cmd = "next", !.pc = "resnap", !.p = p, !.out = ActiveProfile]
<1>1. job.pc = "resnap" /\ job.p = p /\ job.out = ActiveProfile
  BY DEF Idle
<1>2. Has(p)
  BY CopyOwned DEF StartNext, Has
<1>3. jobs' = [jobs EXCEPT ![pr] = job] /\ Job.pc = "idle"
  BY JobMoves, IdlePoint DEF StartNext, Begin, Tidy, Base
<1> HIDE DEF job
<1>4. Job' = job
  BY <1>3, JobMoves DEF Tidy, Base
<1>5. UNCHANGED <<live, vault, issued, valid, revoked>> /\ SystemCopies' = SystemCopies
  BY SameSystem DEF StartNext, files, idp
<1>6. Places' /\ NoReplay'
  BY <1>3, <1>5, PlacesSame DEF Between, RInv, NoReplay
<1>7. \A q \in Profiles : LiveProfile(q)' => Job'.out = q
  BY <1>1, <1>4, <1>5, ActiveFound DEF LiveProfile, Has
<1>8. JobOK(Job)'
  BY <1>1, <1>2, <1>4, <1>5, <1>7
     DEF JobOK, PresentOK, UpdateOK, PutBackOK, ResnapOK, RestoreOK, Has
<1> QED
  BY <1>6, <1>8 DEF RInv

-----------------------------------------------------------------------------
(* The environment and the commands that touch no other file.               *)

\* Away from the three points after the answer, the live token is good.
LEMMA LiveGood ==
  ASSUME RInv, Job.pc \notin Between
  PROVE  live = NoToken \/ live \in valid
BY DEF RInv, Places, LiveCurrent, Spent, Between

LEMMA TokenFacts ==
  ASSUME Base
  PROVE  /\ issued \in Nat /\ issued + 1 \in Nat /\ live \in Files /\ live.t \in Nat
         /\ \A p \in Profiles : vault[p].t \in Nat
         /\ \A tk \in SystemCopies : tk.t \in Nat
         /\ \A tk : /\ [tk EXCEPT !.t = issued + 1] = [tk EXCEPT !.t = issued + 1]
                    /\ tk \in Tokens => /\ [tk EXCEPT !.t = issued + 1].t = issued + 1
                                        /\ [tk EXCEPT !.t = issued + 1].acct = tk.acct
<1>1. \A tk \in Tokens : /\ [tk EXCEPT !.t = issued + 1].t = issued + 1
                         /\ [tk EXCEPT !.t = issued + 1].acct = tk.acct
  BY DEF Tokens
<1>2. issued \in Nat /\ live \in Files
  BY ConstantsAssumption DEF Base, TInv, TypeOK
<1>3. \A tk \in SystemCopies : tk \in Files
  BY SystemType DEF Base
<1> QED
  BY <1>1, <1>2, <1>3, FileFacts, CopyOwned

\* codex rotates only while no process holds the live login.
LEMMA RotateR ==
  ASSUME Tidy, Base, RInv, Rotate
  PROVE  RInv'
<1> DEFINE new == [live EXCEPT !.t = issued + 1]
<1>1. live \in Tokens /\ Job' = Job /\ vault' = vault /\ SystemCopies' = SystemCopies
  BY SameSystem DEF Rotate, Base, TInv, TypeOK, Files, Job
<1>2. /\ Job.pc # "restore"
      /\ Job.pc \in {"present", "update", "recheck", "putback"} => Job.tok.acct # live.acct
  BY AnyJob, IdlePoint DEF Rotate, Holding, Tidy, Alone
<1>3. Job.pc \notin {"recheck", "putback"} /\ ~Spent(Job)
  BY <1>2 DEF RInv, JobOK, UpdateOK, PutBackOK, Together, Spent, Apart
<1>4. live \in valid
  BY <1>3 DEF Rotate, RInv, Places, LiveCurrent
<1>5. /\ live' = new /\ valid' = (valid \ {live}) \cup {new} /\ issued' = issued + 1
      /\ revoked' = revoked
  BY <1>4 DEF Rotate, Redeem
<1>6. new.t = issued + 1 /\ new.acct = live.acct
  BY <1>1, TokenFacts
<1> HIDE DEF new
<1>7. ASSUME NEW p \in Profiles PROVE CopyCurrent(p)' /\ Behind(p)' /\ vault'[p].t <= issued'
  <2>1. CopyCurrent(p) /\ vault[p].t <= issued
    BY DEF RInv, Places
  <2>2. CopyCurrent(p)'
    BY <1>1, <1>5, <1>6, <2>1, CopyOwned DEF CopyCurrent, Has
  <2>3. Behind(p)'
    BY <1>1, <1>5, <1>6, <2>1, TokenFacts DEF Behind
  <2> QED
    BY <1>1, <1>5, <2>1, <2>2, <2>3, TokenFacts
<1>8. ASSUME NEW tk \in SystemCopies' PROVE SystemBehind(tk)'
  BY <1>1, <1>5, <1>6, <1>8, TokenFacts DEF RInv, Places, SystemBehind, Has
<1>9. Places'
  BY <1>5, <1>6, <1>7, <1>8, TokenFacts DEF Places, LiveCurrent
<1>10. JobOK(Job)
  BY DEF RInv
<1>11. (Job.pc # "idle" => Job.p \in Profiles /\ Has(Job.p))'
  BY <1>1, <1>10 DEF JobOK, Has
<1>12. PresentOK(Job)'
  BY <1>1, <1>2, <1>5, <1>6, <1>10 DEF JobOK, PresentOK, Apart, Together
<1>13. UpdateOK(Job)'
  BY <1>1, <1>2, <1>5, <1>6, <1>10, JobType, FileFacts, TokenFacts
     DEF JobOK, UpdateOK, Apart, Together, Base, Jobs
<1>14. PutBackOK(Job)' /\ RestoreOK(Job)'
  BY <1>1, <1>2, <1>3 DEF PutBackOK, RestoreOK
<1>15. ResnapOK(Job)'
  BY <1>1, <1>5, <1>6, <1>10 DEF JobOK, ResnapOK, LiveProfile, Has
<1> QED
  BY <1>5, <1>9, <1>11, <1>12, <1>13, <1>14, <1>15 DEF RInv, NoReplay, JobOK

\* What the user gives up is saved, and saved fresh.
LEMMA ExpendableSaved ==
  ASSUME Tidy, Base, RInv, Expendable, Job = Idle, NEW p \in Profiles, LiveProfile(p)
  PROVE  vault[p] = live /\ live \in valid
<1>1. Job.pc = "idle"
  BY IdlePoint
<1>2. live # NoToken /\ vault[p] \in Copies /\ vault[p].acct = live.acct
  BY ActiveFound, CopyOwned DEF Copies, LiveProfile
<1>3. live \in valid
  BY <1>1, <1>2, LiveGood DEF Between
<1>4. live \in Copies
  BY <1>2 DEF Expendable
<1>5. CASE \E q \in Profiles : live = vault[q]
  <2>1. PICK q \in Profiles : live = vault[q]
    BY <1>5
  <2>2. Owner[q] = live.acct
    BY <1>2, <2>1, CopyOwned DEF Has
  <2> QED
    BY <1>3, <2>1, <2>2 DEF Tidy, LiveProfile
<1>6. CASE live \in SystemCopies
  <2>1. live.t <= vault[p].t
    BY <1>6 DEF RInv, Places, SystemBehind, LiveProfile
  <2>2. vault[p] = live \/ vault[p].t < live.t
    BY <1>1 DEF RInv, Places, Behind
  <2> QED
    BY <1>3, <2>1, <2>2, TokenFacts
<1> QED
  BY <1>4, <1>5, <1>6 DEF Copies

LEMMA LoginR ==
  ASSUME Tidy, Base, RInv, NEW a \in Accounts, Login(a)
  PROVE  RInv'
<1> DEFINE new == [acct |-> a, fam |-> issued + 1, t |-> issued + 1]
<1>1. Job = Idle /\ Job' = Job /\ vault' = vault /\ SystemCopies' = SystemCopies
  BY AnyJob, SameSystem DEF Login, Tidy, Alone, Job
<1>2. /\ live' = new /\ valid' = valid \cup {new} /\ issued' = issued + 1
      /\ revoked' = revoked
  BY DEF Login
<1>3. new.t = issued + 1 /\ new.acct = a
  OBVIOUS
<1> HIDE DEF new
<1>4. ASSUME NEW p \in Profiles PROVE CopyCurrent(p)' /\ Behind(p)' /\ vault'[p].t <= issued'
  <2>1. CopyCurrent(p) /\ vault[p].t <= issued
    BY DEF RInv, Places
  <2>2. CopyCurrent(p)'
    <3>1. CASE live.acct = Owner[p] /\ Owner[p] # a /\ Has(p)
      <4>1. LiveProfile(p) /\ Expendable
        BY <3>1 DEF LiveProfile, Login
      <4>2. vault[p] \in valid
        BY <1>1, <4>1, ExpendableSaved
      <4> QED
        BY <1>1, <1>2, <4>2 DEF CopyCurrent
    <3>2. CASE ~(live.acct = Owner[p] /\ Owner[p] # a /\ Has(p))
      BY <1>1, <1>2, <1>3, <2>1, <3>2, IdlePoint DEF CopyCurrent, Has
    <3> QED
      BY <3>1, <3>2
  <2>3. Behind(p)'
    BY <1>1, <1>2, <1>3, <2>1, TokenFacts DEF Behind
  <2> QED
    BY <1>1, <1>2, <2>1, <2>2, <2>3, TokenFacts
<1>5. ASSUME NEW tk \in SystemCopies' PROVE SystemBehind(tk)'
  BY <1>1, <1>2, <1>3, <1>5, TokenFacts DEF RInv, Places, SystemBehind, Has
<1>6. Places'
  BY <1>2, <1>3, <1>4, <1>5, TokenFacts DEF Places, LiveCurrent
<1>7. JobOK(Job)'
  BY <1>1, IdlePoint, NeutralNext DEF Neutral
<1> QED
  BY <1>2, <1>6, <1>7 DEF RInv, NoReplay

LEMMA SaveR ==
  ASSUME Tidy, Base, RInv, NEW pr \in Procs, NEW p \in Profiles, Save(pr, p)
  PROVE  RInv'
<1>1. Job.pc = "idle" /\ Job' = Job
  BY JobMoves, IdlePoint DEF Save, Tidy, Base, Job
<1>2. /\ vault' = [vault EXCEPT ![p] = live] /\ vault \in [Profiles -> Files]
      /\ live.acct = Owner[p] /\ UNCHANGED <<live, issued, valid, revoked>>
      /\ SystemCopies' = SystemCopies
  BY SameSystem DEF Save, Backup, idp, Base, TInv, TypeOK
<1>3. ASSUME NEW q \in Profiles PROVE CopyCurrent(q)' /\ Behind(q)' /\ vault'[q].t <= issued'
  <2>1. CASE q = p
    BY <1>2, <2>1 DEF RInv, Places, CopyCurrent, Behind
  <2>2. CASE q # p
    BY <1>1, <1>2, <2>2 DEF RInv, Places, CopyCurrent, Behind, LiveProfile, Has
  <2> QED
    BY <2>1, <2>2
<1>4. ASSUME NEW tk \in SystemCopies' PROVE SystemBehind(tk)'
  <2>1. SystemBehind(tk)
    BY <1>2, <1>4 DEF RInv, Places
  <2>2. \A q \in Profiles : vault'[q] = vault[q] \/ (q = p /\ vault'[q] = live)
    BY <1>2
  <2> QED
    BY <1>2, <2>1, <2>2 DEF SystemBehind, Has
<1>5. Places'
  BY <1>1, <1>2, <1>3, <1>4 DEF RInv, Places, LiveCurrent, Spent
<1>6. JobOK(Job)'
  BY <1>1, NeutralNext DEF Neutral
<1> QED
  BY <1>2, <1>5, <1>6 DEF RInv, NoReplay

LEMMA ClearR ==
  ASSUME Tidy, Base, RInv, NEW pr \in Procs, Clear(pr)
  PROVE  RInv'
<1>1. Job = Idle /\ Job' = Job /\ vault' = vault /\ SystemCopies' = SystemCopies
  BY JobMoves, SameSystem DEF Clear, Tidy, Base, Job
<1>2. live' = NoToken /\ UNCHANGED <<issued, valid, revoked>>
  BY DEF Clear, idp
<1>3. ASSUME NEW p \in Profiles PROVE CopyCurrent(p)' /\ Behind(p)' /\ vault'[p].t <= issued'
  <2>1. CopyCurrent(p)'
    <3>1. CASE LiveProfile(p)
      BY <1>1, <1>2, <3>1, ExpendableSaved DEF CopyCurrent, Clear
    <3>2. CASE ~LiveProfile(p)
      BY <1>1, <1>2, <3>2, IdlePoint DEF RInv, Places, CopyCurrent, LiveProfile, Has
    <3> QED
      BY <3>1, <3>2
  <2>2. Behind(p)'
    BY <1>2, FileFacts, CopyOwned DEF Behind, LiveProfile
  <2> QED
    BY <1>1, <1>2, <2>1, <2>2 DEF RInv, Places
<1>4. ASSUME NEW tk \in SystemCopies' PROVE SystemBehind(tk)'
  <2>1. SystemBehind(tk) /\ tk \in Files
    BY <1>1, <1>4, SystemType DEF RInv, Places, Base
  <2>2. tk.acct = NoAccount => tk.t <= 0
    BY <2>1, FileFacts
  <2> QED
    BY <1>1, <1>2, <2>1, <2>2, FileFacts DEF SystemBehind, Has
<1>5. Places'
  BY <1>2, <1>3, <1>4, FileFacts, TokenFacts DEF Places, LiveCurrent
<1>6. JobOK(Job)'
  BY <1>1, IdlePoint, NeutralNext DEF Neutral
<1> QED
  BY <1>2, <1>5, <1>6 DEF RInv, NoReplay

-----------------------------------------------------------------------------
(* The refresh and the switch.                                              *)

\* A refresh starts with a token the identity provider accepts.
LEMMA BeginRefresh ==
  ASSUME Tidy, Base, RInv, UNCHANGED <<files, idp>>, Job.pc \notin Between,
         Job'.p \in Profiles, Job'.pc = "present", Refreshable(Job'.p),
         Job'.snap = Snapshot(Job'.p), Job'.tok = Copy(Job'.p)
  PROVE  RInv'
<1> PICK p \in Profiles : p = Job'.p
  OBVIOUS
<1>1. vault[p] \in Tokens /\ vault[p].acct = Owner[p] /\ Copy(p) = vault[p] /\ Has(p)
  BY CopyOwned DEF Refreshable, Has
<1>2. UNCHANGED <<live, vault, issued, valid, revoked>> /\ SystemCopies' = SystemCopies
  BY SameSystem DEF files, idp
<1>3. Places' /\ NoReplay'
  BY <1>2, PlacesSame DEF RInv, NoReplay
<1>4. live.acct # Owner[p] \/ live = vault[p]
  BY <1>1 DEF Refreshable, Tidy, Alone
<1>5. vault[p] \in valid
  BY <1>1, <1>4, LiveGood DEF RInv, Places, CopyCurrent, Between, Has
<1>6. PresentOK(Job)'
  <2>1. CASE live = vault[p]
    BY <1>1, <1>2, <1>5, <2>1 DEF PresentOK, Together, Snapshot, Has
  <2>2. CASE live # vault[p]
    BY <1>1, <1>2, <1>4, <1>5, <2>2 DEF PresentOK, Apart, Snapshot
  <2> QED
    BY <2>1, <2>2
<1>7. UpdateOK(Job)' /\ PutBackOK(Job)' /\ ResnapOK(Job)' /\ RestoreOK(Job)'
  BY DEF UpdateOK, PutBackOK, ResnapOK, RestoreOK
<1>8. (Job.pc # "idle" => Job.p \in Profiles /\ Has(Job.p))'
  BY <1>1, <1>2 DEF Has
<1> QED
  BY <1>3, <1>6, <1>7, <1>8 DEF RInv, JobOK

LEMMA RefreshTargetR ==
  ASSUME Tidy, Base, RInv, NEW pr \in Procs, RefreshTarget(pr)
  PROVE  RInv'
<1>1. Job.pc = "choose" /\ Job = jobs[pr] /\ Job \in Jobs
  BY JobMoves, JobType DEF RefreshTarget, At, Tidy, Base
<1> DEFINE job == [Job EXCEPT !.pc = "present", !.snap = Snapshot(Job.p), !.tok = Copy(Job.p)]
<1>2. /\ job.pc = "present" /\ job.p = Job.p
      /\ job.snap = Snapshot(Job.p) /\ job.tok = Copy(Job.p)
  BY <1>1 DEF Jobs
<1>3. jobs' = [jobs EXCEPT ![pr] = job]
  BY <1>1 DEF RefreshTarget
<1> HIDE DEF job
<1>4. Job' = job
  BY <1>3, JobMoves DEF Tidy, Base
<1>5. Job.p \in Profiles
  BY <1>1 DEF RInv, JobOK
<1> QED
  BY <1>1, <1>2, <1>4, <1>5, BeginRefresh DEF RefreshTarget, Between

LEMMA StartRefreshR ==
  ASSUME Tidy, Base, RInv, NEW pr \in Procs, NEW p \in Targets, StartRefresh(pr, p)
  PROVE  RInv'
<1> DEFINE job == [Idle EXCEPT !.cmd = "refresh", !.pc = "present", !.p = p,
                               !.snap = Snapshot(p), !.tok = Copy(p)]
<1>1. job.pc = "present" /\ job.p = p /\ job.snap = Snapshot(p) /\ job.tok = Copy(p)
  BY DEF Idle
<1>2. p \in Profiles
  BY DEF Targets, Tidy
<1>3. jobs' = [jobs EXCEPT ![pr] = job] /\ Job.pc = "idle"
  BY JobMoves, IdlePoint DEF StartRefresh, Begin, Tidy, Base
<1> HIDE DEF job
<1>4. Job' = job
  BY <1>3, JobMoves DEF Tidy, Base
<1> QED
  BY <1>1, <1>2, <1>3, <1>4, BeginRefresh DEF StartRefresh, Between

\* The token presented is the one the provider accepts, so there is an answer.
LEMMA PresentR ==
  ASSUME Tidy, Base, RInv, NEW pr \in Procs, Present(pr)
  PROVE  RInv'
<1> DEFINE tk == Job.tok
           p == Job.p
           new == [tk EXCEPT !.t = issued + 1]
           job == [Job EXCEPT !.pc = "update", !.tok = new]
<1>1. Job.pc = "present" /\ Job = jobs[pr] /\ Job \in Jobs
  BY JobMoves, JobType DEF Present, At, Tidy, Base
<1>2. /\ p \in Profiles /\ tk \in valid /\ tk = vault[p] /\ Has(p)
      /\ Apart(Job) \/ (Together(Job) /\ live = tk)
  BY <1>1 DEF RInv, JobOK, PresentOK
<1>3. tk \in Tokens /\ tk.acct = Owner[p]
  BY <1>2, CopyOwned
<1>4. new.t = issued + 1 /\ new.acct = tk.acct
  BY <1>3, TokenFacts
<1>5. job.pc = "update" /\ job.p = p /\ job.snap = Job.snap /\ job.tok = new
  BY <1>1 DEF Jobs
<1>6. /\ valid' = (valid \ {tk}) \cup {new} /\ issued' = issued + 1
      /\ revoked' = revoked /\ jobs' = [jobs EXCEPT ![pr] = job]
  BY <1>1, <1>2 DEF Present, Redeem
<1>7. live' = live /\ vault' = vault /\ SystemCopies' = SystemCopies
  BY SameSystem DEF Present, files
<1> HIDE DEF job, new
<1>8. Job' = job
  BY <1>6, JobMoves DEF Tidy, Base
<1>9. LiveCurrent'
  <2>1. CASE Apart(Job)
    BY <1>1, <1>6, <1>7, <2>1, LiveGood DEF Apart, LiveCurrent, Between
  <2>2. CASE Together(Job)
    BY <1>5, <1>7, <1>8, <2>2 DEF Together, LiveCurrent, Spent
  <2> QED
    BY <1>2, <2>1, <2>2
<1>10. ASSUME NEW q \in Profiles PROVE CopyCurrent(q)' /\ Behind(q)' /\ vault'[q].t <= issued'
  <2>1. CopyCurrent(q) /\ Behind(q) /\ vault[q].t <= issued
    BY DEF RInv, Places
  <2>2. q = p => CopyCurrent(q)'
    <3>1. q = p => Job'.p = q /\ Job'.pc = "update"
      BY <1>5, <1>8
    <3> QED
      BY <3>1 DEF CopyCurrent
  <2>3. q # p => CopyCurrent(q)'
    <3>1. q # p /\ Has(q) => vault[q] # tk
      <4>1. Has(q) => vault[q].acct = Owner[q]
        BY CopyOwned
      <4>2. q # p => Owner[q] # Owner[p]
        BY <1>2 DEF Tidy
      <4> QED
        BY <1>3, <4>1, <4>2
    <3> QED
      BY <1>1, <1>6, <1>7, <2>1, <3>1 DEF CopyCurrent, Has
  <2>4. Behind(q)'
    BY <1>1, <1>7, <2>1 DEF Behind, LiveProfile, Has
  <2> QED
    BY <1>6, <1>7, <2>1, <2>2, <2>3, <2>4, TokenFacts
<1>11. \A s \in SystemCopies' : SystemBehind(s)' /\ s.t <= issued
  BY <1>6, <1>7, TokenFacts DEF RInv, Places, SystemBehind, Has
<1>12. Places'
  BY <1>6, <1>7, <1>9, <1>10, <1>11, TokenFacts DEF RInv, Places
<1>13. UpdateOK(Job)'
  <2>1. Job.tok' \in valid' /\ Job.tok'.acct = Owner[Job.p'] /\ Job.tok'.t <= issued'
    BY <1>3, <1>4, <1>5, <1>6, <1>8, TokenFacts
  <2>2. Apart(Job)' \/ (Together(Job)' /\ live'.t < Job.tok'.t)
    BY <1>2, <1>4, <1>5, <1>7, <1>8, TokenFacts DEF Apart, Together, RInv, Places
  <2>3. \A s \in SystemCopies' : s.acct = Job.tok'.acct => s.t <= Job.tok'.t
    BY <1>4, <1>5, <1>7, <1>8, <1>11, TokenFacts
  <2> QED
    BY <2>1, <2>2, <2>3 DEF UpdateOK
<1>14. PresentOK(Job)' /\ PutBackOK(Job)' /\ ResnapOK(Job)' /\ RestoreOK(Job)'
  BY <1>5, <1>8 DEF PresentOK, PutBackOK, ResnapOK, RestoreOK
<1>15. (Job.pc # "idle" => Job.p \in Profiles /\ Has(Job.p))'
  BY <1>2, <1>5, <1>7, <1>8 DEF Has
<1> QED
  BY <1>6, <1>12, <1>13, <1>14, <1>15 DEF RInv, JobOK, NoReplay

\* Where a refresh goes from here is nobody's concern.
LEMMA ReturnMoves ==
  ASSUME Tidy, Base, NEW pr \in Procs, Return(pr)
  PROVE  Neutral(Job)' /\ (Job'.pc # "idle" => Job'.p = Job.p)
BY JobMoves, IdlePoint DEF Return, Neutral, Tidy, Base

LEMMA UpdateCodexAuthR ==
  ASSUME Tidy, Base, RInv, NEW pr \in Procs, UpdateCodexAuth(pr)
  PROVE  RInv'
<1> DEFINE tk == Job.tok
           p == Job.p
<1>1. Job.pc = "update" /\ Job = jobs[pr]
  BY JobMoves DEF UpdateCodexAuth, At, Tidy, Base
<1>2. /\ p \in Profiles /\ tk \in valid /\ tk.acct = Owner[p] /\ tk.t <= issued
      /\ Apart(Job) \/ (Together(Job) /\ live.t < tk.t)
      /\ \A s \in SystemCopies : s.acct = tk.acct => s.t <= tk.t
  BY <1>1 DEF RInv, JobOK, UpdateOK
<1>3. p # System
  BY <1>2, NamesDiffer
<1>4. /\ vault' = [vault EXCEPT ![p] = tk] /\ vault \in [Profiles -> Files]
      /\ UNCHANGED <<live, issued, valid, revoked>> /\ SystemCopies' = SystemCopies
  BY <1>1, <1>3, SameSystem DEF UpdateCodexAuth, idp, Base, TInv, TypeOK
<1>5. tk # NoToken
  BY <1>2, NotAToken DEF Base, TInv, TypeOK
<1>6. /\ Job.snap # NoToken => /\ Job'.pc = "recheck" /\ Job'.p = p
                               /\ Job'.snap = Job.snap /\ Job'.tok = tk
      /\ Job.snap = NoToken => Neutral(Job)' /\ (Job'.pc # "idle" => Job'.p = p)
  BY <1>1, JobMoves, ReturnMoves DEF UpdateCodexAuth, Tidy, Base
<1>7. LiveCurrent'
  BY <1>1, <1>4, <1>6 DEF RInv, Places, LiveCurrent, Spent
<1>8. ASSUME NEW q \in Profiles PROVE CopyCurrent(q)' /\ Behind(q)' /\ vault'[q].t <= issued'
  <2>1. CASE q = p
    <3>1. vault'[q] = tk
      BY <1>4, <2>1
    <3>2. Behind(q)'
      BY <1>2, <1>4, <1>6, <2>1 DEF Behind, LiveProfile, Apart, Together
    <3> QED
      BY <1>2, <1>4, <3>1, <3>2 DEF CopyCurrent
  <2>2. CASE q # p
    BY <1>1, <1>4, <2>2 DEF RInv, Places, CopyCurrent, Behind, LiveProfile, Has
  <2> QED
    BY <2>1, <2>2
<1>9. ASSUME NEW s \in SystemCopies' PROVE SystemBehind(s)'
  <2>1. SystemBehind(s) /\ (s.acct = tk.acct => s.t <= tk.t)
    BY <1>2, <1>4, <1>9 DEF RInv, Places
  <2>2. \A q \in Profiles : vault'[q] = vault[q] \/ (q = p /\ vault'[q] = tk)
    BY <1>4
  <2> QED
    BY <1>2, <1>4, <2>1, <2>2 DEF SystemBehind, Has
<1>10. Places'
  BY <1>4, <1>7, <1>8, <1>9 DEF RInv, Places
<1>11. vault'[p] = tk
  BY <1>2, <1>4
<1>12. JobOK(Job)'
  <2>1. CASE Job.snap = NoToken
    BY <1>2, <1>5, <1>6, <1>11, <2>1, NeutralNext DEF Has
  <2>2. CASE Job.snap # NoToken
    <3>1. Together(Job) /\ live.t < tk.t
      BY <1>2, <2>2 DEF Apart
    <3>2. PutBackOK(Job)'
      BY <1>2, <1>4, <1>6, <1>11, <2>2, <3>1 DEF PutBackOK, Together
    <3> QED
      BY <1>2, <1>5, <1>6, <1>11, <2>2, <3>2
         DEF JobOK, PresentOK, UpdateOK, ResnapOK, RestoreOK, Has
  <2> QED
    BY <2>1, <2>2
<1> QED
  BY <1>4, <1>10, <1>12 DEF RInv, NoReplay

\* Nobody has touched the live file since the snapshot, so it is put back.
LEMMA RecheckR ==
  ASSUME Tidy, Base, RInv, NEW pr \in Procs, Recheck(pr)
  PROVE  RInv'
<1>1. Job.pc = "recheck" /\ Job = jobs[pr]
  BY JobMoves DEF Recheck, At, Tidy, Base
<1>2. Together(Job)
  BY <1>1 DEF RInv, JobOK, PutBackOK
<1>3. /\ Job'.pc = "putback" /\ Job'.p = Job.p
      /\ Job'.snap = Job.snap /\ Job'.tok = Job.tok
  BY <1>1, <1>2, JobMoves DEF Recheck, Together, Tidy, Base
<1>4. UNCHANGED <<live, vault, issued, valid, revoked>> /\ SystemCopies' = SystemCopies
  BY SameSystem DEF Recheck, files, idp
<1>5. LiveCurrent'
  BY <1>1, <1>3, <1>4 DEF RInv, Places, LiveCurrent, Spent
<1>6. \A q \in Profiles : CopyCurrent(q)' /\ Behind(q)' /\ vault'[q].t <= issued'
  BY <1>1, <1>3, <1>4 DEF RInv, Places, CopyCurrent, Behind, LiveProfile, Has
<1>7. \A s \in SystemCopies' : SystemBehind(s)'
  BY <1>4 DEF RInv, Places, SystemBehind, Has
<1>8. Places'
  BY <1>4, <1>5, <1>6, <1>7 DEF RInv, Places
<1>9. JobOK(Job)'
  BY <1>1, <1>3, <1>4
     DEF RInv, JobOK, PresentOK, UpdateOK, PutBackOK, ResnapOK, RestoreOK, Together, Has
<1> QED
  BY <1>4, <1>8, <1>9 DEF RInv, NoReplay

LEMMA PutBackR ==
  ASSUME Tidy, Base, RInv, NEW pr \in Procs, PutBack(pr)
  PROVE  RInv'
<1> DEFINE tk == Job.tok
           p == Job.p
<1>1. Job.pc = "putback" /\ Job = jobs[pr]
  BY JobMoves DEF PutBack, At, Tidy, Base
<1>2. /\ p \in Profiles /\ Has(p) /\ tk \in valid /\ tk = vault[p]
      /\ Together(Job) /\ live.t < tk.t
  BY <1>1 DEF RInv, JobOK, PutBackOK
<1>3. Copy(p) = tk /\ tk.acct = Owner[p] /\ tk \in Files
  BY <1>2, CopyOwned
<1>4. ~LiveIsNewer(p)
  BY <1>2, <1>3, FileFacts, TokenFacts DEF LiveIsNewer
<1>5. /\ live' = tk /\ live'.acct = live.acct
      /\ UNCHANGED <<vault, issued, valid, revoked>> /\ SystemCopies' = SystemCopies
  BY <1>1, <1>2, <1>3, <1>4, SameSystem DEF PutBack, Restore, idp, Together
<1>6. Neutral(Job)' /\ (Job'.pc # "idle" => Job'.p = p)
  BY ReturnMoves DEF PutBack
<1>7. ASSUME NEW q \in Profiles PROVE CopyCurrent(q)' /\ Behind(q)'
  <2>1. CopyCurrent(q)'
    BY <1>1, <1>5 DEF RInv, Places, CopyCurrent
  <2>2. LiveProfile(q)' => q = p
    BY <1>2, <1>3, <1>5 DEF LiveProfile, Tidy
  <2> QED
    BY <1>2, <1>5, <2>1, <2>2 DEF Behind
<1>8. ASSUME NEW s \in SystemCopies' PROVE SystemBehind(s)'
  BY <1>2, <1>3, <1>5, <1>8 DEF RInv, Places, SystemBehind, Has
<1>9. Places'
  BY <1>2, <1>5, <1>7, <1>8 DEF RInv, Places, LiveCurrent
<1>10. JobOK(Job)'
  BY <1>2, <1>5, <1>6, NeutralNext DEF Has
<1> QED
  BY <1>5, <1>9, <1>10 DEF RInv, NoReplay

\* The profile the switch saves under is the one of the live account.
LEMMA ResnapshotR ==
  ASSUME Tidy, Base, RInv, NEW pr \in Procs, Resnapshot(pr)
  PROVE  RInv'
<1> DEFINE p == Job.p
           out == IF Job.cmd = "next" THEN Job.out ELSE ActiveProfile
           saves == out \in Profiles /\ out # p /\ live # NoToken
<1>1. Job.pc = "resnap" /\ Job = jobs[pr]
  BY JobMoves DEF Resnapshot, At, Tidy, Base
<1>2. p \in Profiles /\ Has(p) /\ ResnapOK(Job)
  BY <1>1 DEF RInv, JobOK
<1>3. \A q \in Profiles : LiveProfile(q) => out = q /\ live # NoToken
  BY <1>1, <1>2, ActiveFound DEF ResnapOK
<1>4. out \in Profiles => live.acct = Owner[out]
  BY <1>1, ActiveOwned DEF Base, OInv, Fits, OutgoingOwned
<1>5. /\ saves => vault' = [vault EXCEPT ![out] = live]
      /\ ~saves => vault' = vault
  BY <1>1 DEF Resnapshot, ResnapshotOutgoing, Backup
<1>6. UNCHANGED <<live, issued, valid, revoked>> /\ SystemCopies' = SystemCopies
  BY SameSystem DEF Resnapshot, idp
<1>7. Job'.pc = "restore" /\ Job'.p = p
  BY JobMoves DEF Resnapshot, Tidy, Base
<1>8. vault \in [Profiles -> Files]
  BY DEF Base, TInv, TypeOK
<1>9. \A q \in Profiles : /\ saves /\ q = out => vault'[q] = live
                          /\ ~(saves /\ q = out) => vault'[q] = vault[q]
  BY <1>5, <1>8
<1> HIDE DEF out
<1>10. ASSUME NEW q \in Profiles PROVE CopyCurrent(q)' /\ Behind(q)' /\ vault'[q].t <= issued'
  <2>1. CopyCurrent(q) /\ Behind(q) /\ vault[q].t <= issued /\ live.t <= issued
    BY DEF RInv, Places
  <2>2. CASE saves /\ q = out
    BY <1>4, <1>6, <1>9, <2>1, <2>2 DEF CopyCurrent, Behind
  <2>3. CASE ~(saves /\ q = out)
    BY <1>1, <1>6, <1>9, <2>1, <2>3 DEF CopyCurrent, Behind, LiveProfile, Has
  <2> QED
    BY <2>2, <2>3
<1>11. ASSUME NEW s \in SystemCopies' PROVE SystemBehind(s)'
  <2>1. SystemBehind(s)
    BY <1>6, <1>11 DEF RInv, Places
  <2>2. \A q \in Profiles : vault'[q] = vault[q] \/ (live.acct = Owner[q] /\ vault'[q] = live)
    BY <1>4, <1>9
  <2> QED
    BY <1>6, <2>1, <2>2 DEF SystemBehind, Has
<1>12. Places'
  BY <1>1, <1>6, <1>10, <1>11 DEF RInv, Places, LiveCurrent, Spent
<1>13. RestoreOK(Job)'
  <2>1. ASSUME NEW q \in Profiles, LiveProfile(q)' PROVE q = p \/ vault'[q] = live'
    <3>1. CASE saves /\ q = out
      BY <1>6, <1>9, <3>1
    <3>2. CASE ~(saves /\ q = out)
      BY <1>3, <1>6, <1>9, <2>1, <3>2 DEF LiveProfile, Has
    <3> QED
      BY <3>1, <3>2
  <2> QED
    BY <1>7, <2>1 DEF RestoreOK
<1>14. vault'[p] # NoToken
  BY <1>2, <1>9 DEF Has
<1>15. JobOK(Job)'
  BY <1>2, <1>7, <1>13, <1>14 DEF JobOK, PresentOK, UpdateOK, PutBackOK, ResnapOK, Has
<1> QED
  BY <1>6, <1>12, <1>15 DEF RInv, NoReplay

LEMMA RestoreTargetR ==
  ASSUME Tidy, Base, RInv, NEW pr \in Procs, RestoreTarget(pr)
  PROVE  RInv'
<1> DEFINE p == Job.p
<1>1. Job.pc = "restore" /\ Job = jobs[pr] /\ Job' = Idle
  BY JobMoves DEF RestoreTarget, At, Tidy, Base
<1>2. p \in Profiles /\ Has(p) /\ RestoreOK(Job)
  BY <1>1 DEF RInv, JobOK
<1>3. Copy(p) = vault[p] /\ vault[p].acct = Owner[p] /\ vault[p] \in Tokens
  BY <1>2, CopyOwned
<1>4. UNCHANGED <<vault, issued, valid, revoked>> /\ SystemCopies' = SystemCopies
  BY SameSystem DEF RestoreTarget, idp
<1>5. CASE LiveIsNewer(p)
  BY <1>1, <1>4, <1>5, IdlePoint, Settles DEF RestoreTarget, Restore, Between, Neutral
<1>6. CASE ~LiveIsNewer(p)
  <2>1. live' = vault[p]
    BY <1>1, <1>3, <1>6 DEF RestoreTarget, Restore
  <2>2. live = NoToken \/ live \in valid
    BY <1>1, LiveGood DEF Between
  <2>3. vault[p] \in valid
    <3>1. CASE LiveProfile(p)
      <4>1. live # NoToken /\ live.acct = Copy(p).acct
        BY <1>2, <1>3, <3>1, ActiveFound DEF LiveProfile
      <4>2. ~(vault[p].t < live.t)
        BY <1>3, <1>6, <4>1, TokenFacts, CopyOwned DEF LiveIsNewer
      <4>3. vault[p] = live
        BY <1>1, <1>2, <3>1, <4>2 DEF RInv, Places, Behind
      <4> QED
        BY <2>2, <4>1, <4>3
    <3>2. CASE ~LiveProfile(p)
      BY <1>1, <1>2, <3>2 DEF RInv, Places, CopyCurrent, LiveProfile, Has
    <3> QED
      BY <3>1, <3>2
  <2>4. ASSUME NEW q \in Profiles PROVE CopyCurrent(q)' /\ Behind(q)'
    <3>1. Owner[q] = Owner[p] => q = p
      BY <1>2 DEF Tidy
    <3>2. LiveProfile(q) /\ q # p => vault[q] \in valid
      BY <1>1, <1>2, <2>2, ActiveFound DEF RestoreOK
    <3>3. CopyCurrent(q)'
      BY <1>1, <1>2, <1>3, <1>4, <2>1, <2>3, <3>2
         DEF RInv, Places, CopyCurrent, LiveProfile, Has
    <3>4. Behind(q)'
      BY <1>3, <1>4, <2>1, <3>1 DEF Behind, LiveProfile
    <3> QED
      BY <3>3, <3>4
  <2>5. ASSUME NEW s \in SystemCopies' PROVE SystemBehind(s)'
    BY <1>2, <1>3, <1>4, <2>1, <2>5 DEF RInv, Places, SystemBehind, Has
  <2>6. Places'
    BY <1>2, <1>4, <2>1, <2>3, <2>4, <2>5 DEF RInv, Places, LiveCurrent
  <2>7. JobOK(Job)'
    BY <1>1, IdlePoint, NeutralNext DEF Neutral
  <2> QED
    BY <1>4, <2>6, <2>7 DEF RInv, NoReplay
<1> QED
  BY <1>5, <1>6

LEMMA StutterR ==
  ASSUME RInv, UNCHANGED vars
  PROVE  RInv'
<1>1. Job' = Job /\ SystemCopies' = SystemCopies
  BY DEF vars, Job, SystemCopies
<1>2. Places'
  BY <1>1 DEF vars, RInv, Places, LiveCurrent, Spent, CopyCurrent, Behind, LiveProfile, Has,
     SystemBehind
<1>3. JobOK(Job)'
  BY <1>1 DEF vars, RInv, JobOK, PresentOK, UpdateOK, PutBackOK, ResnapOK, RestoreOK, Apart,
     Together, LiveProfile, Has
<1> QED
  BY <1>2, <1>3 DEF RInv, NoReplay, vars

LEMMA RInvInit ==
  ASSUME Init
  PROVE  RInv
<1>1. Job = Idle
  BY AnyJob DEF Init
<1>2. SystemCopies = {NoToken}
  <2>1. DOMAIN backups = {}
    BY DEF Init
  <2> QED
    BY <2>1 DEF SystemCopies, Init
<1>3. /\ live = NoToken /\ issued = 0 /\ revoked = {}
      /\ \A p \in Profiles : vault[p] = NoToken
  BY DEF Init
<1>4. Places
  BY <1>2, <1>3, FileFacts
     DEF Places, LiveCurrent, CopyCurrent, Behind, LiveProfile, Has, SystemBehind
<1>5. JobOK(Job)
  BY <1>1, IdlePoint, NeutralOK DEF Neutral
<1> QED
  BY <1>3, <1>4, <1>5 DEF RInv, NoReplay

LEMMA RInvStep ==
  ASSUME Tidy, Base, RInv, [Next]_vars
  PROVE  RInv'
<1>1. CASE Rotate
  BY <1>1, RotateR
<1>2. CASE \E a \in Accounts : Login(a)
  BY <1>2, LoginR
<1>3. CASE \E pr \in Procs : Command(pr)
  <2>1. PICK pr \in Procs : Command(pr)
    BY <1>3
  <2>2. CASE Clear(pr)
    BY <2>2, ClearR
  <2>3. CASE \E p \in Profiles : Save(pr, p) \/ StartNext(pr, p)
    BY <2>3, SaveR, StartNextR
  <2>4. CASE \E p \in Targets : StartActivate(pr, p) \/ StartRefresh(pr, p)
    BY <2>4, StartActivateR, StartRefreshR
  <2> QED
    BY <2>1, <2>2, <2>3, <2>4 DEF Command
<1>4. CASE \E pr \in Procs : Step(pr)
  BY <1>4, BackupOriginalR, RefreshTargetR, NoRefreshR, PresentR, UpdateCodexAuthR, RecheckR,
     PutBackR, BackupBeforeSwitchR, ResnapshotR, RestoreTargetR DEF Step
<1>5. CASE \E pr \in Procs : Kill(pr)
  BY <1>5, KillR
<1>6. CASE UNCHANGED vars
  BY <1>6, StutterR
<1> QED
  BY <1>1, <1>2, <1>3, <1>4, <1>5, <1>6 DEF Next

\* Where the valid token of every login is, in every reachable state.
LEMMA RInvariance ==
  ASSUME Tidy
  PROVE  Spec => [](Base /\ RInv)
<1>1. Init => Base /\ RInv
  BY TInvInit, OInvInit, RInvInit DEF Base
<1>2. Base /\ RInv /\ [Next]_vars => (Base /\ RInv)'
  BY TInvStep, OInvStep, RInvStep DEF Base, Tidy
<1> QED
  BY <1>1, <1>2, PTL DEF Spec

\* No consumed refresh token is ever presented: with one profile per account
\* and one command at a time, no sequence of switches, refreshes, logins,
\* rotations, saves and kills gets a login revoked.
THEOREM NoTokenReplayed ==
  ASSUME Tidy
  PROVE  Spec => []NoReplay
<1>1. Base /\ RInv => NoReplay
  BY DEF RInv
<1> QED
  BY <1>1, RInvariance, PTL

\* Under the same conditions every profile that is not live can be activated:
\* its copy holds the token the identity provider accepts, or the process that
\* has just redeemed it holds its successor.
THEOREM SavedLoginUsable ==
  ASSUME Tidy
  PROVE  Spec => []SavedCopyUsable
<1>1. Job.pc = "update" => \E pr \in Procs : Job = jobs[pr]
  BY AnyJob, IdlePoint
<1>2. Base /\ RInv => SavedCopyUsable
  BY <1>1 DEF RInv, Places, CopyCurrent, SavedCopyUsable
<1> QED
  BY <1>2, RInvariance, PTL

-----------------------------------------------------------------------------
(* ActivateKeepsLogin.  From the smart backup on, until it writes the live   *)
(* file, activate knows a copy of the account it is about to replace.        *)

Saved == live = NoToken \/ \E tk \in Copies : tk.acct = live.acct
Known ==
  \A pr \in Procs :
    jobs[pr].cmd = "activate" /\ jobs[pr].pc \in {"resnap", "restore"} => Saved

\* One command is under way: any step that leaves it elsewhere is of no concern.
LEMMA Elsewhere ==
  ASSUME Alone, NEW pr \in Procs, jobs'[pr].pc \notin {"resnap", "restore"}
  PROVE  Known'
BY DEF Alone, Known

\* The entry just appended is among those RotateAutoBackups keeps.
LEMMA NewestKept ==
  ASSUME NEW bs \in Seq(Files), NEW tk \in Files
  PROVE  LET cs == RotateAutoBackups(Append(bs, tk))
         IN \E i \in DOMAIN cs : cs[i] = tk
<1> DEFINE as == Append(bs, tk)
           n == Len(as)
<1>1. as \in Seq(Files) /\ n \in Nat /\ n >= 1 /\ as[n] = tk
  OBVIOUS
<1>2. CASE n > MaxBackups
  <2> DEFINE m == n - MaxBackups + 1
             cs == SubSeq(as, m, n)
  <2>1. m \in 1 .. n /\ MaxBackups \in Nat \ {0}
    BY <1>1, <1>2, ConstantsAssumption
  <2>2. DOMAIN cs = 1 .. n - m + 1 /\ \A i \in 1 .. n - m + 1 : cs[i] = as[m + i - 1]
    BY <1>1, <2>1
  <2>3. n - m + 1 \in 1 .. n - m + 1 /\ m + (n - m + 1) - 1 = n
    BY <1>1, <2>1
  <2>4. RotateAutoBackups(as) = cs
    BY <1>2 DEF RotateAutoBackups
  <2> HIDE DEF as, n, m, cs
  <2>5. cs[n - m + 1] = tk /\ n - m + 1 \in DOMAIN cs
    BY <1>1, <2>2, <2>3
  <2> QED
    BY <2>4, <2>5 DEF as
<1>3. CASE ~(n > MaxBackups)
  <2>1. RotateAutoBackups(as) = as /\ DOMAIN as = 1 .. n
    BY <1>1, <1>3 DEF RotateAutoBackups
  <2> HIDE DEF as, n
  <2>2. n \in DOMAIN as /\ as[n] = tk
    BY <1>1, <2>1
  <2> QED
    BY <2>1, <2>2 DEF as
<1> QED
  BY <1>2, <1>3

LEMMA BackupBeforeSwitchKnown ==
  ASSUME Alone, TInv, NEW pr \in Procs, BackupBeforeSwitch(pr)
  PROVE  Saved'
<1>1. vault' = vault /\ live' = live /\ original' = original
  BY DEF BackupBeforeSwitch
<1>2. CASE NeedsBackup
  <2>1. live \in SystemCopies'
    BY <1>2, NewestKept DEF BackupBeforeSwitch, BackupCurrent, SystemCopies, TInv, TypeOK
  <2> QED
    BY <1>1, <2>1 DEF Saved, Copies
<1>3. CASE ~NeedsBackup
  <2>1. backups' = backups
    BY <1>3 DEF BackupBeforeSwitch
  <2>2. Copies' = Copies
    BY <1>1, <2>1 DEF Copies, SystemCopies
  <2>3. live = NoToken \/ Matching # {} \/ \E tk \in SystemCopies : tk.acct = live.acct
    BY <1>3 DEF NeedsBackup, ActiveProfile
  <2>4. Saved
    BY <2>3 DEF Saved, Copies, Matching
  <2> QED
    BY <1>1, <2>2, <2>4 DEF Saved
<1> QED
  BY <1>2, <1>3

\* The profile that is overwritten now holds the live login itself.
LEMMA ResnapshotKnown ==
  ASSUME Alone, TInv, Saved, NEW pr \in Procs, Resnapshot(pr)
  PROVE  Saved'
<1> DEFINE out == IF jobs[pr].cmd = "next" THEN jobs[pr].out ELSE ActiveProfile
<1>1. SystemCopies' = SystemCopies /\ live' = live
  BY SameSystem DEF Resnapshot
<1>2. \/ vault' = vault
      \/ out \in Profiles /\ vault' = [vault EXCEPT ![out] = live]
  BY DEF Resnapshot, ResnapshotOutgoing, Backup
<1>3. CASE vault' = vault
  BY <1>1, <1>3 DEF Saved, Copies
<1>4. CASE out \in Profiles /\ vault' = [vault EXCEPT ![out] = live]
  <2>1. vault'[out] = live
    BY <1>4 DEF TInv, TypeOK
  <2> QED
    BY <1>1, <1>4, <2>1 DEF Saved, Copies
<1> QED
  BY <1>2, <1>3, <1>4

LEMMA KnownStep ==
  ASSUME Alone, TInv, Known, [Next]_vars
  PROVE  Known'
<1>1. CASE Rotate
  <2>1. live \in Tokens
    BY <1>1 DEF TInv, TypeOK, Rotate, Files
  <2>2. live'.acct = live.acct /\ Copies' = Copies
    BY <1>1, <2>1 DEF Rotate, Tokens, Copies, SystemCopies
  <2>3. Saved => Saved'
    BY <1>1, <2>2 DEF Saved, Rotate
  <2> QED
    BY <1>1, <2>3 DEF Known, Rotate
<1>2. ASSUME NEW a \in Accounts, Login(a) PROVE Known'
  BY <1>2, IdlePoint DEF Login, Alone, Known
<1>3. ASSUME NEW pr \in Procs, Clear(pr) \/ \E p \in Profiles : Save(pr, p) PROVE Known'
  <2>1. jobs'[pr] = Idle
    BY <1>3 DEF Clear, Save
  <2> QED
    BY <2>1, IdlePoint, Elsewhere
<1>4. ASSUME NEW pr \in Procs, NEW p \in Profiles, StartNext(pr, p) PROVE Known'
  <2>1. jobs'[pr] = [Idle EXCEPT !.cmd = "next", !.pc = "resnap", !.p = p, !.out = ActiveProfile]
    BY <1>4 DEF StartNext, Begin, TInv, TypeOK
  <2>2. jobs'[pr].cmd # "activate"
    BY <2>1 DEF Idle
  <2> QED
    BY <2>2 DEF Alone, Known
<1>5. ASSUME NEW pr \in Procs, NEW p \in Targets, StartActivate(pr, p) \/ StartRefresh(pr, p)
      PROVE  Known'
  <2>1. jobs'[pr].pc \in {"original", "present"}
    BY <1>5 DEF StartActivate, StartRefresh, Begin, TInv, TypeOK, Idle
  <2> QED
    BY <2>1, Elsewhere
<1>6. ASSUME NEW pr \in Procs, Step(pr) \/ Kill(pr) PROVE Known'
  <2>1. jobs \in [Procs -> Jobs] /\ jobs[pr] \in Jobs
    BY <1>6 DEF TInv, TypeOK
  <2>2. /\ End(pr) => jobs'[pr].pc = "idle"
        /\ \A pc : Go(pr, pc) => jobs'[pr].pc = pc /\ jobs'[pr].cmd = jobs[pr].cmd
        /\ Return(pr) => jobs'[pr].pc \in {"idle", "backup"}
    BY <2>1, IdlePoint DEF End, Go, Return, Jobs
  <2>3. CASE BackupBeforeSwitch(pr)
    BY <2>3, BackupBeforeSwitchKnown DEF Known, Alone
  <2>4. CASE Resnapshot(pr)
    <3>1. jobs'[pr].cmd = "activate" => Saved'
      BY <2>2, <2>4, ResnapshotKnown DEF Resnapshot, At, Known
    <3> QED
      BY <3>1 DEF Known, Alone
  <2>5. CASE RefreshTarget(pr) \/ Present(pr)
    <3>1. jobs'[pr].pc \in {"present", "update", "idle", "backup"}
      BY <2>1, <2>2, <2>5 DEF RefreshTarget, Present, Jobs
    <3> QED
      BY <3>1, Elsewhere
  <2>6. CASE \/ BackupOriginal(pr) \/ NoRefresh(pr) \/ UpdateCodexAuth(pr) \/ Recheck(pr)
             \/ PutBack(pr) \/ RestoreTarget(pr) \/ Kill(pr)
    <3>1. jobs'[pr].pc \in {"choose", "backup", "recheck", "putback", "idle"}
      BY <2>2, <2>6 DEF BackupOriginal, NoRefresh, UpdateCodexAuth, Recheck, PutBack,
         RestoreTarget, Kill
    <3> QED
      BY <3>1, Elsewhere
  <2> QED
    BY <1>6, <2>3, <2>4, <2>5, <2>6 DEF Step
<1>7. CASE UNCHANGED vars
  BY <1>7 DEF vars, Known, Saved, Copies, SystemCopies
<1> QED
  BY <1>1, <1>2, <1>3, <1>4, <1>5, <1>6, <1>7 DEF Next, Command

\* While one command runs at a time and nobody logs in during it, activate
\* replaces the live file only when the vault has a copy of its account, for
\* any number of accounts and profiles and whatever max_auto_backups is: the
\* smart backup survives its own rotation, and the snapshot of the outgoing
\* profile writes that same account.
THEOREM ActivateLosesNoLogin ==
  ASSUME Alone
  PROVE  Spec => ActivateKeepsLogin
<1> DEFINE Keeps == Activates => live = NoToken \/ \E tk \in Copies : tk.acct = live.acct
<1>1. Init => Known
  BY IdlePoint DEF Init, Known
<1>2. TInv /\ Known /\ [Next]_vars => Known'
  BY KnownStep
<1>3. TInv /\ Known /\ [Next]_vars => [Keeps]_vars
  BY DEF Known, Saved, Activates, At
<1> QED
  BY <1>1, <1>2, <1>3, TInvInit, TInvStep, PTL DEF Spec, ActivateKeepsLogin
-----------------------------------------------------------------------------
(* CodexVault implements LoginKeeper.  What it takes besides RInv: the token    *)
(* on its way is of the login whose copies it replaces.                       *)

SameLogin(job) ==
  job.pc \in Between =>
    /\ job.snap # NoToken => live.fam = job.tok.fam
    /\ job.pc = "update" => vault[job.p].fam = job.tok.fam
LInv == SameLogin(Job)

LEMMA LoginRotated ==
  ASSUME NEW tk \in Tokens, NEW t
  PROVE  [tk EXCEPT !.t = t].fam = tk.fam /\ [tk EXCEPT !.t = t].acct = tk.acct
BY DEF Tokens

LEMMA RotateL ==
  ASSUME Tidy, Base, RInv, LInv, Rotate
  PROVE  LInv' /\ live'.fam = live.fam /\ live'.acct = live.acct
<1>1. live \in Tokens /\ Job' = Job /\ vault' = vault
  BY DEF Rotate, Base, TInv, TypeOK, Files, Job
<1>2. live'.fam = live.fam /\ live'.acct = live.acct
  BY <1>1, LoginRotated DEF Rotate
<1> QED
  BY <1>1, <1>2 DEF LInv, SameLogin

LEMMA PresentL ==
  ASSUME Tidy, Base, RInv, NEW pr \in Procs, Present(pr)
  PROVE  LInv'
<1> DEFINE tk == Job.tok
           new == [tk EXCEPT !.t = issued + 1]
           job == [Job EXCEPT !.pc = "update", !.tok = new]
<1>1. Job.pc = "present" /\ Job = jobs[pr] /\ Job \in Jobs
  BY JobMoves, JobType DEF Present, At, Tidy, Base
<1>2. /\ Job.p \in Profiles /\ tk \in valid /\ tk = vault[Job.p] /\ Has(Job.p)
      /\ Apart(Job) \/ (Together(Job) /\ live = tk)
  BY <1>1 DEF RInv, JobOK, PresentOK
<1>3. new.fam = tk.fam
  BY <1>2, CopyOwned, LoginRotated
<1>4. job.p = Job.p /\ job.snap = Job.snap /\ job.tok = new
  BY <1>1 DEF Jobs
<1>5. jobs' = [jobs EXCEPT ![pr] = job]
  BY <1>1, <1>2 DEF Present
<1>6. live' = live /\ vault' = vault
  BY DEF Present, files
<1> HIDE DEF job, new
<1>7. Job' = job
  BY <1>5, JobMoves DEF Tidy, Base
<1> QED
  BY <1>2, <1>3, <1>4, <1>6, <1>7 DEF LInv, SameLogin, Apart

LEMMA UpdateCodexAuthL ==
  ASSUME Tidy, Base, RInv, LInv, NEW pr \in Procs, UpdateCodexAuth(pr)
  PROVE  LInv'
<1>1. Job.pc = "update" /\ Job = jobs[pr]
  BY JobMoves DEF UpdateCodexAuth, At, Tidy, Base
<1>2. CASE Job.snap = NoToken
  <2>1. Neutral(Job)'
    BY <1>1, <1>2, ReturnMoves DEF UpdateCodexAuth
  <2> QED
    BY <2>1 DEF Neutral, LInv, SameLogin, Between
<1>3. CASE Job.snap # NoToken
  <2>1. Job'.pc = "recheck" /\ Job'.tok = Job.tok /\ live' = live
    BY <1>1, <1>3, JobMoves DEF UpdateCodexAuth, Tidy, Base
  <2> QED
    BY <1>1, <1>3, <2>1 DEF LInv, SameLogin, Between
<1> QED
  BY <1>2, <1>3

LEMMA RecheckL ==
  ASSUME Tidy, Base, RInv, LInv, NEW pr \in Procs, Recheck(pr)
  PROVE  LInv'
<1>1. Job.pc = "recheck" /\ Job = jobs[pr]
  BY JobMoves DEF Recheck, At, Tidy, Base
<1>2. Together(Job)
  BY <1>1 DEF RInv, JobOK, PutBackOK
<1>3. Job'.pc = "putback" /\ Job'.tok = Job.tok /\ live' = live
  BY <1>1, <1>2, JobMoves DEF Recheck, Together, Tidy, Base, files
<1> QED
  BY <1>1, <1>2, <1>3 DEF LInv, SameLogin, Between, Together

\* Every other step ends outside the refresh.
LEMMA OutsideL ==
  ASSUME Job'.pc \notin Between
  PROVE  LInv'
BY DEF LInv, SameLogin

LEMMA CommandOutside ==
  ASSUME Tidy, Base, NEW pr \in Procs, Command(pr)
  PROVE  Job'.pc \notin Between
<1>1. jobs[pr] = Idle
  BY DEF Command, Clear, Save, StartNext, StartActivate, StartRefresh, Begin
<1>2. \A job : jobs' = [jobs EXCEPT ![pr] = job] => Job' = job
  BY JobMoves DEF Tidy, Base
<1>3. CASE UNCHANGED jobs
  BY <1>1, <1>3, TheJob, IdlePoint DEF Between, Tidy
<1>4. CASE \E p \in Profiles : StartNext(pr, p)
  <2>1. PICK p \in Profiles : StartNext(pr, p)
    BY <1>4
  <2> DEFINE job == [Idle EXCEPT !.cmd = "next", !.pc = "resnap", !.p = p,
                                 !.out = ActiveProfile]
  <2>2. job.pc = "resnap"
    BY DEF Idle
  <2>3. jobs' = [jobs EXCEPT ![pr] = job]
    BY <2>1 DEF StartNext, Begin
  <2> HIDE DEF job
  <2> QED
    BY <1>2, <2>2, <2>3 DEF Between
<1>5. CASE \E p \in Targets : StartActivate(pr, p)
  <2>1. PICK p \in Targets : StartActivate(pr, p)
    BY <1>5
  <2> DEFINE job == [Idle EXCEPT !.cmd = "activate", !.pc = "original", !.p = p]
  <2>2. job.pc = "original"
    BY DEF Idle
  <2>3. jobs' = [jobs EXCEPT ![pr] = job]
    BY <2>1 DEF StartActivate, Begin
  <2> HIDE DEF job
  <2> QED
    BY <1>2, <2>2, <2>3 DEF Between
<1>6. CASE \E p \in Targets : StartRefresh(pr, p)
  <2>1. PICK p \in Targets : StartRefresh(pr, p)
    BY <1>6
  <2> DEFINE job == [Idle EXCEPT !.cmd = "refresh", !.pc = "present", !.p = p,
                                 !.snap = Snapshot(p), !.tok = Copy(p)]
  <2>2. job.pc = "present"
    BY DEF Idle
  <2>3. jobs' = [jobs EXCEPT ![pr] = job]
    BY <2>1 DEF StartRefresh, Begin
  <2> HIDE DEF job
  <2> QED
    BY <1>2, <2>2, <2>3 DEF Between
<1> QED
  BY <1>3, <1>4, <1>5, <1>6 DEF Command, Clear, Save

LEMMA StepOutside ==
  ASSUME Tidy, Base, RInv, NEW pr \in Procs, Step(pr),
         ~Present(pr), ~UpdateCodexAuth(pr), ~Recheck(pr)
  PROVE  Job'.pc \notin Between
<1>1. /\ \A pc : Go(pr, pc) => Job'.pc = pc
      /\ End(pr) => Job' = Idle
      /\ Return(pr) => Neutral(Job)'
  BY JobMoves, ReturnMoves DEF Tidy, Base
<1>2. CASE RefreshTarget(pr)
  <2> DEFINE job == [Job EXCEPT !.pc = "present", !.snap = Snapshot(Job.p), !.tok = Copy(Job.p)]
  <2>1. Job = jobs[pr] /\ Job \in Jobs
    BY JobMoves, JobType DEF Tidy, Base
  <2>2. job.pc = "present"
    BY <2>1 DEF Jobs
  <2>3. jobs' = [jobs EXCEPT ![pr] = job]
    BY <1>2, <2>1 DEF RefreshTarget
  <2> HIDE DEF job
  <2>4. Job' = job
    BY <2>3, JobMoves DEF Tidy, Base
  <2> QED
    BY <2>2, <2>4 DEF Between
<1>3. CASE BackupOriginal(pr) \/ NoRefresh(pr) \/ BackupBeforeSwitch(pr) \/ Resnapshot(pr)
  BY <1>1, <1>3 DEF BackupOriginal, NoRefresh, BackupBeforeSwitch, Resnapshot, Between
<1>4. CASE PutBack(pr) \/ RestoreTarget(pr)
  BY <1>1, <1>4, IdlePoint DEF PutBack, RestoreTarget, Neutral, Between
<1> QED
  BY <1>2, <1>3, <1>4 DEF Step

LEMMA LInvStep ==
  ASSUME Tidy, Base, RInv, LInv, [Next]_vars
  PROVE  LInv'
<1>1. CASE Rotate
  BY <1>1, RotateL
<1>2. CASE \E a \in Accounts : Login(a)
  <2>1. Job = Idle /\ Job' = Job
    BY <1>2, AnyJob DEF Login, Tidy, Alone, Job
  <2> QED
    BY <2>1, IdlePoint, OutsideL DEF Between
<1>3. CASE \E pr \in Procs : Command(pr)
  BY <1>3, CommandOutside, OutsideL
<1>4. CASE \E pr \in Procs : Step(pr)
  BY <1>4, PresentL, UpdateCodexAuthL, RecheckL, StepOutside, OutsideL
<1>5. CASE \E pr \in Procs : Kill(pr)
  <2>1. Job' = Idle
    BY <1>5, JobMoves DEF Kill, Tidy, Base
  <2> QED
    BY <2>1, IdlePoint, OutsideL DEF Between
<1>6. CASE UNCHANGED vars
  BY <1>6 DEF vars, LInv, SameLogin, Job
<1> QED
  BY <1>1, <1>2, <1>3, <1>4, <1>5, <1>6 DEF Next

-----------------------------------------------------------------------------
(* The mapping: the account and the login of each file, whose token is usable.   *)

Label(tk) == [acct |-> tk.acct, made |-> tk.fam]
KeptLogin(p) ==
  IF ~Has(p) THEN NoLogin ELSE IF LiveProfile(p) THEN Label(live) ELSE Label(vault[p])
Mapped == Session = Label(live) /\ Kept = [p \in Profiles |-> KeptLogin(p)]

LEMMA UsableLogin ==
  ASSUME NEW tk, Usable(tk)
  PROVE  LoginOf(tk) = Label(tk)
BY DEF LoginOf, Label

LEMMA NoFileNoLogin == LoginOf(NoToken) = NoLogin /\ Label(NoToken) = NoLogin
BY DEF LoginOf, Label, NoLogin, NoToken

\* The refresh of the one process carries the successor.
LEMMA OnItsWay ==
  ASSUME Job.pc \in Between, Job.tok \in valid, NEW tk, tk.fam = Job.tok.fam
  PROVE  Usable(tk)
<1>1. \E pr \in Procs : Job = jobs[pr]
  BY AnyJob, IdlePoint DEF Between
<1> QED
  BY <1>1 DEF Usable, Between

LEMMA LiveUsable ==
  ASSUME RInv, LInv, live # NoToken
  PROVE  Usable(live)
<1>1. CASE live \in valid
  BY <1>1 DEF Usable
<1>2. CASE Spent(Job)
  <2>1. Job.pc \in Between /\ live.fam = Job.tok.fam
    BY <1>2 DEF Spent, Between, LInv, SameLogin
  <2>2. Job.tok \in valid
    BY <2>1 DEF RInv, JobOK, UpdateOK, PutBackOK, Between
  <2> QED
    BY <2>1, <2>2, OnItsWay
<1> QED
  BY <1>1, <1>2 DEF RInv, Places, LiveCurrent

LEMMA CopyUsable ==
  ASSUME RInv, LInv, NEW p \in Profiles, Has(p), ~LiveProfile(p)
  PROVE  Usable(vault[p])
<1>1. CASE vault[p] \in valid
  BY <1>1 DEF Usable
<1>2. CASE Job.p = p /\ Job.pc = "update"
  <2>1. Job.pc \in Between /\ vault[p].fam = Job.tok.fam /\ Job.tok \in valid
    BY <1>2 DEF Between, LInv, SameLogin, RInv, JobOK, UpdateOK
  <2> QED
    BY <2>1, OnItsWay
<1> QED
  BY <1>1, <1>2 DEF RInv, Places, CopyCurrent, LiveProfile, Has

LEMMA MappedHolds ==
  ASSUME Tidy, Base, RInv, LInv
  PROVE  Mapped
<1>1. Session = Label(live)
  BY LiveUsable, UsableLogin, NoFileNoLogin DEF Session
<1>2. ASSUME NEW p \in Profiles PROVE LoginOf(Brings(p)) = KeptLogin(p)
  <2>1. CASE ~Has(p)
    BY <2>1, NoFileNoLogin DEF Has, Brings, KeptLogin
  <2>2. CASE Has(p) /\ ~LiveProfile(p)
    <3>1. live.acct # Owner[p] /\ Copy(p).acct = Owner[p]
      BY <2>2, CopyOwned DEF LiveProfile
    <3>2. Brings(p) = vault[p]
      BY <2>2, <3>1 DEF Brings, LiveIsNewer, Has
    <3> QED
      BY <2>2, <3>2, CopyUsable, UsableLogin DEF KeptLogin
  <2>3. CASE Has(p) /\ LiveProfile(p)
    <3>1. live # NoToken /\ live.acct = Owner[p] /\ vault[p].acct = Owner[p] /\ Copy(p) = vault[p]
      BY <2>3, ActiveFound, CopyOwned DEF LiveProfile
    <3>2. LoginOf(live) = Label(live)
      BY <3>1, LiveUsable, UsableLogin
    <3>3. CASE LiveIsNewer(p)
      BY <2>3, <3>2, <3>3 DEF Brings, KeptLogin, Has
    <3>4. CASE ~LiveIsNewer(p)
      <4>1. Brings(p) = vault[p]
        BY <2>3, <3>4 DEF Brings, Has
      <4>2. ~(vault[p].t < live.t)
        BY <3>1, <3>4, TokenFacts, CopyOwned DEF LiveIsNewer
      <4>3. CASE vault[p] = live
        BY <2>3, <3>2, <4>1, <4>3 DEF KeptLogin
      <4>4. CASE Job.p = p /\ Job.pc \in {"recheck", "putback"}
        <5>1. /\ Job.tok \in valid /\ vault[p] = Job.tok
              /\ Job.snap # NoToken /\ live.fam = Job.tok.fam
          BY <4>4 DEF RInv, JobOK, PutBackOK, Together, LInv, SameLogin, Between
        <5>2. Usable(vault[p]) /\ Label(vault[p]) = Label(live)
          BY <3>1, <5>1 DEF Usable, Label
        <5> QED
          BY <2>3, <4>1, <5>2, UsableLogin DEF KeptLogin
      <4> QED
        BY <2>3, <4>2, <4>3, <4>4 DEF RInv, Places, Behind
    <3> QED
      BY <3>3, <3>4
  <2> QED
    BY <2>1, <2>2, <2>3
<1> QED
  BY <1>1, <1>2 DEF Mapped, Kept

LEMMA IsALogin ==
  ASSUME Base
  PROVE  /\ live # NoToken => Label(live) # NoLogin
         /\ \A p \in Profiles : Has(p) <=> KeptLogin(p) # NoLogin
<1>1. \A tk \in Tokens : Label(tk).acct \in Accounts
  BY FileFacts DEF Label, Tokens
<1>2. \A tk \in Tokens : Label(tk) # NoLogin
  BY <1>1, FileFacts DEF NoLogin
<1>3. live # NoToken => live \in Tokens
  BY TokenFacts, FileFacts
<1>4. ASSUME NEW p \in Profiles PROVE Has(p) <=> KeptLogin(p) # NoLogin
  <2>1. Has(p) => vault[p] \in Tokens
    BY CopyOwned
  <2>2. LiveProfile(p) => live \in Tokens
    BY <1>3, FileFacts, CopyOwned DEF LiveProfile
  <2> QED
    BY <1>2, <2>1, <2>2 DEF KeptLogin
<1> QED
  BY <1>2, <1>3, <1>4

-----------------------------------------------------------------------------
(* The steps.                                                              *)

\* Files may change hands as long as they stand for the logins they stood for.
LEMMA SameLogins ==
  ASSUME Mapped, Mapped', live'.acct = live.acct, live'.fam = live.fam,
         \A p \in Profiles : vault'[p] = vault[p]
  PROVE  UNCHANGED <<Session, Kept>>
<1>1. Label(live') = Label(live)
  BY DEF Label
<1>2. \A p \in Profiles : KeptLogin(p)' = KeptLogin(p)
  BY <1>1 DEF KeptLogin, LiveProfile, Has
<1> QED
  BY <1>1, <1>2 DEF Mapped

LEMMA LoginK ==
  ASSUME Tidy, Base, RInv, Mapped, Mapped', NEW a \in Accounts, Login(a)
  PROVE  Keeper!SignIn(a)
<1>1. live'.acct = a /\ live'.fam = issued + 1 /\ issued' = issued + 1 /\ vault' = vault
  BY DEF Login
<1>2. Session' = [acct |-> a, made |-> issued + 1]
  BY <1>1 DEF Mapped, Label
<1>3. Job = Idle
  BY AnyJob DEF Login, Tidy, Alone
<1>4. ASSUME NEW p \in Profiles
      PROVE  KeptLogin(p)' = IF Kept[p] # NoLogin /\ Owner[p] = a THEN Session' ELSE Kept[p]
  <2>1. Kept[p] = KeptLogin(p) /\ (Has(p) <=> Kept[p] # NoLogin) /\ Session' = Label(live')
    BY IsALogin DEF Mapped
  <2>2. Has(p)' <=> Has(p)
    BY <1>1 DEF Has
  <2>3. CASE ~Has(p)
    BY <2>1, <2>2, <2>3 DEF KeptLogin
  <2>4. CASE Has(p) /\ Owner[p] = a
    BY <1>1, <2>1, <2>2, <2>4 DEF KeptLogin, LiveProfile
  <2>5. CASE Has(p) /\ Owner[p] # a
    <3>1. KeptLogin(p)' = Label(vault[p])
      BY <1>1, <2>2, <2>5 DEF KeptLogin, LiveProfile
    <3>2. LiveProfile(p) => vault[p] = live
      BY <1>3, <2>5, ExpendableSaved DEF LiveProfile, Login
    <3> QED
      BY <2>1, <2>5, <3>1, <3>2 DEF KeptLogin
  <2> QED
    BY <2>3, <2>4, <2>5
<1> QED
  BY <1>1, <1>2, <1>4 DEF Keeper!SignIn, Mapped

LEMMA ClearK ==
  ASSUME Tidy, Base, RInv, Mapped, Mapped', NEW pr \in Procs, Clear(pr)
  PROVE  Keeper!SignOut
<1>1. live # NoToken /\ live' = NoToken /\ vault' = vault /\ issued' = issued /\ Expendable
  BY DEF Clear, idp
<1>2. Job = Idle
  BY JobMoves DEF Clear, Tidy, Base
<1>3. Session # NoLogin /\ Session' = NoLogin
  BY <1>1, IsALogin, NoFileNoLogin DEF Mapped
<1>4. ASSUME NEW p \in Profiles PROVE KeptLogin(p)' = KeptLogin(p)
  <2>1. (Has(p)' <=> Has(p)) /\ ~LiveProfile(p)'
    BY <1>1, FileFacts, CopyOwned DEF Has, LiveProfile
  <2>2. LiveProfile(p) => vault[p] = live
    BY <1>1, <1>2, ExpendableSaved
  <2> QED
    BY <1>1, <2>1, <2>2 DEF KeptLogin
<1> QED
  BY <1>1, <1>3, <1>4 DEF Keeper!SignOut, Mapped

\* caam backup, and the snapshot of the outgoing profile.
LEMMA BackupK ==
  ASSUME Base, Mapped, Mapped', NEW p \in Profiles, Backup(p),
         live # NoToken, live.acct = Owner[p], live' = live, issued' = issued
  PROVE  Keeper!Keep(p)
<1>1. vault \in [Profiles -> Files] /\ vault' = [vault EXCEPT ![p] = live]
  BY DEF Backup, Base, TInv, TypeOK
<1>2. Session # NoLogin /\ Session.acct = Owner[p] /\ Session' = Session
  BY IsALogin DEF Mapped, Label
<1>3. ASSUME NEW q \in Profiles
      PROVE  KeptLogin(q)' = IF q = p THEN Session ELSE Kept[q]
  <2>1. Kept[q] = KeptLogin(q) /\ Session = Label(live)
    BY DEF Mapped
  <2>2. q = p => Has(q)' /\ LiveProfile(q)'
    BY <1>1 DEF Has, LiveProfile
  <2>3. q # p => vault'[q] = vault[q]
    BY <1>1
  <2> QED
    BY <2>1, <2>2, <2>3 DEF KeptLogin, Has, LiveProfile
<1>4. Kept' = [Kept EXCEPT ![p] = Session]
  BY <1>3 DEF Mapped
<1> QED
  BY <1>2, <1>4 DEF Keeper!Keep

LEMMA UpdateCodexAuthK ==
  ASSUME Tidy, Base, RInv, LInv, Mapped, Mapped', NEW pr \in Procs, UpdateCodexAuth(pr)
  PROVE  UNCHANGED <<Session, Kept>>
<1> DEFINE tk == Job.tok
           p == Job.p
<1>1. Job.pc = "update" /\ Job = jobs[pr]
  BY JobMoves DEF UpdateCodexAuth, At, Tidy, Base
<1>2. p \in Profiles /\ Has(p) /\ tk \in valid /\ tk.acct = Owner[p] /\ vault[p].fam = tk.fam
  BY <1>1 DEF RInv, JobOK, UpdateOK, LInv, SameLogin, Between
<1>3. tk # NoToken /\ vault[p].acct = Owner[p] /\ p # System
  BY <1>2, NotAToken, NamesDiffer, CopyOwned DEF Base, TInv, TypeOK
<1>4. vault' = [vault EXCEPT ![p] = tk] /\ vault \in [Profiles -> Files] /\ live' = live
  BY <1>1, <1>3 DEF UpdateCodexAuth, Base, TInv, TypeOK
<1>5. ASSUME NEW q \in Profiles PROVE KeptLogin(q)' = KeptLogin(q)
  <2>1. CASE q = p
    <3>1. Has(q)' /\ Label(vault'[q]) = Label(vault[q])
      BY <1>2, <1>3, <1>4, <2>1 DEF Has, Label
    <3> QED
      BY <1>2, <1>4, <2>1, <3>1 DEF KeptLogin, LiveProfile
  <2>2. CASE q # p
    BY <1>4, <2>2 DEF KeptLogin, LiveProfile, Has
  <2> QED
    BY <2>1, <2>2
<1> QED
  BY <1>4, <1>5 DEF Mapped

LEMMA PutBackK ==
  ASSUME Tidy, Base, RInv, LInv, Mapped, Mapped', NEW pr \in Procs, PutBack(pr)
  PROVE  UNCHANGED <<Session, Kept>>
<1>1. Job.pc = "putback" /\ Job = jobs[pr]
  BY JobMoves DEF PutBack, At, Tidy, Base
<1>2. /\ Job.p \in Profiles /\ Job.tok = vault[Job.p] /\ Together(Job) /\ live.fam = Job.tok.fam
  BY <1>1 DEF RInv, JobOK, PutBackOK, LInv, SameLogin, Between, Together
<1>3. live' = live \/ live' = Job.tok
  BY <1>1, <1>2, CopyOwned DEF PutBack, Restore
<1>4. vault' = vault
  BY DEF PutBack
<1> QED
  BY <1>2, <1>3, <1>4, SameLogins DEF Together

LEMMA RestoreTargetK ==
  ASSUME Tidy, Base, RInv, Mapped, Mapped', NEW pr \in Procs, RestoreTarget(pr)
  PROVE  Keeper!Switch(Job.p)
<1> DEFINE p == Job.p
<1>1. Job.pc = "restore" /\ Job = jobs[pr]
  BY JobMoves DEF RestoreTarget, At, Tidy, Base
<1>2. p \in Profiles /\ Has(p) /\ RestoreOK(Job)
  BY <1>1 DEF RInv, JobOK
<1>3. Copy(p) = vault[p] /\ vault[p].acct = Owner[p] /\ vault[p] \in Tokens
  BY <1>2, CopyOwned
<1>4. vault' = vault /\ issued' = issued
  BY DEF RestoreTarget, idp
<1>5. Kept[p] # NoLogin /\ Kept[p] = KeptLogin(p)
  BY <1>2, IsALogin DEF Mapped
<1>6. CASE LiveIsNewer(p)
  <2>1. live' = live /\ LiveProfile(p)
    BY <1>1, <1>2, <1>3, <1>6 DEF RestoreTarget, Restore, LiveIsNewer, LiveProfile
  <2>2. UNCHANGED <<Session, Kept>> /\ Kept[p] = Session
    BY <1>2, <1>4, <1>5, <2>1, SameLogins DEF KeptLogin, Mapped
  <2> QED
    BY <1>4, <1>5, <2>2 DEF Keeper!Switch
<1>7. CASE ~LiveIsNewer(p)
  <2>1. live' = vault[p]
    BY <1>1, <1>3, <1>7 DEF RestoreTarget, Restore
  <2>2. LiveProfile(p) => vault[p] = live
    <3>1. ASSUME LiveProfile(p) PROVE ~(vault[p].t < live.t)
      <4>1. live # NoToken /\ live.acct = Copy(p).acct
        BY <1>2, <1>3, <3>1, ActiveFound DEF LiveProfile
      <4> QED
        BY <1>3, <1>7, <4>1, TokenFacts, CopyOwned DEF LiveIsNewer
    <3> QED
      BY <1>1, <1>2, <3>1 DEF RInv, Places, Behind
  <2>3. Session' = Kept[p]
    BY <1>2, <1>5, <2>1, <2>2 DEF KeptLogin, Mapped
  <2>4. ASSUME NEW q \in Profiles PROVE KeptLogin(q)' = KeptLogin(q)
    <3>1. Has(q)' <=> Has(q)
      BY <1>4 DEF Has
    <3>2. CASE q = p
      BY <1>2, <1>3, <1>4, <2>1, <2>2, <3>1, <3>2 DEF KeptLogin, LiveProfile
    <3>3. CASE q # p
      <4>1. ~LiveProfile(q)'
        BY <1>2, <1>3, <2>1, <3>3 DEF LiveProfile, Tidy
      <4>2. LiveProfile(q) => vault[q] = live
        BY <1>1, <1>2, <3>3 DEF RestoreOK
      <4> QED
        BY <1>4, <3>1, <4>1, <4>2 DEF KeptLogin
    <3> QED
      BY <3>2, <3>3
  <2>5. Kept' = Kept
    BY <2>4 DEF Mapped
  <2> QED
    BY <1>4, <1>5, <2>3, <2>5 DEF Keeper!Switch
<1> QED
  BY <1>6, <1>7

LEMMA ResnapshotK ==
  ASSUME Tidy, Base, RInv, Mapped, Mapped', NEW pr \in Procs, Resnapshot(pr)
  PROVE  UNCHANGED <<Session, Kept, issued>> \/ \E p \in Profiles : Keeper!Keep(p)
<1> DEFINE out == IF Job.cmd = "next" THEN Job.out ELSE ActiveProfile
<1>1. Job.pc = "resnap" /\ Job = jobs[pr]
  BY JobMoves DEF Resnapshot, At, Tidy, Base
<1>2. out \in Profiles => live.acct = Owner[out]
  BY <1>1, ActiveOwned DEF Base, OInv, Fits, OutgoingOwned
<1>3. live' = live /\ issued' = issued
  BY DEF Resnapshot, idp
<1>4. ResnapshotOutgoing(out, Job.p)
  BY <1>1 DEF Resnapshot
<1> HIDE DEF out
<1>5. CASE out \in Profiles /\ live # NoToken /\ Backup(out)
  BY <1>2, <1>3, <1>5, BackupK
<1>6. CASE UNCHANGED vault
  BY <1>3, <1>6, SameLogins
<1> QED
  BY <1>4, <1>5, <1>6 DEF ResnapshotOutgoing

\* Saving, switching, logging in and clearing are the steps of LoginKeeper; a token that is
\* exchanged is a tick, and nothing else shows.
LEMMA KeeperStep ==
  ASSUME Tidy, Base, RInv, LInv, Mapped, Mapped', [Next]_vars
  PROVE  [Keeper!Next]_(Keeper!keeperVars)
<1>1. CASE Rotate
  <2>1. /\ live'.acct = live.acct /\ live'.fam = live.fam /\ vault' = vault
        /\ issued' = issued + 1 \/ issued' = issued
    BY <1>1, RotateL DEF Rotate, Redeem
  <2> QED
    BY <2>1, SameLogins DEF Keeper!Next, Keeper!Tick, Keeper!keeperVars
<1>2. CASE \E a \in Accounts : Login(a)
  BY <1>2, LoginK DEF Keeper!Next
<1>3. CASE \E pr \in Procs : Command(pr)
  <2>1. PICK pr \in Procs : Command(pr)
    BY <1>3
  <2>2. CASE Clear(pr)
    BY <2>2, ClearK DEF Keeper!Next
  <2>3. CASE \E p \in Profiles : Save(pr, p)
    <3>1. PICK p \in Profiles : Save(pr, p)
      BY <2>3
    <3>2. Keeper!Keep(p)
      BY <3>1, BackupK DEF Save, idp
    <3> QED
      BY <3>2 DEF Keeper!Next
  <2>4. CASE UNCHANGED <<files, idp>>
    BY <2>4, SameLogins DEF files, idp, Keeper!keeperVars
  <2> QED
    BY <2>1, <2>2, <2>3, <2>4 DEF Command, StartNext, StartActivate, StartRefresh
<1>4. CASE \E pr \in Procs : Step(pr)
  <2>1. PICK pr \in Procs : Step(pr)
    BY <1>4
  <2>2. CASE UNCHANGED <<live, vault, issued>>
    BY <2>2, SameLogins DEF Keeper!keeperVars
  <2>3. CASE Present(pr)
    <3>1. UNCHANGED <<live, vault>> /\ (issued' = issued + 1 \/ issued' = issued)
      BY <2>3 DEF Present, Redeem, files
    <3> QED
      BY <3>1, SameLogins DEF Keeper!Next, Keeper!Tick, Keeper!keeperVars
  <2>4. CASE UpdateCodexAuth(pr)
    BY <2>4, UpdateCodexAuthK DEF UpdateCodexAuth, idp, Keeper!keeperVars
  <2>5. CASE PutBack(pr)
    BY <2>5, PutBackK DEF PutBack, idp, Keeper!keeperVars
  <2>6. CASE Resnapshot(pr)
    BY <2>6, ResnapshotK DEF Keeper!Next, Keeper!keeperVars
  <2>7. CASE RestoreTarget(pr)
    <3>1. Job.p \in Profiles
      BY <2>7, JobMoves DEF RestoreTarget, At, RInv, JobOK, Tidy, Base
    <3> QED
      BY <2>7, <3>1, RestoreTargetK DEF Keeper!Next
  <2>8. \/ UNCHANGED <<live, vault, issued>>
        \/ Present(pr) \/ UpdateCodexAuth(pr) \/ PutBack(pr) \/ Resnapshot(pr)
        \/ RestoreTarget(pr)
    BY <2>1 DEF Step, BackupOriginal, RefreshTarget, NoRefresh, Recheck, BackupBeforeSwitch,
       files, idp
  <2> QED
    BY <2>2, <2>3, <2>4, <2>5, <2>6, <2>7, <2>8
<1>5. CASE \E pr \in Procs : Kill(pr)
  <2>1. UNCHANGED <<files, idp>>
    BY <1>5 DEF Kill
  <2> QED
    BY <2>1, SameLogins DEF files, idp, Keeper!keeperVars
<1>6. CASE UNCHANGED vars
  BY <1>6, SameLogins DEF vars, Keeper!keeperVars
<1> QED
  BY <1>1, <1>2, <1>3, <1>4, <1>5, <1>6 DEF Next

LEMMA KeeperInit ==
  ASSUME Init, Mapped
  PROVE  Keeper!Init
<1>1. Session = NoLogin
  BY NoFileNoLogin DEF Mapped, Init
<1>2. Kept = [p \in Profiles |-> NoLogin]
  BY DEF Mapped, KeptLogin, Has, Init
<1> QED
  BY <1>1, <1>2 DEF Keeper!Init, Init

\* The mapping is right in every reachable state.
LEMMA MappedInvariance ==
  ASSUME Tidy
  PROVE  Spec => [](Base /\ RInv /\ LInv /\ Mapped)
<1>1. Init => Base /\ RInv /\ LInv
  <2>1. Init => Base /\ RInv
    BY TInvInit, OInvInit, RInvInit DEF Base
  <2>2. Init => Job = Idle
    BY AnyJob DEF Init
  <2> QED
    BY <2>1, <2>2, IdlePoint DEF LInv, SameLogin, Between
<1>2. Base /\ RInv /\ LInv /\ [Next]_vars => (Base /\ RInv /\ LInv)'
  BY TInvStep, OInvStep, RInvStep, LInvStep DEF Base, Tidy
<1>3. Base /\ RInv /\ LInv => Mapped
  BY MappedHolds
<1> QED
  BY <1>1, <1>2, <1>3, PTL DEF Spec

\* Whatever caam copies, refreshes and is killed in, with one profile per account and one
\* command at a time: a switch brings back the login its profile keeps, and no profile loses
\* the login it keeps but to a later one of its account (activate, next, backup, clear, refresh).
THEOREM ImplementsKeeper ==
  ASSUME Tidy
  PROVE  Spec => KeeperSpec
<1>1. Init /\ Mapped => Keeper!Init
  BY KeeperInit
<1>2. Base /\ RInv /\ LInv /\ Mapped /\ Mapped' /\ [Next]_vars
        => [Keeper!Next]_(Keeper!keeperVars)
  BY KeeperStep
<1> QED
  BY <1>1, <1>2, MappedInvariance, PTL DEF Spec, KeeperSpec, Keeper!Spec
=============================================================================
