----------------------------- MODULE CodexVault -----------------------------
(***************************************************************************)
(* The vault of saved logins and the live file ~/.codex/auth.json           *)
(* (internal/authfile, internal/refresh, cmd/caam/cmd/activate.go and       *)
(* next.go).  OpenAI's refresh tokens rotate: presenting the token of a      *)
(* login yields its successor and consumes it, presenting a consumed one     *)
(* revokes the whole login.  The program copies such tokens between the      *)
(* live file and the vault while Codex itself rotates the live one, and      *)
(* nothing locks the two against each other.                                *)
(*                                                                         *)
(* A token stands for a whole auth.json: the account it identifies, the     *)
(* login (family) it descends from and the time it was issued, which is     *)
(* what codexFreshness reads.                                               *)
(***************************************************************************)
EXTENDS Integers, Sequences

CONSTANTS
  Accounts,     \* accounts one can log in to
  Profiles,     \* names of user profiles, in the order of Vault.List
  Owner,        \* the account the user keeps under each name
  Procs,        \* caam processes (command lines, the daemon)
  Quiet,        \* TRUE: codex does not rotate, and nobody logs in, while caam
                \* holds a copy of that login; and a profile is refreshed
                \* before codex has rotated it
  SystemTargets,  \* TRUE: the daemon refreshes _original, and a user activates it
  KillPoints,   \* where a caam process may be killed
  MaxBackups,   \* safety.max_auto_backups
  MaxIssued     \* bound: tokens issued in a behaviour

NoAccount == "none"
Nobody == 0     \* ActiveProfile's ""
System == -1    \* a system profile: its name begins with "_"; as a target, _original

ASSUME ConstantsAssumption ==
  /\ NoAccount \notin Accounts
  /\ Profiles \subseteq Nat \ {0}
  /\ Owner \in [Profiles -> Accounts]
  /\ Quiet \in BOOLEAN /\ SystemTargets \in BOOLEAN
  /\ MaxBackups \in Nat \ {0}
  /\ MaxIssued \in Nat

\* The directory listing has a first entry among any of its entries.
ASSUME ListAssumption ==
  \A S \in SUBSET Profiles : S # {} => \E p \in S : \A q \in S : p <= q

VARIABLES
  live,         \* ~/.codex/auth.json
  vault,        \* the saved copy of each user profile
  original,     \* the system profile _original
  backups,      \* the system profiles _backup_<time>, oldest first
  jobs,         \* what each caam process is doing
  issued,       \* tokens issued so far: the time
  valid,        \* the tokens the identity provider accepts
  revoked       \* the logins it has revoked after a reuse

files == <<live, vault, original, backups>>
idp == <<issued, valid, revoked>>
vars == <<live, vault, original, backups, jobs, issued, valid, revoked>>

NoToken == [acct |-> NoAccount, fam |-> 0, t |-> 0]
Tokens == [acct : Accounts, fam : 1 .. MaxIssued, t : 1 .. MaxIssued]
Files == Tokens \cup {NoToken}

Commands == {"none", "activate", "next", "refresh"}
Points == {"idle", "original", "choose", "present", "update", "recheck",
           "putback", "backup", "resnap", "restore"}
Jobs == [cmd : Commands, pc : Points, p : Profiles \cup {Nobody, System},
         out : Profiles \cup {Nobody, System}, snap : Files, tok : Files]
Idle == [cmd |-> "none", pc |-> "idle", p |-> Nobody, out |-> Nobody,
         snap |-> NoToken, tok |-> NoToken]

-----------------------------------------------------------------------------
(* The identity provider, and Codex rotating its own token.                *)

Redeem(tk) ==
  IF tk \in valid
    THEN /\ issued' = issued + 1
         /\ valid' = (valid \ {tk}) \cup {[tk EXCEPT !.t = issued + 1]}
         /\ UNCHANGED revoked
    ELSE /\ valid' = {v \in valid : v.fam # tk.fam}
         /\ revoked' = revoked \cup {tk.fam}
         /\ UNCHANGED issued

\* Processes that hold a copy of the live login which a rotation would age.
Holding(pr) ==
  \/ jobs[pr].pc = "restore"
  \/ /\ jobs[pr].pc \in {"present", "update", "recheck", "putback"}
     /\ jobs[pr].tok.acct = live.acct

Rotate ==
  /\ live # NoToken /\ issued < MaxIssued
  /\ Quiet => \A pr \in Procs : ~Holding(pr)
  /\ Redeem(live)
  /\ live' = IF live \in valid THEN [live EXCEPT !.t = issued + 1] ELSE live
  /\ UNCHANGED <<vault, original, backups, jobs>>

\* What the vault has, and whether the live file may go without leaving an
\* outdated copy there.
SystemCopies == {original} \cup {backups[i] : i \in DOMAIN backups}
Copies == {vault[p] : p \in Profiles} \cup SystemCopies
Expendable ==
  \/ live = NoToken
  \/ live \in Copies
  \/ \A tk \in Copies : tk.acct # live.acct

\* codex login, outside caam.  The user saves the previous login first.
Login(a) ==
  /\ issued < MaxIssued
  /\ live.acct = a \/ Expendable
  /\ Quiet => \A pr \in Procs : jobs[pr] = Idle
  /\ LET tk == [acct |-> a, fam |-> issued + 1, t |-> issued + 1]
     IN /\ live' = tk
        /\ valid' = valid \cup {tk}
  /\ issued' = issued + 1
  /\ UNCHANGED <<vault, original, backups, jobs, revoked>>

-----------------------------------------------------------------------------
(* internal/authfile                                                       *)

\* Detection goes by account, user profiles before system profiles.
Matching == {p \in Profiles : vault[p] # NoToken /\ vault[p].acct = live.acct}
ActiveProfile ==
  IF live = NoToken THEN Nobody
  ELSE IF Matching # {} THEN CHOOSE p \in Matching : \A q \in Matching : p <= q
  ELSE IF \E tk \in SystemCopies : tk.acct = live.acct THEN System
  ELSE Nobody

\* Variation: off by one.
KeepOneMore(bs) ==
  IF Len(bs) > MaxBackups + 1 THEN SubSeq(bs, Len(bs) - MaxBackups, Len(bs)) ELSE bs

\* RotateAutoBackups: the oldest go.
RotateAutoBackups(bs) ==
  IF Len(bs) > MaxBackups THEN SubSeq(bs, Len(bs) - MaxBackups + 1, Len(bs)) ELSE bs

BackupCurrent == backups' = RotateAutoBackups(Append(backups, live))

Backup(p) == vault' = [vault EXCEPT ![p] = live]

\* The profiles a command may name, and what the vault has of one.
Targets == Profiles \cup IF SystemTargets THEN {System} ELSE {}
Copy(p) == IF p = System THEN original ELSE vault[p]

\* Variation: switch without a snapshot.
NoResnapshot(outgoing, target) == UNCHANGED vault

\* Variation: the two names swapped.
ResnapshotTarget(outgoing, target) ==
  IF outgoing \in Profiles /\ outgoing # target /\ live # NoToken
    THEN Backup(target)
    ELSE UNCHANGED vault

ResnapshotOutgoing(outgoing, target) ==
  IF outgoing \in Profiles /\ outgoing # target /\ live # NoToken
    THEN Backup(outgoing)
    ELSE UNCHANGED vault

\* Variation: restore verbatim, as for every other tool.
NeverNewer(p) == FALSE

\* codexLiveIsNewer: the same account, strictly fresher.
LiveIsNewer(p) ==
  /\ live # NoToken
  /\ live.acct = Copy(p).acct
  /\ live.t > Copy(p).t

Restore(p) == live' = IF LiveIsNewer(p) THEN live ELSE Copy(p)

-----------------------------------------------------------------------------
(* Commands: one job at a time per process.                                *)

Begin(pr, job) == jobs[pr] = Idle /\ jobs' = [jobs EXCEPT ![pr] = job]
At(pr, pc) == jobs[pr].pc = pc
Go(pr, pc) == jobs' = [jobs EXCEPT ![pr].pc = pc]
End(pr) == jobs' = [jobs EXCEPT ![pr] = Idle]

\* caam backup codex <p>
Save(pr, p) ==
  /\ jobs[pr] = Idle
  /\ live # NoToken /\ live.acct = Owner[p]
  /\ Backup(p)
  /\ UNCHANGED <<live, original, backups, jobs, idp>>

\* caam clear codex
Clear(pr) ==
  /\ jobs[pr] = Idle
  /\ live # NoToken
  /\ Expendable
  /\ live' = NoToken
  /\ UNCHANGED <<vault, original, backups, jobs, idp>>

\* caam activate codex <p>
StartActivate(pr, p) ==
  /\ Copy(p) # NoToken
  /\ Begin(pr, [Idle EXCEPT !.cmd = "activate", !.pc = "original", !.p = p])
  /\ UNCHANGED <<files, idp>>

BackupOriginal(pr) ==
  /\ At(pr, "original")
  /\ original' = IF original = NoToken /\ ActiveProfile = Nobody THEN live ELSE original
  /\ Go(pr, "choose")
  /\ UNCHANGED <<live, vault, backups, idp>>

\* RefreshProfile starts: it snapshots the live file, compares it with the
\* vault's copy byte for byte and reads the token to present from that copy.
Snapshot(p) == IF live = Copy(p) THEN live ELSE NoToken
Refreshable(p) ==
  /\ Copy(p) # NoToken
  /\ Quiet => live.acct # Copy(p).acct \/ live = Copy(p)

\* refreshIfNeeded: the token is about to expire, or not.
RefreshTarget(pr) ==
  /\ At(pr, "choose")
  /\ Refreshable(jobs[pr].p)
  /\ LET p == jobs[pr].p
     IN jobs' = [jobs EXCEPT ![pr].pc = "present", ![pr].snap = Snapshot(p),
                             ![pr].tok = Copy(p)]
  /\ UNCHANGED <<files, idp>>
NoRefresh(pr) ==
  /\ At(pr, "choose")
  /\ Go(pr, "backup")
  /\ UNCHANGED <<files, idp>>

\* caam refresh, and the daemon's checkProfile
StartRefresh(pr, p) ==
  /\ Refreshable(p)
  /\ Begin(pr, [Idle EXCEPT !.cmd = "refresh", !.pc = "present", !.p = p,
                            !.snap = Snapshot(p), !.tok = Copy(p)])
  /\ UNCHANGED <<files, idp>>

\* RefreshProfile returns: activate goes on, whatever the result.
Return(pr) == IF jobs[pr].cmd = "activate" THEN Go(pr, "backup") ELSE End(pr)

\* RefreshCodexToken: a refused token ends the refresh.
Present(pr) ==
  /\ At(pr, "present") /\ issued < MaxIssued
  /\ LET tk == jobs[pr].tok
     IN /\ Redeem(tk)
        /\ IF tk \in valid
             THEN jobs' = [jobs EXCEPT ![pr].pc = "update",
                                       ![pr].tok = [tk EXCEPT !.t = issued + 1]]
             ELSE Return(pr)
  /\ UNCHANGED files

\* UpdateCodexAuth writes the answer into the vault's copy.
UpdateCodexAuth(pr) ==
  /\ At(pr, "update")
  /\ IF jobs[pr].p = System
       THEN original' = jobs[pr].tok /\ UNCHANGED vault
       ELSE vault' = [vault EXCEPT ![jobs[pr].p] = jobs[pr].tok] /\ UNCHANGED original
  /\ IF jobs[pr].snap # NoToken THEN Go(pr, "recheck") ELSE Return(pr)
  /\ UNCHANGED <<live, backups, idp>>

\* filesEqual, then Restore: two looks at the live file.
Recheck(pr) ==
  /\ At(pr, "recheck")
  /\ IF live = jobs[pr].snap THEN Go(pr, "putback") ELSE Return(pr)
  /\ UNCHANGED <<files, idp>>
PutBack(pr) ==
  /\ At(pr, "putback")
  /\ Restore(jobs[pr].p)
  /\ Return(pr)
  /\ UNCHANGED <<vault, original, backups, idp>>

\* Variation: _original taken for the backup of every login.
NeedsFirstBackup == live # NoToken /\ ActiveProfile = Nobody /\ original = NoToken

\* The smart backup of activate: only of a login no profile matches.
NeedsBackup == live # NoToken /\ ActiveProfile = Nobody
BackupBeforeSwitch(pr) ==
  /\ At(pr, "backup")
  /\ IF NeedsBackup THEN BackupCurrent ELSE UNCHANGED backups
  /\ Go(pr, "resnap")
  /\ UNCHANGED <<live, vault, original, idp>>

\* activate looks up the outgoing profile here, next did when it started.
Resnapshot(pr) ==
  /\ At(pr, "resnap")
  /\ LET outgoing == IF jobs[pr].cmd = "next" THEN jobs[pr].out ELSE ActiveProfile
     IN ResnapshotOutgoing(outgoing, jobs[pr].p)
  /\ Go(pr, "restore")
  /\ UNCHANGED <<live, original, backups, idp>>

\* After the stealth delay, which may take minutes.
RestoreTarget(pr) ==
  /\ At(pr, "restore")
  /\ Restore(jobs[pr].p)
  /\ End(pr)
  /\ UNCHANGED <<vault, original, backups, idp>>

\* caam next codex: no backup and no refresh, and the rotation leaves the
\* system profiles out.
StartNext(pr, p) ==
  /\ Copy(p) # NoToken
  /\ Begin(pr, [Idle EXCEPT !.cmd = "next", !.pc = "resnap", !.p = p,
                            !.out = ActiveProfile])
  /\ UNCHANGED <<files, idp>>

\* The process is killed: Ctrl-C during the delay, a shutdown.
Kill(pr) ==
  /\ jobs[pr].pc \in KillPoints
  /\ End(pr)
  /\ UNCHANGED <<files, idp>>

-----------------------------------------------------------------------------
Init ==
  /\ live = NoToken /\ original = NoToken /\ backups = <<>>
  /\ vault = [p \in Profiles |-> NoToken]
  /\ jobs = [pr \in Procs |-> Idle]
  /\ issued = 0 /\ valid = {} /\ revoked = {}

Step(pr) ==
  \/ BackupOriginal(pr) \/ RefreshTarget(pr) \/ NoRefresh(pr)
  \/ Present(pr) \/ UpdateCodexAuth(pr) \/ Recheck(pr) \/ PutBack(pr)
  \/ BackupBeforeSwitch(pr) \/ Resnapshot(pr) \/ RestoreTarget(pr)
Command(pr) ==
  \/ Clear(pr)
  \/ \E p \in Profiles : Save(pr, p) \/ StartNext(pr, p)
  \/ \E p \in Targets : StartActivate(pr, p) \/ StartRefresh(pr, p)

Next ==
  \/ Rotate
  \/ \E a \in Accounts : Login(a)
  \/ \E pr \in Procs : Command(pr) \/ Step(pr) \/ Kill(pr)

Spec == Init /\ [][Next]_vars

-----------------------------------------------------------------------------
\* Every file holds nothing or a whole login, and RotateAutoBackups keeps the
\* timestamped backups within safety.max_auto_backups.
TypeOK ==
  /\ live \in Files /\ original \in Files
  /\ vault \in [Profiles -> Files]
  /\ backups \in Seq(Files) /\ Len(backups) <= MaxBackups
  /\ jobs \in [Procs -> Jobs]
  /\ issued \in 0 .. MaxIssued
  /\ valid \subseteq Tokens
  /\ revoked \subseteq 1 .. MaxIssued

\* No consumed refresh token is ever presented, neither by a refresh of caam
\* nor by codex after caam restored one: no sequence of switches, refreshes,
\* logins, rotations and kills gets a login revoked (ResnapshotOutgoing, the
\* freshness guard of Restore, the write-back of RefreshProfile).
NoReplay == revoked = {}

\* A profile whose account is not the live one can be activated at any time:
\* its copy in the vault holds the current token of its login, however often
\* codex rotated it while it was live and wherever a switch was killed.
SavedCopyUsable ==
  \A p \in Profiles :
    \/ vault[p] = NoToken
    \/ live.acct = Owner[p]
    \/ vault[p] \in valid
    \/ \E pr \in Procs : jobs[pr].p = p /\ jobs[pr].pc = "update"

\* A profile keeps holding the account the user saved under its name, though a
\* switch writes the live file, whoever it belongs to, into the profile it
\* believes to be active (ActiveProfile, ResnapshotOutgoing).
OwnAccount == \A p \in Profiles : vault[p] = NoToken \/ vault[p].acct = Owner[p]

Activates ==
  \E pr \in Procs :
    jobs[pr].cmd = "activate" /\ At(pr, "restore") /\ jobs'[pr] = Idle /\ live' # live

\* activate does not throw away a login nobody has saved: when it replaces the
\* live file, the vault has a copy of that account (BackupOriginal and the
\* smart backup), which RotateAutoBackups has not removed meanwhile.
ActivateKeepsLogin ==
  [][Activates => live = NoToken \/ \E tk \in Copies : tk.acct = live.acct]_vars

\* The login a file stands for, or a lost one (made at 0) when its token is consumed
\* and no process is about to write the successor.
Usable(tk) ==
  \/ tk \in valid
  \/ \E pr \in Procs : /\ jobs[pr].pc \in {"update", "recheck", "putback"}
                      /\ jobs[pr].tok \in valid /\ jobs[pr].tok.fam = tk.fam
NoLogin == [acct |-> NoAccount, made |-> 0]
LoginOf(tk) == [acct |-> tk.acct, made |-> IF Usable(tk) THEN tk.fam ELSE 0]

\* What activating a profile would bring back.
Brings(p) ==
  IF vault[p] = NoToken THEN NoToken ELSE IF LiveIsNewer(p) THEN live ELSE vault[p]

Session == LoginOf(live)
Kept == [p \in Profiles |-> LoginOf(Brings(p))]

Keeper == INSTANCE LoginKeeper WITH session <- Session, kept <- Kept, clock <- issued

\* Whatever is copied, refreshed and killed in between, a switch brings back the login its
\* profile keeps and costs no other profile its own: caam implements LoginKeeper
\* (activate.go, next.go, refresh.go, Restore and Backup of authfile.go).
KeeperSpec == Keeper!Spec
=============================================================================
