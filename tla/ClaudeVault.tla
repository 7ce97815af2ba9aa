---------------------------- MODULE ClaudeVault ----------------------------
(***************************************************************************)
(* The vault of a tool whose login is several files: Claude Code            *)
(* (internal/authfile over ClaudeAuthFiles, `caam backup`, `activate`,      *)
(* `clear` and `delete`).  Each file is replaced atomically, a profile is   *)
(* not: Backup, Restore and ClearAuthFiles go from file to file, and the    *)
(* process can be killed before each of them.  A backup that fails before a *)
(* switch is a warning only.                                                *)
(*                                                                         *)
(* Two files stand for the set: the required .credentials.json and one of   *)
(* the optional files.  A login need not have both: whoever works with an   *)
(* API key has only the optional one (AllowOptionalOnly).  caam cannot      *)
(* refresh a Claude token; Claude Code rotates the tokens itself.           *)
(***************************************************************************)
EXTENDS Integers, Sequences

CONSTANTS
  Accounts,    \* accounts one can log in to
  Profiles,    \* names of user profiles, in the order of Vault.List
  Owner,       \* the account the user keeps under each name
  Holds,       \* the files of each account's login
  MaxBackups,  \* safety.max_auto_backups
  MaxIssued,   \* bound: tokens issued in a behaviour
  MaxMishaps   \* bound: commands killed and saves that failed

Nobody == 0    \* ActiveProfile's ""
System == -1   \* a name that begins with "_"
Files == 1 .. 2   \* in the order of ClaudeAuthFiles
Creds == 1        \* the required one

ASSUME ConstantsAssumption ==
  /\ Profiles \subseteq Nat \ {0} /\ Profiles # {}
  /\ Owner \in [Profiles -> Accounts]
  /\ Holds \in [Accounts -> (SUBSET Files) \ {{}}]
  /\ MaxBackups \in Nat \ {0} /\ MaxIssued \in Nat /\ MaxMishaps \in Nat

VARIABLES
  live,      \* the files of Claude Code
  vault,     \* the directory of each user profile
  original,  \* the directory _original
  kept,      \* _original exists, if only as an empty directory
  backups,   \* the directories _backup_<time>, oldest first
  job,       \* the command that runs
  issued,    \* tokens issued so far
  consumed,  \* tokens that have a successor
  mishaps,   \* commands killed and saves failed so far
  leftover,  \* history: the live files may be of two logins (Restore)
  mixed,     \* history: profiles that were saved while they were
  torn       \* history: a directory took some files of a login only, or files of two

state == <<live, vault, original, kept, backups>>
history == <<leftover, mixed, torn>>
vars == <<state, job, issued, consumed, mishaps, history>>

\* What a file identifies: an account and, in the credentials, a token; t = 0
\* when there is no file.
NoFile == [acct |-> CHOOSE a \in Accounts : TRUE, t |-> 0]
Contents == [acct : Accounts, t : 0 .. MaxIssued + 1]
Dirs == [Files -> Contents]
Empty == [f \in Files |-> NoFile]

Has(d, f) == d[f] # NoFile
Names == Profiles \cup {Nobody, System}
Points == {"idle", "save", "original", "copyOriginal", "backup", "copyBackup",
           "rotate", "resnap", "copyOut", "restore", "clear"}
\* missed (history): files the command may replace although it failed to save them.
Idle == [pc |-> "idle", p |-> Nobody, out |-> Nobody, f |-> Creds, missed |-> {}]

At(pc) == job.pc = pc

\* The command goes on to the next file, or to point pc after the last one.
NextFile(pc) ==
  job' = IF job.f + 1 \in Files THEN [job EXCEPT !.f = @ + 1]
         ELSE IF pc = "idle" THEN Idle
         ELSE [job EXCEPT !.pc = pc, !.f = Creds]

-----------------------------------------------------------------------------
(* Claude Code: between the commands, and while activate waits before the   *)
(* switch (stealth.switch_delay).  The other steps of a command follow one   *)
(* another at once.                                                        *)

Delay == At("restore") /\ job.f = Creds
Misses(fs) == job' = IF Delay THEN [job EXCEPT !.missed = @ \cup fs] ELSE job

\* /login.  Whose login has fewer files than the live one logs in after `caam clear`.
Login(a) ==
  /\ job = Idle \/ Delay
  /\ IF Creds \in Holds[a] THEN issued < MaxIssued /\ issued' = issued + 1
                            ELSE UNCHANGED issued
  /\ \A f \in Files : Has(live, f) => f \in Holds[a]
  /\ live' = [f \in Files |-> IF f \notin Holds[a] THEN NoFile
                              ELSE [acct |-> a, t |-> IF f = Creds THEN issued + 1
                                                      ELSE MaxIssued + 1]]
  /\ leftover' = FALSE /\ Misses(Files)
  /\ UNCHANGED <<vault, original, kept, backups, consumed, mishaps, mixed, torn>>

Rotate ==
  /\ job = Idle \/ Delay
  /\ issued < MaxIssued /\ issued' = issued + 1
  /\ Has(live, Creds) /\ live[Creds] \notin consumed
  /\ consumed' = consumed \cup {live[Creds]}
  /\ live' = [live EXCEPT ![Creds].t = issued + 1]
  /\ Misses({Creds})
  /\ UNCHANGED <<vault, original, kept, backups, mishaps, history>>

-----------------------------------------------------------------------------
(* internal/authfile                                                       *)

HasAuthFiles == \E f \in Files : Has(live, f)

\* The files that tell whose login is live: the required one alone if there is one.
Telling == IF Has(live, Creds) THEN {Creds} ELSE {f \in Files : Has(live, f)}
Matches(d) == \A f \in Telling : d[f] = live[f]
Matching == {p \in Profiles : Matches(vault[p])}

SystemDirs == {original} \cup {backups[i] : i \in DOMAIN backups}
ActiveProfile ==
  IF Telling = {} THEN Nobody
  ELSE IF Matching # {} THEN CHOOSE p \in Matching : \A q \in Matching : p <= q
  ELSE IF \E d \in SystemDirs : Matches(d) THEN System
  ELSE Nobody

\* Backup takes one file; what has no live file stays as it was.
Copied(d) == [d EXCEPT ![job.f] = IF Has(live, job.f) THEN live[job.f] ELSE @]

\* Variation: off by one.
KeepOneMore(bs) ==
  IF Len(bs) > MaxBackups + 1 THEN SubSeq(bs, Len(bs) - MaxBackups, Len(bs)) ELSE bs

\* RotateAutoBackups: the oldest go.
RotateAutoBackups(bs) ==
  IF Len(bs) > MaxBackups THEN SubSeq(bs, Len(bs) - MaxBackups + 1, Len(bs)) ELSE bs

-----------------------------------------------------------------------------
(* caam backup, clear and delete.                                          *)

\* The user names the profile after the account that is logged in, as far as the
\* files that tell it show.
StartSave(p) ==
  /\ job = Idle /\ HasAuthFiles
  /\ \A f \in Telling : live[f].acct = Owner[p]
  /\ job' = [Idle EXCEPT !.pc = "save", !.p = p]
  /\ UNCHANGED <<state, issued, consumed, mishaps, history>>

\* A directory takes a file while the live files may be of two logins.
Taints(p) ==
  /\ mixed' = IF leftover THEN mixed \cup ({p} \cap Profiles) ELSE mixed
  /\ torn' = (torn \/ leftover)

Save ==
  /\ At("save") /\ NextFile("idle")
  /\ vault' = [vault EXCEPT ![job.p] = Copied(@)]
  /\ Taints(job.p)
  /\ UNCHANGED <<live, original, kept, backups, issued, consumed, mishaps, leftover>>

StartClear ==
  /\ job = Idle /\ HasAuthFiles
  /\ job' = [Idle EXCEPT !.pc = "clear"]
  /\ UNCHANGED <<state, issued, consumed, mishaps, history>>

Clear ==
  /\ At("clear") /\ NextFile("idle")
  /\ live' = [live EXCEPT ![job.f] = NoFile]
  /\ leftover' = (leftover /\ job.f = Creds)
  /\ UNCHANGED <<vault, original, kept, backups, issued, consumed, mishaps, mixed, torn>>

Delete(p) ==
  /\ job = Idle /\ vault[p] # Empty
  /\ vault' = [vault EXCEPT ![p] = Empty]
  /\ mixed' = mixed \ {p}
  /\ UNCHANGED <<live, original, kept, backups, job, issued, consumed, mishaps, leftover, torn>>

-----------------------------------------------------------------------------
(* caam activate claude <p>                                                *)

StartActivate(p) ==
  /\ job = Idle /\ vault[p] # Empty
  /\ job' = [Idle EXCEPT !.pc = "original", !.p = p]
  /\ UNCHANGED <<state, issued, consumed, mishaps, history>>

\* BackupOriginal: once, and only of a login no profile matches.
BackupOriginal ==
  /\ At("original")
  /\ LET first == ~kept /\ HasAuthFiles /\ ActiveProfile = Nobody
     IN /\ kept' = (kept \/ first)
        /\ job' = [job EXCEPT !.pc = IF first THEN "copyOriginal" ELSE "backup"]
  /\ UNCHANGED <<live, vault, original, backups, issued, consumed, mishaps, history>>
CopyOriginal ==
  /\ At("copyOriginal") /\ NextFile("backup")
  /\ original' = Copied(original)
  /\ Taints(System)
  /\ UNCHANGED <<live, vault, kept, backups, issued, consumed, mishaps, leftover>>

\* Variation: _original taken for the backup of every login.
NeedsFirstBackup == HasAuthFiles /\ ActiveProfile = Nobody /\ ~kept

\* The smart backup, of a login no profile matches.
NeedsBackup == HasAuthFiles /\ ActiveProfile = Nobody
BackupCurrent ==
  /\ At("backup")
  /\ IF NeedsBackup
       THEN backups' = Append(backups, Empty) /\ job' = [job EXCEPT !.pc = "copyBackup"]
       ELSE job' = [job EXCEPT !.pc = "resnap"] /\ UNCHANGED backups
  /\ UNCHANGED <<live, vault, original, kept, issued, consumed, mishaps, history>>
CopyBackup ==
  /\ At("copyBackup") /\ NextFile("rotate")
  /\ backups' = [backups EXCEPT ![Len(backups)] = Copied(@)]
  /\ Taints(System)
  /\ UNCHANGED <<live, vault, original, kept, issued, consumed, mishaps, leftover>>
RotateBackups ==
  /\ At("rotate") /\ job' = [job EXCEPT !.pc = "resnap"]
  /\ backups' = RotateAutoBackups(backups)
  /\ UNCHANGED <<live, vault, original, kept, issued, consumed, mishaps, history>>

\* Variation: the two names swapped.
TargetForOutgoing(outgoing) == job.p

\* The profile ResnapshotOutgoing writes to, if it writes.  Live files of two logins
\* may be taken for saved although only those that tell are compared.
Resnapshots(outgoing) ==
  IF outgoing \in Profiles /\ outgoing # job.p /\ HasAuthFiles THEN outgoing ELSE Nobody
Resnapshot ==
  /\ At("resnap")
  /\ LET out == Resnapshots(ActiveProfile)
     IN job' = [job EXCEPT !.pc = IF out = Nobody THEN "restore" ELSE "copyOut", !.out = out,
                           !.missed = IF leftover THEN @ \cup (Files \ {Creds}) ELSE @]
  /\ UNCHANGED <<state, issued, consumed, mishaps, history>>
CopyOutgoing ==
  /\ At("copyOut") /\ NextFile("restore")
  /\ vault' = [vault EXCEPT ![job.out] = Copied(@)]
  /\ Taints(job.out)
  /\ UNCHANGED <<live, original, kept, backups, issued, consumed, mishaps, leftover>>

Mishap ==
  /\ mishaps < MaxMishaps /\ mishaps' = mishaps + 1
  /\ torn' = (torn \/ job.f # Creds)

\* The backup (a second one within a second is refused), a file of it, its rotation or
\* a file of the re-snapshot fails: a warning, and activate goes on.
NotSaved ==
  CASE At("backup") -> Files
    [] At("copyBackup") -> {f \in Files : f >= job.f}
    [] At("copyOut") -> {f \in Files : f >= job.f} \ Telling
    [] OTHER -> {}
SaveFails ==
  /\ \/ At("backup") /\ NeedsBackup
     \/ job.pc \in {"copyBackup", "rotate", "copyOut"}
  /\ job' = [job EXCEPT !.pc = IF At("copyOut") THEN "restore" ELSE "resnap", !.f = Creds,
                        !.missed = @ \cup NotSaved]
  /\ Mishap
  /\ UNCHANGED <<state, issued, consumed, leftover, mixed>>

\* A live file which the profile has no copy of stays.
PassedOver == Has(live, job.f) /\ ~Has(vault[job.p], job.f)
StillLeftover == PassedOver \/ IF job.f = Creds THEN job.p \in mixed ELSE leftover

\* Variation: only the required file is restored.
RestoreRequired ==
  /\ At("restore") /\ NextFile("idle")
  /\ live' = IF job.f = Creds /\ Has(vault[job.p], Creds)
               THEN [live EXCEPT ![Creds] = vault[job.p][Creds]] ELSE live
  /\ leftover' = StillLeftover
  /\ UNCHANGED <<vault, original, kept, backups, issued, consumed, mishaps, mixed, torn>>

\* Restore takes one file.  Its first step judges the live files anew.
Restore ==
  /\ At("restore") /\ NextFile("idle")
  /\ live' = IF Has(vault[job.p], job.f)
               THEN [live EXCEPT ![job.f] = vault[job.p][job.f]] ELSE live
  /\ leftover' = StillLeftover
  /\ UNCHANGED <<vault, original, kept, backups, issued, consumed, mishaps, mixed, torn>>

\* Ended before the next file: Ctrl-C, a shutdown, an error the command stops at.
Kill ==
  /\ job # Idle /\ job' = Idle
  /\ Mishap
  /\ leftover' = (leftover \/ (At("restore") /\ job.f # Creds))
  /\ UNCHANGED <<state, issued, consumed, mixed>>

-----------------------------------------------------------------------------
Init ==
  /\ live = Empty /\ original = Empty /\ kept = FALSE /\ backups = <<>>
  /\ vault = [p \in Profiles |-> Empty]
  /\ job = Idle /\ issued = 0 /\ consumed = {} /\ mishaps = 0
  /\ leftover = FALSE /\ mixed = {} /\ torn = FALSE

Activate ==
  \/ BackupOriginal \/ CopyOriginal \/ BackupCurrent \/ CopyBackup \/ RotateBackups
  \/ Resnapshot \/ CopyOutgoing \/ SaveFails \/ Restore
Next ==
  \/ Rotate \/ StartClear \/ Clear \/ Save \/ Activate \/ Kill
  \/ \E a \in Accounts : Login(a)
  \/ \E p \in Profiles : StartSave(p) \/ StartActivate(p) \/ Delete(p)

Spec == Init /\ [][Next]_vars

-----------------------------------------------------------------------------
\* Every directory holds whole files, and between commands the timestamped
\* backups exceed safety.max_auto_backups by those a mishap cut short at most.
TypeOK ==
  /\ live \in Dirs /\ original \in Dirs /\ vault \in [Profiles -> Dirs]
  /\ backups \in Seq(Dirs) /\ (job = Idle => Len(backups) <= MaxBackups + mishaps)
  /\ job \in [pc : Points, p : Names, out : Names, f : Files, missed : SUBSET Files]
  /\ {kept, leftover, torn} \subseteq BOOLEAN /\ mixed \subseteq Profiles
  /\ issued \in 0 .. MaxIssued /\ mishaps \in 0 .. MaxMishaps
  /\ consumed \subseteq Contents

\* The credentials in the directory of a profile are those of its account, whatever
\* was killed, failed or left over: neither a switch nor its snapshot of the
\* outgoing profile puts another account's there.  The optional file is its own
\* too, unless the profile was saved while the live files were of two logins.
OwnFiles ==
  \A p \in Profiles, f \in Files :
    (f = Creds \/ p \notin mixed) => ~Has(vault[p], f) \/ vault[p][f].acct = Owner[p]

\* Between commands the live files are one account's, unless the last switch stopped
\* on the way, had to pass over a live file (its profile has no copy of it and
\* Restore removes nothing, authfile.go:806), or brought back a profile that was
\* saved in that state.
OneAccount ==
  (job = Idle /\ ~leftover /\ Has(live, 1) /\ Has(live, 2)) => live[1].acct = live[2].acct

\* Activate does not throw away a login nobody has saved: what it replaces is in the
\* vault, wherever earlier commands were killed, except what it has warned about
\* (a backup or re-snapshot that failed) or what changed while it waited
\* (activate.go:357, 386, 397).  That the optional file is there too needs
\* directories and live files of one whole login.
SwitchKeepsLogin ==
  [][At("restore") =>
       \A f \in Files \ job.missed :
         (live'[f] # live[f] /\ Has(live, f) /\ (~torn \/ f = Creds)) =>
           \E d \in SystemDirs \cup {vault[p] : p \in Profiles} : d[f] = live[f]]_vars

\* When activate is about to replace the login of another profile, that profile
\* has its current token, which Claude Code may have rotated since: what the
\* snapshot of the outgoing profile is for (activate.go:379).
SavedIsCurrent ==
  Delay /\ Has(live, Creds) /\ Creds \notin job.missed =>
    \A p \in Profiles \ {job.p} :
      Owner[p] = live[Creds].acct => vault[p][Creds] \notin consumed

\* The live files are one account's after a switch that was neither killed nor failed.
WholeSwitch ==
  (job = Idle /\ mishaps = 0 /\ Has(live, 1) /\ Has(live, 2)) => live[1].acct = live[2].acct
=============================================================================
