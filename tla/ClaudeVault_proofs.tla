------------------------- MODULE ClaudeVault_proofs -------------------------
(***************************************************************************)
(* The vault of Claude's logins for any profiles, accounts, tokens, logins  *)
(* of any of the files, and any number of commands killed and saves that    *)
(* failed.                                                                  *)
(***************************************************************************)
EXTENDS ClaudeVault, SequenceTheorems, WellFoundedInduction, TLAPS

-----------------------------------------------------------------------------
(* The invariant: types.                                                   *)

Activating == {"original", "copyOriginal", "backup", "copyBackup", "rotate", "resnap",
               "copyOut", "restore"}

Typed ==
  /\ live \in Dirs /\ original \in Dirs /\ vault \in [Profiles -> Dirs]
  /\ backups \in Seq(Dirs)
  /\ job \in [pc : Points, p : Names, out : Names, f : Files, missed : SUBSET Files]
  /\ kept \in BOOLEAN /\ leftover \in BOOLEAN /\ torn \in BOOLEAN /\ mixed \subseteq Profiles
  /\ issued \in 0 .. MaxIssued /\ mishaps \in 0 .. MaxMishaps
  /\ consumed \subseteq Contents

\* The command that runs, what it works on, and what it failed to save so far.
Jobs ==
  /\ At("idle") => job = Idle
  /\ job.pc \in Activating \cup {"save"} => job.p \in Profiles
  /\ At("copyOut") => job.out \in Profiles /\ job.out # job.p
  /\ job.pc \in {"original", "backup", "rotate", "resnap"} => job.f = Creds
  /\ job.pc \in {"original", "copyOriginal", "backup", "copyBackup", "rotate"} => job.missed = {}
  /\ At("resnap") => job.missed \in {{}, {2}, Files}

\* A mishap leaves at most one backup more than the next rotation would have.
Bounded ==
  /\ job.pc \in {"copyBackup", "rotate"} =>
       Len(backups) >= 1 /\ Len(backups) <= MaxBackups + mishaps + 1
  /\ job.pc \notin {"copyBackup", "rotate"} => Len(backups) <= MaxBackups + mishaps

-----------------------------------------------------------------------------
(* The invariant: whose files they are, whatever was killed or failed.     *)

AtSecond(pc) == At(pc) /\ job.f = 2

OwnCredentials == \A p \in Profiles : Has(vault[p], Creds) => vault[p][Creds].acct = Owner[p]
OwnOptional ==
  \A p \in Profiles \ mixed : Has(vault[p], 2) => vault[p][2].acct = Owner[p]

\* What is copied into a profile: its own login, as far as the telling files show.
CopiesOwn ==
  /\ At("save") => HasAuthFiles /\ \A f \in Telling : live[f].acct = Owner[job.p]
  /\ At("copyOut") => HasAuthFiles /\ Matches(vault[job.out])

LiveOne ==
  ~leftover /\ Has(live, 1) /\ Has(live, 2) /\ ~AtSecond("restore") => live[1].acct = live[2].acct
Restoring ==
  AtSecond("restore") /\ ~leftover => job.p \notin mixed /\ live[Creds] = vault[job.p][Creds]

OneLogin == OwnCredentials /\ OwnOptional /\ CopiesOwn /\ LiveOne /\ Restoring

-----------------------------------------------------------------------------
(* The invariant: what a switch replaces has been saved.                   *)

Vaulted == {vault[p] : p \in Profiles}
Saved(f) == \E d \in SystemDirs \cup Vaulted : d[f] = live[f]
Known == \E d \in SystemDirs \cup Vaulted : Matches(d)
\* Directory d has the live file f, if there is one.
Kept(d, f) == Has(live, f) => d[f] = live[f]
Last == backups[Len(backups)]

\* From the backup of the live login on, some directory has it.
BackedUp ==
  /\ AtSecond("copyBackup") => Kept(Last, Creds)
  /\ At("rotate") => \A f \in Files : Kept(Last, f)
  /\ At("resnap") /\ HasAuthFiles /\ Telling \cap job.missed = {} => Known
  /\ At("restore") /\ job.f = Creds /\ Has(live, Creds) /\ Creds \notin job.missed => Saved(Creds)

-----------------------------------------------------------------------------
(* The invariant: whole logins, until a directory takes a part of one.     *)

LoginOf(a, d) ==
  \A f \in Files : IF f \in Holds[a]
                     THEN Has(d, f) /\ d[f].acct = a /\ (f = 2 => d[f].t = MaxIssued + 1)
                     ELSE ~Has(d, f)
Whole(d) == (\A f \in Files : ~Has(d, f)) \/ \E a \in Accounts : LoginOf(a, d)

WholeDirs ==
  /\ \A p \in Profiles :
       \/ Whole(vault[p])
       \/ AtSecond("save") /\ p = job.p
       \/ AtSecond("copyOut") /\ p = job.out
  /\ Whole(original) \/ AtSecond("copyOriginal")
  /\ \A i \in DOMAIN backups :
       Whole(backups[i]) \/ (AtSecond("copyBackup") /\ i = Len(backups))
  /\ Whole(live) \/ leftover \/ AtSecond("restore") \/ AtSecond("clear")

\* Directory d is to become a copy of the live files, and has the first of them.
Fits(d) == \A f \in Files : Has(d, f) => Has(live, f)
HalfCopied(d) == ~leftover /\ Fits(d) /\ d[Creds] = live[Creds]

WholeJob ==
  /\ mixed = {}
  /\ ~kept => original = Empty /\ ~At("copyOriginal")
  /\ At("copyOriginal") /\ job.f = Creds => original = Empty
  /\ At("copyBackup") /\ job.f = Creds => Last = Empty
  /\ AtSecond("save") => HalfCopied(vault[job.p])
  /\ AtSecond("copyOriginal") => HalfCopied(original)
  /\ AtSecond("copyBackup") => HalfCopied(Last)
  /\ AtSecond("copyOut") => HalfCopied(vault[job.out])
  /\ AtSecond("clear") => ~Has(live, Creds)

SavedOptional == At("restore") /\ Has(live, 2) /\ 2 \notin job.missed => Saved(2)

WholeLogins == WholeDirs /\ WholeJob /\ SavedOptional

Safe == Typed /\ Jobs /\ Bounded /\ OneLogin /\ BackedUp
IInv == Safe /\ (~torn => WholeLogins)

-----------------------------------------------------------------------------
(* Files, directories and the list of backups.                             *)

LEMMA FilesAre == Files = {1, 2} /\ Creds \in Files
BY DEF Files, Creds

LEMMA EmptyDir == Empty \in Dirs /\ NoFile \in Contents /\ \A f \in Files : ~Has(Empty, f)
<1>1. Accounts # {}
  BY ConstantsAssumption
<1>2. NoFile \in Contents
  BY <1>1, ConstantsAssumption DEF NoFile, Contents
<1> QED
  BY <1>2 DEF Empty, Dirs, Has

LEMMA NotEmptyDir ==
  ASSUME NEW d \in Dirs, d # Empty
  PROVE  \E f \in Files : Has(d, f)
BY DEF Empty, Dirs, Has

\* What Backup makes of a directory.
LEMMA CopiedDir ==
  ASSUME live \in Dirs, job.f \in Files, NEW d \in Dirs
  PROVE  /\ Copied(d) \in Dirs
         /\ \A f \in Files :
              Copied(d)[f] = IF f = job.f /\ Has(live, f) THEN live[f] ELSE d[f]
BY DEF Copied, Dirs

\* The next file, and what follows the last one.
JobType == [pc : Points, p : Names, out : Names, f : Files, missed : SUBSET Files]

LEMMA NextFileFirst ==
  ASSUME job \in JobType, job.f = Creds, NEW q, NextFile(q)
  PROVE  /\ job' \in JobType
         /\ job'.pc = job.pc /\ job'.p = job.p /\ job'.out = job.out /\ job'.f = 2
         /\ job'.missed = job.missed
BY FilesAre DEF NextFile, JobType, Creds

LEMMA NextFileLast ==
  ASSUME job \in JobType, job.f # Creds, NEW q \in Points, NextFile(q)
  PROVE  IF q = "idle" THEN job' = Idle
         ELSE job' \in JobType /\ job'.pc = q /\ job'.p = job.p /\ job'.out = job.out
              /\ job'.f = Creds /\ job'.missed = job.missed
<1>1. job.f = 2
  BY FilesAre DEF JobType, Creds
<1>2. job.f + 1 \notin Files
  BY <1>1, FilesAre
<1> QED
  BY <1>2, FilesAre DEF NextFile, JobType

LEMMA IdleJob == /\ Idle \in JobType /\ Idle.pc = "idle" /\ Idle.p = Nobody /\ Idle.out = Nobody
                 /\ Idle.f = Creds /\ Idle.missed = {}
BY FilesAre DEF Idle, JobType, Points, Names

\* The list of backups: a new one, a file of the newest, the rotation.
LEMMA AppendedBackup ==
  ASSUME backups \in Seq(Dirs), backups' = Append(backups, Empty)
  PROVE  /\ backups' \in Seq(Dirs) /\ Len(backups') = Len(backups) + 1
         /\ \A i \in DOMAIN backups : i \in DOMAIN backups' /\ backups'[i] = backups[i]
         /\ \A i \in DOMAIN backups' : i \in DOMAIN backups \/ backups'[i] = Empty
BY EmptyDir, AppendProperties, LenProperties

LEMMA CopiedBackup ==
  ASSUME Typed, Len(backups) >= 1, backups' = [backups EXCEPT ![Len(backups)] = Copied(@)]
  PROVE  /\ backups' \in Seq(Dirs) /\ Len(backups') = Len(backups)
         /\ DOMAIN backups' = DOMAIN backups /\ Len(backups) \in DOMAIN backups
         /\ \A i \in DOMAIN backups :
              backups'[i] = IF i = Len(backups) THEN Copied(Last) ELSE backups[i]
<1>1. Len(backups) \in DOMAIN backups /\ Last \in Dirs
  BY LenProperties, ElementOfSeq DEF Typed, Last
<1>2. Copied(Last) \in Dirs
  BY <1>1, CopiedDir DEF Typed
<1> QED
  BY <1>1, <1>2, ExceptSeq DEF Typed, Last

LEMMA RotatedBackups ==
  ASSUME backups \in Seq(Dirs), Len(backups) >= 1, backups' = RotateAutoBackups(backups)
  PROVE  /\ backups' \in Seq(Dirs)
         /\ Len(backups') <= MaxBackups
         /\ Len(backups') \in DOMAIN backups' /\ Last' = Last
         /\ \A i \in DOMAIN backups' : \E j \in DOMAIN backups : backups'[i] = backups[j]
<1>1. Len(backups) \in Nat /\ DOMAIN backups = 1 .. Len(backups)
  BY LenProperties
<1>2. CASE Len(backups) > MaxBackups
  <2> DEFINE n == Len(backups)
             m == n - MaxBackups + 1
  <2>1. m \in Int /\ m >= 1 /\ m <= n /\ n - m + 1 = MaxBackups
    BY <1>1, <1>2, ConstantsAssumption
  <2>2. \A i \in m .. n : backups[i] \in Dirs
    BY <1>1, <2>1, ElementOfSeq
  <2>3. backups' = SubSeq(backups, m, n)
    BY <1>2 DEF RotateAutoBackups
  <2> HIDE DEF m
  <2>4. /\ backups' \in Seq(Dirs) /\ Len(backups') = n - m + 1
        /\ \A i \in 1 .. n - m + 1 : backups'[i] = backups[m + i - 1]
    BY <1>1, <2>1, <2>2, <2>3, SubSeqProperties
  <2>5. Len(backups') = MaxBackups /\ DOMAIN backups' = 1 .. MaxBackups
    BY <2>1, <2>4, LenProperties
  <2>6. \A i \in 1 .. MaxBackups : m + i - 1 \in 1 .. n
    BY <1>1, <2>1, ConstantsAssumption
  <2>7. backups'[MaxBackups] = backups[n]
    <3>1. MaxBackups \in 1 .. n - m + 1 /\ m + MaxBackups - 1 = n
      BY <1>1, <2>1, ConstantsAssumption
    <3> HIDE DEF n
    <3> QED
      BY <2>4, <3>1
  <2>8. \A i \in DOMAIN backups' : \E j \in DOMAIN backups : backups'[i] = backups[j]
    BY <1>1, <2>1, <2>4, <2>5, <2>6
  <2>9. MaxBackups <= MaxBackups /\ MaxBackups \in DOMAIN backups'
    BY <2>5, ConstantsAssumption
  <2> HIDE DEF n
  <2>10. Last' = Last
    BY <2>5, <2>7 DEF Last, n
  <2> QED
    BY <2>4, <2>5, <2>8, <2>9, <2>10
<1>3. CASE ~(Len(backups) > MaxBackups)
  BY <1>1, <1>3, ConstantsAssumption DEF RotateAutoBackups, Last
<1> QED
  BY <1>2, <1>3

\* The least of the profiles that match.
LEMMA LeastProfile ==
  ASSUME NEW S, S \subseteq Profiles, S # {}
  PROVE  \E p \in S : \A q \in S : p <= q
<1>1. S \subseteq Nat
  BY ConstantsAssumption
<1>2. PICK p \in S : \A q \in S : <<q, p>> \notin OpToRel(<, Nat)
  BY <1>1, NatLessThanWellFounded, WFMin
<1>3. \A q \in S : ~(q < p)
  BY <1>1, <1>2 DEF OpToRel
<1> QED
  BY <1>1, <1>3

\* What ActiveProfile answers.
LEMMA ActiveMatches ==
  ASSUME ActiveProfile \in Profiles
  PROVE  Telling # {} /\ Matches(vault[ActiveProfile])
<1>1. Telling # {} /\ Matching # {}
  BY ConstantsAssumption DEF ActiveProfile, Nobody, System
<1>2. ActiveProfile \in Matching
  BY <1>1, LeastProfile DEF ActiveProfile, Matching
<1> QED
  BY <1>1, <1>2 DEF Matching

LEMMA ActiveKnown == ASSUME ActiveProfile # Nobody PROVE Known
<1>1. CASE Matching # {}
  BY <1>1 DEF Matching, Known, Vaulted
<1>2. CASE Matching = {}
  BY <1>2 DEF ActiveProfile, Known, SystemDirs
<1> QED
  BY <1>1, <1>2

LEMMA TellingFiles ==
  /\ Telling \subseteq Files /\ \A f \in Telling : Has(live, f)
  /\ Telling # {} <=> HasAuthFiles
  /\ Has(live, Creds) => Telling = {Creds}
BY FilesAre DEF Telling, HasAuthFiles

-----------------------------------------------------------------------------
(* Types of a step.                                                        *)

\* A step to another point, or the next file of the same command.
LEMMA GotoType ==
  ASSUME job \in JobType, NEW q \in Points
  PROVE  [job EXCEPT !.pc = q] \in JobType
BY DEF JobType

LEMMA NextFileType ==
  ASSUME job \in JobType, NEW q \in Points, NextFile(q)
  PROVE  job' \in JobType
BY NextFileFirst, NextFileLast, IdleJob


\* Claude Code acts between commands or during the delay of a switch.
LEMMA ToolJob ==
  ASSUME job \in JobType, Rotate \/ \E a \in Accounts : Login(a)
  PROVE  /\ job' \in JobType /\ job'.pc = job.pc /\ job'.p = job.p /\ job'.out = job.out
         /\ job'.f = job.f /\ job.missed \subseteq job'.missed
         /\ \/ job = Idle /\ job' = Idle
            \/ Delay /\ Creds \in job'.missed /\ (Rotate \/ job'.missed = Files)
         /\ UNCHANGED <<vault, original, kept, backups, mishaps, mixed, torn>>
<1>0. /\ \E fs \in SUBSET Files : Misses(fs) /\ Creds \in fs /\ (Rotate \/ fs = Files)
      /\ job = Idle \/ Delay
  BY FilesAre DEF Rotate, Login
<1>1. PICK fs \in SUBSET Files : Misses(fs) /\ Creds \in fs /\ (Rotate \/ fs = Files)
  BY <1>0
<1>2. UNCHANGED <<vault, original, kept, backups, mishaps, mixed, torn>>
  BY DEF Rotate, Login, history
<1>3. CASE Delay
  <2>1. job' = [job EXCEPT !.missed = @ \cup fs]
    BY <1>1, <1>3 DEF Misses
  <2>2. job'.missed = job.missed \cup fs /\ job.missed \subseteq Files
    BY <2>1 DEF JobType
  <2>3. fs = Files => job'.missed = Files
    BY <1>1, <2>2
  <2> QED
    BY <1>1, <1>2, <1>3, <2>1, <2>2, <2>3 DEF JobType
<1>4. CASE ~Delay
  BY <1>0, <1>1, <1>2, <1>4 DEF Misses
<1> QED
  BY <1>3, <1>4

\* A save that fails is passed over.
LEMMA PassJob ==
  ASSUME job \in JobType, SaveFails
  PROVE  /\ job' \in JobType /\ job'.p = job.p /\ job'.out = job.out /\ job'.f = Creds
         /\ job'.pc = IF At("copyOut") THEN "restore" ELSE "resnap"
         /\ job'.missed = job.missed \cup NotSaved
         /\ job.pc \in {"backup", "copyBackup", "rotate", "copyOut"}
         /\ UNCHANGED <<live, vault, original, kept, backups, leftover, mixed>>
         /\ mishaps' = mishaps + 1 /\ (torn' <=> torn \/ job.f # Creds)
<1>1. NotSaved \subseteq Files
  BY DEF NotSaved
<1> QED
  BY <1>1, FilesAre DEF SaveFails, Mishap, state, JobType, Points, At

LEMMA ResnapshotJob ==
  ASSUME job \in JobType, Resnapshot
  PROVE  /\ job' \in JobType /\ job'.p = job.p /\ job'.f = job.f
         /\ job'.missed = IF leftover THEN job.missed \cup {2} ELSE job.missed
         /\ \/ job'.pc = "restore"
            \/ job'.pc = "copyOut" /\ job'.out = ActiveProfile /\ job'.out \in Profiles
               /\ job'.out # job.p /\ HasAuthFiles
<1>1. Resnapshots(ActiveProfile) \in Names
  BY DEF Resnapshots, Names
<1>2. Files \ {Creds} = {2}
  BY FilesAre DEF Creds
<1> DEFINE out == Resnapshots(ActiveProfile)
           ms == IF leftover THEN job.missed \cup {2} ELSE job.missed
           pc == IF out = Nobody THEN "restore" ELSE "copyOut"
<1>3. job' = [job EXCEPT !.pc = pc, !.out = out, !.missed = ms]
  BY <1>2 DEF Resnapshot
<1>4. ms \in SUBSET Files /\ pc \in Points /\ out \in Names
  BY <1>1, FilesAre DEF JobType, Points
<1>5. out # Nobody =>
        /\ out = ActiveProfile /\ ActiveProfile \in Profiles /\ out # job.p
        /\ HasAuthFiles
  BY DEF Resnapshots
<1>6. pc = "restore" \/ (pc = "copyOut" /\ out # Nobody)
  OBVIOUS
<1>7. /\ job' \in JobType /\ job'.p = job.p /\ job'.f = job.f /\ job'.missed = ms
      /\ job'.pc = pc /\ job'.out = out
  <2> HIDE DEF ms, pc, out
  <2> QED
    BY <1>3, <1>4 DEF JobType
<1> HIDE DEF pc, out
<1> QED
  BY <1>5, <1>6, <1>7

LEMMA JobTypeStep == ASSUME job \in JobType, Next PROVE job' \in JobType
<1> USE DEF Points
<1>1. CASE Save \/ CopyOriginal \/ CopyBackup \/ CopyOutgoing \/ Restore \/ Clear
  BY <1>1, NextFileType DEF Save, CopyOriginal, CopyBackup, CopyOutgoing, Restore, Clear
<1>2. CASE BackupOriginal \/ BackupCurrent \/ RotateBackups
  BY <1>2, GotoType DEF BackupOriginal, BackupCurrent, RotateBackups
<1>3. CASE Resnapshot \/ SaveFails
  BY <1>3, ResnapshotJob, PassJob
<1>4. CASE Kill \/ StartClear
  BY <1>4, IdleJob DEF Kill, StartClear, Idle, JobType
<1>5. CASE Rotate \/ \E a \in Accounts : Login(a)
  BY <1>5, ToolJob
<1>6. CASE \E p \in Profiles : StartSave(p) \/ StartActivate(p) \/ Delete(p)
  BY <1>6, IdleJob DEF StartSave, StartActivate, Delete, Idle, JobType, Names
<1> QED
  BY <1>1, <1>2, <1>3, <1>4, <1>5, <1>6 DEF Next, Activate

LEMMA BackupsStep ==
  ASSUME Typed, Bounded, Next
  PROVE  backups' \in Seq(Dirs)
<1>1. CASE BackupCurrent
  BY <1>1, AppendedBackup DEF BackupCurrent, Typed
<1>2. CASE CopyBackup
  BY <1>2, CopiedBackup DEF CopyBackup, Bounded, At
<1>3. CASE RotateBackups
  BY <1>3, RotatedBackups DEF RotateBackups, Bounded, Typed, At
<1>4. CASE UNCHANGED backups
  BY <1>4 DEF Typed
<1> QED
  BY <1>1, <1>2, <1>3, <1>4
     DEF Next, Activate, Rotate, StartClear, Clear, Save, Kill, Login, StartSave, StartActivate,
         Delete, BackupOriginal, CopyOriginal, Resnapshot, CopyOutgoing, SaveFails, Restore, state

LEMMA LiveStep == ASSUME Typed, Jobs, Next PROVE live' \in Dirs
<1>1. NoFile \in Contents /\ 0 \in 0 .. MaxIssued + 1
  BY EmptyDir, ConstantsAssumption
<1>2. CASE \E a \in Accounts : Login(a)
  <2>1. PICK a \in Accounts : Login(a)
    BY <1>2
  <2>2. Creds \in Holds[a] => issued + 1 \in 0 .. MaxIssued + 1
    BY <2>1, ConstantsAssumption DEF Login, Typed
  <2>3. MaxIssued + 1 \in 0 .. MaxIssued + 1
    BY ConstantsAssumption
  <2> QED
    BY <1>1, <2>1, <2>2, <2>3 DEF Login, Dirs, Contents
<1>3. CASE Rotate
  <2>1. issued + 1 \in 0 .. MaxIssued + 1
    BY <1>3, ConstantsAssumption DEF Rotate, Typed
  <2>2. live[Creds] \in Contents /\ Creds \in Files /\ live \in Dirs
    BY <1>3, FilesAre DEF Typed, Dirs, Creds
  <2> DEFINE c == [live[Creds] EXCEPT !.t = issued + 1]
  <2>3. c \in Contents
    BY <2>1, <2>2 DEF Contents
  <2>4. live' = [live EXCEPT ![Creds] = c]
    BY <1>3 DEF Rotate
  <2> HIDE DEF c
  <2> QED
    BY <2>2, <2>3, <2>4 DEF Dirs
<1>4. CASE Clear
  BY <1>1, <1>4 DEF Clear, Typed, Dirs
<1>5. CASE Restore
  <2>1. job.p \in Profiles /\ job.f \in Files
    BY <1>5 DEF Restore, Jobs, Activating, At, Typed
  <2> QED
    BY <1>5, <2>1 DEF Restore, Typed, Dirs
<1>6. CASE UNCHANGED live
  BY <1>6 DEF Typed
<1> QED
  BY <1>2, <1>3, <1>4, <1>5, <1>6
     DEF Next, Activate, StartClear, Save, Kill, StartSave, StartActivate, Delete,
         BackupOriginal, CopyOriginal, BackupCurrent, CopyBackup, RotateBackups, Resnapshot,
         CopyOutgoing, SaveFails, state

LEMMA VaultStep ==
  ASSUME Typed, Jobs, Next
  PROVE  vault' \in [Profiles -> Dirs] /\ original' \in Dirs
<1> USE DEF Typed
<1>1. CASE Save
  <2>1. job.p \in Profiles
    BY <1>1 DEF Save, Jobs, At
  <2> QED
    BY <1>1, <2>1, CopiedDir DEF Save
<1>2. CASE CopyOutgoing
  <2>1. job.out \in Profiles
    BY <1>2 DEF CopyOutgoing, Jobs, At
  <2> QED
    BY <1>2, <2>1, CopiedDir DEF CopyOutgoing
<1>3. CASE CopyOriginal
  BY <1>3, CopiedDir DEF CopyOriginal
<1>4. CASE \E p \in Profiles : Delete(p)
  BY <1>4, EmptyDir DEF Delete
<1>5. CASE UNCHANGED <<vault, original>>
  BY <1>5
<1> QED
  BY <1>1, <1>2, <1>3, <1>4, <1>5
     DEF Next, Activate, StartClear, Clear, Kill, StartSave, StartActivate, Login, Rotate,
         BackupOriginal, BackupCurrent, CopyBackup, RotateBackups, Resnapshot, SaveFails,
         Restore, state

LEMMA TokensStep ==
  ASSUME Typed, Next
  PROVE  /\ issued' \in 0 .. MaxIssued /\ mishaps' \in 0 .. MaxMishaps
         /\ consumed' \subseteq Contents
<1> USE DEF Typed
<1>1. CASE \E a \in Accounts : Login(a)
  BY <1>1, ConstantsAssumption DEF Login
<1>2. CASE Rotate
  <2>1. live[Creds] \in Contents
    BY FilesAre DEF Dirs
  <2> QED
    BY <1>2, <2>1, ConstantsAssumption DEF Rotate
<1>3. CASE Kill \/ SaveFails
  BY <1>3, ConstantsAssumption DEF Kill, SaveFails, Mishap
<1>4. CASE UNCHANGED <<issued, mishaps, consumed>>
  BY <1>4
<1> QED
  BY <1>1, <1>2, <1>3, <1>4
     DEF Next, Activate, StartClear, Clear, Save, StartSave, StartActivate, Delete,
         BackupOriginal, CopyOriginal, BackupCurrent, CopyBackup, RotateBackups, Resnapshot,
         CopyOutgoing, Restore

LEMMA HistoryStep ==
  ASSUME Typed, Next
  PROVE  /\ kept' \in BOOLEAN /\ leftover' \in BOOLEAN /\ torn' \in BOOLEAN
         /\ mixed' \subseteq Profiles
<1> USE DEF Typed, history, state
<1>1. CASE Save \/ CopyOriginal \/ CopyBackup \/ CopyOutgoing
  BY <1>1 DEF Save, CopyOriginal, CopyBackup, CopyOutgoing, Taints
<1>2. CASE Clear \/ Restore
  BY <1>2 DEF Clear, Restore, StillLeftover, PassedOver
<1>3. CASE Kill \/ SaveFails
  BY <1>3 DEF Kill, SaveFails, Mishap
<1>4. CASE BackupOriginal
  BY <1>4 DEF BackupOriginal
<1>5. CASE Rotate \/ \E a \in Accounts : Login(a)
  BY <1>5 DEF Rotate, Login
<1>6. CASE \E p \in Profiles : Delete(p)
  BY <1>6 DEF Delete
<1>7. CASE UNCHANGED <<kept, leftover, torn, mixed>>
  BY <1>7
<1> QED
  BY <1>1, <1>2, <1>3, <1>4, <1>5, <1>6, <1>7
     DEF Next, Activate, StartClear, StartSave, StartActivate, BackupCurrent, RotateBackups,
         Resnapshot

LEMMA TypedStep == ASSUME Typed, Jobs, Bounded, Next PROVE Typed'
BY JobTypeStep, BackupsStep, LiveStep, VaultStep, TokensStep, HistoryStep DEF Typed, JobType

LEMMA JobsStep == ASSUME Typed, Jobs, Next PROVE Jobs'
<1> USE DEF Jobs, At, Activating
<1>0. job \in JobType
  BY DEF Typed, JobType
<1>1. CASE Save \/ Clear
  BY <1>0, <1>1, NextFileFirst, NextFileLast, IdleJob DEF Save, Clear, Points
<1>2. CASE CopyOriginal
  BY <1>0, <1>2, NextFileFirst, NextFileLast DEF CopyOriginal, Points
<1>3. CASE CopyBackup
  BY <1>0, <1>3, NextFileFirst, NextFileLast DEF CopyBackup, Points
<1>4. CASE CopyOutgoing
  BY <1>0, <1>4, NextFileFirst, NextFileLast DEF CopyOutgoing, Points
<1>5. CASE Restore
  BY <1>0, <1>5, NextFileFirst, NextFileLast, IdleJob DEF Restore, Points
<1>6. CASE BackupOriginal
  BY <1>0, <1>6 DEF BackupOriginal, JobType
<1>7. CASE BackupCurrent \/ RotateBackups
  BY <1>0, <1>7 DEF BackupCurrent, RotateBackups, JobType
<1>8. CASE Resnapshot
  BY <1>0, <1>8, ResnapshotJob DEF Resnapshot
<1>9. CASE SaveFails
  <2>1. job.pc # "copyOut" => job.missed = {} /\ NotSaved \in {{}, {2}, Files}
    <3>1. CASE At("backup") \/ At("rotate")
      BY <1>0, <1>9, <3>1, PassJob DEF NotSaved
    <3>2. CASE At("copyBackup")
      <4>1. job.f = 1 \/ job.f = 2
        BY <1>0, FilesAre DEF JobType
      <4>2. job.f = 1 => {f \in Files : f >= job.f} = Files
        BY FilesAre
      <4>3. job.f = 2 => {f \in Files : f >= job.f} = {2}
        BY FilesAre
      <4>4. job.missed = {} /\ NotSaved = {f \in Files : f >= job.f}
        BY <3>2 DEF NotSaved
      <4> QED
        BY <4>1, <4>2, <4>3, <4>4
    <3> QED
      BY <1>0, <1>9, <3>1, <3>2, PassJob
  <2>2. /\ job'.pc \in {"restore", "resnap"} /\ job'.p = job.p /\ job'.f = Creds
        /\ job.pc \in Activating
        /\ job'.pc = "resnap" => job.pc # "copyOut" /\ job'.missed = job.missed \cup NotSaved
    BY <1>0, <1>9, PassJob
  <2>3. job'.pc = "resnap" => job'.missed \in {{}, {2}, Files}
    BY <2>1, <2>2
  <2> QED
    BY <2>2, <2>3
<1>10. CASE Kill \/ StartClear
  BY <1>10, IdleJob DEF Kill, StartClear, Idle
<1>11. CASE Rotate \/ \E a \in Accounts : Login(a)
  <2>1. (job = Idle /\ job' = Idle) \/ job.pc = "restore"
    BY <1>0, <1>11, ToolJob DEF Delay
  <2> QED
    BY <1>0, <1>11, <2>1, ToolJob, IdleJob
<1>12. CASE \E p \in Profiles : StartSave(p) \/ StartActivate(p) \/ Delete(p)
  BY <1>12, IdleJob DEF StartSave, StartActivate, Delete, Idle
<1> QED
  BY <1>1, <1>2, <1>3, <1>4, <1>5, <1>6, <1>7, <1>8, <1>9, <1>10, <1>11, <1>12
     DEF Next, Activate

LEMMA BoundedStep == ASSUME Typed, Jobs, Bounded, Next PROVE Bounded'
<1> USE DEF Bounded, At
<1>0. job \in JobType /\ Len(backups) \in Nat /\ mishaps \in Nat
  BY LenProperties, ConstantsAssumption DEF Typed, JobType
<1>1. CASE BackupCurrent
  BY <1>0, <1>1, AppendedBackup, ConstantsAssumption DEF BackupCurrent, Typed, JobType, history
<1>2. CASE CopyBackup
  BY <1>0, <1>2, CopiedBackup, NextFileFirst, NextFileLast DEF CopyBackup, Points
<1>3. CASE RotateBackups
  BY <1>0, <1>3, RotatedBackups, LenProperties, ConstantsAssumption
     DEF RotateBackups, Typed, JobType
<1>4. CASE Kill
  BY <1>0, <1>4, IdleJob, ConstantsAssumption DEF Kill, Mishap, state
<1>5. CASE SaveFails
  <2>1. job'.pc \in {"restore", "resnap"} /\ mishaps' = mishaps + 1 /\ UNCHANGED backups
    BY <1>0, <1>5, PassJob
  <2> QED
    BY <1>0, <2>1, ConstantsAssumption
<1>6. CASE Save \/ CopyOriginal \/ CopyOutgoing \/ Restore \/ Clear
  BY <1>0, <1>6, NextFileFirst, NextFileLast, IdleJob
     DEF Save, CopyOriginal, CopyOutgoing, Restore, Clear, Points
<1>7. CASE BackupOriginal
  BY <1>0, <1>7 DEF BackupOriginal, JobType
<1>8. CASE Resnapshot
  <2>1. job'.pc \in {"restore", "copyOut"} /\ UNCHANGED <<backups, mishaps>>
    BY <1>0, <1>8, ResnapshotJob DEF Resnapshot, state
  <2> QED
    BY <1>8, <2>1 DEF Resnapshot
<1>9. CASE Rotate \/ \E a \in Accounts : Login(a)
  BY <1>0, <1>9, ToolJob
<1>10. CASE StartClear \/ \E p \in Profiles : StartSave(p) \/ StartActivate(p) \/ Delete(p)
  BY <1>10, IdleJob DEF StartClear, StartSave, StartActivate, Delete, Idle, state
<1> QED
  BY <1>1, <1>2, <1>3, <1>4, <1>5, <1>6, <1>7, <1>8, <1>9, <1>10 DEF Next, Activate

-----------------------------------------------------------------------------
(* Whose files they are.                                                   *)

LEMMA FileOf == ASSUME Typed PROVE job.f = Creds \/ job.f = 2
BY FilesAre DEF Typed, Creds

\* The steps that leave the directories and the job's point in a switch alone.
LEMMA QuietJobs ==
  ASSUME Next, ~(Save \/ Clear \/ Activate), ~(Rotate \/ \E a \in Accounts : Login(a))
  PROVE  /\ job'.pc \in {"idle", "save", "clear", "original"} /\ job'.f = Creds
         /\ job = Idle \/ job' = Idle
BY IdleJob
   DEF Next, StartSave, StartClear, StartActivate, Delete, Kill, Idle

LEMMA VaultCopied ==
  ASSUME Typed, NEW p \in Profiles,
         \A q \in Profiles : vault'[q] = IF q = p THEN Copied(vault[q]) ELSE vault[q]
  PROVE  \A q \in Profiles, f \in Files :
           vault'[q][f] = IF q = p /\ f = job.f /\ Has(live, f) THEN live[f] ELSE vault[q][f]
<1>1. \A f \in Files : Copied(vault[p])[f] = IF f = job.f /\ Has(live, f) THEN live[f]
                                             ELSE vault[p][f]
  BY CopiedDir DEF Typed
<1> QED
  BY <1>1

LEMMA OwnLive ==
  ASSUME Typed, Jobs, OneLogin, Save \/ CopyOutgoing,
         NEW p \in Profiles, p = IF Save THEN job.p ELSE job.out,
         NEW f \in Files, Has(live, f), f = Creds \/ (~leftover /\ p \notin mixed)
  PROVE  live[f].acct = Owner[p]
<1>1. /\ \A g \in Telling : live[g].acct = Owner[p] \/ live[g] = vault[p][g]
      /\ Telling # {}
  <2>1. CASE Save
    BY <2>1, TellingFiles DEF Save, OneLogin, CopiesOwn
  <2>2. CASE ~Save
    BY <2>2, TellingFiles DEF CopyOutgoing, OneLogin, CopiesOwn, Matches
  <2> QED
    BY <2>1, <2>2
<1>2. Has(live, Creds) => live[Creds].acct = Owner[p]
  BY <1>1, TellingFiles DEF OneLogin, OwnCredentials, Has
<1>3. CASE f = Creds
  BY <1>2, <1>3
<1>4. CASE f # Creds
  <2>1. f = 2 /\ ~leftover /\ p \notin mixed
    BY <1>4, FilesAre DEF Creds
  <2>2. CASE Has(live, Creds)
    <3>1. ~AtSecond("restore")
      BY DEF Save, CopyOutgoing, At, AtSecond
    <3> QED
      BY <1>2, <2>1, <2>2, <3>1 DEF OneLogin, LiveOne, Creds
  <2>3. CASE ~Has(live, Creds)
    <3>1. f \in Telling
      BY <2>3 DEF Telling
    <3> QED
      BY <1>1, <2>1, <3>1 DEF OneLogin, OwnOptional, Has
  <2> QED
    BY <2>2, <2>3
<1> QED
  BY <1>3, <1>4

LEMMA OwnDirsStep ==
  ASSUME Typed, Jobs, OneLogin, Next
  PROVE  (OwnCredentials /\ OwnOptional)'
<1> USE DEF OwnCredentials, OwnOptional
<1>0. OwnCredentials /\ OwnOptional /\ Creds \in Files /\ 2 \in Files
  BY FilesAre DEF OneLogin
<1>1. CASE Save \/ CopyOutgoing
  <2> DEFINE p == IF Save THEN job.p ELSE job.out
  <2>1. p \in Profiles
    BY <1>1 DEF Save, CopyOutgoing, Jobs, At
  <2>2. \A q \in Profiles : vault'[q] = IF q = p THEN Copied(vault[q]) ELSE vault[q]
    BY <1>1, <2>1 DEF Save, CopyOutgoing, Typed
  <2>3. mixed' = IF leftover THEN mixed \cup {p} ELSE mixed
    <3>1. Taints(p)
      BY <1>1 DEF Save, CopyOutgoing
    <3> QED
      BY <2>1, <3>1 DEF Taints
  <2> HIDE DEF p
  <2>4. p = IF Save THEN job.p ELSE job.out
    BY DEF p
  <2>5. \A q \in Profiles, f \in Files :
          \/ vault'[q][f] = vault[q][f]
          \/ q = p /\ Has(live, f) /\ vault'[q][f] = live[f]
    BY <2>1, <2>2, VaultCopied
  <2>6. \A f \in Files : Has(live, f) /\ (f = Creds \/ p \notin mixed') =>
          live[f].acct = Owner[p]
    BY <1>1, <2>1, <2>3, <2>4, OwnLive
  <2>7. OwnCredentials'
    BY <1>0, <2>1, <2>5, <2>6 DEF Has
  <2>8. OwnOptional'
    <3>1. SUFFICES ASSUME NEW q \in Profiles, q \notin mixed', Has(vault'[q], 2)
                   PROVE  vault'[q][2].acct = Owner[q]
      BY DEF Has
    <3>2. q \notin mixed
      BY <2>3, <3>1
    <3> QED
      BY <1>0, <2>5, <2>6, <3>1, <3>2 DEF Has
  <2> QED
    BY <2>7, <2>8
<1>2. CASE \E p \in Profiles : Delete(p)
  <2>1. PICK p \in Profiles : Delete(p)
    BY <1>2
  <2>2. /\ \A q \in Profiles : vault'[q] = IF q = p THEN Empty ELSE vault[q]
        /\ mixed' = mixed \ {p}
    BY <2>1 DEF Delete, Typed
  <2> QED
    BY <1>0, <2>2, EmptyDir DEF Has
<1>3. CASE UNCHANGED vault /\ mixed \subseteq mixed'
  BY <1>0, <1>3 DEF Has
<1> QED
  BY <1>1, <1>2, <1>3
     DEF Next, Activate, StartClear, Clear, Kill, StartSave, StartActivate, Login, Rotate,
         BackupOriginal, CopyOriginal, BackupCurrent, CopyBackup, RotateBackups, Resnapshot,
         SaveFails, Restore, Taints, state, history

\* What ActiveProfile answers is matched by the live files.
LEMMA CopiesOwnStep ==
  ASSUME Typed, Jobs, OneLogin, Next
  PROVE  CopiesOwn'
<1> USE DEF CopiesOwn, At
<1>0. job \in JobType /\ CopiesOwn
  BY DEF Typed, JobType, OneLogin
<1>a. UNCHANGED live => /\ HasAuthFiles' = HasAuthFiles /\ Telling' = Telling
  BY DEF HasAuthFiles, Telling, Has
<1>1. CASE Save
  <2>1. job'.pc = "idle" \/ (job'.pc = "save" /\ job'.p = job.p)
    <3>1. NextFile("idle") /\ job.pc = "save"
      BY <1>1 DEF Save
    <3> QED
      BY <1>0, <3>1, NextFileFirst, NextFileLast, IdleJob DEF Points
  <2>2. UNCHANGED live /\ job.pc = "save"
    BY <1>1 DEF Save
  <2> QED
    BY <1>0, <1>a, <2>1, <2>2
<1>2. CASE CopyOutgoing
  <2>1. job'.pc = "restore" \/ (job'.pc = "copyOut" /\ job'.out = job.out)
    BY <1>0, <1>2, NextFileFirst, NextFileLast DEF CopyOutgoing, Points
  <2>2. UNCHANGED live /\ job.pc = "copyOut" /\ job.out \in Profiles
    BY <1>2 DEF CopyOutgoing, Jobs
  <2>3. \A f \in Telling : vault'[job.out][f] = live[f]
    <3>1. \A q \in Profiles : vault'[q] = IF q = job.out THEN Copied(vault[q]) ELSE vault[q]
      BY <1>2 DEF CopyOutgoing, Typed
    <3>2. \A f \in Files : vault'[job.out][f] = live[f] \/ vault'[job.out][f] = vault[job.out][f]
      BY <2>2, <3>1, VaultCopied
    <3> QED
      BY <1>0, <2>2, <3>2, TellingFiles DEF Matches
  <2>4. HasAuthFiles
    BY <1>0, <2>2
  <2>5. CASE job'.pc = "restore"
    BY <2>5
  <2>6. CASE job'.pc = "copyOut" /\ job'.out = job.out
    <3>1. HasAuthFiles'
      BY <1>a, <2>2, <2>4
    <3>2. Matches(vault[job.out])'
      <4>1. job'.out = job.out /\ Telling' = Telling /\ live' = live
        BY <1>a, <2>2, <2>6
      <4> QED
        BY <2>3, <4>1 DEF Matches
    <3> QED
      BY <2>6, <3>1, <3>2
  <2> QED
    BY <2>1, <2>5, <2>6
<1>3. CASE \E p \in Profiles : StartSave(p)
  <2>1. PICK p \in Profiles : StartSave(p)
    BY <1>3
  <2>2. /\ UNCHANGED live /\ job'.pc = "save" /\ job'.p = p
        /\ HasAuthFiles /\ \A f \in Telling : live[f].acct = Owner[p]
    BY <2>1, IdleJob DEF StartSave, state, Idle
  <2> QED
    BY <1>a, <2>2
<1>4. CASE Resnapshot
  <2>1. UNCHANGED <<live, vault>>
    BY <1>4 DEF Resnapshot, state
  <2>2. CASE job'.pc = "restore"
    BY <2>2
  <2>3. CASE job'.pc = "copyOut" /\ job'.out = ActiveProfile /\ job'.out \in Profiles
             /\ HasAuthFiles
    <3>1. Matches(vault[ActiveProfile])
      BY <2>3, ActiveMatches
    <3>2. Matches(vault[job.out])'
      BY <1>a, <2>1, <2>3, <3>1 DEF Matches
    <3> QED
      BY <1>a, <2>1, <2>3, <3>2
  <2> QED
    BY <1>0, <1>4, <2>2, <2>3, ResnapshotJob
<1>5. CASE SaveFails
  BY <1>0, <1>5, PassJob
<1>6. CASE Clear \/ BackupOriginal \/ CopyOriginal \/ BackupCurrent \/ CopyBackup
             \/ RotateBackups \/ Restore
  BY <1>0, <1>6, NextFileFirst, NextFileLast, IdleJob
     DEF Clear, BackupOriginal, CopyOriginal, BackupCurrent, CopyBackup, RotateBackups,
         Restore, JobType, Points
<1>7. CASE Rotate \/ \E a \in Accounts : Login(a)
  <2>1. job'.pc \in {"idle", "restore"}
    BY <1>0, <1>7, ToolJob, IdleJob DEF Delay
  <2> QED
    BY <2>1
<1>8. CASE Kill \/ StartClear
  BY <1>8, IdleJob DEF Kill, StartClear, Idle
<1>9. CASE \E p \in Profiles : StartActivate(p) \/ Delete(p)
  BY <1>9, IdleJob DEF StartActivate, Delete, Idle
<1> QED
  BY <1>1, <1>2, <1>3, <1>4, <1>5, <1>6, <1>7, <1>8, <1>9 DEF Next, Activate

\* Steps that change neither the live files nor what is known of them.
LEMMA LiveUnchanged ==
  ASSUME Next, ~(Rotate \/ Clear \/ Restore \/ Kill \/ \E a \in Accounts : Login(a))
  PROVE  UNCHANGED <<live, leftover>>
BY DEF Next, Activate, StartClear, StartSave, StartActivate, Delete, Save, BackupOriginal,
       CopyOriginal, BackupCurrent, CopyBackup, RotateBackups, Resnapshot, CopyOutgoing,
       SaveFails, state, history

\* Restore is entered at its first file.
LEMMA EnterRestore ==
  ASSUME Typed, Jobs, Next, AtSecond("restore")'
  PROVE  Restore /\ job.f = Creds
<1> USE DEF At, AtSecond
<1>0. job \in JobType
  BY DEF Typed, JobType
<1>1. CASE ~(Save \/ Clear \/ Activate) /\ ~(Rotate \/ \E a \in Accounts : Login(a))
  BY <1>1, QuietJobs
<1>2. CASE Rotate \/ \E a \in Accounts : Login(a)
  BY <1>0, <1>2, ToolJob, IdleJob DEF Delay, Creds
<1>3. CASE Save \/ Clear
  BY <1>0, <1>3, NextFileFirst, NextFileLast, IdleJob DEF Save, Clear, Points
<1>4. CASE Restore
  BY <1>0, <1>4, NextFileFirst, NextFileLast, IdleJob DEF Restore, Points
<1>5. CASE CopyOriginal \/ CopyBackup \/ CopyOutgoing
  BY <1>0, <1>5, NextFileFirst, NextFileLast DEF CopyOriginal, CopyBackup, CopyOutgoing, Points,
     Creds
<1>6. CASE BackupOriginal \/ BackupCurrent \/ RotateBackups
  BY <1>0, <1>6 DEF BackupOriginal, BackupCurrent, RotateBackups, JobType
<1>7. CASE Resnapshot
  BY <1>0, <1>7, ResnapshotJob DEF Resnapshot, Jobs, Creds
<1>8. CASE SaveFails
  BY <1>0, <1>8, PassJob DEF Creds
<1> QED
  BY <1>1, <1>2, <1>3, <1>4, <1>5, <1>6, <1>7, <1>8 DEF Activate

\* What Restore makes of the live files.
LEMMA Restored ==
  ASSUME Typed, Jobs, Restore
  PROVE  /\ job.p \in Profiles /\ UNCHANGED <<vault, original, backups, mixed, torn>>
         /\ \A f \in Files : live'[f] = IF f = job.f /\ Has(vault[job.p], f)
                                          THEN vault[job.p][f] ELSE live[f]
         /\ ~leftover' => ~PassedOver /\ live'[job.f] = vault[job.p][job.f]
         /\ ~leftover' => IF job.f = Creds THEN job.p \notin mixed ELSE ~leftover
         /\ job.f = Creds => job'.pc = "restore" /\ job'.p = job.p /\ job'.f = 2
                             /\ job'.missed = job.missed
         /\ job.f = 2 => job' = Idle
<1>1. job.p \in Profiles /\ job.f \in Files
  BY DEF Restore, Jobs, Activating, At, Typed
<1>2. \A f \in Files : live'[f] = IF f = job.f /\ Has(vault[job.p], f)
                                    THEN vault[job.p][f] ELSE live[f]
  BY <1>1 DEF Restore, Typed, Dirs
<1>3. ~leftover' => ~PassedOver /\ IF job.f = Creds THEN job.p \notin mixed ELSE ~leftover
  BY DEF Restore, StillLeftover
<1>4. ~PassedOver => live'[job.f] = vault[job.p][job.f]
  BY <1>1, <1>2 DEF PassedOver, Has
<1>5. job \in JobType
  BY DEF Typed, JobType
<1>6. job.f = Creds => job'.pc = "restore" /\ job'.p = job.p /\ job'.f = 2
                       /\ job'.missed = job.missed
  BY <1>5, NextFileFirst DEF Restore, At
<1>7. job.f = 2 => job' = Idle
  BY <1>5, NextFileLast DEF Restore, Creds, Points
<1> QED
  BY <1>1, <1>2, <1>3, <1>4, <1>6, <1>7 DEF Restore

LEMMA RestoringStep ==
  ASSUME Typed, Jobs, OneLogin, Next
  PROVE  Restoring'
<1>1. SUFFICES ASSUME AtSecond("restore")', ~leftover'
               PROVE  job'.p \notin mixed' /\ live'[Creds] = vault'[job'.p][Creds]
  BY DEF Restoring
<1>2. Restore /\ job.f = Creds
  BY <1>1, EnterRestore
<1> QED
  BY <1>1, <1>2, Restored

LEMMA LiveOneStep ==
  ASSUME Typed, Jobs, OneLogin, Next
  PROVE  LiveOne'
<1>1. SUFFICES ASSUME ~leftover', Has(live', 1), Has(live', 2), ~AtSecond("restore")'
               PROVE  live'[1].acct = live'[2].acct
  BY DEF LiveOne, Has
<1>2. LiveOne /\ OwnCredentials /\ OwnOptional /\ Restoring
  BY DEF OneLogin
<1>3. CASE Restore
  <2>1. job.f = 2
    BY <1>1, <1>3, FileOf, Restored DEF AtSecond, At
  <2>2. AtSecond("restore") /\ ~leftover
    BY <1>1, <1>3, <2>1, Restored DEF Restore, AtSecond, Creds
  <2>3. job.p \in Profiles /\ job.p \notin mixed /\ live[Creds] = vault[job.p][Creds]
    BY <1>2, <1>3, <2>2, Restored DEF Restoring
  <2>4. live'[1] = vault[job.p][1] /\ live'[2] = vault[job.p][2]
    BY <1>1, <1>3, <2>1, <2>3, Restored, FilesAre DEF Creds
  <2> QED
    BY <1>1, <1>2, <2>3, <2>4 DEF OwnCredentials, OwnOptional, Has, Creds
<1>4. CASE Clear
  <2>1. \A f \in Files : live'[f] = IF f = job.f THEN NoFile ELSE live[f]
    BY <1>4 DEF Clear, Typed, Dirs
  <2> QED
    BY <1>1, <2>1, FileOf, FilesAre DEF Has, Creds
<1>5. CASE \E a \in Accounts : Login(a)
  BY <1>1, <1>5, FilesAre DEF Login, Has
<1>6. CASE Rotate
  <2>1. job = Idle \/ job.f = Creds
    BY <1>6 DEF Rotate, Delay
  <2>2. ~AtSecond("restore")
    BY <2>1, IdleJob DEF AtSecond, Creds
  <2>3. live'[1] = [live[1] EXCEPT !.t = issued + 1] /\ live'[2] = live[2] /\ Has(live, 1)
    BY <1>6, FilesAre DEF Rotate, Typed, Dirs, Creds
  <2>4. live[1] \in Contents
    BY FilesAre DEF Typed, Dirs
  <2>5. live'[1].acct = live[1].acct
    BY <2>3, <2>4 DEF Contents
  <2>6. ~leftover /\ Has(live, 2)
    BY <1>1, <1>6, <2>3 DEF Rotate, history, Has
  <2> QED
    BY <1>2, <2>2, <2>3, <2>5, <2>6 DEF LiveOne
<1>7. CASE Kill
  <2>1. UNCHANGED live /\ ~leftover /\ ~(At("restore") /\ job.f # Creds)
    BY <1>1, <1>7 DEF Kill, state
  <2> QED
    BY <1>1, <1>2, <2>1 DEF LiveOne, AtSecond, Has, Creds
<1>8. CASE ~(Rotate \/ Clear \/ Restore \/ Kill \/ \E a \in Accounts : Login(a))
  <2>1. UNCHANGED <<live, leftover>>
    BY <1>8, LiveUnchanged
  <2>2. ~AtSecond("restore")
    BY <1>8, IdleJob
       DEF Next, Activate, StartClear, StartSave, StartActivate, Delete, Save, BackupOriginal,
           CopyOriginal, BackupCurrent, CopyBackup, RotateBackups, Resnapshot, CopyOutgoing,
           SaveFails, AtSecond, At
  <2> QED
    BY <1>1, <1>2, <2>1, <2>2 DEF LiveOne, Has
<1> QED
  BY <1>3, <1>4, <1>5, <1>6, <1>7, <1>8

LEMMA OneLoginStep == ASSUME Typed, Jobs, OneLogin, Next PROVE OneLogin'
BY OwnDirsStep, CopiesOwnStep, LiveOneStep, RestoringStep DEF OneLogin

-----------------------------------------------------------------------------
(* What is replaced has been saved.                                        *)

LEMMA SameDirs ==
  ASSUME UNCHANGED <<live, vault, original, backups>>
  PROVE  /\ Known' = Known /\ \A f \in Files : Saved(f)' = Saved(f)
         /\ HasAuthFiles' = HasAuthFiles /\ Telling' = Telling
BY DEF Known, Saved, HasAuthFiles, Vaulted, SystemDirs, Matches, Telling, Has

\* The newest backup has every live file once the last one is copied ...
LEMMA CopyBackupSaves ==
  ASSUME Typed, Jobs, Bounded, BackedUp, CopyBackup
  PROVE  BackedUp'
<1>0. job \in JobType /\ UNCHANGED live
  BY DEF Typed, JobType, CopyBackup
<1>1. At("copyBackup") /\ Len(backups) >= 1
  BY DEF CopyBackup, Bounded, At
<1>2. Last' = Copied(Last) /\ Last \in Dirs
  BY <1>1, CopiedBackup, LenProperties, ElementOfSeq DEF CopyBackup, Typed, Last
<1>3. Kept(Copied(Last), job.f)
  BY <1>2, CopiedDir DEF Kept, Typed
<1>4. CASE job.f = Creds
  <2>1. job'.pc = "copyBackup"
    BY <1>0, <1>1, <1>4, NextFileFirst DEF CopyBackup, At
  <2>2. Kept(Last, Creds)'
    BY <1>0, <1>2, <1>3, <1>4 DEF Kept, Has
  <2> QED
    BY <2>1, <2>2 DEF BackedUp, At, AtSecond
<1>5. CASE job.f # Creds
  <2>1. job'.pc = "rotate" /\ job.f = 2
    BY <1>0, <1>5, NextFileLast, FilesAre DEF CopyBackup, Points, JobType, Creds
  <2>2. Kept(Last, Creds)
    BY <1>1, <2>1 DEF BackedUp, AtSecond
  <2>3. Kept(Copied(Last), Creds)
    BY <1>2, <2>2, CopiedDir, FilesAre DEF Kept, Typed
  <2>4. \A f \in Files : Kept(Copied(Last), f)
    BY <1>3, <2>1, <2>3, FilesAre DEF Creds
  <2>5. (\A f \in Files : Kept(Last, f))'
    BY <1>0, <1>2, <2>4 DEF Kept, Has
  <2> QED
    BY <2>1, <2>5 DEF BackedUp, At, AtSecond
<1> QED
  BY <1>4, <1>5

LEMMA LastKnown ==
  ASSUME Typed, Len(backups) >= 1, \A f \in Telling : Kept(Last, f)
  PROVE  Known
<1>1. Last \in SystemDirs
  BY LenProperties DEF Typed, SystemDirs, Last
<1>2. Matches(Last)
  BY TellingFiles DEF Matches, Kept
<1> QED
  BY <1>1, <1>2 DEF Known

\* ... and the rotation keeps it.
LEMMA RotateSaves ==
  ASSUME Typed, Jobs, Bounded, BackedUp, RotateBackups
  PROVE  BackedUp'
<1>1. /\ Len(backups') \in DOMAIN backups' /\ Last' = Last
  BY RotatedBackups DEF RotateBackups, Bounded, Typed, At
<1>2. \A f \in Files : Kept(Last, f)
  BY DEF RotateBackups, BackedUp, Last
<1>3. UNCHANGED live /\ job'.pc = "resnap"
  BY DEF RotateBackups, Typed
<1>4. Last' \in SystemDirs'
  BY <1>1 DEF SystemDirs, Last
<1>5. Matches(Last)
  BY <1>2, TellingFiles DEF Matches, Kept
<1>6. Known'
  BY <1>1, <1>3, <1>4, <1>5 DEF Known, Matches, Telling, Has
<1> QED
  BY <1>3, <1>6 DEF BackedUp, At, AtSecond

\* What was matched before a file was copied is matched afterwards.
LEMMA OutgoingKnown ==
  ASSUME Typed, Jobs, OneLogin, At("copyOut"), Has(live, Creds)
  PROVE  Saved(Creds)
<1>1. job.out \in Profiles /\ Matches(vault[job.out])
  BY DEF Jobs, OneLogin, CopiesOwn, At
<1>2. vault[job.out][Creds] = live[Creds]
  BY <1>1, TellingFiles DEF Matches
<1> QED
  BY <1>1, <1>2 DEF Saved, Vaulted

LEMMA CopyOutgoingSaves ==
  ASSUME Typed, Jobs, OneLogin, BackedUp, CopyOutgoing
  PROVE  BackedUp'
<1>0. job \in JobType /\ UNCHANGED live /\ job.out \in Profiles
  BY DEF Typed, JobType, CopyOutgoing, Jobs, At
<1>1. job'.pc \in {"copyOut", "restore"}
  BY <1>0, NextFileFirst, NextFileLast DEF CopyOutgoing, Points, At
<1>2. Has(live, Creds) => vault'[job.out][Creds] = live[Creds]
  <2>1. \A q \in Profiles : vault'[q] = IF q = job.out THEN Copied(vault[q]) ELSE vault[q]
    BY <1>0 DEF CopyOutgoing, Typed
  <2>2. Has(live, Creds) => vault[job.out][Creds] = live[Creds]
    BY TellingFiles DEF CopyOutgoing, OneLogin, CopiesOwn, Matches
  <2>3. vault'[job.out][Creds] = live[Creds] \/ vault'[job.out][Creds] = vault[job.out][Creds]
    BY <1>0, <2>1, VaultCopied, FilesAre
  <2> QED
    BY <2>2, <2>3
<1>3. Has(live, Creds) => Saved(Creds)'
  BY <1>0, <1>2 DEF Saved, Vaulted
<1> QED
  BY <1>0, <1>1, <1>3 DEF BackedUp, At, AtSecond, Has

LEMMA PassSaves ==
  ASSUME Typed, Jobs, Bounded, OneLogin, BackedUp, SaveFails
  PROVE  BackedUp'
<1>0. job \in JobType
  BY DEF Typed, JobType
<1>1. /\ UNCHANGED <<live, vault, original, backups>> /\ job'.f = Creds
      /\ job'.pc = IF At("copyOut") THEN "restore" ELSE "resnap"
      /\ job'.missed = job.missed \cup NotSaved
      /\ job.pc \in {"backup", "copyBackup", "rotate", "copyOut"}
  BY <1>0, PassJob
<1>2. CASE At("copyOut")
  BY <1>1, <1>2, OutgoingKnown, SameDirs, FilesAre DEF BackedUp, At, AtSecond, Has
<1>3. CASE ~At("copyOut")
  <2>1. SUFFICES ASSUME HasAuthFiles, Telling \cap NotSaved = {} PROVE Known
    <3>1. job'.pc = "resnap" /\ NotSaved \subseteq job'.missed
      BY <1>1, <1>3
    <3>2. /\ HasAuthFiles' = HasAuthFiles /\ Telling' = Telling /\ Known' = Known
      BY <1>1, SameDirs
    <3>3. (Telling \cap job.missed)' = {} => Telling \cap NotSaved = {}
      BY <3>1, <3>2
    <3>4. (HasAuthFiles /\ Telling \cap job.missed = {})' => Known'
      BY <2>1, <3>2, <3>3
    <3> QED
      BY <3>1, <3>4 DEF BackedUp, At, AtSecond
  <2>2. PICK f \in Telling : f \in Files
    BY <2>1, TellingFiles
  <2>3. CASE At("backup")
    BY <2>1, <2>2, <2>3 DEF NotSaved, At
  <2>4. CASE At("rotate")
    <3>1. Len(backups) >= 1 /\ \A g \in Telling : Kept(Last, g)
      BY <2>4, TellingFiles DEF Bounded, BackedUp, At
    <3> QED
      BY <3>1, LastKnown
  <2>5. CASE At("copyBackup")
    <3>1. Len(backups) >= 1 /\ NotSaved = {g \in Files : g >= job.f}
      BY <2>5 DEF Bounded, At, NotSaved
    <3>2. \A g \in Telling : g = 1 /\ job.f = 2
      BY <2>1, <3>1, FileOf, TellingFiles, FilesAre DEF Creds
    <3>3. \A g \in Telling : Kept(Last, g)
      BY <2>2, <2>5, <3>2 DEF BackedUp, AtSecond, Creds
    <3> QED
      BY <3>1, <3>3, LastKnown
  <2> QED
    BY <1>1, <1>3, <2>3, <2>4, <2>5 DEF At
<1> QED
  BY <1>2, <1>3

LEMMA BackedUpStep ==
  ASSUME Typed, Jobs, Bounded, OneLogin, BackedUp, Next
  PROVE  BackedUp'
<1>0. job \in JobType
  BY DEF Typed, JobType
<1>1. CASE ~(Save \/ Clear \/ Activate) /\ ~(Rotate \/ \E a \in Accounts : Login(a))
  BY <1>1, QuietJobs DEF BackedUp, At, AtSecond
<1>2. CASE Rotate \/ \E a \in Accounts : Login(a)
  <2>1. job' = Idle \/ (job'.pc = "restore" /\ Creds \in job'.missed)
    BY <1>0, <1>2, ToolJob DEF Delay, At
  <2> QED
    BY <2>1, IdleJob DEF BackedUp, At, AtSecond
<1>3. CASE Save \/ Clear
  <2>1. job'.pc \in {"save", "clear", "idle"}
    BY <1>0, <1>3, NextFileFirst, NextFileLast, IdleJob DEF Save, Clear, At, Points
  <2> QED
    BY <2>1 DEF BackedUp, At, AtSecond
<1>4. CASE BackupOriginal \/ CopyOriginal
  <2>1. job'.pc \in {"copyOriginal", "backup"}
    BY <1>0, <1>4, NextFileFirst, NextFileLast
       DEF BackupOriginal, CopyOriginal, At, Points, JobType
  <2> QED
    BY <2>1 DEF BackedUp, At, AtSecond
<1>5. CASE BackupCurrent
  <2>1. CASE NeedsBackup
    <3>1. job'.pc = "copyBackup" /\ job'.f = Creds
      BY <1>0, <1>5, <2>1 DEF BackupCurrent, At, JobType, Jobs
    <3> QED
      BY <3>1 DEF BackedUp, At, AtSecond, Creds
  <2>2. CASE ~NeedsBackup
    <3>1. HasAuthFiles => Known
      BY <2>2, ActiveKnown DEF NeedsBackup
    <3>2. UNCHANGED <<live, vault, original, backups>> /\ job'.pc = "resnap"
      BY <1>0, <1>5, <2>2 DEF BackupCurrent, JobType
    <3> QED
      BY <3>1, <3>2, SameDirs DEF BackedUp, At, AtSecond
  <2> QED
    BY <2>1, <2>2
<1>6. CASE Resnapshot
  <2>1. Has(live, Creds) /\ Creds \notin job.missed => Saved(Creds)
    <3>1. SUFFICES ASSUME Has(live, Creds), Creds \notin job.missed PROVE Saved(Creds)
      OBVIOUS
    <3>2. HasAuthFiles /\ Telling = {Creds}
      BY <3>1, FilesAre, TellingFiles DEF HasAuthFiles
    <3>3. Telling \cap job.missed = {}
      BY <3>1, <3>2
    <3>4. Known
      BY <1>6, <3>2, <3>3 DEF Resnapshot, BackedUp
    <3> QED
      BY <3>2, <3>4 DEF Known, Saved, Matches
  <2>2. UNCHANGED <<live, vault, original, backups>>
    BY <1>6 DEF Resnapshot, state
  <2>3. job'.pc \in {"restore", "copyOut"} /\ job.missed \subseteq job'.missed
    BY <1>0, <1>6, ResnapshotJob
  <2> QED
    BY <2>1, <2>2, <2>3, SameDirs, FilesAre DEF BackedUp, At, AtSecond, Has
<1>7. CASE Restore
  <2>1. job' = Idle \/ (job'.pc = "restore" /\ job'.f = 2)
    BY <1>7, FileOf, Restored
  <2> QED
    BY <2>1, IdleJob DEF BackedUp, At, AtSecond, Creds
<1> QED
  BY <1>1, <1>2, <1>3, <1>4, <1>5, <1>6, <1>7, CopyBackupSaves, RotateSaves,
     CopyOutgoingSaves, PassSaves DEF Activate

-----------------------------------------------------------------------------
(* Whole logins.                                                           *)

LEMMA EmptyWhole == Whole(Empty)
BY EmptyDir DEF Whole

LEMMA SameWhole ==
  ASSUME NEW c, NEW d, Whole(c), \A f \in Files : d[f] = c[f]
  PROVE  Whole(d)
BY DEF Whole, LoginOf, Has

\* Two directories that hold a file of the same account hold the same files.
LEMMA SameFiles ==
  ASSUME NEW c \in Dirs, NEW d \in Dirs, Whole(c), Whole(d),
         NEW f \in Files, Has(c, f), Has(d, f), c[f].acct = d[f].acct
  PROVE  /\ \A g \in Files : Has(c, g) <=> Has(d, g)
         /\ Has(c, 2) => c[2] = d[2]
<1>1. PICK a \in Accounts : LoginOf(a, c)
  BY DEF Whole
<1>2. PICK b \in Accounts : LoginOf(b, d)
  BY DEF Whole
<1>3. a = b
  BY <1>1, <1>2 DEF LoginOf
<1>4. \A g \in Files : (Has(c, g) <=> g \in Holds[a]) /\ (Has(d, g) <=> g \in Holds[a])
  BY <1>1, <1>2, <1>3 DEF LoginOf
<1>5. Has(c, 2) => c[2].acct = d[2].acct /\ c[2].t = d[2].t
  BY <1>1, <1>2, <1>3, <1>4, FilesAre DEF LoginOf
<1>6. c[2] \in Contents /\ d[2] \in Contents
  BY FilesAre DEF Dirs
<1> QED
  BY <1>4, <1>5, <1>6 DEF Contents

LEMMA MatchesWhole ==
  ASSUME live \in Dirs, NEW d \in Dirs, Whole(live), Whole(d), HasAuthFiles, Matches(d)
  PROVE  Fits(d) /\ (Has(live, 2) => d[2] = live[2])
<1>1. PICK f \in Telling : f \in Files /\ Has(live, f) /\ d[f] = live[f]
  BY TellingFiles DEF Matches
<1>2. Has(d, f)
  BY <1>1 DEF Has
<1> QED
  BY <1>1, <1>2, SameFiles DEF Fits

\* The directory of a profile whose login is live fits.
LEMMA FitsOwn ==
  ASSUME Typed, OneLogin, Save \/ CopyOutgoing,
         NEW p \in Profiles, p = IF Save THEN job.p ELSE job.out,
         Whole(live), Whole(vault[p]), mixed = {}
  PROVE  Fits(vault[p])
<1>1. live \in Dirs /\ vault[p] \in Dirs
  BY DEF Typed
<1>2. CASE Save
  <2>1. PICK f \in Telling : f \in Files /\ Has(live, f) /\ live[f].acct = Owner[p]
    BY <1>2, TellingFiles DEF Save, OneLogin, CopiesOwn
  <2>2. PICK a \in Accounts : LoginOf(a, live)
    BY <2>1 DEF Whole
  <2>3. a = Owner[p]
    BY <2>1, <2>2 DEF LoginOf
  <2>4. ASSUME NEW g \in Files, Has(vault[p], g) PROVE Has(live, g)
    <3>1. vault[p][g].acct = Owner[p]
      BY <2>4, FilesAre DEF OneLogin, OwnCredentials, OwnOptional, Creds
    <3>2. PICK b \in Accounts : LoginOf(b, vault[p])
      BY <2>4 DEF Whole
    <3>3. g \in Holds[b] /\ b = Owner[p]
      BY <2>4, <3>1, <3>2 DEF LoginOf
    <3> QED
      BY <2>2, <2>3, <3>3 DEF LoginOf
  <2> QED
    BY <2>4 DEF Fits
<1>3. CASE ~Save
  <2>1. HasAuthFiles /\ Matches(vault[p])
    BY <1>3 DEF CopyOutgoing, OneLogin, CopiesOwn
  <2> QED
    BY <1>1, <2>1, MatchesWhole
<1> QED
  BY <1>2, <1>3

\* A copy of a whole login: after the first file and after the second one.
LEMMA CopiedWhole ==
  ASSUME Typed, NEW d \in Dirs, Fits(d), Whole(live), job.f = 2 => d[Creds] = live[Creds]
  PROVE  /\ Fits(Copied(d)) /\ Copied(d)[Creds] = live[Creds]
         /\ job.f = 2 => Whole(Copied(d)) /\ Copied(d)[2] = live[2]
<1>1. \A f \in Files : Copied(d)[f] = IF f = job.f /\ Has(live, f) THEN live[f] ELSE d[f]
  BY CopiedDir DEF Typed
<1>2. \A f \in Files : Has(live, f) \/ d[f] = live[f]
  BY DEF Fits, Has
<1>3. Copied(d)[Creds] = live[Creds]
  BY <1>1, <1>2, FileOf, FilesAre DEF Creds
<1>4. Fits(Copied(d))
  BY <1>1 DEF Fits, Has
<1>5. ASSUME job.f = 2 PROVE \A f \in Files : Copied(d)[f] = live[f]
  BY <1>1, <1>2, <1>3, <1>5, FilesAre DEF Creds
<1> QED
  BY <1>3, <1>4, <1>5, SameWhole, FilesAre

LEMMA TornStep == Next /\ ~torn' => ~torn
BY DEF Next, Login, Rotate, StartSave, StartClear, StartActivate, Delete, Kill, Mishap, Save,
       Clear, Activate, BackupOriginal, CopyOriginal, BackupCurrent, CopyBackup, RotateBackups,
       Resnapshot, CopyOutgoing, SaveFails, Restore, Taints, history

\* What does not change while a step copies nothing: the directories, and that they
\* are whole when no command is at its second file.
LEMMA FirstWhole ==
  ASSUME WholeLogins, job.f = Creds
  PROVE  /\ \A p \in Profiles : Whole(vault[p])
         /\ Whole(original) /\ (Whole(live) \/ leftover)
         /\ \A i \in DOMAIN backups : Whole(backups[i])
BY DEF WholeLogins, WholeDirs, AtSecond, Creds

LEMMA SameWholeDirs ==
  ASSUME UNCHANGED <<vault, original, backups>>,
         \A p \in Profiles : Whole(vault[p]), Whole(original),
         \A i \in DOMAIN backups : Whole(backups[i]),
         (Whole(live) \/ leftover \/ AtSecond("restore") \/ AtSecond("clear"))'
  PROVE  WholeDirs'
<1>1. \A p \in Profiles : Whole(vault[p])'
  BY DEF Whole, LoginOf, Has
<1>2. Whole(original)'
  BY DEF Whole, LoginOf, Has
<1>3. \A i \in DOMAIN backups' : Whole(backups[i])'
  BY DEF Whole, LoginOf, Has
<1> QED
  BY <1>1, <1>2, <1>3 DEF WholeDirs

\* Claude Code logs in and rotates the token.
LEMMA ToolWhole ==
  ASSUME Typed, Jobs, WholeLogins, Rotate \/ \E a \in Accounts : Login(a)
  PROVE  WholeLogins'
<1>1. /\ job.f = Creds /\ job'.f = Creds /\ job'.pc = job.pc /\ job.pc \in {"idle", "restore"}
      /\ job.missed \subseteq job'.missed
      /\ At("restore") => Creds \in job'.missed /\ (Rotate \/ job'.missed = Files)
      /\ UNCHANGED <<vault, original, kept, backups, mixed>>
  BY ToolJob, IdleJob DEF Typed, JobType, Delay, At
<1>2. WholeJob /\ SavedOptional
  BY DEF WholeLogins
<1>3. issued + 1 # 0 /\ issued + 1 \in Nat
  BY ConstantsAssumption DEF Typed
<1>4. Whole(live') \/ leftover'
  <2>1. CASE Rotate
    <3>1. live'[Creds] = [live[Creds] EXCEPT !.t = issued + 1] /\ live'[2] = live[2]
          /\ Has(live, Creds) /\ leftover' = leftover
      BY <2>1, FilesAre DEF Rotate, Typed, Dirs, Creds, history
    <3>2. live[Creds] \in Contents
      BY FilesAre DEF Typed, Dirs
    <3>3. live'[Creds].acct = live[Creds].acct /\ live'[Creds].t = issued + 1
      BY <3>1, <3>2 DEF Contents
    <3>4. live'[Creds] # NoFile
      BY <1>3, <3>3 DEF NoFile
    <3>5. SUFFICES ASSUME Whole(live) PROVE Whole(live')
      BY <1>1, <3>1, FirstWhole
    <3>6. PICK a \in Accounts : LoginOf(a, live)
      BY <3>1, <3>5, FilesAre DEF Whole
    <3>7. LoginOf(a, live')
      <4>1. ASSUME NEW f \in Files
            PROVE  IF f \in Holds[a]
                     THEN Has(live', f) /\ live'[f].acct = a
                          /\ (f = 2 => live'[f].t = MaxIssued + 1)
                     ELSE ~Has(live', f)
        <5>1. CASE f = 1
          BY <3>1, <3>3, <3>4, <3>6, <5>1 DEF LoginOf, Has, Creds
        <5>2. CASE f = 2
          BY <3>1, <3>6, <5>2 DEF LoginOf, Has
        <5> QED
          BY <4>1, <5>1, <5>2, FilesAre
      <4> QED
        BY <4>1 DEF LoginOf
    <3> QED
      BY <3>7 DEF Whole
  <2>2. CASE \E a \in Accounts : Login(a)
    <3>1. PICK a \in Accounts : Login(a)
      BY <2>2
    <3>2. MaxIssued + 1 # 0
      BY ConstantsAssumption
    <3>3. \A f \in Files :
            live'[f] = IF f \notin Holds[a] THEN NoFile
                       ELSE [acct |-> a, t |-> IF f = Creds THEN issued + 1 ELSE MaxIssued + 1]
      BY <3>1 DEF Login
    <3>4. LoginOf(a, live')
      <4>1. ASSUME NEW f \in Files, f \in Holds[a]
            PROVE  Has(live', f) /\ live'[f].acct = a /\ (f = 2 => live'[f].t = MaxIssued + 1)
        <5> DEFINE t == IF f = Creds THEN issued + 1 ELSE MaxIssued + 1
        <5>1. t # 0 /\ (f = 2 => t = MaxIssued + 1)
          BY <1>3, <3>2 DEF Creds
        <5>2. live'[f] = [acct |-> a, t |-> t]
          BY <3>3, <4>1
        <5> HIDE DEF t
        <5>3. NoFile.t = 0
          BY DEF NoFile
        <5> QED
          BY <5>1, <5>2, <5>3 DEF Has
      <4>2. ASSUME NEW f \in Files, f \notin Holds[a] PROVE ~Has(live', f)
        BY <3>3, <4>2 DEF Has
      <4> QED
        BY <4>1, <4>2 DEF LoginOf
    <3> QED
      BY <3>4 DEF Whole
  <2> QED
    BY <2>1, <2>2
<1>5. WholeDirs'
  <2>1. (Whole(live) \/ leftover)'
    BY <1>4 DEF Whole, LoginOf, Has
  <2> QED
    BY <1>1, <2>1, FirstWhole, SameWholeDirs
<1>6. WholeJob'
  BY <1>1, <1>2 DEF WholeJob, AtSecond, At, Creds
<1>7. SavedOptional'
  <2>1. SUFFICES ASSUME job'.pc = "restore", Has(live', 2), 2 \notin job'.missed
                 PROVE  Saved(2)'
    BY DEF SavedOptional, At, Has
  <2>2. Rotate
    BY <1>1, <2>1, FilesAre DEF At
  <2>3. live'[2] = live[2]
    BY <2>2, FilesAre DEF Rotate, Typed, Dirs, Creds
  <2>4. Saved(2)
    BY <1>1, <1>2, <2>1, <2>3 DEF SavedOptional, At, Has
  <2> QED
    BY <1>1, <2>3, <2>4 DEF Saved, SystemDirs, Vaulted
<1> QED
  BY <1>5, <1>6, <1>7 DEF WholeLogins

\* A command starts, or is killed before its first file.
LEMMA StartWhole ==
  ASSUME Typed, Jobs, WholeLogins,
         Kill \/ StartClear \/ \E p \in Profiles : StartSave(p) \/ StartActivate(p),
         ~torn'
  PROVE  WholeLogins'
<1>1. /\ UNCHANGED <<live, vault, original, kept, backups, mixed>> /\ (leftover => leftover')
      /\ job.f = Creds /\ job'.f = Creds
      /\ job'.pc \in {"idle", "save", "clear", "original"}
  <2>1. CASE Kill
    <3>1. job.f = Creds
      BY <2>1 DEF Kill, Mishap
    <3> QED
      BY <2>1, <3>1, IdleJob DEF Kill, state
  <2>2. CASE ~Kill
    <3>1. job = Idle /\ UNCHANGED <<live, vault, original, kept, backups, mixed, leftover>>
      BY <2>2 DEF StartClear, StartSave, StartActivate, state, history
    <3>2. job'.f = Creds /\ job'.pc \in {"save", "clear", "original"}
      BY <2>2 DEF StartClear, StartSave, StartActivate, Idle
    <3> QED
      BY <3>1, <3>2, IdleJob
  <2> QED
    BY <2>1, <2>2
<1>2. WholeDirs'
  <2>1. (Whole(live) \/ leftover)'
    BY <1>1, FirstWhole DEF Whole, LoginOf, Has
  <2> QED
    BY <1>1, <2>1, FirstWhole, SameWholeDirs
<1>3. WholeJob' /\ SavedOptional'
  BY <1>1 DEF WholeLogins, WholeJob, SavedOptional, AtSecond, At, Creds
<1> QED
  BY <1>2, <1>3 DEF WholeLogins

LEMMA DeleteWhole ==
  ASSUME Typed, Jobs, WholeLogins, NEW p \in Profiles, Delete(p)
  PROVE  WholeLogins'
<1>1. /\ job = Idle /\ job' = Idle /\ UNCHANGED <<live, original, kept, backups, leftover>>
      /\ \A q \in Profiles : vault'[q] = IF q = p THEN Empty ELSE vault[q]
      /\ mixed' \subseteq mixed
  BY DEF Delete, Typed
<1>2. job.f = Creds /\ job.pc = "idle"
  BY <1>1, IdleJob
<1>3. \A q \in Profiles : Whole(vault'[q])
  BY <1>1, <1>2, FirstWhole, EmptyWhole DEF Whole, LoginOf, Has
<1>4. WholeDirs'
  BY <1>1, <1>2, <1>3, FirstWhole DEF WholeDirs, Whole, LoginOf, Has
<1>5. WholeJob' /\ SavedOptional'
  BY <1>1, <1>2 DEF WholeLogins, WholeJob, SavedOptional, AtSecond, At, Creds
<1> QED
  BY <1>4, <1>5 DEF WholeLogins

\* A file is copied into the directory of a profile.
LEMMA CopyProfileWhole ==
  ASSUME Typed, Jobs, OneLogin, WholeLogins, Save \/ CopyOutgoing, ~torn'
  PROVE  WholeLogins'
<1> DEFINE p == IF Save THEN job.p ELSE job.out
           here == IF Save THEN "save" ELSE "copyOut"
           after == IF Save THEN "idle" ELSE "restore"
<1>1. p \in Profiles /\ job.pc = here
  BY DEF Save, CopyOutgoing, Jobs, At
<1>2. \A q \in Profiles : vault'[q] = IF q = p THEN Copied(vault[q]) ELSE vault[q]
  BY <1>1 DEF Save, CopyOutgoing, Typed
<1>3. /\ ~leftover /\ mixed' = mixed
      /\ UNCHANGED <<live, original, kept, backups, leftover>>
  BY DEF Save, CopyOutgoing, Taints
<1>4. \/ job.f = Creds /\ job'.pc = here /\ job'.f = 2 /\ job'.p = job.p /\ job'.out = job.out
      \/ job.f = 2 /\ job'.pc = after /\ job'.f = Creds
  <2>0. job \in JobType
    BY DEF Typed, JobType
  <2>1. CASE job.f = Creds
    BY <1>1, <2>0, <2>1, NextFileFirst DEF Save, CopyOutgoing
  <2>2. CASE job.f = 2
    BY <2>0, <2>2, NextFileLast, IdleJob DEF Save, CopyOutgoing, Points, Creds
  <2> QED
    BY <2>1, <2>2, FileOf
<1>5. WholeDirs /\ WholeJob /\ mixed = {}
  BY DEF WholeLogins, WholeJob
<1>6. Whole(live)
  BY <1>1, <1>3, <1>5 DEF WholeDirs, AtSecond, At
<1>7. /\ \A q \in Profiles \ {p} : Whole(vault[q])
      /\ Whole(original) /\ \A i \in DOMAIN backups : Whole(backups[i])
      /\ job.f = Creds => Whole(vault[p])
  BY <1>1, <1>5 DEF WholeDirs, AtSecond, At, Creds
<1>8. Fits(vault[p]) /\ (job.f = 2 => vault[p][Creds] = live[Creds])
  <2>1. CASE job.f = Creds
    <3>1. Fits(vault[p])
      <4> HIDE DEF p
      <4>1. p = IF Save THEN job.p ELSE job.out
        BY DEF p
      <4> QED
        BY <1>1, <1>5, <1>6, <1>7, <2>1, <4>1, FitsOwn
    <3> QED
      BY <2>1, <3>1 DEF Creds
  <2>2. CASE job.f = 2
    BY <1>1, <1>5, <2>2 DEF WholeJob, HalfCopied, AtSecond, At
  <2> QED
    BY <2>1, <2>2, FileOf
<1>9. /\ Fits(vault'[p]) /\ vault'[p][Creds] = live[Creds]
      /\ job.f = 2 => Whole(vault'[p]) /\ vault'[p][2] = live[2]
  <2>1. vault[p] \in Dirs /\ vault'[p] = Copied(vault[p])
    BY <1>1, <1>2 DEF Typed
  <2> HIDE DEF p
  <2> QED
    BY <1>6, <1>8, <2>1, CopiedWhole
<1>10. /\ \A q \in Profiles \ {p} : Whole(vault[q])'
       /\ Whole(original)' /\ Whole(live)'
       /\ \A i \in DOMAIN backups' : Whole(backups[i])'
  <2>1. \A q \in Profiles \ {p} : vault'[q] = vault[q]
    BY <1>2
  <2> HIDE DEF p
  <2> QED
    BY <1>3, <1>6, <1>7, <2>1 DEF Whole, LoginOf, Has
<1>11. /\ Creds # 2 /\ here # after
       /\ (here = "save" => p = job.p) /\ (here = "copyOut" => p = job.out)
       /\ here \in {"save", "copyOut"} /\ after \in {"idle", "restore"}
  BY DEF Creds
<1> HIDE DEF p, here, after
<1>12. CASE job.f = Creds
  <2>1. job'.pc = here /\ job'.f = 2 /\ job'.p = job.p /\ job'.out = job.out
    BY <1>4, <1>11, <1>12
  <2>2. WholeDirs'
    <3>1. \A q \in Profiles : Whole(vault[q])' \/ (AtSecond("save") /\ q = job.p)'
                                \/ (AtSecond("copyOut") /\ q = job.out)'
      <4> TAKE q \in Profiles
      <4>1. CASE q = p
        BY <1>11, <2>1, <4>1 DEF AtSecond, At
      <4>2. CASE q # p
        BY <1>10, <4>2
      <4> QED
        BY <4>1, <4>2
    <3> QED
      BY <1>10, <3>1 DEF WholeDirs
  <2>3. /\ ~leftover' /\ vault'[p][Creds] = live'[Creds]
        /\ \A f \in Files : Has(vault'[p], f) => Has(live', f)
    BY <1>3, <1>9 DEF Fits, Has
  <2>4. /\ AtSecond("save")' => HalfCopied(vault[job.p])'
        /\ AtSecond("copyOut")' => HalfCopied(vault[job.out])'
    <3>1. AtSecond("save")' => p = job'.p
      BY <1>11, <2>1 DEF AtSecond, At
    <3>2. AtSecond("copyOut")' => p = job'.out
      BY <1>11, <2>1 DEF AtSecond, At
    <3> QED
      BY <2>3, <3>1, <3>2 DEF HalfCopied, Fits, Has
  <2>5. WholeJob'
    BY <1>1, <1>3, <1>5, <1>11, <2>1, <2>4 DEF WholeJob, AtSecond, At, Creds
  <2>6. SavedOptional'
    BY <1>11, <2>1 DEF SavedOptional, At
  <2> QED
    BY <2>2, <2>5, <2>6 DEF WholeLogins
<1>13. CASE job.f = 2
  <2>1. job'.pc = after /\ job'.f = Creds
    BY <1>4, <1>11, <1>13
  <2>2. \A q \in Profiles : Whole(vault[q])'
    <3> TAKE q \in Profiles
    <3>1. CASE q = p
      BY <1>9, <1>13, <3>1 DEF Whole, LoginOf, Has
    <3>2. CASE q # p
      BY <1>10, <3>2
    <3> QED
      BY <3>1, <3>2
  <2>3. WholeDirs'
    BY <1>10, <2>2 DEF WholeDirs
  <2>4. WholeJob'
    BY <1>1, <1>3, <1>5, <1>11, <2>1 DEF WholeJob, AtSecond, At, Creds
  <2>5. SavedOptional'
    BY <1>1, <1>3, <1>9, <1>13 DEF SavedOptional, Saved, Vaulted, Has
  <2> QED
    BY <2>3, <2>4, <2>5 DEF WholeLogins
<1> QED
  BY <1>12, <1>13, FileOf

LEMMA CopyOriginalWhole ==
  ASSUME Typed, Jobs, WholeLogins, CopyOriginal, ~torn'
  PROVE  WholeLogins'
<1>1. /\ job \in JobType /\ job.pc = "copyOriginal" /\ original' = Copied(original)
      /\ UNCHANGED <<live, vault, kept, backups, leftover>> /\ NextFile("backup")
      /\ ~leftover /\ mixed' = mixed
  BY DEF CopyOriginal, Typed, JobType, At, Taints
<1>2. WholeDirs /\ WholeJob
  BY DEF WholeLogins
<1>3. Whole(live) /\ (\A p \in Profiles : Whole(vault[p]))
      /\ \A i \in DOMAIN backups : Whole(backups[i])
  BY <1>1, <1>2 DEF WholeDirs, AtSecond, At
<1>4. Fits(original) /\ (job.f = 2 => original[Creds] = live[Creds])
  <2>1. CASE job.f = Creds
    BY <1>1, <1>2, <2>1, EmptyDir DEF WholeJob, At, Fits, Creds
  <2>2. CASE job.f = 2
    BY <1>1, <1>2, <2>2 DEF WholeJob, HalfCopied, AtSecond, At
  <2> QED
    BY <2>1, <2>2, FileOf
<1>5. /\ Fits(original') /\ original'[Creds] = live[Creds]
      /\ job.f = 2 => Whole(original')
  BY <1>1, <1>3, <1>4, CopiedWhole DEF Typed
<1>6. /\ \A p \in Profiles : Whole(vault[p])'
      /\ Whole(live)' /\ \A i \in DOMAIN backups' : Whole(backups[i])'
  BY <1>1, <1>3 DEF Whole, LoginOf, Has
<1>7. CASE job.f = Creds
  <2>1. job'.pc = "copyOriginal" /\ job'.f = 2
    BY <1>1, <1>7, NextFileFirst
  <2>2. WholeDirs'
    BY <1>6, <2>1 DEF WholeDirs, AtSecond, At
  <2>3. HalfCopied(original)'
    BY <1>1, <1>5 DEF HalfCopied, Fits, Has
  <2>4. WholeJob' /\ SavedOptional'
    BY <1>1, <1>2, <2>1, <2>3 DEF WholeJob, SavedOptional, AtSecond, At, Creds
  <2> QED
    BY <2>2, <2>4 DEF WholeLogins
<1>8. CASE job.f = 2
  <2>1. job'.pc = "backup" /\ job'.f = Creds
    BY <1>1, <1>8, NextFileLast DEF Points, Creds
  <2>2. Whole(original)'
    BY <1>5, <1>8 DEF Whole, LoginOf, Has
  <2>3. WholeDirs'
    BY <1>6, <2>2 DEF WholeDirs
  <2>4. WholeJob' /\ SavedOptional'
    BY <1>1, <1>2, <2>1 DEF WholeJob, SavedOptional, AtSecond, At, Creds
  <2> QED
    BY <2>3, <2>4 DEF WholeLogins
<1> QED
  BY <1>7, <1>8, FileOf

LEMMA CopyBackupWhole ==
  ASSUME Typed, Jobs, Bounded, WholeLogins, CopyBackup, ~torn'
  PROVE  WholeLogins'
<1>1. /\ job \in JobType /\ job.pc = "copyBackup" /\ Len(backups) >= 1
      /\ UNCHANGED <<live, vault, original, kept, leftover>> /\ NextFile("rotate")
      /\ ~leftover /\ mixed' = mixed
  BY DEF CopyBackup, Typed, JobType, At, Taints, Bounded
<1>2. WholeDirs /\ WholeJob
  BY DEF WholeLogins
<1>3. /\ Len(backups') = Len(backups) /\ DOMAIN backups' = DOMAIN backups
      /\ Len(backups) \in DOMAIN backups
      /\ \A i \in DOMAIN backups :
           backups'[i] = IF i = Len(backups) THEN Copied(Last) ELSE backups[i]
  BY <1>1, CopiedBackup DEF CopyBackup
<1>4. Last' = Copied(Last) /\ Last \in Dirs
  BY <1>3, ElementOfSeq, LenProperties DEF Last, Typed
<1>5. /\ Whole(live) /\ (\A p \in Profiles : Whole(vault[p])) /\ Whole(original)
      /\ \A i \in DOMAIN backups \ {Len(backups)} : Whole(backups[i])
  BY <1>1, <1>2 DEF WholeDirs, AtSecond, At
<1>6. Fits(Last) /\ (job.f = 2 => Last[Creds] = live[Creds])
  <2>1. CASE job.f = Creds
    BY <1>1, <1>2, <2>1, EmptyDir DEF WholeJob, At, Fits, Creds
  <2>2. CASE job.f = 2
    BY <1>1, <1>2, <2>2 DEF WholeJob, HalfCopied, AtSecond, At
  <2> QED
    BY <2>1, <2>2, FileOf
<1>7. /\ Fits(Last') /\ Last'[Creds] = live[Creds]
      /\ job.f = 2 => Whole(Last')
  BY <1>4, <1>5, <1>6, CopiedWhole
<1>8. /\ \A p \in Profiles : Whole(vault[p])'
      /\ Whole(live)' /\ Whole(original)'
      /\ \A i \in DOMAIN backups' \ {Len(backups')} : Whole(backups[i])'
  BY <1>1, <1>3, <1>5 DEF Whole, LoginOf, Has
<1>9. CASE job.f = Creds
  <2>1. job'.pc = "copyBackup" /\ job'.f = 2
    BY <1>1, <1>9, NextFileFirst
  <2>2. WholeDirs'
    BY <1>8, <2>1 DEF WholeDirs, AtSecond, At
  <2>3. HalfCopied(Last)'
    <3>1. /\ ~leftover' /\ Last'[Creds] = live'[Creds]
          /\ \A f \in Files : Has(Last', f) => Has(live', f)
      BY <1>1, <1>7 DEF Fits, Has
    <3> QED
      BY <3>1 DEF HalfCopied, Fits, Has
  <2>4. WholeJob' /\ SavedOptional'
    BY <1>1, <1>2, <2>1, <2>3 DEF WholeJob, SavedOptional, AtSecond, At, Creds
  <2> QED
    BY <2>2, <2>4 DEF WholeLogins
<1>10. CASE job.f = 2
  <2>1. job'.pc = "rotate" /\ job'.f = Creds
    BY <1>1, <1>10, NextFileLast DEF Points, Creds
  <2>2. Whole(backups'[Len(backups')])
    BY <1>7, <1>10 DEF Last
  <2>3. \A i \in DOMAIN backups' : Whole(backups[i])'
    <3> TAKE i \in DOMAIN backups'
    <3>1. CASE i = Len(backups')
      BY <2>2, <3>1 DEF Whole, LoginOf, Has
    <3>2. CASE i # Len(backups')
      BY <1>8, <3>2
    <3> QED
      BY <3>1, <3>2
  <2>4. WholeDirs'
    BY <1>8, <2>3 DEF WholeDirs
  <2>5. WholeJob' /\ SavedOptional'
    BY <1>1, <1>2, <2>1 DEF WholeJob, SavedOptional, AtSecond, At, Creds
  <2> QED
    BY <2>4, <2>5 DEF WholeLogins
<1> QED
  BY <1>9, <1>10, FileOf

LEMMA ClearWhole ==
  ASSUME Typed, Jobs, WholeLogins, Clear
  PROVE  WholeLogins'
<1>1. /\ job \in JobType /\ UNCHANGED <<vault, original, kept, backups, mixed>>
      /\ job.pc = "clear" /\ NextFile("idle")
      /\ \A f \in Files : live'[f] = IF f = job.f THEN NoFile ELSE live[f]
  BY DEF Clear, Typed, JobType, Dirs, At
<1>2. WholeDirs /\ WholeJob
  BY DEF WholeLogins
<1>3. /\ \A p \in Profiles : Whole(vault[p])
      /\ Whole(original) /\ \A i \in DOMAIN backups : Whole(backups[i])
  BY <1>1, <1>2 DEF WholeDirs, AtSecond, At
<1>4. CASE job.f = Creds
  <2>1. job'.pc = "clear" /\ job'.f = 2 /\ ~Has(live', Creds)
    BY <1>1, <1>4, NextFileFirst, FilesAre DEF Has
  <2>2. WholeDirs'
    BY <1>1, <1>3, <2>1, SameWholeDirs DEF AtSecond, At
  <2>3. WholeJob' /\ SavedOptional'
    BY <1>1, <1>2, <2>1 DEF WholeJob, SavedOptional, AtSecond, At, Creds, Has
  <2> QED
    BY <2>2, <2>3 DEF WholeLogins
<1>5. CASE job.f = 2
  <2>1. job' = Idle
    BY <1>1, <1>5, NextFileLast DEF Creds, Points
  <2>2. \A f \in Files : ~Has(live', f)
    BY <1>1, <1>2, <1>5, FilesAre DEF WholeJob, AtSecond, At, Has, Creds
  <2>3. Whole(live)'
    BY <2>2 DEF Whole, Has
  <2>4. WholeDirs'
    BY <1>1, <1>3, <2>3, SameWholeDirs
  <2>5. WholeJob' /\ SavedOptional'
    BY <1>1, <1>2, <2>1, IdleJob DEF WholeJob, SavedOptional, AtSecond, At, Creds
  <2> QED
    BY <2>4, <2>5 DEF WholeLogins
<1> QED
  BY <1>4, <1>5, FileOf

\* The steps of a switch that only decide how to go on, and saves that fail.
LEMMA DecideWhole ==
  ASSUME Typed, Jobs, OneLogin, WholeLogins, BackedUp,
         BackupOriginal \/ Resnapshot \/ SaveFails, ~torn'
  PROVE  WholeLogins'
<1>0. job \in JobType
  BY DEF Typed, JobType
<1>1. /\ UNCHANGED <<live, vault, original, backups, leftover, mixed>>
      /\ job.f = Creds /\ job'.f = Creds
      /\ \/ job'.pc = "copyOriginal" /\ ~kept /\ kept'
         \/ job'.pc \in {"backup", "resnap", "copyOut", "restore"} /\ (kept' <=> kept)
      /\ ~At("copyOriginal")
  <2>1. CASE BackupOriginal
    BY <1>0, <2>1 DEF BackupOriginal, JobType, Jobs, At, history, Typed
  <2>2. CASE Resnapshot
    BY <1>0, <2>2, ResnapshotJob DEF Resnapshot, Jobs, At, state, history
  <2>3. CASE SaveFails
    <3>1. job.f = Creds
      BY <1>0, <2>3, PassJob
    <3> QED
      BY <1>0, <2>3, <3>1, PassJob DEF At
  <2> QED
    BY <2>1, <2>2, <2>3
<1>2. WholeDirs'
  <2>1. (Whole(live) \/ leftover)'
    BY <1>1, FirstWhole DEF Whole, LoginOf, Has
  <2> QED
    BY <1>1, <2>1, FirstWhole, SameWholeDirs
<1>3. WholeJob'
  BY <1>1 DEF WholeLogins, WholeJob, AtSecond, At, Creds
<1>4. SavedOptional'
  <2>1. SUFFICES ASSUME job'.pc = "restore", Has(live, 2), 2 \notin job'.missed PROVE Saved(2)
    BY <1>1, SameDirs, FilesAre DEF SavedOptional, At, Has
  <2>2. HasAuthFiles
    BY <2>1, FilesAre DEF HasAuthFiles
  <2>3. CASE Resnapshot
    <3>1. ~leftover /\ 2 \notin job.missed
      BY <1>0, <2>1, <2>3, ResnapshotJob
    <3>2. job.missed = {}
      BY <2>3, <3>1, FilesAre DEF Resnapshot, Jobs
    <3>3. Known
      BY <2>2, <2>3, <3>2 DEF Resnapshot, BackedUp
    <3>4. PICK d \in SystemDirs \cup Vaulted : Matches(d)
      BY <3>3 DEF Known
    <3>5. Whole(d) /\ Whole(live)
      BY <1>1, <3>1, FirstWhole DEF SystemDirs, Vaulted
    <3>6. d \in Dirs /\ live \in Dirs
      BY ElementOfSeq, LenProperties DEF SystemDirs, Vaulted, Typed
    <3> QED
      BY <2>1, <2>2, <3>4, <3>5, <3>6, MatchesWhole DEF Saved
  <2>4. CASE SaveFails
    <3>1. At("copyOut") /\ 2 \notin NotSaved
      BY <1>0, <2>1, <2>4, PassJob
    <3>2. NotSaved = {f \in Files : f >= job.f} \ Telling
      BY <3>1 DEF NotSaved, At
    <3>3. 2 \in Telling
      BY <1>1, <3>1, <3>2, FilesAre DEF Creds
    <3>4. job.out \in Profiles /\ vault[job.out][2] = live[2]
      BY <3>1, <3>3 DEF Jobs, OneLogin, CopiesOwn, Matches, At
    <3> QED
      BY <3>4 DEF Saved, Vaulted
  <2>5. CASE BackupOriginal
    BY <1>0, <2>1, <2>5 DEF BackupOriginal, JobType
  <2> QED
    BY <2>3, <2>4, <2>5
<1> QED
  BY <1>2, <1>3, <1>4 DEF WholeLogins

LEMMA BackupCurrentWhole ==
  ASSUME Typed, Jobs, WholeLogins, BackupCurrent
  PROVE  WholeLogins'
<1>1. /\ job \in JobType /\ UNCHANGED <<live, vault, original, kept, mixed, leftover>>
      /\ job.f = Creds /\ job'.f = Creds /\ job.pc = "backup"
      /\ \/ job'.pc = "copyBackup" /\ backups' = Append(backups, Empty)
         \/ job'.pc = "resnap" /\ UNCHANGED backups
  BY DEF BackupCurrent, Typed, JobType, Jobs, At, history
<1>2. /\ \A p \in Profiles : Whole(vault[p])'
      /\ Whole(original)' /\ (Whole(live) \/ leftover)'
  BY <1>1, FirstWhole DEF Whole, LoginOf, Has
<1>3. \A i \in DOMAIN backups' : \/ i \in DOMAIN backups /\ backups'[i] = backups[i]
                                 \/ backups'[i] = Empty
  BY <1>1, AppendedBackup DEF Typed
<1>4. \A i \in DOMAIN backups' : Whole(backups'[i])
  BY <1>1, <1>3, FirstWhole, EmptyWhole
<1>5. \A i \in DOMAIN backups' : Whole(backups[i])'
  BY <1>4 DEF Whole, LoginOf, Has
<1>6. job'.pc = "copyBackup" => Last' = Empty
  BY <1>1, AppendProperties, LenProperties, EmptyDir DEF Last, Typed
<1>7. WholeDirs'
  BY <1>2, <1>5 DEF WholeDirs
<1>8. WholeJob' /\ SavedOptional'
  BY <1>1, <1>6 DEF WholeLogins, WholeJob, SavedOptional, AtSecond, At, Creds
<1> QED
  BY <1>7, <1>8 DEF WholeLogins

LEMMA RotateBackupsWhole ==
  ASSUME Typed, Jobs, Bounded, WholeLogins, RotateBackups
  PROVE  WholeLogins'
<1>1. /\ job \in JobType /\ UNCHANGED <<live, vault, original, kept, mixed, leftover>>
      /\ job.f = Creds /\ job'.f = Creds /\ job.pc = "rotate" /\ job'.pc = "resnap"
  BY DEF RotateBackups, Typed, JobType, Jobs, At, history
<1>2. /\ \A p \in Profiles : Whole(vault[p])'
      /\ Whole(original)' /\ (Whole(live) \/ leftover)'
  BY <1>1, FirstWhole DEF Whole, LoginOf, Has
<1>3. \A i \in DOMAIN backups' : \E j \in DOMAIN backups : backups'[i] = backups[j]
  BY <1>1, RotatedBackups DEF RotateBackups, Bounded, Typed, At
<1>4. \A i \in DOMAIN backups' : Whole(backups'[i])
  BY <1>1, <1>3, FirstWhole
<1>5. \A i \in DOMAIN backups' : Whole(backups[i])'
  BY <1>4 DEF Whole, LoginOf, Has
<1>6. WholeDirs'
  BY <1>2, <1>5 DEF WholeDirs
<1>7. WholeJob' /\ SavedOptional'
  BY <1>1 DEF WholeLogins, WholeJob, SavedOptional, AtSecond, At, Creds
<1> QED
  BY <1>6, <1>7 DEF WholeLogins

LEMMA RestoreWhole ==
  ASSUME Typed, Jobs, OneLogin, WholeLogins, Restore
  PROVE  WholeLogins'
<1>1. /\ job \in JobType /\ UNCHANGED <<vault, original, kept, backups, mixed>>
      /\ job.pc = "restore"
  BY DEF Restore, Typed, JobType, At
<1>2. WholeDirs /\ WholeJob /\ SavedOptional
  BY DEF WholeLogins
<1>3. /\ \A p \in Profiles : Whole(vault[p])
      /\ Whole(original) /\ \A i \in DOMAIN backups : Whole(backups[i])
  BY <1>1, <1>2 DEF WholeDirs, AtSecond, At
<1>4. CASE job.f = Creds
  <2>1. job'.pc = "restore" /\ job'.f = 2 /\ job'.missed = job.missed /\ live'[2] = live[2]
    BY <1>4, Restored, FilesAre DEF Creds
  <2>2. WholeDirs'
    BY <1>1, <1>3, <2>1, SameWholeDirs DEF AtSecond, At
  <2>3. WholeJob'
    BY <1>1, <1>2, <2>1 DEF WholeJob, AtSecond, At
  <2>4. SavedOptional'
    BY <1>1, <1>2, <2>1 DEF SavedOptional, Saved, SystemDirs, Vaulted, At, Has
  <2> QED
    BY <2>2, <2>3, <2>4 DEF WholeLogins
<1>5. CASE job.f = 2
  <2>1. job' = Idle
    BY <1>5, Restored
  <2>2. Whole(live') \/ leftover'
    <3>1. SUFFICES ASSUME ~leftover' PROVE Whole(live')
      OBVIOUS
    <3>2. ~leftover /\ job.p \in Profiles /\ live'[2] = vault[job.p][2]
          /\ live'[Creds] = live[Creds]
      BY <1>5, <3>1, Restored, FilesAre DEF Creds
    <3>3. live[Creds] = vault[job.p][Creds]
      BY <1>1, <1>5, <3>2 DEF OneLogin, Restoring, AtSecond, At
    <3>4. \A f \in Files : live'[f] = vault[job.p][f]
      BY <3>2, <3>3, FilesAre DEF Creds
    <3> QED
      BY <1>3, <3>2, <3>4, SameWhole
  <2>3. (Whole(live) \/ leftover)'
    BY <2>2 DEF Whole, LoginOf, Has
  <2>4. WholeDirs'
    BY <1>1, <1>3, <2>3, SameWholeDirs
  <2>5. WholeJob' /\ SavedOptional'
    BY <1>1, <1>2, <2>1, IdleJob DEF WholeJob, SavedOptional, AtSecond, At, Creds
  <2> QED
    BY <2>4, <2>5 DEF WholeLogins
<1> QED
  BY <1>4, <1>5, FileOf

LEMMA WholeStep ==
  ASSUME Safe, WholeLogins, Next, ~torn'
  PROVE  WholeLogins'
BY ToolWhole, StartWhole, DeleteWhole, CopyProfileWhole, CopyOriginalWhole, CopyBackupWhole,
   ClearWhole, DecideWhole, BackupCurrentWhole, RotateBackupsWhole, RestoreWhole
   DEF Safe, Next, Activate

-----------------------------------------------------------------------------
(* The theorems.                                                           *)

LEMMA InitInv == Init => IInv
<1>1. SUFFICES ASSUME Init PROVE IInv
  OBVIOUS
<1>2. Typed
  <2>1. live \in Dirs /\ original \in Dirs /\ vault \in [Profiles -> Dirs]
    BY <1>1, EmptyDir DEF Init
  <2>2. backups \in Seq(Dirs) /\ consumed \subseteq Contents /\ mixed \subseteq Profiles
    BY <1>1, EmptySeq DEF Init
  <2>3. job \in [pc : Points, p : Names, out : Names, f : Files, missed : SUBSET Files]
    BY <1>1, IdleJob DEF Init, JobType
  <2>4. issued \in 0 .. MaxIssued /\ mishaps \in 0 .. MaxMishaps
    <3>1. 0 \in 0 .. MaxIssued /\ 0 \in 0 .. MaxMishaps
      BY ConstantsAssumption
    <3> QED
      BY <1>1, <3>1 DEF Init
  <2>5. kept \in BOOLEAN /\ leftover \in BOOLEAN /\ torn \in BOOLEAN
    BY <1>1 DEF Init
  <2> QED
    BY <2>1, <2>2, <2>3, <2>4, <2>5 DEF Typed
<1>3. \A f \in Files : ~Has(Empty, f)
  BY EmptyDir
<1>4. job.pc = "idle" /\ job.f = Creds /\ job = Idle
  BY <1>1, IdleJob DEF Init
<1>5. Jobs /\ Bounded /\ BackedUp
  BY <1>1, <1>4, EmptySeq, ConstantsAssumption
     DEF Init, Jobs, Bounded, BackedUp, At, AtSecond, Activating
<1>6. OneLogin
  BY <1>1, <1>3, <1>4, FilesAre
     DEF Init, OneLogin, OwnCredentials, OwnOptional, CopiesOwn, LiveOne, Restoring, At, AtSecond
<1>7. WholeLogins
  <2>1. WholeDirs
    BY <1>1, EmptyWhole, EmptySeq DEF Init, WholeDirs
  <2>2. WholeJob /\ SavedOptional
    BY <1>1, <1>4 DEF Init, WholeJob, SavedOptional, AtSecond, At
  <2> QED
    BY <2>1, <2>2 DEF WholeLogins
<1> QED
  BY <1>2, <1>5, <1>6, <1>7 DEF IInv, Safe

LEMMA NextInv == IInv /\ [Next]_vars => IInv'
<1>1. SUFFICES ASSUME IInv, [Next]_vars PROVE IInv'
  OBVIOUS
<1>2. CASE Next
  <2>1. Safe'
    BY <1>1, <1>2, TypedStep, JobsStep, BoundedStep, OneLoginStep, BackedUpStep DEF IInv, Safe
  <2>2. ~torn' => WholeLogins'
    BY <1>1, <1>2, TornStep, WholeStep DEF IInv
  <2> QED
    BY <2>1, <2>2 DEF IInv
<1>3. CASE UNCHANGED vars
  <2> USE DEF vars, state, history
  <2>1. Typed' /\ Jobs' /\ Bounded'
    BY <1>1, <1>3 DEF IInv, Safe, Typed, Jobs, Bounded, At
  <2>2. UNCHANGED <<live, vault, original, backups>>
    BY <1>3
  <2>3. OneLogin'
    <3>1. OneLogin
      BY <1>1 DEF IInv, Safe
    <3>2. (OwnCredentials /\ OwnOptional /\ LiveOne /\ Restoring)'
      BY <1>3, <3>1
         DEF OneLogin, OwnCredentials, OwnOptional, LiveOne, Restoring, At, AtSecond, Has
    <3>3. CopiesOwn'
      BY <1>3, <2>2, <3>1, SameDirs DEF OneLogin, CopiesOwn, At, Matches
    <3> QED
      BY <3>2, <3>3 DEF OneLogin
  <2>4. BackedUp'
    <3>1. BackedUp
      BY <1>1 DEF IInv, Safe
    <3> QED
      BY <1>3, <2>2, <3>1, SameDirs, FilesAre DEF BackedUp, At, AtSecond, Kept, Has, Last
  <2>5. ~torn' => WholeLogins'
    <3>1. SUFFICES ASSUME WholeLogins PROVE WholeLogins'
      BY <1>1, <1>3 DEF IInv
    <3>2. WholeDirs'
      BY <1>3, <3>1 DEF WholeLogins, WholeDirs, AtSecond, At, Whole, LoginOf, Has
    <3>3. WholeJob'
      BY <1>3, <3>1 DEF WholeLogins, WholeJob, HalfCopied, Fits, AtSecond, At, Has, Last
    <3>4. SavedOptional'
      BY <1>3, <2>2, <3>1, SameDirs, FilesAre DEF WholeLogins, SavedOptional, At, Has
    <3> QED
      BY <3>2, <3>3, <3>4 DEF WholeLogins
  <2> QED
    BY <2>1, <2>3, <2>4, <2>5 DEF IInv, Safe
<1> QED
  BY <1>1, <1>2, <1>3

\* The inductive invariant.
THEOREM Invariance == Spec => []IInv
BY InitInv, NextInv, PTL DEF Spec

\* Every directory holds whole files, and the timestamped backups exceed
\* safety.max_auto_backups by those that a mishap cut short at most.
THEOREM TypeCorrect == Spec => []TypeOK
<1>1. IInv => TypeOK
  BY IdleJob DEF IInv, Safe, Typed, Bounded, TypeOK
<1> QED
  BY <1>1, Invariance, PTL

\* A profile is never given the credentials of another account, whatever is killed or
\* fails and whichever files the logins have, and its optional file is its own unless
\* it was saved while the live files were of two logins.
THEOREM FilesOwn == Spec => []OwnFiles
<1>1. IInv => OwnFiles
  BY FilesAre DEF IInv, Safe, OneLogin, OwnCredentials, OwnOptional, OwnFiles, Creds
<1> QED
  BY <1>1, Invariance, PTL

\* Between commands the live files are one account's, unless the last switch stopped on
\* the way, passed over a live file, or brought back a mixed profile.
THEOREM LiveOfOneAccount == Spec => []OneAccount
<1>1. IInv => OneAccount
  BY IdleJob DEF IInv, Safe, OneLogin, LiveOne, OneAccount, AtSecond, At
<1> QED
  BY <1>1, Invariance, PTL

\* The file that a step of a switch overwrites.
LEMMA OverwrittenSaved ==
  ASSUME IInv, Next, At("restore"), NEW f \in Files \ job.missed,
         live'[f] # live[f], Has(live, f), f = Creds \/ ~torn
  PROVE  Saved(f)
<1>1. f = Creds \/ f = 2
  BY FilesAre DEF Creds
<1>2. f = 2 => Saved(f)
  BY DEF IInv, WholeLogins, SavedOptional, Creds
<1>3. ASSUME f = Creds PROVE job.f = Creds
  <2>1. CASE Restore
    BY <1>3, <2>1, Restored DEF IInv, Safe
  <2>2. CASE Rotate \/ \E a \in Accounts : Login(a)
    <3>1. job = Idle \/ Delay
      BY <2>2 DEF Rotate, Login
    <3> QED
      BY <3>1, IdleJob DEF Delay
  <2>3. CASE Kill \/ Clear
    BY <2>3 DEF Kill, Clear, state, At
  <2>4. CASE ~(Rotate \/ Clear \/ Restore \/ Kill \/ \E a \in Accounts : Login(a))
    BY <2>4, LiveUnchanged
  <2> QED
    BY <2>1, <2>2, <2>3, <2>4
<1>4. f = Creds => Saved(f)
  BY <1>3 DEF IInv, Safe, BackedUp
<1> QED
  BY <1>1, <1>2, <1>4

\* Activate replaces no live file that is not in the vault, wherever earlier commands were
\* killed and whichever files the logins have: no credentials unless it has warned or the
\* login changed while it waited, and no optional file where the directories and the live
\* files are of one whole login each.
THEOREM LoginKept == Spec => SwitchKeepsLogin
<1>1. IInv /\ [Next]_vars =>
        [At("restore") =>
           \A f \in Files \ job.missed :
             (live'[f] # live[f] /\ Has(live, f) /\ (~torn \/ f = Creds)) =>
               \E d \in SystemDirs \cup {vault[p] : p \in Profiles} : d[f] = live[f]]_vars
  BY OverwrittenSaved DEF Saved, Vaulted, vars
<1> QED
  BY <1>1, Invariance, PTL DEF Spec, SwitchKeepsLogin
=============================================================================
