----------------------------- MODULE VaultSync -----------------------------
(***************************************************************************)
(* `caam sync`: commands on several machines copy the profiles of their     *)
(* vaults to each other over SFTP (internal/sync: Syncer, SyncState,        *)
(* SyncPool; cmd/sync.go: sync, queue --process, add, remove).              *)
(*                                                                         *)
(* A vault directory has the file that carries the token, "main", and       *)
(* another one, "side"; both are the version of the token they were saved   *)
(* with, 0 when absent.  The freshness of a profile is the expiry in its    *)
(* main file.  A file operation is one step, and so is saving the state.    *)
(***************************************************************************)
EXTENDS Integers, Sequences, FiniteSets, SequencesExt

CONSTANTS
  Machines,    \* machines with a vault; each may sync with the others
  Profiles,    \* names of profiles
  Dated,       \* the profiles whose main file has an expiry
  Commands,    \* processes
  MaxQueue,    \* DefaultQueueMaxSize
  MaxVersions  \* bound: versions of a token

ASSUME ConstantsAssumption ==
  /\ Machines # {} /\ Dated \subseteq Profiles
  /\ MaxQueue \in Nat \ {0} /\ MaxVersions \in Nat \ {0}

VARIABLES
  vault,      \* per machine and profile: the version of each file
  newest,     \* the version the account's last rotation has made
  pool,       \* pool.json of each machine: the machines it syncs with
  queue,      \* queue.json of each machine: retries of a profile with a machine
  cmd,        \* the commands
  blind,      \* history: profiles with a write that did not know what it replaced
  torn,       \* history: copies that stopped between two files, or whose ends changed
  owed,       \* history: copies that failed, and did not succeed since
  overtaken   \* history: machines whose state was saved over another command's

disk == <<pool, queue>>
history == <<blind, torn, owed, overtaken>>
vars == <<vault, newest, pool, queue, cmd, blind, torn, owed, overtaken>>

Files == {"main", "side"}
NoFiles == [f \in Files |-> 0]
Ops == Profiles \X Machines
Points == {"new", "machine", "next", "copy", "outer", "save", "done"}

At(s, q) == cmd[s].pc = q
Entries(q) == {q[i] : i \in DOMAIN q}
Present(files) == {f \in Files : files[f] # 0}

\* What a command keeps: its home machine, the state of its Syncer (pool, queue), the
\* state the queue command loaded itself (outer), what is left to do, the copy under
\* way, and the operations that succeeded and failed.
Idle == [pc |-> "new", kind |-> "sync", home |-> CHOOSE m \in Machines : TRUE,
         athome |-> FALSE, pool |-> {}, queue |-> <<>>, outer |-> <<>>, base |-> <<>>,
         targets |-> {}, todo |-> {}, op |-> <<>>, ends |-> <<>>, src |-> NoFiles,
         was |-> NoFiles, files |-> {}, raced |-> FALSE, ok |-> {}, bad |-> {}]

Init ==
  /\ vault \in [Machines -> [Profiles -> {NoFiles, [f \in Files |-> 1]}]]
  /\ \A p \in Profiles : \E m \in Machines : vault[m][p] # NoFiles
  /\ newest = [p \in Profiles |-> 1]
  /\ pool = [m \in Machines |-> Machines \ {m}]
  /\ queue = [m \in Machines |-> <<>>]
  /\ cmd = [s \in Commands |-> Idle]
  /\ blind = {} /\ torn = {} /\ overtaken = {}
  /\ owed = [m \in Machines |-> {}]

-----------------------------------------------------------------------------
(* The accounts: a profile in use on a machine gets a new token, which       *)
(* `caam backup` saves there.  Only the holder of the newest one can.        *)

Rotate(m, p) ==
  /\ vault[m][p].main = newest[p] /\ newest[p] < MaxVersions
  /\ newest' = [newest EXCEPT ![p] = @ + 1]
  /\ vault' = [vault EXCEPT ![m][p] = [f \in Files |-> newest[p] + 1]]
  /\ torn' = torn \ {<<m, p>>}
  /\ UNCHANGED <<disk, cmd, blind, owed, overtaken>>

-----------------------------------------------------------------------------
(* SyncState: its files, and the commands that load and save them.          *)

\* AddToQueue: an entry that is there is only counted up.
AddToQueue(q, op) == IF Contains(q, op) THEN q ELSE Append(q, op)

RemoveFromQueue(q, op) == IF Contains(q, op) THEN RemoveFirst(q, op) ELSE q

\* saveQueue keeps the newest entries.
Trimmed(q) == IF Len(q) > MaxQueue THEN SubSeq(q, Len(q) - MaxQueue + 1, Len(q)) ELSE q

\* Save writes all that was loaded, whatever the files hold by now.
Saves(s, machines, q) ==
  LET h == cmd[s].home
  IN /\ pool' = [pool EXCEPT ![h] = machines]
     /\ queue' = [queue EXCEPT ![h] = Trimmed(q)]
     /\ overtaken' = IF <<pool[h], queue[h]>> # cmd[s].base THEN overtaken \cup {h} ELSE overtaken

\* The commands load the state, and a Syncer loads it again.
Load(s) ==
  /\ At(s, "new")
  /\ \E h \in Machines, a \in BOOLEAN :
       LET c == [cmd[s] EXCEPT !.home = h, !.athome = a, !.pool = pool[h], !.queue = queue[h],
                               !.base = <<pool[h], queue[h]>>]
       IN \/ cmd' = [cmd EXCEPT ![s] = [c EXCEPT !.pc = "machine", !.targets = pool[h]]]
          \/ /\ queue[h] # <<>>
             /\ cmd' = [cmd EXCEPT ![s] = [c EXCEPT !.pc = "next", !.kind = "process",
                                                    !.outer = queue[h], !.todo = Entries(queue[h])]]
  /\ UNCHANGED <<vault, newest, disk, history>>

\* sync add, remove: the state is saved as it was loaded, but for the pool.
Edit(s) ==
  /\ At(s, "new")
  /\ \E h \in Machines : \E m \in Machines \ {h} :
       cmd' = [cmd EXCEPT ![s] = [@ EXCEPT
         !.pc = "save", !.kind = "edit", !.home = h, !.queue = queue[h],
         !.pool = IF m \in pool[h] THEN pool[h] \ {m} ELSE pool[h] \cup {m},
         !.base = <<pool[h], queue[h]>>]]
  /\ UNCHANGED <<vault, newest, disk, history>>

\* Variation: a failure is not queued.
Forgets(c, op) == [c EXCEPT !.bad = @ \cup {op}]

\* A copy failed: SyncWithMachine queues it in the Syncer's state, the queue command in
\* the state it has loaded.
Failed(c, op) ==
  IF c.kind = "process"
    THEN [c EXCEPT !.bad = @ \cup {op}, !.outer = AddToQueue(c.outer, op)]
    ELSE [c EXCEPT !.bad = @ \cup {op}, !.queue = AddToQueue(c.queue, op)]

\* It succeeded.  The queue command removes the entries when it is through with all of
\* them; nobody looks at its state before.
Succeeded(c, op) ==
  IF c.kind = "process"
    THEN [c EXCEPT !.ok = @ \cup {op}, !.outer = RemoveFromQueue(c.outer, op)]
    ELSE [c EXCEPT !.ok = @ \cup {op}, !.queue = RemoveFromQueue(c.queue, op)]

\* The oldest entries of a queue that is longer than it may be.
Oldest(q) == {q[i] : i \in 1 .. Len(q) - MaxQueue}

\* What the queue owes once q is saved: a queue at its limit gives up its oldest entries.
Settle(s, q) ==
  owed' = [owed EXCEPT ![cmd[s].home] = ((@ \cup cmd[s].bad) \ cmd[s].ok) \ Oldest(q)]

\* runSyncQueueProcess: "Save updated state".
SaveOuter(s) ==
  /\ At(s, "outer")
  /\ Saves(s, cmd[s].pool, cmd[s].outer)
  /\ cmd' = [cmd EXCEPT ![s].pc = "save", ![s].base = <<cmd[s].pool, Trimmed(cmd[s].outer)>>]
  /\ Settle(s, cmd[s].outer)
  /\ UNCHANGED <<vault, newest, blind, torn>>

\* Syncer.Close saves the Syncer's state; so do the commands that edit the pool.
Save(s) ==
  /\ At(s, "save")
  /\ Saves(s, cmd[s].pool, cmd[s].queue)
  /\ cmd' = [cmd EXCEPT ![s].pc = "done"]
  /\ IF cmd[s].kind = "process" THEN UNCHANGED owed ELSE Settle(s, cmd[s].queue)
  /\ UNCHANGED <<vault, newest, blind, torn>>

-----------------------------------------------------------------------------
(* Syncer: which profiles, and which way.                                  *)

\* SyncWithMachine: a machine that cannot be reached is left out, and not queued.
Connect(s) ==
  /\ At(s, "machine") /\ cmd[s].targets # {}
  /\ \E m \in cmd[s].targets :
       LET c == [cmd[s] EXCEPT !.targets = @ \ {m}]
           found == {p \in Profiles : vault[c.home][p] # NoFiles \/ vault[m][p] # NoFiles}
       IN \/ cmd' = [cmd EXCEPT ![s] = c]
          \/ cmd' = [cmd EXCEPT ![s] = [c EXCEPT !.pc = "next", !.todo = found \X {m}]]
  /\ UNCHANGED <<vault, newest, disk, history>>

\* Nothing is left with this machine, or at all.
Ends(s) ==
  /\ \/ At(s, "machine") /\ cmd[s].targets = {} /\ cmd' = [cmd EXCEPT ![s].pc = "save"]
     \/ /\ At(s, "next") /\ cmd[s].todo = {}
        /\ cmd' = [cmd EXCEPT ![s].pc = IF cmd[s].kind = "process" THEN "outer" ELSE "machine"]
  /\ UNCHANGED <<vault, newest, disk, history>>

\* Variation: the earlier expiry wins.
DirectionStale(p, l, r, athome) ==
  IF l = NoFiles THEN IF r = NoFiles THEN "skip" ELSE "pull"
  ELSE IF r = NoFiles THEN "push"
  ELSE IF p \in Dated /\ l.main < r.main THEN "push"
  ELSE IF p \in Dated /\ l.main > r.main THEN "pull"
  ELSE IF athome THEN "skip" ELSE "push"

\* determineSyncOperation with CompareFreshness: without two different expiries the
\* modification times decide.  The remote one is that of the local file of the same
\* relative path (os.Stat of the remote path, freshness.go:239), which is the profile's
\* own file when the command runs in the home directory, and else none at all.
Direction(p, l, r, athome) ==
  IF l = NoFiles THEN IF r = NoFiles THEN "skip" ELSE "pull"
  ELSE IF r = NoFiles THEN "push"
  ELSE IF p \in Dated /\ l.main > r.main THEN "push"
  ELSE IF p \in Dated /\ l.main < r.main THEN "pull"
  ELSE IF athome THEN "skip" ELSE "push"

\* Extract finds no token in a directory without the main file.
Unreadable(files) == files # NoFiles /\ files.main = 0

\* One profile: both freshnesses are read; a push reads its files at once.
Decide(s) ==
  /\ At(s, "next")
  /\ \E op \in cmd[s].todo :
       LET c == [cmd[s] EXCEPT !.todo = @ \ {op}]
           p == op[1]
           l == vault[c.home][p]
           r == vault[op[2]][p]
           way == Direction(p, l, r, c.athome)
           src == IF way = "push" THEN l ELSE r
           copy == [c EXCEPT !.pc = "copy", !.op = op, !.raced = src.main # src.side,
                      !.ends = IF way = "push" THEN <<c.home, op[2]>> ELSE <<op[2], c.home>>,
                      !.src = src, !.was = IF way = "push" THEN r ELSE l, !.files = Present(src)]
           \* the error of a comparison is reported, and queued by the queue command only
           error == IF c.kind = "process" THEN Failed(c, op) ELSE c
           known == c.kind = "process" => op[2] \in c.pool
       IN cmd' \in {[cmd EXCEPT ![s] = d] : d \in
            IF ~known THEN {Succeeded(c, op)}
            ELSE IF Unreadable(l) \/ Unreadable(r) THEN {error}
            ELSE {error, IF way # "skip" THEN copy
                         ELSE IF c.kind = "process" THEN Succeeded(c, op) ELSE c}}
  /\ UNCHANGED <<vault, newest, disk, history>>

-----------------------------------------------------------------------------
(* pushProfile and pullProfile: file by file, each by a rename.             *)

\* The source is read at the start of a push, and file by file by a pull.
Content(c, f) == IF c.ends[1] = c.home THEN c.src[f] ELSE vault[c.ends[1]][c.op[1]][f]

\* Somebody else has written an end of the copy since it was read.
Disturbed(c) ==
  \/ c.raced \/ vault[c.ends[2]][c.op[1]] # c.was
  \/ c.ends[1] # c.home /\ vault[c.ends[1]][c.op[1]] # c.src

\* Variation: the profile is copied once its first file is.
CopyOne(s) ==
  /\ At(s, "copy")
  /\ LET c == cmd[s]
         p == c.op[1]
         to == c.ends[2]
     IN \E f \in c.files :
          /\ vault' = [vault EXCEPT ![to][p][f] = Content(c, f)]
          /\ cmd' = [cmd EXCEPT ![s] = Succeeded([c EXCEPT !.pc = "next", !.files = {}], c.op)]
          /\ UNCHANGED <<blind, torn>>
  /\ UNCHANGED <<newest, disk, owed, overtaken>>

CopyFile(s) ==
  /\ At(s, "copy")
  /\ LET c == cmd[s]
         p == c.op[1]
         from == c.ends[1]
         to == c.ends[2]
         raced == Disturbed(c)
     IN \E f \in c.files :
          LET new == [vault[to][p] EXCEPT ![f] = Content(c, f)]
              d == [c EXCEPT !.files = @ \ {f}, !.was = new, !.raced = raced]
              last == d.files = {}
          IN /\ vault' = [vault EXCEPT ![to][p] = new]
             /\ cmd' = [cmd EXCEPT ![s] =
                          IF last THEN Succeeded([d EXCEPT !.pc = "next"], c.op) ELSE d]
             /\ blind' = IF new.main < vault[to][p].main /\ (raced \/ p \notin Dated)
                           THEN blind \cup {p} ELSE blind
             /\ torn' = IF raced \/ (last /\ <<from, p>> \in torn) THEN torn \cup {<<to, p>>}
                        ELSE IF last THEN torn \ {<<to, p>>} ELSE torn
  /\ UNCHANGED <<newest, disk, owed, overtaken>>

\* Nothing undoes the files that were written.
Interrupted(c) ==
  torn' = IF c.pc = "copy" /\ c.files # Present(c.src)
            THEN torn \cup {<<c.ends[2], c.op[1]>>} ELSE torn

CopyFails(s) ==
  /\ At(s, "copy")
  /\ Interrupted(cmd[s])
  /\ cmd' = [cmd EXCEPT ![s] = Failed([cmd[s] EXCEPT !.pc = "next", !.files = {}], cmd[s].op)]
  /\ UNCHANGED <<vault, newest, disk, blind, owed, overtaken>>

\* The process ends before Close.
Crash(s) ==
  /\ ~At(s, "new") /\ ~At(s, "done")
  /\ Interrupted(cmd[s])
  /\ cmd' = [cmd EXCEPT ![s] = [Idle EXCEPT !.pc = "done", !.kind = "killed"]]
  /\ UNCHANGED <<vault, newest, disk, blind, owed, overtaken>>

Next ==
  \/ \E m \in Machines, p \in Profiles : Rotate(m, p)
  \/ \E s \in Commands :
       \/ Load(s) \/ Edit(s) \/ Connect(s) \/ Ends(s) \/ Decide(s)
       \/ CopyFile(s) \/ CopyFails(s) \/ SaveOuter(s) \/ Save(s) \/ Crash(s)

Spec == Init /\ [][Next]_vars

-----------------------------------------------------------------------------
(* Properties.                                                             *)

\* Every variable has its type; the queue has one entry for a profile and a machine.
TypeOK ==
  /\ vault \in [Machines -> [Profiles -> [Files -> 0 .. MaxVersions]]]
  /\ newest \in [Profiles -> 1 .. MaxVersions]
  /\ pool \in [Machines -> SUBSET Machines]
  /\ \A m \in Machines : m \notin pool[m] /\ Len(queue[m]) <= MaxQueue
                         /\ Entries(queue[m]) \subseteq Ops
                         /\ Cardinality(Entries(queue[m])) = Len(queue[m])
  /\ \A s \in Commands : cmd[s].pc \in Points /\ cmd[s].files \subseteq Files

\* A sync never replaces a token by an older one, unless neither side has an expiry to
\* compare or the profile has changed since the two were compared.
Forward ==
  [][\A m \in Machines, p \in Profiles :
       p \notin blind' => vault'[m][p].main >= vault[m][p].main]_vars

\* The files of a profile are of one version, but while they are copied, after a copy
\* that was interrupted, and after two commands, or a command and the user, met there.
WholeProfile ==
  \A m \in Machines, p \in Profiles :
    \/ vault[m][p].main = vault[m][p].side
    \/ <<m, p>> \in torn
    \/ \E s \in Commands : At(s, "copy") /\ cmd[s].op[1] = p /\ cmd[s].ends[2] = m

\* A copy that failed in a command that came to its end is retried by the next queue
\* command: it is in the queue, unless a queue at its limit gave it up as one of its oldest
\* entries or another command has saved the state that it had loaded before.
Remembered ==
  \A m \in Machines \ overtaken : owed[m] \subseteq Entries(queue[m])

\* A retry that succeeded is out of the queue once the command has ended (sync.go:1253).
RetryForgotten ==
  \A s \in Commands :
    At(s, "done") /\ cmd[s].kind = "process" /\ cmd[s].home \notin overtaken =>
      cmd[s].ok \cap Entries(queue[cmd[s].home]) = {}
=============================================================================
