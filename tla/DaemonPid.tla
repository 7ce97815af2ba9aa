----------------------------- MODULE DaemonPid -----------------------------
(***************************************************************************)
(* The PID file of the refresh daemon: `caam daemon start` and `stop`       *)
(* (cmd/daemon.go) over acquirePIDLock, GetDaemonStatus and Stop            *)
(* (internal/daemon/daemon.go).  A process is named by its PID; a PID is    *)
(* not reused.  The file is a directory entry and an inode: a lock is held  *)
(* on an inode, whether or not the entry still leads to it.  One system     *)
(* call is one step; what a process does alone is part of the step before.  *)
(***************************************************************************)
EXTENDS Naturals

CONSTANTS
  Daemons,   \* processes of `caam daemon start --fg`
  Commands,  \* processes of `caam daemon stop`
  NoPid,     \* no process
  MaxFiles   \* bound: inodes created in a behaviour

ASSUME ConstantsAssumption ==
  NoPid \notin Daemons /\ MaxFiles \in Nat \ {0}

VARIABLES
  path,    \* the inode PIDFilePath leads to, 0 when there is no file
  files,   \* inodes created so far
  text,    \* the PID in each inode, NoPid when it is empty
  owner,   \* who holds the lock of each inode
  daemon,  \* point of the code, open inode and the PID read, of each daemon
  cmd,     \* the same of each command
  raced    \* history: the file of a lock was taken away, see Overtakes

inodes == <<path, files, text, owner>>
pidVars == <<path, files, text, owner, daemon, cmd, raced>>

Files == 1 .. MaxFiles
Pids == Daemons \cup {NoPid}

At(p, q) == daemon[p].pc = q
Go(p, q) == daemon' = [daemon EXCEPT ![p].pc = q]

Alive(p) == p \in Daemons /\ daemon[p].pc \notin {"unborn", "dead"}

\* Daemons between acquirePIDLock and the release of the lock.
Running == {p \in Daemons : daemon[p].pc \in {"running", "stopping"}}

\* Points of acquirePIDLock after the file was opened, or created.
Starting == {"lock", "read", "truncate", "write"}

\* The lock ends with the process.
Die(p, why) ==
  /\ daemon' = [daemon EXCEPT ![p].pc = "dead", ![p].why = why]
  /\ owner' = [i \in Files |-> IF owner[i] = p THEN NoPid ELSE owner[i]]

PidInit ==
  /\ path = 0 /\ files = 0 /\ raced = FALSE
  /\ text = [i \in Files |-> NoPid] /\ owner = [i \in Files |-> NoPid]
  /\ daemon = [p \in Daemons |-> [pc |-> "unborn", file |-> 0, saw |-> NoPid, why |-> "none"]]
  /\ cmd = [c \in Commands |-> [pc |-> "unborn", saw |-> NoPid]]

\* Removing the path takes the file from a process that holds its lock.
Overtakes(p) == path # 0 /\ owner[path] \notin {NoPid, p}

-----------------------------------------------------------------------------
(* GetDaemonStatus, in `start` and in `stop`.                              *)

\* ReadPIDFile: no file, no daemon; a file without a number is an error.
StatusRead(p) ==
  /\ At(p, "unborn")
  /\ IF path # 0 /\ text[path] = NoPid
       THEN Die(p, "no number")
       ELSE /\ daemon' = [daemon EXCEPT ![p].pc = IF path = 0 THEN "open" ELSE "alive",
                                        ![p].saw = IF path = 0 THEN NoPid ELSE text[path]]
            /\ UNCHANGED owner
  /\ UNCHANGED <<path, files, text, cmd, raced>>

StatusAlive(p) ==
  /\ At(p, "alive")
  /\ IF Alive(daemon[p].saw) THEN Die(p, "running") ELSE Go(p, "unlink") /\ UNCHANGED owner
  /\ UNCHANGED <<path, files, text, cmd, raced>>

\* RemovePIDFile, of whatever is there by now.
StatusUnlink(p) ==
  /\ At(p, "unlink") /\ Go(p, "open")
  /\ path' = 0 /\ raced' = (raced \/ Overtakes(p))
  /\ UNCHANGED <<files, text, owner, cmd>>

-----------------------------------------------------------------------------
(* acquirePIDLock.                                                         *)

Open(p) ==
  /\ At(p, "open")
  /\ IF path # 0 THEN UNCHANGED <<path, files>>
     ELSE files < MaxFiles /\ files' = files + 1 /\ path' = files + 1
  /\ daemon' = [daemon EXCEPT ![p].pc = "lock", ![p].file = path']
  /\ UNCHANGED <<text, owner, cmd, raced>>

\* Variation: the descriptor is not locked.
LockNothing(p) ==
  /\ At(p, "lock") /\ Go(p, "read")
  /\ UNCHANGED <<inodes, cmd, raced>>

\* LOCK_EX: a daemon that finds the file locked waits for the other one's end.
Lock(p) ==
  /\ At(p, "lock") /\ owner[daemon[p].file] = NoPid
  /\ owner' = [owner EXCEPT ![daemon[p].file] = p]
  /\ raced' = (raced \/ path # daemon[p].file)
  /\ Go(p, "read")
  /\ UNCHANGED <<path, files, text, cmd>>

ReadPath(p) ==
  /\ At(p, "read")
  /\ IF path # 0 /\ Alive(text[path]) /\ text[path] # p
       THEN Die(p, "running")
       ELSE Go(p, "truncate") /\ UNCHANGED owner
  /\ UNCHANGED <<path, files, text, cmd, raced>>

Truncate(p) ==
  /\ At(p, "truncate") /\ Go(p, "write")
  /\ text' = [text EXCEPT ![daemon[p].file] = NoPid]
  /\ UNCHANGED <<path, files, owner, cmd, raced>>

\* Variation: the PID is not written.
WriteNothing(p) ==
  /\ At(p, "write") /\ Go(p, "running")
  /\ UNCHANGED <<inodes, cmd, raced>>

\* Fprintf and Sync; Start goes on to its loop.
Write(p) ==
  /\ At(p, "write") /\ Go(p, "running")
  /\ text' = [text EXCEPT ![daemon[p].file] = p]
  /\ UNCHANGED <<path, files, owner, cmd, raced>>

-----------------------------------------------------------------------------
(* Stop, and the ends nobody asked for.                                    *)

\* SIGINT from the terminal.
Interrupt(p) ==
  /\ At(p, "running") /\ Go(p, "stopping")
  /\ UNCHANGED <<inodes, cmd, raced>>

\* Variation: Stop waits for its goroutines without a timeout, and one never ends.
NeverUnlock(p) == FALSE /\ UNCHANGED pidVars

\* The pool is saved, the goroutines end or ten seconds pass; UnlockFile and Close.
Unlock(p) ==
  /\ At(p, "stopping") /\ Go(p, "remove")
  /\ owner' = [owner EXCEPT ![daemon[p].file] = NoPid]
  /\ UNCHANGED <<path, files, text, cmd, raced>>

\* os.Remove of the path, and the end of the process.
Remove(p) ==
  /\ At(p, "remove") /\ Die(p, "stopped")
  /\ path' = 0 /\ raced' = (raced \/ Overtakes(p))
  /\ UNCHANGED <<files, text, cmd>>

Crash(p) ==
  /\ Alive(p) /\ Die(p, IF daemon[p].pc \in Starting THEN "early" ELSE "crashed")
  /\ UNCHANGED <<path, files, text, cmd, raced>>

-----------------------------------------------------------------------------
(* `caam daemon stop`.  `caam daemon status`, and the parent of a daemon    *)
(* started in the background, take its first steps and end.                *)

CmdAt(c, q) == cmd[c].pc = q
CmdGo(c, q) == cmd' = [cmd EXCEPT ![c].pc = q]

StopRead(c) ==
  /\ CmdAt(c, "unborn")
  /\ cmd' = [cmd EXCEPT
       ![c].pc = IF path = 0 \/ text[path] = NoPid THEN "done" ELSE "alive",
       ![c].saw = IF path = 0 THEN NoPid ELSE text[path]]
  /\ UNCHANGED <<inodes, daemon, raced>>

StopAlive(c) ==
  /\ CmdAt(c, "alive")
  /\ CmdGo(c, IF Alive(cmd[c].saw) THEN "signal" ELSE "unlink")
  /\ UNCHANGED <<inodes, daemon, raced>>

\* The removal of a stale file, and the removal once the daemon is gone.
StopUnlink(c) ==
  /\ CmdAt(c, "unlink") /\ CmdGo(c, "done")
  /\ path' = 0 /\ raced' = (raced \/ Overtakes(NoPid))
  /\ UNCHANGED <<files, text, owner, daemon>>

\* SIGTERM; the handler was installed before the PID was written.
Signal(c) ==
  /\ CmdAt(c, "signal")
  /\ IF Alive(cmd[c].saw)
       THEN /\ CmdGo(c, "wait")
            /\ daemon' = [daemon EXCEPT ![cmd[c].saw].pc = IF @ = "running" THEN "stopping" ELSE @]
       ELSE CmdGo(c, "done") /\ UNCHANGED daemon
  /\ UNCHANGED <<inodes, raced>>

\* Three seconds of waiting, and a last look.
Wait(c) ==
  /\ CmdAt(c, "wait")
  /\ CmdGo(c, IF Alive(cmd[c].saw) THEN "done" ELSE "unlink")
  /\ UNCHANGED <<inodes, daemon, raced>>

-----------------------------------------------------------------------------
StartDaemon(p) ==
  \/ StatusRead(p) \/ StatusAlive(p) \/ StatusUnlink(p)
  \/ Open(p) \/ Lock(p) \/ ReadPath(p) \/ Truncate(p) \/ Write(p)

StopDaemon(p) == Unlock(p) \/ Remove(p)

StopCommand(c) == StopRead(c) \/ StopAlive(c) \/ StopUnlink(c) \/ Signal(c) \/ Wait(c)

PidNext ==
  \/ \E p \in Daemons : StartDaemon(p) \/ StopDaemon(p) \/ Interrupt(p) \/ Crash(p)
  \/ \E c \in Commands : StopCommand(c)

PidSpec == PidInit /\ [][PidNext]_pidVars

\* A process runs; the goroutines Stop waits for end within ten seconds.
Fairness == \A p \in Daemons : WF_pidVars((StartDaemon(p) /\ ~At(p, "unborn")) \/ StopDaemon(p))

FairSpec == PidSpec /\ Fairness

-----------------------------------------------------------------------------
(* Properties.                                                             *)

\* Every process is at a point of its code, and a lock is held by a live process that
\* has the file open.
PidTypeOK ==
  /\ path \in 0 .. files /\ files \in 0 .. MaxFiles
  /\ text \in [Files -> Pids] /\ owner \in [Files -> Pids]
  /\ daemon \in [Daemons -> [
       pc : {"unborn", "alive", "unlink", "open", "lock", "read", "truncate", "write", "running",
             "stopping", "remove", "dead"},
       file : 0 .. files, saw : Pids,
       why : {"none", "no number", "running", "stopped", "early", "crashed"}]]
  /\ cmd \in [Commands -> [pc : {"unborn", "alive", "unlink", "signal", "wait", "done"},
                           saw : Pids]]
  /\ \A i \in Files : owner[i] # NoPid => Alive(owner[i]) /\ daemon[owner[i]].file = i
  /\ raced \in BOOLEAN

\* A PID file without a number, which makes every start and stop fail, is one that a
\* daemon is about to write, or that one left when it was killed before it had written.
EmptyForCause ==
  path # 0 /\ text[path] = NoPid =>
    \E p \in Daemons :
      /\ daemon[p].file = path
      /\ daemon[p].pc \in Starting \/ daemon[p].why = "early"

\* Until somebody removes the file under a daemon that has locked it, or a daemon
\* locks a file that has been removed, `status` and `stop` find the daemon that runs:
\* the path leads to its file, and the file has its PID; and a file without a number
\* is there for a cause.
Visible ==
  /\ ~raced => \A p \in Running : path = daemon[p].file /\ text[path] = p
  /\ EmptyForCause

\* Until then the lock is exclusive, whatever the order of starts, stops and crashes.
PidLock == INSTANCE ExclusiveLock WITH Procs <- Daemons, owners <- Running, broken <- raced
LockSpec == PidLock!Spec

\* A start ends in a running daemon or in a refusal, or it waits for the lock of a
\* daemon that goes on.
StartEnds ==
  \A p \in Daemons :
    At(p, "open") ~> \/ daemon[p].pc \in {"running", "stopping", "dead"}
                     \/ files = MaxFiles
                     \/ At(p, "lock") /\ \E q \in Running : At(q, "running") /\ owner[daemon[p].file] = q
=============================================================================
