# Verification of caam, the coding agent account manager

caam keeps several logins of AI coding tools (Claude Code, Codex, Gemini) on one
machine and switches between them when one hits its rate limit. Its hard part
is not any single algorithm: it is that tokens which change under the program's
feet are copied between files, that a daemon, commands and the tool itself all
touch them, and that a login on a remote machine is driven by reading a
terminal. This directory holds TLA+ modules of that core, the TLC instances
that check them, and proofs for TLAPS.

| module | models | proofs |
|---|---|---|
| `Coordinator` | `internal/coordinator` and the poll loop of `internal/agent`: recovery of a rate-limited pane through a login done in another machine's browser; implements `LoginBroker` | `Coordinator_proofs` |
| `LoginBroker` | what the coordinator promises to the panes, the agent and the user, abstractly | |
| `CodexVault` | `internal/authfile`, `internal/refresh` and the commands `activate`, `next`, `backup`, `clear`, `refresh` for Codex, whose refresh tokens rotate; implements `LoginKeeper` | `CodexVault_proofs` |
| `LoginKeeper` | what caam promises to a user with several logins, abstractly | |
| `ClaudeVault` | the same vault for a login of several files, file by file: `backup`, `activate`, `clear`, `delete` with kills between two files | `ClaudeVault_proofs` |
| `AuthPool` | `internal/authpool` as the daemon runs it: who refreshes which profile, and when that stops | `Daemon_proofs` |
| `SmartRunner` | `caam run` (`internal/exec/smart_runner.go`): a session handed to another profile when the tool's output shows a limit | `SmartRunner_proofs` |
| `ExclusiveLock` | what a lock file promises, abstractly | |
| `ProfileLock` | a profile's lock file in `internal/profile`, with the commands that clean it; implements `ExclusiveLock` | `ProfileLock_proofs` |
| `DaemonPid` | the daemon's PID file and its `flock`; implements `ExclusiveLock` | `Daemon_proofs` |
| `VaultSync` | `internal/sync` and `caam sync`: profiles copied between machines, and the retry queue | `VaultSync_proofs` |
| `Tui` | the terminal interface: keys, messages and background commands over the vault | `Tui_proofs` |

`MC<module>` adds the symmetry and the values the configurations use. To check an
instance or a proof:

    tlc -config CoordinatorRecovery.cfg MCCoordinator
    tlapm Coordinator_proofs.tla

## 1. The system

| component | state | operations | with whom | what is hard |
|---|---|---|---|---|
| coordinator | `trackers`, `requests` in memory | one poll per pane and tick, a handler per tracker state, `ReceiveAuthResponse` | panes through `PaneClient`, agent through HTTP | the handler releases its locks between finding a tracker and writing it; stale terminal output; timeouts racing with answers; restarts |
| auth agent | accounts, usage file | fetch pending requests, run OAuth in a browser, post the code | coordinator | an answer is posted once and may be late or lost |
| vault | a directory per profile, system profiles `_original`, `_backup_*` | `Backup`, `Restore`, `BackupOriginal`, `BackupCurrent`, `RotateAutoBackups`, `ResnapshotOutgoing` | every command, the daemon, refresh | no lock; the tool rotates the live file |
| token refresh | none of its own | present a token, write the answer to the vault, put it back live | identity provider, vault | a consumed token revokes the login; several reads and writes with time between them |
| switching commands | none | `activate`, `next`, `backup`, `clear`, `refresh` | vault, refresh, health, rotation | order of look-up, snapshot and restore; minutes of stealth delay; interruption |
| profile pool and monitor | entries with status, expiry, errors; semaphore, wait group, flags | `Start`, `Stop`, loop, `ForceRefresh`, `RefreshAll` | daemon, `PoolRefresher` | marks from snapshots, stop against spawn, places of the semaphore |
| daemon | PID file and its lock, pool state file | start, stop, status, periodic refresh and backup | pool, vault | two daemons at once; a file removed under its owner; restart through saved state |
| profile locks | `.lock` file | `Lock`, `Unlock`, `CleanStaleLock`, `LockWithCleanup`, `profile unlock`, `doctor --fix` | sessions, commands | check, then remove; reused PIDs; half-written files |
| smart runner | state, profile, detector, channel of login answers | run the tool, detect a limit, save, swap, log in, roll back | vault, rotation, profile lock, terminal | three kinds of goroutines; late output; the end of the tool in mid-hand-off |
| wrapper, hand-off patterns | none | `internal/wrap` has no importer; `handoff/codex.go` recognises login output | smart runner | |
| rotation, cooldowns | SQLite tables | choose the next profile | commands | pure, except for the tables |
| health store | a locked JSON file | read, change, write | commands, daemon | callers read and write under two locks |
| vault sync | pool and retry queue in files | push and pull the files of a profile | SSH | partial copies; stale state saved over newer |
| terminal interface | listing, selection, dialogs, commands in flight | a key or a message at a time | vault, refresh, bundles, watcher | messages in any order under a question; two orders of the same list |
| HTTP API | none | a handler per request | vault | restores without saving |
| bundles | archives | export, import | vault | merge |
| login watchers | debounce timers | save a new login | vault | events out of order |
| usage, cost, configuration, identity, set-up, browser, providers | files read once, formatting, external programs | | | no state that several actors change |

What makes these parts correct: a login uses its own URL, request and code, and
always ends; a request never outlives the tracker that waits for it; no consumed
refresh token is ever presented; a profile always holds the account saved under
its name, and a copy that can be used; switching never discards the only copy of
a login; files of two accounts never meet; one profile has one refresh at a time,
none after `Stop`; nothing stays marked as busy for good; a lock has one owner; a
hand-off acts on the answer to its own login; a copy never replaces a newer token;
a question on the screen is about what a yes acts on.

`PROJECT.json` lists, under "hazards", every place where this is at risk, with
the properties that look at it or the reason why none does.

## 2. Coordinator

**State.** `tracked` and `trk` are `c.trackers` (the record of an untracked pane
is `NewTracker`), `reqs` is `c.requests`: an id goes from "unused" through
"pending" and "processing" to "gone". `mon` is the monitor goroutine: the pane it
handles, the state it read and the output it captured. `http` is one record per
goroutine in `ReceiveAuthResponse`. `screen` is the sequence of markers
`DetectState` looks for in the last `OutputLines` lines; `inbox` the injected
texts Claude has not read.

**Actors.**

- *Monitor.* `Poll(p)` is `pollPanes` and `processPaneState` up to the switch:
  it captures the output and the tracker's state, then one `Handle...` action per
  state is the whole handler with its timeout branch, injections, cooldowns and
  clean-up. `HandleAwaitingURL` and `BindRequest` are two steps, since the request
  is in the map before the tracker knows its id. `RemoveTracker` is the clean-up
  of panes that are no longer listed.
- *HTTP.* `HttpLookup`, `HttpFind`, `HttpStore`, `HttpFail`, `HttpDrop`: one step
  between two releases of `c.mu` or `tracker.mu`.
- *Agent.* `checkPendingRequests`, `processAuthRequest`; an answer waits in
  `posts`, arrives at any time, or is lost (`LoseAnswer`).
- *Panes.* Claude Code is not code of this repository. `ReadText` and its
  neighbours are derived from what the coordinator matches and injects: a code is
  accepted by the prompt whose URL it was obtained for, anything else fails it.
- *Time.* `aged` says that `StateTimeout` or `AuthTimeout` has elapsed since the
  last change of state; `TimePasses` may set it at any moment. `Restart` loses all
  memory.

**Switches.** `Stall`: an HTTP goroutine may be descheduled for longer than a
timeout. `SlowPanes`: Claude may leave an injected text unread for that long.
`SendFails`, `PanesClose` and `CompactionReminderEnabled` are what they say.

| run | instance | shows |
|---|---|---|
| `coordinator_recovery` | 1 pane, 3 requests, 3 logins, 1 restart, failing injections, reminders; 156,282 states | `TypeOK`; `CodeAnswersRequest`: a code left by an earlier login is never used for the next; `ResumeAfterLogin`: an old "Logged in" in the window is not taken for the new one; `RequestUrlIsCurrent`: nor an old URL; `BrokerSpec` |
| `coordinator_liveness` | 1 pane, 2 logins, restart, closing panes, `Stall`, `SlowPanes`; 109,971 states | `LoginEnds`, `RequestsEnd`; `NoLeakedRequest`: answers racing with both timeouts leave no request of an open pane without its tracker |

`CodeStaysInPane`, an answer never reaches another pane, takes two panes, and they are too many
states for a run beside the others. It is proved for any number of them (section 13);
`CoordinatorPanes.cfg` checks it for two (2 requests, `Stall`, `SlowPanes`; 1,954,993 states).

*Bounds.* Two logins are the least in which something of an earlier one can be
mistaken; three let an error of the second carry over once more. Two panes would be
enough for an answer to go astray, because the search is for one id. `Window`
holds a URL with its prompt and the outcome of the login before it. One restart
puts the coordinator in front of a half-done login. A request has one answer in
the passing runs, since the agent posts once for each request it fetched;
`CoordinatorLateAnswer.cfg` allows two: the agent fetches a request again as long
as it is "pending".

*Assumptions of `coordinator_recovery`.* Without `Stall` and `SlowPanes` no HTTP
goroutine and no injected text is delayed beyond a timeout of 30 s or more.
`LoginEnds`, `RequestsEnd`, `NoLeakedRequest` and `CodeStaysInPane` do without; so does
`ResumeAfterLogin`, as its proof shows. `RequestUrlIsCurrent` needs more than the absence of
`SlowPanes`: two restarts of the coordinator over input that Claude has not read leave three
`/login`s there; the second answers the prompt that the first has opened, and the third
opens another while the request of the first is pending. The run has one restart, at any
moment.

*Refinement.* `LoginBroker` knows no trackers, HTTP goroutines or screens: a request is
`unused`, `asked`, `answered`, `typed`, `over`; a pane has one login at a time (`Ask`), a code
is typed once, into its own pane (`TypeCode`), the pane is resumed once, after that code was
accepted (`Resume`), and a login given up never comes back (`GiveUp`). `BrokerSpec` says that
every step of `Coordinator` is one of these or none. `StageOf` reads the stage off the tracker
that holds the request; a request that none holds, or a failed one does, is over: the code may
still be stored there, but nothing types it. `TypedCodes` and `Resumptions` are what Claude
has not read yet. It assumes one answer per request, and no `Stall`; with two answers
(`MaxPosts = 2`) it fails: one of them fails the tracker, the other leaves a code in it, and
`HandleAuthPending`, which had read AUTH_PENDING before it failed, makes it CODE_RECEIVED.

*Fairness.* Every goroutine that can take a step eventually does (`WF` of the
monitor's step and of the HTTP steps), time passes (`WF` of `TimePasses`), and the
ticker visits every pane again and again: `Poll(p)` is disabled while another
pane is being handled, hence `SF`. The agent, the panes and the network may stop
for ever. `RetrySpec` adds a terminal that answers and a Claude that reads; it
serves the violated property only, which would otherwise be refuted by a dead
terminal.

*Not modelled.* `Start`/`Stop` of a live coordinator, callbacks, status endpoints;
an error of `GetText` (the poll is skipped: the same as no poll); the
account name and the error message of a tracker. `BindRequest` is one step where the code takes
the tracker's lock twice in a row (`coordinator.go:664-665`). Injections do not fail in
`coordinator_liveness`: `HandleResuming` retries one that fails and has no timeout
(`coordinator.go:809-838`), so that a dead terminal holds a login there. A cooldown is a mark that ends at
any time; `Reset` clears the marks, as `state.go:111-123` does.

## 3. CodexVault

**State.** A token stands for a whole `auth.json`: account, login (family) and
time of issue. `live` is `~/.codex/auth.json`; `vault`, `original`, `backups` are
the profiles; `jobs` is what each caam process is doing, with what it has read:
the profile, the outgoing profile, the snapshot, the token. `valid` and `revoked`
belong to the identity provider: presenting a valid token yields its successor,
presenting any other revokes the login.

**Actions.** Each read and write of a file or of the provider in a command is a
step: `activate` goes through "original" (`BackupOriginal`), "choose"
(`refreshIfNeeded`), the steps of `RefreshProfile` ("present", "update",
"recheck", "putback"), "backup" (the smart backup), "resnap"
(`ResnapshotOutgoing`) and "restore"; `next` starts at "resnap" with the profile
it looked up. `Rotate` and `Login` are Codex and its user; `Kill` ends a process.

**Assumptions.** *Quiet*: Codex does not rotate, and nobody logs in, while caam
holds a copy of that login in memory, and a profile is refreshed before Codex has
rotated it. The code does nothing to ensure this (`CodexStaleRefresh.cfg` drops it);
it says how far the code is right. *Owner*, *Expendable*: the user saves a login
under the name of its account, and does not discard the last current copy of a
login by hand. *KillPoints*: a kill between the provider's answer and the last
write of a refresh leaves a consumed token behind whatever the order of the
writes, there being no journal; those three points are left out.

| run | instance | shows |
|---|---|---|
| `codex_switching` | 4 accounts, 2 profiles, 1 process, 5 tokens, kills; 1,337,315 states | `TypeOK` with the limit on backups; `NoReplay`: no consumed token is ever presented; `SavedCopyUsable`: a profile that is not live can be activated, however often its token rotated before; `OwnAccount`; `ActivateKeepsLogin`; `KeeperSpec`: the refinement below |

*Refinement.* `LoginKeeper` has no token, file or process: a session, the login each profile
keeps, and the actions `SignIn`, `SignOut`, `Keep`, `Switch` and a clock. A file is mapped to the
login it stands for (`LoginOf`): its account and family if its token is valid or a process is about
to write the successor, else a lost login, which `LoginKeeper` has no step to. A profile is mapped
to what `Restore` would bring back (`Brings`): the live file where that is fresher. Rotations and
the provider's answers are ticks of the clock; the writes of a refresh, the smart backup and most
snapshots do not show; `RestoreTarget` is a `Switch`.

*Bounds.* Two profiles give an outgoing and a target one; the two other accounts
are logins nobody saved, one for `_original` and one for a timestamped backup, and
with one backup allowed rotation happens. Five tokens are one login of each account and one rotation or
refresh, or two saved logins with three rotations between them. `CHECK_DEADLOCK FALSE`: when the last
token is issued a refresh cannot end, which is the bound and not the program.

*Abstractions.* `UpdateCodexAuth` replaces the tokens in the file; here it writes
the whole record, as the account in the file is that of the token.
`codexFreshness` takes the later of `last_refresh` and the token's `iat`: the time
of issue. `next` with `_original` as the only directory (`next.go:83-113`) is left
out.

*Not modelled.* Callers that restore without a snapshot (the TUI, the API, `robot`,
`workspace`; `wrap` has no importer), `add`, Gemini's file set, `CopyProfile`, and
failing file operations. `run` is in `SmartRunner`, `Delete` and the files of
Claude Code in `ClaudeVault`.

## 4. AuthPool

**State.** `pool`: per entry its status, its error count and whether its token is
about to expire. `monitor`: `running`, `stopping` and whether `Stop` has returned.
`channel`: which `stopCh` is in force, counted by `Start`. `loops`: goroutines in
`runLoop` or `RefreshAll`, walking through `checkAndRefresh` with the snapshot they
listed. `slots`: the places of the semaphore and who has them.

**Actions.** `GetProfilesNeedingRefresh`, `Trigger`, `Mark`, `Spawn` are
`checkAndRefresh` and `triggerRefresh`, cut at each lock; `ForceRefresh`,
`ForceJoin`, `ForceMark` likewise; `DoRefresh`, `RefreshEnds` the refresh;
`Start`, `Stop`, `StopReturns`, `Restart` the daemon. `Stop` does not wait for
`runLoop`: an old loop may still be running after the next `Start`.

`Restart` may come while a loop is anywhere: `Daemon.Stop` saves the pool without waiting for
`runLoop` (`daemon.go:358-370`).

**Assumption.** *Polite*: nobody changes the entry of a profile that is being
refreshed (no production caller of `SetCooldown` or `UpdateTokenExpiry` does so on
a monitored pool). With `Polite = FALSE`, `OneRefresh` fails.

| run | instance | shows |
|---|---|---|
| `authpool_refresh` | 1 profile, 3 places, 2 loops, 2 retries, 2 starts; 1,094,235 states | `OneRefresh`; `StoppedIsQuiet`; `NoPlaceLost`; `StuckOnlyWhenExplained`: an entry is marked for good only after a failed refresh or a restart that caught a loop between its mark and its look at the stop |

*History.* `caught` marks the entries of such a restart: the loop's revert is in memory only. That
this happens is `AuthPoolSavedMark` (section 12).

*Bounds.* Refreshes of different profiles meet only in the semaphore; two loops
are an old one and a new one, or a loop and `RefreshAll`; three places leave room
for a refresh, a forced one and a loop's. Two starts make a loop outlive a `Stop`.
Two retries are the least at which a first error is not the last. Instances with
two profiles (367 thousand and 6.6 million states) hold as well.
`CHECK_DEADLOCK FALSE`: a stopped monitor may stay so.

*Met on the way, not stated as properties.* The daemon's `--pool` adds entries
without an expiry and nothing in production sets one, so the monitor has nothing
to refresh; `caam pool refresh --all` returns without waiting for what it started;
`ForceRefresh` reports success after a failed refresh; `MarkRefreshed` ends a
cooldown.

## 5. ClaudeVault

`CodexVault` treats a login as one file. Claude Code's is several: each is replaced
atomically, a profile is not. Nor has every login the same files: who works with an API key has
optional ones only (`AllowOptionalOnly`, `authfile.go:127`, `513-517`, `886-889`).

**State.** `live`, `vault`, `original`, `backups` are directories of two files, the
required `.credentials.json` and one optional file; a file is an account and, for the
credentials, a token. `Holds` says which files an account's login has. `job` is the command
that runs and the file it is about to copy.

**Actions.** `NextFile` is the loop over the file set in `Backup`, `Restore` and
`ClearAuthFiles`; `Activate` goes through `_original`, the timestamped backup, the
rotation of backups, `ResnapshotOutgoing` and `Restore`, in the order of
`activate.go`. `SaveFails` is a backup, a rotation of backups or a re-snapshot that fails, at
any of its files: activate warns and goes on (`activate.go:357`, `386`), for example when a second
backup within a second is refused (`authfile.go:443`). `Kill` ends a command before any file.
`Login` and `Rotate` are Claude Code, between commands and while activate waits before the
switch (`activate.go:397-433`); caam cannot refresh its tokens.

**Assumptions.** Claude Code works between commands or during the delay, not between two file
operations that follow at once. A user names a profile after the account that is logged in, as far
as the files that tell it show (the required one, if there is one). Who logs in with fewer files
than the live login has runs `caam clear` first.

`claude_files` (3 accounts, whose logins have both files, the credentials, the optional file; 2
profiles, 1 backup, 3 tokens, 2 kills or failures; 7,938,100 states):

- `TypeOK`, with the limit on backups;
- `OwnFiles`: a profile never has another account's credentials, nor its optional file, unless
  it was saved while the live files were of two logins (`mixed`);
- `OneAccount`: between commands the live files are one account's, unless the last switch was cut
  short, passed over a live file its profile has no copy of, or restored a `mixed` profile
  (`leftover`);
- `SwitchKeepsLogin`: activate overwrites only what is saved, but for the files it has warned about
  or that changed during the delay (`missed`), and optional files once a directory was cut short or
  took files of two logins (`torn`).

*History.* `leftover`, `mixed`, `torn` and `job.missed` are these exemptions. Each is what the code
does: `Restore` removes nothing (`authfile.go:806-811`), so that switching from an account with both
files to one with an API key leaves the credentials of the first live. `ClaudeLeftover` shows it
without a kill or a failure (section 12). What the properties say is how far it goes: never to the
credentials in a profile.

*Bounds.* Two files are a required and an optional one, three accounts the three kinds of login;
one mishap splits or misses one copy, the second meets what the first has left.

## 6. ProfileLock

**State.** `file` is absent, half written, or the PID in it. `pc` and `seen` are each
process's point in `LockWithCleanup`, `Unlock`, `profile unlock` or `doctor --fix`
and what it last read; a PID whose process is gone may come back as anything.

**Actions.** One per system call: the read of `GetLockInfo`, the test of the PID, the
second read, the removal, `O_EXCL`, the write. `Die` is a kill at any point.

`profile_lock` (3 PIDs, 5 starts; 145,456 states): `RefusedForCause`: who is turned away
met a half-written file or a living PID during the attempt; `LockSpec`: the sessions
implement `ExclusiveLock` (`owners <- Holding`, `broken <- raced`).

`profile_lock_cleanup`: **violated**. `CleanSparesSessions` is what the comment at
`profile.go:374-376` claims: `CleanStaleLock` "is safe against TOCTOU races" and does not "remove a
lock that was created by another process between our check and removal". Two sessions find
the same stale lock; both read it twice; the first removes it, takes the lock and runs; the second
then removes that lock (`profile.go:421`), takes its own and runs the same profile.

*History.* `overtaken` and `raced` single out this window, which `unlock` and `doctor --fix` have as
well: a cleaner removes a file that changed after its last look. `LockSpec` exempts it (it
is the `Break` of `ExclusiveLock`) and says that nothing else breaks the lock: whatever the
interleaving, a second owner needs that window. `cause` is what `RefusedForCause` speaks of.

*Bounds.* Three PIDs: an owner, a cleaner and a newcomer. Five starts let each PID be
reused. Symmetric in the PIDs.

## 7. SmartRunner

**State.** `state`, `current`, `previous`, `detected`, `loginDone` are the runner's
fields; `mon` is `monitorOutput` with the buffer of the observing writer; `handlers`
are the goroutines of `handleRateLimit`; `main` is `Run` after the tool exited; `live`
and `vault` are tokens as in `CodexVault`.

**Actions.** `Read`, `Judge`, `Line`, `Eof` are the monitor: one read of the terminal,
the verdict on a login, one line through the detector. `Enter` to `SwitchProfile`,
and `Rollback`, `Deferred`, `Revert`, `Rerun`, are the hand-off, cut where it locks,
copies or waits. `Resnapshot` and `Rollback` may fail, which is a warning: the hand-off goes on
(`smart_runner.go:376-378`, `434-436`). `Exit`, `MonitorDone`, `Return` are the end of `Run`. The
tool (`Rotate`) may change its token at any time, between the re-snapshot and the swap too.

`smart_runner` (2 profiles, 2 hand-offs, 1 rotation; 780,489 states):

- `OneHandler`: two hand-offs never work on the files together;
- `AtReturn`: when `Run` has returned and given the profile's lock away nobody writes the
  live file, and the profile recorded is the one that is live, unless a rollback failed (the
  previous profile is recorded all the same, `smart_runner.go:437`);
- `OwnAnswer`: a hand-off goes on only after the answer to its own login;
- `Kept`: every profile's newest token is live or in its place in the vault, or was overwritten by a
  rollback or by a swap whose re-snapshot failed or was overtaken by a rotation;
- `Listening`: between two hand-offs the next limit will be handled, unless a backup failed, the
  limit echoed after the reset, or a hand-off was dispatched while another was not over;
- `RunReturns`: once the tool has exited, `Run` returns.

*History.* `lost`: a rollback wrote the profile's saved token over the one rotated since, or a
swap did (`exposed`: its re-snapshot failed, or the tool rotated after it); `stray`: the `Restore` of
a rollback failed; `foreign`: a hand-off's deferred test of the state (`smart_runner.go:318`) took
another's failure for its own; `echo`: the lines after the reset showed the limit again.
They exempt what they name; each was found as a counterexample first. That `foreign` also
concerns `OwnAnswer` and `Kept` shows only with four hand-offs.

*Fairness.* Goroutines run (`WF` of the monitor, of `Run` after the exit and of each
hand-off). The terminal is closed five seconds after the tool's end at the latest; reads
that still return something disable `Eof` again and again, hence `SF`. A login's
timeout is a step of its hand-off. The tool need not exit.

*Bounds.* A late effect of one hand-off needs a second one to hit. `AtBound` exempts the
monitor that is to dispatch a third. `Outputs` has every kind of line the detector and
`handoff/codex.go` tell apart, alone, in pairs where the order matters, and without its
newline; only output that shows something ends without one, which the module assumes of
`Outputs`. `rotation.Select` is any other profile.

## 8. DaemonPid

**State.** `path` is the inode the path leads to; `text` and `owner` are the content and
the `flock` of every inode; `daemon` and `cmd` are the processes of `daemon start`
and `daemon stop`.

**Actions.** One per system call of `acquirePIDLock`, `Stop`, `GetDaemonStatus` and
`runDaemonStop`; `Crash` at any point, upon which the kernel drops the locks.

`daemon_pid` (3 daemons, 1 stop command, 3 inodes; 162,391 states): `Visible`: the file
at the path names the daemon that runs, and an empty file has a cause; `LockSpec`: the
running daemons implement `ExclusiveLock`; `StartEnds`.

*History.* `raced`: the path was removed, or found removed, under the owner of the lock:
`Stop` unlocks before it removes (`daemon.go:399`), and so do the two clean-ups of a
stale file. Before that there is one daemon, which everybody sees.

*Fairness.* A process that has been started goes on, and one that was told to stop does
(`WF`); a running daemon need not be stopped. `flock` blocks, so a second daemon waits
for the first one's end.

*Bounds.* A daemon that stops, one that locks the old inode and one that makes a new file
are the three it takes; a PID is not reused here (it is in `ProfileLock`).

## 9. VaultSync

**State.** Per machine: `vault` (the version of the main and of another file of each
profile), `pool` and `queue` (the two files of `SyncState`). `cmd` is a running
command with all it loaded: `sync`, `sync queue --process`, `sync add` and `remove`.

**Actions.** `Load`, `Connect`, `Decide` (the freshness of both sides), `CopyFile` one file
at a time, `CopyFails`, `Interrupted`, `SaveOuter`, `Save`; `Rotate` is a login used
and saved on one machine; `Crash` ends a command.

`vault_sync` (2 machines, 1 profile, 2 commands, 2 versions; 230,246 states):
`WholeProfile`: the files of a profile are of one version unless a copy stopped half
way or two met; `Remembered`: a copy that failed is in the queue of whoever tries next,
unless the full queue has given it up;
`Forward`: a token is never replaced by an older one.

`sync_retry_forgotten`: **violated**. The queue command removes what succeeded from the
state it loaded and saves it; then its `Syncer`, closed last, saves the queue it had
loaded itself (`sync.go:1205`, `algorithm.go:130`). Thirteen states, one process.

*History.* `torn`, `blind` (a write whose source or target had changed since they were
compared, or that had no expiry to compare), `owed` (what a queue ought to hold: the copies
that failed and did not succeed since, less the oldest of a queue at its limit),
`overtaken` (a machine whose state one command saved over another's): the last exempts
`Remembered`, as the files have no lock and the code does not claim one.

*Abstractions.* A pull whose first file fails leaves an empty directory (`algorithm.go:518`), which
is no profile here.

*Bounds.* Two commands are a sync and a queue command, or two that overtake each other.
Two versions are an older and a newer token. `MaxQueue` is two for the code's hundred. What a
full queue drops shows with two profiles and `MaxQueue` 1 only: that instance (2,800,014 states)
holds as well. It is why `owed` gives up what the queue drops: to exempt a queue only while it
is at its limit is refuted there, the entry being missed later.

## 10. Tui

**State.** `list` is `m.profiles`; `sel` the provider, the rows of the panel, the index and
`m.selectedProfileName`; `ui` is `m.state` with `m.pendingProfile`; `cmds` are the
`tea.Cmd`s in flight, each with what it was started for and what it has read.

**Actions.** A handler of `Update` is one action, for it runs alone: the keys
(`Move`, `SelectProvider`, `ApplySearchFilter`, `Ask`, `ConfirmDelete`, ...) and the
messages (`ProfilesLoaded`, `ProfilesRefreshed`, `ResultOf`, `ImportPreview`, ...). A
command reads or writes the vault in one step (`Run`) and is answered in another, in
any order. `Elsewhere` is another process. `syncProfilesPanel` is `SyncPanel`,
`restoreSelection` is `RestoreSelection`; the panel's order and that of `m.profiles`
are two functions, since an index is passed from one to the other.

`tui` (2 providers, 3 profiles with the panel in reverse order, 2 commands in flight, 1
change of the vault; 3,507,830 states):

- `SelectionAgrees`: the selected name is the selected row, and both are there or neither;
- `AsksAboutSelected`: a question is about the profile a yes acts on, whatever listing,
  filter or badge moves rows under it;
- `ListSettles`: when nothing is in flight the listing is the vault's.

*History.* `asked` is the name on screen, `sure` until the profile is no longer listed or a
refresh has moved the selection; `version`, `shown` and `missed` exempt `ListSettles`
from changes made before the watcher was on, from failed listings, backups or imports
(which the code does not reload after), and from an older listing that arrived last.

*Abstractions.* The search, the help, the command palette (which calls the same handlers), the
editor, the export's question, the usage overlay and the sync panel are "the list": they
change nothing here. A listing reads all providers at once, where `loadProfiles` goes from one to the
next (`model.go:459-492`); a full buffer of the watcher is left out. Which profile is active is left out: "already active" is a message.

*Bounds.* Two commands are the least that overtake each other; one change tells an old
listing from a new one; three profiles have a middle one, which neither end of an index can
stand for.

## 11. Runs

| run | instance of | properties |
|---|---|---|
| `coordinator_recovery`, `coordinator_liveness` | `Coordinator` | section 2 |
| `codex_switching` | `CodexVault` | section 3 |
| `authpool_refresh` | `AuthPool` | section 4 |
| `claude_files` | `ClaudeVault` | `TypeOK`, `OwnFiles`, `OneAccount`, `SwitchKeepsLogin` |
| `profile_lock` | `ProfileLock` | `RefusedForCause`, `LockSpec` |
| `smart_runner` | `SmartRunner` | `OneHandler`, `AtReturn`, `OwnAnswer`, `Kept`, `Listening`, `RunReturns` |
| `daemon_pid` | `DaemonPid` | `Visible`, `LockSpec`, `StartEnds` |
| `vault_sync` | `VaultSync` | `WholeProfile`, `Remembered`, `Forward` |
| `tui` | `Tui` | `SelectionAgrees`, `AsksAboutSelected`, `ListSettles` |
| `sync_retry_forgotten` | `VaultSync` | **violated**: `RetryForgotten` |
| `profile_lock_cleanup` | `ProfileLock` | **violated**: `CleanSparesSessions` |

`TypeOK` of `AuthPool`, `SmartRunner`, `ProfileLock`, `VaultSync` and `Tui` and `PidTypeOK` of
`DaemonPid` hold in the same instances; they are proved and not part of the runs. Deadlock is
checked for `Coordinator` and `Tui`, which always have a next step; the others may stop, because
every process has ended or a bound is reached.

## 12. Known limits, reproduced by hand

These configurations are kept beside the modules; `tlc -config <name>.cfg MC<module>`
ends in each with a counterexample.

| configuration | module | fails | why |
|---|---|---|---|
| `CoordinatorLateAnswer` | `Coordinator` | `CodeAnswersRequest` | `ReceiveAuthResponse` (`coordinator.go:929`) stores a code in a tracker that was reset since it was found; the next login starts with it |
| `CoordinatorClosedPane` | `Coordinator` | `EveryRequestHeld` | a pane that closes in mid-login leaves its request in the map, and the agent is given it at every poll |
| `CoordinatorSendFails` | `Coordinator` | `LimitGetsLogin` | after one failed injection of `/login` the tracker goes back to IDLE, and an IDLE pane with unchanged output is skipped |
| `CodexStaleRefresh` | `CodexVault` | `NoReplay` | refreshing the live profile presents the vault's old token |
| `CodexOverlappingNext` | `CodexVault` | `OwnAccount` | `next` saves the live file under a profile it looked up earlier |
| `CodexSystemTarget` | `CodexVault` | `NoReplay` | the daemon refreshes copies of a login that lives on elsewhere |
| `AuthPoolFailedRefresh` | `AuthPool` | `RefreshingMeansInProgress` | one failed refresh leaves the entry marked for good (`pool.go:220`) |
| `AuthPoolSavedMark` | `AuthPool` | `RevertedWhenStopped` | the daemon stops while a loop has marked an entry and not yet seen the stop; the pool is saved with the mark, and the revert (`monitor.go:210`) dies with the process |
| `ClaudeLeftover` | `ClaudeVault` | `WholeSwitch` | `Restore` skips a file the profile does not have and removes nothing (`authfile.go:806-811`): the credentials, or the settings, of the account before stay live |
| `ClaudeRotated` | `ClaudeVault` | `SavedIsCurrent` | `ActiveProfile` compares hashes of tokens: once Claude Code has rotated its own, activate recognises no outgoing profile and saves nothing into it (`activate.go:385`) |
| `TuiConfirmed` | `Tui` | `ConfirmedIsAsked` | a token refresh of profile A is in flight; the user asks to delete B; the result moves the selection to A and replaces the question; yes deletes A (`model.go:1919`) |

Met while modelling, and not stated as properties:

- *Locks.* A second daemon waits on a file that is unlinked meanwhile, and then runs beside a
  third. `profile unlock` and `doctor --fix` read, check and remove without a second look.
- *Sync.* The remote modification time is `os.Stat` of the remote path on the local machine, so
  profiles of equal expiry are always pushed. A machine that cannot be reached is not queued.
  `pool.json` is saved over a concurrent `sync remove`. A push that left only the other
  file makes the profile unsyncable; `.caam_tmp_` files are copied like others;
  `machine.RemotePath` is ignored.
- *Rotation.* `Select` returns a single profile even in cooldown, contrary to the comment at
  `rotation.go:113`.
- *Terminal interface.* With an empty filter the actions fall back on `m.profiles[m.selected]`,
  in the order of names. `restoreSelection` ignores the provider it is for. The usage overlay
  hides a question while y still answers it; with the sync panel open, a and e open a
  dialog whose keys go to the panel. Two previews under way share `pendingProfile`: the
  one shown need not be the one imported. Each `errMsg` starts one more goroutine on the
  watcher. The watcher's debounce reports the first of a burst of events.
- *Pool.* See the end of section 4.

## 13. What is proved

TLC examines the instances above; the following hold for every value of the
constants that satisfies the named assumptions of the modules. Each rests on an
inductive invariant, named here, which TLC has checked before on an instance of the run.

**`Coordinator_proofs`.**

- *`TypeCorrect`*: every handler acts on a tracker of an existing pane and leaves a
  well-typed state.
- *`CodeStays`*: `CodeStaysInPane` is not inductive, since nothing in it says
  that the tracker an HTTP goroutine has found belongs to the request it carries.
  `Ownership` adds that: a tracker, the monitor's pending bind, an HTTP goroutine
  and an injected code refer to requests of their own pane; and the pane of a
  request never changes (`Kept`).
- *`HeldWhileOpen`, `NoLeak`*: `HeldInv` says that
  a request in the map is held by the tracker of its pane or about to be bound,
  that trackers in an early state (whose handlers reset without `cleanupRequest`)
  hold none, and that this still is so when the monitor acts on the state it read,
  although an HTTP goroutine may have changed the tracker since. No assumption: both speak of
  the panes that are still open.
- *`CodeAnswers`*: assumes one answer per request (`MaxPosts <= 1`) and no `Stall`.
  `AnswerInv` follows the one answer: it is posted, or with one HTTP goroutine, or in the
  tracker, or lost; a tracker that could be reset has no answer under way; a goroutine
  that has found a tracker still finds it waiting for that request.
- *`ResumesOwnLogin`*: no assumption. An "ok" in the window must be that of the request at
  hand. `LoginInv` says why: a request is made for a prompt at most once (`MadeOnce`), a
  prompt accepts only the code of the request made for it, and a tracker takes up a URL
  only while no "ok" is in the window (`OkIsOurs`).
- *`ImplementsBroker`*: assumes what `CodeAnswers` does. Most steps leave every stage alone or
  give logins up (`GiveUpStep`); the four that do more are `HandleAwaitingURL`, `HttpStore`,
  `HandleCodeReceived` and `HandleResuming` (`LoginMoves`). A pane is asked for only while its
  tracker holds no request (`HeldInv`); the answer finds its tracker waiting and without a
  code (`AnswerInv`); the code typed is that of the request held (`AnswerInv`, `Ownership`);
  the pane resumed is logged in (`LoginInv`). `BrokerInv` adds that a tracker which an HTTP
  goroutine has failed, after the monitor read AUTH_PENDING, has no code and gets none, so
  that the monitor's handler does not bring its login back.
- *`UrlCurrent`*: assumes `SlowPanes = FALSE`, and `CalmRestarts`: the coordinator
  restarts only when Claude has read what was typed. `PhaseInv` says what the screen, the
  unread input and Claude's prompt look like in each state of the tracker, in particular
  that nothing unread asks for a login when one may be given up, and that all of it still
  is so when the monitor acts on what it captured.

**`CodexVault_proofs`.**

- *`VaultTypeCorrect`*: `TInv` adds to the types that a
  busy process has a profile to work on and presents a real token.
- *`ProfileKeepsAccount`*: under `Alone`, which is `Quiet` and a single process,
  `OInv` adds `Fits`: the token a refresh has received is of the owner of its
  profile, and the outgoing profile of `next` is the one that matches the live file
  until it is saved. Two processes break exactly that.
- *`NoTokenReplayed`, `SavedLoginUsable`*: under `Tidy`, which is `Alone`, one profile per
  account, no refresh of system profiles and no kill between the provider's answer and
  the last write: what section 3 assumes for the run, and what it fails without
  (`CodexSystemTarget`, a kill there). `RInv` gives each login one place for its valid
  token: the live file if the account is live, else its profile, else the process that
  refreshes it (`Places`); no copy is fresher than the live file (`Behind`), so that the
  freshness test of `ResnapshotOutgoing` and of the refresh keeps the right one; and at each
  point a process still holds what the next write needs (`JobOK`).
- *`ActivateLosesNoLogin`*: under `Alone`. From the smart backup to the write of the live
  file the vault has a copy of the account that is about to be replaced (`Known`); the
  backup just made survives its own rotation.
- *`ImplementsKeeper`*: under `Tidy`. `LInv` adds to `RInv` that the token a refresh carries is of
  the family of the copies it will replace. No login is then lost in the mapping (`Mapped`), and
  each step is a step of `LoginKeeper`, a tick or a stutter: the outgoing profile is the one of
  the live account (`ResnapshotK`), what the user replaces or clears is saved and fresh
  (`ExpendableSaved`), and a restore leaves every other profile with a copy of the login it
  kept (`RestoreTargetK`, from `RestoreOK`).

**`ClaudeVault_proofs`.** No assumption beyond the module's: any accounts, and any `Holds`. `Safe`
holds wherever commands are killed and saves fail; `WholeLogins`, that every directory no command is
writing has the files of one login, until `torn`.

- *`TypeCorrect`*: the excess of backups is bounded by `mishaps` (`Bounded`).
- *`FilesOwn`, `LiveOfOneAccount`*: a directory takes a file only of the account whose credentials
  are live, or while `leftover` (`OwnCredentials`, `OwnOptional`, `CopiesOwn`); what `Restore` has
  written so far is of one account, which the files still to come cannot contradict unless one
  is passed over (`LiveOne`, `Restoring`).
- *`LoginKept`*: from the smart backup on, each file activate may replace is in a directory that its
  own rotation and re-snapshot leave alone, or is `missed` (`BackedUp`); for the optional file this
  needs `WholeLogins`, since only the files that tell a login are compared.

**`Daemon_proofs`**, of the two modules of the daemon. About `AuthPool`:

- *`PoolTypeCorrect`, `SemaphoreKeepsPlaces`*: `Places` says
  that a loop in `triggerRefresh` has a place which is held and is its own.
- *`StopDrains`*: no assumption. `Drained` adds that no refresh is counted once
  `Stop` has returned; the flag, read under the same lock as the wait group is
  joined, keeps it so.
- *`RefreshIsExclusive`*: under `Polite`, an entry that is being refreshed is
  marked (`Marked`), and one place or loop at most is busy with it (`OneBusy`).
- *`MarksAreExplained`*: no assumption on the callers; `Snapshots` adds that the status a loop would put
  back is never "refreshing", being from before its own mark.

About `DaemonPid`:

- *`PidTypeCorrect`, `DaemonsAreVisible`, `PidLockRefinement`*: `OwnersOK` says that a daemon past
  `flock` owns the lock of the inode it has open, and nobody else owns any; `OpenOK` that
  there is such an inode; `EarlyOK` that a daemon killed in `acquirePIDLock` is dead. With
  them the file at the path is the running daemon's, until the path is removed under it.
  `ExclusiveLock` is thus an abstract specification with two implementations, each proved.

**`SmartRunner_proofs`.** No assumption beyond the module's. `IInv` says which hand-off owns
`r.state` and what it has set it to (`Owned`), that the monitor dispatches no other before the
detector is reset (`Dispatched`, `Heard`), that what the channel holds and what the monitor is about
to send is for the hand-off that waits (`Answers`, `Judging`), whose token is live at each point
(`LiveFile`) and where each newest token is (`Copies`); all but the types and the end of `Run`
hold until `foreign`, the last two until `stray` as well. From it follow *`TypeCorrect`, `OneAtATime`, `ReturnedClean`,
`AnsweredByOwnLogin`, `NewestKept`, `ReactsAgain`*.

**`ProfileLock_proofs`.**

- *`TypeCorrect`, `Exclusion`, `LockRefinement`*: exclusion is not
  inductive, since it says nothing of who is about to remove the file. `Knows` says that
  a process which is not `overtaken` still finds in the file what it read; `NothingToLose`
  (in `Excl`) that nobody holds the profile while such a process is about to remove the
  file. A removal then takes nothing from a holder or sets `raced`, and every step maps to
  an `Acquire`, a `Release`, a `Break` or a stutter of `ExclusiveLock`.
- *`RefusalsHaveACause`*: `Causes` says that until an attempt has had a cause there is
  no reason to refuse it, and the file is what the process read or absent; only a living
  process puts anything else there (`FileSteps`).

**`VaultSync_proofs`.** No assumption beyond the module's.

- *`FilesBelongTogether`, `NeverBackward`*: `Whole` names the copy that has written a part of a
  profile of two versions; `Copying` says that what a copy read is of one version and, for
  a dated profile, no older than what it compared it with, unless somebody wrote in between.
- *`FailureRemembered`*: `Knows` says that the queue a command is about to save has all that it
  loaded and all that failed, less what succeeded; for the queue command this is true of the
  state it saves first, and the one saved last has at least as much.

**`Tui_proofs`.** No assumption beyond the module's.

- *`TypeCorrect`, `SelectionStaysInStep`*: an index is in range and names the selected row
  because `ByUse` and `ByName`, which count the profiles before one, number the rows of a panel
  from 0 without a gap (`Ranks`, from the cardinality of finite sets). `SelectionAgrees` becomes
  inductive with `InPanel`: the rows are among the profiles listed for the provider.
- *`QuestionKeepsItsProfile`*: `Asked` adds that the name on screen is the selected one while it is
  `sure`, which a key that opens a question sets, and which every message that moves the selection
  to another name takes back.
- *`SureAnswerActsOnAsked`*: the same of the step rather than of the state: the command a yes starts
  works on the profile that was asked about, unless the selection was moved by a refresh. The
  exception is real: `ConfirmedIsAsked`, without it, is refuted (section 12).
- *`ListingSettles`*: `Settling` says that a listing which is not the vault's will be replaced: some
  command in flight is still to list the vault, has listed what is there now, or is an import,
  whose answer reloads. `Reads` says that a command which has read the present version of the vault
  holds what is there.

*Only model-checked*: the liveness properties, as the prover reasons about neither
liveness under fairness nor ENABLED (`LoginEnds`, `RequestsEnd`, `RunReturns`,
`StartEnds`); `RequestUrlIsCurrent` with a restart over unread input, of which the run has one.
What a recursive definition computes for every input would need induction over data, which the
installed provers cannot do.

## 14. Not modelled, and the plan

*Not modelled.* `internal/wrap` (no importer), `sync/autosync.go` (no caller), the health
store's `RecordError`, `ClearErrors` and `DecayPenalties` (no production caller);
`refreshProfilesSimple` and `refreshProfilesWithIndex` of the terminal interface (no
caller). The scores of `rotation` and the SQLite tables: sequential, one transaction each.
`unlock --force`, `Store.Delete`, `CopyProfile`; the HTTP API, whose handlers keep no
state between requests; the login watchers; bundles but for their effect on the vault.
The rest of the source parses, formats, draws, asks, downloads or starts external programs
(usage and cost, configuration and identity, set-up and update, browser, providers,
WezTerm layouts, robot output): no state several actors change, and nothing a bounded
instance would tell that a unit test does not.

*Plan*: the login watchers, and the merge of bundles.
