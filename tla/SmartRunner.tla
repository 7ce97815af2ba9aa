---------------------------- MODULE SmartRunner ----------------------------
(***************************************************************************)
(* `caam run`: SmartRunner (internal/exec/smart_runner.go) runs the tool    *)
(* under a PTY and hands the session to another profile when its output     *)
(* shows a rate limit.  Three kinds of goroutine share the state: Run, the  *)
(* monitor of the output (monitorOutput, with the detector and the          *)
(* ObservingWriter of internal/ratelimit), and one handler per dispatched   *)
(* hand-off (handleRateLimit).  A lock release, a vault operation or a      *)
(* channel operation ends a step.                                          *)
(*                                                                         *)
(* A token is the profile it belongs to and how often it has been rotated;  *)
(* the live file and the vault's copies are tokens, as in CodexVault.       *)
(***************************************************************************)
EXTENDS Integers, Sequences, FiniteSets

CONSTANTS
  Profiles,     \* the vault's profiles of the tool
  First,        \* the profile Run was started with
  MaxHandoffs,  \* bound: hand-offs dispatched in a behaviour
  Outputs,      \* what one read of the PTY may return
  MaxRotations  \* bound: rotations of a token

NoResult == [ok |-> FALSE, of |-> 0]

ASSUME ConstantsAssumption ==
  /\ First \in Profiles
  /\ MaxHandoffs \in Nat \ {0}
  /\ Outputs \subseteq [lines : Seq({"limit", "ok", "bad"}), open : BOOLEAN]
  /\ \A o \in Outputs : o.open => o.lines # <<>>
  /\ MaxRotations \in Nat

VARIABLES
  state,       \* r.state
  current,     \* r.currentProfile
  previous,    \* r.previousProfile
  detected,    \* the detector's sticky flag
  loginDone,   \* the channel of capacity one; NoResult when empty
  mon,         \* the monitor goroutine
  handlers,    \* the hand-off goroutines
  main,        \* Run: "waiting", "cancelled", "drained", "returned"
  live,        \* the tool's auth file
  vault,       \* the saved copy of each profile
  cooling,     \* profiles in cooldown
  newest,      \* rotations of each profile's token so far
  window,      \* history: the handler that last waited for a login
  exposed,     \* history, until the swap: its re-snapshot failed, or the tool rotated since
  lost,        \* history: profiles whose newest token a rollback overwrote, or a
               \* swap that came after no good re-snapshot (exposed)
  echo,        \* history: a limit was detected again after the reset, while dispatched
  foreign,     \* history: a hand-off rolled back the failure of another one
  stray        \* history: a rollback failed and left another profile live

runner == <<state, current, previous, detected, loginDone, main>>
files == <<live, vault, newest>>
history == <<window, exposed, lost, echo, foreign, stray>>
vars == <<state, current, previous, detected, loginDone, mon, handlers, main,
          live, vault, cooling, newest, window, exposed, lost, echo, foreign, stray>>

\* Hand-off goroutines, in the order they are dispatched.
Handlers == 1 .. MaxHandoffs

States == {"Running", "RateLimited", "SelectingBackup", "SwappingAuth", "LoggingIn",
           "LoginComplete", "HandoffFailed"}
Tokens == [p : Profiles, t : 0 .. MaxRotations]
HandlerPoints == {"unused", "enter", "backup", "select", "cooldown", "resnap", "restore",
                  "drain", "trigger", "wait", "switch", "run", "deferred", "rollback",
                  "revert", "rerun", "done"}
Results == [ok : BOOLEAN, of : Handlers \cup {0}]

\* Goroutines that Run's wait group counts.
Active == {h \in Handlers : handlers[h].pc \notin {"unused", "done"}}
\* Handlers past the test of the state, but for those about to run the deferred function.
Swapping == {h \in Handlers : handlers[h].pc \in
  {"backup", "select", "cooldown", "resnap", "restore", "drain", "trigger", "wait", "switch",
   "run", "rollback", "revert", "rerun"}}

At(h, q) == handlers[h].pc = q
Go(h, q) == handlers' = [handlers EXCEPT ![h].pc = q]

-----------------------------------------------------------------------------
(* The tool under the PTY (external): it prints, rotates its token in the   *)
(* live file, and exits.                                                   *)

\* At any time, also between the last snapshot of the outgoing profile and the
\* swap that overwrites the file.
Rotate ==
  /\ main = "waiting"
  /\ live.t = newest[live.p] /\ newest[live.p] < MaxRotations
  /\ newest' = [newest EXCEPT ![live.p] = @ + 1]
  /\ live' = [live EXCEPT !.t = @ + 1]
  /\ exposed' = (exposed \/ \E h \in Handlers : At(h, "restore"))
  /\ UNCHANGED <<runner, mon, handlers, vault, cooling, window, lost, echo, foreign, stray>>

CooldownEnds(p) ==
  /\ p \in cooling
  /\ cooling' = cooling \ {p}
  /\ UNCHANGED <<runner, mon, handlers, files, history>>

-----------------------------------------------------------------------------
(* monitorOutput.                                                          *)

NoOutput == [lines |-> <<>>, open |-> FALSE]
\* What the goroutine keeps between two reads.
Between(m) == [m EXCEPT !.pc = "read", !.out = NoOutput, !.st = "Running", !.win = 0]

\* ReadOutput, then r.state under r.mu.  In the other states the output is dropped.
Read ==
  /\ mon.pc = "read" /\ state \in {"Running", "LoggingIn"}
  /\ \E out \in Outputs :
       mon' = [mon EXCEPT !.pc = "judge", !.out = out, !.st = state,
                          !.win = IF state = "LoggingIn" THEN window ELSE 0]
  /\ UNCHANGED <<runner, handlers, files, cooling, history>>

\* The detector was reset: a new dispatch is allowed.
StillDispatched(d) == IF detected THEN d ELSE FALSE

\* writer.Write: the lines to process; what has no newline stays in the buffer.
Feed(m) ==
  LET all == m.buffer \o m.out.lines
      n == IF m.out.open THEN Len(all) - 1 ELSE Len(all)
      fed == [m EXCEPT !.pc = "lines", !.todo = SubSeq(all, 1, n),
                       !.buffer = SubSeq(all, n + 1, Len(all))]
  IN IF n = 0 THEN Between(fed) ELSE [fed EXCEPT !.out = NoOutput]

Observe ==
  /\ mon.pc = "judge" /\ mon.st = "Running"
  /\ LET d == StillDispatched(mon.dispatched)
         m == [mon EXCEPT !.dispatched = d]
     IN mon' = IF d THEN Between(m) ELSE Feed(m)
  /\ UNCHANGED <<runner, handlers, files, cooling, history>>

Shows(out, kinds) == \E i \in DOMAIN out.lines : out.lines[i] \in kinds

\* IsLoginComplete, else IsLoginFailed, which takes a limit for a failed login.
Verdict(out, win) ==
  IF Shows(out, {"ok"}) THEN [ok |-> TRUE, of |-> win]
  ELSE IF Shows(out, {"bad", "limit"}) THEN [ok |-> FALSE, of |-> win] ELSE NoResult

\* The send does not block: a channel that holds a result keeps it.
Judge ==
  /\ mon.pc = "judge" /\ mon.st = "LoggingIn"
  /\ loginDone' = IF loginDone = NoResult THEN Verdict(mon.out, mon.win) ELSE loginDone
  /\ mon' = Between(mon)
  /\ UNCHANGED <<state, current, previous, detected, main, handlers, files, cooling, history>>

\* Hand-offs beyond the bound are not dispatched: the behaviour stops there.
Fresh(h) == handlers[h].pc = "unused" /\ \A g \in Handlers : g < h => handlers[g].pc # "unused"

AfterLine(m) ==
  IF m.todo # <<>> THEN m ELSE IF m.flushed THEN [m EXCEPT !.pc = "closed"] ELSE Between(m)

\* Detector.Check, then the callback, which dispatches.
Line ==
  /\ mon.pc = "lines" /\ mon.todo # <<>>
  /\ LET hit == detected \/ Head(mon.todo) = "limit"
         m == [mon EXCEPT !.todo = Tail(@)]
     IN /\ detected' = hit
        /\ echo' = (echo \/ (hit /\ ~detected /\ mon.dispatched))
        /\ IF hit /\ ~mon.dispatched
             THEN /\ \E h \in Handlers : Fresh(h) /\ Go(h, "enter")
                  /\ mon' = AfterLine([m EXCEPT !.dispatched = TRUE])
             ELSE mon' = AfterLine(m) /\ UNCHANGED handlers
  /\ UNCHANGED <<state, current, previous, loginDone, main, files, cooling,
                 window, exposed, lost, foreign, stray>>

\* EOF once the tool is gone, or the PTY closed five seconds later; the deferred
\* Flush runs before the deferred close(done).
Eof ==
  /\ mon.pc = "read" /\ main # "waiting"
  /\ mon' = AfterLine([mon EXCEPT !.pc = "lines", !.flushed = TRUE, !.todo = mon.buffer,
                                  !.buffer = <<>>])
  /\ UNCHANGED <<runner, handlers, files, cooling, history>>

Monitor == Read \/ Observe \/ Judge \/ Line \/ Eof

-----------------------------------------------------------------------------
(* handleRateLimit.                                                        *)

\* failWithManual; the return runs the deferred function.
Fail(h) ==
  /\ state' = "HandoffFailed"
  /\ handlers' = [handlers EXCEPT ![h].pc = "deferred", ![h].failed = "later"]

\* Variation: the state is taken without being tested.
EnterUntested(h) ==
  /\ At(h, "enter")
  /\ state' = "RateLimited" /\ Go(h, "backup")
  /\ UNCHANGED <<current, previous, detected, loginDone, files, cooling, history>>

Enter(h) ==
  /\ At(h, "enter")
  /\ IF state = "Running"
       THEN state' = "RateLimited" /\ Go(h, "backup")
       ELSE /\ handlers' = [handlers EXCEPT ![h].pc = "done", ![h].failed = "busy"]
            /\ UNCHANGED state
  /\ UNCHANGED <<current, previous, detected, loginDone, files, cooling, history>>

\* A failed backup returns before the rollback is deferred.
BackupCurrent(h) ==
  /\ At(h, "backup")
  /\ previous' = current
  /\ \/ /\ vault' = [vault EXCEPT ![current] = live]
        /\ Go(h, "select") /\ state' = "SelectingBackup"
     \/ /\ state' = "HandoffFailed"
        /\ handlers' = [handlers EXCEPT ![h].pc = "done", ![h].failed = "backup"]
        /\ UNCHANGED vault
  /\ UNCHANGED <<current, detected, loginDone, live, newest, cooling, history>>

\* List, or Select, fails; or Select returns a profile that is not in cooldown,
\* which is a failure too when it is the current one.
Select(h) ==
  /\ At(h, "select")
  /\ \/ \E p \in Profiles \ (cooling \cup {current}) :
          handlers' = [handlers EXCEPT ![h].pc = "cooldown", ![h].next = p]
        /\ UNCHANGED state
     \/ Fail(h)
  /\ UNCHANGED <<current, previous, detected, loginDone, files, cooling, history>>

\* The pool and the database; then the state.
SetCooldown(h) ==
  /\ At(h, "cooldown")
  /\ cooling' = cooling \cup {current}
  /\ state' = "SwappingAuth" /\ Go(h, "resnap")
  /\ UNCHANGED <<current, previous, detected, loginDone, files, history>>

\* Variation: the vault keeps what Backup saved at the start of the hand-off.
NoResnapshot(h) ==
  /\ At(h, "resnap") /\ Go(h, "restore")
  /\ UNCHANGED <<state, current, previous, detected, loginDone, files, cooling, history>>

\* ResnapshotOutgoing, whose failure is only a warning.
Resnapshot(h) ==
  /\ At(h, "resnap") /\ Go(h, "restore")
  /\ \/ vault' = [vault EXCEPT ![current] = live] /\ UNCHANGED exposed
     \/ exposed' = TRUE /\ UNCHANGED vault
  /\ UNCHANGED <<state, current, previous, detected, loginDone, live, newest, cooling,
                 window, lost, echo, foreign, stray>>

\* Vault.Restore leaves a fresher live file of the same account alone.
Restored(p) == IF live.p = p /\ live.t > vault[p].t THEN live ELSE vault[p]

RestoreNext(h) ==
  /\ At(h, "restore")
  /\ \/ /\ live' = Restored(handlers[h].next) /\ Go(h, "drain")
        /\ lost' = IF exposed /\ live' # live /\ live # vault[live.p]
                     THEN lost \cup {live.p} ELSE lost
        /\ UNCHANGED state
     \/ Fail(h) /\ UNCHANGED <<live, lost>>
  /\ exposed' = FALSE
  /\ UNCHANGED <<current, previous, detected, loginDone, vault, newest, cooling,
                 window, echo, foreign, stray>>

\* Variation: an answer to an earlier login is left in the channel.
NoDrain(h) ==
  /\ At(h, "drain") /\ Go(h, "trigger")
  /\ state' = "LoggingIn" /\ window' = h
  /\ UNCHANGED <<current, previous, detected, loginDone, files, cooling,
                 exposed, lost, echo, foreign, stray>>

\* drainLoginDone, and the state that lets the monitor judge the output.
DrainLoginDone(h) ==
  /\ At(h, "drain") /\ Go(h, "trigger")
  /\ loginDone' = NoResult
  /\ state' = "LoggingIn" /\ window' = h
  /\ UNCHANGED <<current, previous, detected, files, cooling,
                 exposed, lost, echo, foreign, stray>>

TriggerLogin(h) ==
  /\ At(h, "trigger")
  /\ \/ Go(h, "wait") /\ UNCHANGED state
     \/ Fail(h)
  /\ UNCHANGED <<current, previous, detected, loginDone, files, cooling, history>>

\* The select: a result of the monitor, ...
Answered(h) ==
  /\ At(h, "wait") /\ loginDone # NoResult
  /\ loginDone' = NoResult
  /\ IF loginDone.ok
       THEN /\ state' = "LoginComplete"
            /\ handlers' = [handlers EXCEPT ![h].pc = "switch", ![h].got = loginDone.of]
       ELSE Fail(h)
  /\ UNCHANGED <<current, previous, detected, files, cooling, history>>

\* Variation: the select has no timeout, and the context is that of the command.
OnlyAnswers(h) == FALSE /\ UNCHANGED vars

\* ... the timeout, or the end of the monitor's context.
GivesUp(h) ==
  /\ At(h, "wait")
  /\ Fail(h)
  /\ UNCHANGED <<current, previous, detected, loginDone, files, cooling, history>>

\* Variation: the detector keeps what it has detected.
SwitchUnreset(h) ==
  /\ At(h, "switch") /\ Go(h, "run")
  /\ current' = handlers[h].next
  /\ UNCHANGED <<state, previous, detected, loginDone, files, cooling, history>>

SwitchProfile(h) ==
  /\ At(h, "switch") /\ Go(h, "run")
  /\ current' = handlers[h].next /\ detected' = FALSE
  /\ UNCHANGED <<state, previous, loginDone, files, cooling, history>>

RunAgain(h) ==
  /\ At(h, "run") /\ Go(h, "deferred")
  /\ state' = "Running"
  /\ UNCHANGED <<current, previous, detected, loginDone, files, cooling, history>>

\* The deferred function looks at the state as it is by then.
Deferred(h) ==
  /\ At(h, "deferred")
  /\ LET failed == state = "HandoffFailed"
     IN /\ handlers' = [handlers EXCEPT ![h].pc = IF failed THEN "rollback" ELSE "done"]
        /\ foreign' = (foreign \/ (failed /\ handlers[h].failed = "no"))
  /\ UNCHANGED <<state, current, previous, detected, loginDone, files, cooling,
                 window, exposed, lost, echo, stray>>

\* Restore of the previous profile; if it fails, the profile is taken for the
\* current one all the same.
Rollback(h) ==
  /\ At(h, "rollback") /\ Go(h, "revert")
  /\ \/ /\ live' = Restored(previous)
        /\ lost' = IF live' # live /\ live # vault[live.p] THEN lost \cup {live.p} ELSE lost
        /\ UNCHANGED stray
     \/ stray' = (stray \/ live.p # previous) /\ UNCHANGED <<live, lost>>
  /\ UNCHANGED <<state, current, previous, detected, loginDone, vault, newest, cooling,
                 window, exposed, echo, foreign>>

Revert(h) ==
  /\ At(h, "revert") /\ Go(h, "rerun")
  /\ current' = previous /\ detected' = FALSE
  /\ UNCHANGED <<state, previous, loginDone, files, cooling, history>>

Rerun(h) ==
  /\ At(h, "rerun") /\ Go(h, "done")
  /\ state' = "Running"
  /\ UNCHANGED <<current, previous, detected, loginDone, files, cooling, history>>

HandleRateLimit(h) ==
  /\ \/ Enter(h) \/ BackupCurrent(h) \/ Select(h) \/ SetCooldown(h) \/ Resnapshot(h)
     \/ RestoreNext(h) \/ DrainLoginDone(h) \/ TriggerLogin(h) \/ Answered(h) \/ GivesUp(h)
     \/ SwitchProfile(h) \/ RunAgain(h) \/ Deferred(h)
     \/ Rollback(h) \/ Revert(h) \/ Rerun(h)
  /\ UNCHANGED <<mon, main>>

-----------------------------------------------------------------------------
(* Run, from the start of the tool to its return.                          *)

Init ==
  /\ state = "Running" /\ current = First /\ previous = First
  /\ detected = FALSE /\ loginDone = NoResult /\ main = "waiting"
  /\ mon = [pc |-> "read", out |-> NoOutput, st |-> "Running", win |-> 0,
            dispatched |-> FALSE, todo |-> <<>>, buffer |-> <<>>, flushed |-> FALSE]
  /\ handlers = [h \in Handlers |-> [pc |-> "unused", next |-> First, got |-> 0, failed |-> "no"]]
  /\ vault = [p \in Profiles |-> [p |-> p, t |-> 0]]
  /\ live = vault[First] /\ newest = [p \in Profiles |-> 0]
  /\ cooling = {} /\ window = 0 /\ lost = {} /\ echo = FALSE
  /\ exposed = FALSE /\ foreign = FALSE /\ stray = FALSE

\* ctrl.Wait returns; the monitor's context is cancelled.
Exit == main = "waiting" /\ main' = "cancelled"

\* Variation: only the hand-offs are waited for, not the monitor.
MonitorLeft == main = "cancelled" /\ main' = "drained"

MonitorDone == main = "cancelled" /\ mon.pc = "closed" /\ main' = "drained"

\* r.wg.Wait(), the profile's metadata, and the return with its deferred Unlock.
Return == main = "drained" /\ Active = {} /\ main' = "returned"

Run ==
  /\ Exit \/ MonitorDone \/ Return
  /\ UNCHANGED <<state, current, previous, detected, loginDone, mon, handlers, files,
                 cooling, history>>

Next ==
  \/ Rotate \/ \E p \in Profiles : CooldownEnds(p)
  \/ Monitor \/ Run
  \/ \E h \in Handlers : HandleRateLimit(h)

Spec == Init /\ [][Next]_vars

\* Every goroutine runs; the PTY ends once the tool is gone, at the latest when it is
\* closed five seconds later; the timeout of a login fires.
Fairness ==
  /\ WF_vars(Monitor) /\ SF_vars(Eof)
  /\ WF_vars(Run /\ main # "waiting")
  /\ \A h \in Handlers : WF_vars(HandleRateLimit(h))

FairSpec == Spec /\ Fairness

-----------------------------------------------------------------------------
(* Properties.                                                             *)

\* Every variable has its type, and a goroutine is at a point of its code.
TypeOK ==
  /\ state \in States /\ {current, previous} \subseteq Profiles
  /\ detected \in BOOLEAN /\ loginDone \in Results
  /\ main \in {"waiting", "cancelled", "drained", "returned"}
  /\ Len(mon.buffer) <= 1
  /\ mon.pc \in {"read", "judge", "lines", "closed"} /\ mon.st \in {"Running", "LoggingIn"}
  /\ handlers \in [Handlers -> [pc : HandlerPoints, next : Profiles, got : Handlers \cup {0},
                                failed : {"no", "later", "backup", "busy"}]]
  /\ live \in Tokens /\ vault \in [Profiles -> Tokens] /\ cooling \subseteq Profiles

\* Two hand-offs never work on the files at once, unless one of them took the failure
\* of another for its own and rolled it back (the deferred getState(), line 318).
OneHandler == ~foreign => Cardinality(Swapping) <= 1

\* When Run has returned, and its deferred Unlock has given the profile away, no
\* hand-off of this run still writes the live file (monitorDone, then wg.Wait), and
\* the profile recorded as the final one (line 191) is the one whose tokens are live,
\* unless a hand-off rolled back the failure of another, or the Restore of a rollback
\* failed: then the previous profile is recorded and the next one is live (line 437).
AtReturn == main = "returned" => Active = {} /\ (foreign \/ stray \/ live.p = current)

\* A hand-off succeeds on an answer to its own login: what the monitor read during
\* an earlier login is not taken for it (drainLoginDone), unless a hand-off rolled back
\* the failure of another, after which two of them may wait for a login at once.
OwnAnswer == ~foreign => \A h \in Handlers : At(h, "switch") => handlers[h].got = h

\* Whatever the tool rotates between the backup and the re-snapshot, the newest token of
\* every profile is in the live file or in its own place in the vault, and no profile
\* holds another one's token (Backup, ResnapshotOutgoing, Restore).  A token may be lost
\* in two ways only: a rollback overwrote it, or a swap did after a re-snapshot that
\* failed, or that the tool rotated past before the swap (lines 376-380).  Unless a
\* hand-off rolled back the failure of another, or a rollback failed: then a backup may
\* save the live file for a profile it does not belong to.
Kept ==
  ~foreign /\ ~stray => \A p \in Profiles :
    /\ vault[p].p = p
    /\ p \in lost \/ live = [p |-> p, t |-> newest[p]] \/ vault[p].t = newest[p]

\* Between two hand-offs the runner reacts to the next limit, unless a backup failed
\* (no rollback is deferred yet), or the limit was seen again in the lines that follow
\* the reset, or a hand-off was dispatched while the last one was not over, or a
\* hand-off rolled back the failure of another.
Listening ==
  main = "waiting" /\ ~foreign /\ Active = {} /\ mon.pc = "read" =>
    \/ state = "Running" /\ (mon.dispatched => ~detected)
    \/ echo \/ \E h \in Handlers : handlers[h].failed \in {"backup", "busy"}

\* The monitor waits for a hand-off beyond the bound.
AtBound == mon.pc = "lines" /\ \A h \in Handlers : ~At(h, "unused")

\* Once the tool has exited, Run returns: the monitor drains the PTY to its end and
\* every hand-off is over.
RunReturns == main = "cancelled" ~> main = "returned" \/ AtBound
=============================================================================
