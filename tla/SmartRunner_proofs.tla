------------------------- MODULE SmartRunner_proofs -------------------------
(***************************************************************************)
(* The run with hand-offs for any number of them, any profiles and any      *)
(* output: one inductive invariant, from which every invariant that the run *)
(* of TLC checks follows.                                                  *)
(***************************************************************************)
EXTENDS SmartRunner, SequenceTheorems, FiniteSetTheorems, TLAPS

-----------------------------------------------------------------------------
(* The invariant.                                                          *)

Lines == {"limit", "ok", "bad"}
Monitors == [pc : {"read", "judge", "lines", "closed"},
             out : [lines : Seq(Lines), open : BOOLEAN],
             st : {"Running", "LoggingIn"}, win : Handlers \cup {0}, dispatched : BOOLEAN,
             todo : Seq(Lines), buffer : Seq(Lines), flushed : BOOLEAN]
Hands == [pc : HandlerPoints, next : Profiles, got : Handlers \cup {0},
          failed : {"no", "later", "backup", "busy"}]

\* The variables that a hand-off changes ...
RunnerTyped ==
  /\ state \in States /\ current \in Profiles /\ previous \in Profiles
  /\ detected \in BOOLEAN /\ loginDone \in Results
  /\ handlers \in [Handlers -> Hands]
  /\ live \in Tokens /\ vault \in [Profiles -> Tokens] /\ cooling \subseteq Profiles
  /\ newest \in [Profiles -> 0 .. MaxRotations]
  /\ window \in Handlers \cup {0} /\ lost \subseteq Profiles
  /\ echo \in BOOLEAN /\ foreign \in BOOLEAN /\ stray \in BOOLEAN /\ exposed \in BOOLEAN

\* ... and those of the monitor and of Run.
MonitorTyped ==
  /\ main \in {"waiting", "cancelled", "drained", "returned"}
  /\ mon \in Monitors /\ Len(mon.buffer) <= 1
  /\ mon.out.open => mon.out.lines # <<>>

Typed == RunnerTyped /\ MonitorTyped

\* Run waits for the monitor, then for the hand-offs.
Ends ==
  /\ main \in {"drained", "returned"} => mon.pc = "closed"
  /\ main = "returned" => Active = {}

\* The points of a hand-off that has not failed.
Unfailed == {"unused", "enter", "backup", "select", "cooldown", "resnap", "restore", "drain",
             "trigger", "wait", "switch", "run"}
Failures == \A h \in Handlers :
  /\ handlers[h].pc \in Unfailed => handlers[h].failed = "no"
  /\ handlers[h].pc = "deferred" => handlers[h].failed \in {"no", "later"}

\* A hand-off that has failed and has still to roll back.
Late(h) == At(h, "deferred") /\ handlers[h].failed = "later"
\* A hand-off that owns r.state, and the state it has set.
Busy(h) == h \in Swapping \/ Late(h)
Phase(h) ==
  CASE handlers[h].pc = "backup" -> "RateLimited"
    [] handlers[h].pc \in {"select", "cooldown"} -> "SelectingBackup"
    [] handlers[h].pc \in {"resnap", "restore", "drain"} -> "SwappingAuth"
    [] handlers[h].pc \in {"trigger", "wait"} -> "LoggingIn"
    [] handlers[h].pc \in {"switch", "run"} -> "LoginComplete"
    [] OTHER -> "HandoffFailed"
Owned ==
  /\ \A g, h \in Handlers : Busy(g) /\ Busy(h) => g = h
  /\ \A h \in Handlers : Busy(h) => state = Phase(h)
  /\ \/ \E h \in Handlers : Busy(h)
     \/ state = "Running"
     \/ state = "HandoffFailed" /\ \E h \in Handlers : handlers[h].failed = "backup"

\* A hand-off that has not yet reset the detector: the monitor dispatches no other.
Early == {"enter", "backup", "select", "cooldown", "resnap", "restore", "drain"}
Unreset(h) ==
  handlers[h].pc \in Early \cup {"trigger", "wait", "switch", "rollback", "revert"} \/ Late(h)
Dispatched ==
  /\ \A g, h \in Handlers : Unreset(g) /\ Unreset(h) => g = h
  /\ \A h \in Handlers : Unreset(h) => detected /\ mon.dispatched
Heard ==
  detected /\ mon.dispatched =>
    \/ echo \/ \E h \in Handlers : Unreset(h) \/ handlers[h].failed \in {"backup", "busy"}

\* What the channel holds, and what the monitor is about to send, is for the hand-off
\* that waits.
Answers ==
  \A h \in Handlers :
    /\ handlers[h].pc \in {"trigger", "wait"} =>
         window = h /\ (loginDone # NoResult => loginDone.of = h)
    /\ At(h, "switch") => handlers[h].got = h
Judging ==
  mon.pc = "judge" /\ mon.st = "LoggingIn" =>
    \A h \in Handlers : /\ handlers[h].pc \notin Early
                        /\ handlers[h].pc \in {"trigger", "wait"} => mon.win = h

\* The live file, until a rollback fails: of the current profile, but for the hand-off
\* that has swapped it.
Swapped(h) ==
  handlers[h].pc \in {"drain", "trigger", "wait", "switch", "rollback", "revert"} \/ Late(h)
LiveFile == ~stray =>
  /\ live.p = current \/ \E h \in Handlers : Swapped(h)
  /\ \A h \in Handlers :
       /\ handlers[h].pc \in {"drain", "trigger", "wait", "switch"} => live.p = handlers[h].next
       /\ handlers[h].pc \in {"cooldown", "resnap", "restore"} => handlers[h].next # current
       /\ At(h, "restore") => vault[current] = live \/ exposed
       /\ At(h, "revert") => live.p = previous

\* The tokens, until then: none is from the future, and the newest of each profile is
\* somewhere.
Copies == ~stray =>
  /\ \A p \in Profiles : vault[p].p = p /\ vault[p].t <= newest[p]
  /\ live.t <= newest[live.p]
  /\ live.t = newest[live.p] \/ live.p \in lost
  /\ \A p \in Profiles :
       p \in lost \/ live = [p |-> p, t |-> newest[p]] \/ vault[p].t = newest[p]

\* What holds until a hand-off takes the failure of another for its own.
OwnFailures == Owned /\ Dispatched /\ Heard /\ Answers /\ Judging /\ LiveFile /\ Copies
IInv == Typed /\ Ends /\ Failures /\ (~foreign => OwnFailures)

-----------------------------------------------------------------------------
(* A hand-off moves alone.                                                 *)

Becomes(h, q, n, w, f) ==
  /\ handlers' \in [Handlers -> Hands]
  /\ \A g \in Handlers : g # h => handlers'[g] = handlers[g]
  /\ handlers'[h] = [pc |-> q, next |-> n, got |-> w, failed |-> f]

LEMMA GoMoves ==
  ASSUME handlers \in [Handlers -> Hands], NEW h \in Handlers, NEW q \in HandlerPoints,
         Go(h, q)
  PROVE  Becomes(h, q, handlers[h].next, handlers[h].got, handlers[h].failed)
BY DEF Go, Becomes, Hands

LEMMA FailMoves ==
  ASSUME handlers \in [Handlers -> Hands], NEW h \in Handlers, Fail(h)
  PROVE  Becomes(h, "deferred", handlers[h].next, handlers[h].got, "later")
BY DEF Fail, Becomes, Hands, HandlerPoints

\* What a hand-off that owns r.state may conclude about the others.
LEMMA Alone ==
  ASSUME Owned, NEW h \in Handlers, Busy(h), NEW g \in Handlers, g # h
  PROVE  ~Busy(g) /\ ~Swapped(g)
BY DEF Owned, Busy, Swapped, Swapping, Late, At

-----------------------------------------------------------------------------
(* Types of a step of a hand-off.                                          *)

LEMMA HandlersTyped ==
  ASSUME handlers \in [Handlers -> Hands], cooling \subseteq Profiles, loginDone \in Results,
         NEW h \in Handlers, HandleRateLimit(h)
  PROVE  handlers' \in [Handlers -> Hands]
<1> USE DEF Hands, HandlerPoints, Results, Go, Fail
<1>1. CASE Enter(h)
  BY <1>1 DEF Enter
<1>2. CASE BackupCurrent(h)
  BY <1>2 DEF BackupCurrent
<1>3. CASE Select(h)
  BY <1>3 DEF Select
<1>4. CASE SetCooldown(h)
  BY <1>4 DEF SetCooldown
<1>5. CASE Resnapshot(h)
  BY <1>5 DEF Resnapshot
<1>6. CASE RestoreNext(h)
  BY <1>6 DEF RestoreNext
<1>7. CASE DrainLoginDone(h)
  BY <1>7 DEF DrainLoginDone
<1>8. CASE TriggerLogin(h)
  BY <1>8 DEF TriggerLogin
<1>9. CASE Answered(h)
  BY <1>9 DEF Answered
<1>10. CASE GivesUp(h)
  BY <1>10, FailMoves DEF GivesUp, Becomes
<1>11. CASE SwitchProfile(h)
  BY <1>11 DEF SwitchProfile
<1>12. CASE RunAgain(h)
  BY <1>12 DEF RunAgain
<1>13. CASE Deferred(h)
  BY <1>13 DEF Deferred
<1>14. CASE Rollback(h)
  BY <1>14 DEF Rollback
<1>15. CASE Revert(h)
  BY <1>15 DEF Revert
<1>16. CASE Rerun(h)
  BY <1>16 DEF Rerun
<1> QED
  BY <1>1, <1>2, <1>3, <1>4, <1>5, <1>6, <1>7, <1>8, <1>9, <1>10, <1>11, <1>12, <1>13, <1>14,
     <1>15, <1>16
     DEF HandleRateLimit

LEMMA HandlerTyped ==
  ASSUME RunnerTyped, NEW h \in Handlers, HandleRateLimit(h)
  PROVE  RunnerTyped'
<1>0. handlers' \in [Handlers -> Hands]
  BY HandlersTyped DEF RunnerTyped
<1> USE DEF RunnerTyped
<1>1. CASE Enter(h)
  BY <1>0, <1>1 DEF Enter, files, history, States
<1>2. CASE BackupCurrent(h)
  BY <1>0, <1>2 DEF BackupCurrent, files, history, States
<1>3. CASE Select(h)
  BY <1>0, <1>3 DEF Select, files, history, States, Fail
<1>4. CASE SetCooldown(h)
  BY <1>0, <1>4 DEF SetCooldown, files, history, States
<1>5. CASE Resnapshot(h)
  BY <1>0, <1>5 DEF Resnapshot, files, history
<1>6. CASE RestoreNext(h)
  <2>1. live' \in Tokens /\ lost' \subseteq Profiles
    BY <1>6 DEF RestoreNext, Restored, Hands, Tokens
  <2>2. state' \in States /\ exposed' \in BOOLEAN
    BY <1>6 DEF RestoreNext, States, Fail
  <2> QED
    BY <1>0, <1>6, <2>1, <2>2 DEF RestoreNext, files
<1>7. CASE DrainLoginDone(h)
  BY <1>0, <1>7 DEF DrainLoginDone, files, history, States, Results, NoResult
<1>8. CASE TriggerLogin(h)
  BY <1>0, <1>8 DEF TriggerLogin, files, history, States, Fail
<1>9. CASE Answered(h)
  BY <1>0, <1>9 DEF Answered, files, history, States, Fail, Results, NoResult
<1>10. CASE GivesUp(h)
  BY <1>0, <1>10 DEF GivesUp, files, history, States, Fail
<1>11. CASE SwitchProfile(h)
  BY <1>0, <1>11 DEF SwitchProfile, files, history, Hands
<1>12. CASE RunAgain(h)
  BY <1>0, <1>12 DEF RunAgain, files, history, States
<1>13. CASE Deferred(h)
  BY <1>0, <1>13 DEF Deferred, files, history
<1>14. CASE Rollback(h)
  <2>1. stray' \in BOOLEAN
    <3>1. CASE UNCHANGED stray
      BY <3>1
    <3>2. CASE stray' = (stray \/ live.p # previous)
      BY <3>2
    <3> QED
      BY <1>14, <3>1, <3>2 DEF Rollback
  <2>2. live' \in Tokens /\ lost' \subseteq Profiles
    BY <1>14 DEF Rollback, Restored, Tokens
  <2> QED
    BY <1>0, <1>14, <2>1, <2>2 DEF Rollback, files, history
<1>15. CASE Revert(h)
  BY <1>0, <1>15 DEF Revert, files, history
<1>16. CASE Rerun(h)
  BY <1>0, <1>16 DEF Rerun, files, history, States
<1> QED
  BY <1>1, <1>2, <1>3, <1>4, <1>5, <1>6, <1>7, <1>8, <1>9, <1>10, <1>11, <1>12, <1>13, <1>14,
     <1>15, <1>16
     DEF HandleRateLimit

LEMMA HandlerFailures ==
  ASSUME handlers \in [Handlers -> Hands], Failures, NEW h \in Handlers, HandleRateLimit(h)
  PROVE  Failures'
<1> USE DEF Hands, Failures, Unfailed, Go, Fail, At
<1>1. CASE Enter(h)
  BY <1>1 DEF Enter
<1>2. CASE BackupCurrent(h)
  BY <1>2 DEF BackupCurrent
<1>3. CASE Select(h)
  BY <1>3 DEF Select
<1>4. CASE SetCooldown(h)
  BY <1>4 DEF SetCooldown
<1>5. CASE Resnapshot(h)
  BY <1>5 DEF Resnapshot
<1>6. CASE RestoreNext(h)
  BY <1>6 DEF RestoreNext
<1>7. CASE DrainLoginDone(h)
  BY <1>7 DEF DrainLoginDone
<1>8. CASE TriggerLogin(h)
  BY <1>8 DEF TriggerLogin
<1>9. CASE Answered(h)
  BY <1>9 DEF Answered
<1>10. CASE GivesUp(h)
  BY <1>10 DEF GivesUp
<1>11. CASE SwitchProfile(h)
  BY <1>11 DEF SwitchProfile
<1>12. CASE RunAgain(h)
  BY <1>12 DEF RunAgain
<1>13. CASE Deferred(h)
  BY <1>13 DEF Deferred
<1>14. CASE Rollback(h)
  BY <1>14 DEF Rollback
<1>15. CASE Revert(h)
  BY <1>15 DEF Revert
<1>16. CASE Rerun(h)
  BY <1>16 DEF Rerun
<1> QED
  BY <1>1, <1>2, <1>3, <1>4, <1>5, <1>6, <1>7, <1>8, <1>9, <1>10, <1>11, <1>12, <1>13, <1>14,
     <1>15, <1>16
     DEF HandleRateLimit

-----------------------------------------------------------------------------
(* A step of a hand-off keeps what holds until a failure is mistaken.      *)

LEMMA EnterKeeps ==
  ASSUME RunnerTyped, Failures, OwnFailures, NEW h \in Handlers, Enter(h), UNCHANGED mon,
         ~foreign'
  PROVE  OwnFailures'
<1> USE DEF At, Becomes, OwnFailures
<1>1. CASE state = "Running" /\ state' = "RateLimited" /\ Go(h, "backup")
  <2>1. Becomes(h, "backup", handlers[h].next, handlers[h].got, handlers[h].failed)
    BY <1>1, GoMoves DEF Enter, RunnerTyped, HandlerPoints
  <2>2. Owned'
    BY <1>1, <2>1 DEF Owned, Busy, Late, Phase, Swapping, Failures, Unfailed, Enter
  <2>3. Dispatched'
    BY <1>1, <2>1 DEF Dispatched, Unreset, Late, Early, Enter
  <2>4. Heard'
    BY <1>1, <2>1 DEF Heard, Dispatched, Unreset, Late, Early, Enter, history, files
  <2>5. Answers'
    BY <1>1, <2>1 DEF Answers, Enter, history, files
  <2>6. Judging'
    BY <1>1, <2>1 DEF Judging, Early, Enter
  <2>7. LiveFile'
    BY <1>1, <2>1 DEF LiveFile, Swapped, Late, Enter, history, files
  <2>8. Copies'
    BY <1>1, <2>1 DEF Copies, Enter, history, files
  <2> QED
    BY <2>2, <2>3, <2>4, <2>5, <2>6, <2>7, <2>8
<1>2. CASE /\ state # "Running" /\ UNCHANGED state
           /\ handlers' = [handlers EXCEPT ![h].pc = "done", ![h].failed = "busy"]
  <2>1. Becomes(h, "done", handlers[h].next, handlers[h].got, "busy")
    BY <1>2 DEF RunnerTyped, Becomes, Hands, HandlerPoints
  <2>2. Owned'
    BY <1>2, <2>1 DEF Owned, Busy, Late, Phase, Swapping, Failures, Unfailed, Enter
  <2>3. Dispatched'
    BY <1>2, <2>1 DEF Dispatched, Unreset, Late, Early, Enter
  <2>4. Heard'
    BY <1>2, <2>1 DEF Heard, Dispatched, Unreset, Late, Early, Enter, history, files
  <2>5. Answers'
    BY <1>2, <2>1 DEF Answers, Enter, history, files
  <2>6. Judging'
    BY <1>2, <2>1 DEF Judging, Early, Enter
  <2>7. LiveFile'
    BY <1>2, <2>1 DEF LiveFile, Swapped, Late, Enter, history, files
  <2>8. Copies'
    BY <1>2, <2>1 DEF Copies, Enter, history, files
  <2> QED
    BY <2>2, <2>3, <2>4, <2>5, <2>6, <2>7, <2>8
<1> QED
  BY <1>1, <1>2 DEF Enter

LEMMA BackupCurrentKeeps ==
  ASSUME RunnerTyped, Failures, OwnFailures, NEW h \in Handlers, BackupCurrent(h), UNCHANGED mon,
         ~foreign'
  PROVE  OwnFailures'
<1> USE DEF At, Becomes, OwnFailures
<1>0. /\ \A g \in Handlers : g # h => ~Busy(g) /\ ~Swapped(g)
      /\ ~stray => live.p = current
  <2>1. Busy(h) /\ ~Swapped(h)
    BY DEF BackupCurrent, Busy, Swapping, Swapped, Late
  <2>2. \A g \in Handlers : g # h => ~Busy(g) /\ ~Swapped(g)
    BY <2>1, Alone DEF OwnFailures
  <2> QED
    BY <2>1, <2>2 DEF OwnFailures, LiveFile
<1>1. CASE /\ vault' = [vault EXCEPT ![current] = live]
           /\ Go(h, "select") /\ state' = "SelectingBackup"
  <2>1. Becomes(h, "select", handlers[h].next, handlers[h].got, handlers[h].failed)
    BY <1>1, GoMoves DEF BackupCurrent, RunnerTyped, HandlerPoints
  <2>2. Owned'
    BY <1>1, <2>1 DEF Owned, Busy, Late, Phase, Swapping, Failures, Unfailed, BackupCurrent
  <2>3. Dispatched'
    BY <1>1, <2>1 DEF Dispatched, Unreset, Late, Early, BackupCurrent
  <2>4. Heard'
    BY <1>1, <2>1 DEF Heard, Dispatched, Unreset, Late, Early, BackupCurrent, history, files
  <2>5. Answers'
    BY <1>1, <2>1 DEF Answers, BackupCurrent, history, files
  <2>6. Judging'
    BY <1>1, <2>1 DEF Judging, Early, BackupCurrent
  <2>7. LiveFile'
    BY <1>1, <2>1, <1>0
       DEF LiveFile, Swapped, Swapping, Busy, Late, RunnerTyped, BackupCurrent, history, files
  <2>8. Copies'
    BY <1>1, <2>1, <1>0 DEF Copies, RunnerTyped, BackupCurrent, history, files
  <2> QED
    BY <2>2, <2>3, <2>4, <2>5, <2>6, <2>7, <2>8
<1>2. CASE /\ state' = "HandoffFailed" /\ UNCHANGED vault
           /\ handlers' = [handlers EXCEPT ![h].pc = "done", ![h].failed = "backup"]
  <2>1. Becomes(h, "done", handlers[h].next, handlers[h].got, "backup")
    BY <1>2 DEF RunnerTyped, Becomes, Hands, HandlerPoints
  <2>2. Owned'
    BY <1>2, <2>1 DEF Owned, Busy, Late, Phase, Swapping, Failures, Unfailed, BackupCurrent
  <2>3. Dispatched'
    BY <1>2, <2>1 DEF Dispatched, Unreset, Late, Early, BackupCurrent
  <2>4. Heard'
    BY <1>2, <2>1 DEF Heard, Dispatched, Unreset, Late, Early, BackupCurrent, history, files
  <2>5. Answers'
    BY <1>2, <2>1 DEF Answers, BackupCurrent, history, files
  <2>6. Judging'
    BY <1>2, <2>1 DEF Judging, Early, BackupCurrent
  <2>7. LiveFile'
    BY <1>2, <2>1, <1>0
       DEF LiveFile, Swapped, Swapping, Busy, Late, RunnerTyped, BackupCurrent, history, files
  <2>8. Copies'
    BY <1>2, <2>1 DEF Copies, BackupCurrent, history, files
  <2> QED
    BY <2>2, <2>3, <2>4, <2>5, <2>6, <2>7, <2>8
<1> QED
  BY <1>1, <1>2 DEF BackupCurrent

LEMMA SelectKeeps ==
  ASSUME RunnerTyped, Failures, OwnFailures, NEW h \in Handlers, Select(h), UNCHANGED mon,
         ~foreign'
  PROVE  OwnFailures'
<1> USE DEF At, Becomes, OwnFailures
<1>0. /\ At(h, "select")
      /\ UNCHANGED <<current, previous, detected, loginDone, live, vault, window,
                     exposed, echo, stray>>
  BY DEF Select, files, history
<1>1. CASE /\ UNCHANGED state
           /\ \E p \in Profiles \ (cooling \cup {current}) :
                handlers' = [handlers EXCEPT ![h].pc = "cooldown", ![h].next = p]
  <2>1. PICK p \in Profiles \ (cooling \cup {current}) :
             handlers' = [handlers EXCEPT ![h].pc = "cooldown", ![h].next = p]
    BY <1>1
  <2>2. Becomes(h, "cooldown", p, handlers[h].got, handlers[h].failed)
    BY <2>1 DEF RunnerTyped, Becomes, Hands, HandlerPoints
  <2>3. Owned'
    BY <1>1, <2>2, <1>0 DEF Owned, Busy, Late, Phase, Swapping, Failures, Unfailed
  <2>4. Dispatched'
    BY <1>1, <2>2, <1>0 DEF Dispatched, Unreset, Late, Early
  <2>5. Heard'
    BY <1>1, <2>2, <1>0 DEF Heard, Unreset, Late, Early
  <2>6. Answers'
    BY <1>1, <2>2, <1>0 DEF Answers
  <2>7. Judging'
    BY <1>1, <2>2 DEF Judging, Early, Select
  <2>8. LiveFile'
    BY <1>1, <2>2, <1>0, <2>1 DEF LiveFile, Swapped, Late
  <2>9. Copies'
    BY <1>1, <2>2 DEF Copies, Select, history, files
  <2> QED
    BY <2>3, <2>4, <2>5, <2>6, <2>7, <2>8, <2>9
<1>2. CASE Fail(h)
  <2>1. Becomes(h, "deferred", handlers[h].next, handlers[h].got, "later")
    BY <1>2, FailMoves DEF Select, RunnerTyped
  <2>2. Owned'
    BY <1>2, <2>1 DEF Owned, Busy, Late, Phase, Swapping, Failures, Unfailed, Select, Fail
  <2>3. Dispatched'
    BY <1>2, <2>1 DEF Dispatched, Unreset, Late, Early, Select
  <2>4. Heard'
    BY <1>2, <2>1 DEF Heard, Dispatched, Unreset, Late, Early, Select, history, files
  <2>5. Answers'
    BY <1>2, <2>1 DEF Answers, Select, history, files
  <2>6. Judging'
    BY <1>2, <2>1 DEF Judging, Early, Select
  <2>7. LiveFile'
    BY <1>2, <2>1 DEF LiveFile, Swapped, Late, Select, history, files
  <2>8. Copies'
    BY <1>2, <2>1 DEF Copies, Select, history, files
  <2> QED
    BY <2>2, <2>3, <2>4, <2>5, <2>6, <2>7, <2>8
<1> QED
  BY <1>1, <1>2 DEF Select

LEMMA SetCooldownKeeps ==
  ASSUME RunnerTyped, Failures, OwnFailures, NEW h \in Handlers, SetCooldown(h), UNCHANGED mon,
         ~foreign'
  PROVE  OwnFailures'
<1> USE DEF At, Becomes, OwnFailures
<1>1. Becomes(h, "resnap", handlers[h].next, handlers[h].got, handlers[h].failed)
  BY GoMoves DEF SetCooldown, RunnerTyped, HandlerPoints
<1>2. Owned'
  BY <1>1 DEF Owned, Busy, Late, Phase, Swapping, Failures, Unfailed, SetCooldown
<1>3. Dispatched'
  BY <1>1 DEF Dispatched, Unreset, Late, Early, SetCooldown
<1>4. Heard'
  BY <1>1 DEF Heard, Dispatched, Unreset, Late, Early, SetCooldown, history, files
<1>5. Answers'
  BY <1>1 DEF Answers, SetCooldown, history, files
<1>6. Judging'
  BY <1>1 DEF Judging, Early, SetCooldown
<1>7. LiveFile'
  BY <1>1 DEF LiveFile, Swapped, Late, SetCooldown, history, files
<1>8. Copies'
  BY <1>1 DEF Copies, SetCooldown, history, files
<1> QED
  BY <1>2, <1>3, <1>4, <1>5, <1>6, <1>7, <1>8

LEMMA ResnapshotKeeps ==
  ASSUME RunnerTyped, Failures, OwnFailures, NEW h \in Handlers, Resnapshot(h), UNCHANGED mon,
         ~foreign'
  PROVE  OwnFailures'
<1> USE DEF At, Becomes, OwnFailures
<1>0. /\ \A g \in Handlers : g # h => ~Busy(g) /\ ~Swapped(g)
      /\ ~stray => live.p = current
  <2>1. Busy(h) /\ ~Swapped(h)
    BY DEF Resnapshot, Busy, Swapping, Swapped, Late
  <2>2. \A g \in Handlers : g # h => ~Busy(g) /\ ~Swapped(g)
    BY <2>1, Alone DEF OwnFailures
  <2> QED
    BY <2>1, <2>2 DEF OwnFailures, LiveFile
<1>1. Becomes(h, "restore", handlers[h].next, handlers[h].got, handlers[h].failed)
  BY GoMoves DEF Resnapshot, RunnerTyped, HandlerPoints
<1>2. Owned'
  BY <1>1 DEF Owned, Busy, Late, Phase, Swapping, Failures, Unfailed, Resnapshot
<1>3. Dispatched'
  BY <1>1 DEF Dispatched, Unreset, Late, Early, Resnapshot
<1>4. Heard'
  BY <1>1 DEF Heard, Dispatched, Unreset, Late, Early, Resnapshot, history, files
<1>5. Answers'
  BY <1>1 DEF Answers, Resnapshot, history, files
<1>6. Judging'
  BY <1>1 DEF Judging, Early, Resnapshot
<1>7. LiveFile'
  BY <1>1, <1>0
     DEF LiveFile, Swapped, Swapping, Busy, Late, RunnerTyped, Resnapshot, history, files
<1>8. Copies'
  BY <1>1, <1>0 DEF Copies, RunnerTyped, Resnapshot, history, files
<1> QED
  BY <1>2, <1>3, <1>4, <1>5, <1>6, <1>7, <1>8

LEMMA RestoreNextKeeps ==
  ASSUME RunnerTyped, Failures, OwnFailures, NEW h \in Handlers, RestoreNext(h), UNCHANGED mon,
         ~foreign'
  PROVE  OwnFailures'
<1> USE DEF At, Becomes, OwnFailures
<1>0. \A g \in Handlers : g # h => ~Busy(g) /\ ~Swapped(g)
  <2>1. Busy(h)
    BY DEF RestoreNext, Busy, Swapping
  <2> QED
    BY <2>1, Alone DEF OwnFailures
<1>1. CASE live' = Restored(handlers[h].next) /\ Go(h, "drain") /\ UNCHANGED state
  <2>1. Becomes(h, "drain", handlers[h].next, handlers[h].got, handlers[h].failed)
    BY <1>1, GoMoves DEF RestoreNext, RunnerTyped, HandlerPoints
  <2>2. Owned'
    BY <1>1, <2>1 DEF Owned, Busy, Late, Phase, Swapping, Failures, Unfailed, RestoreNext
  <2>3. Dispatched'
    BY <1>1, <2>1 DEF Dispatched, Unreset, Late, Early, RestoreNext
  <2>4. Heard'
    BY <1>1, <2>1 DEF Heard, Dispatched, Unreset, Late, Early, RestoreNext, history, files
  <2>5. Answers'
    BY <1>1, <2>1 DEF Answers, RestoreNext, history, files
  <2>6. Judging'
    BY <1>1, <2>1 DEF Judging, Early, RestoreNext
  <2>7. LiveFile'
    BY <1>1, <2>1, <1>0
       DEF LiveFile, Swapped, Swapping, Busy, Late, RunnerTyped, Copies, Restored, Hands,
           RestoreNext, history, files
  <2>8. Copies'
    BY <1>1, <2>1, <1>0
       DEF LiveFile, Copies, Restored, RunnerTyped, Hands, RestoreNext, history, files
  <2> QED
    BY <2>2, <2>3, <2>4, <2>5, <2>6, <2>7, <2>8
<1>2. CASE Fail(h) /\ UNCHANGED live
  <2>1. Becomes(h, "deferred", handlers[h].next, handlers[h].got, "later")
    BY <1>2, FailMoves DEF RestoreNext, RunnerTyped
  <2>2. Owned'
    BY <1>2, <2>1 DEF Owned, Busy, Late, Phase, Swapping, Failures, Unfailed, RestoreNext, Fail
  <2>3. Dispatched'
    BY <1>2, <2>1 DEF Dispatched, Unreset, Late, Early, RestoreNext
  <2>4. Heard'
    BY <1>2, <2>1 DEF Heard, Dispatched, Unreset, Late, Early, RestoreNext, history, files
  <2>5. Answers'
    BY <1>2, <2>1 DEF Answers, RestoreNext, history, files
  <2>6. Judging'
    BY <1>2, <2>1 DEF Judging, Early, RestoreNext
  <2>7. LiveFile'
    BY <1>2, <2>1, <1>0 DEF LiveFile, Swapped, Swapping, Busy, Late, RestoreNext, history, files
  <2>8. Copies'
    BY <1>2, <2>1 DEF Copies, RestoreNext, history, files
  <2> QED
    BY <2>2, <2>3, <2>4, <2>5, <2>6, <2>7, <2>8
<1> QED
  BY <1>1, <1>2 DEF RestoreNext

LEMMA DrainLoginDoneKeeps ==
  ASSUME RunnerTyped, Failures, OwnFailures, NEW h \in Handlers, DrainLoginDone(h), UNCHANGED mon,
         ~foreign'
  PROVE  OwnFailures'
<1> USE DEF At, Becomes, OwnFailures
<1>0. \A g \in Handlers : g # h => ~Busy(g) /\ ~Swapped(g)
  <2>1. Busy(h)
    BY DEF DrainLoginDone, Busy, Swapping
  <2> QED
    BY <2>1, Alone DEF OwnFailures
<1>1. Becomes(h, "trigger", handlers[h].next, handlers[h].got, handlers[h].failed)
  BY GoMoves DEF DrainLoginDone, RunnerTyped, HandlerPoints
<1>2. Owned'
  BY <1>1 DEF Owned, Busy, Late, Phase, Swapping, Failures, Unfailed, DrainLoginDone
<1>3. Dispatched'
  BY <1>1 DEF Dispatched, Unreset, Late, Early, DrainLoginDone
<1>4. Heard'
  BY <1>1 DEF Heard, Dispatched, Unreset, Late, Early, DrainLoginDone, history, files
<1>5. Answers'
  BY <1>1, <1>0 DEF Answers, Busy, Swapping, DrainLoginDone, history, files
<1>6. Judging'
  BY <1>1 DEF Judging, Early, DrainLoginDone
<1>7. LiveFile'
  BY <1>1 DEF LiveFile, Swapped, Late, DrainLoginDone, history, files
<1>8. Copies'
  BY <1>1 DEF Copies, DrainLoginDone, history, files
<1> QED
  BY <1>2, <1>3, <1>4, <1>5, <1>6, <1>7, <1>8

LEMMA TriggerLoginKeeps ==
  ASSUME RunnerTyped, Failures, OwnFailures, NEW h \in Handlers, TriggerLogin(h), UNCHANGED mon,
         ~foreign'
  PROVE  OwnFailures'
<1> USE DEF At, Becomes, OwnFailures
<1>1. CASE Go(h, "wait") /\ UNCHANGED state
  <2>1. Becomes(h, "wait", handlers[h].next, handlers[h].got, handlers[h].failed)
    BY <1>1, GoMoves DEF TriggerLogin, RunnerTyped, HandlerPoints
  <2>2. Owned'
    BY <1>1, <2>1 DEF Owned, Busy, Late, Phase, Swapping, Failures, Unfailed, TriggerLogin
  <2>3. Dispatched'
    BY <1>1, <2>1 DEF Dispatched, Unreset, Late, Early, TriggerLogin
  <2>4. Heard'
    BY <1>1, <2>1 DEF Heard, Dispatched, Unreset, Late, Early, TriggerLogin, history, files
  <2>5. Answers'
    BY <1>1, <2>1 DEF Answers, TriggerLogin, history, files
  <2>6. Judging'
    BY <1>1, <2>1 DEF Judging, Early, TriggerLogin
  <2>7. LiveFile'
    BY <1>1, <2>1 DEF LiveFile, Swapped, Late, TriggerLogin, history, files
  <2>8. Copies'
    BY <1>1, <2>1 DEF Copies, TriggerLogin, history, files
  <2> QED
    BY <2>2, <2>3, <2>4, <2>5, <2>6, <2>7, <2>8
<1>2. CASE Fail(h)
  <2>1. Becomes(h, "deferred", handlers[h].next, handlers[h].got, "later")
    BY <1>2, FailMoves DEF TriggerLogin, RunnerTyped
  <2>2. Owned'
    BY <1>2, <2>1 DEF Owned, Busy, Late, Phase, Swapping, Failures, Unfailed, TriggerLogin, Fail
  <2>3. Dispatched'
    BY <1>2, <2>1 DEF Dispatched, Unreset, Late, Early, TriggerLogin
  <2>4. Heard'
    BY <1>2, <2>1 DEF Heard, Dispatched, Unreset, Late, Early, TriggerLogin, history, files
  <2>5. Answers'
    BY <1>2, <2>1 DEF Answers, TriggerLogin, history, files
  <2>6. Judging'
    BY <1>2, <2>1 DEF Judging, Early, TriggerLogin
  <2>7. LiveFile'
    BY <1>2, <2>1 DEF LiveFile, Swapped, Late, TriggerLogin, history, files
  <2>8. Copies'
    BY <1>2, <2>1 DEF Copies, TriggerLogin, history, files
  <2> QED
    BY <2>2, <2>3, <2>4, <2>5, <2>6, <2>7, <2>8
<1> QED
  BY <1>1, <1>2 DEF TriggerLogin

LEMMA AnsweredKeeps ==
  ASSUME RunnerTyped, Failures, OwnFailures, NEW h \in Handlers, Answered(h), UNCHANGED mon,
         ~foreign'
  PROVE  OwnFailures'
<1> USE DEF At, Becomes, OwnFailures
<1>1. CASE /\ loginDone.ok /\ state' = "LoginComplete"
           /\ handlers' = [handlers EXCEPT ![h].pc = "switch", ![h].got = loginDone.of]
  <2>1. Becomes(h, "switch", handlers[h].next, loginDone.of, handlers[h].failed)
    <3>1. loginDone.of \in Handlers \cup {0}
      BY DEF RunnerTyped, Results
    <3> QED
      BY <1>1, <3>1, ZenonT(30) DEF RunnerTyped, Hands, HandlerPoints
  <2>2. Owned'
    BY <1>1, <2>1 DEF Owned, Busy, Late, Phase, Swapping, Failures, Unfailed, Answered
  <2>3. Dispatched'
    BY <1>1, <2>1 DEF Dispatched, Unreset, Late, Early, Answered
  <2>4. Heard'
    BY <1>1, <2>1 DEF Heard, Dispatched, Unreset, Late, Early, Answered, history, files
  <2>5. Answers'
    BY <1>1, <2>1 DEF Answers, Answered, history, files
  <2>6. Judging'
    BY <1>1, <2>1 DEF Judging, Early, Answered
  <2>7. LiveFile'
    BY <1>1, <2>1 DEF LiveFile, Swapped, Late, Answered, history, files
  <2>8. Copies'
    BY <1>1, <2>1 DEF Copies, Answered, history, files
  <2> QED
    BY <2>2, <2>3, <2>4, <2>5, <2>6, <2>7, <2>8
<1>2. CASE ~loginDone.ok /\ Fail(h)
  <2>1. Becomes(h, "deferred", handlers[h].next, handlers[h].got, "later")
    BY <1>2, FailMoves DEF Answered, RunnerTyped
  <2>2. Owned'
    BY <1>2, <2>1 DEF Owned, Busy, Late, Phase, Swapping, Failures, Unfailed, Answered, Fail
  <2>3. Dispatched'
    BY <1>2, <2>1 DEF Dispatched, Unreset, Late, Early, Answered
  <2>4. Heard'
    BY <1>2, <2>1 DEF Heard, Dispatched, Unreset, Late, Early, Answered, history, files
  <2>5. Answers'
    BY <1>2, <2>1 DEF Answers, Answered, history, files
  <2>6. Judging'
    BY <1>2, <2>1 DEF Judging, Early, Answered
  <2>7. LiveFile'
    BY <1>2, <2>1 DEF LiveFile, Swapped, Late, Answered, history, files
  <2>8. Copies'
    BY <1>2, <2>1 DEF Copies, Answered, history, files
  <2> QED
    BY <2>2, <2>3, <2>4, <2>5, <2>6, <2>7, <2>8
<1> QED
  BY <1>1, <1>2 DEF Answered

LEMMA GivesUpKeeps ==
  ASSUME RunnerTyped, Failures, OwnFailures, NEW h \in Handlers, GivesUp(h), UNCHANGED mon,
         ~foreign'
  PROVE  OwnFailures'
<1> USE DEF At, Becomes, OwnFailures
<1>1. Becomes(h, "deferred", handlers[h].next, handlers[h].got, "later")
  BY FailMoves DEF GivesUp, RunnerTyped
<1>2. Owned'
  BY <1>1 DEF Owned, Busy, Late, Phase, Swapping, Failures, Unfailed, GivesUp, Fail
<1>3. Dispatched'
  BY <1>1 DEF Dispatched, Unreset, Late, Early, GivesUp
<1>4. Heard'
  BY <1>1 DEF Heard, Dispatched, Unreset, Late, Early, GivesUp, history, files
<1>5. Answers'
  BY <1>1 DEF Answers, GivesUp, history, files
<1>6. Judging'
  BY <1>1 DEF Judging, Early, GivesUp
<1>7. LiveFile'
  BY <1>1 DEF LiveFile, Swapped, Late, GivesUp, history, files
<1>8. Copies'
  BY <1>1 DEF Copies, GivesUp, history, files
<1> QED
  BY <1>2, <1>3, <1>4, <1>5, <1>6, <1>7, <1>8

LEMMA SwitchProfileKeeps ==
  ASSUME RunnerTyped, Failures, OwnFailures, NEW h \in Handlers, SwitchProfile(h), UNCHANGED mon,
         ~foreign'
  PROVE  OwnFailures'
<1> USE DEF At, Becomes, OwnFailures
<1>0. \A g \in Handlers : g # h => ~Busy(g) /\ ~Swapped(g)
  <2>1. Busy(h)
    BY DEF SwitchProfile, Busy, Swapping
  <2> QED
    BY <2>1, Alone DEF OwnFailures
<1>1. Becomes(h, "run", handlers[h].next, handlers[h].got, handlers[h].failed)
  BY GoMoves DEF SwitchProfile, RunnerTyped, HandlerPoints
<1>2. Owned'
  BY <1>1 DEF Owned, Busy, Late, Phase, Swapping, Failures, Unfailed, SwitchProfile
<1>3. Dispatched'
  BY <1>1 DEF Dispatched, Unreset, Late, Early, SwitchProfile
<1>4. Heard'
  BY <1>1 DEF Heard, Dispatched, Unreset, Late, Early, SwitchProfile, history, files
<1>5. Answers'
  BY <1>1 DEF Answers, SwitchProfile, history, files
<1>6. Judging'
  BY <1>1 DEF Judging, Early, SwitchProfile
<1>7. LiveFile'
  BY <1>1, <1>0
     DEF LiveFile, Swapped, Swapping, Busy, Late, RunnerTyped, SwitchProfile, history, files
<1>8. Copies'
  BY <1>1 DEF Copies, SwitchProfile, history, files
<1> QED
  BY <1>2, <1>3, <1>4, <1>5, <1>6, <1>7, <1>8

LEMMA RunAgainKeeps ==
  ASSUME RunnerTyped, Failures, OwnFailures, NEW h \in Handlers, RunAgain(h), UNCHANGED mon,
         ~foreign'
  PROVE  OwnFailures'
<1> USE DEF At, Becomes, OwnFailures
<1>1. Becomes(h, "deferred", handlers[h].next, handlers[h].got, handlers[h].failed)
  BY GoMoves DEF RunAgain, RunnerTyped, HandlerPoints
<1>2. Owned'
  BY <1>1 DEF Owned, Busy, Late, Phase, Swapping, Failures, Unfailed, RunAgain
<1>3. Dispatched'
  BY <1>1 DEF Dispatched, Unreset, Late, Early, Failures, Unfailed, RunAgain
<1>4. Heard'
  BY <1>1 DEF Heard, Dispatched, Unreset, Late, Early, RunAgain, history, files
<1>5. Answers'
  BY <1>1 DEF Answers, RunAgain, history, files
<1>6. Judging'
  BY <1>1 DEF Judging, Early, RunAgain
<1>7. LiveFile'
  BY <1>1 DEF LiveFile, Swapped, Late, RunAgain, history, files
<1>8. Copies'
  BY <1>1 DEF Copies, RunAgain, history, files
<1> QED
  BY <1>2, <1>3, <1>4, <1>5, <1>6, <1>7, <1>8

LEMMA DeferredKeeps ==
  ASSUME RunnerTyped, Failures, OwnFailures, NEW h \in Handlers, Deferred(h), UNCHANGED mon,
         ~foreign'
  PROVE  OwnFailures'
<1> USE DEF At, Becomes, OwnFailures
<1>0. /\ At(h, "deferred") /\ (state = "HandoffFailed" <=> handlers[h].failed = "later")
      /\ UNCHANGED <<state, current, previous, detected, live, vault, exposed, echo, stray>>
  BY DEF OwnFailures, Owned, Busy, Late, Phase, Failures, Deferred, files
<1>1. CASE /\ state = "HandoffFailed" /\ handlers[h].failed # "no"
           /\ handlers' = [handlers EXCEPT ![h].pc = "rollback"]
  <2>1. Becomes(h, "rollback", handlers[h].next, handlers[h].got, handlers[h].failed)
    BY <1>1 DEF RunnerTyped, Becomes, Hands, HandlerPoints
  <2>2. Owned'
    <3>1. \A g \in Handlers : g # h => (Busy(g)' <=> Busy(g)) /\ Phase(g)' = Phase(g)
      BY <2>1 DEF Busy, Late, Phase, Swapping, Becomes
    <3>2. Busy(h) /\ Busy(h)'
      BY <1>1, <2>1, <1>0 DEF Busy, Late, Swapping, Becomes
    <3>3. \A g \in Handlers : handlers'[g].failed = handlers[g].failed
      BY <2>1 DEF Becomes
    <3>4. Phase(h)' = "HandoffFailed"
      BY <2>1 DEF Phase, Becomes
    <3> QED
      BY <1>1, <1>0, <3>1, <3>2, <3>3, <3>4 DEF OwnFailures, Owned
  <2>3. Dispatched'
    <3>1. \A g \in Handlers : Unreset(g)' => Unreset(g)
      BY <1>0, <1>1, <2>1 DEF Unreset, Late, Early
    <3> QED
      BY <1>0, <3>1 DEF Dispatched
  <2>4. Heard'
    <3>1. \A g \in Handlers : handlers'[g].failed = handlers[g].failed
      BY <2>1
    <3>2. \A g \in Handlers : Unreset(g)' <=> Unreset(g)
      BY <1>0, <1>1, <2>1 DEF Unreset, Late, Early
    <3> QED
      BY <1>0, <3>1, <3>2 DEF Heard
  <2>5. Answers'
    BY <1>1, <2>1 DEF Answers, Deferred, history, files
  <2>6. Judging'
    BY <1>1, <2>1 DEF Judging, Early, Deferred
  <2>7. LiveFile'
    <3>1. \A g \in Handlers : Swapped(g)' <=> Swapped(g)
      BY <1>0, <1>1, <2>1 DEF Swapped, Late
    <3> QED
      BY <1>0, <2>1, <3>1 DEF LiveFile
  <2>8. Copies'
    BY <1>1, <2>1 DEF Copies, Deferred, history, files
  <2> QED
    BY <2>2, <2>3, <2>4, <2>5, <2>6, <2>7, <2>8
<1>2. CASE state # "HandoffFailed" /\ handlers' = [handlers EXCEPT ![h].pc = "done"]
  <2>1. Becomes(h, "done", handlers[h].next, handlers[h].got, handlers[h].failed)
    BY <1>2 DEF RunnerTyped, Becomes, Hands, HandlerPoints
  <2>2. Owned'
    <3>1. \A g \in Handlers : g # h => (Busy(g)' <=> Busy(g)) /\ Phase(g)' = Phase(g)
      BY <2>1 DEF Busy, Late, Phase, Swapping, Becomes
    <3>2. ~Busy(h) /\ ~Busy(h)'
      BY <1>2, <2>1, <1>0 DEF Busy, Late, Swapping, Becomes
    <3>3. \A g \in Handlers : handlers'[g].failed = handlers[g].failed
      BY <2>1 DEF Becomes
    <3> QED
      BY <1>2, <1>0, <3>1, <3>2, <3>3 DEF OwnFailures, Owned
  <2>3. Dispatched'
    <3>1. \A g \in Handlers : Unreset(g)' => Unreset(g)
      BY <1>0, <1>2, <2>1 DEF Unreset, Late, Early
    <3> QED
      BY <1>0, <3>1 DEF Dispatched
  <2>4. Heard'
    <3>1. \A g \in Handlers : handlers'[g].failed = handlers[g].failed
      BY <2>1
    <3>2. \A g \in Handlers : Unreset(g)' <=> Unreset(g)
      BY <1>0, <1>2, <2>1 DEF Unreset, Late, Early
    <3> QED
      BY <1>0, <3>1, <3>2 DEF Heard
  <2>5. Answers'
    BY <1>2, <2>1 DEF Answers, Deferred, history, files
  <2>6. Judging'
    BY <1>2, <2>1 DEF Judging, Early, Deferred
  <2>7. LiveFile'
    <3>1. \A g \in Handlers : Swapped(g)' <=> Swapped(g)
      BY <1>0, <1>2, <2>1 DEF Swapped, Late
    <3> QED
      BY <1>0, <2>1, <3>1 DEF LiveFile
  <2>8. Copies'
    BY <1>2, <2>1 DEF Copies, Deferred, history, files
  <2> QED
    BY <2>2, <2>3, <2>4, <2>5, <2>6, <2>7, <2>8
<1> QED
  BY <1>1, <1>2, <1>0 DEF Deferred

LEMMA RollbackKeeps ==
  ASSUME RunnerTyped, Failures, OwnFailures, NEW h \in Handlers, Rollback(h), UNCHANGED mon,
         ~foreign'
  PROVE  OwnFailures'
<1> USE DEF At, Becomes, OwnFailures
<1>0. \A g \in Handlers : g # h => ~Busy(g) /\ ~Swapped(g)
  <2>1. Busy(h)
    BY DEF Rollback, Busy, Swapping
  <2> QED
    BY <2>1, Alone DEF OwnFailures
<1>1. Becomes(h, "revert", handlers[h].next, handlers[h].got, handlers[h].failed)
  BY GoMoves DEF Rollback, RunnerTyped, HandlerPoints
<1>2. Owned'
  BY <1>1 DEF Owned, Busy, Late, Phase, Swapping, Failures, Unfailed, Rollback
<1>3. Dispatched'
  BY <1>1 DEF Dispatched, Unreset, Late, Early, Rollback
<1>4. Heard'
  BY <1>1 DEF Heard, Dispatched, Unreset, Late, Early, Rollback, history, files
<1>5. Answers'
  BY <1>1 DEF Answers, Rollback, history, files
<1>6. Judging'
  BY <1>1 DEF Judging, Early, Rollback
<1>7. LiveFile'
  <2>1. ASSUME ~stray' PROVE ~stray /\ live'.p = previous
    <3>1. CASE live' = Restored(previous) /\ UNCHANGED stray
      BY <2>1, <3>1 DEF Restored, RunnerTyped, Copies
    <3>2. CASE stray' = (stray \/ live.p # previous) /\ UNCHANGED live
      BY <2>1, <3>2
    <3> QED
      BY <3>1, <3>2 DEF Rollback
  <2> QED
    BY <1>1, <1>0, <2>1 DEF LiveFile, Swapped, Swapping, Busy, Late, Rollback
<1>8. Copies'
  BY <1>1 DEF Copies, Restored, RunnerTyped, Tokens, Rollback, history, files
<1> QED
  BY <1>2, <1>3, <1>4, <1>5, <1>6, <1>7, <1>8

LEMMA RevertKeeps ==
  ASSUME RunnerTyped, Failures, OwnFailures, NEW h \in Handlers, Revert(h), UNCHANGED mon,
         ~foreign'
  PROVE  OwnFailures'
<1> USE DEF At, Becomes, OwnFailures
<1>0. \A g \in Handlers : g # h => ~Busy(g) /\ ~Swapped(g)
  <2>1. Busy(h)
    BY DEF Revert, Busy, Swapping
  <2> QED
    BY <2>1, Alone DEF OwnFailures
<1>1. Becomes(h, "rerun", handlers[h].next, handlers[h].got, handlers[h].failed)
  BY GoMoves DEF Revert, RunnerTyped, HandlerPoints
<1>2. Owned'
  BY <1>1 DEF Owned, Busy, Late, Phase, Swapping, Failures, Unfailed, Revert
<1>3. Dispatched'
  BY <1>1 DEF Dispatched, Unreset, Late, Early, Revert
<1>4. Heard'
  BY <1>1 DEF Heard, Dispatched, Unreset, Late, Early, Revert, history, files
<1>5. Answers'
  BY <1>1 DEF Answers, Revert, history, files
<1>6. Judging'
  BY <1>1 DEF Judging, Early, Revert
<1>7. LiveFile'
  BY <1>1, <1>0 DEF LiveFile, Swapped, Swapping, Busy, Late, RunnerTyped, Revert, history, files
<1>8. Copies'
  BY <1>1 DEF Copies, Revert, history, files
<1> QED
  BY <1>2, <1>3, <1>4, <1>5, <1>6, <1>7, <1>8

LEMMA RerunKeeps ==
  ASSUME RunnerTyped, Failures, OwnFailures, NEW h \in Handlers, Rerun(h), UNCHANGED mon,
         ~foreign'
  PROVE  OwnFailures'
<1> USE DEF At, Becomes, OwnFailures
<1>1. Becomes(h, "done", handlers[h].next, handlers[h].got, handlers[h].failed)
  BY GoMoves DEF Rerun, RunnerTyped, HandlerPoints
<1>2. Owned'
  BY <1>1 DEF Owned, Busy, Late, Phase, Swapping, Failures, Unfailed, Rerun
<1>3. Dispatched'
  BY <1>1 DEF Dispatched, Unreset, Late, Early, Rerun
<1>4. Heard'
  BY <1>1 DEF Heard, Dispatched, Unreset, Late, Early, Rerun, history, files
<1>5. Answers'
  BY <1>1 DEF Answers, Rerun, history, files
<1>6. Judging'
  BY <1>1 DEF Judging, Early, Rerun
<1>7. LiveFile'
  BY <1>1 DEF LiveFile, Swapped, Late, Rerun, history, files
<1>8. Copies'
  BY <1>1 DEF Copies, Rerun, history, files
<1> QED
  BY <1>2, <1>3, <1>4, <1>5, <1>6, <1>7, <1>8

LEMMA HandlerKeeps ==
  ASSUME RunnerTyped, Failures, OwnFailures, NEW h \in Handlers, HandleRateLimit(h), ~foreign'
  PROVE  OwnFailures'
BY EnterKeeps, BackupCurrentKeeps, SelectKeeps, SetCooldownKeeps, ResnapshotKeeps,
   RestoreNextKeeps, DrainLoginDoneKeeps, TriggerLoginKeeps, AnsweredKeeps, GivesUpKeeps,
   SwitchProfileKeeps, RunAgainKeeps, DeferredKeeps, RollbackKeeps, RevertKeeps, RerunKeeps
   DEF HandleRateLimit

LEMMA HandlerInv ==
  ASSUME IInv, NEW h \in Handlers, HandleRateLimit(h)
  PROVE  IInv'
<1>1. RunnerTyped' /\ Failures'
  BY HandlerTyped, HandlerFailures DEF IInv, Typed, RunnerTyped
<1>2. UNCHANGED <<mon, main>>
  BY DEF HandleRateLimit
<1>3. foreign => foreign'
  BY DEF HandleRateLimit, history, Enter, BackupCurrent, Select, SetCooldown, Resnapshot,
         RestoreNext, DrainLoginDone, TriggerLogin, Answered, GivesUp, SwitchProfile,
         RunAgain, Deferred, Rollback, Revert, Rerun
<1>4. ~foreign' => OwnFailures'
  BY <1>3, HandlerKeeps DEF IInv, Typed
<1>5. handlers[h].pc \notin {"unused", "done"}
  BY DEF HandleRateLimit, At, Enter, BackupCurrent, Select, SetCooldown, Resnapshot,
         RestoreNext, DrainLoginDone, TriggerLogin, Answered, GivesUp, SwitchProfile,
         RunAgain, Deferred, Rollback, Revert, Rerun
<1>6. Ends'
  BY <1>2, <1>5 DEF IInv, Ends, Active
<1> QED
  BY <1>1, <1>2, <1>4, <1>6 DEF IInv, Typed, MonitorTyped

-----------------------------------------------------------------------------
(* The monitor.                                                            *)

LEMMA BetweenTyped ==
  ASSUME NEW m \in Monitors
  PROVE  /\ Between(m) \in Monitors
         /\ Between(m).pc = "read" /\ Between(m).buffer = m.buffer
         /\ Between(m).dispatched = m.dispatched /\ Between(m).out = NoOutput
<1>1. NoOutput \in [lines : Seq(Lines), open : BOOLEAN]
  BY DEF NoOutput
<1> QED
  BY <1>1 DEF Between, Monitors

LEMMA AfterLineTyped ==
  ASSUME NEW m \in Monitors, m.pc = "lines"
  PROVE  /\ AfterLine(m) \in Monitors
         /\ AfterLine(m).pc \in {"lines", "closed", "read"}
         /\ AfterLine(m).buffer = m.buffer /\ AfterLine(m).dispatched = m.dispatched
         /\ AfterLine(m).out \in {m.out, NoOutput}
<1>1. CASE m.todo # <<>>
  BY <1>1 DEF AfterLine, Monitors
<1>2. CASE m.todo = <<>> /\ m.flushed
  BY <1>2 DEF AfterLine, Monitors
<1>3. CASE m.todo = <<>> /\ ~m.flushed
  BY <1>3, BetweenTyped DEF AfterLine
<1> QED
  BY <1>1, <1>2, <1>3

LEMMA SumOfLengths ==
  ASSUME NEW a \in Nat, NEW b \in Nat
  PROVE  a + b \in Nat /\ (b # 0 => a + b > 0)
OBVIOUS

LEMMA CutLength ==
  ASSUME NEW k \in Nat, NEW n \in 0 .. k
  PROVE  (IF n + 1 <= k THEN k - (n + 1) + 1 ELSE 0) = k - n
OBVIOUS

\* A sequence cut in two.
LEMMA Cut ==
  ASSUME NEW S, NEW q \in Seq(S), NEW n \in 0 .. Len(q)
  PROVE  /\ SubSeq(q, 1, n) \in Seq(S) /\ SubSeq(q, n + 1, Len(q)) \in Seq(S)
         /\ Len(SubSeq(q, n + 1, Len(q))) = Len(q) - n
<1>1. q \in [1 .. Len(q) -> S] /\ Len(q) \in Nat
  BY LenProperties
<1>2. \A i \in 1 .. n : q[i] \in S
  BY <1>1
<1>3. \A i \in n + 1 .. Len(q) : q[i] \in S
  BY <1>1
<1>4. SubSeq(q, 1, n) \in Seq(S)
  BY <1>2, SubSeqProperties
<1>5. /\ SubSeq(q, n + 1, Len(q)) \in Seq(S)
      /\ Len(SubSeq(q, n + 1, Len(q))) =
           IF n + 1 <= Len(q) THEN Len(q) - (n + 1) + 1 ELSE 0
  BY <1>1, <1>3, SubSeqProperties
<1>6. Len(SubSeq(q, n + 1, Len(q))) = Len(q) - n
  BY <1>1, <1>5, CutLength, Zenon
<1> QED
  BY <1>4, <1>5, <1>6

\* What has no newline yet stays in the buffer, which so never holds more than a line.
LEMMA FeedTyped ==
  ASSUME NEW m \in Monitors, m.out.open => m.out.lines # <<>>
  PROVE  /\ Feed(m) \in Monitors
         /\ Feed(m).pc \in {"lines", "read"} /\ Len(Feed(m).buffer) <= 1
         /\ Feed(m).dispatched = m.dispatched /\ Feed(m).out = NoOutput
<1> DEFINE all == m.buffer \o m.out.lines
           k == Len(all)
           n == IF m.out.open THEN k - 1 ELSE k
           todo == SubSeq(all, 1, n)
           rest == SubSeq(all, n + 1, k)
           fed == [m EXCEPT !.pc = "lines", !.todo = todo, !.buffer = rest]
<1>1. m.buffer \in Seq(Lines) /\ m.out.lines \in Seq(Lines) /\ m.out.open \in BOOLEAN
  BY DEF Monitors
<1>2. all \in Seq(Lines) /\ k = Len(m.buffer) + Len(m.out.lines)
  BY <1>1, ConcatProperties
<1>3. Len(m.buffer) \in Nat /\ Len(m.out.lines) \in Nat
  BY <1>1, LenProperties
<1>4. m.out.open => Len(m.out.lines) # 0
  BY <1>1, EmptySeq
<1>5. k \in Nat /\ (m.out.open => k > 0)
  BY <1>2, <1>3, <1>4, SumOfLengths, Zenon
<1>6. n \in 0 .. k /\ k - n <= 1
  <2> HIDE DEF k
  <2>1. CASE m.out.open
    BY <1>5, <2>1
  <2>2. CASE ~m.out.open
    BY <1>5, <2>2
  <2> QED
    BY <2>1, <2>2
<1> HIDE DEF n, all
<1>7. todo \in Seq(Lines)
  BY <1>2, <1>6, Cut
<1>8. rest \in Seq(Lines) /\ Len(rest) <= 1
  BY <1>2, <1>6, Cut
<1> HIDE DEF todo, rest
<1>9. /\ fed \in Monitors /\ fed.buffer = rest /\ fed.pc = "lines"
      /\ fed.dispatched = m.dispatched
  BY <1>7, <1>8 DEF Monitors
<1>10. Feed(m) = IF n = 0 THEN Between(fed) ELSE [fed EXCEPT !.out = NoOutput]
  BY DEF Feed, all, k, n, todo, rest
<1> HIDE DEF fed
<1>11. NoOutput \in [lines : Seq(Lines), open : BOOLEAN]
  BY DEF NoOutput
<1>12. CASE n = 0
  BY <1>8, <1>9, <1>10, <1>12, BetweenTyped
<1>13. CASE n # 0
  BY <1>8, <1>9, <1>10, <1>11, <1>13 DEF Monitors
<1> QED
  BY <1>12, <1>13

\* A step of the monitor leaves the hand-offs to themselves.
LEMMA MonitorTypedStep ==
  ASSUME Typed, Monitor
  PROVE  Typed'
<1> USE DEF Typed, MonitorTyped
<1>1. CASE Read
  <2>1. PICK out \in Outputs :
          mon' = [mon EXCEPT !.pc = "judge", !.out = out, !.st = state,
                             !.win = IF state = "LoggingIn" THEN window ELSE 0]
    BY <1>1 DEF Read
  <2>2. /\ out \in [lines : Seq(Lines), open : BOOLEAN]
        /\ out.open => out.lines # <<>>
    BY ConstantsAssumption DEF Lines
  <2>3. mon' \in Monitors /\ mon'.out = out /\ mon'.buffer = mon.buffer
    BY <1>1, <2>1, <2>2 DEF Read, Monitors, RunnerTyped
  <2> QED
    BY <1>1, <2>2, <2>3 DEF Read, RunnerTyped, runner, files, history
<1>2. CASE Observe
  <2> DEFINE d == StillDispatched(mon.dispatched)
             m == [mon EXCEPT !.dispatched = d]
  <2>1. d \in BOOLEAN
    BY DEF StillDispatched, Monitors
  <2>2. m \in Monitors /\ m.out = mon.out /\ m.buffer = mon.buffer
    BY <2>1 DEF Monitors
  <2>3. mon' = IF d THEN Between(m) ELSE Feed(m)
    BY <1>2 DEF Observe
  <2> HIDE DEF m
  <2>4. mon' \in Monitors /\ Len(mon'.buffer) <= 1 /\ mon'.out = NoOutput
    BY <2>2, <2>3, BetweenTyped, FeedTyped
  <2> QED
    BY <1>2, <2>4 DEF Observe, RunnerTyped, runner, files, history, NoOutput
<1>3. CASE Judge
  <2>1. mon' \in Monitors /\ mon'.buffer = mon.buffer /\ mon'.out = NoOutput
    BY <1>3, BetweenTyped DEF Judge
  <2>2. Verdict(mon.out, mon.win) \in Results
    BY DEF Verdict, Results, NoResult, Monitors
  <2> QED
    BY <1>3, <2>1, <2>2 DEF Judge, RunnerTyped, files, history, NoOutput
<1>4. CASE Line
  <2> DEFINE hit == detected \/ Head(mon.todo) = "limit"
             m == [mon EXCEPT !.todo = Tail(@)]
  <2>1. Tail(mon.todo) \in Seq(Lines)
    BY <1>4, HeadTailProperties DEF Line, Monitors
  <2>2. /\ m \in Monitors /\ m.pc = "lines" /\ m.buffer = mon.buffer /\ m.out = mon.out
        /\ [m EXCEPT !.dispatched = TRUE] \in Monitors
        /\ [m EXCEPT !.dispatched = TRUE].pc = "lines"
        /\ [m EXCEPT !.dispatched = TRUE].buffer = mon.buffer
        /\ [m EXCEPT !.dispatched = TRUE].out = mon.out
    BY <1>4, <2>1 DEF Line, Monitors
  <2>3. \/ mon' = AfterLine([m EXCEPT !.dispatched = TRUE]) \/ mon' = AfterLine(m)
    BY <1>4 DEF Line
  <2> HIDE DEF m
  <2>4. mon' \in Monitors /\ mon'.buffer = mon.buffer /\ mon'.out \in {mon.out, NoOutput}
    BY <2>2, <2>3, AfterLineTyped
  <2>5. handlers' \in [Handlers -> Hands]
    BY <1>4, GoMoves DEF Line, RunnerTyped, HandlerPoints, Becomes
  <2>6. detected' \in BOOLEAN /\ echo' \in BOOLEAN
    BY <1>4 DEF Line, RunnerTyped, Monitors
  <2> QED
    BY <1>4, <2>4, <2>5, <2>6 DEF Line, RunnerTyped, files, NoOutput
<1>5. CASE Eof
  <2> DEFINE m == [mon EXCEPT !.pc = "lines", !.flushed = TRUE, !.todo = mon.buffer,
                              !.buffer = <<>>]
  <2>1. m \in Monitors /\ m.pc = "lines" /\ m.buffer = <<>> /\ m.out = mon.out
    BY EmptySeq DEF Monitors
  <2>2. mon' = AfterLine(m)
    BY <1>5 DEF Eof
  <2> HIDE DEF m
  <2>3. mon' \in Monitors /\ Len(mon'.buffer) = 0 /\ mon'.out \in {mon.out, NoOutput}
    BY <2>1, <2>2, AfterLineTyped, EmptySeq
  <2> QED
    BY <1>5, <2>3 DEF Eof, RunnerTyped, runner, files, history, NoOutput
<1> QED
  BY <1>1, <1>2, <1>3, <1>4, <1>5 DEF Monitor

LEMMA MonitorKeepsForeign == Monitor => UNCHANGED foreign
BY DEF Monitor, Read, Observe, Judge, Line, Eof, history

LEMMA MonitorFailures == ASSUME RunnerTyped, Failures, Monitor PROVE Failures'
<1>1. CASE Line
  <2>1. CASE \E h \in Handlers : Fresh(h) /\ Go(h, "enter")
    <3>1. PICK h \in Handlers : Fresh(h) /\ Go(h, "enter")
      BY <2>1
    <3>2. Becomes(h, "enter", handlers[h].next, handlers[h].got, handlers[h].failed)
      BY <3>1, GoMoves DEF RunnerTyped, HandlerPoints
    <3> QED
      BY <3>1, <3>2 DEF Failures, Unfailed, Becomes, Fresh
  <2>2. CASE UNCHANGED handlers
    BY <2>2 DEF Failures
  <2> QED
    BY <1>1, <2>1, <2>2 DEF Line
<1>2. CASE Read \/ Observe \/ Judge \/ Eof
  BY <1>2 DEF Read, Observe, Judge, Eof, Failures
<1> QED
  BY <1>1, <1>2 DEF Monitor

\* What the monitor is told of the state, it is told while the state is the hand-off's.
LEMMA ReadKeeps == ASSUME Typed, OwnFailures, Read PROVE OwnFailures'
<1>1. PICK out \in Outputs :
        mon' = [mon EXCEPT !.pc = "judge", !.out = out, !.st = state,
                           !.win = IF state = "LoggingIn" THEN window ELSE 0]
  BY DEF Read
<1>2. /\ mon'.pc = "judge" /\ mon'.st = state /\ mon'.dispatched = mon.dispatched
      /\ state = "LoggingIn" => mon'.win = window
  BY <1>1 DEF Typed, MonitorTyped, Monitors
<1>3. UNCHANGED <<runner, handlers, files, cooling, history>>
  BY DEF Read
<1>4. Judging'
  <2>1. SUFFICES ASSUME state = "LoggingIn" PROVE Judging'
    BY <1>2 DEF Judging
  <2>2. PICK h \in Handlers : handlers[h].pc \in {"trigger", "wait"}
    BY <2>1 DEF OwnFailures, Owned, Phase
  <2>3. \A g \in Handlers : Unreset(g) => g = h
    BY <2>2 DEF OwnFailures, Dispatched, Unreset
  <2>4. \A g \in Handlers : handlers[g].pc \in Early \cup {"trigger", "wait"} => g = h
    BY <2>3 DEF Unreset
  <2>5. mon'.win = window /\ window = h
    BY <1>2, <2>1, <2>2 DEF OwnFailures, Answers
  <2> QED
    BY <1>3, <2>2, <2>4, <2>5 DEF Judging, Early
<1> QED
  BY <1>2, <1>3, <1>4
     DEF OwnFailures, Owned, Busy, Late, Phase, Swapping, At, Dispatched, Heard, Unreset, Answers,
         LiveFile, Swapped, Copies, runner, files, history

LEMMA ObserveKeeps == ASSUME Typed, OwnFailures, Observe PROVE OwnFailures'
<1> DEFINE d == StillDispatched(mon.dispatched)
           m == [mon EXCEPT !.dispatched = d]
<1>1. /\ m \in Monitors /\ m.dispatched = d /\ m.out = mon.out
  BY DEF StillDispatched, Typed, MonitorTyped, Monitors
<1>2. mon' = IF d THEN Between(m) ELSE Feed(m)
  BY DEF Observe
<1> HIDE DEF m
<1>3. mon'.pc # "judge" /\ mon'.dispatched = d
  BY <1>1, <1>2, BetweenTyped, FeedTyped DEF Typed, MonitorTyped
<1>4. UNCHANGED <<runner, handlers, files, cooling, history>>
  BY DEF Observe
<1>5. Dispatched' /\ Heard'
  BY <1>3, <1>4 DEF OwnFailures, Dispatched, Heard, Unreset, Late, At, StillDispatched, runner,
                    history
<1> QED
  BY <1>3, <1>4, <1>5
     DEF OwnFailures, Owned, Busy, Late, Phase, Swapping, At, Judging, Answers,
         LiveFile, Swapped, Copies, runner, files, history

\* The verdict is sent for the hand-off whose login was observed.
LEMMA JudgeKeeps == ASSUME Typed, OwnFailures, Judge PROVE OwnFailures'
<1>1. mon'.pc = "read" /\ mon'.dispatched = mon.dispatched
  BY BetweenTyped DEF Judge, Typed, MonitorTyped
<1>2. UNCHANGED <<state, current, previous, detected, main, handlers, files, cooling, history>>
  BY DEF Judge
<1>3. Answers'
  <2>1. loginDone' # NoResult => loginDone' = loginDone \/ loginDone'.of = mon.win
    BY DEF Judge, Verdict, NoResult
  <2>2. \A h \in Handlers : handlers[h].pc \in {"trigger", "wait"} => mon.win = h
    BY DEF Judge, OwnFailures, Judging
  <2> QED
    BY <1>2, <2>1, <2>2 DEF OwnFailures, Answers, At, history
<1> QED
  BY <1>1, <1>2, <1>3
     DEF OwnFailures, Owned, Busy, Late, Phase, Swapping, At, Dispatched, Heard, Unreset, Judging,
         LiveFile, Swapped, Copies, files, history

\* A hand-off is dispatched only when none has still to reset the detector.
LEMMA LineKeeps == ASSUME Typed, Failures, OwnFailures, Line PROVE OwnFailures'
<1> DEFINE hit == detected \/ Head(mon.todo) = "limit"
           m == [mon EXCEPT !.todo = Tail(@)]
           d == mon.dispatched \/ hit
<1>0. mon \in Monitors /\ mon.pc = "lines" /\ mon.todo # <<>>
  BY DEF Line, Typed, MonitorTyped
<1>1. /\ m \in Monitors /\ m.pc = "lines" /\ m.dispatched = mon.dispatched
      /\ [m EXCEPT !.dispatched = TRUE] \in Monitors
      /\ [m EXCEPT !.dispatched = TRUE].pc = "lines"
      /\ [m EXCEPT !.dispatched = TRUE].dispatched = TRUE
  <2>1. Tail(mon.todo) \in Seq(Lines)
    BY <1>0, HeadTailProperties DEF Monitors
  <2> QED
    BY <1>0, <2>1 DEF Monitors
<1>2. /\ detected' = hit /\ echo' = (echo \/ (hit /\ ~detected /\ mon.dispatched))
      /\ IF hit /\ ~mon.dispatched
           THEN /\ \E h \in Handlers : Fresh(h) /\ Go(h, "enter")
                /\ mon' = AfterLine([m EXCEPT !.dispatched = TRUE])
           ELSE mon' = AfterLine(m) /\ UNCHANGED handlers
      /\ UNCHANGED <<state, current, previous, loginDone, main, files, cooling, window,
                     exposed, lost, foreign, stray>>
  BY DEF Line
<1> HIDE DEF m
<1>3. mon'.pc # "judge" /\ mon'.dispatched = d
  <2>1. mon.dispatched \in BOOLEAN
    BY <1>0 DEF Monitors
  <2> QED
    BY <1>1, <1>2, <2>1, AfterLineTyped
<1>4. Judging'
  BY <1>3 DEF Judging
<1>5. CASE hit /\ ~mon.dispatched
  <2>1. PICK h \in Handlers : Fresh(h) /\ Go(h, "enter")
    BY <1>2, <1>5
  <2>2. Becomes(h, "enter", handlers[h].next, handlers[h].got, handlers[h].failed)
    BY <2>1, GoMoves DEF Typed, RunnerTyped, HandlerPoints
  <2>3. At(h, "unused") /\ handlers[h].failed = "no"
    BY <2>1 DEF Fresh, At, Failures, Unfailed
  <2>4. \A g \in Handlers : ~Unreset(g)
    BY <1>5 DEF OwnFailures, Dispatched
  <2>5. \A g \in Handlers : g # h => (Unreset(g)' <=> Unreset(g))
    BY <2>2 DEF Unreset, Late, At, Becomes
  <2>6. Dispatched' /\ Heard'
    <3>1. Unreset(h)'
      BY <2>2 DEF Unreset, Early, Becomes
    <3> QED
      BY <1>2, <1>3, <1>5, <2>4, <2>5, <3>1 DEF Dispatched, Heard
  <2>7. Owned'
    <3>1. \A g \in Handlers : g # h => (Busy(g)' <=> Busy(g)) /\ Phase(g)' = Phase(g)
      BY <2>2 DEF Busy, Late, At, Phase, Swapping, Becomes
    <3>2. ~Busy(h) /\ ~Busy(h)'
      BY <2>2, <2>3 DEF Busy, Late, At, Swapping, Becomes
    <3>3. \A g \in Handlers : handlers'[g].failed = handlers[g].failed
      BY <2>2 DEF Becomes
    <3> QED
      BY <1>2, <3>1, <3>2, <3>3 DEF OwnFailures, Owned
  <2>8. Answers'
    BY <1>2, <2>2 DEF OwnFailures, Answers, At, Becomes
  <2>9. LiveFile'
    BY <1>2, <2>2, <2>3 DEF OwnFailures, LiveFile, Swapped, Late, At, Becomes, files
  <2>10. Copies'
    BY <1>2 DEF OwnFailures, Copies, files
  <2> QED
    BY <1>4, <2>6, <2>7, <2>8, <2>9, <2>10 DEF OwnFailures
<1>6. CASE ~(hit /\ ~mon.dispatched)
  <2>1. UNCHANGED handlers /\ mon'.dispatched = mon.dispatched
    <3>1. mon' = AfterLine(m) /\ UNCHANGED handlers
      BY <1>2, <1>6
    <3> QED
      BY <1>1, <3>1, AfterLineTyped
  <2>2. \A g \in Handlers : Unreset(g)' <=> Unreset(g)
    BY <2>1 DEF Unreset, Late, At
  <2>3. Dispatched' /\ Heard'
    BY <1>2, <2>1, <2>2 DEF OwnFailures, Dispatched, Heard
  <2> QED
    BY <1>2, <1>4, <2>1, <2>3
       DEF OwnFailures, Owned, Busy, Late, Phase, Swapping, At, Answers, LiveFile, Swapped,
           Copies, files
<1> QED
  BY <1>5, <1>6

LEMMA EofKeeps == ASSUME Typed, OwnFailures, Eof PROVE OwnFailures'
<1> DEFINE m == [mon EXCEPT !.pc = "lines", !.flushed = TRUE, !.todo = mon.buffer,
                            !.buffer = <<>>]
<1>1. m \in Monitors /\ m.pc = "lines" /\ m.dispatched = mon.dispatched
  BY EmptySeq DEF Typed, MonitorTyped, Monitors
<1>2. mon' = AfterLine(m) /\ UNCHANGED <<runner, handlers, files, cooling, history>>
  BY DEF Eof
<1> HIDE DEF m
<1>3. mon'.pc # "judge" /\ mon'.dispatched = mon.dispatched
  BY <1>1, <1>2, AfterLineTyped
<1> QED
  BY <1>2, <1>3
     DEF OwnFailures, Owned, Busy, Late, Phase, Swapping, At, Dispatched, Heard, Unreset, Judging,
         Answers, LiveFile, Swapped, Copies, runner, files, history

LEMMA MonitorInv == ASSUME IInv, Monitor PROVE IInv'
<1>1. mon.pc # "closed" /\ UNCHANGED main
  BY DEF Monitor, Read, Observe, Judge, Line, Eof, runner
<1>2. Ends'
  BY <1>1 DEF IInv, Ends
<1>3. Typed' /\ Failures'
  BY MonitorTypedStep, MonitorFailures DEF IInv, Typed
<1>4. ~foreign' => OwnFailures'
  BY MonitorKeepsForeign, ReadKeeps, ObserveKeeps, JudgeKeeps, LineKeeps, EofKeeps
     DEF IInv, Monitor
<1> QED
  BY <1>2, <1>3, <1>4 DEF IInv

-----------------------------------------------------------------------------
(* The tool, the cooldowns and Run.                                        *)

\* The tool rotates the token in the live file; what the vault holds of it is then old.
LEMMA RotateInv == ASSUME IInv, Rotate PROVE IInv'
<1>1. /\ newest[live.p] \in Nat /\ live.t = newest[live.p]
      /\ \A p \in Profiles : newest[p] \in Nat /\ vault[p].t \in Nat
  BY ConstantsAssumption DEF Rotate, IInv, Typed, RunnerTyped, Tokens
<1>2. /\ live'.p = live.p /\ live'.t = live.t + 1 /\ live.p \in Profiles
      /\ newest[live.p] < MaxRotations
      /\ newest' = [newest EXCEPT ![live.p] = @ + 1]
      /\ live' = [p |-> live.p, t |-> live.t + 1]
  BY DEF Rotate, IInv, Typed, RunnerTyped, Tokens
<1>3. \A p \in Profiles : newest'[p] = IF p = live.p THEN newest[p] + 1 ELSE newest[p]
  BY <1>2 DEF IInv, Typed, RunnerTyped
<1>4. newest' \in [Profiles -> 0 .. MaxRotations] /\ live' \in Tokens
  <2>1. live.t + 1 \in 0 .. MaxRotations
    BY <1>1, <1>2, ConstantsAssumption
  <2>2. newest' \in [Profiles -> 0 .. MaxRotations]
    BY <1>1, <1>2, <2>1 DEF IInv, Typed, RunnerTyped
  <2> QED
    BY <1>2, <2>1, <2>2 DEF Tokens
<1>5. /\ UNCHANGED <<runner, mon, handlers, vault, cooling, window, lost, echo, foreign, stray>>
      /\ exposed' \in BOOLEAN /\ (exposed => exposed')
      /\ \A h \in Handlers : At(h, "restore") => exposed'
  BY DEF Rotate, IInv, Typed, RunnerTyped
<1>6. Typed' /\ Ends' /\ Failures'
  BY <1>1, <1>2, <1>3, <1>4, <1>5
     DEF IInv, Typed, RunnerTyped, MonitorTyped, Ends, Active, Failures, runner,
                    history
<1>7. ASSUME ~foreign, OwnFailures PROVE OwnFailures'
  <2>1. ASSUME ~stray PROVE Copies'
    <3>1. \A p \in Profiles : vault[p].p = p /\ vault[p].t <= newest'[p]
      BY <1>1, <1>2, <1>3, <1>4, <1>7, <2>1 DEF OwnFailures, Copies
    <3>2. \A p \in Profiles :
            p \in lost \/ live' = [p |-> p, t |-> newest'[p]] \/ vault[p].t = newest'[p]
      <4>1. SUFFICES ASSUME NEW p \in Profiles
                     PROVE  p \in lost \/ live' = [p |-> p, t |-> newest'[p]]
                              \/ vault[p].t = newest'[p]
        OBVIOUS
      <4>2. CASE p = live.p
        BY <1>1, <1>2, <1>3, <1>4, <4>2 DEF Tokens
      <4>3. CASE p # live.p
        BY <1>1, <1>2, <1>3, <1>4, <1>7, <2>1, <4>3 DEF OwnFailures, Copies
      <4> QED
        BY <4>2, <4>3
    <3>3. live'.p \in Profiles
      BY <1>1, <1>2, <1>3, <1>4 DEF Tokens
    <3> QED
      BY <1>1, <1>2, <1>3, <1>4, <1>5, <3>1, <3>2, <3>3 DEF Copies, history
  <2>2. Copies'
    BY <1>5, <2>1 DEF Copies
  <2>3. LiveFile'
    BY <1>2, <1>5, <1>7 DEF OwnFailures, LiveFile, Swapped, Late, At, runner
  <2> QED
    BY <1>2, <1>5, <1>7, <2>2, <2>3
       DEF OwnFailures, Owned, Busy, Late, Phase, Swapping, At, Dispatched, Heard, Unreset,
           Judging, Answers, runner
<1> QED
  BY <1>5, <1>6, <1>7 DEF IInv, history

\* Steps that change neither the hand-offs, the monitor nor the files.
LEMMA OutsideKeeps ==
  ASSUME Failures, UNCHANGED <<state, current, previous, detected, loginDone, mon, handlers,
                               files, history>>
  PROVE  Failures' /\ (~foreign /\ OwnFailures => OwnFailures')
BY
   DEF Failures, OwnFailures, Owned, Busy, Late, Phase, Swapping, At, Dispatched, Heard,
       Unreset,
       Judging, Answers, LiveFile, Swapped, Copies, files, history

LEMMA CooldownInv == ASSUME IInv, NEW p \in Profiles, CooldownEnds(p) PROVE IInv'
<1>1. Failures' /\ (~foreign' => OwnFailures') /\ UNCHANGED <<mon, main, handlers>>
  BY OutsideKeeps DEF CooldownEnds, IInv, runner, history
<1>2. Typed'
  BY DEF CooldownEnds, IInv, Typed, RunnerTyped, MonitorTyped, runner, files, history
<1> QED
  BY <1>1, <1>2 DEF IInv, Ends, Active

LEMMA RunInv == ASSUME IInv, Run PROVE IInv'
<1>1. Failures' /\ (~foreign' => OwnFailures') /\ UNCHANGED <<mon, handlers>>
  BY OutsideKeeps DEF Run, IInv, history
<1>2. Typed'
  BY DEF Run, Exit, MonitorDone, Return, IInv, Typed, RunnerTyped, MonitorTyped, files, history
<1>3. Ends'
  BY <1>1 DEF Run, Exit, MonitorDone, Return, IInv, Ends, Active
<1> QED
  BY <1>1, <1>2, <1>3 DEF IInv

-----------------------------------------------------------------------------
(* The theorems.                                                           *)

LEMMA InitInv == Init => IInv
<1>1. SUFFICES ASSUME Init PROVE IInv
  OBVIOUS
<1>2. \A h \in Handlers : handlers[h] = [pc |-> "unused", next |-> First, got |-> 0,
                                         failed |-> "no"]
  BY <1>1 DEF Init
<1>3. RunnerTyped
  <2>1. handlers \in [Handlers -> Hands]
    BY <1>1, ConstantsAssumption DEF Init, Hands, HandlerPoints
  <2>2. /\ vault \in [Profiles -> Tokens] /\ live \in Tokens
        /\ newest \in [Profiles -> 0 .. MaxRotations]
    BY <1>1, ConstantsAssumption DEF Init, Tokens
  <2> QED
    BY <1>1, <2>1, <2>2, ConstantsAssumption DEF Init, RunnerTyped, States, Results, NoResult
<1>4. MonitorTyped
  BY <1>1, EmptySeq DEF Init, MonitorTyped, Monitors, NoOutput
<1>5. Owned /\ Dispatched /\ Heard /\ Answers /\ Judging
  BY <1>1, <1>2 DEF Init, Owned, Busy, Late, At, Swapping, Dispatched, Heard, Unreset, Early,
                    Answers, Judging
<1>6. LiveFile /\ Copies
  BY <1>1, <1>2, ConstantsAssumption DEF Init, LiveFile, At, Copies
<1> QED
  BY <1>1, <1>2, <1>3, <1>4, <1>5, <1>6
     DEF Init, IInv, Typed, Ends, Failures, OwnFailures

LEMMA NextInv == IInv /\ [Next]_vars => IInv'
<1>1. SUFFICES ASSUME IInv, [Next]_vars PROVE IInv'
  OBVIOUS
<1>2. CASE UNCHANGED vars
  <2>1. Failures' /\ (~foreign' => OwnFailures')
    BY <1>1, <1>2, OutsideKeeps DEF vars, IInv, files, history
  <2>2. Typed' /\ Ends'
    BY <1>1, <1>2 DEF vars, IInv, Typed, RunnerTyped, MonitorTyped, Ends, Active
  <2> QED
    BY <2>1, <2>2 DEF IInv
<1> QED
  BY <1>1, <1>2, RotateInv, CooldownInv, MonitorInv, RunInv, HandlerInv DEF Next

\* The inductive invariant.
THEOREM Invariance == Spec => []IInv
BY InitInv, NextInv, PTL DEF Spec

\* Every variable has its type, the monitor's buffer of unfinished lines included, and a
\* goroutine is at a point of its code.
THEOREM TypeCorrect == Spec => []TypeOK
<1>1. IInv => TypeOK
  BY DEF IInv, Typed, RunnerTyped, MonitorTyped, Monitors, Hands, TypeOK
<1> QED
  BY <1>1, Invariance, PTL

\* One hand-off at a time works on the files, whatever the number of limits, lines and
\* failures (the test of r.state in handleRateLimit), until one of them takes the failure
\* of another for its own.
THEOREM OneAtATime == Spec => []OneHandler
<1>1. IInv => OneHandler
  <2>1. SUFFICES ASSUME IInv, ~foreign PROVE Cardinality(Swapping) <= 1
    BY DEF OneHandler
  <2>2. \A g, h \in Swapping : g = h
    BY <2>1 DEF IInv, OwnFailures, Owned, Busy, Swapping
  <2>3. CASE Swapping = {}
    BY <2>3, FS_EmptySet
  <2>4. CASE Swapping # {}
    <3>1. PICK h \in Swapping : Swapping = {h}
      BY <2>2, <2>4
    <3> QED
      BY <3>1, FS_Singleton
  <2> QED
    BY <2>3, <2>4
<1> QED
  BY <1>1, Invariance, PTL

\* When Run has returned no hand-off still works, and the profile it records is the one
\* that is live, unless the Restore of a rollback failed (line 437 records the previous
\* profile all the same) or a hand-off rolled back the failure of another.
THEOREM ReturnedClean == Spec => []AtReturn
<1>1. IInv => AtReturn
  BY DEF IInv, AtReturn, Ends, Active, OwnFailures, LiveFile, Swapped, Late, At
<1> QED
  BY <1>1, Invariance, PTL

\* A hand-off succeeds only on an answer that the monitor read during its own login.
THEOREM AnsweredByOwnLogin == Spec => []OwnAnswer
<1>1. IInv => OwnAnswer
  BY DEF IInv, OwnAnswer, OwnFailures, Answers
<1> QED
  BY <1>1, Invariance, PTL

\* With the tool rotating at any time, the newest token of every profile is live or in its
\* own place in the vault, but for those that a rollback overwrote, or a swap whose
\* re-snapshot failed or was followed by a rotation.
THEOREM NewestKept == Spec => []Kept
<1>1. IInv => Kept
  BY DEF IInv, Kept, OwnFailures, Copies
<1> QED
  BY <1>1, Invariance, PTL

\* Between two hand-offs the next limit is reacted to.
THEOREM ReactsAgain == Spec => []Listening
<1>1. IInv => Listening
  BY DEF IInv, Listening, Active, OwnFailures, Owned, Busy, Late, At, Swapping, Heard, Unreset,
         Early
<1> QED
  BY <1>1, Invariance, PTL
=============================================================================
