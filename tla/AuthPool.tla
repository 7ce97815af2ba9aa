------------------------------ MODULE AuthPool ------------------------------
(***************************************************************************)
(* The pool of profiles and the monitor that refreshes their tokens          *)
(* (internal/authpool), as the daemon runs it: a loop that lists the         *)
(* profiles in need of a refresh and starts a goroutine for each, callers    *)
(* of ForceRefresh and RefreshAll, Stop, Start, and a restart of the daemon  *)
(* through the saved state.  A semaphore limits the refreshes, a wait group  *)
(* lets Stop wait for them, and the status of an entry, changed under the    *)
(* pool's lock, keeps two refreshes of one profile apart.                    *)
(***************************************************************************)
EXTENDS Integers

CONSTANTS
  Profiles,
  Slots,        \* the semaphore: MaxConcurrent places
  Loops,        \* goroutines that may be in checkAndRefresh
  MaxRetries,   \* WithMaxRetries
  MaxStarts,    \* bound: calls of Start in a process
  Polite        \* TRUE: nobody changes the entry of a profile which is being
                \* refreshed

NoProfile == "none"
NoSlot == "none"

ASSUME PoolAssumption ==
  /\ NoProfile \notin Profiles
  /\ NoSlot \notin Slots
  /\ MaxRetries \in Nat \ {0} /\ MaxStarts \in Nat
  /\ Polite \in BOOLEAN

VARIABLES
  pool,         \* AuthPool.profiles
  monitor,      \* Monitor.running and stopping, and whether Stop has returned
  channel,      \* the stopCh in force: the Start that made it
  loops,        \* the goroutines in runLoop or RefreshAll
  slots         \* who holds each place of the semaphore

vars == <<pool, monitor, channel, loops, slots>>

Statuses == {"unknown", "ready", "refreshing", "expired", "cooldown", "error"}
\* soon: IsExpiringSoon, which is FALSE when the expiry is not known.
\* caught (history): a daemon saved the entry after a loop had marked it and
\* before that loop saw the stop, and the entry was not marked again since.
Entries ==
  [status : Statuses, soon : BOOLEAN, errors : 0 .. MaxRetries, caught : BOOLEAN]
Added == [status |-> "unknown", soon |-> FALSE, errors |-> 0, caught |-> FALSE]

\* "new" and "stopped" and "stopping": not running; the last two: stopping.
Monitors == {"new", "running", "stopping", "stopped"}
Stopping == monitor \in {"stopping", "stopped"}

\* A goroutine walks through checkAndRefresh: "list", then for each
\* profile of todo "next", "mark", "spawn".  once: RefreshAll, no runLoop.
LoopStates ==
  [pc : {"off", "select", "list", "next", "mark", "spawn"}, once : BOOLEAN,
   ch : 0 .. MaxStarts, todo : SUBSET Profiles, was : [Profiles -> Statuses],
   p : Profiles \cup {NoProfile}, slot : Slots \cup {NoSlot}]
\* "held": by a loop in triggerRefresh.  "forced", "counted": ForceRefresh
\* before and after it joined the wait group.  "run", "refresh": doRefresh.
SlotStates ==
  [pc : {"free", "held", "forced", "counted", "run", "refresh"},
   p : Profiles \cup {NoProfile}]

Nothing == [p \in Profiles |-> "unknown"]
Off == [pc |-> "off", once |-> FALSE, ch |-> 0, todo |-> {}, was |-> Nothing,
        p |-> NoProfile, slot |-> NoSlot]
Free == [pc |-> "free", p |-> NoProfile]

\* A refresh is in flight; the wait group counts it, and ForceRefresh's wait.
InFlight(s) == slots[s].pc \in {"run", "refresh"}
Counted(s) == slots[s].pc \in {"counted", "run", "refresh"}

\* A loop has marked p and has not looked at the stopping flag yet.
Unlooked(p) == \E l \in Loops : loops[l].pc = "spawn" /\ loops[l].p = p

\* Somebody is about to end the refresh of p, or to revert its status.
InProgress(p) ==
  \/ \E s \in Slots : slots[s].p = p /\ InFlight(s)
  \/ Unlooked(p)

Released(s) == [slots EXCEPT ![s] = Free]
SetStatus(p, st) ==
  [pool EXCEPT ![p].status = st,
               ![p].errors = IF st = "ready" THEN 0 ELSE pool[p].errors]

-----------------------------------------------------------------------------
(* Callers of the pool, and time.                                          *)

Idle(p) == Polite => ~InProgress(p)

SetCooldown(p) ==
  /\ Idle(p)
  /\ pool' = [pool EXCEPT ![p].status = "cooldown"]
  /\ UNCHANGED <<monitor, channel, loops, slots>>

ClearCooldown(p) ==
  /\ pool[p].status = "cooldown"
  /\ pool' = [pool EXCEPT ![p].status = "ready"]
  /\ UNCHANGED <<monitor, channel, loops, slots>>

\* The caller of LoadFromVault finds out when the token expires.
UpdateTokenExpiry(p, e) ==
  /\ Idle(p)
  /\ pool' = [pool EXCEPT
       ![p].soon = e # "later",
       ![p].status = IF e = "past" THEN "expired"
                     ELSE IF pool[p].status = "expired" THEN "ready"
                     ELSE pool[p].status]
  /\ UNCHANGED <<monitor, channel, loops, slots>>

TokenAges(p) ==
  /\ ~pool[p].soon
  /\ pool' = [pool EXCEPT ![p].soon = TRUE]
  /\ UNCHANGED <<monitor, channel, loops, slots>>

-----------------------------------------------------------------------------
(* Start and Stop.                                                         *)

Start(l) ==
  /\ monitor # "running" /\ channel < MaxStarts
  /\ loops[l].pc = "off"
  /\ monitor' = "running"
  /\ channel' = channel + 1
  /\ loops' = [loops EXCEPT ![l] = [Off EXCEPT !.pc = "list"]]
  /\ UNCHANGED <<pool, slots>>

Stop ==
  /\ monitor = "running"
  /\ monitor' = "stopping"
  /\ UNCHANGED <<pool, channel, loops, slots>>

\* refreshWg.Wait
StopReturns ==
  /\ monitor = "stopping"
  /\ \A s \in Slots : ~Counted(s)
  /\ monitor' = "stopped"
  /\ UNCHANGED <<pool, channel, loops, slots>>

\* The daemon saves the pool, exits, and loads it again when it is started.
\* Nothing waits for runLoop: the loops are anywhere.
Restart ==
  /\ monitor = "stopped"
  /\ monitor' = "new" /\ channel' = 0
  /\ loops' = [l \in Loops |-> Off]
  /\ slots' = [s \in Slots |-> Free]
  /\ pool' = [p \in Profiles |-> [pool[p] EXCEPT
                 !.caught = @ \/ (pool[p].status = "refreshing" /\ Unlooked(p))]]

-----------------------------------------------------------------------------
(* checkAndRefresh, in runLoop and RefreshAll.                             *)

RefreshAll(l) ==
  /\ loops[l].pc = "off"
  /\ loops' = [loops EXCEPT ![l] = [Off EXCEPT !.pc = "list", !.once = TRUE]]
  /\ UNCHANGED <<pool, monitor, channel, slots>>

NeedsRefresh(p) ==
  /\ pool[p].status # "refreshing"
  /\ \/ pool[p].status \in {"expired", "error"}
     \/ pool[p].soon

\* CheckAndUpdateCooldowns, then GetProfilesNeedingRefresh: they lock the pool
\* one after the other, and what a caller does in between has the same effect
\* before the first.
ClearExpiredCooldowns(over) ==
  [p \in Profiles |-> IF p \in over THEN [pool[p] EXCEPT !.status = "ready"] ELSE pool[p]]

GetProfilesNeedingRefresh(l) ==
  /\ loops[l].pc = "list"
  /\ \E over \in SUBSET {p \in Profiles : pool[p].status = "cooldown"} :
       pool' = ClearExpiredCooldowns(over)
  /\ LET todo == {p \in Profiles : NeedsRefresh(p)'}
     IN loops' = [loops EXCEPT ![l].pc = "next", ![l].todo = todo,
          ![l].was = [p \in Profiles |-> IF p \in todo THEN pool'[p].status ELSE "unknown"]]
  /\ UNCHANGED <<monitor, channel, slots>>

\* triggerRefresh takes a place of the semaphore, or skips the profile.
Trigger(l) ==
  /\ loops[l].pc = "next"
  /\ \E p \in loops[l].todo :
       \/ \E s \in Slots :
            /\ slots[s] = Free
            /\ slots' = [slots EXCEPT ![s] = [pc |-> "held", p |-> p]]
            /\ loops' = [loops EXCEPT ![l].pc = "mark", ![l].p = p, ![l].slot = s,
                                      ![l].todo = loops[l].todo \ {p}]
       \/ /\ \A s \in Slots : slots[s] # Free
          /\ loops' = [loops EXCEPT ![l].todo = loops[l].todo \ {p},
                                    ![l].was[p] = "unknown"]
          /\ UNCHANGED slots
  /\ UNCHANGED <<pool, monitor, channel>>

\* Back in the loop of checkAndRefresh, with the snapshot it works from.
Back(l) == [loops EXCEPT ![l].pc = "next", ![l].p = NoProfile, ![l].slot = NoSlot,
                         ![l].was[loops[l].p] = "unknown"]

\* Variation: the status is looked at in the snapshot, not under the lock.
MarksAlways(p) == TRUE

TryMarkRefreshing(p) == pool[p].status # "refreshing"
MarkRefreshing(p) ==
  [pool EXCEPT ![p].status = "refreshing", ![p].caught = FALSE]

\* Variation: the place is not given back.
KeepsPlace(s) == slots

MarkFails(s) == Released(s)

Mark(l) ==
  /\ loops[l].pc = "mark"
  /\ LET p == loops[l].p
         s == loops[l].slot
     IN IF TryMarkRefreshing(p)
          THEN /\ pool' = MarkRefreshing(p)
               /\ loops' = [loops EXCEPT ![l].pc = "spawn"]
               /\ UNCHANGED slots
          ELSE /\ loops' = Back(l)
               /\ slots' = MarkFails(s)
               /\ UNCHANGED pool
  /\ UNCHANGED <<monitor, channel>>

\* Variation: the optimistic status is left when the monitor stops.
LeavesStatus(p, st) == pool

Revert(p, st) == IF st # "refreshing" THEN SetStatus(p, st) ELSE pool

\* Under m.mu: the monitor is stopping, or the wait group counts the refresh.
Spawn(l) ==
  /\ loops[l].pc = "spawn"
  /\ LET p == loops[l].p
         s == loops[l].slot
     IN IF Stopping
          THEN /\ pool' = Revert(p, loops[l].was[p])
               /\ slots' = Released(s)
          ELSE /\ slots' = [slots EXCEPT ![s].pc = "run"]
               /\ UNCHANGED pool
  /\ loops' = Back(l)
  /\ UNCHANGED <<monitor, channel>>

\* The select reads m.stopCh, which a Start may have replaced meanwhile.
CheckDone(l) ==
  /\ loops[l].pc = "next" /\ loops[l].todo = {}
  /\ loops' = [loops EXCEPT ![l] =
       IF loops[l].once THEN Off ELSE [Off EXCEPT !.pc = "select", !.ch = channel]]
  /\ UNCHANGED <<pool, monitor, channel, slots>>

Closed(ch) == ch < channel \/ monitor # "running"

\* When a tick and the close are both there, select takes either.
Tick(l) ==
  /\ loops[l].pc = "select"
  /\ loops' = [loops EXCEPT ![l].pc = "list"]
  /\ UNCHANGED <<pool, monitor, channel, slots>>
LoopEnds(l) ==
  /\ loops[l].pc = "select" /\ Closed(loops[l].ch)
  /\ loops' = [loops EXCEPT ![l] = Off]
  /\ UNCHANGED <<pool, monitor, channel, slots>>

-----------------------------------------------------------------------------
(* ForceRefresh and doRefresh.                                             *)

ForceRefresh(s, p) ==
  /\ slots[s] = Free
  /\ slots' = [slots EXCEPT ![s] = [pc |-> "forced", p |-> p]]
  /\ UNCHANGED <<pool, monitor, channel, loops>>

\* Variation: ForceRefresh does not look at the stopping flag.
NeverRefused == FALSE

ForceRefused == Stopping

ForceJoin(s) ==
  /\ slots[s].pc = "forced"
  /\ slots' = IF ForceRefused THEN Released(s) ELSE [slots EXCEPT ![s].pc = "counted"]
  /\ UNCHANGED <<pool, monitor, channel, loops>>

ForceMark(s) ==
  /\ slots[s].pc = "counted"
  /\ LET p == slots[s].p
     IN IF TryMarkRefreshing(p)
          THEN /\ pool' = MarkRefreshing(p)
               /\ slots' = [slots EXCEPT ![s].pc = "run"]
          ELSE /\ slots' = Released(s)
               /\ UNCHANGED pool
  /\ UNCHANGED <<monitor, channel, loops>>

\* doRefresh marks the entry again and calls the refresher.
DoRefresh(s) ==
  /\ slots[s].pc = "run"
  /\ pool' = SetStatus(slots[s].p, "refreshing")
  /\ slots' = [slots EXCEPT ![s].pc = "refresh"]
  /\ UNCHANGED <<monitor, channel, loops>>

\* The counter is compared with maxRetries only: it may stop there.
SetError(p) ==
  LET n == IF pool[p].errors < MaxRetries THEN pool[p].errors + 1 ELSE MaxRetries
  IN [pool EXCEPT ![p].errors = n,
                  ![p].status = IF n >= MaxRetries THEN "error" ELSE pool[p].status]

MarkRefreshed(p) ==
  [pool EXCEPT ![p].status = "ready", ![p].soon = FALSE, ![p].errors = 0]

\* PoolRefresher returns an error, or an expiry that is far away or unknown; one
\* that is near (nothing was refreshed) is this step and TokenAges.
RefreshEnds(s) ==
  /\ slots[s].pc = "refresh"
  /\ \/ pool' = SetError(slots[s].p)
     \/ pool' = MarkRefreshed(slots[s].p)
  /\ slots' = Released(s)
  /\ UNCHANGED <<monitor, channel, loops>>

-----------------------------------------------------------------------------
Init ==
  /\ pool = [p \in Profiles |-> Added]
  /\ monitor = "new" /\ channel = 0
  /\ loops = [l \in Loops |-> Off]
  /\ slots = [s \in Slots |-> Free]

Caller(p) ==
  \/ SetCooldown(p) \/ ClearCooldown(p) \/ TokenAges(p)
  \/ \E e \in {"later", "soon", "past"} : UpdateTokenExpiry(p, e)

Loop(l) ==
  \/ Start(l) \/ RefreshAll(l)
  \/ GetProfilesNeedingRefresh(l)
  \/ Trigger(l) \/ Mark(l) \/ Spawn(l) \/ CheckDone(l) \/ Tick(l) \/ LoopEnds(l)

Slot(s) ==
  \/ \E p \in Profiles : ForceRefresh(s, p)
  \/ ForceJoin(s) \/ ForceMark(s) \/ DoRefresh(s) \/ RefreshEnds(s)

Next ==
  \/ Stop \/ StopReturns \/ Restart
  \/ \E p \in Profiles : Caller(p)
  \/ \E l \in Loops : Loop(l)
  \/ \E s \in Slots : Slot(s)

Spec == Init /\ [][Next]_vars

-----------------------------------------------------------------------------
\* Entries, goroutines and places of the semaphore are what the code can make
\* of them: a refresh is of some profile, and a loop in triggerRefresh has a place.
TypeOK ==
  /\ pool \in [Profiles -> Entries]
  /\ monitor \in Monitors /\ channel \in 0 .. MaxStarts
  /\ loops \in [Loops -> LoopStates]
  /\ slots \in [Slots -> SlotStates]
  /\ \A s \in Slots : slots[s].pc # "free" => slots[s].p \in Profiles
  /\ \A l \in Loops : loops[l].pc \in {"mark", "spawn"} =>
       loops[l].p \in Profiles /\ loops[l].slot \in Slots

\* Two refreshes of one profile are never in flight together, whether loops,
\* an old loop that outlived a Stop, or ForceRefresh start them: each would
\* present the same refresh token (TryMarkRefreshing).
OneRefresh ==
  \A s, t \in Slots :
    InFlight(s) /\ InFlight(t) /\ slots[s].p = slots[t].p => s = t

\* Once Stop has returned no refresh is in flight until the next Start, though
\* triggerRefresh and ForceRefresh may have begun before Stop (stopping flag,
\* refreshWg).
StoppedIsQuiet == monitor = "stopped" => \A s \in Slots : ~InFlight(s)

\* The semaphore loses no place: each one is free, in a refresh, or with the
\* one loop or caller about to start one.
NoPlaceLost ==
  \A s \in Slots : slots[s].pc = "held" =>
    \E l \in Loops : loops[l].pc \in {"mark", "spawn"} /\ loops[l].slot = s

\* A status of refreshing belongs to a refresh in progress (status.go:17).
RefreshingMeansInProgress ==
  \A p \in Profiles : pool[p].status = "refreshing" => InProgress(p)

\* "Revert the optimistic status change so the pool doesn't stay stuck" (monitor.go:208).
RevertedWhenStopped ==
  \A p \in Profiles : pool[p].status = "refreshing" => InProgress(p) \/ pool[p].errors > 0

\* An entry stays marked as refreshing after a refresh that failed (SetError),
\* or after a daemon that saved the pool while a loop stood between its mark and
\* its look at the stop, whose revert was then lost with the process
\* (daemon.go:358-370); no stop, restart or collision of triggers does it
\* otherwise.
StuckOnlyWhenExplained ==
  \A p \in Profiles : pool[p].status = "refreshing" =>
    InProgress(p) \/ pool[p].errors > 0 \/ pool[p].caught
=============================================================================
