---------------------------- MODULE Daemon_proofs ----------------------------
(***************************************************************************)
(* The two parts of the refresh daemon that have a model of their own.      *)
(*                                                                         *)
(* Its pool of profiles (AuthPool): what holds of the pool and its monitor  *)
(* for any number of profiles, loops and places of the semaphore.           *)
(*                                                                         *)
(* Its PID file (DaemonPid), for any number of daemons, commands and files: *)
(* who holds which lock, that `status` and `stop` find the daemon that      *)
(* runs, and that daemons implement the abstract lock.                      *)
(***************************************************************************)
EXTENDS AuthPool, DaemonPid, TLAPS

-----------------------------------------------------------------------------
(* The pool.                                                               *)

Triggering(r) == r.pc \in {"mark", "spawn"}
GoodLoop(r) ==
  r \in LoopStates /\ (Triggering(r) => r.p \in Profiles /\ r.slot \in Slots)
GoodSlot(r) == r \in SlotStates /\ (r.pc # "free" => r.p \in Profiles)
PoolOK == pool \in [Profiles -> Entries]
LoopsOK == loops \in [Loops -> LoopStates] /\ \A l \in Loops : GoodLoop(loops[l])
SlotsOK == slots \in [Slots -> SlotStates] /\ \A s \in Slots : GoodSlot(slots[s])
MonitorOK == monitor \in Monitors /\ channel \in 0 .. MaxStarts

LEMMA TypeParts ==
  /\ TypeOK <=> PoolOK /\ MonitorOK /\ LoopsOK /\ SlotsOK
  /\ TypeOK' <=> PoolOK' /\ MonitorOK' /\ LoopsOK' /\ SlotsOK'
BY DEF TypeOK, PoolOK, MonitorOK, LoopsOK, SlotsOK, GoodLoop, GoodSlot, Triggering

\* A loop in triggerRefresh holds the place it took, for the profile it took it
\* for, and no other loop has that place.
HoldsPlace ==
  \A l \in Loops : Triggering(loops[l]) =>
    slots[loops[l].slot] = [pc |-> "held", p |-> loops[l].p]
OwnPlace ==
  \A k, l \in Loops :
    Triggering(loops[k]) /\ Triggering(loops[l]) /\ loops[k].slot = loops[l].slot => k = l
Places == HoldsPlace /\ OwnPlace /\ NoPlaceLost

LEMMA StatusNames ==
  \A st \in {"unknown", "ready", "refreshing", "expired", "cooldown", "error"} : st \in Statuses
BY DEF Statuses

LEMMA FreeGood == GoodSlot(Free)
BY DEF Free, GoodSlot, SlotStates

LEMMA OffGood ==
  /\ GoodLoop(Off)
  /\ GoodLoop([Off EXCEPT !.pc = "list"])
  /\ GoodLoop([Off EXCEPT !.pc = "list", !.once = TRUE])
  /\ \A ch \in 0 .. MaxStarts : GoodLoop([Off EXCEPT !.pc = "select", !.ch = ch])
<1>1. Nothing \in [Profiles -> Statuses]
  BY DEF Nothing, Statuses
<1>2. 0 \in 0 .. MaxStarts
  BY PoolAssumption
<1> QED
  BY <1>1, <1>2 DEF Off, GoodLoop, Triggering, LoopStates

-----------------------------------------------------------------------------
(* One record at a time.                                                   *)

LEMMA SetLoop ==
  ASSUME LoopsOK, NEW l \in Loops, NEW r, GoodLoop(r),
         loops' = [loops EXCEPT ![l] = r]
  PROVE  LoopsOK'
BY DEF LoopsOK, GoodLoop

LEMMA SetSlot ==
  ASSUME SlotsOK, NEW s \in Slots, NEW r, GoodSlot(r),
         slots' = [slots EXCEPT ![s] = r]
  PROVE  SlotsOK'
BY DEF SlotsOK, GoodSlot

LEMMA SetEntry ==
  ASSUME PoolOK, NEW p \in Profiles, NEW e \in Entries,
         pool' = [pool EXCEPT ![p] = e]
  PROVE  PoolOK'
BY DEF PoolOK

LEMMA Untouched ==
  /\ PoolOK /\ UNCHANGED pool => PoolOK'
  /\ LoopsOK /\ UNCHANGED loops => LoopsOK'
  /\ SlotsOK /\ UNCHANGED slots => SlotsOK'
  /\ MonitorOK /\ UNCHANGED <<monitor, channel>> => MonitorOK'
BY DEF PoolOK, LoopsOK, SlotsOK, MonitorOK, GoodLoop, GoodSlot

\* SetStatus, SetError, MarkRefreshed and TryMarkRefreshing keep an entry an entry.
LEMMA SetStatusType ==
  ASSUME PoolOK, NEW p \in Profiles, NEW st \in Statuses
  PROVE  /\ SetStatus(p, st) \in [Profiles -> Entries]
         /\ [pool EXCEPT ![p].status = st] \in [Profiles -> Entries]
<1>1. pool[p] \in Entries /\ pool \in [Profiles -> Entries]
  BY DEF PoolOK
<1>2. 0 \in 0 .. MaxRetries
  BY PoolAssumption
<1>3. [pool[p] EXCEPT !.status = st,
         !.errors = IF st = "ready" THEN 0 ELSE pool[p].errors] \in Entries
  BY <1>1, <1>2 DEF Entries
<1>4. [pool[p] EXCEPT !.status = st] \in Entries
  BY <1>1 DEF Entries
<1> QED
  BY <1>1, <1>3, <1>4 DEF SetStatus

LEMMA MarkType ==
  ASSUME PoolOK, NEW p \in Profiles
  PROVE  /\ MarkRefreshing(p) \in [Profiles -> Entries]
         /\ MarkRefreshing(p)[p].status = "refreshing"
         /\ \A q \in Profiles : q # p => MarkRefreshing(p)[q] = pool[q]
<1>1. pool[p] \in Entries /\ pool \in [Profiles -> Entries]
  BY DEF PoolOK
<1>2. [pool[p] EXCEPT !.status = "refreshing", !.caught = FALSE] \in Entries
  BY <1>1, StatusNames DEF Entries
<1>3. [pool[p] EXCEPT !.status = "refreshing", !.caught = FALSE].status = "refreshing"
  BY <1>1 DEF Entries
<1>4. MarkRefreshing(p) =
        [pool EXCEPT ![p] = [pool[p] EXCEPT !.status = "refreshing", !.caught = FALSE]]
  BY <1>1 DEF MarkRefreshing
<1> QED
  BY <1>1, <1>2, <1>3, <1>4

LEMMA OutcomeType ==
  ASSUME PoolOK, NEW p \in Profiles
  PROVE  SetError(p) \in [Profiles -> Entries] /\ MarkRefreshed(p) \in [Profiles -> Entries]
<1>1. pool[p] \in Entries /\ pool \in [Profiles -> Entries]
  BY DEF PoolOK
<1>2. MaxRetries \in Nat /\ 0 \in 0 .. MaxRetries /\ MaxRetries \in 0 .. MaxRetries
  BY PoolAssumption
<1> DEFINE n == IF pool[p].errors < MaxRetries THEN pool[p].errors + 1 ELSE MaxRetries
<1>3. n \in 0 .. MaxRetries
  BY <1>1, <1>2 DEF Entries
<1> HIDE DEF n
<1>4. [pool[p] EXCEPT !.errors = n,
         !.status = IF n >= MaxRetries THEN "error" ELSE pool[p].status] \in Entries
  BY <1>1, <1>3 DEF Entries, Statuses
<1>5. [pool[p] EXCEPT !.status = "ready", !.soon = FALSE, !.errors = 0] \in Entries
  BY <1>1, <1>2 DEF Entries, Statuses
<1>6. SetError(p) \in [Profiles -> Entries]
  BY <1>1, <1>4 DEF SetError, n
<1>7. MarkRefreshed(p) \in [Profiles -> Entries]
  BY <1>1, <1>5 DEF MarkRefreshed
<1> QED
  BY <1>6, <1>7

-----------------------------------------------------------------------------
(* Type correctness.                                                       *)

LEMMA TypeInit == Init => TypeOK
<1> SUFFICES ASSUME Init PROVE TypeOK
  OBVIOUS
<1>1. PoolOK
  BY PoolAssumption DEF Init, PoolOK, Added, Entries, Statuses
<1>2. LoopsOK /\ SlotsOK
  BY OffGood, FreeGood DEF Init, LoopsOK, SlotsOK, GoodLoop, GoodSlot
<1>3. MonitorOK
  BY PoolAssumption DEF Init, MonitorOK, Monitors
<1> QED
  BY <1>1, <1>2, <1>3, TypeParts

LEMMA DaemonKeepsType ==
  ASSUME TypeOK, Stop \/ StopReturns \/ Restart
  PROVE  TypeOK'
<1>1. PoolOK /\ MonitorOK /\ LoopsOK /\ SlotsOK
  BY TypeParts
<1>2. MonitorOK'
  BY <1>1, PoolAssumption DEF Stop, StopReturns, Restart, MonitorOK, Monitors
<1>3. CASE Stop \/ StopReturns
  BY <1>1, <1>2, <1>3, Untouched, TypeParts DEF Stop, StopReturns
<1>4. CASE Restart
  <2>0. PoolOK'
    BY <1>1, <1>4 DEF Restart, PoolOK, Entries
  <2>1. LoopsOK'
    BY <1>4, OffGood DEF Restart, LoopsOK, GoodLoop
  <2>2. SlotsOK'
    BY <1>4, FreeGood DEF Restart, SlotsOK, GoodSlot
  <2> QED
    BY <1>2, <2>0, <2>1, <2>2, TypeParts
<1> QED
  BY <1>3, <1>4

LEMMA CallersKeepType ==
  ASSUME TypeOK, NEW p \in Profiles, Caller(p)
  PROVE  TypeOK'
<1>1. PoolOK /\ MonitorOK /\ LoopsOK /\ SlotsOK /\ pool[p] \in Entries
  BY TypeParts DEF PoolOK
<1>2. ASSUME SetCooldown(p) \/ ClearCooldown(p) PROVE PoolOK'
  BY <1>1, <1>2, SetStatusType, StatusNames DEF SetCooldown, ClearCooldown, PoolOK
<1>3. ASSUME TokenAges(p) PROVE PoolOK'
  BY <1>1, <1>3 DEF TokenAges, PoolOK, Entries
<1>4. ASSUME NEW e \in {"later", "soon", "past"}, UpdateTokenExpiry(p, e)
      PROVE  PoolOK'
  <2>1. [pool[p] EXCEPT !.soon = e # "later",
           !.status = IF e = "past" THEN "expired"
                      ELSE IF pool[p].status = "expired" THEN "ready"
                      ELSE pool[p].status] \in Entries
    BY <1>1 DEF Entries, Statuses
  <2> QED
    BY <1>1, <1>4, <2>1 DEF UpdateTokenExpiry, PoolOK
<1>5. PoolOK'
  BY <1>2, <1>3, <1>4 DEF Caller
<1>6. UNCHANGED <<monitor, channel, loops, slots>>
  BY DEF Caller, SetCooldown, ClearCooldown, TokenAges, UpdateTokenExpiry
<1> QED
  BY <1>1, <1>5, <1>6, Untouched, TypeParts

\* Back(l) leaves a loop that holds nothing.
LEMMA BackType ==
  ASSUME LoopsOK, NEW l \in Loops, loops[l].p \in Profiles, loops' = Back(l)
  PROVE  LoopsOK'
<1> DEFINE r == [loops[l] EXCEPT !.pc = "next", !.p = NoProfile, !.slot = NoSlot,
                                 !.was[loops[l].p] = "unknown"]
<1>1. loops[l] \in LoopStates /\ loops \in [Loops -> LoopStates]
  BY DEF LoopsOK
<1>2. [loops[l].was EXCEPT ![loops[l].p] = "unknown"] \in [Profiles -> Statuses]
  BY <1>1 DEF LoopStates, Statuses
<1>3. GoodLoop(r)
  BY <1>1, <1>2 DEF GoodLoop, Triggering, LoopStates
<1>4. loops' = [loops EXCEPT ![l] = r]
  BY <1>1 DEF Back, LoopStates
<1> QED
  BY <1>3, <1>4, SetLoop

LEMMA ListKeepsType ==
  ASSUME TypeOK, NEW l \in Loops, GetProfilesNeedingRefresh(l)
  PROVE  TypeOK'
<1>1. PoolOK /\ MonitorOK /\ LoopsOK /\ SlotsOK /\ loops[l] \in LoopStates
  BY TypeParts DEF LoopsOK
<1>2. PICK over \in SUBSET {p \in Profiles : pool[p].status = "cooldown"} :
        pool' = ClearExpiredCooldowns(over)
  BY DEF GetProfilesNeedingRefresh
<1>3. PoolOK'
  BY <1>1, <1>2 DEF PoolOK, ClearExpiredCooldowns, Entries, Statuses
<1> DEFINE todo == {p \in Profiles : NeedsRefresh(p)'}
           was == [p \in Profiles |-> IF p \in todo THEN pool'[p].status ELSE "unknown"]
<1>4. todo \in SUBSET Profiles /\ was \in [Profiles -> Statuses]
  BY <1>3 DEF PoolOK, Entries, Statuses
<1>5. loops' = [loops EXCEPT ![l] = [loops[l] EXCEPT !.pc = "next", !.todo = todo, !.was = was]]
  BY DEF GetProfilesNeedingRefresh
<1> HIDE DEF todo, was
<1>6. GoodLoop([loops[l] EXCEPT !.pc = "next", !.todo = todo, !.was = was])
  BY <1>1, <1>4 DEF GoodLoop, Triggering, LoopStates
<1>7. LoopsOK'
  BY <1>1, <1>5, <1>6, SetLoop
<1> QED
  BY <1>1, <1>3, <1>7, Untouched, TypeParts DEF GetProfilesNeedingRefresh

\* A trigger takes a place for one profile of the list, or skips it.
Takes(l, p, s) ==
  /\ slots[s] = Free
  /\ slots' = [slots EXCEPT ![s] = [pc |-> "held", p |-> p]]
  /\ loops' = [loops EXCEPT ![l].pc = "mark", ![l].p = p, ![l].slot = s,
                            ![l].todo = loops[l].todo \ {p}]
Skips(l, p) ==
  /\ loops' = [loops EXCEPT ![l].todo = loops[l].todo \ {p}, ![l].was[p] = "unknown"]
  /\ UNCHANGED slots

LEMMA TriggerCases ==
  ASSUME TypeOK, NEW l \in Loops, Trigger(l)
  PROVE  /\ UNCHANGED <<pool, monitor, channel>>
         /\ loops[l].pc = "next"
         /\ \E p \in Profiles : Skips(l, p) \/ \E s \in Slots : Takes(l, p, s)
<1>1. loops[l].todo \subseteq Profiles
  BY DEF TypeOK, LoopStates
<1>2. PICK p \in loops[l].todo : Skips(l, p) \/ \E s \in Slots : Takes(l, p, s)
  BY DEF Trigger, Skips, Takes
<1> QED
  BY <1>1, <1>2 DEF Trigger

LEMMA TriggerKeepsType ==
  ASSUME TypeOK, NEW l \in Loops, Trigger(l)
  PROVE  TypeOK'
<1>1. PoolOK /\ MonitorOK /\ LoopsOK /\ SlotsOK /\ loops[l] \in LoopStates
  BY TypeParts DEF LoopsOK
<1>2. PICK p \in Profiles : Skips(l, p) \/ \E s \in Slots : Takes(l, p, s)
  BY TriggerCases
<1>3. ASSUME NEW s \in Slots, Takes(l, p, s) PROVE LoopsOK' /\ SlotsOK'
  <2> DEFINE r == [loops[l] EXCEPT !.pc = "mark", !.p = p, !.slot = s,
                                   !.todo = loops[l].todo \ {p}]
  <2>1. GoodLoop(r)
    BY <1>1 DEF GoodLoop, Triggering, LoopStates
  <2>2. loops' = [loops EXCEPT ![l] = r]
    BY <1>3 DEF Takes
  <2>3. GoodSlot([pc |-> "held", p |-> p])
    BY DEF GoodSlot, SlotStates
  <2> HIDE DEF r
  <2> QED
    BY <1>1, <1>3, <2>1, <2>2, <2>3, SetLoop, SetSlot DEF Takes
<1>4. ASSUME Skips(l, p) PROVE LoopsOK' /\ SlotsOK'
  <2> DEFINE r == [loops[l] EXCEPT !.todo = loops[l].todo \ {p}, !.was[p] = "unknown"]
  <2>1. [loops[l].was EXCEPT ![p] = "unknown"] \in [Profiles -> Statuses]
    BY <1>1 DEF LoopStates, Statuses
  <2>2. GoodLoop(r)
    BY <1>1, <2>1, TriggerCases DEF GoodLoop, Triggering, LoopStates
  <2>3. loops' = [loops EXCEPT ![l] = r]
    BY <1>1, <1>4 DEF Skips, LoopStates
  <2> HIDE DEF r
  <2> QED
    BY <1>1, <1>4, <2>2, <2>3, SetLoop, Untouched DEF Skips
<1> QED
  BY <1>1, <1>2, <1>3, <1>4, TriggerCases, Untouched, TypeParts

LEMMA MarkKeepsType ==
  ASSUME TypeOK, NEW l \in Loops, Mark(l)
  PROVE  TypeOK'
<1>1. PoolOK /\ MonitorOK /\ LoopsOK /\ SlotsOK /\ GoodLoop(loops[l])
  BY TypeParts DEF LoopsOK
<1>2. loops[l].p \in Profiles /\ loops[l].slot \in Slots /\ loops[l] \in LoopStates
  BY <1>1 DEF Mark, GoodLoop, Triggering
<1>3. CASE TryMarkRefreshing(loops[l].p)
  <2>1. PoolOK'
    BY <1>1, <1>2, <1>3, MarkType DEF Mark, PoolOK
  <2>2. GoodLoop([loops[l] EXCEPT !.pc = "spawn"])
    BY <1>2 DEF GoodLoop, Triggering, LoopStates
  <2>3. LoopsOK'
    BY <1>1, <1>3, <2>2, SetLoop DEF Mark
  <2> QED
    BY <1>1, <1>3, <2>1, <2>3, Untouched, TypeParts DEF Mark
<1>4. CASE ~TryMarkRefreshing(loops[l].p)
  <2>1. LoopsOK'
    BY <1>1, <1>2, <1>4, BackType DEF Mark
  <2>2. SlotsOK'
    BY <1>1, <1>2, <1>4, SetSlot, FreeGood DEF Mark, MarkFails, Released
  <2> QED
    BY <1>1, <1>4, <2>1, <2>2, Untouched, TypeParts DEF Mark
<1> QED
  BY <1>3, <1>4

LEMMA SpawnKeepsType ==
  ASSUME TypeOK, HoldsPlace, NEW l \in Loops, Spawn(l)
  PROVE  TypeOK'
<1>1. PoolOK /\ MonitorOK /\ LoopsOK /\ SlotsOK /\ GoodLoop(loops[l])
  BY TypeParts DEF LoopsOK
<1>2. loops[l].p \in Profiles /\ loops[l].slot \in Slots /\ loops[l] \in LoopStates
  BY <1>1 DEF Spawn, GoodLoop, Triggering
<1>3. LoopsOK' /\ MonitorOK'
  BY <1>1, <1>2, BackType, Untouched DEF Spawn
<1>4. CASE Stopping
  <2>1. loops[l].was[loops[l].p] \in Statuses
    BY <1>2 DEF LoopStates
  <2>2. Revert(loops[l].p, loops[l].was[loops[l].p]) \in [Profiles -> Entries]
    BY <1>1, <1>2, <2>1, SetStatusType DEF Revert, PoolOK
  <2>3. PoolOK'
    BY <1>4, <2>2 DEF Spawn, PoolOK
  <2>4. SlotsOK'
    BY <1>1, <1>2, <1>4, SetSlot, FreeGood DEF Spawn, Released
  <2> QED
    BY <1>3, <2>3, <2>4, TypeParts
<1>5. CASE ~Stopping
  <2>1. PoolOK'
    BY <1>1, <1>5, Untouched DEF Spawn
  <2>2. GoodSlot([slots[loops[l].slot] EXCEPT !.pc = "run"])
    <3>1. slots[loops[l].slot] = [pc |-> "held", p |-> loops[l].p]
      BY DEF HoldsPlace, Spawn, Triggering
    <3> QED
      BY <1>2, <3>1 DEF GoodSlot, SlotStates
  <2>3. SlotsOK'
    BY <1>1, <1>2, <1>5, <2>2, SetSlot DEF Spawn
  <2> QED
    BY <1>3, <2>1, <2>3, TypeParts
<1> QED
  BY <1>4, <1>5

LEMMA LoopKeepsType ==
  ASSUME TypeOK, HoldsPlace, NEW l \in Loops, Loop(l)
  PROVE  TypeOK'
<1>1. PoolOK /\ MonitorOK /\ LoopsOK /\ SlotsOK /\ loops[l] \in LoopStates
  BY TypeParts DEF LoopsOK
<1>2. CASE Start(l)
  <2>1. MonitorOK'
    BY <1>1, <1>2, PoolAssumption DEF Start, MonitorOK, Monitors
  <2>2. LoopsOK'
    BY <1>1, <1>2, OffGood, SetLoop DEF Start
  <2> QED
    BY <1>1, <1>2, <2>1, <2>2, Untouched, TypeParts DEF Start
<1>3. CASE RefreshAll(l)
  <2>1. LoopsOK'
    BY <1>1, <1>3, OffGood, SetLoop DEF RefreshAll
  <2> QED
    BY <1>1, <1>3, <2>1, Untouched, TypeParts DEF RefreshAll
<1>4. CASE CheckDone(l)
  <2>1. channel \in 0 .. MaxStarts
    BY <1>1 DEF MonitorOK
  <2>2. LoopsOK'
    BY <1>1, <1>4, <2>1, OffGood, SetLoop DEF CheckDone
  <2> QED
    BY <1>1, <1>4, <2>2, Untouched, TypeParts DEF CheckDone
<1>5. CASE Tick(l)
  <2>1. GoodLoop([loops[l] EXCEPT !.pc = "list"])
    BY <1>1 DEF GoodLoop, Triggering, LoopStates
  <2>2. LoopsOK'
    BY <1>1, <1>5, <2>1, SetLoop DEF Tick
  <2> QED
    BY <1>1, <1>5, <2>2, Untouched, TypeParts DEF Tick
<1>6. CASE LoopEnds(l)
  <2>1. LoopsOK'
    BY <1>1, <1>6, OffGood, SetLoop DEF LoopEnds
  <2> QED
    BY <1>1, <1>6, <2>1, Untouched, TypeParts DEF LoopEnds
<1> QED
  BY <1>2, <1>3, <1>4, <1>5, <1>6, ListKeepsType, TriggerKeepsType, MarkKeepsType,
     SpawnKeepsType DEF Loop

LEMMA SlotKeepsType ==
  ASSUME TypeOK, NEW s \in Slots, Slot(s)
  PROVE  TypeOK'
<1>1. PoolOK /\ MonitorOK /\ LoopsOK /\ SlotsOK /\ GoodSlot(slots[s])
  BY TypeParts DEF SlotsOK
<1>2. ASSUME NEW p \in Profiles, ForceRefresh(s, p) PROVE TypeOK'
  <2>1. GoodSlot([pc |-> "forced", p |-> p])
    BY DEF GoodSlot, SlotStates
  <2>2. SlotsOK'
    BY <1>1, <1>2, <2>1, SetSlot DEF ForceRefresh
  <2> QED
    BY <1>1, <1>2, <2>2, Untouched, TypeParts DEF ForceRefresh
<1>3. CASE ForceJoin(s)
  <2>1. GoodSlot([slots[s] EXCEPT !.pc = "counted"])
    BY <1>1, <1>3 DEF ForceJoin, GoodSlot, SlotStates
  <2>2. SlotsOK'
    BY <1>1, <1>3, <2>1, FreeGood, SetSlot DEF ForceJoin, Released
  <2> QED
    BY <1>1, <1>3, <2>2, Untouched, TypeParts DEF ForceJoin
<1>4. CASE ForceMark(s)
  <2>1. slots[s].p \in Profiles
    BY <1>1, <1>4 DEF ForceMark, GoodSlot
  <2>2. GoodSlot([slots[s] EXCEPT !.pc = "run"])
    BY <1>1, <2>1 DEF GoodSlot, SlotStates
  <2>3. SlotsOK'
    BY <1>1, <1>4, <2>2, FreeGood, SetSlot DEF ForceMark, Released
  <2>4. PoolOK'
    BY <1>1, <1>4, <2>1, MarkType DEF ForceMark, PoolOK
  <2> QED
    BY <1>1, <1>4, <2>3, <2>4, Untouched, TypeParts DEF ForceMark
<1>5. CASE DoRefresh(s)
  <2>1. slots[s].p \in Profiles
    BY <1>1, <1>5 DEF DoRefresh, GoodSlot
  <2>2. GoodSlot([slots[s] EXCEPT !.pc = "refresh"])
    BY <1>1, <2>1 DEF GoodSlot, SlotStates
  <2>3. SlotsOK'
    BY <1>1, <1>5, <2>2, SetSlot DEF DoRefresh
  <2>4. PoolOK'
    BY <1>1, <1>5, <2>1, SetStatusType, StatusNames DEF DoRefresh, PoolOK
  <2> QED
    BY <1>1, <1>5, <2>3, <2>4, Untouched, TypeParts DEF DoRefresh
<1>6. CASE RefreshEnds(s)
  <2>1. slots[s].p \in Profiles
    BY <1>1, <1>6 DEF RefreshEnds, GoodSlot
  <2>2. PoolOK'
    BY <1>1, <1>6, <2>1, OutcomeType DEF RefreshEnds, PoolOK
  <2>3. SlotsOK'
    BY <1>1, <1>6, FreeGood, SetSlot DEF RefreshEnds, Released
  <2> QED
    BY <1>1, <1>6, <2>2, <2>3, Untouched, TypeParts DEF RefreshEnds
<1> QED
  BY <1>2, <1>3, <1>4, <1>5, <1>6 DEF Slot

-----------------------------------------------------------------------------
(* The places of the semaphore.                                            *)

\* A step of a loop outside triggerRefresh.
LEMMA LoopElsewhere ==
  ASSUME TypeOK, Places, NEW l \in Loops, NEW r,
         ~Triggering(loops[l]), ~Triggering(r),
         loops' = [loops EXCEPT ![l] = r], UNCHANGED slots
  PROVE  Places'
<1>1. loops \in [Loops -> LoopStates]
  BY DEF TypeOK
<1>2. \A k \in Loops : Triggering(loops'[k]) <=> Triggering(loops[k])
  BY <1>1
<1>3. \A k \in Loops : Triggering(loops[k]) => loops'[k] = loops[k]
  BY <1>1
<1>4. HoldsPlace' /\ OwnPlace'
  BY <1>2, <1>3 DEF Places, HoldsPlace, OwnPlace
<1>5. NoPlaceLost'
  BY <1>1, <1>3 DEF Places, NoPlaceLost, Triggering
<1> QED
  BY <1>4, <1>5 DEF Places

\* A step that changes a place which is not held, to one that is not.
LEMMA PlaceElsewhere ==
  ASSUME TypeOK, Places, NEW s \in Slots, NEW r,
         slots[s].pc # "held", r.pc # "held",
         slots' = [slots EXCEPT ![s] = r], UNCHANGED loops
  PROVE  Places'
<1>1. slots \in [Slots -> SlotStates]
  BY DEF TypeOK
<1>2. ASSUME NEW l \in Loops, Triggering(loops[l]) PROVE loops[l].slot # s
  <2>1. slots[loops[l].slot] = [pc |-> "held", p |-> loops[l].p]
    BY <1>2 DEF Places, HoldsPlace
  <2>2. slots[loops[l].slot].pc = "held"
    BY <2>1
  <2> QED
    BY <2>2
<1>3. \A l \in Loops : Triggering(loops[l]) => slots'[loops[l].slot] = slots[loops[l].slot]
  BY <1>1, <1>2 DEF TypeOK, Triggering
<1>4. HoldsPlace' /\ OwnPlace'
  BY <1>3 DEF Places, HoldsPlace, OwnPlace
<1>5. NoPlaceLost'
  BY <1>1 DEF Places, NoPlaceLost
<1> QED
  BY <1>4, <1>5 DEF Places

\* A loop leaves triggerRefresh, and its place is no longer held.
LEMMA LoopLetsGo ==
  ASSUME TypeOK, Places, NEW l \in Loops, NEW r, NEW q,
         Triggering(loops[l]), ~Triggering(r), q.pc # "held",
         loops' = [loops EXCEPT ![l] = r],
         slots' = [slots EXCEPT ![loops[l].slot] = q]
  PROVE  Places'
<1>1. loops \in [Loops -> LoopStates] /\ slots \in [Slots -> SlotStates]
  BY DEF TypeOK
<1>2. loops[l].slot \in Slots
  BY DEF TypeOK, Triggering
<1>3. \A k \in Loops : Triggering(loops'[k]) <=> k # l /\ Triggering(loops[k])
  BY <1>1
<1>4. \A k \in Loops : k # l => loops'[k] = loops[k]
  BY <1>1
<1>5. \A k \in Loops : k # l /\ Triggering(loops[k]) => loops[k].slot # loops[l].slot
  BY DEF Places, OwnPlace
<1>6. \A s \in Slots : s # loops[l].slot => slots'[s] = slots[s]
  BY <1>1
<1>7. slots'[loops[l].slot].pc # "held"
  BY <1>1, <1>2
<1>8. HoldsPlace'
  BY <1>3, <1>4, <1>5, <1>6 DEF Places, HoldsPlace, TypeOK, Triggering
<1>9. OwnPlace'
  BY <1>3, <1>4 DEF Places, OwnPlace
<1>10. NoPlaceLost'
  BY <1>4, <1>6, <1>7 DEF Places, NoPlaceLost
<1> QED
  BY <1>8, <1>9, <1>10 DEF Places

LEMMA TriggerKeepsPlaces ==
  ASSUME TypeOK, Places, NEW l \in Loops, Trigger(l)
  PROVE  Places'
<1>1. loops \in [Loops -> LoopStates] /\ slots \in [Slots -> SlotStates]
  BY DEF TypeOK
<1>2. ~Triggering(loops[l])
  BY TriggerCases DEF Triggering
<1>3. PICK p \in Profiles : Skips(l, p) \/ \E s \in Slots : Takes(l, p, s)
  BY TriggerCases
<1>4. ASSUME NEW s \in Slots, Takes(l, p, s) PROVE Places'
  <2>1. /\ loops'[l].pc = "mark" /\ loops'[l].p = p /\ loops'[l].slot = s
        /\ slots'[s] = [pc |-> "held", p |-> p]
    BY <1>1, <1>4 DEF Takes, LoopStates
  <2>2. \A k \in Loops : k # l => loops'[k] = loops[k]
    BY <1>1, <1>4 DEF Takes
  <2>3. \A t \in Slots : t # s => slots'[t] = slots[t]
    BY <1>1, <1>4 DEF Takes
  <2>4. ASSUME NEW k \in Loops, Triggering(loops[k]) PROVE loops[k].slot \in Slots \ {s}
    <3>1. slots[loops[k].slot] = [pc |-> "held", p |-> loops[k].p]
      BY <2>4 DEF Places, HoldsPlace
    <3>2. slots[loops[k].slot].pc = "held" /\ slots[s].pc = "free"
      BY <3>1, <1>4 DEF Takes, Free
    <3> QED
      BY <3>2, <2>4 DEF TypeOK, Triggering
  <2>5. HoldsPlace'
    BY <2>1, <2>2, <2>3, <2>4 DEF Places, HoldsPlace
  <2>6. OwnPlace'
    BY <2>1, <2>2, <2>4 DEF Places, OwnPlace
  <2>7. NoPlaceLost'
    BY <2>1, <2>2, <2>3, <1>2 DEF Places, NoPlaceLost, Triggering
  <2> QED
    BY <2>5, <2>6, <2>7 DEF Places
<1>5. CASE Skips(l, p)
  <2> DEFINE r == [loops[l] EXCEPT !.todo = loops[l].todo \ {p}, !.was[p] = "unknown"]
  <2>1. loops' = [loops EXCEPT ![l] = r]
    BY <1>1, <1>5 DEF Skips, LoopStates
  <2>2. r.pc = loops[l].pc
    BY <1>1 DEF LoopStates
  <2>3. ~Triggering(r)
    BY <1>2, <2>2 DEF Triggering
  <2> HIDE DEF r
  <2> QED
    BY <1>2, <1>5, <2>1, <2>3, LoopElsewhere DEF Skips
<1> QED
  BY <1>3, <1>4, <1>5

LEMMA MarkKeepsPlaces ==
  ASSUME TypeOK, Places, NEW l \in Loops, Mark(l)
  PROVE  Places'
<1>1. loops \in [Loops -> LoopStates] /\ Triggering(loops[l])
  BY DEF TypeOK, Mark, Triggering
<1>2. CASE TryMarkRefreshing(loops[l].p)
  <2>1. /\ loops'[l].pc = "spawn" /\ loops'[l].p = loops[l].p
        /\ loops'[l].slot = loops[l].slot
        /\ \A k \in Loops : k # l => loops'[k] = loops[k]
    BY <1>1, <1>2 DEF Mark, LoopStates
  <2>2. slots' = slots
    BY <1>2 DEF Mark
  <2>3. \A k \in Loops :
          /\ Triggering(loops'[k]) <=> Triggering(loops[k])
          /\ loops'[k].p = loops[k].p /\ loops'[k].slot = loops[k].slot
    BY <1>1, <2>1 DEF Triggering
  <2>4. HoldsPlace' /\ OwnPlace'
    BY <2>2, <2>3 DEF Places, HoldsPlace, OwnPlace
  <2>5. ASSUME NEW s \in Slots, slots'[s].pc = "held"
        PROVE  \E k \in Loops : loops'[k].pc \in {"mark", "spawn"} /\ loops'[k].slot = s
    <3>1. PICK k \in Loops : Triggering(loops[k]) /\ loops[k].slot = s
      BY <2>2, <2>5 DEF Places, NoPlaceLost, Triggering
    <3>2. loops'[k].pc \in {"mark", "spawn"} /\ loops'[k].slot = s
      BY <2>3, <3>1 DEF Triggering
    <3> QED
      BY <3>2
  <2> QED
    BY <2>4, <2>5 DEF Places, NoPlaceLost
<1>3. CASE ~TryMarkRefreshing(loops[l].p)
  <2> DEFINE r == [loops[l] EXCEPT !.pc = "next", !.p = NoProfile, !.slot = NoSlot,
                                   !.was[loops[l].p] = "unknown"]
  <2>1. loops' = Back(l)
    BY <1>3 DEF Mark
  <2>3. loops' = [loops EXCEPT ![l] = r] /\ ~Triggering(r)
    BY <1>1, <2>1 DEF Back, LoopStates, Triggering
  <2>2. slots' = [slots EXCEPT ![loops[l].slot] = Free] /\ Free.pc # "held"
    BY <1>3 DEF Mark, MarkFails, Released, Free
  <2> HIDE DEF r
  <2> QED
    BY <1>1, <2>2, <2>3, LoopLetsGo
<1> QED
  BY <1>2, <1>3

LEMMA SpawnKeepsPlaces ==
  ASSUME TypeOK, Places, NEW l \in Loops, Spawn(l)
  PROVE  Places'
<1>1. loops \in [Loops -> LoopStates] /\ slots \in [Slots -> SlotStates]
  BY DEF TypeOK
<1>2. Triggering(loops[l]) /\ loops[l].slot \in Slots
  BY DEF TypeOK, Spawn, Triggering
<1> DEFINE r == [loops[l] EXCEPT !.pc = "next", !.p = NoProfile, !.slot = NoSlot,
                                 !.was[loops[l].p] = "unknown"]
           q == IF Stopping THEN Free ELSE [slots[loops[l].slot] EXCEPT !.pc = "run"]
<1>3. loops' = [loops EXCEPT ![l] = r] /\ ~Triggering(r)
  <2>1. loops[l] \in LoopStates
    BY <1>1
  <2>2. loops' = [loops EXCEPT ![l] = r]
    BY <1>1, <2>1 DEF Spawn, Back, LoopStates
  <2>3. r.pc = "next"
    BY <2>1 DEF LoopStates
  <2> QED
    BY <2>2, <2>3 DEF Triggering
<1>4. slots' = [slots EXCEPT ![loops[l].slot] = q]
  BY DEF Spawn, Released
<1>5. q.pc # "held"
  BY <1>1, <1>2 DEF Free, SlotStates
<1> HIDE DEF r, q
<1> QED
  BY <1>2, <1>3, <1>4, <1>5, LoopLetsGo

LEMMA LoopKeepsPlaces ==
  ASSUME TypeOK, Places, NEW l \in Loops, Loop(l)
  PROVE  Places'
<1>1. loops[l] \in LoopStates /\ loops \in [Loops -> LoopStates]
  BY DEF TypeOK
<1>2. CASE GetProfilesNeedingRefresh(l)
  <2> DEFINE todo == {p \in Profiles : NeedsRefresh(p)'}
             was == [p \in Profiles |-> IF p \in todo THEN pool'[p].status ELSE "unknown"]
             r == [loops[l] EXCEPT !.pc = "next", !.todo = todo, !.was = was]
  <2>1. loops' = [loops EXCEPT ![l] = r]
    BY <1>1, <1>2 DEF GetProfilesNeedingRefresh, LoopStates
  <2> HIDE DEF todo, was
  <2>2. ~Triggering(loops[l]) /\ ~Triggering(r)
    BY <1>1, <1>2 DEF GetProfilesNeedingRefresh, Triggering, LoopStates
  <2> HIDE DEF r
  <2> QED
    BY <1>2, <2>1, <2>2, LoopElsewhere DEF GetProfilesNeedingRefresh
<1>3. CASE Start(l) \/ RefreshAll(l) \/ CheckDone(l) \/ Tick(l) \/ LoopEnds(l)
  <2>1. ~Triggering(loops[l]) /\ UNCHANGED slots
    BY <1>3 DEF Start, RefreshAll, CheckDone, Tick, LoopEnds, Triggering
  <2>2. \E r : loops' = [loops EXCEPT ![l] = r] /\ ~Triggering(r)
    <3>1. CASE Start(l) \/ RefreshAll(l)
      <4>1. /\ ~Triggering([Off EXCEPT !.pc = "list"])
            /\ ~Triggering([Off EXCEPT !.pc = "list", !.once = TRUE])
        BY DEF Triggering, Off
      <4> QED
        BY <3>1, <4>1 DEF Start, RefreshAll
    <3>2. CASE CheckDone(l) \/ LoopEnds(l)
      <4>1. ~Triggering(Off) /\ ~Triggering([Off EXCEPT !.pc = "select", !.ch = channel])
        BY DEF Triggering, Off
      <4> QED
        BY <3>2, <4>1 DEF CheckDone, LoopEnds
    <3>3. CASE Tick(l)
      <4>1. ~Triggering([loops[l] EXCEPT !.pc = "list"])
        BY <1>1 DEF Triggering, LoopStates
      <4> QED
        BY <3>3, <4>1 DEF Tick
    <3> QED
      BY <1>3, <3>1, <3>2, <3>3
  <2> QED
    BY <2>1, <2>2, LoopElsewhere
<1> QED
  BY <1>2, <1>3, TriggerKeepsPlaces, MarkKeepsPlaces, SpawnKeepsPlaces DEF Loop

LEMMA SlotKeepsPlaces ==
  ASSUME TypeOK, Places, NEW s \in Slots, Slot(s)
  PROVE  Places'
<1>1. slots[s] \in SlotStates
  BY DEF TypeOK
<1>2. slots[s].pc # "held"
  BY DEF Slot, ForceRefresh, ForceJoin, ForceMark, DoRefresh, RefreshEnds, Free
<1>3. UNCHANGED loops
  BY DEF Slot, ForceRefresh, ForceJoin, ForceMark, DoRefresh, RefreshEnds
<1>4. \E r : slots' = [slots EXCEPT ![s] = r] /\ r.pc # "held"
  <2>1. CASE \E p \in Profiles : ForceRefresh(s, p)
    <3>1. PICK p \in Profiles : slots' = [slots EXCEPT ![s] = [pc |-> "forced", p |-> p]]
      BY <2>1 DEF ForceRefresh
    <3>2. [pc |-> "forced", p |-> p].pc # "held"
      OBVIOUS
    <3> QED
      BY <3>1, <3>2
  <2>2. CASE ForceJoin(s) \/ RefreshEnds(s)
    BY <1>1, <2>2 DEF ForceJoin, RefreshEnds, Released, Free, SlotStates
  <2>3. CASE ForceMark(s) \/ DoRefresh(s)
    BY <1>1, <2>3 DEF ForceMark, DoRefresh, Released, Free, SlotStates
  <2> QED
    BY <2>1, <2>2, <2>3 DEF Slot
<1> QED
  BY <1>2, <1>3, <1>4, PlaceElsewhere

\* What does not touch the loops and the places, and the exit of the daemon.
LEMMA OthersKeepPlaces ==
  ASSUME Places
  PROVE  /\ UNCHANGED <<loops, slots>> => Places'
         /\ Restart => Places'
<1>1. UNCHANGED <<loops, slots>> => Places'
  BY DEF Places, HoldsPlace, OwnPlace, NoPlaceLost, Triggering
<1>2. ASSUME Restart PROVE Places'
  <2>1. /\ \A l \in Loops : loops'[l].pc = "off"
        /\ \A s \in Slots : slots'[s].pc = "free"
    BY <1>2 DEF Restart, Off, Free
  <2> QED
    BY <2>1 DEF Places, HoldsPlace, OwnPlace, NoPlaceLost, Triggering
<1> QED
  BY <1>1, <1>2

LEMMA PlacesInit == Init => Places
<1> SUFFICES ASSUME Init PROVE Places
  OBVIOUS
<1>1. /\ \A l \in Loops : loops[l].pc = "off"
      /\ \A s \in Slots : slots[s].pc = "free"
  BY DEF Init, Off, Free
<1> QED
  BY <1>1 DEF Places, HoldsPlace, OwnPlace, NoPlaceLost, Triggering

LEMMA NextKeepsPlaces ==
  ASSUME TypeOK, Places, [Next]_vars
  PROVE  TypeOK' /\ Places'
<1>1. CASE Stop \/ StopReturns \/ Restart
  BY <1>1, DaemonKeepsType, OthersKeepPlaces DEF Stop, StopReturns
<1>2. ASSUME NEW p \in Profiles, Caller(p) PROVE TypeOK' /\ Places'
  <2>1. UNCHANGED <<loops, slots>>
    BY <1>2 DEF Caller, SetCooldown, ClearCooldown, TokenAges, UpdateTokenExpiry
  <2> QED
    BY <1>2, <2>1, CallersKeepType, OthersKeepPlaces
<1>3. ASSUME NEW l \in Loops, Loop(l) PROVE TypeOK' /\ Places'
  BY <1>3, LoopKeepsType, LoopKeepsPlaces DEF Places
<1>4. ASSUME NEW s \in Slots, Slot(s) PROVE TypeOK' /\ Places'
  BY <1>4, SlotKeepsType, SlotKeepsPlaces
<1>5. CASE UNCHANGED vars
  BY <1>5, TypeParts, Untouched, OthersKeepPlaces DEF vars
<1> QED
  BY <1>1, <1>2, <1>3, <1>4, <1>5 DEF Next

\* The pool stays well typed: whatever collides, a refresh is of a profile of
\* the pool, and a loop in triggerRefresh has a place of the semaphore.
THEOREM PoolTypeCorrect == Spec => []TypeOK
<1>1. Init => TypeOK /\ Places
  BY TypeInit, PlacesInit
<1>2. TypeOK /\ Places /\ [Next]_vars => (TypeOK /\ Places)'
  BY NextKeepsPlaces
<1> QED
  BY <1>1, <1>2, PTL DEF Spec

\* No place of the semaphore is ever lost: one that is taken and not yet with
\* a refresh belongs to a loop inside triggerRefresh.
THEOREM SemaphoreKeepsPlaces == Spec => []NoPlaceLost
<1>1. Init => TypeOK /\ Places
  BY TypeInit, PlacesInit
<1>2. TypeOK /\ Places /\ [Next]_vars => (TypeOK /\ Places)'
  BY NextKeepsPlaces
<1>3. Places => NoPlaceLost
  BY DEF Places
<1> QED
  BY <1>1, <1>2, <1>3, PTL DEF Spec

-----------------------------------------------------------------------------
(* Stop.                                                                   *)

\* refreshWg.Wait returned and nobody joins while the monitor is stopping.
Drained == monitor = "stopped" => \A s \in Slots : ~Counted(s)

\* A place that a step leaves counted was counted, or joined while Stop was
\* not under way.
LEMMA DrainedKept ==
  ASSUME Drained, monitor' = monitor,
         \A s \in Slots : Counted(s)' => Counted(s) \/ ~Stopping
  PROVE  Drained'
BY DEF Drained, Stopping

LEMMA LoopKeepsDrained ==
  ASSUME TypeOK, Drained, NEW l \in Loops, Loop(l)
  PROVE  Drained'
<1>1. slots \in [Slots -> SlotStates]
  BY DEF TypeOK
<1>2. CASE Start(l)
  BY <1>2 DEF Start, Drained
<1>3. CASE \/ RefreshAll(l) \/ GetProfilesNeedingRefresh(l)
           \/ CheckDone(l) \/ Tick(l) \/ LoopEnds(l)
  BY <1>3 DEF RefreshAll, GetProfilesNeedingRefresh, CheckDone, Tick, LoopEnds,
              Drained, Counted
<1>4. CASE Trigger(l)
  <2>1. PICK p \in Profiles : Skips(l, p) \/ \E s \in Slots : Takes(l, p, s)
    BY <1>4, TriggerCases
  <2>2. \A s \in Slots : Counted(s)' => Counted(s)
    <3>1. CASE Skips(l, p)
      BY <3>1 DEF Skips, Counted
    <3>2. ASSUME NEW t \in Slots, Takes(l, p, t) PROVE \A s \in Slots : Counted(s)' => Counted(s)
      BY <1>1, <3>2 DEF Takes, Counted
    <3> QED
      BY <2>1, <3>1, <3>2
  <2> QED
    BY <1>4, <2>2, TriggerCases, DrainedKept
<1>5. CASE Mark(l)
  <2>1. \A s \in Slots : Counted(s)' => Counted(s)
    BY <1>1, <1>5 DEF Mark, MarkFails, Released, Free, Counted
  <2> QED
    BY <1>5, <2>1, DrainedKept DEF Mark
<1>6. CASE Spawn(l)
  <2>1. \A s \in Slots : Counted(s)' => Counted(s) \/ ~Stopping
    BY <1>1, <1>6 DEF Spawn, Released, Free, Counted
  <2> QED
    BY <1>6, <2>1, DrainedKept DEF Spawn
<1> QED
  BY <1>2, <1>3, <1>4, <1>5, <1>6 DEF Loop

LEMMA NextKeepsDrained ==
  ASSUME TypeOK, Drained, [Next]_vars
  PROVE  Drained'
<1>1. slots \in [Slots -> SlotStates]
  BY DEF TypeOK
<1>2. CASE Stop \/ StopReturns \/ Restart
  BY <1>2 DEF Stop, StopReturns, Restart, Drained, Counted, Free
<1>3. ASSUME NEW p \in Profiles, Caller(p) PROVE Drained'
  BY <1>3 DEF Caller, SetCooldown, ClearCooldown, TokenAges, UpdateTokenExpiry,
              Drained, Counted
<1>4. ASSUME NEW s \in Slots, Slot(s) PROVE Drained'
  <2>1. \A t \in Slots : Counted(t)' => Counted(t) \/ ~Stopping
    <3>1. CASE \E p \in Profiles : ForceRefresh(s, p)
      BY <1>1, <3>1 DEF ForceRefresh, Counted
    <3>2. CASE ForceJoin(s)
      BY <1>1, <3>2 DEF ForceJoin, ForceRefused, Released, Free, Counted
    <3>3. CASE ForceMark(s) \/ DoRefresh(s)
      BY <1>1, <3>3 DEF ForceMark, DoRefresh, Released, Free, Counted
    <3>4. CASE RefreshEnds(s)
      BY <1>1, <3>4 DEF RefreshEnds, Released, Free, Counted
    <3> QED
      BY <1>4, <3>1, <3>2, <3>3, <3>4 DEF Slot
  <2>2. monitor' = monitor
    BY <1>4 DEF Slot, ForceRefresh, ForceJoin, ForceMark, DoRefresh, RefreshEnds
  <2> QED
    BY <2>1, <2>2, DrainedKept
<1>5. CASE UNCHANGED vars
  BY <1>5 DEF vars, Drained, Counted
<1> QED
  BY <1>2, <1>3, <1>4, <1>5, LoopKeepsDrained DEF Next

\* When Stop has returned, no refresh is in flight until the next Start: not
\* one a loop was about to start, nor one of ForceRefresh.
THEOREM StopDrains == Spec => []StoppedIsQuiet
<1>1. Init => TypeOK /\ Places /\ Drained
  BY TypeInit, PlacesInit DEF Init, Drained
<1>2. TypeOK /\ Places /\ Drained /\ [Next]_vars => (TypeOK /\ Places /\ Drained)'
  BY NextKeepsPlaces, NextKeepsDrained
<1>3. Drained => StoppedIsQuiet
  BY DEF Drained, StoppedIsQuiet, Counted, InFlight
<1> QED
  BY <1>1, <1>2, <1>3, PTL DEF Spec

-----------------------------------------------------------------------------
(* One refresh of a profile at a time.                                     *)

\* A place is busy from the moment the entry of its profile is marked until the
\* refresh ends or the status is reverted.
Busy(s) == InFlight(s) \/ \E l \in Loops : loops[l].pc = "spawn" /\ loops[l].slot = s

\* The mark is there as long as the place is busy, so nobody else can set it.
Marked == \A s \in Slots : Busy(s) => pool[slots[s].p].status = "refreshing"
OneBusy == \A s, t \in Slots : Busy(s) /\ Busy(t) /\ slots[s].p = slots[t].p => s = t
Exclusive == Marked /\ OneBusy

LEMMA BusyTaken ==
  ASSUME TypeOK, Places, NEW s \in Slots, Busy(s)
  PROVE  slots[s].pc \in {"held", "run", "refresh"} /\ slots[s].p \in Profiles /\ InProgress(slots[s].p)
<1>1. CASE InFlight(s)
  BY <1>1 DEF InFlight, InProgress, TypeOK
<1>2. ASSUME NEW l \in Loops, loops[l].pc = "spawn", loops[l].slot = s
      PROVE  slots[s].pc = "held" /\ slots[s].p \in Profiles /\ InProgress(slots[s].p)
  <2>1. slots[s] = [pc |-> "held", p |-> loops[l].p]
    BY <1>2 DEF Places, HoldsPlace, Triggering
  <2>2. slots[s].pc = "held" /\ slots[s].p = loops[l].p
    BY <2>1
  <2>3. loops[l].p \in Profiles
    BY <1>2 DEF TypeOK
  <2> QED
    BY <1>2, <2>2, <2>3 DEF InProgress, Unlooked
<1> QED
  BY <1>1, <1>2 DEF Busy, InFlight

\* A step that makes no place busy and leaves the mark of those that stay so.
LEMMA ExclusiveKept ==
  ASSUME Exclusive,
         \A s \in Slots : Busy(s)' =>
           /\ Busy(s) /\ slots'[s].p = slots[s].p
           /\ pool'[slots[s].p].status = "refreshing"
  PROVE  Exclusive'
BY DEF Exclusive, Marked, OneBusy

\* A step that marks the entry of a profile, which nobody had marked.
LEMMA ExclusiveMarked ==
  ASSUME TypeOK, Exclusive, NEW p \in Profiles, NEW t \in Slots, slots'[t].p = p,
         TryMarkRefreshing(p), pool' = MarkRefreshing(p),
         \A s \in Slots : Busy(s)' =>
           s = t \/ (Busy(s) /\ slots'[s].p = slots[s].p /\ slots[s].p \in Profiles)
  PROVE  Exclusive'
<1>1. PoolOK
  BY DEF TypeOK, PoolOK
<1>2. pool'[p].status = "refreshing"
  BY <1>1, MarkType
<1>3. \A q \in Profiles : q # p => pool'[q] = pool[q]
  BY <1>1, MarkType
<1>4. \A s \in Slots : Busy(s) => slots[s].p # p
  BY DEF Exclusive, Marked, TryMarkRefreshing
<1>5. Marked'
  BY <1>2, <1>3, <1>4 DEF Exclusive, Marked
<1>6. OneBusy'
  BY <1>4 DEF Exclusive, OneBusy
<1> QED
  BY <1>5, <1>6 DEF Exclusive

\* Neither a place nor a loop that is about to start a refresh changes, and the
\* entries of the profiles which are being refreshed keep their status.
LEMMA ExclusiveElsewhere ==
  ASSUME TypeOK, Places, Exclusive, UNCHANGED slots,
         \A l \in Loops : loops'[l].pc = "spawn" => loops'[l] = loops[l],
         \A p \in Profiles : InProgress(p) => pool'[p].status = pool[p].status
  PROVE  Exclusive'
<1>1. \A s \in Slots : Busy(s)' => Busy(s)
  BY DEF Busy, InFlight
<1>2. \A s \in Slots : Busy(s) => pool'[slots[s].p].status = "refreshing"
  BY BusyTaken DEF Exclusive, Marked
<1> QED
  BY <1>1, <1>2, ExclusiveKept

LEMMA InProgressMarked ==
  ASSUME TypeOK, Places, Exclusive, NEW p \in Profiles, InProgress(p)
  PROVE  pool[p].status = "refreshing"
<1>1. CASE \E s \in Slots : slots[s].p = p /\ InFlight(s)
  BY <1>1 DEF Exclusive, Marked, Busy
<1>2. ASSUME NEW l \in Loops, loops[l].pc = "spawn", loops[l].p = p
      PROVE  pool[p].status = "refreshing"
  <2>1. slots[loops[l].slot] = [pc |-> "held", p |-> p] /\ loops[l].slot \in Slots
    BY <1>2 DEF Places, HoldsPlace, Triggering, TypeOK
  <2>2. slots[loops[l].slot].p = p
    BY <2>1
  <2> QED
    BY <1>2, <2>1, <2>2 DEF Exclusive, Marked, Busy
<1> QED
  BY <1>1, <1>2 DEF InProgress, Unlooked

LEMMA CallersKeepExclusive ==
  ASSUME Polite, TypeOK, Places, Exclusive, NEW p \in Profiles, Caller(p)
  PROVE  Exclusive'
<1>1. pool \in [Profiles -> Entries] /\ pool[p] \in Entries
  BY DEF TypeOK
<1>2. \A q \in Profiles : q # p => pool'[q] = pool[q]
  BY <1>1 DEF Caller, SetCooldown, ClearCooldown, TokenAges, UpdateTokenExpiry
<1>3. ASSUME InProgress(p) PROVE pool'[p].status = pool[p].status
  <2>1. ~SetCooldown(p) /\ \A e : ~UpdateTokenExpiry(p, e)
    BY <1>3 DEF SetCooldown, UpdateTokenExpiry, Idle
  <2>2. ~ClearCooldown(p)
    BY <1>3, InProgressMarked DEF ClearCooldown
  <2>3. TokenAges(p)
    BY <2>1, <2>2 DEF Caller
  <2> QED
    BY <1>1, <2>3 DEF TokenAges, Entries
<1>4. UNCHANGED <<loops, slots>>
  BY DEF Caller, SetCooldown, ClearCooldown, TokenAges, UpdateTokenExpiry
<1> QED
  BY <1>2, <1>3, <1>4, ExclusiveElsewhere

LEMMA ListKeepsExclusive ==
  ASSUME TypeOK, Places, Exclusive, NEW l \in Loops, GetProfilesNeedingRefresh(l)
  PROVE  Exclusive'
<1>1. PICK over \in SUBSET {p \in Profiles : pool[p].status = "cooldown"} :
        pool' = ClearExpiredCooldowns(over)
  BY DEF GetProfilesNeedingRefresh
<1>2. ASSUME NEW p \in Profiles, InProgress(p) PROVE pool'[p].status = pool[p].status
  BY <1>1, <1>2, InProgressMarked DEF ClearExpiredCooldowns
<1>3. \A k \in Loops : loops'[k].pc = "spawn" => loops'[k] = loops[k]
  <2>1. loops[l] \in LoopStates /\ loops \in [Loops -> LoopStates]
    BY DEF TypeOK
  <2>2. loops'[l].pc = "next" /\ \A k \in Loops : k # l => loops'[k] = loops[k]
    BY <2>1 DEF GetProfilesNeedingRefresh, LoopStates
  <2> QED
    BY <2>2
<1> QED
  BY <1>2, <1>3, ExclusiveElsewhere DEF GetProfilesNeedingRefresh

\* The place of a loop in "spawn" is held, so no free place is busy.
LEMMA FreeNotBusy ==
  ASSUME TypeOK, Places, NEW s \in Slots, slots[s].pc \in {"free", "forced", "counted"}
  PROVE  ~Busy(s) /\ \A l \in Loops : loops[l].pc = "spawn" => loops[l].slot # s
<1>1. ~Busy(s)
  BY BusyTaken
<1> QED
  BY <1>1 DEF Busy

LEMMA TriggerKeepsExclusive ==
  ASSUME TypeOK, Places, Exclusive, NEW l \in Loops, Trigger(l)
  PROVE  Exclusive'
<1>1. loops \in [Loops -> LoopStates] /\ slots \in [Slots -> SlotStates]
  BY DEF TypeOK
<1>2. PICK p \in Profiles : Skips(l, p) \/ \E s \in Slots : Takes(l, p, s)
  BY TriggerCases
<1>3. pool' = pool /\ loops[l].pc = "next"
  BY TriggerCases
<1>4. ASSUME NEW s \in Slots, Takes(l, p, s) PROVE Exclusive'
  <2>1. slots[s].pc = "free"
    BY <1>4 DEF Takes, Free
  <2>2. loops'[l].pc = "mark" /\ \A k \in Loops : k # l => loops'[k] = loops[k]
    BY <1>1, <1>4 DEF Takes, LoopStates
  <2>3. slots'[s].pc = "held" /\ \A t \in Slots : t # s => slots'[t] = slots[t]
    BY <1>1, <1>4 DEF Takes
  <2>4. \A k \in Loops : loops'[k].pc = "spawn" => loops[k].pc = "spawn" /\ loops'[k].slot = loops[k].slot
    BY <2>2
  <2>5. \A k \in Loops : loops[k].pc = "spawn" => loops[k].slot # s
    BY <2>1, FreeNotBusy
  <2>6. \A t \in Slots : Busy(t)' => Busy(t) /\ t # s
    BY <2>3, <2>4, <2>5 DEF Busy, InFlight
  <2> QED
    BY <1>3, <2>3, <2>6, ExclusiveKept DEF Exclusive, Marked
<1>5. CASE Skips(l, p)
  <2>1. loops'[l].pc = "next" /\ \A k \in Loops : k # l => loops'[k] = loops[k]
    BY <1>1, <1>3, <1>5 DEF Skips, LoopStates
  <2>2. \A k \in Loops : loops'[k].pc = "spawn" => loops'[k] = loops[k]
    BY <2>1
  <2> QED
    BY <1>3, <1>5, <2>2, ExclusiveElsewhere DEF Skips
<1> QED
  BY <1>2, <1>4, <1>5

LEMMA MarkKeepsExclusive ==
  ASSUME TypeOK, Places, Exclusive, NEW l \in Loops, Mark(l)
  PROVE  Exclusive'
<1>1. loops \in [Loops -> LoopStates] /\ slots \in [Slots -> SlotStates]
  BY DEF TypeOK
<1>2. loops[l].p \in Profiles /\ loops[l].slot \in Slots /\ Triggering(loops[l])
  BY DEF TypeOK, Mark, Triggering
<1>3. \A k \in Loops : k # l => loops'[k] = loops[k]
  BY <1>1 DEF Mark, Back
<1>4. CASE TryMarkRefreshing(loops[l].p)
  <2>1. loops'[l].slot = loops[l].slot /\ slots' = slots
    BY <1>1, <1>4 DEF Mark, LoopStates
  <2>2. slots[loops[l].slot] = [pc |-> "held", p |-> loops[l].p]
    BY <1>2 DEF Places, HoldsPlace
  <2>3. slots'[loops[l].slot].p = loops[l].p
    BY <2>1, <2>2
  <2>4. \A s \in Slots : Busy(s)' => s = loops[l].slot \/ Busy(s)
    BY <1>3, <2>1 DEF Busy, InFlight
  <2>5. \A s \in Slots : Busy(s) => slots[s].p \in Profiles
    BY BusyTaken
  <2>6. pool' = MarkRefreshing(loops[l].p)
    BY <1>4 DEF Mark
  <2> QED
    BY <1>2, <1>4, <2>1, <2>3, <2>4, <2>5, <2>6, ExclusiveMarked
<1>5. CASE ~TryMarkRefreshing(loops[l].p)
  <2>1. pool' = pool /\ loops'[l].pc = "next"
    BY <1>1, <1>5 DEF Mark, Back, LoopStates
  <2>2. /\ slots'[loops[l].slot].pc = "free"
        /\ \A s \in Slots : s # loops[l].slot => slots'[s] = slots[s]
    BY <1>1, <1>2, <1>5 DEF Mark, MarkFails, Released, Free
  <2>3. \A k \in Loops : loops'[k].pc = "spawn" =>
          k # l /\ loops'[k] = loops[k] /\ loops[k].slot # loops[l].slot
    BY <1>2, <1>3, <2>1 DEF Places, OwnPlace, Triggering
  <2>4. \A s \in Slots : Busy(s)' => Busy(s) /\ s # loops[l].slot
    BY <2>2, <2>3 DEF Busy, InFlight
  <2> QED
    BY <2>1, <2>2, <2>4, ExclusiveKept DEF Exclusive, Marked
<1> QED
  BY <1>4, <1>5

LEMMA SpawnKeepsExclusive ==
  ASSUME TypeOK, Places, Exclusive, NEW l \in Loops, Spawn(l)
  PROVE  Exclusive'
<1> DEFINE p == loops[l].p
           s == loops[l].slot
<1>1. /\ loops \in [Loops -> LoopStates] /\ slots \in [Slots -> SlotStates]
      /\ pool \in [Profiles -> Entries]
  BY DEF TypeOK
<1>2. p \in Profiles /\ s \in Slots /\ Triggering(loops[l]) /\ loops[l].pc = "spawn"
  BY DEF TypeOK, Spawn, Triggering
<1>3. loops'[l].pc = "next" /\ \A k \in Loops : k # l => loops'[k] = loops[k]
  BY <1>1 DEF Spawn, Back, LoopStates
<1>4. \A k \in Loops : loops'[k].pc = "spawn" =>
        loops'[k] = loops[k] /\ loops[k].slot # s
  BY <1>2, <1>3 DEF Places, OwnPlace, Triggering
<1>5. slots[s].p = p /\ Busy(s)
  <2>1. slots[s] = [pc |-> "held", p |-> p]
    BY <1>2 DEF Places, HoldsPlace
  <2> QED
    BY <1>2, <2>1 DEF Busy
<1> HIDE DEF p, s
<1>6. CASE Stopping
  <2>1. slots'[s].pc = "free" /\ \A t \in Slots : t # s => slots'[t] = slots[t]
    BY <1>1, <1>2, <1>6 DEF Spawn, Released, Free, s
  <2>2. \A t \in Slots : Busy(t)' => Busy(t) /\ t # s
    BY <1>4, <2>1 DEF Busy, InFlight
  <2>3. \A q \in Profiles : q # p => pool'[q] = pool[q]
    BY <1>1, <1>6 DEF Spawn, Revert, SetStatus, p
  <2>4. \A t \in Slots : Busy(t) /\ t # s => slots[t].p \in Profiles \ {p}
    BY <1>2, <1>5, BusyTaken DEF Exclusive, OneBusy
  <2> QED
    BY <2>1, <2>2, <2>3, <2>4, ExclusiveKept DEF Exclusive, Marked
<1>7. CASE ~Stopping
  <2>1. pool' = pool
    BY <1>7 DEF Spawn
  <2>2. /\ \A t \in Slots : slots'[t].p = slots[t].p
        /\ \A t \in Slots : t # s => slots'[t] = slots[t]
    BY <1>1, <1>7 DEF Spawn, SlotStates, s
  <2>3. \A t \in Slots : Busy(t)' => Busy(t)
    BY <1>4, <1>5, <2>2 DEF Busy, InFlight
  <2> QED
    BY <2>1, <2>2, <2>3, ExclusiveKept DEF Exclusive, Marked
<1> QED
  BY <1>6, <1>7

LEMMA SlotKeepsExclusive ==
  ASSUME TypeOK, Places, Exclusive, NEW s \in Slots, Slot(s)
  PROVE  Exclusive'
<1>1. /\ slots \in [Slots -> SlotStates] /\ slots[s] \in SlotStates
      /\ pool \in [Profiles -> Entries]
  BY DEF TypeOK
<1>2. loops' = loops
  BY DEF Slot, ForceRefresh, ForceJoin, ForceMark, DoRefresh, RefreshEnds
<1>3. \A t \in Slots : t # s => slots'[t] = slots[t]
  BY <1>1 DEF Slot, ForceRefresh, ForceJoin, ForceMark, DoRefresh, RefreshEnds, Released
<1>4. \A t \in Slots : t # s => (Busy(t)' <=> Busy(t))
  BY <1>2, <1>3 DEF Busy, InFlight
<1>5. slots[s].pc \in {"free", "forced", "counted"} =>
        \A l \in Loops : loops[l].pc = "spawn" => loops[l].slot # s
  BY FreeNotBusy
<1>6. CASE (\E p \in Profiles : ForceRefresh(s, p)) \/ ForceJoin(s)
  <2>1. slots[s].pc \in {"free", "forced"} /\ pool' = pool
    BY <1>6 DEF ForceRefresh, ForceJoin, Free
  <2>2. slots'[s].pc \in {"free", "forced", "counted"}
    BY <1>1, <1>6 DEF ForceRefresh, ForceJoin, Released, Free, SlotStates
  <2>3. ~Busy(s)'
    BY <1>2, <1>5, <2>1, <2>2 DEF Busy, InFlight
  <2> QED
    BY <1>3, <1>4, <2>1, <2>3, ExclusiveKept DEF Exclusive, Marked
<1>7. CASE ForceMark(s) /\ TryMarkRefreshing(slots[s].p)
  <2>1. /\ slots[s].p \in Profiles /\ slots'[s].p = slots[s].p
        /\ pool' = MarkRefreshing(slots[s].p)
    BY <1>1, <1>7 DEF ForceMark, SlotStates, TypeOK
  <2>2. \A t \in Slots : Busy(t) => slots[t].p \in Profiles
    BY BusyTaken
  <2> QED
    BY <1>3, <1>4, <1>7, <2>1, <2>2, ExclusiveMarked
<1>8. CASE ForceMark(s) /\ ~TryMarkRefreshing(slots[s].p)
  <2>1. slots[s].pc = "counted" /\ slots'[s].pc = "free" /\ pool' = pool
    BY <1>1, <1>8 DEF ForceMark, Released, Free
  <2>2. ~Busy(s)'
    BY <1>2, <1>5, <2>1 DEF Busy, InFlight
  <2> QED
    BY <1>3, <1>4, <2>1, <2>2, ExclusiveKept DEF Exclusive, Marked
<1>9. CASE DoRefresh(s)
  <2>1. slots[s].p \in Profiles /\ slots'[s].p = slots[s].p /\ Busy(s)
    BY <1>1, <1>9 DEF DoRefresh, SlotStates, TypeOK, Busy, InFlight
  <2>2. /\ pool'[slots[s].p].status = "refreshing"
        /\ \A q \in Profiles : q # slots[s].p => pool'[q] = pool[q]
    BY <1>1, <1>9, <2>1 DEF DoRefresh, SetStatus, Entries
  <2>3. \A t \in Slots : Busy(t) => slots[t].p \in Profiles
    BY BusyTaken
  <2> QED
    BY <1>3, <1>4, <2>1, <2>2, <2>3, ExclusiveKept DEF Exclusive, Marked
<1>10. CASE RefreshEnds(s)
  <2>1. /\ slots[s].p \in Profiles /\ slots[s].pc = "refresh" /\ Busy(s)
        /\ slots'[s].pc = "free"
    BY <1>1, <1>10 DEF RefreshEnds, Released, Free, TypeOK, Busy, InFlight
  <2>2. \A q \in Profiles : q # slots[s].p => pool'[q] = pool[q]
    BY <1>1, <1>10 DEF RefreshEnds, SetError, MarkRefreshed
  <2>3. \A l \in Loops : loops[l].pc = "spawn" => loops[l].slot # s
    <3>1. ASSUME NEW l \in Loops, loops[l].pc = "spawn", loops[l].slot = s PROVE FALSE
      <4>1. slots[s] = [pc |-> "held", p |-> loops[l].p]
        BY <3>1 DEF Places, HoldsPlace, Triggering
      <4> QED
        BY <2>1, <4>1
    <3> QED
      BY <3>1
  <2>4. ~Busy(s)'
    BY <1>2, <2>1, <2>3 DEF Busy, InFlight
  <2>5. \A t \in Slots : Busy(t) /\ t # s => slots[t].p \in Profiles \ {slots[s].p}
    BY <2>1, BusyTaken DEF Exclusive, OneBusy
  <2> QED
    BY <1>3, <1>4, <2>2, <2>4, <2>5, ExclusiveKept DEF Exclusive, Marked
<1> QED
  BY <1>6, <1>7, <1>8, <1>9, <1>10 DEF Slot

LEMMA LoopKeepsExclusive ==
  ASSUME TypeOK, Places, Exclusive, NEW l \in Loops, Loop(l)
  PROVE  Exclusive'
<1>1. CASE Start(l) \/ RefreshAll(l) \/ CheckDone(l) \/ Tick(l) \/ LoopEnds(l)
  <2>1. loops \in [Loops -> LoopStates]
    BY DEF TypeOK
  <2>2. /\ loops'[l].pc \in {"off", "select", "list"}
        /\ \A k \in Loops : k # l => loops'[k] = loops[k]
    <3>1. CASE Start(l) \/ RefreshAll(l)
      BY <2>1, <3>1 DEF Start, RefreshAll, Off
    <3>2. CASE CheckDone(l) \/ LoopEnds(l)
      <4>1. Off.pc = "off" /\ [Off EXCEPT !.pc = "select", !.ch = channel].pc = "select"
        BY DEF Off
      <4> QED
        BY <2>1, <3>2, <4>1 DEF CheckDone, LoopEnds
    <3>3. CASE Tick(l)
      BY <2>1, <3>3 DEF Tick, LoopStates
    <3> QED
      BY <1>1, <3>1, <3>2, <3>3
  <2>3. \A k \in Loops : loops'[k].pc = "spawn" => loops'[k] = loops[k]
    BY <2>2
  <2>4. UNCHANGED <<pool, slots>>
    BY <1>1 DEF Start, RefreshAll, CheckDone, Tick, LoopEnds
  <2> QED
    BY <2>3, <2>4, ExclusiveElsewhere
<1> QED
  BY <1>1, ListKeepsExclusive, TriggerKeepsExclusive, MarkKeepsExclusive,
     SpawnKeepsExclusive DEF Loop

LEMMA NextKeepsExclusive ==
  ASSUME Polite, TypeOK, Places, Exclusive, [Next]_vars
  PROVE  Exclusive'
<1>1. CASE Stop \/ StopReturns \/ UNCHANGED vars
  BY <1>1, ExclusiveElsewhere DEF Stop, StopReturns, vars
<1>2. CASE Restart
  <2>1. /\ \A l \in Loops : loops'[l].pc = "off"
        /\ \A s \in Slots : slots'[s].pc = "free"
    BY <1>2 DEF Restart, Off, Free
  <2>2. \A s \in Slots : ~Busy(s)'
    BY <2>1 DEF Busy, InFlight
  <2> QED
    BY <2>2 DEF Exclusive, Marked, OneBusy
<1> QED
  BY <1>1, <1>2, CallersKeepExclusive, LoopKeepsExclusive, SlotKeepsExclusive DEF Next

\* As long as nobody else changes the entry of a profile which is being
\* refreshed, no two refreshes of a profile are ever in flight, for any number
\* of profiles, loops, places and restarts: TryMarkRefreshing admits one, and
\* the mark stays until that one ends or is reverted.
THEOREM RefreshIsExclusive == ASSUME Polite PROVE Spec => []OneRefresh
<1>1. Init => TypeOK /\ Places /\ Exclusive
  <2>1. ASSUME Init PROVE Exclusive
    <3>1. /\ \A l \in Loops : loops[l].pc = "off"
          /\ \A s \in Slots : slots[s].pc = "free"
      BY <2>1 DEF Init, Off, Free
    <3> QED
      BY <3>1 DEF Exclusive, Marked, OneBusy, Busy, InFlight
  <2> QED
    BY <2>1, TypeInit, PlacesInit
<1>2. TypeOK /\ Places /\ Exclusive /\ [Next]_vars => (TypeOK /\ Places /\ Exclusive)'
  BY NextKeepsPlaces, NextKeepsExclusive
<1>3. Exclusive => OneRefresh
  BY DEF Exclusive, OneBusy, OneRefresh, Busy
<1> QED
  BY <1>1, <1>2, <1>3, PTL DEF Spec

-----------------------------------------------------------------------------
(* What is left of a refresh that did not end well.                        *)

\* The status a loop would put back is one from before the mark.
Snapshots == \A l \in Loops : \A p \in Profiles : loops[l].was[p] # "refreshing"

\* A step that marks no entry except for a refresh it starts, and that ends no
\* refresh of an entry it leaves marked without counting an error.
LEMMA ExplainedKept ==
  ASSUME StuckOnlyWhenExplained,
         \A p \in Profiles : pool'[p].status = "refreshing" =>
           \/ InProgress(p)' \/ pool'[p].errors > 0
           \/ /\ pool[p].status = "refreshing"
              /\ pool'[p].errors = pool[p].errors
              /\ pool[p].caught => pool'[p].caught
              /\ InProgress(p) => InProgress(p)'
  PROVE  StuckOnlyWhenExplained'
BY DEF StuckOnlyWhenExplained

\* A step that lets every refresh in flight and every one about to start be.
LEMMA InProgressKept ==
  ASSUME NEW p \in Profiles, InProgress(p),
         \A s \in Slots : InFlight(s) => InFlight(s)' /\ slots'[s].p = slots[s].p,
         \A l \in Loops : loops[l].pc = "spawn" => loops'[l] = loops[l]
  PROVE  InProgress(p)'
BY DEF InProgress, Unlooked

LEMMA CallersKeepExplained ==
  ASSUME TypeOK, Snapshots, StuckOnlyWhenExplained, NEW p \in Profiles, Caller(p)
  PROVE  Snapshots' /\ StuckOnlyWhenExplained'
<1>1. pool \in [Profiles -> Entries] /\ pool[p] \in Entries
  BY DEF TypeOK
<1>2. UNCHANGED <<loops, slots>>
  BY DEF Caller, SetCooldown, ClearCooldown, TokenAges, UpdateTokenExpiry
<1>3. \A q \in Profiles : InProgress(q) => InProgress(q)'
  BY <1>2 DEF InProgress, Unlooked, InFlight
<1>4. \A q \in Profiles : q # p => pool'[q] = pool[q]
  BY <1>1 DEF Caller, SetCooldown, ClearCooldown, TokenAges, UpdateTokenExpiry
<1>5. pool'[p].errors = pool[p].errors /\ pool'[p].caught = pool[p].caught
      /\ (pool'[p].status = "refreshing" => pool[p].status = "refreshing")
  <2>1. CASE SetCooldown(p) \/ ClearCooldown(p) \/ TokenAges(p)
    BY <1>1, <2>1 DEF SetCooldown, ClearCooldown, TokenAges, Entries
  <2>2. ASSUME NEW e, UpdateTokenExpiry(p, e)
        PROVE  pool'[p].errors = pool[p].errors /\ pool'[p].caught = pool[p].caught
               /\ (pool'[p].status = "refreshing" => pool[p].status = "refreshing")
    BY <1>1, <2>2 DEF UpdateTokenExpiry, Entries
  <2> QED
    BY <2>1, <2>2 DEF Caller
<1>6. StuckOnlyWhenExplained'
  BY <1>3, <1>4, <1>5, ExplainedKept
<1> QED
  BY <1>2, <1>6 DEF Snapshots

\* A loop that is not about to start a refresh moves, and no entry changes.
LEMMA LoopMoves ==
  ASSUME TypeOK, Snapshots, StuckOnlyWhenExplained, NEW l \in Loops, loops[l].pc # "spawn",
         \A k \in Loops : k # l => loops'[k] = loops[k],
         \A p \in Profiles : loops'[l].was[p] # "refreshing",
         UNCHANGED pool,
         \A s \in Slots : InFlight(s) => InFlight(s)' /\ slots'[s].p = slots[s].p
  PROVE  Snapshots' /\ StuckOnlyWhenExplained'
<1>1. \A p \in Profiles : InProgress(p) => InProgress(p)'
  BY InProgressKept
<1>2. StuckOnlyWhenExplained'
  BY <1>1, ExplainedKept
<1> QED
  BY <1>2 DEF Snapshots

LEMMA ListKeepsExplained ==
  ASSUME TypeOK, Snapshots, StuckOnlyWhenExplained, NEW l \in Loops, GetProfilesNeedingRefresh(l)
  PROVE  Snapshots' /\ StuckOnlyWhenExplained'
<1>1. PICK over \in SUBSET {p \in Profiles : pool[p].status = "cooldown"} :
        pool' = ClearExpiredCooldowns(over)
  BY DEF GetProfilesNeedingRefresh
<1>2. loops[l] \in LoopStates /\ loops \in [Loops -> LoopStates] /\ pool \in [Profiles -> Entries]
  BY DEF TypeOK
<1>3. \A p \in Profiles : pool'[p].status = "refreshing" => pool'[p] = pool[p]
  BY <1>1, <1>2 DEF ClearExpiredCooldowns, Entries
<1> DEFINE todo == {p \in Profiles : NeedsRefresh(p)'}
           was == [p \in Profiles |-> IF p \in todo THEN pool'[p].status ELSE "unknown"]
<1>4. \A p \in Profiles : was[p] # "refreshing"
  BY DEF NeedsRefresh
<1>5. loops' = [loops EXCEPT ![l] = [loops[l] EXCEPT !.pc = "next", !.todo = todo, !.was = was]]
  BY DEF GetProfilesNeedingRefresh
<1> DEFINE r == [loops[l] EXCEPT !.pc = "next", !.todo = todo, !.was = was]
<1> HIDE DEF todo, was
<1>6. /\ loops'[l].was = was
      /\ \A k \in Loops : k # l => loops'[k] = loops[k]
      /\ \A k \in Loops : loops[k].pc = "spawn" => loops'[k] = loops[k]
  <2>1. r.was = was
    BY <1>2 DEF LoopStates
  <2>2. loops' = [loops EXCEPT ![l] = r]
    BY <1>5
  <2>3. loops[l].pc # "spawn"
    BY DEF GetProfilesNeedingRefresh
  <2> HIDE DEF r
  <2> QED
    BY <1>2, <2>1, <2>2, <2>3
<1>7. Snapshots'
  BY <1>4, <1>6 DEF Snapshots
<1>8. \A p \in Profiles : InProgress(p) => InProgress(p)'
  <2>1. \A s \in Slots : InFlight(s) => InFlight(s)' /\ slots'[s].p = slots[s].p
    BY DEF GetProfilesNeedingRefresh, InFlight
  <2> QED
    BY <1>6, <2>1, InProgressKept
<1> QED
  BY <1>3, <1>7, <1>8, ExplainedKept

LEMMA TriggerKeepsExplained ==
  ASSUME TypeOK, Snapshots, StuckOnlyWhenExplained, NEW l \in Loops, Trigger(l)
  PROVE  Snapshots' /\ StuckOnlyWhenExplained'
<1>1. /\ loops \in [Loops -> LoopStates] /\ slots \in [Slots -> SlotStates]
      /\ loops[l] \in LoopStates
  BY DEF TypeOK
<1>2. pool' = pool /\ loops[l].pc = "next"
  BY TriggerCases
<1>3. PICK p \in Profiles : Skips(l, p) \/ \E s \in Slots : Takes(l, p, s)
  BY TriggerCases
<1>4. \A q \in Profiles : loops[l].was[q] # "refreshing"
  BY DEF Snapshots
<1>5. CASE Skips(l, p)
  <2>1. /\ loops'[l].was = [loops[l].was EXCEPT ![p] = "unknown"]
        /\ \A k \in Loops : k # l => loops'[k] = loops[k]
    BY <1>1, <1>5 DEF Skips, LoopStates
  <2>2. \A q \in Profiles : loops'[l].was[q] # "refreshing"
    BY <1>1, <1>4, <2>1 DEF LoopStates
  <2>3. \A s \in Slots : InFlight(s) => InFlight(s)' /\ slots'[s].p = slots[s].p
    BY <1>5 DEF Skips, InFlight
  <2> QED
    BY <1>2, <2>1, <2>2, <2>3, LoopMoves
<1>6. ASSUME NEW s \in Slots, Takes(l, p, s) PROVE Snapshots' /\ StuckOnlyWhenExplained'
  <2>1. /\ loops'[l].was = loops[l].was
        /\ \A k \in Loops : k # l => loops'[k] = loops[k]
    BY <1>1, <1>6 DEF Takes, LoopStates
  <2>2. \A t \in Slots : t # s => slots'[t] = slots[t]
    BY <1>1, <1>6 DEF Takes
  <2>3. ~InFlight(s)
    BY <1>6 DEF Takes, InFlight, Free
  <2>4. \A t \in Slots : InFlight(t) => InFlight(t)' /\ slots'[t].p = slots[t].p
    BY <2>2, <2>3 DEF InFlight
  <2> QED
    BY <1>2, <1>4, <2>1, <2>4, LoopMoves
<1> QED
  BY <1>3, <1>5, <1>6

\* Back forgets the status of the profile it has done with.
LEMMA BackForgets ==
  ASSUME TypeOK, Snapshots, NEW l \in Loops, loops' = Back(l)
  PROVE  Snapshots' /\ \A k \in Loops : k # l => loops'[k] = loops[k]
<1>1. loops \in [Loops -> LoopStates] /\ loops[l] \in LoopStates
  BY DEF TypeOK
<1>2. /\ loops'[l].was = [loops[l].was EXCEPT ![loops[l].p] = "unknown"]
      /\ \A k \in Loops : k # l => loops'[k] = loops[k]
  <2> DEFINE r == [loops[l] EXCEPT !.pc = "next", !.p = NoProfile, !.slot = NoSlot,
                                   !.was[loops[l].p] = "unknown"]
  <2>1. r.was = [loops[l].was EXCEPT ![loops[l].p] = "unknown"]
    BY <1>1 DEF LoopStates
  <2>2. loops' = [loops EXCEPT ![l] = r]
    BY <1>1 DEF Back, LoopStates
  <2> HIDE DEF r
  <2> QED
    BY <1>1, <2>1, <2>2
<1>3. \A q \in Profiles : loops[l].was[q] # "refreshing"
  BY DEF Snapshots
<1>4. \A q \in Profiles : loops'[l].was[q] # "refreshing"
  <2>1. loops[l].was \in [Profiles -> Statuses]
    BY <1>1 DEF LoopStates
  <2> QED
    BY <1>2, <1>3, <2>1
<1>5. \A k \in Loops : k # l => loops'[k] = loops[k]
  BY <1>2
<1>6. Snapshots'
  BY <1>4, <1>5 DEF Snapshots
<1> QED
  BY <1>5, <1>6

LEMMA MarkKeepsExplained ==
  ASSUME TypeOK, Places, Snapshots, StuckOnlyWhenExplained, NEW l \in Loops, Mark(l)
  PROVE  Snapshots' /\ StuckOnlyWhenExplained'
<1>1. /\ loops \in [Loops -> LoopStates] /\ slots \in [Slots -> SlotStates]
      /\ loops[l] \in LoopStates /\ pool \in [Profiles -> Entries]
  BY DEF TypeOK
<1>2. loops[l].p \in Profiles /\ loops[l].slot \in Slots /\ loops[l].pc = "mark"
  BY DEF TypeOK, Mark
<1>3. CASE TryMarkRefreshing(loops[l].p)
  <2>0. PICK p \in Profiles : p = loops[l].p
    BY <1>2
  <2>1. /\ loops'[l].was = loops[l].was /\ loops'[l].pc = "spawn" /\ loops'[l].p = loops[l].p
        /\ \A k \in Loops : k # l => loops'[k] = loops[k]
        /\ slots' = slots
    BY <1>1, <1>3 DEF Mark, LoopStates
  <2>2. \A q \in Profiles : q # p => pool'[q] = pool[q]
    BY <1>1, <1>3, <2>0, MarkType DEF Mark, PoolOK
  <2>3. InProgress(p)'
    BY <2>0, <2>1 DEF InProgress, Unlooked
  <2>4. \A q \in Profiles : InProgress(q) => InProgress(q)'
    <3>1. \A s \in Slots : InFlight(s) => InFlight(s)' /\ slots'[s].p = slots[s].p
      BY <2>1 DEF InFlight
    <3>2. \A k \in Loops : loops[k].pc = "spawn" => loops'[k] = loops[k]
      BY <1>2, <2>1
    <3> QED
      BY <3>1, <3>2, InProgressKept
  <2>5. StuckOnlyWhenExplained'
    BY <2>2, <2>3, <2>4, ExplainedKept
  <2> QED
    BY <2>1, <2>5 DEF Snapshots
<1>4. CASE ~TryMarkRefreshing(loops[l].p)
  <2>1. pool' = pool /\ loops' = Back(l)
    BY <1>4 DEF Mark
  <2>2. \A s \in Slots : s # loops[l].slot => slots'[s] = slots[s]
    BY <1>1, <1>4 DEF Mark, MarkFails, Released
  <2>3. ~InFlight(loops[l].slot)
    <3>1. slots[loops[l].slot] = [pc |-> "held", p |-> loops[l].p]
      BY <1>2 DEF Places, HoldsPlace, Triggering
    <3> QED
      BY <3>1 DEF InFlight
  <2>4. \A s \in Slots : InFlight(s) => InFlight(s)' /\ slots'[s].p = slots[s].p
    BY <2>2, <2>3 DEF InFlight
  <2>5. Snapshots' /\ \A k \in Loops : k # l => loops'[k] = loops[k]
    BY <2>1, BackForgets
  <2> QED
    BY <1>2, <2>1, <2>4, <2>5, LoopMoves DEF Snapshots
<1> QED
  BY <1>3, <1>4

LEMMA SpawnKeepsExplained ==
  ASSUME TypeOK, Places, Snapshots, StuckOnlyWhenExplained, NEW l \in Loops, Spawn(l)
  PROVE  Snapshots' /\ StuckOnlyWhenExplained'
<1>1. /\ loops \in [Loops -> LoopStates] /\ slots \in [Slots -> SlotStates]
      /\ pool \in [Profiles -> Entries]
  BY DEF TypeOK
<1>2. PICK p \in Profiles, s \in Slots : p = loops[l].p /\ s = loops[l].slot /\ loops[l].pc = "spawn"
  BY DEF TypeOK, Spawn
<1>3. Snapshots' /\ \A k \in Loops : k # l => loops'[k] = loops[k]
  BY BackForgets DEF Spawn
<1>4. slots[s].p = p /\ slots[s].pc = "held"
  <2>1. slots[s] = [pc |-> "held", p |-> p]
    BY <1>2 DEF Places, HoldsPlace, Triggering
  <2> QED
    BY <2>1
<1>5. loops[l].was[p] # "refreshing"
  BY <1>2 DEF Snapshots
<1>6. ASSUME NEW q \in Profiles, q # p, InProgress(q),
             \A t \in Slots : t # s => slots'[t] = slots[t]
      PROVE  InProgress(q)'
  <2>1. \A t \in Slots : InFlight(t) => t # s
    BY <1>4 DEF InFlight
  <2>2. \A k \in Loops : loops[k].pc = "spawn" /\ loops[k].p = q => k # l
    BY <1>2, <1>6
  <2> QED
    BY <1>3, <1>6, <2>1, <2>2 DEF InProgress, Unlooked, InFlight
<1>7. CASE Stopping
  <2>1. \A t \in Slots : t # s => slots'[t] = slots[t]
    BY <1>1, <1>2, <1>7 DEF Spawn, Released
  <2>2. pool' = SetStatus(p, loops[l].was[p])
    BY <1>2, <1>5, <1>7 DEF Spawn, Revert
  <2>3. pool'[p].status # "refreshing" /\ \A q \in Profiles : q # p => pool'[q] = pool[q]
    BY <1>1, <1>2, <1>5, <2>2 DEF SetStatus, Entries
  <2> QED
    BY <1>3, <1>6, <2>1, <2>3, ExplainedKept
<1>8. CASE ~Stopping
  <2>1. pool' = pool /\ \A t \in Slots : t # s => slots'[t] = slots[t]
    BY <1>1, <1>2, <1>8 DEF Spawn
  <2>2. slots'[s].p = p /\ slots'[s].pc = "run"
    BY <1>1, <1>2, <1>4, <1>8 DEF Spawn, SlotStates
  <2>3. InProgress(p)'
    BY <1>2, <2>2 DEF InProgress, Unlooked, InFlight
  <2> QED
    BY <1>3, <1>6, <2>1, <2>3, ExplainedKept
<1> QED
  BY <1>7, <1>8

LEMMA LoopKeepsExplained ==
  ASSUME TypeOK, Places, Snapshots, StuckOnlyWhenExplained, NEW l \in Loops, Loop(l)
  PROVE  Snapshots' /\ StuckOnlyWhenExplained'
<1>1. CASE Start(l) \/ RefreshAll(l) \/ CheckDone(l) \/ Tick(l) \/ LoopEnds(l)
  <2>1. loops \in [Loops -> LoopStates]
    BY DEF TypeOK
  <2>2. loops[l].pc # "spawn" /\ UNCHANGED <<pool, slots>>
    BY <1>1 DEF Start, RefreshAll, CheckDone, Tick, LoopEnds
  <2>3. /\ loops'[l].was \in {Nothing, loops[l].was}
        /\ \A k \in Loops : k # l => loops'[k] = loops[k]
    <3>1. CASE Start(l) \/ RefreshAll(l)
      BY <2>1, <3>1 DEF Start, RefreshAll, Off
    <3>2. CASE CheckDone(l) \/ LoopEnds(l)
      <4>1. Off.was = Nothing /\ [Off EXCEPT !.pc = "select", !.ch = channel].was = Nothing
        BY DEF Off
      <4> QED
        BY <2>1, <3>2, <4>1 DEF CheckDone, LoopEnds
    <3>3. CASE Tick(l)
      BY <2>1, <3>3 DEF Tick, LoopStates
    <3> QED
      BY <1>1, <3>1, <3>2, <3>3
  <2>4. \A p \in Profiles : loops'[l].was[p] # "refreshing"
    BY <2>3 DEF Nothing, Snapshots
  <2>5. \A s \in Slots : InFlight(s) => InFlight(s)' /\ slots'[s].p = slots[s].p
    BY <2>2 DEF InFlight
  <2> QED
    BY <2>2, <2>3, <2>4, <2>5, LoopMoves
<1> QED
  BY <1>1, ListKeepsExplained, TriggerKeepsExplained, MarkKeepsExplained,
     SpawnKeepsExplained DEF Loop

\* A failed refresh counts an error, so the mark it leaves is explained.
LEMMA ErrorCounts ==
  ASSUME TypeOK, NEW p \in Profiles, pool' = SetError(p)
  PROVE  pool'[p].errors > 0 /\ \A q \in Profiles : q # p => pool'[q] = pool[q]
<1>1. pool \in [Profiles -> Entries] /\ pool[p].errors \in 0 .. MaxRetries
  BY DEF TypeOK, Entries
<1> DEFINE n == IF pool[p].errors < MaxRetries THEN pool[p].errors + 1 ELSE MaxRetries
<1>2. n > 0
  BY <1>1, PoolAssumption
<1> HIDE DEF n
<1>3. pool' = [pool EXCEPT ![p].errors = n,
                 ![p].status = IF n >= MaxRetries THEN "error" ELSE pool[p].status]
  BY DEF SetError, n
<1>4. pool'[p].errors = n /\ \A q \in Profiles : q # p => pool'[q] = pool[q]
  BY <1>1, <1>3 DEF Entries
<1> QED
  BY <1>2, <1>4

LEMMA SlotKeepsExplained ==
  ASSUME TypeOK, Snapshots, StuckOnlyWhenExplained, NEW s \in Slots, Slot(s)
  PROVE  Snapshots' /\ StuckOnlyWhenExplained'
<1>1. /\ slots \in [Slots -> SlotStates] /\ slots[s] \in SlotStates
      /\ pool \in [Profiles -> Entries]
  BY DEF TypeOK
<1>2. loops' = loops
  BY DEF Slot, ForceRefresh, ForceJoin, ForceMark, DoRefresh, RefreshEnds
<1>3. \A t \in Slots : t # s => slots'[t] = slots[t]
  BY <1>1 DEF Slot, ForceRefresh, ForceJoin, ForceMark, DoRefresh, RefreshEnds, Released
<1>4. ASSUME NEW q \in Profiles, InProgress(q), ~InFlight(s) \/ slots[s].p # q
      PROVE  InProgress(q)'
  BY <1>2, <1>3, <1>4 DEF InProgress, Unlooked, InFlight
<1>5. CASE \/ \E p \in Profiles : ForceRefresh(s, p)
           \/ ForceJoin(s)
           \/ ForceMark(s) /\ ~TryMarkRefreshing(slots[s].p)
  <2>1. ~InFlight(s) /\ pool' = pool
    BY <1>5 DEF ForceRefresh, ForceJoin, ForceMark, Free, InFlight
  <2> QED
    BY <1>2, <1>4, <2>1, ExplainedKept DEF Snapshots
<1>6. CASE ForceMark(s) /\ TryMarkRefreshing(slots[s].p)
  <2>1. PICK p \in Profiles : p = slots[s].p /\ ~InFlight(s)
    BY <1>6 DEF ForceMark, TypeOK, InFlight
  <2>2. slots'[s].pc = "run" /\ slots'[s].p = p
    BY <1>1, <2>1, <1>6 DEF ForceMark, SlotStates
  <2>3. \A q \in Profiles : q # p => pool'[q] = pool[q]
    BY <1>1, <2>1, <1>6, MarkType DEF ForceMark, PoolOK
  <2>4. InProgress(p)'
    BY <2>2 DEF InProgress, Unlooked, InFlight
  <2> QED
    BY <1>2, <1>4, <2>1, <2>3, <2>4, ExplainedKept DEF Snapshots
<1>7. CASE DoRefresh(s)
  <2>1. PICK p \in Profiles : p = slots[s].p
    BY <1>7 DEF DoRefresh, TypeOK
  <2>2. slots'[s].pc = "refresh" /\ slots'[s].p = p
    BY <1>1, <2>1, <1>7 DEF DoRefresh, SlotStates
  <2>3. \A q \in Profiles : q # p => pool'[q] = pool[q]
    BY <1>1, <2>1, <1>7 DEF DoRefresh, SetStatus
  <2>4. InProgress(p)'
    BY <2>2 DEF InProgress, Unlooked, InFlight
  <2> QED
    BY <1>2, <1>4, <2>1, <2>3, <2>4, ExplainedKept DEF Snapshots
<1>8. CASE RefreshEnds(s)
  <2>1. slots[s].p \in Profiles
    BY <1>8 DEF RefreshEnds, TypeOK
  <2>2. /\ pool'[slots[s].p].status = "refreshing" => pool'[slots[s].p].errors > 0
        /\ \A q \in Profiles : q # slots[s].p => pool'[q] = pool[q]
    <3>1. CASE pool' = SetError(slots[s].p)
      BY <2>1, <3>1, ErrorCounts
    <3>2. CASE pool' = MarkRefreshed(slots[s].p)
      BY <1>1, <2>1, <3>2 DEF MarkRefreshed, Entries
    <3> QED
      BY <1>8, <3>1, <3>2 DEF RefreshEnds
  <2> QED
    BY <1>2, <1>4, <2>2, ExplainedKept DEF Snapshots
<1> QED
  BY <1>5, <1>6, <1>7, <1>8 DEF Slot

\* The daemon exits when Stop has returned, so no refresh is in flight; a loop
\* that has marked an entry and not seen the stop is caught by the save.
LEMMA RestartKeepsExplained ==
  ASSUME TypeOK, Drained, StuckOnlyWhenExplained, Restart
  PROVE  Snapshots' /\ StuckOnlyWhenExplained'
<1>1. \A s \in Slots : ~InFlight(s)
  BY DEF Restart, Drained, Counted, InFlight
<1>2. pool \in [Profiles -> Entries]
  BY DEF TypeOK
<1>3. \A p \in Profiles :
        /\ pool'[p].status = pool[p].status /\ pool'[p].errors = pool[p].errors
        /\ pool'[p].caught = (pool[p].caught \/ (pool[p].status = "refreshing" /\ Unlooked(p)))
  BY <1>2 DEF Restart, Entries
<1>4. StuckOnlyWhenExplained'
  BY <1>1, <1>3 DEF StuckOnlyWhenExplained, InProgress
<1> QED
  BY <1>4 DEF Restart, Snapshots, Off, Nothing

LEMMA NextKeepsExplained ==
  ASSUME TypeOK, Places, Drained, Snapshots, StuckOnlyWhenExplained, [Next]_vars
  PROVE  Snapshots' /\ StuckOnlyWhenExplained'
<1>1. CASE Stop \/ StopReturns \/ UNCHANGED vars
  BY <1>1 DEF Stop, StopReturns, vars, Snapshots, StuckOnlyWhenExplained, InProgress, Unlooked, InFlight
<1> QED
  BY <1>1, RestartKeepsExplained, CallersKeepExplained, LoopKeepsExplained,
     SlotKeepsExplained DEF Next

\* Whatever stops, restarts and collides, and whoever changes entries meanwhile,
\* an entry stays marked as refreshing with no refresh in progress only where a
\* refresh failed or a save caught the mark of a loop: a loop that finds the
\* monitor stopping puts back a status from before its own mark.
THEOREM MarksAreExplained == Spec => []StuckOnlyWhenExplained
<1>1. Init => TypeOK /\ Places /\ Drained /\ Snapshots /\ StuckOnlyWhenExplained
  <2>1. ASSUME Init PROVE Drained /\ Snapshots /\ StuckOnlyWhenExplained
    BY <2>1 DEF Init, Drained, Snapshots, StuckOnlyWhenExplained, Off, Nothing, Added
  <2> QED
    BY <2>1, TypeInit, PlacesInit
<1>2. TypeOK /\ Places /\ Drained /\ Snapshots /\ StuckOnlyWhenExplained /\ [Next]_vars
        => (TypeOK /\ Places /\ Drained /\ Snapshots /\ StuckOnlyWhenExplained)'
  BY NextKeepsPlaces, NextKeepsDrained, NextKeepsExplained
<1> QED
  BY <1>1, <1>2, PTL DEF Spec

-----------------------------------------------------------------------------
(* The PID file.                                                           *)

Points == {"unborn", "alive", "unlink", "open", "lock", "read", "truncate", "write", "running",
           "stopping", "remove", "dead"}
Whys == {"none", "no number", "running", "stopped", "early", "crashed"}
DaemonStates == [pc : Points, file : 0 .. files, saw : Pids, why : Whys]
CmdStates == [pc : {"unborn", "alive", "unlink", "signal", "wait", "done"}, saw : Pids]

\* From Lock to Unlock a daemon holds the lock of the file it has open.
Locked(p) == daemon[p].pc \in {"read", "truncate", "write", "running", "stopping"}

InodesOK ==
  /\ path \in 0 .. files /\ files \in 0 .. MaxFiles
  /\ text \in [Files -> Pids] /\ owner \in [Files -> Pids]
DaemonsOK == daemon \in [Daemons -> DaemonStates]
CmdsOK == cmd \in [Commands -> CmdStates] /\ raced \in BOOLEAN
OpenOK == \A p \in Daemons : At(p, "lock") \/ Locked(p) => daemon[p].file # 0
OwnersOK ==
  /\ \A i \in Files : owner[i] # NoPid => Locked(owner[i]) /\ daemon[owner[i]].file = i
  /\ \A p \in Daemons : Locked(p) => owner[daemon[p].file] = p
EarlyOK == \A p \in Daemons : daemon[p].why = "early" => daemon[p].pc = "dead"

PidTyped == InodesOK /\ DaemonsOK /\ CmdsOK
PidInv == PidTyped /\ OpenOK /\ OwnersOK /\ EarlyOK

LEMMA PidInvTypes == PidInv => PidTypeOK
<1> SUFFICES ASSUME PidInv PROVE PidTypeOK
  OBVIOUS
<1>1. \A i \in Files : owner[i] # NoPid => Alive(owner[i]) /\ daemon[owner[i]].file = i
  BY DEF PidInv, PidTyped, InodesOK, OwnersOK, Locked, Alive, Pids
<1> QED
  BY <1>1
  DEF PidInv, PidTyped, InodesOK, DaemonsOK, CmdsOK, PidTypeOK, DaemonStates, CmdStates, Points, Whys

LEMMA FilePlaces ==
  ASSUME PidTyped
  PROVE  /\ MaxFiles \in Nat \ {0} /\ files \in Nat /\ files <= MaxFiles
         /\ \A i \in 0 .. files : i # 0 => i \in Files
         /\ \A p \in Daemons : daemon[p].file \in 0 .. files
BY ConstantsAssumption DEF PidTyped, InodesOK, DaemonsOK, DaemonStates, Files

-----------------------------------------------------------------------------
(* One daemon at a time: it goes on, dies or opens a file.                 *)

LEMMA GoType ==
  ASSUME DaemonsOK, NEW p \in Daemons, NEW q \in Points, Go(p, q), UNCHANGED files
  PROVE  DaemonsOK'
BY DEF DaemonsOK, DaemonStates, Go

\* A step within the points that hold the lock, or within those that do not.
LEMMA GoInv ==
  ASSUME PidInv, NEW p \in Daemons, NEW q \in Points, Go(p, q), q # "dead", daemon[p].pc # "dead",
         UNCHANGED <<path, files, owner>>, text' \in [Files -> Pids], CmdsOK',
         q = "lock" => At(p, "lock"), Locked(p) <=> Locked(p)'
  PROVE  PidInv'
<1>1. DaemonsOK' /\ InodesOK'
  BY GoType DEF PidInv, PidTyped, InodesOK
<1>2. /\ daemon'[p].pc = q /\ daemon'[p].file = daemon[p].file /\ daemon'[p].why = daemon[p].why
      /\ \A r \in Daemons \ {p} : daemon'[r] = daemon[r]
  BY DEF PidInv, PidTyped, DaemonsOK, DaemonStates, Go
<1>3. \A r \in Daemons : (Locked(r)' <=> Locked(r)) /\ daemon'[r].file = daemon[r].file
  BY <1>2 DEF Locked
<1>4. OpenOK'
  BY <1>2, <1>3 DEF PidInv, OpenOK, At, Locked
<1>5. \A i \in Files : owner[i] # NoPid => owner[i] \in Daemons
  BY DEF PidInv, PidTyped, InodesOK, Pids
<1>6. OwnersOK'
  BY <1>3, <1>5 DEF PidInv, OwnersOK
<1>7. EarlyOK'
  BY <1>2 DEF PidInv, EarlyOK
<1> QED
  BY <1>1, <1>4, <1>6, <1>7 DEF PidInv, PidTyped

LEMMA DieInv ==
  ASSUME PidInv, NEW p \in Daemons, NEW w \in Whys, Die(p, w), daemon[p].pc # "dead",
         path' \in 0 .. files, UNCHANGED <<files, text>>, CmdsOK'
  PROVE  PidInv'
<1>1. /\ daemon'[p].pc = "dead" /\ daemon'[p].file = daemon[p].file /\ daemon'[p].why = w
      /\ \A r \in Daemons \ {p} : daemon'[r] = daemon[r]
      /\ DaemonsOK'
  BY DEF PidInv, PidTyped, DaemonsOK, DaemonStates, Die, Points
<1>2. /\ owner' \in [Files -> Pids]
      /\ \A i \in Files : owner'[i] = IF owner[i] = p THEN NoPid ELSE owner[i]
  BY DEF PidInv, PidTyped, InodesOK, Die, Pids
<1>3. InodesOK'
  BY <1>2 DEF PidInv, PidTyped, InodesOK
<1>4. ~Locked(p)' /\ ~At(p, "lock")' /\ \A r \in Daemons \ {p} : Locked(r)' <=> Locked(r)
  BY <1>1 DEF Locked, At
<1>5. OpenOK'
  BY <1>1, <1>4 DEF PidInv, OpenOK, At
<1>6. \A i \in Files : owner[i] # NoPid => owner[i] \in Daemons
  BY DEF PidInv, PidTyped, InodesOK, Pids
<1>7. \A i \in Files : (owner[i] # NoPid => Locked(owner[i]) /\ daemon[owner[i]].file = i)'
  BY <1>1, <1>2, <1>4, <1>6 DEF PidInv, OwnersOK
<1>8. ASSUME NEW r \in Daemons, Locked(r)' PROVE owner'[daemon'[r].file] = r
  <2>1. r # p /\ Locked(r) /\ daemon'[r] = daemon[r]
    BY <1>1, <1>4, <1>8
  <2>2. daemon[r].file \in Files /\ owner[daemon[r].file] = r
    BY <2>1, FilePlaces DEF PidInv, OpenOK, OwnersOK
  <2> QED
    BY <1>2, <2>1, <2>2
<1>9. EarlyOK'
  BY <1>1 DEF PidInv, EarlyOK
<1> QED
  BY <1>1, <1>3, <1>5, <1>7, <1>8, <1>9 DEF PidInv, PidTyped, OwnersOK

LEMMA OpenInv == ASSUME PidInv, NEW p \in Daemons, Open(p) PROVE PidInv'
<1>1. /\ files' \in 0 .. MaxFiles /\ files' \in Nat /\ files <= files'
      /\ path' \in 1 .. files'
      /\ path # 0 => UNCHANGED <<path, files>>
  BY FilePlaces DEF Open, PidInv, PidTyped, InodesOK
<1>2. /\ daemon'[p].pc = "lock" /\ daemon'[p].file = path' /\ daemon'[p].why = daemon[p].why
      /\ \A r \in Daemons \ {p} : daemon'[r] = daemon[r]
  BY DEF PidInv, PidTyped, DaemonsOK, DaemonStates, Open
<1>3. DaemonsOK'
  <2>1. 0 .. files \subseteq 0 .. files'
    BY <1>1, FilePlaces DEF PidInv
  <2>2. daemon' = [daemon EXCEPT ![p].pc = "lock", ![p].file = path'] /\ path' \in 0 .. files'
    BY <1>1 DEF Open
  <2> QED
    BY <2>1, <2>2 DEF PidInv, PidTyped, DaemonsOK, DaemonStates, Points
<1>4. ~Locked(p)' /\ ~Locked(p) /\ \A r \in Daemons \ {p} : Locked(r)' <=> Locked(r)
  BY <1>2 DEF Locked, Open, At
<1>5. owner' = owner /\ \A i \in Files : owner[i] # NoPid => owner[i] \in Daemons
  BY DEF Open, PidInv, PidTyped, InodesOK, Pids
<1>6. OwnersOK'
  BY <1>2, <1>4, <1>5 DEF PidInv, OwnersOK
<1>7. OpenOK' /\ EarlyOK'
  <2>1. \A r \in Daemons \ {p} : At(r, "lock")' \/ Locked(r)' => daemon'[r].file # 0
    BY <1>2, <1>4 DEF PidInv, OpenOK, At
  <2>2. daemon'[p].file # 0
    BY <1>1, <1>2
  <2>3. daemon[p].why # "early"
    BY DEF PidInv, EarlyOK, At, Open
  <2> QED
    BY <1>2, <2>1, <2>2, <2>3 DEF PidInv, OpenOK, EarlyOK
<1>8. InodesOK' /\ CmdsOK'
  BY <1>1 DEF Open, PidInv, PidTyped, InodesOK, CmdsOK
<1> QED
  BY <1>3, <1>6, <1>7, <1>8 DEF PidInv, PidTyped

LEMMA LockInv == ASSUME PidInv, NEW p \in Daemons, Lock(p) PROVE PidInv'
<1> DEFINE f == daemon[p].file
<1>1. f \in Files /\ owner[f] = NoPid
  BY FilePlaces DEF PidInv, OpenOK, Lock
<1>2. DaemonsOK'
  BY GoType DEF Lock, PidInv, PidTyped, Points
<1>3. /\ daemon'[p].pc = "read" /\ daemon'[p].file = f /\ daemon'[p].why = daemon[p].why
      /\ \A r \in Daemons \ {p} : daemon'[r] = daemon[r]
  BY DEF PidInv, PidTyped, DaemonsOK, DaemonStates, Lock, Go
<1>4. owner'[f] = p /\ \A i \in Files \ {f} : owner'[i] = owner[i]
  BY <1>1 DEF PidInv, PidTyped, InodesOK, Lock
<1>5. Locked(p)' /\ ~Locked(p) /\ \A r \in Daemons \ {p} : Locked(r)' <=> Locked(r)
  BY <1>3 DEF Locked, Lock, At
<1>6. OpenOK' /\ EarlyOK'
  BY <1>3, <1>5 DEF PidInv, OpenOK, EarlyOK, At, Lock
<1>7. \A i \in Files : (owner[i] # NoPid => Locked(owner[i]) /\ daemon[owner[i]].file = i)'
  <2>1. \A i \in Files : owner[i] # NoPid => owner[i] \in Daemons
    BY DEF PidInv, PidTyped, InodesOK, Pids
  <2> QED
    BY <1>1, <1>3, <1>4, <1>5, <2>1 DEF PidInv, OwnersOK
<1>8. ASSUME NEW r \in Daemons, Locked(r)' PROVE owner'[daemon'[r].file] = r
  <2>1. CASE r = p
    BY <1>3, <1>4, <2>1
  <2>2. CASE r # p
    <3>1. daemon[r].file \in Files /\ owner[daemon[r].file] = r /\ r # NoPid
      BY <1>5, <1>8, <2>2, FilePlaces, ConstantsAssumption DEF PidInv, OpenOK, OwnersOK
    <3> QED
      BY <1>1, <1>3, <1>4, <2>2, <3>1
  <2> QED
    BY <2>1, <2>2
<1>9. InodesOK' /\ CmdsOK'
  <2>1. owner' \in [Files -> Pids] /\ raced' \in BOOLEAN
    BY DEF Lock, PidInv, PidTyped, InodesOK, CmdsOK, Pids
  <2> QED
    BY <2>1 DEF Lock, PidInv, PidTyped, InodesOK, CmdsOK
<1> QED
  BY <1>2, <1>6, <1>7, <1>8, <1>9 DEF PidInv, PidTyped, OwnersOK

LEMMA UnlockInv == ASSUME PidInv, NEW p \in Daemons, Unlock(p) PROVE PidInv'
<1> DEFINE f == daemon[p].file
<1>1. f \in Files /\ owner[f] = p /\ Locked(p)
  BY FilePlaces DEF PidInv, OpenOK, OwnersOK, Unlock, Locked, At
<1>2. DaemonsOK'
  BY GoType DEF Unlock, PidInv, PidTyped, Points
<1>3. /\ daemon'[p].pc = "remove" /\ daemon'[p].file = f /\ daemon'[p].why = daemon[p].why
      /\ \A r \in Daemons \ {p} : daemon'[r] = daemon[r]
  BY DEF PidInv, PidTyped, DaemonsOK, DaemonStates, Unlock, Go
<1>4. owner'[f] = NoPid /\ \A i \in Files \ {f} : owner'[i] = owner[i]
  BY <1>1 DEF PidInv, PidTyped, InodesOK, Unlock
<1>5. ~Locked(p)' /\ \A r \in Daemons \ {p} : Locked(r)' <=> Locked(r)
  BY <1>3 DEF Locked
<1>6. OpenOK' /\ EarlyOK'
  BY <1>3, <1>5 DEF PidInv, OpenOK, EarlyOK, At, Unlock
<1>7. \A i \in Files : (owner[i] # NoPid => Locked(owner[i]) /\ daemon[owner[i]].file = i)'
  <2>1. \A i \in Files : owner[i] # NoPid => owner[i] \in Daemons
    BY DEF PidInv, PidTyped, InodesOK, Pids
  <2> QED
    BY <1>1, <1>3, <1>4, <1>5, <2>1 DEF PidInv, OwnersOK
<1>8. ASSUME NEW r \in Daemons, Locked(r)' PROVE owner'[daemon'[r].file] = r
  <2>1. r # p /\ daemon[r].file \in Files /\ owner[daemon[r].file] = r
    BY <1>5, <1>8, FilePlaces DEF PidInv, OpenOK, OwnersOK
  <2> QED
    BY <1>1, <1>3, <1>4, <2>1
<1>9. InodesOK' /\ CmdsOK'
  <2>1. owner' \in [Files -> Pids]
    BY DEF Unlock, PidInv, PidTyped, InodesOK, Pids
  <2> QED
    BY <2>1 DEF Unlock, PidInv, PidTyped, InodesOK, CmdsOK
<1> QED
  BY <1>2, <1>6, <1>7, <1>8, <1>9 DEF PidInv, PidTyped, OwnersOK
-----------------------------------------------------------------------------
(* Every step keeps the invariant.                                         *)

LEMMA PidInvInit == PidInit => PidInv
<1> SUFFICES ASSUME PidInit PROVE PidInv
  OBVIOUS
<1>1. InodesOK
  BY ConstantsAssumption DEF PidInit, InodesOK, Pids
<1>2. [pc |-> "unborn", file |-> 0, saw |-> NoPid, why |-> "none"] \in DaemonStates
  BY DEF PidInit, DaemonStates, Points, Whys, Pids
<1>3. DaemonsOK
  BY <1>2 DEF PidInit, DaemonsOK
<1>4. CmdsOK
  BY DEF PidInit, CmdsOK, CmdStates, Pids
<1>5. OpenOK /\ OwnersOK /\ EarlyOK
  BY DEF PidInit, OpenOK, OwnersOK, EarlyOK, Locked, At
<1> QED
  BY <1>1, <1>3, <1>4, <1>5 DEF PidInv, PidTyped

LEMMA RacedType ==
  ASSUME PidTyped, UNCHANGED cmd, \/ raced' = raced
                               \/ \E p \in Pids : raced' = (raced \/ Overtakes(p))
  PROVE  CmdsOK'
BY DEF PidTyped, CmdsOK, CmdStates, Overtakes

LEMMA StatusInv ==
  ASSUME PidInv, NEW p \in Daemons, StatusRead(p) \/ StatusAlive(p) \/ StatusUnlink(p)
  PROVE  PidInv'
<1>1. CmdsOK'
  BY RacedType DEF StatusRead, StatusAlive, StatusUnlink, PidInv, Pids
<1>2. path \in 0 .. files /\ text \in [Files -> Pids] /\ 0 \in 0 .. files
  BY FilePlaces DEF PidInv, PidTyped, InodesOK
<1> USE DEF Points, Whys
<1>3. CASE StatusRead(p)
  <2>1. CASE path # 0 /\ text[path] = NoPid
    BY <1>1, <1>2, <1>3, <2>1, DieInv DEF StatusRead, At
  <2>2. CASE ~(path # 0 /\ text[path] = NoPid)
    <3>1. PICK q \in {"open", "alive"}, s \in Pids :
            daemon' = [daemon EXCEPT ![p].pc = q, ![p].saw = s]
      BY <1>2, <1>3, <2>2, FilePlaces DEF StatusRead, PidInv, Pids
    <3>2. /\ daemon'[p].pc = q /\ daemon'[p].file = daemon[p].file /\ daemon'[p].why = daemon[p].why
          /\ \A r \in Daemons \ {p} : daemon'[r] = daemon[r]
          /\ daemon' \in [Daemons -> DaemonStates]
      BY <3>1, ZenonT(30) DEF PidInv, PidTyped, DaemonsOK, DaemonStates
    <3>3. \A r \in Daemons : (Locked(r)' <=> Locked(r)) /\ daemon'[r].file = daemon[r].file
      BY <1>3, <3>2 DEF Locked, StatusRead, At
    <3>4. owner' = owner /\ \A i \in Files : owner[i] # NoPid => owner[i] \in Daemons
      BY <1>3, <2>2 DEF StatusRead, PidInv, PidTyped, InodesOK, Pids
    <3>5. OwnersOK'
      BY <3>3, <3>4 DEF PidInv, OwnersOK
    <3>6. OpenOK'
      BY <3>2, <3>3 DEF PidInv, OpenOK, At
    <3>7. EarlyOK'
      BY <1>3, <3>2 DEF PidInv, EarlyOK, StatusRead, At
    <3>8. InodesOK'
      BY <1>3, <3>4 DEF StatusRead, PidInv, PidTyped, InodesOK
    <3>9. DaemonsOK'
      BY <1>3, <3>2 DEF StatusRead, DaemonsOK, DaemonStates
    <3> QED
      BY <1>1, <3>5, <3>6, <3>7, <3>8, <3>9 DEF PidInv, PidTyped
  <2> QED
    BY <2>1, <2>2
<1>4. CASE StatusAlive(p)
  <2>1. CASE Alive(daemon[p].saw)
    BY <1>1, <1>2, <1>4, <2>1, DieInv DEF StatusAlive, At
  <2>2. CASE ~Alive(daemon[p].saw)
    <3>1. Go(p, "unlink") /\ ~Locked(p) /\ daemon[p].pc = "alive"
      BY <1>4, <2>2 DEF StatusAlive, At, Locked
    <3>2. ~Locked(p)'
      BY <3>1 DEF Locked, Go, PidInv, PidTyped, DaemonsOK, DaemonStates
    <3> QED
      BY <1>1, <1>2, <1>4, <2>2, <3>1, <3>2, GoInv DEF StatusAlive
  <2> QED
    BY <2>1, <2>2
<1>5. CASE StatusUnlink(p)
  <2>1. /\ daemon'[p].pc = "open" /\ daemon'[p].file = daemon[p].file /\ daemon'[p].why = daemon[p].why
        /\ \A r \in Daemons \ {p} : daemon'[r] = daemon[r]
        /\ DaemonsOK'
    BY <1>5, GoType DEF PidInv, PidTyped, DaemonsOK, DaemonStates, StatusUnlink, Go
  <2>2. \A r \in Daemons : (Locked(r)' <=> Locked(r)) /\ daemon'[r].file = daemon[r].file
    BY <1>5, <2>1 DEF Locked, StatusUnlink, At
  <2>3. OwnersOK'
    <3>1. owner' = owner /\ \A i \in Files : owner[i] # NoPid => owner[i] \in Daemons
      BY <1>5 DEF StatusUnlink, PidInv, PidTyped, InodesOK, Pids
    <3> QED
      BY <2>2, <3>1 DEF PidInv, OwnersOK
  <2>4. OpenOK' /\ EarlyOK'
    BY <1>5, <2>1, <2>2 DEF PidInv, OpenOK, EarlyOK, At, StatusUnlink
  <2>5. InodesOK'
    BY <1>2, <1>5 DEF StatusUnlink, PidInv, PidTyped, InodesOK
  <2> QED
    BY <1>1, <2>1, <2>3, <2>4, <2>5 DEF PidInv, PidTyped
<1> QED
  BY <1>3, <1>4, <1>5

LEMMA RunInv ==
  ASSUME PidInv, NEW p \in Daemons,
         ReadPath(p) \/ Truncate(p) \/ Write(p) \/ Interrupt(p)
  PROVE  PidInv'
<1>1. CmdsOK'
  BY RacedType DEF ReadPath, Truncate, Write, Interrupt, inodes, PidInv
<1> USE DEF Points, Whys
<1>2. ASSUME NEW q \in {"truncate", "write", "running", "stopping"}, Go(p, q)
      PROVE  Locked(p)'
  BY <1>2 DEF Locked, Go, PidInv, PidTyped, DaemonsOK, DaemonStates
<1>3. Locked(p) /\ daemon[p].pc # "dead"
  BY DEF ReadPath, Truncate, Write, Interrupt, At, Locked
<1>4. CASE ReadPath(p)
  <2>1. CASE path # 0 /\ Alive(text[path]) /\ text[path] # p
    BY <1>1, <1>3, <1>4, <2>1, DieInv DEF ReadPath, PidInv, PidTyped, InodesOK
  <2>2. CASE ~(path # 0 /\ Alive(text[path]) /\ text[path] # p)
    BY <1>1, <1>2, <1>3, <1>4, <2>2, GoInv DEF ReadPath, PidInv, PidTyped, InodesOK
  <2> QED
    BY <2>1, <2>2
<1>5. CASE Truncate(p)
  <2>1. text' \in [Files -> Pids]
    BY <1>5 DEF Truncate, PidInv, PidTyped, InodesOK, Pids
  <2> QED
    BY <1>1, <1>2, <1>3, <1>5, <2>1, GoInv DEF Truncate
<1>6. CASE Write(p)
  <2>1. text' \in [Files -> Pids]
    BY <1>6 DEF Write, PidInv, PidTyped, InodesOK, Pids
  <2> QED
    BY <1>1, <1>2, <1>3, <1>6, <2>1, GoInv DEF Write
<1>7. CASE Interrupt(p)
  BY <1>1, <1>2, <1>3, <1>7, GoInv DEF Interrupt, inodes, PidInv, PidTyped, InodesOK
<1> QED
  BY <1>4, <1>5, <1>6, <1>7

LEMMA EndInv ==
  ASSUME PidInv, NEW p \in Daemons, Remove(p) \/ Crash(p)
  PROVE  PidInv'
<1>1. CmdsOK'
  BY RacedType DEF Remove, Crash, PidInv, Pids
<1>2. path' \in 0 .. files /\ UNCHANGED <<files, text>>
  BY FilePlaces DEF Remove, Crash, PidInv, PidTyped, InodesOK
<1>3. PICK w \in Whys : Die(p, w)
  BY DEF Remove, Crash, Whys
<1>4. daemon[p].pc # "dead"
  BY DEF Remove, Crash, At, Alive
<1> QED
  BY <1>1, <1>2, <1>3, <1>4, DieInv

LEMMA CommandInv == ASSUME PidInv, NEW c \in Commands, StopCommand(c) PROVE PidInv'
<1>1. /\ UNCHANGED <<files, text, owner>> /\ path' \in 0 .. files
  BY FilePlaces
  DEF StopCommand, StopRead, StopAlive, StopUnlink, Signal, Wait, inodes, PidInv, PidTyped, InodesOK
<1>2. CmdsOK'
  <2>1. CASE StopRead(c)
    <3>1. path # 0 => text[path] \in Pids
      BY FilePlaces DEF PidInv, PidTyped, InodesOK
    <3> QED
      BY <2>1, <3>1, ZenonT(30) DEF StopRead, PidInv, PidTyped, CmdsOK, CmdStates, Pids
  <2>2. CASE StopAlive(c)
    BY <2>2 DEF StopAlive, CmdGo, PidInv, PidTyped, CmdsOK, CmdStates
  <2>3. CASE StopUnlink(c)
    <3>1. raced' \in BOOLEAN
      BY <2>3 DEF StopUnlink, Overtakes, PidInv, PidTyped, CmdsOK
    <3> QED
      BY <2>3, <3>1 DEF StopUnlink, CmdGo, PidInv, PidTyped, CmdsOK, CmdStates
  <2>4. CASE Signal(c)
    BY <2>4 DEF Signal, CmdGo, PidInv, PidTyped, CmdsOK, CmdStates
  <2>5. CASE Wait(c)
    BY <2>5 DEF Wait, CmdGo, PidInv, PidTyped, CmdsOK, CmdStates
  <2> QED
    BY <2>1, <2>2, <2>3, <2>4, <2>5 DEF StopCommand
<1>3. CASE UNCHANGED daemon
  BY <1>1, <1>2, <1>3
  DEF PidInv, PidTyped, InodesOK, DaemonsOK, DaemonStates, OpenOK, OwnersOK, EarlyOK, At, Locked
<1>4. CASE Signal(c) /\ daemon' # daemon
  <2>1. PICK p \in Daemons :
          Alive(p) /\ daemon' = [daemon EXCEPT ![p].pc = IF @ = "running" THEN "stopping" ELSE @]
    BY <1>4 DEF Signal, Alive
  <2>2. daemon[p].pc \in Points
    BY <2>1 DEF PidInv, PidTyped, DaemonsOK, DaemonStates
  <2>3. PICK q \in Points : /\ Go(p, q) /\ q # "dead" /\ (q = "lock" => At(p, "lock"))
                            /\ q # daemon[p].pc => daemon[p].pc = "running" /\ q = "stopping"
    BY <2>1, <2>2 DEF Go, At, Alive, Points
  <2>4. daemon'[p].pc = q
    BY <2>1, <2>3 DEF Go, PidInv, PidTyped, DaemonsOK, DaemonStates
  <2>5. Locked(p) <=> Locked(p)'
    BY <2>3, <2>4 DEF Locked
  <2>6. daemon[p].pc # "dead" /\ UNCHANGED <<path, files, owner>> /\ text' \in [Files -> Pids]
    BY <1>1, <1>4, <2>1 DEF Alive, PidInv, PidTyped, InodesOK, Signal, inodes
  <2> QED
    BY <1>2, <2>1, <2>3, <2>5, <2>6, GoInv
<1> QED
  BY <1>3, <1>4 DEF StopCommand, StopRead, StopAlive, StopUnlink, Signal, Wait

LEMMA PidInvStep == PidInv /\ [PidNext]_pidVars => PidInv'
<1>1. ASSUME PidInv, PidNext PROVE PidInv'
  BY <1>1, StatusInv, OpenInv, LockInv, RunInv, UnlockInv, EndInv, CommandInv
  DEF PidNext, StartDaemon, StopDaemon
<1>2. ASSUME PidInv, UNCHANGED pidVars PROVE PidInv'
  BY <1>2
  DEF pidVars, inodes, PidInv, PidTyped, InodesOK, DaemonsOK, DaemonStates, CmdsOK, CmdStates, OpenOK,
      OwnersOK, EarlyOK, At, Locked
<1> QED
  BY <1>1, <1>2

LEMMA PidInvariance == PidSpec => []PidInv
BY PidInvInit, PidInvStep, PTL DEF PidSpec

\* Every reachable state is well typed, and each lock is held by a live daemon that has
\* the file open.
THEOREM PidTypeCorrect == PidSpec => []PidTypeOK
BY PidInvTypes, PidInvariance, PTL
-----------------------------------------------------------------------------
(* What `status` and `stop` find.                                          *)

\* A locked file that nobody has taken away is where the path leads.
Reached == ~raced => \A p \in Daemons : Locked(p) => path = daemon[p].file
Written == ~raced => \A p \in Running : text[path] = p

LEMMA StatusReadEnds ==
  ASSUME PidInv, NEW p \in Daemons, StatusRead(p)
  PROVE  /\ daemon'[p].pc \in {"dead", "open", "alive"}
         /\ \A r \in Daemons \ {p} : daemon'[r] = daemon[r]
<1> USE DEF PidInv, PidTyped, DaemonsOK, DaemonStates
<1>1. CASE path # 0 /\ text[path] = NoPid
  BY <1>1 DEF StatusRead, Die
<1>2. CASE ~(path # 0 /\ text[path] = NoPid)
  <2> DEFINE q == IF path = 0 THEN "open" ELSE "alive"
             s == IF path = 0 THEN NoPid ELSE text[path]
  <2>1. daemon' = [daemon EXCEPT ![p].pc = q, ![p].saw = s]
    BY <1>2 DEF StatusRead
  <2>2. q \in {"open", "alive"}
    OBVIOUS
  <2> HIDE DEF q, s
  <2> QED
    BY <2>1, <2>2
<1> QED
  BY <1>1, <1>2

\* What a step does to the daemons.
LEMMA StepDaemons ==
  ASSUME PidInv, NEW p \in Daemons, StartDaemon(p) \/ StopDaemon(p) \/ Interrupt(p) \/ Crash(p)
  PROVE  /\ \A r \in Daemons \ {p} : daemon'[r] = daemon[r]
         /\ Locked(p)' => (Locked(p) /\ daemon'[p].file = daemon[p].file) \/ Lock(p)
<1> USE DEF PidInv, PidTyped, DaemonsOK, DaemonStates, Locked, At
<1>1. CASE StatusRead(p) \/ StatusAlive(p) \/ StatusUnlink(p)
  <2>1. CASE StatusRead(p)
    BY <2>1, StatusReadEnds
  <2>2. CASE StatusAlive(p)
    BY <2>2 DEF StatusAlive, Die, Go
  <2>3. CASE StatusUnlink(p)
    BY <2>3 DEF StatusUnlink, Go
  <2> QED
    BY <1>1, <2>1, <2>2, <2>3
<1>2. CASE Open(p) \/ Lock(p)
  BY <1>2 DEF Open, Lock, Go
<1>3. CASE ReadPath(p)
  BY <1>3 DEF ReadPath, Die, Go
<1>4. CASE Truncate(p) \/ Write(p) \/ Interrupt(p) \/ Unlock(p)
  BY <1>4 DEF Truncate, Write, Interrupt, Unlock, Go
<1>5. CASE Remove(p) \/ Crash(p)
  BY <1>5 DEF Remove, Crash, Die
<1> QED
  BY <1>1, <1>2, <1>3, <1>4, <1>5 DEF StartDaemon, StopDaemon

LEMMA StepCommand ==
  ASSUME PidInv, NEW c \in Commands, StopCommand(c), NEW r \in Daemons
  PROVE  /\ daemon'[r].file = daemon[r].file /\ daemon'[r].why = daemon[r].why
         /\ daemon'[r].pc = daemon[r].pc \/ (daemon[r].pc = "running" /\ daemon'[r].pc = "stopping")
<1>1. CASE Signal(c)
  BY <1>1 DEF Signal, PidInv, PidTyped, DaemonsOK, DaemonStates
<1>2. CASE ~Signal(c)
  BY <1>2 DEF StopCommand, StopRead, StopAlive, StopUnlink, Wait, inodes
<1> QED
  BY <1>1, <1>2

\* A path that changes under a locked file is noted.
LEMMA PathStep ==
  ASSUME PidInv, Reached, PidNext, ~raced', NEW r \in Daemons, Locked(r), Locked(r)'
  PROVE  path' = path
<1>1. r # NoPid /\ owner[daemon[r].file] = r /\ daemon[r].file # 0
  BY ConstantsAssumption DEF PidInv, OwnersOK, OpenOK
<1>2. CASE path' = 0 /\ \E q \in Pids \ {r} : raced' = (raced \/ Overtakes(q))
  BY <1>1, <1>2 DEF Reached, Overtakes
<1>3. CASE \E p \in Daemons : StatusUnlink(p) \/ Remove(p)
  <2>1. PICK p \in Daemons : StatusUnlink(p) \/ Remove(p)
    BY <1>3
  <2>2. p # r
    BY <2>1 DEF StatusUnlink, Remove, At, Locked
  <2> QED
    BY <1>2, <2>1, <2>2 DEF StatusUnlink, Remove, Pids
<1>4. CASE \E c \in Commands : StopUnlink(c)
  BY <1>1, <1>2, <1>4 DEF StopUnlink, Pids
<1>5. CASE \E p \in Daemons : Open(p)
  <2>1. ~raced
    BY <1>5 DEF Open
  <2> QED
    BY <1>1, <1>5, <2>1 DEF Open, Reached
<1> QED
  BY <1>3, <1>4, <1>5
  DEF PidNext, StartDaemon, StopDaemon, StatusRead, StatusAlive, Lock, ReadPath, Truncate, Write,
      Interrupt, Unlock, Crash, StopCommand, StopRead, StopAlive, Signal, Wait, inodes

LEMMA RacedStays == ASSUME PidInv, PidNext, ~raced' PROVE ~raced
BY DEF PidNext, StartDaemon, StopDaemon, StatusRead, StatusAlive, StatusUnlink, Open, Lock, ReadPath,
       Truncate, Write, Interrupt, Unlock, Remove, Crash, StopCommand, StopRead, StopAlive,
       StopUnlink, Signal, Wait, inodes

LEMMA ReachedStep == ASSUME PidInv, Reached, PidNext PROVE Reached'
<1> SUFFICES ASSUME ~raced', NEW r \in Daemons, Locked(r)' PROVE path' = daemon'[r].file
  BY DEF Reached
<1>1. ~raced
  BY RacedStays
<1>2. CASE Locked(r) /\ daemon'[r].file = daemon[r].file
  BY <1>1, <1>2, PathStep DEF Reached
<1>3. CASE Lock(r)
  BY <1>3 DEF Lock, Go, PidInv, PidTyped, DaemonsOK, DaemonStates
<1>4. CASE \E p \in Daemons : StartDaemon(p) \/ StopDaemon(p) \/ Interrupt(p) \/ Crash(p)
  <2>1. (Locked(r) /\ daemon'[r].file = daemon[r].file) \/ Lock(r)
    BY <1>4, StepDaemons DEF Locked
  <2> QED
    BY <1>2, <1>3, <2>1
<1>5. CASE \E c \in Commands : StopCommand(c)
  BY <1>2, <1>5, StepCommand DEF Locked
<1> QED
  BY <1>4, <1>5 DEF PidNext

\* Only the holder of the lock writes the file that the path leads to.
LEMMA TextStep ==
  ASSUME PidInv, Reached, PidNext, ~raced, NEW r \in Daemons, Locked(r), path' = path
  PROVE  text'[path] = text[path] \/ Truncate(r) \/ Write(r)
<1>1. ASSUME NEW p \in Daemons, Truncate(p) \/ Write(p) PROVE p = r
  <2>1. Locked(p)
    BY <1>1 DEF Truncate, Write, At, Locked
  <2> QED
    BY <2>1 DEF Reached, PidInv, OwnersOK
<1>2. CASE \E p \in Daemons : Truncate(p) \/ Write(p)
  BY <1>1, <1>2
<1>3. CASE UNCHANGED text
  BY <1>3
<1> QED
  BY <1>2, <1>3
  DEF PidNext, StartDaemon, StopDaemon, StatusRead, StatusAlive, StatusUnlink, Open, Lock, ReadPath,
      Interrupt, Unlock, Remove, Crash, StopCommand, StopRead, StopAlive, StopUnlink, Signal, Wait,
      inodes

LEMMA RunningStep ==
  ASSUME PidInv, PidNext, NEW r \in Daemons, r \in Running'
  PROVE  Write(r) \/ (r \in Running /\ ~Truncate(r) /\ ~Write(r))
<1>1. CASE \E p \in Daemons : StartDaemon(p) \/ StopDaemon(p) \/ Interrupt(p) \/ Crash(p)
  <2>1. PICK p \in Daemons : StartDaemon(p) \/ StopDaemon(p) \/ Interrupt(p) \/ Crash(p)
    BY <1>1
  <2>2. CASE p # r
    <3>1. daemon'[r] = daemon[r]
      BY <2>1, <2>2, StepDaemons
    <3> QED
      BY <3>1 DEF Running, Truncate, Write, At
  <2>3. CASE p = r
    <3> USE DEF PidInv, PidTyped, DaemonsOK, DaemonStates, Running, At
    <3>1. CASE StatusAlive(p) \/ StatusUnlink(p) \/ Open(p) \/ Lock(p)
      BY <2>3, <3>1 DEF StatusAlive, StatusUnlink, Open, Lock, Die, Go
    <3>2. CASE ReadPath(p) \/ Truncate(p) \/ Unlock(p) \/ Remove(p) \/ Crash(p)
      BY <2>3, <3>2 DEF ReadPath, Truncate, Unlock, Remove, Crash, Die, Go
    <3>3. CASE Interrupt(p)
      BY <2>3, <3>3 DEF Interrupt, Truncate, Write
    <3>4. CASE StatusRead(p)
      BY <2>3, <3>4, StatusReadEnds
    <3> QED
      BY <2>1, <2>3, <3>1, <3>2, <3>3, <3>4 DEF StartDaemon, StopDaemon
  <2> QED
    BY <2>2, <2>3
<1>2. CASE \E c \in Commands : StopCommand(c)
  BY <1>2, StepCommand DEF Running, Truncate, Write, At
<1> QED
  BY <1>1, <1>2 DEF PidNext

LEMMA WrittenStep == ASSUME PidInv, Reached, Written, PidNext PROVE Written'
<1> SUFFICES ASSUME ~raced', NEW r \in Daemons, r \in Running' PROVE text'[path'] = r
  BY DEF Written, Running
<1>1. ~raced
  BY RacedStays
<1>2. Locked(r) /\ Locked(r)'
  BY RunningStep DEF Running, Locked, Write, At
<1>3. path' = path /\ path = daemon[r].file
  BY <1>1, <1>2, PathStep DEF Reached
<1>4. CASE Write(r)
  <2>1. daemon[r].file \in Files
    BY <1>2, FilePlaces DEF PidInv, OpenOK
  <2> QED
    BY <1>3, <1>4, <2>1 DEF Write, PidInv, PidTyped, InodesOK
<1>5. CASE r \in Running /\ ~Truncate(r) /\ ~Write(r)
  BY <1>1, <1>2, <1>3, <1>5, TextStep DEF Written
<1> QED
  BY <1>4, <1>5, RunningStep

LEMMA Found == PidSpec => [](Reached /\ Written)
<1>1. PidInit => Reached /\ Written
  BY DEF PidInit, Reached, Written, Running, Locked
<1>2. PidInv /\ Reached /\ Written /\ [PidNext]_pidVars => (Reached /\ Written)'
  <2>1. ASSUME PidInv, Reached, Written, PidNext PROVE (Reached /\ Written)'
    BY <2>1, ReachedStep, WrittenStep
  <2>2. ASSUME Reached, Written, UNCHANGED pidVars PROVE (Reached /\ Written)'
    BY <2>2 DEF pidVars, inodes, Reached, Written, Running, Locked
  <2> QED
    BY <2>1, <2>2
<1> QED
  BY <1>1, <1>2, PidInvariance, PTL DEF PidSpec

-----------------------------------------------------------------------------
(* A file without a number.                                                *)

Cause(p) == daemon[p].file = path /\ (daemon[p].pc \in Starting \/ daemon[p].why = "early")

\* What a daemon that is the cause does next: it stays one, or it writes.
LEMMA CauseStep ==
  ASSUME PidInv, PidNext, path # 0, path' = path, NEW r \in Daemons, Cause(r), text'[path] = NoPid,
         text[path] = NoPid
  PROVE  Cause(r)'
<1>1. path \in Files
  BY FilePlaces DEF PidInv, PidTyped, InodesOK
<1>2. CASE \E p \in Daemons : StartDaemon(p) \/ StopDaemon(p) \/ Interrupt(p) \/ Crash(p)
  <2>1. PICK p \in Daemons : StartDaemon(p) \/ StopDaemon(p) \/ Interrupt(p) \/ Crash(p)
    BY <1>2
  <2>2. CASE p # r
    <3>1. daemon'[r] = daemon[r]
      BY <2>1, <2>2, StepDaemons
    <3> QED
      BY <3>1 DEF Cause
  <2>3. CASE p = r /\ Write(r)
    BY <1>1, <2>3, ConstantsAssumption DEF Write, Cause, PidInv, PidTyped, InodesOK
  <2>4. CASE p = r /\ ~Write(r)
    <3>1. daemon[r].why = "early" => daemon[r].pc = "dead"
      BY DEF PidInv, EarlyOK
    <3>2. daemon[r].pc \in Starting /\ Alive(r)
      BY <2>1, <2>4, <3>1
      DEF Cause, Starting, Alive, StartDaemon, StopDaemon, StatusRead, StatusAlive, StatusUnlink,
          Open, Lock, ReadPath, Truncate, Interrupt, Unlock, Remove, Crash, At
    <3>3. CASE ReadPath(r)
      <4>1. ~Alive(text[path])
        BY ConstantsAssumption DEF Alive
      <4>2. Go(r, "truncate")
        BY <3>3, <4>1 DEF ReadPath
      <4> QED
        BY <4>2 DEF Go, Cause, Starting, PidInv, PidTyped, DaemonsOK, DaemonStates
    <3>4. CASE Crash(r)
      BY <3>2, <3>4 DEF Crash, Die, Cause, Starting, PidInv, PidTyped, DaemonsOK, DaemonStates
    <3>5. CASE Lock(r) \/ Truncate(r)
      BY <3>5 DEF Lock, Truncate, Go, Cause, Starting, PidInv, PidTyped, DaemonsOK, DaemonStates
    <3> QED
      BY <2>1, <2>4, <3>2, <3>3, <3>4, <3>5
      DEF Starting, StartDaemon, StopDaemon, StatusRead, StatusAlive, StatusUnlink, Open, Interrupt,
          Unlock, Remove, At
  <2> QED
    BY <2>2, <2>3, <2>4
<1>3. CASE \E c \in Commands : StopCommand(c)
  BY <1>3, StepCommand DEF Cause, Starting
<1> QED
  BY <1>2, <1>3 DEF PidNext

LEMMA EmptyStep == ASSUME PidInv, EmptyForCause, PidNext PROVE EmptyForCause'
<1> SUFFICES ASSUME path' # 0, text'[path'] = NoPid PROVE \E r \in Daemons : Cause(r)'
  BY DEF EmptyForCause, Cause
<1>1. CASE path' = path /\ text[path] = NoPid
  <2>1. PICK r \in Daemons : Cause(r)
    BY <1>1 DEF EmptyForCause, Cause
  <2> QED
    BY <1>1, <2>1, CauseStep
<1>2. CASE \E p \in Daemons : Open(p) /\ path' # path
  <2>1. PICK p \in Daemons : Open(p)
    BY <1>2
  <2>2. daemon'[p].file = path' /\ daemon'[p].pc = "lock"
    BY <2>1 DEF Open, PidInv, PidTyped, DaemonsOK, DaemonStates
  <2> QED
    BY <2>2 DEF Cause, Starting
<1>3. CASE \E p \in Daemons : Truncate(p) /\ text[path] # NoPid
  <2>1. PICK p \in Daemons : Truncate(p) /\ text[path] # NoPid
    BY <1>3
  <2>2. path = daemon[p].file /\ path' = path
    BY <2>1 DEF Truncate, PidInv, PidTyped, InodesOK
  <2>3. daemon'[p].file = daemon[p].file /\ daemon'[p].pc = "write"
    BY <2>1 DEF Truncate, Go, PidInv, PidTyped, DaemonsOK, DaemonStates
  <2> QED
    BY <2>2, <2>3 DEF Cause, Starting
<1>4. CASE \E p \in Daemons : Write(p) /\ text[path] # NoPid
  BY <1>4, ConstantsAssumption DEF Write, PidInv, PidTyped, InodesOK
<1>5. CASE path' = path /\ UNCHANGED text
  BY <1>1, <1>5
<1> QED
  BY <1>1, <1>2, <1>3, <1>4, <1>5
  DEF PidNext, StartDaemon, StopDaemon, StatusRead, StatusAlive, StatusUnlink, Open, Lock, ReadPath,
      Truncate, Write, Interrupt, Unlock, Remove, Crash, StopCommand, StopRead, StopAlive,
      StopUnlink, Signal, Wait, inodes

\* `status` and `stop` find the daemon that runs, until its file is taken away; a file
\* without a number is about to be written, or its daemon was killed.
THEOREM DaemonsAreVisible == PidSpec => []Visible
<1>1. PidInit => EmptyForCause
  BY DEF PidInit, EmptyForCause
<1>2. PidInv /\ EmptyForCause /\ [PidNext]_pidVars => EmptyForCause'
  <2>1. ASSUME PidInv, EmptyForCause, PidNext PROVE EmptyForCause'
    BY <2>1, EmptyStep
  <2>2. ASSUME EmptyForCause, UNCHANGED pidVars PROVE EmptyForCause'
    BY <2>2 DEF pidVars, inodes, EmptyForCause
  <2> QED
    BY <2>1, <2>2
<1>3. Reached /\ Written /\ EmptyForCause => Visible
  BY DEF Reached, Written, Visible, Running, Locked
<1> QED
  BY <1>1, <1>2, <1>3, PidInvariance, Found, PTL DEF PidSpec

-----------------------------------------------------------------------------
(* Refinement of the abstract lock.                                        *)

LEMMA OneRunning ==
  ASSUME PidInv, Reached, ~raced, NEW p \in Daemons, NEW q \in Daemons, Locked(p), Locked(q)
  PROVE  p = q
BY DEF PidInv, OwnersOK, Reached

LEMMA PidLockStep == ASSUME PidInv, Reached, PidNext PROVE [PidLock!Next]_(PidLock!lockvars)
<1> USE DEF PidLock!lockvars
<1>1. ASSUME NEW p \in Daemons, Write(p)
      PROVE  [PidLock!Next]_(PidLock!lockvars)
  <2>1. Running' = Running \cup {p} /\ p \notin Running /\ raced' = raced
    BY <1>1 DEF Write, Go, At, Running, PidInv, PidTyped, DaemonsOK, DaemonStates
  <2>2. Running = {} \/ raced
    BY <1>1, <2>1, OneRunning DEF Running, Locked, Write, At, PidInv, PidTyped, CmdsOK
  <2> QED
    BY <2>1, <2>2 DEF PidLock!Next, PidLock!Acquire, PidInv, PidTyped, CmdsOK
<1>2. ASSUME NEW p \in Daemons, Unlock(p) \/ Crash(p)
      PROVE  [PidLock!Next]_(PidLock!lockvars)
  <2>1. Running' = Running \ {p} /\ raced' = raced
    BY <1>2 DEF Unlock, Crash, Die, Go, Running, PidInv, PidTyped, DaemonsOK, DaemonStates
  <2> QED
    BY <2>1 DEF PidLock!Next, PidLock!Release
<1>3. ASSUME NEW p \in Daemons,
             (StartDaemon(p) /\ ~Write(p)) \/ Remove(p) \/ Interrupt(p)
      PROVE  Running' = Running
  BY <1>3, ZenonT(30)
  DEF PidInv, PidTyped, DaemonsOK, DaemonStates, StartDaemon, StatusRead, StatusAlive, StatusUnlink, Open,
      Lock, ReadPath, Truncate, Interrupt, Remove, At, Go, Die, Running
<1>4. ASSUME NEW c \in Commands, StopCommand(c)
      PROVE  Running' = Running
  BY <1>4, StepCommand DEF Running
<1>5. raced' = raced \/ raced' = TRUE
  BY DEF PidInv, PidTyped, CmdsOK, Overtakes, PidNext, StartDaemon, StopDaemon, StatusRead, StatusAlive,
         StatusUnlink, Open, Lock, ReadPath, Truncate, Write, Interrupt, Unlock, Remove, Crash,
         StopCommand, StopRead, StopAlive, StopUnlink, Signal, Wait, inodes
<1>6. CASE Running' = Running
  BY <1>5, <1>6 DEF PidLock!Next, PidLock!Break
<1> QED
  BY <1>1, <1>2, <1>3, <1>4, <1>6 DEF PidNext, StopDaemon

\* Daemons implement the lock of ExclusiveLock.
THEOREM PidLockRefinement == PidSpec => LockSpec
<1>1. PidInit => PidLock!Init
  BY DEF PidInit, PidLock!Init, Running
<1>2. PidInv /\ Reached /\ [PidNext]_pidVars => [PidLock!Next]_(PidLock!lockvars)
  <2>1. CASE PidNext
    BY <2>1, PidLockStep
  <2>2. CASE UNCHANGED pidVars
    BY <2>2 DEF pidVars, PidLock!lockvars, Running
  <2> QED
    BY <2>1, <2>2
<1> QED
  BY <1>1, <1>2, PidInvariance, Found, PTL DEF PidSpec, LockSpec, PidLock!Spec
=============================================================================
