-------------------------- MODULE VaultSync_proofs --------------------------
(***************************************************************************)
(* Proofs about VaultSync, for any machines, profiles, commands and bounds:  *)
(* a token never goes back, the files of a profile belong together, and a    *)
(* copy that failed is tried again.                                         *)
(***************************************************************************)
EXTENDS VaultSync, FiniteSetTheorems, WellFoundedInduction, TLAPS

-----------------------------------------------------------------------------
(* The retry queue.                                                         *)

LEMMA LeastIndex ==
  ASSUME NEW S \in SUBSET Nat, S # {}
  PROVE  Min(S) \in S
<1> DEFINE R == {ss \in Nat \X Nat : ss[1] < ss[2]}
<1>1. IsWellFoundedOn(R, Nat)
  BY NatLessThanWellFounded DEF OpToRel
<1> HIDE DEF R
<1>2. PICK x \in S : \A y \in S : ~(<<y, x>> \in R)
  BY <1>1, WFMin
<1>3. \A a, b \in Nat : a < b => <<a, b>> \in R
  BY DEF R
<1>4. \A y \in S : ~(y < x)
  BY <1>2, <1>3
<1>5. \A y \in S : x <= y
  BY <1>4
<1> QED
  BY <1>5 DEF Min

LEMMA AddedEntries ==
  ASSUME NEW q \in Seq(Ops), NEW op \in Ops
  PROVE  AddToQueue(q, op) \in Seq(Ops) /\ Entries(AddToQueue(q, op)) = Entries(q) \cup {op}
<1>1. CASE Contains(q, op)
  BY <1>1 DEF AddToQueue, Contains, Entries
<1>2. CASE ~Contains(q, op)
  <2> DEFINE r == Append(q, op)
  <2>1. /\ r \in Seq(Ops) /\ DOMAIN r = 1 .. Len(q) + 1 /\ Len(q) \in Nat /\ DOMAIN q = 1 .. Len(q)
        /\ r[Len(q) + 1] = op /\ \A i \in 1 .. Len(q) : r[i] = q[i]
    OBVIOUS
  <2> HIDE DEF r
  <2>2. \A i \in DOMAIN r : i \in DOMAIN q \/ i = Len(q) + 1
    BY <2>1
  <2>3. Len(q) + 1 \in DOMAIN r /\ \A i \in DOMAIN q : i \in DOMAIN r
    BY <2>1
  <2>4. Entries(r) = Entries(q) \cup {op}
    BY <2>1, <2>2, <2>3 DEF Entries
  <2> QED
    BY <1>2, <2>1, <2>4 DEF AddToQueue, r
<1> QED
  BY <1>1, <1>2

\* RemoveAt takes out one place and keeps the others.
LEMMA RemovedPlace ==
  ASSUME NEW q \in Seq(Ops), NEW k \in 1 .. Len(q)
  PROVE  /\ RemoveAt(q, k) \in Seq(Ops) /\ DOMAIN RemoveAt(q, k) = 1 .. Len(q) - 1
         /\ \A i \in 1 .. k - 1 : RemoveAt(q, k)[i] = q[i]
         /\ \A i \in k .. Len(q) - 1 : RemoveAt(q, k)[i] = q[i + 1]
<1> DEFINE left == SubSeq(q, 1, k - 1)
           right == SubSeq(q, k + 1, Len(q))
           r == left \o right
<1>1. /\ left \in Seq(Ops) /\ Len(left) = k - 1
      /\ \A i \in 1 .. k - 1 : left[i] = q[i]
  OBVIOUS
<1>2. /\ right \in Seq(Ops) /\ Len(right) = Len(q) - k
      /\ \A i \in 1 .. Len(q) - k : right[i] = q[i + k]
  OBVIOUS
<1> HIDE DEF left, right
<1>3. r \in Seq(Ops) /\ Len(r) = Len(left) + Len(right)
  <2>1. left \in Seq(Ops) /\ right \in Seq(Ops)
    BY <1>1, <1>2
  <2>2. left \o right \in Seq(Ops)
    BY <2>1
  <2>3. Len(left \o right) = Len(left) + Len(right)
    BY <2>1
  <2> QED
    BY <2>2, <2>3
<1>4. \A i \in 1 .. Len(left) : r[i] = left[i]
  BY <1>1, <1>2
<1>5. \A i \in Len(left) + 1 .. Len(left) + Len(right) : r[i] = right[i - Len(left)]
  BY <1>1, <1>2
<1>6. Len(r) = Len(q) - 1
  BY <1>1, <1>2, <1>3
<1>7. DOMAIN r = 1 .. Len(q) - 1
  BY <1>3, <1>6
<1> HIDE DEF r
<1>8. \A i \in 1 .. k - 1 : r[i] = q[i]
  BY <1>1, <1>4
<1>9. \A i \in k .. Len(q) - 1 : r[i] = q[i + 1]
  <2> SUFFICES ASSUME NEW i \in k .. Len(q) - 1 PROVE r[i] = q[i + 1]
    OBVIOUS
  <2>1. i \in Len(left) + 1 .. Len(left) + Len(right) /\ i - Len(left) = i - (k - 1)
    BY <1>1, <1>2
  <2>2. i - (k - 1) \in 1 .. Len(q) - k /\ (i - (k - 1)) + k = i + 1
    OBVIOUS
  <2> QED
    BY <1>2, <1>5, <2>1, <2>2
<1> QED
  BY <1>3, <1>7, <1>8, <1>9 DEF RemoveAt, r, left, right

LEMMA RemovedEntries ==
  ASSUME NEW q \in Seq(Ops), NEW op \in Ops
  PROVE  /\ RemoveFromQueue(q, op) \in Seq(Ops)
         /\ Entries(q) \ {op} \subseteq Entries(RemoveFromQueue(q, op))
         /\ Entries(RemoveFromQueue(q, op)) \subseteq Entries(q)
<1>1. CASE Contains(q, op)
  <2> DEFINE I == {i \in 1 .. Len(q) : q[i] = op}
  <2>1. I # {} /\ I \in SUBSET Nat
    BY <1>1 DEF Contains
  <2>2. Min(I) \in 1 .. Len(q) /\ q[Min(I)] = op
    BY <2>1, LeastIndex
  <2>3. RemoveFromQueue(q, op) = RemoveAt(q, Min(I))
    BY <1>1, <2>1 DEF RemoveFromQueue, RemoveFirst, SelectInSeq, Contains
  <2> HIDE DEF I
  <2> PICK k \in 1 .. Len(q) : k = Min(I)
    BY <2>2
  <2> DEFINE r == RemoveAt(q, k)
  <2>4. /\ r \in Seq(Ops) /\ DOMAIN r = 1 .. Len(q) - 1
        /\ \A i \in 1 .. k - 1 : r[i] = q[i]
        /\ \A i \in k .. Len(q) - 1 : r[i] = q[i + 1]
    BY RemovedPlace
  <2>5. DOMAIN q = 1 .. Len(q) /\ q[k] = op
    BY <2>2
  <2> HIDE DEF r
  <2>6. ASSUME NEW i \in 1 .. Len(q) - 1 PROVE r[i] \in Entries(q)
    <3>1. \/ i \in 1 .. k - 1 /\ i \in 1 .. Len(q)
          \/ i \in k .. Len(q) - 1 /\ i + 1 \in 1 .. Len(q)
      OBVIOUS
    <3> QED
      BY <2>4, <2>5, <3>1 DEF Entries
  <2>7. ASSUME NEW j \in 1 .. Len(q), q[j] # op PROVE q[j] \in Entries(r)
    <3>1. j # k
      BY <2>5, <2>7
    <3>2. \/ j \in 1 .. k - 1 /\ j \in 1 .. Len(q) - 1
          \/ j - 1 \in k .. Len(q) - 1 /\ j - 1 \in 1 .. Len(q) - 1 /\ (j - 1) + 1 = j
      BY <3>1
    <3> QED
      BY <2>4, <3>2 DEF Entries
  <2>8. Entries(r) \subseteq Entries(q)
    BY <2>4, <2>6 DEF Entries
  <2>9. Entries(q) \ {op} \subseteq Entries(r)
    BY <2>5, <2>7 DEF Entries
  <2> QED
    BY <2>3, <2>4, <2>8, <2>9 DEF r
<1>2. CASE ~Contains(q, op)
  BY <1>2 DEF RemoveFromQueue
<1> QED
  BY <1>1, <1>2

LEMMA TrimmedEntries ==
  ASSUME NEW q \in Seq(Ops)
  PROVE  /\ Trimmed(q) \in Seq(Ops) /\ Len(Trimmed(q)) <= MaxQueue
         /\ Entries(q) \ Oldest(q) \subseteq Entries(Trimmed(q))
         /\ Entries(Trimmed(q)) \subseteq Entries(q)
         /\ Len(q) <= MaxQueue => Trimmed(q) = q
<1>1. Len(q) \in Nat /\ MaxQueue \in Nat /\ MaxQueue >= 1 /\ DOMAIN q = 1 .. Len(q)
  BY ConstantsAssumption
<1>2. CASE Len(q) > MaxQueue
  <2> DEFINE m == Len(q) - MaxQueue + 1
             r == SubSeq(q, m, Len(q))
  <2>1. m \in 1 .. Len(q)
    BY <1>1, <1>2
  <2>2. /\ r \in Seq(Ops) /\ Len(r) = MaxQueue /\ DOMAIN r = 1 .. MaxQueue
        /\ \A i \in 1 .. MaxQueue : r[i] = q[m + i - 1]
    BY <1>1, <1>2, <2>1
  <2>3. Trimmed(q) = r
    BY <1>2 DEF Trimmed
  <2>4. /\ \A i \in 1 .. MaxQueue : m + i - 1 \in 1 .. Len(q)
        /\ \A j \in 1 .. Len(q) : j \in 1 .. Len(q) - MaxQueue
                                  \/ (j - m + 1 \in 1 .. MaxQueue /\ m + (j - m + 1) - 1 = j)
    BY <1>1, <1>2
  <2> HIDE DEF r, m
  <2>5. Entries(r) \subseteq Entries(q)
    BY <1>1, <2>2, <2>4 DEF Entries
  <2>6. \A j \in 1 .. Len(q) : j \in 1 .. Len(q) - MaxQueue \/ \E i \in DOMAIN r : r[i] = q[j]
    BY <2>2, <2>4
  <2>7. Entries(q) \ Oldest(q) \subseteq Entries(r)
    BY <1>1, <2>6 DEF Entries, Oldest
  <2> QED
    BY <1>1, <1>2, <2>2, <2>3, <2>5, <2>7
<1>3. CASE ~(Len(q) > MaxQueue)
  BY <1>1, <1>3 DEF Trimmed
<1> QED
  BY <1>2, <1>3

-----------------------------------------------------------------------------
(* The invariant.                                                           *)

Versions == [Files -> 0 .. MaxVersions]
Kinds == {"sync", "process", "edit", "killed"}
Cmds ==
  [pc : Points, kind : Kinds, home : Machines, athome : BOOLEAN, pool : SUBSET Machines,
   queue : Seq(Ops), outer : Seq(Ops), base : {<<>>} \cup ((SUBSET Machines) \X Seq(Ops)),
   targets : SUBSET Machines, todo : SUBSET Ops, op : {<<>>} \cup Ops,
   ends : {<<>>} \cup (Machines \X Machines), src : Versions, was : Versions,
   files : SUBSET Files, raced : BOOLEAN, ok : SUBSET Ops, bad : SUBSET Ops]
Typed ==
  /\ vault \in [Machines -> [Profiles -> Versions]]
  /\ newest \in [Profiles -> 1 .. MaxVersions]
  /\ pool \in [Machines -> SUBSET Machines]
  /\ queue \in [Machines -> Seq(Ops)] /\ \A m \in Machines : Len(queue[m]) <= MaxQueue
  /\ cmd \in [Commands -> Cmds]
  /\ owed \in [Machines -> SUBSET Ops]

\* A profile is of two versions only while a copy has written a part of it.
Partial(s, m, p) ==
  /\ At(s, "copy") /\ cmd[s].op[1] = p /\ cmd[s].ends[2] = m
  /\ cmd[s].files # Present(cmd[s].src)
Whole ==
  \A m \in Machines, p \in Profiles :
    \/ vault[m][p].main = vault[m][p].side
    \/ <<m, p>> \in torn
    \/ \E s \in Commands : Partial(s, m, p)

\* A copy nobody disturbed is of one version, no older than what it replaces, and what
\* it has written is in place.
Copying(c) ==
  c.pc = "copy" =>
    /\ c.op \in Ops /\ c.ends \in Machines \X Machines
    /\ c.files \subseteq Present(c.src)
    /\ ~c.raced => /\ c.op[1] \in Dated => c.src.main >= c.was.main
                   /\ c.src.main = c.src.side
                   /\ \A f \in Present(c.src) \ c.files : c.was[f] = c.src[f]

\* What a command will save covers the queue it has loaded, and its own failures.
Remains(c, q) == (Entries(c.base[2]) \cup c.bad) \ c.ok \subseteq Entries(q)
Knows(c) ==
  c.pc \notin {"new", "done"} =>
    /\ c.base \in (SUBSET Machines) \X Seq(Ops)
    /\ c.kind # "process" => c.pc # "outer" /\ Remains(c, c.queue)
    /\ c.kind = "process" =>
         /\ c.pc # "machine" /\ Len(c.queue) <= MaxQueue
         /\ Entries(c.outer) \subseteq Entries(c.queue)
         /\ Entries(c.base[2]) \subseteq Entries(c.queue)
         /\ c.todo \subseteq Entries(c.queue)
         /\ c.pc = "copy" => c.op \in Entries(c.queue)
         /\ c.pc # "save" => Remains(c, c.outer)
Good(c) == (c.pc = "new" => c = Idle) /\ Copying(c) /\ Knows(c)
AllGood == \A s \in Commands : Good(cmd[s])

IInv == Typed /\ Whole /\ Remembered /\ AllGood

-----------------------------------------------------------------------------
(* What the steps of a command have in common.                              *)

LEMMA NoFilesType == NoFiles \in Versions /\ NoFiles.main = 0 /\ NoFiles.side = 0
BY ConstantsAssumption DEF NoFiles, Versions, Files

LEMMA IdleType ==
  /\ Idle \in Cmds /\ Idle.pc = "new" /\ Idle.kind = "sync"
  /\ Idle.ok = {} /\ Idle.bad = {}
<1>1. (CHOOSE m \in Machines : TRUE) \in Machines
  BY ConstantsAssumption
<1>2. <<>> \in Seq(Ops)
  OBVIOUS
<1> QED
  BY <1>1, <1>2, NoFilesType DEF Idle, Cmds, Points, Kinds

LEMMA NowGood ==
  ASSUME Typed, AllGood, NEW s \in Commands
  PROVE  cmd[s] \in Cmds /\ Good(cmd[s])
BY DEF Typed, AllGood

LEMMA SetCommand ==
  ASSUME Typed, AllGood, NEW s \in Commands, NEW d \in Cmds, Good(d),
         cmd' = [cmd EXCEPT ![s] = d]
  PROVE  /\ cmd' \in [Commands -> Cmds] /\ AllGood'
         /\ cmd'[s] = d /\ \A t \in Commands \ {s} : cmd'[t] = cmd[t]
<1>1. /\ cmd' \in [Commands -> Cmds] /\ cmd'[s] = d
      /\ \A t \in Commands \ {s} : cmd'[t] = cmd[t]
  BY DEF Typed
<1>2. \A t \in Commands : Good(cmd'[t])
  BY <1>1 DEF AllGood
<1>3. AllGood' <=> \A t \in Commands : Good(cmd'[t])
  BY DEF AllGood, Good, Copying, Knows, Remains
<1> QED
  BY <1>1, <1>2, <1>3

\* A profile stays whole, or known to be torn, when a command that was not in the middle
\* of it goes on.
LEMMA WholeStays ==
  ASSUME Whole, UNCHANGED vault, torn \subseteq torn', NEW s \in Commands,
         \A t \in Commands \ {s} : cmd'[t] = cmd[t],
         \A m \in Machines, p \in Profiles : Partial(s, m, p) => <<m, p>> \in torn'
  PROVE  Whole'
<1>1. \A t \in Commands \ {s}, m \in Machines, p \in Profiles : Partial(t, m, p) => Partial(t, m, p)'
  BY DEF Partial, At
<1> QED
  BY <1>1 DEF Whole

LEMMA RememberedStays ==
  ASSUME Remembered, UNCHANGED <<queue, owed, overtaken>>
  PROVE  Remembered'
BY DEF Remembered

\* A command goes on, and nothing else happens.
LEMMA GoesOn ==
  ASSUME IInv, NEW s \in Commands, ~At(s, "copy"), NEW d \in Cmds, Good(d),
         cmd' = [cmd EXCEPT ![s] = d], UNCHANGED <<vault, newest, disk, history>>
  PROVE  IInv'
<1>1. /\ cmd' \in [Commands -> Cmds] /\ AllGood'
      /\ \A t \in Commands \ {s} : cmd'[t] = cmd[t]
  BY SetCommand DEF IInv
<1>2. Whole'
  BY <1>1, WholeStays DEF IInv, history, Partial
<1>3. Remembered'
  BY RememberedStays DEF IInv, disk, history
<1>4. Typed'
  BY <1>1 DEF IInv, Typed, disk, history
<1> QED
  BY <1>1, <1>2, <1>3, <1>4 DEF IInv

\* The entries of a sequence are of its set.
LEMMA EntriesOf == ASSUME NEW q \in Seq(Ops) PROVE Entries(q) \subseteq Ops
BY DEF Entries

-----------------------------------------------------------------------------
(* Initially; the accounts; commands that load, look around and end.        *)

LEMMA IInvInit == Init => IInv
<1> SUFFICES ASSUME Init PROVE IInv
  OBVIOUS
<1>1. [f \in Files |-> 1] \in Versions /\ \A w \in {NoFiles, [f \in Files |-> 1]} : w.main = w.side
  BY ConstantsAssumption DEF Versions, Files, NoFiles
<1>2. vault \in [Machines -> [Profiles -> Versions]]
  BY <1>1, NoFilesType DEF Init
<1>3. <<>> \in Seq(Ops) /\ Len(<<>>) = 0 /\ 0 <= MaxQueue
  BY ConstantsAssumption
<1>4. Typed
  BY <1>2, <1>3, IdleType, ConstantsAssumption DEF Init, Typed
<1>5. Whole
  <2>1. \A m \in Machines, p \in Profiles : vault[m][p] \in {NoFiles, [f \in Files |-> 1]}
    BY DEF Init
  <2>2. \A m \in Machines, p \in Profiles : vault[m][p].main = vault[m][p].side
    BY <1>1, <2>1
  <2> QED
    BY <2>2 DEF Whole
<1>6. Remembered
  BY DEF Init, Remembered
<1>7. Good(Idle)
  BY IdleType DEF Good, Copying, Knows
<1> QED
  BY <1>4, <1>5, <1>6, <1>7 DEF Init, IInv, AllGood

LEMMA RotateKeeps ==
  ASSUME IInv, NEW m \in Machines, NEW p \in Profiles, Rotate(m, p)
  PROVE  IInv'
<1> DEFINE new == [f \in Files |-> newest[p] + 1]
<1>1. newest[p] + 1 \in 1 .. MaxVersions
  BY ConstantsAssumption DEF IInv, Typed, Rotate
<1>2. new \in Versions /\ new.main = new.side
  BY <1>1 DEF Versions, Files
<1>3. vault' = [vault EXCEPT ![m][p] = new] /\ newest' = [newest EXCEPT ![p] = newest[p] + 1]
  BY DEF Rotate
<1> HIDE DEF new
<1>4. /\ vault' \in [Machines -> [Profiles -> Versions]]
      /\ vault'[m][p] = new
      /\ \A n \in Machines, q \in Profiles : <<n, q>> # <<m, p>> => vault'[n][q] = vault[n][q]
  BY <1>2, <1>3 DEF IInv, Typed
<1>5. Typed'
  BY <1>1, <1>3, <1>4 DEF IInv, Typed, Rotate, disk
<1>6. Whole'
  <2> SUFFICES ASSUME NEW n \in Machines, NEW q \in Profiles
               PROVE  \/ vault'[n][q].main = vault'[n][q].side
                      \/ <<n, q>> \in torn'
                      \/ \E s \in Commands : Partial(s, n, q)'
    BY DEF Whole
  <2>1. CASE <<n, q>> = <<m, p>>
    BY <1>2, <1>4, <2>1
  <2>2. CASE <<n, q>> # <<m, p>>
    BY <1>4, <2>2 DEF IInv, Whole, Rotate, Partial, At
  <2> QED
    BY <2>1, <2>2
<1>7. Remembered'
  BY RememberedStays DEF IInv, Rotate, disk
<1>8. AllGood'
  BY DEF IInv, AllGood, Rotate, Good, Copying, Knows, Remains
<1> QED
  BY <1>5, <1>6, <1>7, <1>8 DEF IInv

LEMMA LoadKeeps ==
  ASSUME IInv, NEW s \in Commands, Load(s)
  PROVE  IInv'
<1>1. PICK h \in Machines, a \in BOOLEAN :
        LET c == [cmd[s] EXCEPT !.home = h, !.athome = a, !.pool = pool[h], !.queue = queue[h],
                                !.base = <<pool[h], queue[h]>>]
        IN \/ cmd' = [cmd EXCEPT ![s] = [c EXCEPT !.pc = "machine", !.targets = pool[h]]]
           \/ /\ queue[h] # <<>>
              /\ cmd' = [cmd EXCEPT ![s] = [c EXCEPT !.pc = "next", !.kind = "process",
                                                     !.outer = queue[h], !.todo = Entries(queue[h])]]
  BY DEF Load
<1> DEFINE c == [cmd[s] EXCEPT !.home = h, !.athome = a, !.pool = pool[h], !.queue = queue[h],
                               !.base = <<pool[h], queue[h]>>]
           d1 == [c EXCEPT !.pc = "machine", !.targets = pool[h]]
           d2 == [c EXCEPT !.pc = "next", !.kind = "process",
                           !.outer = queue[h], !.todo = Entries(queue[h])]
<1>2. /\ cmd[s] \in Cmds /\ cmd[s].kind = "sync" /\ cmd[s].ok = {} /\ cmd[s].bad = {}
      /\ cmd[s].pc = "new"
  BY NowGood, IdleType DEF IInv, Load, At, Good
<1>3. /\ pool[h] \in SUBSET Machines /\ queue[h] \in Seq(Ops) /\ Len(queue[h]) <= MaxQueue
      /\ Entries(queue[h]) \subseteq Ops
  BY EntriesOf DEF IInv, Typed
<1>4. d1 \in Cmds /\ d2 \in Cmds
  BY <1>2, <1>3, ZenonT(60) DEF Cmds, Points, Kinds
<1>5. /\ d1.pc = "machine" /\ d1.kind = "sync" /\ d1.base = <<pool[h], queue[h]>>
      /\ d1.queue = queue[h] /\ d1.ok = {} /\ d1.bad = {}
  BY <1>2 DEF Cmds
<1>6. /\ d2.pc = "next" /\ d2.kind = "process" /\ d2.base = <<pool[h], queue[h]>>
      /\ d2.queue = queue[h] /\ d2.outer = queue[h] /\ d2.todo = Entries(queue[h])
      /\ d2.ok = {} /\ d2.bad = {}
  BY <1>2 DEF Cmds
<1>7. cmd' = [cmd EXCEPT ![s] = d1] \/ cmd' = [cmd EXCEPT ![s] = d2]
  BY <1>1
<1> HIDE DEF c, d1, d2
<1>8. Good(d1) /\ Good(d2)
  BY <1>3, <1>5, <1>6 DEF Good, Copying, Knows, Remains
<1> QED
  BY <1>2, <1>4, <1>7, <1>8, GoesOn DEF Load, At

LEMMA EditKeeps ==
  ASSUME IInv, NEW s \in Commands, Edit(s)
  PROVE  IInv'
<1>1. PICK h \in Machines : \E m \in Machines \ {h} :
        cmd' = [cmd EXCEPT ![s] = [@ EXCEPT
          !.pc = "save", !.kind = "edit", !.home = h, !.queue = queue[h],
          !.pool = IF m \in pool[h] THEN pool[h] \ {m} ELSE pool[h] \cup {m},
          !.base = <<pool[h], queue[h]>>]]
  BY DEF Edit
<1>2. PICK ms \in SUBSET Machines :
        cmd' = [cmd EXCEPT ![s] = [cmd[s] EXCEPT
          !.pc = "save", !.kind = "edit", !.home = h, !.queue = queue[h], !.pool = ms,
          !.base = <<pool[h], queue[h]>>]]
  <2>1. PICK m \in Machines \ {h} :
          cmd' = [cmd EXCEPT ![s] = [@ EXCEPT
            !.pc = "save", !.kind = "edit", !.home = h, !.queue = queue[h],
            !.pool = IF m \in pool[h] THEN pool[h] \ {m} ELSE pool[h] \cup {m},
            !.base = <<pool[h], queue[h]>>]]
    BY <1>1
  <2>2. (IF m \in pool[h] THEN pool[h] \ {m} ELSE pool[h] \cup {m}) \in SUBSET Machines
    BY DEF IInv, Typed
  <2> QED
    BY <2>1, <2>2
<1> DEFINE d == [cmd[s] EXCEPT !.pc = "save", !.kind = "edit", !.home = h, !.queue = queue[h],
                               !.pool = ms, !.base = <<pool[h], queue[h]>>]
<1>3. /\ cmd[s] \in Cmds /\ cmd[s].ok = {} /\ cmd[s].bad = {} /\ cmd[s].pc = "new"
  BY NowGood, IdleType DEF IInv, Edit, At, Good
<1>4. pool[h] \in SUBSET Machines /\ queue[h] \in Seq(Ops)
  BY DEF IInv, Typed
<1>5. d \in Cmds
  BY <1>3, <1>4, ZenonT(60) DEF Cmds, Points, Kinds
<1>6. /\ d.pc = "save" /\ d.kind = "edit" /\ d.base = <<pool[h], queue[h]>>
      /\ d.queue = queue[h] /\ d.ok = {} /\ d.bad = {}
  BY <1>3 DEF Cmds
<1> HIDE DEF d
<1>7. Good(d)
  BY <1>4, <1>6 DEF Good, Copying, Knows, Remains
<1> QED
  BY <1>2, <1>3, <1>5, <1>7, GoesOn DEF Edit, At, d

LEMMA ConnectKeeps ==
  ASSUME IInv, NEW s \in Commands, Connect(s)
  PROVE  IInv'
<1>1. PICK m \in cmd[s].targets, found \in SUBSET Profiles :
        LET c == [cmd[s] EXCEPT !.targets = @ \ {m}]
        IN \/ cmd' = [cmd EXCEPT ![s] = c]
           \/ cmd' = [cmd EXCEPT ![s] = [c EXCEPT !.pc = "next", !.todo = found \X {m}]]
  <2>1. PICK m \in cmd[s].targets :
          LET c == [cmd[s] EXCEPT !.targets = @ \ {m}]
              found == {p \in Profiles : vault[c.home][p] # NoFiles \/ vault[m][p] # NoFiles}
          IN \/ cmd' = [cmd EXCEPT ![s] = c]
             \/ cmd' = [cmd EXCEPT ![s] = [c EXCEPT !.pc = "next", !.todo = found \X {m}]]
    BY DEF Connect
  <2> DEFINE c == [cmd[s] EXCEPT !.targets = @ \ {m}]
             found == {p \in Profiles : vault[c.home][p] # NoFiles \/ vault[m][p] # NoFiles}
  <2>2. found \in SUBSET Profiles
    OBVIOUS
  <2> QED
    BY <2>1, <2>2
<1> DEFINE c == [cmd[s] EXCEPT !.targets = @ \ {m}]
           d == [c EXCEPT !.pc = "next", !.todo = found \X {m}]
<1>2. cmd[s] \in Cmds /\ cmd[s].pc = "machine" /\ Good(cmd[s]) /\ cmd[s].kind # "process"
  BY NowGood DEF IInv, Connect, At, Good, Knows
<1>3. m \in Machines /\ cmd[s].targets \in SUBSET Machines
  BY <1>2 DEF Cmds
<1>4. found \X {m} \in SUBSET Ops
  BY <1>3 DEF Ops
<1>5. c \in Cmds
  BY <1>2, <1>3, ZenonT(60) DEF Cmds
<1>6. d \in Cmds
  BY <1>4, <1>5, ZenonT(60) DEF Cmds, Points
<1>7. /\ c.pc = "machine" /\ c.kind = cmd[s].kind /\ c.base = cmd[s].base
      /\ c.queue = cmd[s].queue /\ c.ok = cmd[s].ok /\ c.bad = cmd[s].bad
  BY <1>2 DEF Cmds
<1>8. /\ d.pc = "next" /\ d.kind = cmd[s].kind /\ d.base = cmd[s].base
      /\ d.queue = cmd[s].queue /\ d.ok = cmd[s].ok /\ d.bad = cmd[s].bad
  BY <1>2 DEF Cmds
<1>9. cmd' = [cmd EXCEPT ![s] = c] \/ cmd' = [cmd EXCEPT ![s] = d]
  BY <1>1
<1> HIDE DEF c, d
<1>10. Good(c) /\ Good(d)
  BY <1>2, <1>7, <1>8 DEF Good, Copying, Knows, Remains
<1> QED
  BY <1>2, <1>5, <1>6, <1>9, <1>10, GoesOn DEF Connect, At

LEMMA EndsKeeps ==
  ASSUME IInv, NEW s \in Commands, Ends(s)
  PROVE  IInv'
<1>1. cmd[s] \in Cmds /\ Good(cmd[s])
  BY NowGood DEF IInv
<1>2. PICK pc \in {"save", "outer", "machine"} :
        /\ cmd' = [cmd EXCEPT ![s] = [cmd[s] EXCEPT !.pc = pc]]
        /\ \/ cmd[s].pc = "machine" /\ pc = "save"
           \/ cmd[s].pc = "next" /\ pc = "outer" /\ cmd[s].kind = "process"
           \/ cmd[s].pc = "next" /\ pc = "machine" /\ cmd[s].kind # "process"
  BY DEF Ends, At
<1> DEFINE d == [cmd[s] EXCEPT !.pc = pc]
<1>3. /\ d \in Cmds /\ d.pc = pc /\ d.kind = cmd[s].kind /\ d.base = cmd[s].base
      /\ d.queue = cmd[s].queue /\ d.outer = cmd[s].outer /\ d.todo = cmd[s].todo
      /\ d.ok = cmd[s].ok /\ d.bad = cmd[s].bad
  <2>1. pc \in Points
    BY DEF Points
  <2> QED
    BY <1>1, <2>1 DEF Cmds
<1> HIDE DEF d
<1>4. Good(d)
  BY <1>1, <1>2, <1>3 DEF Good, Copying, Knows, Remains
<1> QED
  BY <1>2, <1>3, <1>4, GoesOn DEF Ends, At, d

-----------------------------------------------------------------------------
(* The comparison and its outcomes.                                         *)

\* determineSyncOperation never picks the side with the earlier expiry.
LEMMA NoBackwardCopy ==
  ASSUME NEW p \in Dated, NEW l \in Versions, NEW r \in Versions, NEW athome \in BOOLEAN,
         Direction(p, l, r, athome) # "skip"
  PROVE  /\ Direction(p, l, r, athome) = "push" => l.main >= r.main
         /\ Direction(p, l, r, athome) # "push" => r.main >= l.main
<1>1. l.main \in Nat /\ r.main \in Nat
  BY ConstantsAssumption DEF Versions, Files
<1> QED
  BY <1>1, NoFilesType DEF Direction

\* A failure and a success keep what is known of the queue.
LEMMA FailedGood ==
  ASSUME NEW c \in Cmds, NEW op \in Ops, Knows(c), c.pc = "next",
         c.kind = "process" => op \in Entries(c.queue)
  PROVE  Failed(c, op) \in Cmds /\ Good(Failed(c, op))
<1>1. CASE c.kind = "process"
  <2> DEFINE q == AddToQueue(c.outer, op)
             d == [c EXCEPT !.bad = @ \cup {op}, !.outer = q]
  <2>1. c.outer \in Seq(Ops) /\ Failed(c, op) = d
    BY <1>1 DEF Cmds, Failed
  <2>2. q \in Seq(Ops) /\ Entries(q) = Entries(c.outer) \cup {op}
    BY <2>1, AddedEntries
  <2> HIDE DEF q
  <2>3. /\ d \in Cmds /\ d.pc = c.pc /\ d.kind = c.kind /\ d.base = c.base /\ d.queue = c.queue
        /\ d.outer = q /\ d.todo = c.todo /\ d.ok = c.ok /\ d.bad = c.bad \cup {op}
    BY <2>2 DEF Cmds
  <2> HIDE DEF d
  <2> QED
    BY <1>1, <2>1, <2>2, <2>3 DEF Good, Copying, Knows, Remains
<1>2. CASE c.kind # "process"
  <2> DEFINE q == AddToQueue(c.queue, op)
             d == [c EXCEPT !.bad = @ \cup {op}, !.queue = q]
  <2>1. c.queue \in Seq(Ops) /\ Failed(c, op) = d
    BY <1>2 DEF Cmds, Failed
  <2>2. q \in Seq(Ops) /\ Entries(q) = Entries(c.queue) \cup {op}
    BY <2>1, AddedEntries
  <2> HIDE DEF q
  <2>3. /\ d \in Cmds /\ d.pc = c.pc /\ d.kind = c.kind /\ d.base = c.base /\ d.queue = q
        /\ d.ok = c.ok /\ d.bad = c.bad \cup {op}
    BY <2>2 DEF Cmds
  <2> HIDE DEF d
  <2> QED
    BY <1>2, <2>1, <2>2, <2>3 DEF Good, Copying, Knows, Remains
<1> QED
  BY <1>1, <1>2

LEMMA SucceededGood ==
  ASSUME NEW c \in Cmds, NEW op \in Ops, Knows(c), c.pc = "next"
  PROVE  Succeeded(c, op) \in Cmds /\ Good(Succeeded(c, op))
<1>1. CASE c.kind = "process"
  <2> DEFINE q == RemoveFromQueue(c.outer, op)
             d == [c EXCEPT !.ok = @ \cup {op}, !.outer = q]
  <2>1. c.outer \in Seq(Ops) /\ Succeeded(c, op) = d
    BY <1>1 DEF Cmds, Succeeded
  <2>2. /\ q \in Seq(Ops) /\ Entries(c.outer) \ {op} \subseteq Entries(q)
        /\ Entries(q) \subseteq Entries(c.outer)
    BY <2>1, RemovedEntries
  <2> HIDE DEF q
  <2>3. /\ d \in Cmds /\ d.pc = c.pc /\ d.kind = c.kind /\ d.base = c.base /\ d.queue = c.queue
        /\ d.outer = q /\ d.todo = c.todo /\ d.ok = c.ok \cup {op} /\ d.bad = c.bad
    BY <2>2 DEF Cmds
  <2> HIDE DEF d
  <2> QED
    BY <1>1, <2>1, <2>2, <2>3 DEF Good, Copying, Knows, Remains
<1>2. CASE c.kind # "process"
  <2> DEFINE q == RemoveFromQueue(c.queue, op)
             d == [c EXCEPT !.ok = @ \cup {op}, !.queue = q]
  <2>1. c.queue \in Seq(Ops) /\ Succeeded(c, op) = d
    BY <1>2 DEF Cmds, Succeeded
  <2>2. q \in Seq(Ops) /\ Entries(c.queue) \ {op} \subseteq Entries(q)
    BY <2>1, RemovedEntries
  <2> HIDE DEF q
  <2>3. /\ d \in Cmds /\ d.pc = c.pc /\ d.kind = c.kind /\ d.base = c.base /\ d.queue = q
        /\ d.ok = c.ok \cup {op} /\ d.bad = c.bad
    BY <2>2 DEF Cmds
  <2> HIDE DEF d
  <2> QED
    BY <1>2, <2>1, <2>2, <2>3 DEF Good, Copying, Knows, Remains
<1> QED
  BY <1>1, <1>2

LEMMA DecideKeeps ==
  ASSUME IInv, NEW s \in Commands, Decide(s)
  PROVE  IInv'
<1>1. cmd[s] \in Cmds /\ Good(cmd[s]) /\ cmd[s].pc = "next"
  BY NowGood DEF IInv, Decide, At
<1> PICK op \in cmd[s].todo :
      LET c == [cmd[s] EXCEPT !.todo = @ \ {op}]
          p == op[1]
          l == vault[c.home][p]
          r == vault[op[2]][p]
          way == Direction(p, l, r, c.athome)
          src == IF way = "push" THEN l ELSE r
          copy == [c EXCEPT !.pc = "copy", !.op = op, !.raced = src.main # src.side,
                     !.ends = IF way = "push" THEN <<c.home, op[2]>> ELSE <<op[2], c.home>>,
                     !.src = src, !.was = IF way = "push" THEN r ELSE l, !.files = Present(src)]
          error == IF c.kind = "process" THEN Failed(c, op) ELSE c
          known == c.kind = "process" => op[2] \in c.pool
      IN cmd' \in {[cmd EXCEPT ![s] = d] : d \in
           IF ~known THEN {Succeeded(c, op)}
           ELSE IF Unreadable(l) \/ Unreadable(r) THEN {error}
           ELSE {error, IF way # "skip" THEN copy
                        ELSE IF c.kind = "process" THEN Succeeded(c, op) ELSE c}}
  BY DEF Decide
<1> DEFINE c == [cmd[s] EXCEPT !.todo = @ \ {op}]
           p == op[1]
           l == vault[c.home][p]
           r == vault[op[2]][p]
           way == Direction(p, l, r, c.athome)
           src == IF way = "push" THEN l ELSE r
           was == IF way = "push" THEN r ELSE l
           ends == IF way = "push" THEN <<c.home, op[2]>> ELSE <<op[2], c.home>>
           raced == src.main # src.side
           copy == [c EXCEPT !.pc = "copy", !.op = op, !.raced = raced,
                             !.ends = ends, !.src = src, !.was = was, !.files = Present(src)]
<1>2. op \in Ops /\ p \in Profiles /\ op[2] \in Machines
  BY <1>1 DEF Cmds, Ops
<1>3. /\ c \in Cmds /\ c.pc = "next" /\ c.kind = cmd[s].kind /\ c.base = cmd[s].base
      /\ c.queue = cmd[s].queue /\ c.outer = cmd[s].outer /\ c.todo = cmd[s].todo \ {op}
      /\ c.ok = cmd[s].ok /\ c.bad = cmd[s].bad
  BY <1>1 DEF Cmds
<1>4. \/ \E d \in {c, Failed(c, op), Succeeded(c, op)} : cmd' = [cmd EXCEPT ![s] = d]
      \/ way # "skip" /\ cmd' = [cmd EXCEPT ![s] = copy]
  OBVIOUS
<1> HIDE DEF c
<1>5. Good(c) /\ Knows(c) /\ (c.kind = "process" => op \in Entries(c.queue))
  BY <1>1, <1>3 DEF Good, Copying, Knows, Remains
<1>6. c.home \in Machines /\ c.athome \in BOOLEAN
  BY <1>3 DEF Cmds
<1>7. l \in Versions /\ r \in Versions
  BY <1>2, <1>6 DEF IInv, Typed
<1>8. \A w \in Versions : Present(w) \in SUBSET Files
  BY DEF Present
<1>9. way # "skip" /\ p \in Dated => src.main >= was.main
  <2> HIDE DEF l, r, p
  <2>1. way # "skip" /\ p \in Dated => /\ way = "push" => l.main >= r.main
                                       /\ way # "push" => r.main >= l.main
    BY <1>6, <1>7, NoBackwardCopy
  <2> HIDE DEF way
  <2> QED
    BY <2>1
<1>10. src \in Versions /\ was \in Versions /\ ends \in Machines \X Machines
  BY <1>2, <1>6, <1>7
<1> HIDE DEF l, r, way, src, was, ends
<1> DEFINE files == Present(src)
<1>11. raced \in BOOLEAN /\ files \in SUBSET Files
  BY <1>8, <1>10
<1> HIDE DEF raced, files
<1>12. copy \in Cmds
  <2> DEFINE e == [c EXCEPT !.pc = "copy", !.op = op, !.ends = ends, !.files = files]
             g == [e EXCEPT !.raced = raced, !.src = src, !.was = was]
  <2>1. e \in Cmds
    BY <1>2, <1>3, <1>10, <1>11, ZenonT(60) DEF Cmds, Points
  <2>2. copy = g
    BY <1>3 DEF files, Cmds
  <2> HIDE DEF e, copy
  <2>3. g \in Cmds
    BY <1>10, <1>11, <2>1, ZenonT(60) DEF Cmds
  <2> QED
    BY <2>2, <2>3
<1>13. /\ copy.pc = "copy" /\ copy.op = op /\ copy.raced = raced
       /\ copy.ends = ends /\ copy.src = src /\ copy.was = was /\ copy.files = Present(src)
       /\ copy.kind = c.kind /\ copy.base = c.base /\ copy.queue = c.queue
       /\ copy.outer = c.outer /\ copy.todo = c.todo /\ copy.ok = c.ok /\ copy.bad = c.bad
  BY <1>3 DEF Cmds
<1> HIDE DEF copy
<1>14. way # "skip" => Good(copy)
  <2>1. way # "skip" => Copying(copy)
    BY <1>2, <1>9, <1>10, <1>13 DEF Copying, raced
  <2>2. Knows(copy)
    BY <1>3, <1>5, <1>13 DEF Knows, Remains
  <2> QED
    BY <1>13, <2>1, <2>2 DEF Good
<1>15. Failed(c, op) \in Cmds /\ Good(Failed(c, op))
  BY <1>2, <1>3, <1>5, FailedGood
<1>16. Succeeded(c, op) \in Cmds /\ Good(Succeeded(c, op))
  BY <1>2, <1>3, <1>5, SucceededGood
<1>17. PICK d \in Cmds : Good(d) /\ cmd' = [cmd EXCEPT ![s] = d]
  BY <1>3, <1>4, <1>5, <1>12, <1>14, <1>15, <1>16
<1> QED
  BY <1>1, <1>17, GoesOn DEF Decide, At

-----------------------------------------------------------------------------
(* One file of a copy.                                                      *)

\* The profile once file f is written, and the command that has written it.
Written(c, f) == [vault[c.ends[2]][c.op[1]] EXCEPT ![f] = Content(c, f)]
Copied(c, f) ==
  [c EXCEPT !.files = c.files \ {f}, !.was = Written(c, f), !.raced = Disturbed(c)]

LEMMA VersionFields ==
  ASSUME NEW w \in Versions
  PROVE  w.main \in Nat /\ w.side \in Nat /\ w.main = w["main"] /\ w.side = w["side"]
BY ConstantsAssumption DEF Versions, Files

LEMMA CopyStep ==
  ASSUME IInv, NEW s \in Commands, CopyFile(s)
  PROVE  \E f \in cmd[s].files :
           LET c == cmd[s]
               p == c.op[1]
               to == c.ends[2]
               d == Copied(c, f)
           IN /\ vault' = [vault EXCEPT ![to][p] = Written(c, f)]
              /\ cmd' = [cmd EXCEPT ![s] = IF d.files = {}
                                             THEN Succeeded([d EXCEPT !.pc = "next"], c.op) ELSE d]
              /\ Written(c, f).main < vault[to][p].main /\ (d.raced \/ p \notin Dated) => p \in blind'
              /\ d.raced => <<to, p>> \in torn'
              /\ torn \ {<<to, p>>} \subseteq torn'
<1> DEFINE c == cmd[s]
           p == c.op[1]
           from == c.ends[1]
           to == c.ends[2]
<1>1. PICK f \in c.files :
        /\ vault' = [vault EXCEPT ![to][p] = Written(c, f)]
        /\ cmd' = [cmd EXCEPT ![s] = IF Copied(c, f).files = {}
                     THEN Succeeded([Copied(c, f) EXCEPT !.pc = "next"], c.op) ELSE Copied(c, f)]
        /\ blind' = IF Written(c, f).main < vault[to][p].main /\ (Disturbed(c) \/ p \notin Dated)
                      THEN blind \cup {p} ELSE blind
        /\ torn' = IF Disturbed(c) \/ (Copied(c, f).files = {} /\ <<from, p>> \in torn)
                     THEN torn \cup {<<to, p>>}
                   ELSE IF Copied(c, f).files = {} THEN torn \ {<<to, p>>} ELSE torn
  BY DEF CopyFile, Copied, Written
<1>2. Copied(c, f).raced = Disturbed(c)
  BY NowGood DEF IInv, Cmds, Copied
<1> HIDE DEF c, p, from, to
<1>3. /\ Written(c, f).main < vault[to][p].main /\ (Copied(c, f).raced \/ p \notin Dated)
           => p \in blind'
      /\ Copied(c, f).raced => <<to, p>> \in torn'
      /\ torn \ {<<to, p>>} \subseteq torn'
  BY <1>1, <1>2
<1> QED
  BY <1>1, <1>3 DEF c, p, to

\* The facts about it.
LEMMA CopyFacts ==
  ASSUME IInv, NEW s \in Commands, At(s, "copy"), NEW f \in cmd[s].files
  PROVE  LET c == cmd[s]
             p == c.op[1]
             to == c.ends[2]
             new == Written(c, f)
             d == Copied(c, f)
         IN /\ c.op \in Ops /\ p \in Profiles /\ to \in Machines
            /\ new \in Versions /\ d \in Cmds
            /\ d.pc = "copy" /\ d.op = c.op /\ d.ends = c.ends
            /\ Good(d) /\ d.files # Present(d.src)
            /\ ~d.raced /\ p \in Dated => new.main >= vault[to][p].main
            /\ ~d.raced /\ d.files = {} => new.main = new.side
<1> DEFINE c == cmd[s]
           p == c.op[1]
           from == c.ends[1]
           to == c.ends[2]
           old == vault[to][p]
           v == Content(c, f)
           new == Written(c, f)
           d == Copied(c, f)
<1>1. c \in Cmds /\ Good(c) /\ c.pc = "copy" /\ f \in c.files
  BY NowGood DEF IInv, At
<1>2. d = [c EXCEPT !.files = c.files \ {f}, !.was = new, !.raced = Disturbed(c)]
  BY DEF Copied
<1>3. new = [old EXCEPT ![f] = v]
  BY DEF Written
<1>4. v = IF from = c.home THEN c.src[f] ELSE vault[from][p][f]
  BY DEF Content
<1>5. ~Disturbed(c) => ~c.raced /\ c.was = old /\ (from # c.home => vault[from][p] = c.src)
  BY DEF Disturbed
<1> HIDE DEF c, v, new, d
<1>6. /\ c.op \in Ops /\ p \in Profiles /\ to \in Machines /\ from \in Machines
      /\ c.src \in Versions /\ c.was \in Versions /\ c.files \in SUBSET Files
      /\ c.files \subseteq Present(c.src)
  BY <1>1 DEF Good, Copying, Ops, Cmds
<1>7. f \in Files /\ f \in Present(c.src)
  BY <1>1, <1>6
<1>8. old \in Versions /\ vault[from][p] \in Versions
  BY <1>6 DEF IInv, Typed
<1> HIDE DEF p, from, to, old
<1>9. v \in 0 .. MaxVersions
  BY <1>4, <1>6, <1>7, <1>8 DEF Versions
<1>10. /\ new \in Versions /\ new[f] = v /\ \A g \in Files \ {f} : new[g] = old[g]
  BY <1>3, <1>7, <1>8, <1>9 DEF Versions
<1>11. Disturbed(c) \in BOOLEAN
  BY <1>1 DEF Disturbed, Cmds
<1>12. /\ d \in Cmds
       /\ d.pc = "copy" /\ d.op = c.op /\ d.ends = c.ends /\ d.src = c.src
       /\ d.files = c.files \ {f} /\ d.was = new /\ d.raced = Disturbed(c)
       /\ d.kind = c.kind /\ d.base = c.base /\ d.queue = c.queue /\ d.outer = c.outer
       /\ d.todo = c.todo /\ d.ok = c.ok /\ d.bad = c.bad
  <2>1. c.files \ {f} \in SUBSET Files
    BY <1>6
  <2> QED
    BY <1>1, <1>2, <1>10, <1>11, <2>1 DEF Cmds
<1>13. ~c.raced => /\ p \in Dated => c.src.main >= c.was.main
                   /\ c.src.main = c.src.side
                   /\ \A g \in Present(c.src) \ c.files : c.was[g] = c.src[g]
  BY <1>1 DEF Good, Copying, p
<1>14. /\ c.src.main \in Nat /\ old.main \in Nat /\ new.main \in Nat
       /\ c.src.main = c.src["main"] /\ new.main = new["main"] /\ old.main = old["main"]
       /\ c.src.side = c.src["side"] /\ new.side = new["side"]
  BY <1>6, <1>8, <1>10, VersionFields
<1>15. ASSUME ~d.raced
       PROVE  /\ \A g \in Present(c.src) \ d.files : new[g] = c.src[g]
              /\ p \in Dated => new.main >= old.main /\ c.src.main >= new.main
              /\ c.src.main = c.src.side
  <2>1. ~c.raced /\ c.was = old /\ v = c.src[f]
    BY <1>4, <1>5, <1>12, <1>15
  <2>2. ASSUME NEW g \in Present(c.src), g \notin d.files PROVE new[g] = c.src[g]
    <3>1. g \in Files /\ (g = f \/ g \notin c.files)
      BY <1>12, <2>2 DEF Present
    <3> QED
      BY <1>10, <1>13, <2>1, <3>1
  <2>3. new.main = c.src.main \/ new.main = old.main
    BY <1>7, <1>10, <1>14, <2>1 DEF Files
  <2>4. p \in Dated => c.src.main >= old.main
    BY <1>13, <2>1
  <2>5. p \in Dated => new.main >= old.main /\ c.src.main >= new.main
    BY <1>14, <2>3, <2>4
  <2> QED
    BY <1>13, <2>1, <2>2, <2>5
<1>16. ~d.raced /\ d.files = {} => new.main = new.side
  <2> SUFFICES ASSUME ~d.raced, d.files = {} PROVE new.main = new.side
    OBVIOUS
  <2>1. c.src["main"] = c.src["side"] /\ c.src[f] # 0
    BY <1>7, <1>14, <1>15 DEF Present
  <2>2. Present(c.src) = Files
    BY <1>7, <2>1 DEF Present, Files
  <2>3. \A g \in Files : new[g] = c.src[g]
    BY <1>15, <2>2
  <2> QED
    BY <1>14, <2>1, <2>3 DEF Files
<1>17. Copying(d)
  <2>1. d.files \subseteq Present(d.src) /\ d.op[1] = p /\ d.ends \in Machines \X Machines
    BY <1>1, <1>6, <1>12 DEF p, Good, Copying
  <2>2. ~d.raced => /\ d.op[1] \in Dated => d.src.main >= d.was.main
                    /\ d.src.main = d.src.side
                    /\ \A g \in Present(d.src) \ d.files : d.was[g] = d.src[g]
    BY <1>12, <1>15, <2>1
  <2> QED
    BY <1>6, <1>12, <2>1, <2>2 DEF Copying
<1>18. Knows(d)
  BY <1>1, <1>12 DEF Good, Knows, Remains
<1>19. Good(d)
  BY <1>12, <1>17, <1>18 DEF Good
<1>20. d.files # Present(d.src)
  BY <1>7, <1>12
<1> QED
  BY <1>6, <1>10, <1>12, <1>15, <1>16, <1>19, <1>20 DEF c, p, to, old, new, d

LEMMA CopyFileKeeps ==
  ASSUME IInv, NEW s \in Commands, CopyFile(s)
  PROVE  IInv'
<1>1. At(s, "copy") /\ UNCHANGED <<newest, disk, owed, overtaken>>
  BY DEF CopyFile
<1> DEFINE c == cmd[s]
           p == c.op[1]
           to == c.ends[2]
<1>2. PICK f \in c.files :
        LET d == Copied(c, f)
        IN /\ vault' = [vault EXCEPT ![to][p] = Written(c, f)]
           /\ cmd' = [cmd EXCEPT ![s] = IF d.files = {}
                                          THEN Succeeded([d EXCEPT !.pc = "next"], c.op) ELSE d]
           /\ d.raced => <<to, p>> \in torn'
           /\ torn \ {<<to, p>>} \subseteq torn'
  BY CopyStep
<1> DEFINE new == Written(c, f)
           d == Copied(c, f)
           e == [d EXCEPT !.pc = "next"]
<1>3. /\ c.op \in Ops /\ p \in Profiles /\ to \in Machines
      /\ new \in Versions /\ d \in Cmds
      /\ d.pc = "copy" /\ d.op = c.op /\ d.ends = c.ends
      /\ Good(d) /\ d.files # Present(d.src)
      /\ ~d.raced /\ d.files = {} => new.main = new.side
  BY <1>1, CopyFacts
<1>4. /\ vault' = [vault EXCEPT ![to][p] = new]
      /\ cmd' = [cmd EXCEPT ![s] = IF d.files = {} THEN Succeeded(e, c.op) ELSE d]
      /\ d.raced => <<to, p>> \in torn'
      /\ torn \ {<<to, p>>} \subseteq torn'
  BY <1>2
<1> HIDE DEF new, d
<1>5. e \in Cmds /\ Knows(e) /\ e.pc = "next"
  <2>1. /\ e \in Cmds /\ e.pc = "next" /\ e.kind = d.kind /\ e.base = d.base /\ e.queue = d.queue
        /\ e.outer = d.outer /\ e.todo = d.todo /\ e.ok = d.ok /\ e.bad = d.bad
    BY <1>3 DEF Cmds, Points
  <2> QED
    BY <1>3, <2>1 DEF Good, Knows, Remains
<1> HIDE DEF c, p, to, e
<1>6. PICK n \in Cmds : /\ Good(n) /\ cmd' = [cmd EXCEPT ![s] = n]
                        /\ d.files # {} => n = d
  BY <1>3, <1>4, <1>5, SucceededGood
<1>7. /\ cmd' \in [Commands -> Cmds] /\ AllGood'
      /\ cmd'[s] = n /\ \A t \in Commands \ {s} : cmd'[t] = cmd[t]
  BY <1>6, SetCommand DEF IInv
<1>8. /\ vault' \in [Machines -> [Profiles -> Versions]]
      /\ vault'[to][p] = new
      /\ \A m \in Machines, q \in Profiles : <<m, q>> # <<to, p>> => vault'[m][q] = vault[m][q]
  BY <1>3, <1>4 DEF IInv, Typed
<1>9. Typed'
  BY <1>1, <1>7, <1>8 DEF IInv, Typed, disk
<1>10. Whole'
  <2> SUFFICES ASSUME NEW m \in Machines, NEW q \in Profiles
               PROVE  \/ vault'[m][q].main = vault'[m][q].side
                      \/ <<m, q>> \in torn'
                      \/ \E t \in Commands : Partial(t, m, q)'
    BY DEF Whole
  <2>1. <<m, q>> = <<to, p>> =>
          vault'[m][q].main = vault'[m][q].side \/ <<m, q>> \in torn' \/ Partial(s, m, q)'
    <3>1. d.op[1] = p /\ d.ends[2] = to
      BY <1>3 DEF p, to
    <3>2. SUFFICES ASSUME m = to, q = p
                   PROVE  vault'[m][q].main = vault'[m][q].side \/ <<m, q>> \in torn'
                          \/ Partial(s, m, q)'
      OBVIOUS
    <3>3. d.files # {} => Partial(s, m, q)'
      BY <1>3, <1>6, <1>7, <3>1, <3>2 DEF Partial, At
    <3> QED
      BY <1>3, <1>4, <1>8, <3>2, <3>3
  <2>2. <<m, q>> # <<to, p>> =>
          \/ vault'[m][q].main = vault'[m][q].side
          \/ <<m, q>> \in torn'
          \/ \E t \in Commands : Partial(t, m, q)'
    <3> SUFFICES ASSUME <<m, q>> # <<to, p>>, vault[m][q].main # vault[m][q].side,
                        <<m, q>> \notin torn
                 PROVE  \E t \in Commands : Partial(t, m, q)'
      BY <1>4, <1>8
    <3>1. PICK t \in Commands : Partial(t, m, q)
      BY DEF IInv, Whole
    <3>2. t # s
      BY <3>1 DEF Partial, p, to, c
    <3> QED
      BY <1>7, <3>1, <3>2 DEF Partial, At
  <2> QED
    BY <2>1, <2>2
<1>11. Remembered'
  BY <1>1, RememberedStays DEF IInv, disk
<1> QED
  BY <1>7, <1>9, <1>10, <1>11 DEF IInv

-----------------------------------------------------------------------------
(* Failures, and the end of a command.                                      *)

LEMMA CopyFailsKeeps ==
  ASSUME IInv, NEW s \in Commands, CopyFails(s)
  PROVE  IInv'
<1> DEFINE c == cmd[s]
           e == [c EXCEPT !.pc = "next", !.files = {}]
<1>1. c \in Cmds /\ Good(c) /\ c.pc = "copy"
  BY NowGood DEF IInv, CopyFails, At
<1>2. cmd' = [cmd EXCEPT ![s] = Failed(e, c.op)]
  BY DEF CopyFails
<1>3. /\ c.files # Present(c.src) => <<c.ends[2], c.op[1]>> \in torn'
      /\ torn \subseteq torn'
  BY <1>1 DEF CopyFails, Interrupted
<1>4. \A m \in Machines, p \in Profiles : Partial(s, m, p) => <<m, p>> \in torn'
  BY <1>3 DEF Partial
<1>5. UNCHANGED <<vault, newest, disk, blind, owed, overtaken>>
  BY DEF CopyFails
<1> HIDE DEF c
<1>6. /\ e \in Cmds /\ e.pc = "next" /\ e.kind = c.kind /\ e.base = c.base /\ e.queue = c.queue
      /\ e.outer = c.outer /\ e.todo = c.todo /\ e.ok = c.ok /\ e.bad = c.bad
  BY <1>1 DEF Cmds, Points
<1> HIDE DEF e
<1>7. c.op \in Ops /\ Knows(e) /\ (e.kind = "process" => c.op \in Entries(e.queue))
  BY <1>1, <1>6 DEF Good, Copying, Knows, Remains
<1>8. Failed(e, c.op) \in Cmds /\ Good(Failed(e, c.op))
  BY <1>6, <1>7, FailedGood
<1>9. /\ cmd' \in [Commands -> Cmds] /\ AllGood'
      /\ \A t \in Commands \ {s} : cmd'[t] = cmd[t]
  BY <1>2, <1>8, SetCommand DEF IInv
<1>10. Whole'
  BY <1>3, <1>4, <1>5, <1>9, WholeStays DEF IInv
<1>11. Remembered'
  BY <1>5, RememberedStays DEF IInv, disk
<1>12. Typed'
  BY <1>5, <1>9 DEF IInv, Typed, disk
<1> QED
  BY <1>9, <1>10, <1>11, <1>12 DEF IInv

LEMMA CrashKeeps ==
  ASSUME IInv, NEW s \in Commands, Crash(s)
  PROVE  IInv'
<1> DEFINE e == [Idle EXCEPT !.pc = "done", !.kind = "killed"]
<1>1. cmd' = [cmd EXCEPT ![s] = e] /\ UNCHANGED <<vault, newest, disk, blind, owed, overtaken>>
  BY DEF Crash
<1>2. \A m \in Machines, p \in Profiles : Partial(s, m, p) => <<m, p>> \in torn'
  BY DEF Crash, Interrupted, Partial, At
<1>3. torn \subseteq torn'
  BY DEF Crash, Interrupted
<1>4. e \in Cmds /\ e.pc = "done"
  BY IdleType DEF Cmds, Points, Kinds
<1> HIDE DEF e
<1>5. Good(e)
  BY <1>4 DEF Good, Copying, Knows
<1>6. /\ cmd' \in [Commands -> Cmds] /\ AllGood'
      /\ \A t \in Commands \ {s} : cmd'[t] = cmd[t]
  BY <1>1, <1>4, <1>5, SetCommand DEF IInv
<1>7. Whole'
  BY <1>1, <1>2, <1>3, <1>6, WholeStays DEF IInv
<1>8. Remembered'
  BY <1>1, RememberedStays DEF IInv, disk
<1>9. Typed'
  BY <1>1, <1>6 DEF IInv, Typed, disk
<1> QED
  BY <1>6, <1>7, <1>8, <1>9 DEF IInv

\* What a save owes is in the queue it leaves: it covers the queue the command has loaded
\* and its failures, but for the entries that the limit takes from it.
LEMMA SavedQueue ==
  ASSUME Remembered, Typed, NEW s \in Commands, NEW h \in Machines, h = cmd[s].home,
         NEW ms, NEW q \in Seq(Ops), Saves(s, ms, q), NEW gone,
         owed' = [owed EXCEPT ![h] = gone],
         h \notin overtaken /\ <<pool[h], queue[h]>> = cmd[s].base
            => gone \subseteq Entries(Trimmed(q))
  PROVE  Remembered'
<1>1. /\ queue' = [queue EXCEPT ![h] = Trimmed(q)]
      /\ overtaken' = IF <<pool[h], queue[h]>> # cmd[s].base THEN overtaken \cup {h} ELSE overtaken
  BY DEF Saves
<1>2. SUFFICES ASSUME NEW m \in Machines, m \notin overtaken'
               PROVE  owed'[m] \subseteq Entries(queue'[m])
  BY DEF Remembered, Entries
<1>3. m \notin overtaken
  BY <1>1, <1>2
<1>4. CASE m = h
  BY <1>1, <1>2, <1>3, <1>4 DEF Typed
<1>5. CASE m # h
  BY <1>1, <1>3, <1>5 DEF Typed, Remembered
<1> QED
  BY <1>4, <1>5

LEMMA SavedType ==
  ASSUME Typed, NEW s \in Commands, NEW ms \in SUBSET Machines, NEW q \in Seq(Ops),
         cmd[s].home \in Machines, Saves(s, ms, q)
  PROVE  /\ pool' \in [Machines -> SUBSET Machines]
         /\ queue' \in [Machines -> Seq(Ops)] /\ \A m \in Machines : Len(queue'[m]) <= MaxQueue
<1>1. Trimmed(q) \in Seq(Ops) /\ Len(Trimmed(q)) <= MaxQueue
  BY TrimmedEntries
<1> QED
  BY <1>1 DEF Typed, Saves

LEMMA SaveOuterKeeps ==
  ASSUME IInv, NEW s \in Commands, SaveOuter(s)
  PROVE  IInv'
<1> DEFINE c == cmd[s]
           q == c.outer
           b == <<c.pool, Trimmed(q)>>
           d == [c EXCEPT !.pc = "save", !.base = b]
           gone == ((owed[c.home] \cup c.bad) \ c.ok) \ Oldest(q)
<1>1. c \in Cmds /\ Good(c) /\ c.pc = "outer"
  BY NowGood DEF IInv, SaveOuter, At
<1>2. /\ Saves(s, c.pool, q) /\ owed' = [owed EXCEPT ![c.home] = gone]
      /\ UNCHANGED <<vault, newest, blind, torn>>
  BY DEF SaveOuter, Settle
<1>3. cmd' = [cmd EXCEPT ![s] = d]
  <2>1. cmd' = [cmd EXCEPT ![s].pc = "save", ![s].base = b]
    BY DEF SaveOuter
  <2> HIDE DEF b
  <2>2. cmd \in [Commands -> Cmds]
    BY DEF IInv, Typed
  <2> QED
    BY <1>1, <2>1, <2>2
<1> HIDE DEF c
<1>4. /\ c.home \in Machines /\ c.pool \in SUBSET Machines /\ q \in Seq(Ops)
      /\ c.ok \in SUBSET Ops /\ c.bad \in SUBSET Ops
  BY <1>1 DEF Cmds
<1>5. /\ c.kind = "process" /\ Len(c.queue) <= MaxQueue
      /\ Entries(q) \subseteq Entries(c.queue)
      /\ Remains(c, q)
  BY <1>1 DEF Good, Knows
<1>6. /\ Trimmed(q) \in Seq(Ops) /\ Entries(q) \ Oldest(q) \subseteq Entries(Trimmed(q))
      /\ Entries(Trimmed(q)) \subseteq Entries(q)
  BY <1>4, TrimmedEntries
<1>7. b \in (SUBSET Machines) \X Seq(Ops) /\ b[2] = Trimmed(q)
  BY <1>4, <1>6
<1> HIDE DEF b, q
<1>8. /\ d \in Cmds /\ d.pc = "save" /\ d.kind = c.kind /\ d.base = b /\ d.queue = c.queue
      /\ d.outer = c.outer /\ d.todo = c.todo /\ d.ok = c.ok /\ d.bad = c.bad
  BY <1>1, <1>7 DEF Cmds, Points
<1> HIDE DEF d
<1>9. Good(d)
  BY <1>1, <1>5, <1>6, <1>7, <1>8 DEF Good, Copying, Knows, q
<1>10. /\ cmd' \in [Commands -> Cmds] /\ AllGood'
       /\ cmd'[s] = d /\ \A t \in Commands \ {s} : cmd'[t] = cmd[t]
  BY <1>3, <1>8, <1>9, SetCommand DEF IInv
<1>11. Whole'
  <2>1. \A m \in Machines, p \in Profiles : Partial(s, m, p) => <<m, p>> \in torn'
    BY <1>1 DEF Partial, At, c
  <2> QED
    BY <1>2, <1>10, <2>1, WholeStays DEF IInv
<1>12. c.home \notin overtaken /\ <<pool[c.home], queue[c.home]>> = c.base
         => gone \subseteq Entries(Trimmed(q))
  <2> SUFFICES ASSUME c.home \notin overtaken, <<pool[c.home], queue[c.home]>> = c.base
               PROVE  gone \subseteq Entries(Trimmed(q))
    OBVIOUS
  <2>1. owed[c.home] \subseteq Entries(c.base[2])
    <3>1. owed[c.home] \subseteq Entries(queue[c.home])
      BY <1>4 DEF IInv, Remembered
    <3>2. c.base[2] = queue[c.home]
      OBVIOUS
    <3> QED
      BY <3>1, <3>2
  <2> QED
    BY <1>5, <1>6, <2>1 DEF Remains
<1> HIDE DEF gone
<1>13. gone \in SUBSET Ops
  BY <1>4 DEF gone, IInv, Typed
<1>14. Remembered'
  BY <1>2, <1>4, <1>12, SavedQueue DEF IInv, c, q
<1>15. /\ pool' \in [Machines -> SUBSET Machines]
       /\ queue' \in [Machines -> Seq(Ops)] /\ \A m \in Machines : Len(queue'[m]) <= MaxQueue
  BY <1>2, <1>4, SavedType DEF IInv, c, q
<1>16. Typed'
  BY <1>2, <1>4, <1>10, <1>13, <1>15 DEF IInv, Typed
<1> QED
  BY <1>10, <1>11, <1>14, <1>16 DEF IInv

LEMMA SaveKeeps ==
  ASSUME IInv, NEW s \in Commands, Save(s)
  PROVE  IInv'
<1> DEFINE c == cmd[s]
           q == c.queue
           d == [c EXCEPT !.pc = "done"]
           paid == ((owed[c.home] \cup c.bad) \ c.ok) \ Oldest(q)
           gone == IF c.kind = "process" THEN owed[c.home] ELSE paid
<1>1. c \in Cmds /\ Good(c) /\ c.pc = "save"
  BY NowGood DEF IInv, Save, At
<1>2. c.home \in Machines /\ c.pool \in SUBSET Machines /\ q \in Seq(Ops)
      /\ c.ok \in SUBSET Ops /\ c.bad \in SUBSET Ops
  BY <1>1 DEF Cmds
<1>3. /\ Saves(s, c.pool, q) /\ UNCHANGED <<vault, newest, blind, torn>>
      /\ cmd' = [cmd EXCEPT ![s] = d]
  BY DEF Save
<1>4. owed' = [owed EXCEPT ![c.home] = gone]
  <2>1. IF c.kind = "process" THEN owed' = owed ELSE owed' = [owed EXCEPT ![c.home] = paid]
    BY DEF Save, Settle
  <2>2. owed \in [Machines -> SUBSET Ops]
    BY DEF IInv, Typed
  <2> HIDE DEF c, q, paid
  <2> QED
    BY <1>2, <2>1, <2>2
<1> HIDE DEF c
<1>5. d \in Cmds /\ d.pc = "done"
  BY <1>1 DEF Cmds, Points
<1> HIDE DEF d, q
<1>6. Good(d)
  BY <1>5 DEF Good, Copying, Knows
<1>7. /\ cmd' \in [Commands -> Cmds] /\ AllGood'
      /\ cmd'[s] = d /\ \A t \in Commands \ {s} : cmd'[t] = cmd[t]
  BY <1>3, <1>5, <1>6, SetCommand DEF IInv
<1>8. Whole'
  <2>1. \A m \in Machines, p \in Profiles : Partial(s, m, p) => <<m, p>> \in torn'
    BY <1>1 DEF Partial, At, c
  <2> QED
    BY <1>3, <1>7, <2>1, WholeStays DEF IInv
<1>9. /\ Trimmed(q) \in Seq(Ops) /\ Entries(q) \ Oldest(q) \subseteq Entries(Trimmed(q))
      /\ Len(q) <= MaxQueue => Trimmed(q) = q
  BY <1>2, TrimmedEntries
<1>10. c.home \notin overtaken /\ <<pool[c.home], queue[c.home]>> = c.base
         => gone \subseteq Entries(Trimmed(q))
  <2> SUFFICES ASSUME c.home \notin overtaken, <<pool[c.home], queue[c.home]>> = c.base
               PROVE  gone \subseteq Entries(Trimmed(q))
    OBVIOUS
  <2>1. owed[c.home] \subseteq Entries(c.base[2])
    <3>1. owed[c.home] \subseteq Entries(queue[c.home])
      BY <1>2 DEF IInv, Remembered
    <3>2. c.base[2] = queue[c.home]
      OBVIOUS
    <3> QED
      BY <3>1, <3>2
  <2>2. c.kind = "process" => Len(q) <= MaxQueue /\ Entries(c.base[2]) \subseteq Entries(q)
    BY <1>1 DEF Good, Knows, q
  <2>3. c.kind # "process" => Remains(c, q)
    BY <1>1 DEF Good, Knows, q
  <2>4. c.kind = "process" => owed[c.home] \subseteq Entries(Trimmed(q))
    BY <1>9, <2>1, <2>2
  <2>5. c.kind # "process" => paid \subseteq Entries(Trimmed(q))
    BY <1>9, <2>1, <2>3 DEF Remains
  <2> HIDE DEF paid
  <2> QED
    BY <2>4, <2>5
<1> HIDE DEF gone
<1>11. gone \in SUBSET Ops
  BY <1>2 DEF gone, IInv, Typed
<1>12. Remembered'
  BY <1>2, <1>3, <1>4, <1>10, SavedQueue DEF IInv, c
<1>13. /\ pool' \in [Machines -> SUBSET Machines]
       /\ queue' \in [Machines -> Seq(Ops)] /\ \A m \in Machines : Len(queue'[m]) <= MaxQueue
  BY <1>2, <1>3, SavedType DEF IInv, c
<1>14. Typed'
  BY <1>2, <1>3, <1>4, <1>7, <1>11, <1>13 DEF IInv, Typed
<1> QED
  BY <1>7, <1>8, <1>12, <1>14 DEF IInv

-----------------------------------------------------------------------------
(* The theorems.                                                            *)

LEMMA IInvStep == IInv /\ [Next]_vars => IInv'
<1> SUFFICES ASSUME IInv, [Next]_vars PROVE IInv'
  OBVIOUS
<1>1. ASSUME NEW m \in Machines, NEW p \in Profiles, Rotate(m, p) PROVE IInv'
  BY <1>1, RotateKeeps
<1>2. ASSUME NEW s \in Commands, Load(s) \/ Edit(s) \/ Connect(s) \/ Ends(s) \/ Decide(s)
      PROVE  IInv'
  BY <1>2, LoadKeeps, EditKeeps, ConnectKeeps, EndsKeeps, DecideKeeps
<1>3. ASSUME NEW s \in Commands, CopyFile(s) \/ CopyFails(s) PROVE IInv'
  BY <1>3, CopyFileKeeps, CopyFailsKeeps
<1>4. ASSUME NEW s \in Commands, SaveOuter(s) \/ Save(s) \/ Crash(s) PROVE IInv'
  BY <1>4, SaveOuterKeeps, SaveKeeps, CrashKeeps
<1>5. CASE UNCHANGED vars
  <2>1. UNCHANGED <<vault, newest, queue, cmd, torn, owed, overtaken, pool>>
    BY <1>5 DEF vars
  <2>2. Typed' /\ Whole' /\ Remembered'
    BY <2>1 DEF IInv, Typed, Whole, Remembered, Partial, At
  <2>3. AllGood'
    BY <2>1 DEF IInv, AllGood, Good, Copying, Knows, Remains
  <2> QED
    BY <2>2, <2>3 DEF IInv
<1> QED
  BY <1>1, <1>2, <1>3, <1>4, <1>5 DEF Next

\* The inductive invariant holds in every reachable state.
THEOREM Invariance == Spec => []IInv
BY IInvInit, IInvStep, PTL DEF Spec

\* WholeProfile: the files of a profile are of one version, except during a copy, after one
\* that stopped half way, and where two writers met.
THEOREM FilesBelongTogether == Spec => []WholeProfile
<1>1. IInv => WholeProfile
  <2> SUFFICES ASSUME IInv PROVE WholeProfile
    OBVIOUS
  <2>1. \A s \in Commands, m \in Machines, p \in Profiles :
          Partial(s, m, p) => At(s, "copy") /\ cmd[s].op[1] = p /\ cmd[s].ends[2] = m
    BY DEF Partial
  <2>2. ASSUME NEW m \in Machines, NEW p \in Profiles
        PROVE  \/ vault[m][p].main = vault[m][p].side
               \/ <<m, p>> \in torn
               \/ \E s \in Commands : At(s, "copy") /\ cmd[s].op[1] = p /\ cmd[s].ends[2] = m
    <3>1. \/ vault[m][p].main = vault[m][p].side
          \/ <<m, p>> \in torn
          \/ \E s \in Commands : Partial(s, m, p)
      BY DEF IInv, Whole
    <3> QED
      BY <2>1, <3>1
  <2> QED
    BY <2>2, Zenon DEF WholeProfile
<1> QED
  BY <1>1, Invariance, PTL

\* Remembered: a failed copy of a command that has ended stays in the queue, unless the
\* queue was full or another command has saved over it.
THEOREM FailureRemembered == Spec => []Remembered
<1>1. IInv => Remembered
  BY DEF IInv
<1> QED
  BY <1>1, Invariance, PTL

\* Forward: no copy replaces a token by an older one, where the expiries tell and nobody
\* has written the profile since they were compared.
THEOREM NeverBackward == Spec => Forward
<1> DEFINE A == \A m \in Machines, p \in Profiles :
                  p \notin blind' => vault'[m][p].main >= vault[m][p].main
<1>1. IInv /\ [Next]_vars => [A]_vars
  <2> SUFFICES ASSUME IInv, [Next]_vars, ~UNCHANGED vars, NEW m \in Machines, NEW p \in Profiles,
                      p \notin blind'
               PROVE  vault'[m][p].main >= vault[m][p].main
    OBVIOUS
  <2>1. vault[m][p] \in Versions /\ vault[m][p].main \in Nat
    BY VersionFields DEF IInv, Typed
  <2>2. vault' = vault => vault'[m][p].main >= vault[m][p].main
    BY <2>1
  <2>3. ASSUME NEW n \in Machines, NEW q \in Profiles, Rotate(n, q)
        PROVE  vault'[m][p].main >= vault[m][p].main
    <3>1. /\ vault' = [vault EXCEPT ![n][q] = [f \in Files |-> newest[q] + 1]]
          /\ vault[n][q].main = newest[q] /\ newest[q] \in Nat
      BY <2>3, ConstantsAssumption DEF Rotate, IInv, Typed
    <3>2. [f \in Files |-> newest[q] + 1].main = newest[q] + 1
      BY DEF Files
    <3>3. m = n /\ p = q => vault'[m][p] = [f \in Files |-> newest[q] + 1]
      BY <3>1 DEF IInv, Typed
    <3>4. ~(m = n /\ p = q) => vault'[m][p] = vault[m][p]
      BY <3>1 DEF IInv, Typed
    <3> QED
      BY <2>1, <3>1, <3>2, <3>3, <3>4
  <2>4. ASSUME NEW s \in Commands, CopyFile(s)
        PROVE  vault'[m][p].main >= vault[m][p].main
    <3> DEFINE c == cmd[s]
               to == c.ends[2]
               o == c.op[1]
    <3>1. PICK f \in c.files :
            /\ vault' = [vault EXCEPT ![to][o] = Written(c, f)]
            /\ Written(c, f).main < vault[to][o].main /\ (Copied(c, f).raced \/ o \notin Dated)
                 => o \in blind'
      BY <2>4, CopyStep
    <3>2. /\ o \in Profiles /\ to \in Machines /\ Written(c, f) \in Versions
          /\ ~Copied(c, f).raced /\ o \in Dated => Written(c, f).main >= vault[to][o].main
      BY <2>4, CopyFacts DEF CopyFile
    <3>3. Written(c, f).main \in Nat
      BY <3>2, VersionFields
    <3> HIDE DEF c, to, o
    <3>4. m = to /\ p = o => vault'[m][p] = Written(c, f)
      BY <3>1, <3>2 DEF IInv, Typed
    <3>5. ~(m = to /\ p = o) => vault'[m][p] = vault[m][p]
      BY <3>1, <3>2 DEF IInv, Typed
    <3>6. m = to /\ p = o => Written(c, f).main >= vault[m][p].main
      BY <2>1, <3>1, <3>2, <3>3
    <3> QED
      BY <2>1, <3>4, <3>5, <3>6
  <2>5. ASSUME NEW s \in Commands,
               \/ Load(s) \/ Edit(s) \/ Connect(s) \/ Ends(s) \/ Decide(s)
               \/ CopyFails(s) \/ SaveOuter(s) \/ Save(s) \/ Crash(s)
        PROVE  vault' = vault
    BY <2>5 DEF Load, Edit, Connect, Ends, Decide, CopyFails, SaveOuter, Save, Crash
  <2> QED
    BY <2>2, <2>3, <2>4, <2>5 DEF Next
<1>2. Spec => [][A]_vars
  BY <1>1, Invariance, PTL DEF Spec
<1> QED
  BY <1>2 DEF Forward
=============================================================================
