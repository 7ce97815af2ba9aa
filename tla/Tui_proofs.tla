----------------------------- MODULE Tui_proofs -----------------------------
(***************************************************************************)
(* What holds of the terminal interface for any providers, profiles, times   *)
(* of their last use, bundles and numbers of commands in flight.            *)
(***************************************************************************)
EXTENDS Tui, FiniteSetTheorems, TLAPS

-----------------------------------------------------------------------------
(* The two orders of a listing.                                            *)

\* When A[n] are the elements before n in a strict total order of a finite set, the
\* number of them tells the elements apart and is every row in turn.
LEMMA Ranks ==
  ASSUME NEW S, IsFiniteSet(S), NEW A \in [S -> SUBSET S],
         \A n \in S : n \notin A[n],
         \A m, n \in S : m \in A[n] => A[m] \subseteq A[n],
         \A m, n \in S : m # n => m \in A[n] \/ n \in A[m]
  PROVE  /\ \A n \in S : Cardinality(A[n]) \in 0 .. Cardinality(S) - 1
         /\ \A m, n \in S : Cardinality(A[m]) = Cardinality(A[n]) => m = n
         /\ \A i \in 0 .. Cardinality(S) - 1 : \E n \in S : Cardinality(A[n]) = i
<1>1. \A n \in S : IsFiniteSet(A[n]) /\ Cardinality(A[n]) \in Nat
  BY FS_Subset, FS_CardinalityType
<1>2. Cardinality(S) \in Nat
  BY FS_CardinalityType
<1>3. ASSUME NEW n \in S PROVE Cardinality(A[n]) \in 0 .. Cardinality(S) - 1
  <2>1. A[n] \in SUBSET (S \ {n})
    OBVIOUS
  <2>2. IsFiniteSet(S \ {n}) /\ Cardinality(S \ {n}) = Cardinality(S) - 1
    BY FS_RemoveElement
  <2>3. Cardinality(A[n]) <= Cardinality(S \ {n})
    BY <2>1, <2>2, FS_Subset
  <2> QED
    BY <1>1, <1>2, <2>2, <2>3
<1>4. ASSUME NEW m \in S, NEW n \in S, m \in A[n] PROVE Cardinality(A[m]) # Cardinality(A[n])
  <2>1. A[m] \in SUBSET A[n] /\ A[m] # A[n]
    BY <1>4
  <2> QED
    BY <1>1, <2>1, FS_Subset
<1>5. \A m, n \in S : Cardinality(A[m]) = Cardinality(A[n]) => m = n
  BY <1>4
<1>6. \A i \in 0 .. Cardinality(S) - 1 : \E n \in S : Cardinality(A[n]) = i
  <2> DEFINE T == 0 .. Cardinality(S) - 1
             f == [n \in S |-> Cardinality(A[n])]
  <2>1. f \in [S -> T] /\ \A m, n \in S : f[m] = f[n] => m = n
    BY <1>3, <1>5
  <2>2. f \in Injection(S, T)
    BY <2>1 DEF Injection, IsInjective
  <2>3. IsFiniteSet(T) /\ Cardinality(T) = Cardinality(S)
    BY <1>2, FS_Interval
  <2>4. f \in Surjection(S, T)
    <3> HIDE DEF f, T
    <3> QED BY <2>2, <2>3, FS_Injection
  <2>5. \A i \in T : \E n \in S : f[n] = i
    BY <2>4 DEF Surjection
  <2> QED
    BY <2>5
<1> QED
  BY <1>3, <1>5, <1>6

LEMMA NamesFacts ==
  /\ Names \subseteq Nat \ {0} /\ None \notin Names
  /\ \A S \in SUBSET Names : IsFiniteSet(S) /\ Cardinality(S) \in Nat
  /\ \A S \in SUBSET Names : S # {} => Cardinality(S) > 0
<1>1. IsFiniteSet(Names) /\ Names \subseteq Nat \ {0}
  BY ConstantsAssumption
<1>2. ASSUME NEW S \in SUBSET Names PROVE IsFiniteSet(S) /\ Cardinality(S) \in Nat
  BY <1>1, FS_Subset, FS_CardinalityType
<1>3. ASSUME NEW S \in SUBSET Names, S # {} PROVE Cardinality(S) > 0
  BY <1>2, <1>3, FS_EmptySet
<1> QED
  BY <1>1, <1>2, <1>3 DEF None

\* A row of the panel and the profile it shows.
LEMMA RowsByUse ==
  ASSUME NEW S \in SUBSET Names
  PROVE  /\ \A n \in S : /\ ByUse(S, n) \in 0 .. Cardinality(S) - 1
                         /\ NthByUse(S, ByUse(S, n)) = n
         /\ \A i \in 0 .. Cardinality(S) - 1 : NthByUse(S, i) \in S
<1> DEFINE A == [n \in S |-> {o \in S : LastUsed[o] > LastUsed[n]
                                           \/ (LastUsed[o] = LastUsed[n] /\ o < n)}]
<1>1. \A n \in S : n \in Nat /\ LastUsed[n] \in Nat
  BY ConstantsAssumption
<1>2. IsFiniteSet(S) /\ A \in [S -> SUBSET S]
  BY NamesFacts
<1>3. \A n \in S : n \notin A[n]
  BY <1>1
<1>4. ASSUME NEW m \in S, NEW n \in S, m \in A[n] PROVE A[m] \subseteq A[n]
  BY <1>1, <1>4
<1>5. \A m, n \in S : m # n => m \in A[n] \/ n \in A[m]
  BY <1>1
<1>6. \A n \in S : ByUse(S, n) = Cardinality(A[n])
  BY DEF ByUse
<1> HIDE DEF A
<1>7. /\ \A n \in S : ByUse(S, n) \in 0 .. Cardinality(S) - 1
      /\ \A m, n \in S : ByUse(S, m) = ByUse(S, n) => m = n
      /\ \A i \in 0 .. Cardinality(S) - 1 : \E n \in S : ByUse(S, n) = i
  BY <1>2, <1>3, <1>4, <1>5, <1>6, Ranks
<1>8. ASSUME NEW i \in 0 .. Cardinality(S) - 1
      PROVE  NthByUse(S, i) \in S /\ ByUse(S, NthByUse(S, i)) = i
  BY <1>7 DEF NthByUse
<1> QED
  BY <1>7, <1>8

\* The same of m.profiles.
LEMMA RowsByName ==
  ASSUME NEW S \in SUBSET Names
  PROVE  /\ \A n \in S : ByName(S, n) \in 0 .. Cardinality(S) - 1
         /\ \A i \in 0 .. Cardinality(S) - 1 : NthByName(S, i) \in S
<1> DEFINE A == [n \in S |-> {o \in S : o < n}]
<1>1. \A n \in S : n \in Nat
  BY ConstantsAssumption
<1>2. IsFiniteSet(S) /\ A \in [S -> SUBSET S]
  BY NamesFacts
<1>3. \A n \in S : n \notin A[n]
  BY <1>1
<1>4. ASSUME NEW m \in S, NEW n \in S, m \in A[n] PROVE A[m] \subseteq A[n]
  BY <1>1, <1>4
<1>5. \A m, n \in S : m # n => m \in A[n] \/ n \in A[m]
  BY <1>1
<1>6. \A n \in S : ByName(S, n) = Cardinality(A[n])
  BY DEF ByName
<1> HIDE DEF A
<1>7. /\ \A n \in S : ByName(S, n) \in 0 .. Cardinality(S) - 1
      /\ \A i \in 0 .. Cardinality(S) - 1 : \E n \in S : ByName(S, n) = i
  BY <1>2, <1>3, <1>4, <1>5, <1>6, Ranks
<1> QED
  BY <1>7 DEF NthByName

-----------------------------------------------------------------------------
(* The selection.                                                          *)

Listings == [Providers -> SUBSET Names]
Selections == [prov : Providers, panel : SUBSET Names, index : Nat, name : Names \cup {None}]
CmdStates ==
  [kind : Kinds \cup {"none"}, ran : BOOLEAN, read : Listings, version : 0 .. MaxChanges,
   deleted : Names \cup {None}, selected : Names \cup {None}, pending : Pending]
Screens == [state : States, profile : Pending]

\* SelectionAgrees of any selection.
Agrees(s) ==
  IF s.panel = {} THEN s.name = None
  ELSE s.index \in 0 .. Cardinality(s.panel) - 1 /\ s.name = NthByUse(s.panel, s.index)

LEMMA SelectionsAgree ==
  /\ SelectionAgrees <=> Agrees(sel)
  /\ SelectionAgrees' <=> Agrees(sel')
BY DEF SelectionAgrees, Agrees

\* A panel that shows S with a row of it selected agrees with the selected name.
LEMMA ShowingAgrees ==
  ASSUME NEW s \in Selections, NEW S \in SUBSET Names, NEW i \in Nat,
         S # {} => i < Cardinality(S)
  PROVE  LET r == Showing(s, S, i)
         IN /\ r \in Selections /\ Agrees(r)
            /\ r.prov = s.prov /\ r.panel = S /\ r.index = i
<1> DEFINE r == Showing(s, S, i)
           n == IF S = {} THEN None ELSE NthByUse(S, i)
<1>1. r = [prov |-> s.prov, panel |-> S, index |-> i, name |-> n]
  <2>1. r = [s EXCEPT !.panel = S, !.index = i, !.name = n]
    BY DEF Showing
  <2> HIDE DEF n, r
  <2> QED BY <2>1 DEF Selections
<1>2. S # {} => i \in 0 .. Cardinality(S) - 1
  BY NamesFacts
<1>3. S # {} => NthByUse(S, i) \in S
  BY <1>2, RowsByUse
<1> QED
  BY <1>1, <1>2, <1>3 DEF Selections, Agrees

\* syncProfilesPanel selects a row the panel has, that of the selected name when
\* it is listed.
LEMMA RowInRange ==
  ASSUME NEW s \in Selections, NEW S \in SUBSET Names, S # {}
  PROVE  /\ Row(s, S) \in 0 .. Cardinality(S) - 1
         /\ s.name \in S => Row(s, S) = ByUse(S, s.name)
<1>1. Cardinality(S) \in Nat /\ Cardinality(S) > 0 /\ None \notin S
  BY NamesFacts
<1>2. CASE s.name \in S
  BY <1>1, <1>2, RowsByUse DEF Row
<1>3. CASE s.name \notin S
  BY <1>1, <1>3 DEF Row, Selections
<1> QED
  BY <1>2, <1>3

LEMMA SyncPanelAgrees ==
  ASSUME NEW s \in Selections, NEW l \in Listings
  PROVE  LET r == SyncPanel(s, l)
         IN /\ r \in Selections /\ Agrees(r)
            /\ r.prov = s.prov /\ r.panel = l[s.prov]
            /\ s.name \in l[s.prov] => r.name = s.name
<1> DEFINE S == l[s.prov]
           i == IF S = {} THEN 0 ELSE Row(s, S)
<1>1. s.prov \in Providers /\ S \in SUBSET Names
  BY DEF Listings, Selections
<1>2. i \in Nat /\ (S # {} => i < Cardinality(S))
  BY <1>1, RowInRange, NamesFacts
<1>3. SyncPanel(s, l) = Showing(s, S, i)
  BY DEF SyncPanel
<1>4. LET r == Showing(s, S, i)
      IN /\ r \in Selections /\ Agrees(r)
         /\ r.prov = s.prov /\ r.panel = S /\ r.index = i
  <2> HIDE DEF i, S
  <2> QED BY <1>1, <1>2, ShowingAgrees
<1>5. ASSUME s.name \in S PROVE Showing(s, S, i).name = s.name
  <2>1. i = ByUse(S, s.name)
    BY <1>1, <1>5, RowInRange
  <2>2. NthByUse(S, i) = s.name
    BY <1>1, <1>5, <2>1, RowsByUse
  <2> QED
    BY <1>4, <1>5, <2>2 DEF Agrees
<1> QED
  BY <1>3, <1>4, <1>5

\* Whatever a refresh was for, it restores a name and a row.
LEMMA RestoreSelectionType ==
  ASSUME NEW s \in Selections, NEW l \in Listings, NEW c \in CmdStates
  PROVE  /\ RestoreSelection(s, l, c) \in Selections
         /\ RestoreSelection(s, l, c).prov = s.prov
<1> DEFINE S == l[s.prov]
           later == {n \in S : n > c.deleted}
           next == Cardinality(S \ later)
           beside == IF next = 0 THEN 0 ELSE next - 1
<1>1. S \in SUBSET Names /\ S \ later \in SUBSET Names
  BY DEF Listings, Selections
<1>2. ASSUME NEW n \in Names \cup {None}, NEW i \in Nat
      PROVE  /\ [s EXCEPT !.name = n, !.index = i] \in Selections
             /\ [s EXCEPT !.name = n, !.index = i].prov = s.prov
  BY DEF Selections
<1>3. CASE S = {}
  BY <1>2, <1>3 DEF RestoreSelection
<1>4. CASE S # {} /\ c.deleted # None
  <2>1. next \in Nat /\ Cardinality(S) \in Nat /\ next <= Cardinality(S) /\ Cardinality(S) > 0
    BY <1>1, <1>4, NamesFacts, FS_Subset
  <2>2. beside \in Nat /\ beside \in 0 .. Cardinality(S) - 1
    BY <2>1
  <2>3. NthByName(S, beside) \in Names
    <3> HIDE DEF beside, S
    <3> QED BY <1>1, <2>2, RowsByName
  <2>4. RestoreSelection(s, l, c) = [s EXCEPT !.name = NthByName(S, beside), !.index = beside]
    BY <1>4 DEF RestoreSelection
  <2> DEFINE kept == NthByName(S, beside)
  <2>5. kept \in Names \cup {None}
    BY <2>3
  <2>6. RestoreSelection(s, l, c) = [s EXCEPT !.name = kept, !.index = beside]
    BY <2>4
  <2>7. beside \in Nat
    BY <2>2
  <2> HIDE DEF kept, beside, next, later, S
  <2>8. /\ [s EXCEPT !.name = kept, !.index = beside] \in Selections
        /\ [s EXCEPT !.name = kept, !.index = beside].prov = s.prov
    BY <1>2, <2>5, <2>7
  <2> QED
    BY <2>6, <2>8
<1>5. CASE S # {} /\ c.deleted = None
  <2> DEFINE i == IF c.selected \in S THEN ByName(S, c.selected) ELSE 0
  <2>1. i \in Nat
    <3>1. CASE c.selected \in S
      <4>1. ByName(S, c.selected) \in 0 .. Cardinality(S) - 1
        BY <1>1, <3>1, RowsByName
      <4> QED
        BY <1>1, <3>1, <4>1, NamesFacts
    <3>2. CASE c.selected \notin S
      BY <3>2
    <3> QED
      BY <3>1, <3>2
  <2>2. RestoreSelection(s, l, c) = [s EXCEPT !.name = c.selected, !.index = i]
    BY <1>5 DEF RestoreSelection
  <2>3. c.selected \in Names \cup {None}
    BY DEF CmdStates
  <2> HIDE DEF i
  <2> QED
    BY <1>2, <2>1, <2>2, <2>3
<1> QED
  BY <1>3, <1>4, <1>5

\* The profile the actions act on, when the panel is empty the one of the row in
\* m.profiles.
LEMMA SelectedType ==
  ASSUME NEW s \in Selections, NEW l \in Listings, Agrees(s)
  PROVE  /\ Selected(s, l) \in Names \cup {None}
         /\ s.name # None => Selected(s, l) = s.name
<1>1. l[s.prov] \in SUBSET Names /\ s.panel \in SUBSET Names /\ s.index \in Nat
  BY DEF Listings, Selections
<1>2. CASE s.panel # {}
  BY <1>1, <1>2, RowsByUse DEF Selected, Agrees
<1>3. CASE s.panel = {} /\ s.index < Cardinality(l[s.prov])
  <2>1. s.index \in 0 .. Cardinality(l[s.prov]) - 1
    BY <1>1, <1>3, NamesFacts
  <2> QED
    BY <1>1, <1>3, <2>1, RowsByName DEF Selected, Agrees
<1>4. CASE s.panel = {} /\ ~(s.index < Cardinality(l[s.prov]))
  BY <1>4 DEF Selected, Agrees
<1> QED
  BY <1>2, <1>3, <1>4

-----------------------------------------------------------------------------
(* The type invariant, and the selection after every step.                 *)

DiskOK == vault \in Listings /\ version \in 0 .. MaxChanges /\ changed \in BOOLEAN
ListOK == list \in Listings /\ shown \in 0 .. MaxChanges
UiOK == ui \in Screens /\ (ui.state = "overwrite?" => ui.profile.of = "name")
CmdsOK == cmds \in [Ids -> CmdStates]
FlagsOK ==
  /\ watching \in BOOLEAN /\ missed \in BOOLEAN
  /\ asked \in [name : Names \cup {None}, sure : BOOLEAN]
Typed == DiskOK /\ ListOK /\ sel \in Selections /\ UiOK /\ CmdsOK /\ FlagsOK

\* The panel shows profiles of the listing, and its row is the selected name.
InPanel == Agrees(sel) /\ sel.panel \subseteq list[sel.prov]

LEMMA TypedIsTypeOK == Typed => TypeOK
BY DEF Typed, DiskOK, ListOK, UiOK, CmdsOK, FlagsOK, TypeOK, Listings, Selections, CmdStates, Screens

LEMMA CmdTypes ==
  /\ NoCmd \in CmdStates /\ \A k \in Kinds : Cmd(k) \in CmdStates
  /\ \A d, s \in Names \cup {None} : Refresh(d, s) \in CmdStates
<1>1. 0 \in 0 .. MaxChanges /\ NoListing \in Listings /\ NothingPending \in Pending
  BY ConstantsAssumption DEF NoListing, Listings, Pending
<1>2. ASSUME NEW k \in Kinds \cup {"none"} PROVE Cmd(k) \in CmdStates
  BY <1>1 DEF Cmd, CmdStates
<1>3. ASSUME NEW d \in Names \cup {None}, NEW s \in Names \cup {None}
      PROVE  Refresh(d, s) \in CmdStates
  <2>1. Cmd("refresh") \in CmdStates
    BY <1>2 DEF Kinds
  <2> PICK c \in CmdStates : c = Cmd("refresh")
    BY <2>1
  <2> QED
    BY DEF Refresh, CmdStates
<1> QED
  BY <1>2, <1>3 DEF NoCmd

LEMMA CmdsType ==
  ASSUME CmdsOK, NEW c \in CmdStates, Start(c) \/ \E i \in Ids : Becomes(i, c)
  PROVE  CmdsOK'
BY DEF CmdsOK, Start, Becomes

LEMMA DiskType ==
  ASSUME DiskOK, FlagsOK, NEW v \in Listings, Write(v)
  PROVE  DiskOK'
BY ConstantsAssumption DEF DiskOK, FlagsOK, Write

LEMMA ScreenTypes ==
  ASSUME UiOK, NEW s \in States
  PROVE  /\ To(s) \in Screens /\ To(s).state = s /\ To(s).profile = ui.profile
         /\ NoQuestion \in [name : Names \cup {None}, sure : BOOLEAN]
         /\ Settled \in Screens /\ Settled.state = "list"
<1>1. To(s) \in Screens /\ To(s).state = s /\ To(s).profile = ui.profile
  BY DEF UiOK, To, Screens
<1>2. Settled \in Screens /\ Settled.state = "list"
  BY DEF UiOK, To, Screens, Settled, States, Pending
<1> QED
  BY <1>1, <1>2 DEF NoQuestion

LEMMA StateNames ==
  \A s \in {"list", "activate?", "delete?", "backup", "overwrite?", "importPath", "previewing",
            "import?"} : s \in States
BY DEF States

LEMMA KindNames ==
  \A k \in {"load", "refresh", "operation", "preview", "import"} : k \in Kinds
BY DEF Kinds

LEMMA InitTyped == Init => Typed /\ InPanel
<1> SUFFICES ASSUME Init PROVE Typed /\ InPanel
  OBVIOUS
<1> USE DEF Init
<1>1. 1 \in Providers /\ 0 \in 0 .. MaxChanges /\ NoListing \in Listings /\ NothingPending \in Pending
  BY ConstantsAssumption DEF Providers, NoListing, Listings, Pending
<1>2. DiskOK /\ ListOK
  BY <1>1, ConstantsAssumption DEF DiskOK, ListOK, Listings
<1>3. sel \in Selections /\ Agrees(sel) /\ sel.panel = {}
  BY <1>1 DEF Selections, Agrees
<1>4. UiOK
  BY <1>1 DEF UiOK, Screens, States
<1>5. CmdsOK
  BY CmdTypes, KindNames DEF CmdsOK
<1>6. FlagsOK
  BY DEF FlagsOK, NoQuestion
<1> QED
  BY <1>2, <1>3, <1>4, <1>5, <1>6 DEF Typed, InPanel

\* A step that leaves the listing alone, or replaces it together with the panel.
LEMMA SelUntouched ==
  ASSUME InPanel, UNCHANGED <<list, sel>>
  PROVE  InPanel'
BY DEF InPanel, Agrees

LEMMA SelSynced ==
  ASSUME NEW s \in Selections, list' \in Listings, sel' = SyncPanel(s, list')
  PROVE  sel' \in Selections /\ InPanel'
<1> PICK l \in Listings : l = list'
  OBVIOUS
<1>1. LET r == SyncPanel(s, l)
      IN r \in Selections /\ Agrees(r) /\ r.prov = s.prov /\ r.panel = l[s.prov]
  BY SyncPanelAgrees
<1>2. sel' \in Selections /\ Agrees(sel') /\ sel'.panel = list'[sel'.prov]
  BY <1>1
<1> QED
  BY <1>2 DEF InPanel, Agrees

LEMMA RunTyped ==
  ASSUME Typed, InPanel, NEW i \in Ids, Run(i)
  PROVE  Typed' /\ InPanel'
<1> USE DEF Typed
<1>1. UNCHANGED <<listing, sel, ui, watching, missed, asked>> /\ (RunListing(i) \/ RunImport(i))
  BY DEF Run
<1>2. ListOK' /\ (sel \in Selections)' /\ UiOK' /\ InPanel'
  BY <1>1, SelUntouched DEF listing, ListOK, UiOK
<1>3. FlagsOK'
  BY <1>1 DEF FlagsOK
<1>4. CASE RunListing(i)
  <2> DEFINE c == [cmds[i] EXCEPT !.ran = TRUE, !.read = vault, !.version = version]
  <2>1. c \in CmdStates
    BY DEF CmdsOK, DiskOK, CmdStates
  <2>2. Becomes(i, c) /\ UNCHANGED disk
    BY <1>4 DEF RunListing
  <2>3. CmdsOK'
    <3> HIDE DEF c
    <3> QED BY <2>1, <2>2, CmdsType
  <2>4. DiskOK'
    BY <2>2 DEF disk, DiskOK
  <2> QED
    BY <1>2, <1>3, <2>3, <2>4
<1>5. CASE RunImport(i)
  <2> DEFINE c == [cmds[i] EXCEPT !.ran = TRUE]
             v == Adding(cmds[i].pending.bundle)
  <2>1. c \in CmdStates
    BY DEF CmdsOK, CmdStates
  <2>2. cmds[i].pending.bundle \in Bundles
    <3>1. cmds[i].pending \in Pending /\ cmds[i].pending.of = "bundle"
      BY <1>5 DEF RunImport, CmdsOK, CmdStates
    <3> QED
      BY <3>1 DEF Pending, NothingPending
  <2>3. v \in Listings
    BY <2>2, ConstantsAssumption DEF Adding, DiskOK, Listings
  <2>4. Becomes(i, c) /\ Write(v)
    BY <1>5 DEF RunImport
  <2> HIDE DEF c, v
  <2>5. CmdsOK' /\ DiskOK'
    BY <2>1, <2>3, <2>4, CmdsType, DiskType
  <2> QED
    BY <1>2, <1>3, <2>5
<1> QED
  BY <1>1, <1>4, <1>5

LEMMA MessageTyped ==
  ASSUME Typed, InPanel, NEW i \in Ids, Message(i)
  PROVE  Typed' /\ InPanel'
<1> USE DEF Typed
<1>1. UNCHANGED <<disk, watching>>
  BY DEF Message
<1>2. DiskOK'
  BY <1>1 DEF disk, DiskOK
<1>3. cmds[i] \in CmdStates
  BY DEF CmdsOK
<1>4. ASSUME NEW moves \in BOOLEAN, Replace(cmds[i], moves) PROVE ListOK' /\ FlagsOK'
  BY <1>1, <1>3, <1>4 DEF Replace, CmdStates, ListOK, FlagsOK
<1>5. ASSUME NEW s \in Selections, list' \in Listings, sel' = SyncPanel(s, list')
      PROVE  sel' \in Selections /\ InPanel'
  BY <1>5, SelSynced
<1>6. CASE ProfilesLoaded(i)
  <2>1. ListOK' /\ FlagsOK'
    BY <1>4, <1>6 DEF ProfilesLoaded
  <2>2. sel' \in Selections /\ InPanel'
    BY <1>5, <1>6, <2>1 DEF ProfilesLoaded, Replace, ListOK
  <2>3. CmdsOK' /\ UiOK'
    BY <1>6, CmdTypes, CmdsType DEF ProfilesLoaded, Ends, UiOK
  <2> QED
    BY <1>2, <2>1, <2>2, <2>3
<1>7. CASE ProfilesRefreshed(i)
  <2>1. ListOK' /\ FlagsOK'
    BY <1>4, <1>7 DEF ProfilesRefreshed
  <2>2. cmds[i].read \in Listings
    BY <1>3 DEF CmdStates
  <2>3. RestoreSelection(sel, cmds[i].read, cmds[i]) \in Selections
    BY <1>3, <2>2, RestoreSelectionType
  <2>4. sel' \in Selections /\ InPanel'
    BY <1>5, <1>7, <2>1, <2>3 DEF ProfilesRefreshed, Replace, ListOK
  <2>5. CmdsOK' /\ UiOK'
    BY <1>7, CmdTypes, CmdsType DEF ProfilesRefreshed, Ends, UiOK
  <2> QED
    BY <1>2, <2>1, <2>4, <2>5
<1>8. CASE Failed(i)
  <2>1. CmdsOK' /\ UiOK'
    BY <1>8, CmdTypes, CmdsType DEF Failed, Ends, UiOK
  <2>2. FlagsOK'
    BY <1>1, <1>8 DEF Failed, FlagsOK
  <2>3. ListOK' /\ (sel \in Selections)' /\ InPanel'
    BY <1>8, SelUntouched DEF Failed, listing, ListOK
  <2> QED
    BY <1>2, <2>1, <2>2, <2>3
<1>9. CASE ResultOf(i)
  <2>1. cmds[i].selected \in Names \cup {None} /\ None \in Names \cup {None}
    BY <1>3 DEF CmdStates
  <2>2. Refresh(None, cmds[i].selected) \in CmdStates
    BY <2>1, CmdTypes
  <2>3. CmdsOK'
    BY <1>9, <2>2, CmdsType DEF ResultOf
  <2>4. UiOK' /\ FlagsOK' /\ ListOK' /\ (sel \in Selections)' /\ InPanel'
    BY <1>1, <1>9, SelUntouched DEF ResultOf, listing, UiOK, FlagsOK, ListOK
  <2> QED
    BY <1>2, <2>3, <2>4
<1>10. CASE ImportPreview(i)
  <2>1. CmdsOK'
    BY <1>10, CmdTypes, CmdsType DEF ImportPreview, Ends
  <2>2. UiOK' /\ FlagsOK'
    BY <1>1, <1>10, ScreenTypes, StateNames DEF ImportPreview, UiOK, FlagsOK, To
  <2>3. ListOK' /\ (sel \in Selections)' /\ InPanel'
    BY <1>10, SelUntouched DEF ImportPreview, listing, ListOK
  <2> QED
    BY <1>2, <2>1, <2>2, <2>3
<1>11. CASE ImportComplete(i)
  <2>1. CmdsOK'
    BY <1>11, CmdTypes, KindNames, CmdsType DEF ImportComplete
  <2>2. UiOK' /\ FlagsOK' /\ ListOK' /\ (sel \in Selections)' /\ InPanel'
    BY <1>1, <1>11, SelUntouched DEF ImportComplete, listing, UiOK, FlagsOK, ListOK
  <2> QED
    BY <1>2, <2>1, <2>2
<1> QED
  BY <1>6, <1>7, <1>8, <1>9, <1>10, <1>11 DEF Message

\* The watcher, the reload and what the timers of the screen do.
LEMMA EventTyped ==
  ASSUME Typed, InPanel, WatcherReady \/ ProfilesChanged \/ ReloadRequested \/ Resync
  PROVE  Typed' /\ InPanel'
<1> USE DEF Typed
<1>1. Cmd("load") \in CmdStates
  BY CmdTypes, KindNames
<1>2. CASE WatcherReady
  BY <1>2, SelUntouched
  DEF WatcherReady, disk, listing, DiskOK, ListOK, UiOK, CmdsOK, FlagsOK
<1>3. CASE ProfilesChanged
  <2>1. CmdsOK'
    BY <1>1, <1>3, CmdsType DEF ProfilesChanged
  <2> QED
    BY <1>3, <2>1, SelUntouched DEF ProfilesChanged, listing, DiskOK, ListOK, UiOK, FlagsOK
<1>4. CASE ReloadRequested
  <2>1. CmdsOK'
    BY <1>1, <1>4, CmdsType DEF ReloadRequested
  <2> QED
    BY <1>4, <2>1, SelUntouched DEF ReloadRequested, disk, listing, DiskOK, ListOK, UiOK, FlagsOK
<1>5. CASE Resync
  <2>1. DiskOK' /\ ListOK' /\ UiOK' /\ CmdsOK' /\ FlagsOK'
    BY <1>5 DEF Resync, disk, listing, DiskOK, ListOK, UiOK, CmdsOK, FlagsOK
  <2>2. sel' = SyncPanel(sel, list') /\ list' \in Listings
    BY <1>5 DEF Resync, listing, ListOK
  <2> QED
    BY <2>1, <2>2, SelSynced
<1> QED
  BY <1>2, <1>3, <1>4, <1>5

LEMMA ScreenTyped ==
  ASSUME Typed, InPanel, NEW u \in Screens, u.state = "overwrite?" => u.profile.of = "name",
         Screen(u)
  PROVE  Typed' /\ InPanel'
<1>1. UiOK'
  BY DEF Screen, UiOK
<1> QED
  BY <1>1, SelUntouched DEF Screen, Typed, disk, listing, DiskOK, ListOK, CmdsOK, FlagsOK

LEMMA ReturningTyped ==
  ASSUME Typed, InPanel, NEW u \in Screens, u.state # "overwrite?", NEW c \in CmdStates,
         Returning(u, c)
  PROVE  Typed' /\ InPanel'
<1>1. UiOK' /\ CmdsOK'
  BY CmdsType DEF Returning, UiOK, Typed
<1> QED
  BY <1>1, SelUntouched DEF Returning, Typed, disk, listing, DiskOK, ListOK, FlagsOK

LEMMA ExecuteBackupTyped ==
  ASSUME Typed, InPanel, NEW n \in Names, NEW u \in Screens, u.state = "list",
         ExecuteBackup(n, u)
  PROVE  Typed' /\ InPanel'
<1> USE DEF Typed
<1>1. Saving(n) \in Listings
  BY DEF Saving, DiskOK, Listings
<1>2. Cmd("load") \in CmdStates
  BY CmdTypes, KindNames
<1>3. CASE Screen(u)
  BY <1>3, ScreenTyped
<1>4. CASE /\ Write(Saving(n)) /\ ui' = u /\ Start(Cmd("load"))
           /\ UNCHANGED <<listing, sel, watching, missed, asked>>
  <2>1. DiskOK' /\ CmdsOK'
    BY <1>1, <1>2, <1>4, DiskType, CmdsType
  <2> QED
    BY <1>4, <2>1, SelUntouched DEF listing, ListOK, UiOK, FlagsOK
<1>5. CASE /\ Write(Saving(n)) /\ ui' = u /\ missed' = (missed \/ vault' # vault)
           /\ UNCHANGED <<listing, sel, cmds, watching, asked>>
  <2>1. DiskOK'
    BY <1>1, <1>5, DiskType
  <2> QED
    BY <1>5, <2>1, SelUntouched DEF listing, ListOK, UiOK, CmdsOK, FlagsOK
<1> QED
  BY <1>3, <1>4, <1>5 DEF ExecuteBackup

LEMMA MovingTyped ==
  ASSUME Typed, InPanel, Move \/ SelectProvider \/ ApplySearchFilter \/ SetProjectAssociation
  PROVE  Typed' /\ InPanel'
<1> USE DEF Typed
<1>1. sel.prov \in Providers /\ sel.panel \in SUBSET Names /\ list[sel.prov] \in SUBSET Names
  BY DEF Selections, ListOK, Listings
<1>2. DiskOK' /\ ListOK' /\ UiOK' /\ CmdsOK' /\ FlagsOK' /\ list' = list
  BY ScreenTypes, StateNames
  DEF Move, SelectProvider, ApplySearchFilter, SetProjectAssociation, disk, listing, DiskOK,
      ListOK, UiOK, CmdsOK, FlagsOK
<1>3. ASSUME NEW S \in SUBSET list[sel.prov], NEW i \in Nat, S # {} => i < Cardinality(S),
             sel' = Showing(sel, S, i)
      PROVE  sel' \in Selections /\ InPanel'
  <2>1. S \in SUBSET Names
    BY <1>1
  <2>2. sel' \in Selections /\ Agrees(sel') /\ sel'.prov = sel.prov /\ sel'.panel = S
    BY <1>3, <2>1, ShowingAgrees
  <2> QED
    BY <1>2, <2>2 DEF InPanel, Agrees
<1>4. CASE Move
  <2>1. PICK i \in {sel.index - 1, sel.index + 1} \cap (0 .. Cardinality(sel.panel) - 1) :
          sel' = Showing(sel, sel.panel, i)
    BY <1>4 DEF Move
  <2>2. i \in Nat /\ i < Cardinality(sel.panel)
    BY <1>1, NamesFacts
  <2>3. sel' \in Selections /\ InPanel'
    BY <1>3, <2>1, <2>2 DEF InPanel
  <2> QED
    BY <1>2, <2>3
<1>5. CASE ApplySearchFilter
  <2>1. PICK S \in SUBSET list[sel.prov] : sel' = Showing(sel, S, 0)
    BY <1>5 DEF ApplySearchFilter
  <2>2. S # {} => 0 < Cardinality(S)
    BY <1>1, NamesFacts
  <2> QED
    BY <1>2, <1>3, <2>1, <2>2
<1>6. CASE SelectProvider
  <2>1. PICK p \in Providers :
          sel' = SyncPanel([sel EXCEPT !.prov = p, !.index = 0, !.name = None], list)
    BY <1>6 DEF SelectProvider
  <2> DEFINE s == [sel EXCEPT !.prov = p, !.index = 0, !.name = None]
  <2>2. s \in Selections
    BY DEF Selections
  <2> HIDE DEF s
  <2>3. sel' \in Selections /\ InPanel'
    BY <1>2, <2>1, <2>2, SelSynced DEF ListOK, s
  <2> QED
    BY <1>2, <2>3
<1>7. CASE SetProjectAssociation
  <2>1. sel' \in Selections /\ InPanel'
    BY <1>2, <1>7, SelSynced DEF SetProjectAssociation, ListOK
  <2> QED
    BY <1>2, <2>1
<1> QED
  BY <1>4, <1>5, <1>6, <1>7

\* The questions about the selected profile, and their answers.
LEMMA QuestionTyped ==
  ASSUME Typed, InPanel,
         Ask("activate?") \/ Ask("delete?") \/ ConfirmActivate \/ ConfirmDelete \/ Cancel \/ Login
  PROVE  Typed' /\ InPanel'
<1> USE DEF Typed
<1> DEFINE n == Selected(sel, list)
<1>1. n \in Names \cup {None} /\ None \in Names \cup {None}
  BY SelectedType DEF InPanel, ListOK
<1>2. /\ To("list") \in Screens /\ To("list").state = "list"
      /\ NoQuestion \in [name : Names \cup {None}, sure : BOOLEAN]
  BY ScreenTypes, StateNames
<1>3. [Cmd("operation") EXCEPT !.selected = n] \in CmdStates
  <2>1. PICK c \in CmdStates : c = Cmd("operation")
    BY CmdTypes, KindNames
  <2> HIDE DEF n
  <2> QED
    BY <1>1, <2>1 DEF CmdStates
<1>4. ASSUME NEW q \in {"activate?", "delete?"}, Ask(q) PROVE Typed' /\ InPanel'
  <2>1. To(q) \in Screens /\ To(q).state = q
    BY ScreenTypes, StateNames
  <2>2. [name |-> sel.name, sure |-> sel.name # None] \in [name : Names \cup {None}, sure : BOOLEAN]
    BY DEF Selections
  <2> QED
    BY <1>4, <2>1, <2>2, SelUntouched
    DEF Ask, disk, listing, DiskOK, ListOK, UiOK, CmdsOK, FlagsOK
<1>5. CASE ConfirmActivate
  <2>1. CmdsOK'
    <3> HIDE DEF n
    <3> QED BY <1>3, <1>5, CmdsType DEF ConfirmActivate, n
  <2> QED
    BY <1>2, <1>5, <2>1, SelUntouched
    DEF ConfirmActivate, disk, listing, DiskOK, ListOK, UiOK, FlagsOK
<1>6. CASE ConfirmDelete
  <2>1. Refresh(n, None) \in CmdStates
    <3> HIDE DEF n
    <3> QED BY <1>1, CmdTypes
  <2>2. [vault EXCEPT ![sel.prov] = @ \ {n}] \in Listings
    <3> HIDE DEF n
    <3> QED BY DEF DiskOK, Listings
  <2>3. CmdsOK' /\ DiskOK'
    BY <1>6, <2>1, <2>2, CmdsType, DiskType DEF ConfirmDelete
  <2> QED
    BY <1>2, <1>6, <2>3, SelUntouched DEF ConfirmDelete, listing, ListOK, UiOK, FlagsOK
<1>7. CASE Cancel
  BY <1>2, <1>7, SelUntouched DEF Cancel, disk, listing, DiskOK, ListOK, UiOK, CmdsOK, FlagsOK
<1>8. CASE Login
  BY <1>2, <1>3, <1>8, ReturningTyped DEF Login
<1> QED
  BY <1>4, <1>5, <1>6, <1>7, <1>8

\* The backup, the export and the import.
LEMMA DialogTyped ==
  ASSUME Typed, InPanel,
         \/ BackupProfile \/ BackupSubmit \/ BackupCancel \/ OverwriteYes \/ OverwriteNo
         \/ ImportBundle \/ ImportPathSubmit \/ ImportYes \/ ImportNo \/ LeavePreview
  PROVE  Typed' /\ InPanel'
<1>1. UiOK
  BY DEF Typed
<1>2. \A s \in States : To(s) \in Screens /\ To(s).state = s
  BY <1>1, ScreenTypes
<1>3. Settled \in Screens /\ Settled.state = "list" /\ To("list") \in Screens /\ To("list").state = "list"
  BY <1>1, ScreenTypes, StateNames
<1>4. CASE BackupProfile \/ BackupCancel \/ ImportBundle \/ LeavePreview
  BY <1>2, <1>4, StateNames, ScreenTyped DEF BackupProfile, BackupCancel, ImportBundle, LeavePreview
<1>5. CASE OverwriteNo \/ ImportNo
  BY <1>3, <1>5, ScreenTyped DEF OverwriteNo, ImportNo
<1>6. CASE OverwriteYes
  <2>1. ui.profile.name \in Names
    <3>1. ui.profile \in Pending /\ ui.profile.of = "name"
      BY <1>1, <1>6 DEF OverwriteYes, Key, UiOK, Screens
    <3> QED
      BY <3>1 DEF Pending, NothingPending
  <2> QED
    BY <1>3, <1>6, <2>1, ExecuteBackupTyped DEF OverwriteYes
<1>7. CASE BackupSubmit
  <2>1. PICK n \in Names :
          \/ ExecuteBackup(n, To("list"))
          \/ Screen([To("overwrite?") EXCEPT !.profile = [of |-> "name", name |-> n]])
    BY <1>7 DEF BackupSubmit
  <2>2. CASE ExecuteBackup(n, To("list"))
    BY <1>3, <2>2, ExecuteBackupTyped
  <2>3. CASE Screen([To("overwrite?") EXCEPT !.profile = [of |-> "name", name |-> n]])
    <3> DEFINE u == [To("overwrite?") EXCEPT !.profile = [of |-> "name", name |-> n]]
    <3>1. To("overwrite?") \in Screens
      BY <1>2, StateNames
    <3>2. [of |-> "name", name |-> n] \in Pending
      BY DEF Pending
    <3>3. u \in Screens /\ u.profile.of = "name"
      BY <3>1, <3>2 DEF Screens
    <3> HIDE DEF u
    <3> QED
      BY <2>3, <3>3, ScreenTyped DEF u
  <2> QED
    BY <2>1, <2>2, <2>3
<1>8. CASE ImportPathSubmit
  <2>1. CASE Screen(To("list"))
    BY <1>3, <2>1, ScreenTyped
  <2>2. ASSUME NEW b \in Bundles,
               Returning([To("previewing") EXCEPT !.profile = [of |-> "bundle", bundle |-> b]],
                         Cmd("preview"))
        PROVE  Typed' /\ InPanel'
    <3> DEFINE u == [To("previewing") EXCEPT !.profile = [of |-> "bundle", bundle |-> b]]
    <3>1. To("previewing") \in Screens /\ To("previewing").state = "previewing"
      BY <1>2, StateNames
    <3>2. [of |-> "bundle", bundle |-> b] \in Pending
      BY DEF Pending
    <3>3. u \in Screens /\ u.state = "previewing"
      BY <3>1, <3>2 DEF Screens
    <3>4. Cmd("preview") \in CmdStates
      BY CmdTypes, KindNames
    <3> HIDE DEF u
    <3> QED
      BY <2>2, <3>3, <3>4, ReturningTyped DEF u
  <2> QED
    BY <1>8, <2>1, <2>2 DEF ImportPathSubmit
<1>9. CASE ImportYes
  <2>1. PICK c \in CmdStates : c = Cmd("import")
    BY CmdTypes, KindNames
  <2>2. [c EXCEPT !.pending = ui.profile] \in CmdStates
    BY <1>1 DEF UiOK, Screens, CmdStates
  <2> QED
    BY <1>3, <1>9, <2>1, <2>2, ReturningTyped DEF ImportYes
<1> QED
  BY <1>4, <1>5, <1>6, <1>7, <1>8, <1>9

LEMMA ElsewhereTyped ==
  ASSUME Typed, InPanel, Elsewhere
  PROVE  Typed' /\ InPanel'
<1> USE DEF Typed
<1>1. PICK p \in Providers, S \in SUBSET Names : Write([vault EXCEPT ![p] = S])
  <2>1. PICK p \in Providers, n \in Names :
          \E S \in {vault[p] \cup {n}, vault[p] \ {n}} \ {vault[p]} : Write([vault EXCEPT ![p] = S])
    BY DEF Elsewhere
  <2>2. vault[p] \in SUBSET Names
    BY DEF DiskOK, Listings
  <2> QED
    BY <2>1, <2>2
<1>2. [vault EXCEPT ![p] = S] \in Listings
  BY DEF DiskOK, Listings
<1>3. DiskOK'
  BY <1>1, <1>2, DiskType
<1> QED
  BY <1>3, SelUntouched DEF Elsewhere, listing, ListOK, UiOK, CmdsOK, FlagsOK

LEMMA NextTyped ==
  ASSUME Typed, InPanel, [Next]_vars
  PROVE  Typed' /\ InPanel'
<1>1. CASE UNCHANGED vars
  BY <1>1, SelUntouched DEF vars, Typed, DiskOK, ListOK, UiOK, CmdsOK, FlagsOK
<1>2. CASE Commands
  BY <1>2, RunTyped, MessageTyped DEF Commands
<1>3. CASE Keys
  BY <1>3, MovingTyped, QuestionTyped, DialogTyped DEF Keys
<1> QED
  BY <1>1, <1>2, <1>3, EventTyped, ElsewhereTyped DEF Next

LEMMA TypedInvariance == Spec => [](Typed /\ InPanel)
<1>1. Typed /\ InPanel /\ [Next]_vars => (Typed /\ InPanel)'
  BY NextTyped
<1> QED
  BY InitTyped, <1>1, PTL DEF Spec

\* Every key and every message leaves the screen, the selection and the commands
\* well formed (model.go, Update).
THEOREM TypeCorrect == Spec => []TypeOK
<1>1. Typed /\ InPanel => TypeOK
  BY TypedIsTypeOK
<1> QED
  BY <1>1, TypedInvariance, PTL

\* syncProfilesPanel, the search and the moves of the cursor leave the selected name
\* and the selected row of the panel in step, whatever listing they were given.
THEOREM SelectionStaysInStep == Spec => []SelectionAgrees
<1>1. Typed /\ InPanel => SelectionAgrees
  BY SelectionsAgree DEF InPanel
<1> QED
  BY <1>1, TypedInvariance, PTL

-----------------------------------------------------------------------------
(* The question on screen.                                                 *)

Questions == {"activate?", "delete?"}
Sure == ui.state \in Questions /\ asked.sure

\* A question that is sure is about the selected name.
Asked == Sure => asked.name = sel.name /\ sel.name # None

\* A selected name is a row of the panel, and so a profile of the listing.
LEMMA SelectedIsListed ==
  ASSUME Typed, InPanel, sel.name # None
  PROVE  sel.panel # {} /\ sel.name \in list[sel.prov]
BY RowsByUse DEF Typed, Selections, InPanel, Agrees

LEMMA AskedUntouched ==
  ASSUME Asked, UNCHANGED <<sel, ui, asked>>
  PROVE  Asked'
BY DEF Asked, Sure

\* Loads, the project context and the badges: the panel is rebuilt under the question.
LEMMA AskedSynced ==
  ASSUME Typed, InPanel, Asked, list' \in Listings, sel' = SyncPanel(sel, list'),
         ui' = ui, asked'.name = asked.name,
         asked'.sure => asked.sure /\ asked.name \in list'[sel.prov]
  PROVE  Asked'
<1> SUFFICES ASSUME Sure' PROVE asked'.name = sel'.name /\ sel'.name # None
  BY DEF Asked
<1>1. asked.name = sel.name /\ sel.name # None /\ sel.name \in list'[sel.prov]
  BY DEF Asked, Sure
<1> PICK l \in Listings : l = list'
  OBVIOUS
<1>2. LET r == SyncPanel(sel, l) IN sel.name \in l[sel.prov] => r.name = sel.name
  BY SyncPanelAgrees DEF Typed
<1> QED
  BY <1>1, <1>2

LEMMA AskedMessages ==
  ASSUME Typed, InPanel, Asked, NEW i \in Ids, Message(i)
  PROVE  Asked'
<1>1. asked \in [name : Names \cup {None}, sure : BOOLEAN] /\ cmds[i].read \in Listings
  BY DEF Typed, FlagsOK, CmdsOK, CmdStates
<1>2. CASE ProfilesLoaded(i)
  <2>1. /\ list' = cmds[i].read /\ sel' = SyncPanel(sel, list') /\ ui' = ui
        /\ asked'.name = asked.name
        /\ asked'.sure => asked.sure /\ asked.name \in list'[sel.prov]
    BY <1>1, <1>2 DEF ProfilesLoaded, Replace
  <2> QED
    BY <1>1, <2>1, AskedSynced
<1>3. CASE ProfilesRefreshed(i)
  BY <1>1, <1>3 DEF ProfilesRefreshed, Replace, Asked, Sure
<1>4. CASE ImportPreview(i)
  BY <1>4 DEF ImportPreview, NoQuestion, Asked, Sure
<1>5. CASE Failed(i) \/ ResultOf(i) \/ ImportComplete(i)
  BY <1>5, AskedUntouched DEF Failed, ResultOf, ImportComplete
<1> QED
  BY <1>2, <1>3, <1>4, <1>5 DEF Message

\* A key on any other screen asks nothing; an answer ends the question.
LEMMA AskedKeys ==
  ASSUME Typed, InPanel, Asked, Keys
  PROVE  Asked'
<1>1. UiOK
  BY DEF Typed
<1>2. \A s \in States : To(s) \in Screens /\ To(s).state = s
  BY <1>1, ScreenTypes
<1>3. Settled.state = "list"
  BY <1>1, ScreenTypes, StateNames
<1>4. ASSUME NEW q \in Questions, Ask(q) PROVE Asked'
  BY <1>4 DEF Ask, Asked, Sure
<1>5. CASE Move \/ SelectProvider \/ ApplySearchFilter
  BY <1>5 DEF Move, SelectProvider, ApplySearchFilter, Key, Asked, Sure, Questions
<1>6. CASE ConfirmActivate \/ ConfirmDelete \/ Cancel
  BY <1>6 DEF ConfirmActivate, ConfirmDelete, Cancel, NoQuestion, Asked, Sure
<1>7. CASE /\ ui'.state \notin Questions
  BY <1>7 DEF Asked, Sure
<1>8. CASE Login \/ SetProjectAssociation \/ BackupProfile \/ BackupCancel \/ ImportBundle \/ LeavePreview
  BY <1>2, <1>7, <1>8, StateNames
  DEF Login, SetProjectAssociation, BackupProfile, BackupCancel, ImportBundle, LeavePreview,
      Returning, Screen, Questions
<1>9. CASE OverwriteYes \/ OverwriteNo \/ ImportYes \/ ImportNo
  BY <1>3, <1>7, <1>9
  DEF OverwriteYes, OverwriteNo, ImportYes, ImportNo, ExecuteBackup, Returning, Screen, Questions
<1>10. CASE BackupSubmit
  <2>1. PICK n \in Names :
          \/ ExecuteBackup(n, To("list"))
          \/ Screen([To("overwrite?") EXCEPT !.profile = [of |-> "name", name |-> n]])
    BY <1>10 DEF BackupSubmit
  <2>2. To("list").state = "list"
    BY <1>2, StateNames
  <2>3. [To("overwrite?") EXCEPT !.profile = [of |-> "name", name |-> n]].state = "overwrite?"
    BY <1>2, StateNames DEF Screens
  <2> QED
    BY <1>7, <2>1, <2>2, <2>3 DEF ExecuteBackup, Screen, Questions
<1>11. CASE ImportPathSubmit
  <2>1. \A b \in Bundles :
          [To("previewing") EXCEPT !.profile = [of |-> "bundle", bundle |-> b]].state = "previewing"
    BY <1>2, StateNames DEF Screens
  <2>2. To("list").state = "list"
    BY <1>2, StateNames
  <2> QED
    BY <1>7, <1>11, <2>1, <2>2 DEF ImportPathSubmit, Returning, Screen, Questions
<1> QED
  BY <1>4, <1>5, <1>6, <1>8, <1>9, <1>10, <1>11 DEF Keys, Questions

LEMMA AskedStep ==
  ASSUME Typed, InPanel, Asked, [Next]_vars
  PROVE  Asked'
<1>1. CASE Resync
  <2>1. asked \in [name : Names \cup {None}, sure : BOOLEAN] /\ list \in Listings
    BY DEF Typed, FlagsOK, ListOK
  <2>2. /\ list' = list /\ sel' = SyncPanel(sel, list') /\ ui' = ui /\ asked' = asked
    BY <1>1 DEF Resync, listing
  <2>3. CASE ui.state \notin Questions
    BY <2>2, <2>3 DEF Asked, Sure
  <2>4. CASE ui.state \in Questions
    <3>1. asked'.sure => asked.sure /\ asked.name \in list'[sel.prov]
      BY <2>2, <2>4, SelectedIsListed DEF Asked, Sure
    <3> QED
      BY <2>1, <2>2, <3>1, AskedSynced
  <2> QED
    BY <2>3, <2>4
<1>2. CASE WatcherReady \/ ProfilesChanged \/ ReloadRequested \/ Elsewhere \/ UNCHANGED vars
  BY <1>2, AskedUntouched DEF WatcherReady, ProfilesChanged, ReloadRequested, Elsewhere, vars
<1>3. ASSUME NEW i \in Ids, Run(i) PROVE Asked'
  BY <1>3, AskedUntouched DEF Run
<1> QED
  BY <1>1, <1>2, <1>3, AskedMessages, AskedKeys DEF Next, Commands

LEMMA AskedInvariance == Spec => [](Typed /\ InPanel /\ Asked)
<1>1. Init => Asked
  BY DEF Init, NoQuestion, Asked, Sure
<1>2. Typed /\ InPanel /\ Asked /\ [Next]_vars => Asked'
  BY AskedStep
<1> QED
  BY <1>1, <1>2, TypedInvariance, PTL DEF Spec

LEMMA SureIsSelected ==
  ASSUME Typed, InPanel, Asked, Sure
  PROVE  Selected(sel, list) = asked.name
<1>1. asked.name = sel.name /\ sel.name # None
  BY DEF Asked
<1> QED
  BY <1>1, SelectedType DEF Typed, InPanel, ListOK

\* Loads, the project context and the badges reorder and unfilter the panel under a
\* question: the profile a yes acts on is still the one it was asked about, for any
\* listings and orders (handleActivateProfile, handleDeleteProfile).
THEOREM QuestionKeepsItsProfile == Spec => []AsksAboutSelected
<1>1. Typed /\ InPanel /\ Asked => AsksAboutSelected
  BY SureIsSelected DEF AsksAboutSelected, Sure, Questions
<1> QED
  BY <1>1, AskedInvariance, PTL

\* A yes to a question that is still sure deletes the profile it named and no other, or
\* activates that one (executeConfirmedAction).
ActsOnAsked ==
  /\ ConfirmDelete /\ asked.sure =>
       asked.name # None /\ vault' = [vault EXCEPT ![sel.prov] = @ \ {asked.name}]
  /\ ConfirmActivate /\ asked.sure =>
       asked.name # None /\ Start([Cmd("operation") EXCEPT !.selected = asked.name])

THEOREM SureAnswerActsOnAsked == Spec => [][ActsOnAsked]_vars
<1>1. ASSUME Typed, InPanel, Asked PROVE ActsOnAsked
  <2>1. ASSUME ConfirmDelete, asked.sure
        PROVE  asked.name # None /\ vault' = [vault EXCEPT ![sel.prov] = @ \ {asked.name}]
    <3>1. Sure
      BY <2>1 DEF ConfirmDelete, Key, Sure, Questions
    <3>2. asked.name # None /\ Selected(sel, list) = asked.name
      BY <1>1, <3>1, SureIsSelected DEF Asked
    <3> QED
      BY <2>1, <3>2 DEF ConfirmDelete, Write
  <2>2. ASSUME ConfirmActivate, asked.sure
        PROVE  asked.name # None /\ Start([Cmd("operation") EXCEPT !.selected = asked.name])
    <3>1. Sure
      BY <2>2 DEF ConfirmActivate, Key, Sure, Questions
    <3>2. asked.name # None /\ Selected(sel, list) = asked.name
      BY <1>1, <3>1, SureIsSelected DEF Asked
    <3> QED
      BY <2>2, <3>2 DEF ConfirmActivate
  <2> QED
    BY <2>1, <2>2 DEF ActsOnAsked
<1>2. Typed /\ InPanel /\ Asked /\ [Next]_vars => [ActsOnAsked]_vars
  BY <1>1
<1> QED
  BY <1>2, AskedInvariance, PTL DEF Spec

-----------------------------------------------------------------------------
(* The listing.                                                            *)

Listing(c) == c.kind \in {"load", "refresh"}

\* A listing that has read the vault as it is now has read what it holds now.
Reads ==
  \A i \in Ids : Listing(cmds[i]) /\ cmds[i].ran =>
    /\ cmds[i].version <= version
    /\ cmds[i].version = version => cmds[i].read = vault

\* This command will bring a listing that is not out of date, or be answered by one.
Owed(i) ==
  \/ Listing(cmds[i]) /\ (cmds[i].ran => cmds[i].version = version)
  \/ cmds[i].kind = "import" /\ cmds[i].ran

Current == shown = version /\ list = vault
Settling == missed \/ changed \/ Current \/ \E i \in Ids : Owed(i)

\* Any step other than a listing's: the vault changes with its version, or neither
\* does, and no command has read it.
LEMMA ReadsKept ==
  ASSUME Typed, Reads,
         UNCHANGED <<vault, version>> \/ version' = version + 1,
         \A i \in Ids : cmds'[i] = cmds[i] \/ ~(Listing(cmds'[i]) /\ cmds'[i].ran)
  PROVE  Reads'
<1> SUFFICES ASSUME NEW i \in Ids, Listing(cmds'[i]), cmds'[i].ran
             PROVE  /\ cmds'[i].version <= version'
                    /\ cmds'[i].version = version' => cmds'[i].read = vault'
  BY DEF Reads, Listing
<1>1. cmds'[i] = cmds[i]
  OBVIOUS
<1>2. cmds[i].version <= version /\ (cmds[i].version = version => cmds[i].read = vault)
  BY <1>1 DEF Reads, Listing
<1>3. cmds[i].version \in Nat /\ version \in Nat
  BY ConstantsAssumption DEF Typed, CmdsOK, CmdStates, DiskOK
<1> QED
  BY <1>1, <1>2, <1>3

LEMMA CmdFacts ==
  /\ Listing(Cmd("load")) /\ ~Cmd("load").ran
  /\ \A d, s : Listing(Refresh(d, s)) /\ ~Refresh(d, s).ran
  /\ \A s : LET c == [Cmd("operation") EXCEPT !.selected = s] IN ~c.ran /\ c.kind = "operation"
  /\ \A p : LET c == [Cmd("import") EXCEPT !.pending = p] IN ~c.ran /\ c.kind = "import"
  /\ ~Cmd("preview").ran /\ ~NoCmd.ran /\ NoCmd.kind = "none"
BY DEF Cmd, NoCmd, Refresh, Listing

\* A handler starts a command in a free place.
LEMMA StartFacts ==
  ASSUME Typed, NEW c, ~c.ran, Start(c)
  PROVE  /\ \A i \in Ids : cmds'[i] = cmds[i] \/ ~(Listing(cmds'[i]) /\ cmds'[i].ran)
         /\ \A i \in Ids : cmds[i].kind # "none" => cmds'[i] = cmds[i]
         /\ \E i \in Ids : cmds'[i] = c
<1>1. PICK i \in Ids : cmds[i].kind = "none" /\ cmds' = [cmds EXCEPT ![i] = c]
  BY DEF Start, InFlight
<1> QED
  BY <1>1 DEF Typed, CmdsOK

LEMMA BecomesFacts ==
  ASSUME Typed, NEW i \in Ids, NEW c, Becomes(i, c)
  PROVE  cmds'[i] = c /\ \A j \in Ids \ {i} : cmds'[j] = cmds[j]
BY DEF Becomes, Typed, CmdsOK

\* Nothing that owes a listing is lost while the vault is left alone.
LEMMA SettlingKept ==
  ASSUME Typed, Settling, UNCHANGED <<vault, version, list, shown>>,
         missed => missed', changed => changed' \/ \E i \in Ids : Owed(i)',
         \A i \in Ids : Owed(i) => missed' \/ \E j \in Ids : Owed(j)'
  PROVE  Settling'
<1>1. Current => Current'
  BY DEF Current
<1> QED
  BY <1>1 DEF Settling

LEMMA Untouched ==
  ASSUME Typed, Reads, Settling, UNCHANGED <<vault, version, changed, list, shown, cmds>>,
         missed => missed'
  PROVE  Reads' /\ Settling'
BY DEF Reads, Settling, Current, Owed, Listing

\* A handler starts a command and leaves the vault alone.
LEMMA Started ==
  ASSUME Typed, Reads, Settling, UNCHANGED <<vault, version, list, shown, missed>>,
         NEW c, ~c.ran, Start(c), changed' = changed \/ Listing(c)
  PROVE  Reads' /\ Settling'
<1>1. /\ \A i \in Ids : cmds'[i] = cmds[i] \/ ~(Listing(cmds'[i]) /\ cmds'[i].ran)
      /\ \A i \in Ids : cmds[i].kind # "none" => cmds'[i] = cmds[i]
      /\ \E i \in Ids : cmds'[i] = c
  BY StartFacts
<1>2. Reads'
  BY <1>1, ReadsKept
<1>3. \A i \in Ids : Owed(i) => Owed(i)'
  BY <1>1 DEF Owed, Listing
<1>4. Listing(c) => \E i \in Ids : Owed(i)'
  BY <1>1 DEF Owed, Listing
<1> QED
  BY <1>2, <1>3, <1>4, SettlingKept

\* The vault is written, and the listing it is owed is noted.
LEMMA Written ==
  ASSUME Typed, Reads, Settling, NEW v, Write(v), UNCHANGED <<list, shown>>,
         missed => missed',
         \A i \in Ids : cmds'[i] = cmds[i] \/ ~(Listing(cmds'[i]) /\ cmds'[i].ran),
         \A i \in Ids : cmds[i].kind # "none" => cmds'[i] = cmds[i] \/ \E j \in Ids : Owed(j)',
         v # vault => missed' \/ changed' \/ \E i \in Ids : Owed(i)'
  PROVE  Reads' /\ Settling'
<1>1. UNCHANGED <<vault, version>> \/ version' = version + 1
  BY DEF Write
<1>2. Reads'
  BY <1>1, ReadsKept
<1>3. CASE v = vault
  <2>1. vault' = vault /\ version' = version /\ (changed => changed')
    BY <1>3 DEF Write
  <2>2. \A i \in Ids : Owed(i) => \E j \in Ids : Owed(j)'
    BY <2>1 DEF Owed, Listing
  <2> QED
    BY <1>2, <2>1, <2>2, SettlingKept
<1>4. CASE v # vault
  BY <1>2, <1>4 DEF Settling
<1> QED
  BY <1>3, <1>4

LEMMA RunSettles ==
  ASSUME Typed, Reads, Settling, NEW i \in Ids, Run(i)
  PROVE  Reads' /\ Settling'
<1>1. UNCHANGED <<list, shown, missed>>
  BY DEF Run, listing
<1>2. CASE RunListing(i)
  <2> DEFINE c == [cmds[i] EXCEPT !.ran = TRUE, !.read = vault, !.version = version]
  <2>1. Listing(cmds[i]) /\ UNCHANGED <<vault, version, changed>> /\ Becomes(i, c)
    BY <1>2 DEF RunListing, Listing, disk
  <2>2. /\ Listing(c) /\ c.ran /\ c.version = version /\ c.read = vault
        /\ version \in Nat
    BY <2>1, ConstantsAssumption DEF Typed, CmdsOK, CmdStates, DiskOK, Listing
  <2> HIDE DEF c
  <2>3. cmds'[i] = c /\ \A j \in Ids \ {i} : cmds'[j] = cmds[j]
    BY <2>1, BecomesFacts
  <2>4. Reads'
    BY <2>1, <2>2, <2>3 DEF Reads, Listing
  <2>5. Owed(i)'
    BY <2>1, <2>2, <2>3 DEF Owed, Listing
  <2> QED
    BY <2>4, <2>5 DEF Settling
<1>3. CASE RunImport(i)
  <2> DEFINE c == [cmds[i] EXCEPT !.ran = TRUE]
  <2>1. Becomes(i, c) /\ Write(Adding(cmds[i].pending.bundle)) /\ cmds[i].kind = "import"
    BY <1>3 DEF RunImport
  <2>2. c.ran /\ c.kind = "import"
    BY <2>1 DEF Typed, CmdsOK, CmdStates
  <2> HIDE DEF c
  <2>3. cmds'[i] = c /\ \A j \in Ids \ {i} : cmds'[j] = cmds[j]
    BY <2>1, BecomesFacts
  <2>4. Owed(i)'
    BY <2>2, <2>3 DEF Owed
  <2>5. \A j \in Ids : cmds'[j] = cmds[j] \/ ~(Listing(cmds'[j]) /\ cmds'[j].ran)
    BY <2>2, <2>3 DEF Listing
  <2> QED
    BY <1>1, <2>1, <2>4, <2>5, Written
<1> QED
  BY <1>2, <1>3 DEF Run

LEMMA MessageSettles ==
  ASSUME Typed, Reads, Settling, NEW i \in Ids, Message(i)
  PROVE  Reads' /\ Settling'
<1>1. UNCHANGED <<vault, version, changed>>
  BY DEF Message, disk
<1>2. /\ cmds[i].version \in Nat /\ version \in Nat /\ shown \in Nat
      /\ cmds[i].ran \in BOOLEAN /\ missed \in BOOLEAN
  BY ConstantsAssumption DEF Typed, CmdsOK, CmdStates, DiskOK, ListOK, FlagsOK
\* The command ends, or is answered by one that has not read.
<1>3. ASSUME NEW c, Becomes(i, c), ~(Listing(c) /\ c.ran)
      PROVE  Reads' /\ cmds'[i] = c /\ \A j \in Ids \ {i} : cmds'[j] = cmds[j]
  <2>1. cmds'[i] = c /\ \A j \in Ids \ {i} : cmds'[j] = cmds[j]
    BY <1>3, BecomesFacts
  <2> QED
    BY <1>1, <1>3, <2>1, ReadsKept
<1>4. CASE (ProfilesLoaded(i) \/ ProfilesRefreshed(i)) /\ cmds[i].version = version
  <2>1. Listing(cmds[i]) /\ cmds[i].ran /\ list' = cmds[i].read /\ shown' = cmds[i].version
        /\ Becomes(i, NoCmd)
    BY <1>4 DEF ProfilesLoaded, ProfilesRefreshed, Replace, Ends, Listing
  <2>2. Reads'
    BY <1>3, <2>1, CmdFacts
  <2>3. cmds[i].read = vault
    BY <1>4, <2>1 DEF Reads
  <2>4. Current'
    BY <1>1, <1>4, <2>1, <2>3 DEF Current
  <2> QED
    BY <2>2, <2>4 DEF Settling
<1>5. CASE (ProfilesLoaded(i) \/ ProfilesRefreshed(i)) /\ cmds[i].version # version
  <2>1. /\ Listing(cmds[i]) /\ cmds[i].ran /\ Becomes(i, NoCmd)
        /\ missed' = (missed \/ cmds[i].version < shown)
    BY <1>5 DEF ProfilesLoaded, ProfilesRefreshed, Replace, Ends, Listing
  <2>2. Reads' /\ \A j \in Ids \ {i} : cmds'[j] = cmds[j]
    BY <1>3, <2>1, CmdFacts
  <2>3. ~Owed(i)
    BY <1>5, <2>1 DEF Owed, Listing
  <2>4. CASE cmds[i].version < shown
    BY <2>1, <2>2, <2>4 DEF Settling
  <2>5. CASE ~(cmds[i].version < shown)
    <3>1. cmds[i].version <= version
      BY <2>1 DEF Reads
    <3>2. ~Current
      BY <1>2, <1>5, <2>5, <3>1 DEF Current
    <3>3. \A j \in Ids : Owed(j) => Owed(j)'
      BY <1>1, <2>2, <2>3 DEF Owed, Listing
    <3> QED
      BY <1>1, <2>1, <2>2, <3>2, <3>3 DEF Settling
  <2> QED
    BY <2>4, <2>5
<1>6. ASSUME NEW c, Becomes(i, c), ~(Listing(c) /\ c.ran), UNCHANGED <<list, shown>>,
             missed => missed', Owed(i) => missed' \/ (Listing(c) /\ ~c.ran)
      PROVE  Reads' /\ Settling'
  <2>1. Reads' /\ cmds'[i] = c /\ \A j \in Ids \ {i} : cmds'[j] = cmds[j]
    BY <1>3, <1>6
  <2>2. \A j \in Ids \ {i} : Owed(j) => Owed(j)'
    BY <1>1, <2>1 DEF Owed, Listing
  <2>3. Listing(c) /\ ~c.ran => Owed(i)'
    BY <2>1 DEF Owed, Listing
  <2>4. \A j \in Ids : Owed(j) => missed' \/ \E k \in Ids : Owed(k)'
    BY <1>6, <2>2, <2>3
  <2> QED
    BY <1>1, <1>6, <2>1, <2>4, SettlingKept
<1>7. CASE Failed(i)
  BY <1>2, <1>6, <1>7, CmdFacts DEF Failed, Ends, listing, Owed, Listing
<1>8. CASE ResultOf(i)
  BY <1>6, <1>8, CmdFacts DEF ResultOf, listing
<1>9. CASE ImportPreview(i)
  BY <1>6, <1>9, CmdFacts DEF ImportPreview, Ends, listing, Owed, Listing
<1>10. CASE ImportComplete(i)
  BY <1>6, <1>10, CmdFacts DEF ImportComplete, listing
<1> QED
  BY <1>4, <1>5, <1>7, <1>8, <1>9, <1>10 DEF Message

\* A backup or a deletion of the user's.
LEMMA BackupSettles ==
  ASSUME Typed, Reads, Settling, NEW n, NEW u, ExecuteBackup(n, u)
  PROVE  Reads' /\ Settling'
<1>1. CASE Screen(u)
  BY <1>1, Untouched DEF Screen, disk, listing
<1>2. CASE /\ Write(Saving(n)) /\ ui' = u /\ Start(Cmd("load"))
           /\ UNCHANGED <<listing, sel, watching, missed, asked>>
  <2>1. /\ \A i \in Ids : cmds'[i] = cmds[i] \/ ~(Listing(cmds'[i]) /\ cmds'[i].ran)
        /\ \A i \in Ids : cmds[i].kind # "none" => cmds'[i] = cmds[i]
        /\ \E i \in Ids : cmds'[i] = Cmd("load")
    BY <1>2, CmdFacts, StartFacts
  <2>2. \E i \in Ids : Owed(i)'
    BY <2>1, CmdFacts DEF Owed, Listing
  <2> QED
    BY <1>2, <2>1, <2>2, Written DEF listing
<1>3. CASE /\ Write(Saving(n)) /\ ui' = u /\ missed' = (missed \/ vault' # vault)
           /\ UNCHANGED <<listing, sel, cmds, watching, asked>>
  <2>1. vault' = Saving(n)
    BY <1>3 DEF Write
  <2> QED
    BY <1>3, <2>1, Written DEF listing
<1> QED
  BY <1>1, <1>2, <1>3 DEF ExecuteBackup

LEMMA DeleteSettles ==
  ASSUME Typed, Reads, Settling, ConfirmDelete
  PROVE  Reads' /\ Settling'
<1> DEFINE c == Refresh(Selected(sel, list), None)
<1>1. Write([vault EXCEPT ![sel.prov] = @ \ {Selected(sel, list)}]) /\ Start(c)
  BY DEF ConfirmDelete
<1>2. UNCHANGED <<list, shown, missed>>
  BY DEF ConfirmDelete, listing
<1>3. Listing(c) /\ ~c.ran
  BY CmdFacts
<1> HIDE DEF c
<1>4. /\ \A i \in Ids : cmds'[i] = cmds[i] \/ ~(Listing(cmds'[i]) /\ cmds'[i].ran)
      /\ \A i \in Ids : cmds[i].kind # "none" => cmds'[i] = cmds[i]
      /\ \E i \in Ids : cmds'[i] = c
  BY <1>1, <1>3, StartFacts
<1>5. \E i \in Ids : Owed(i)'
  BY <1>3, <1>4 DEF Owed, Listing
<1> QED
  BY <1>1, <1>2, <1>4, <1>5, Written

\* What another process does is an event of the watcher, or missed without one.
LEMMA ElsewhereSettles ==
  ASSUME Typed, Reads, Settling, Elsewhere
  PROVE  Reads' /\ Settling'
<1>1. PICK v : Write(v)
  BY DEF Elsewhere
<1>2. UNCHANGED <<list, shown, cmds>> /\ missed' = (missed \/ ~watching)
  BY DEF Elsewhere, listing
<1>3. v # vault => missed' \/ changed'
  BY <1>1, <1>2 DEF Write
<1> QED
  BY <1>1, <1>2, <1>3, Written

LEMMA SettlingStep ==
  ASSUME Typed, Reads, Settling, [Next]_vars
  PROVE  Reads' /\ Settling'
<1>1. CASE \/ WatcherReady \/ Resync \/ Move \/ SelectProvider \/ ApplySearchFilter
           \/ Ask("activate?") \/ Ask("delete?") \/ Cancel \/ SetProjectAssociation
           \/ UNCHANGED vars
  <2>1. UNCHANGED <<vault, version, changed, list, shown, cmds, missed>>
    BY <1>1
    DEF WatcherReady, Resync, Move, SelectProvider, ApplySearchFilter, Ask, Cancel,
        SetProjectAssociation, vars, disk, listing
  <2> QED
    BY <2>1, Untouched
<1>2. ASSUME NEW u, Screen(u) PROVE Reads' /\ Settling'
  BY <1>2, Untouched DEF Screen, disk, listing
<1>3. ASSUME NEW u, NEW c, ~c.ran, Returning(u, c) PROVE Reads' /\ Settling'
  BY <1>3, Started DEF Returning, disk, listing
<1>4. CASE ProfilesChanged \/ ReloadRequested
  BY <1>4, CmdFacts, Started DEF ProfilesChanged, ReloadRequested, disk, listing
<1>5. CASE ConfirmActivate
  <2> DEFINE c == [Cmd("operation") EXCEPT !.selected = Selected(sel, list)]
  <2>1. ~c.ran /\ Start(c) /\ UNCHANGED <<vault, version, changed, list, shown, missed>>
    BY <1>5, CmdFacts DEF ConfirmActivate, disk, listing
  <2> HIDE DEF c
  <2> QED
    BY <2>1, Started
<1>6. CASE Login
  <2> DEFINE c == [Cmd("operation") EXCEPT !.selected = Selected(sel, list)]
  <2>1. ~c.ran /\ Returning(To("list"), c)
    BY <1>6, CmdFacts DEF Login
  <2> HIDE DEF c
  <2> QED
    BY <1>3, <2>1
<1>7. CASE \/ BackupProfile \/ BackupCancel \/ OverwriteNo \/ ImportBundle \/ ImportNo
           \/ LeavePreview
  BY <1>2, <1>7
  DEF BackupProfile, BackupCancel, OverwriteNo, ImportBundle, ImportNo, LeavePreview
<1>8. CASE BackupSubmit \/ OverwriteYes
  BY <1>2, <1>8, BackupSettles DEF BackupSubmit, OverwriteYes
<1>9. CASE ImportPathSubmit
  BY <1>2, <1>3, <1>9, CmdFacts DEF ImportPathSubmit
<1>10. CASE ImportYes
  <2> DEFINE c == [Cmd("import") EXCEPT !.pending = ui.profile]
  <2>1. ~c.ran /\ Returning(Settled, c)
    BY <1>10, CmdFacts DEF ImportYes
  <2> HIDE DEF c
  <2> QED
    BY <1>3, <2>1
<1>11. CASE Commands
  BY <1>11, RunSettles, MessageSettles DEF Commands
<1> QED
  BY <1>1, <1>4, <1>5, <1>6, <1>7, <1>8, <1>9, <1>10, <1>11, DeleteSettles, ElsewhereSettles
  DEF Next, Keys

LEMMA SettlingInit == Init => Reads /\ Settling
<1> SUFFICES ASSUME Init PROVE Reads /\ Settling
  OBVIOUS
<1>1. 1 \in Ids /\ cmds[1] = Cmd("load")
  BY ConstantsAssumption DEF Init, Ids
<1>2. \A i \in Ids : ~cmds[i].ran
  BY CmdFacts DEF Init
<1>3. Owed(1)
  BY <1>1, CmdFacts DEF Owed, Listing
<1> QED
  BY <1>1, <1>2, <1>3 DEF Reads, Settling

\* Once nothing is in flight, what the interface shows is the vault, but for the
\* changes that it had no way to hear of, a listing that failed, and one that an older
\* and slower one replaced: whatever number of commands run and end in whatever order
\* (loadProfiles, refreshProfiles, Update).
THEOREM ListingSettles == Spec => []ListSettles
<1>1. Typed /\ Reads /\ Settling => ListSettles
  BY DEF Settling, Current, Owed, Listing, ListSettles, InFlight
<1>2. Typed /\ Reads /\ Settling /\ [Next]_vars => (Reads /\ Settling)'
  BY SettlingStep
<1> QED
  BY <1>1, <1>2, SettlingInit, TypedInvariance, PTL DEF Spec

=============================================================================
