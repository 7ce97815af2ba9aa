-------------------------------- MODULE Tui --------------------------------
(***************************************************************************)
(* The terminal interface (internal/tui): the Model of model.go, its panel  *)
(* of profiles, its dialogs and the export and import of bundles.  One      *)
(* goroutine handles keys and messages, one at a time (Update); each tea.Cmd *)
(* a handler returns runs in a goroutine of its own, reads or writes the     *)
(* vault, and sends its result as a message.  Commands run and are answered  *)
(* in any order, while the user goes on and other processes change the vault.*)
(*                                                                         *)
(* m.profiles is in the order of the names, the panel in the order of their  *)
(* last use; an index means one thing in the one and another in the other.   *)
(* Which profile is active, badges, toasts, spinners, metadata, the usage     *)
(* overlay and the layout are left out.                                     *)
(***************************************************************************)
EXTENDS Integers, FiniteSets

CONSTANTS
  NProviders,  \* the providers are numbered as their tabs are ordered
  Names,       \* names of profiles, numbered in their alphabetical order
  LastUsed,    \* when each profile was last used
  Saved,       \* what the vault holds when the interface starts
  Bundles,     \* what a bundle adds to the vault, one for each path the user may type
  MaxCmds,     \* bound: commands in flight
  MaxChanges   \* bound: changes of the vault

Providers == 1 .. NProviders

ASSUME ConstantsAssumption ==
  /\ NProviders \in Nat \ {0}
  /\ Names \subseteq Nat \ {0} /\ IsFiniteSet(Names)
  /\ LastUsed \in [Names -> Nat]
  /\ Saved \in [Providers -> SUBSET Names]
  /\ Bundles \subseteq [Providers -> SUBSET Names]
  /\ MaxCmds \in Nat \ {0} /\ MaxChanges \in Nat

VARIABLES
  vault,    \* the profiles on disk
  version,  \* history: how often the set of them has changed
  list,     \* m.profiles
  shown,    \* history: the version that list was read from
  sel,      \* active provider, panel, index and selected name
  ui,       \* m.state and m.pendingProfile
  cmds,     \* the commands in flight
  watching, \* the watcher of the vault is on
  changed,  \* the watcher has an event that no handler has taken
  missed,   \* history: a change no listing owes the user any more
  asked     \* history: the selected name the confirmation on screen was asked for

vars == <<vault, version, list, shown, sel, ui, cmds, watching, changed, missed, asked>>
disk == <<vault, version, changed>>
listing == <<list, shown>>

None == 0
NoListing == [p \in Providers |-> {}]
\* stateConfirm with its pendingAction is two states here, stateImportPath before and
\* after its dialog has been submitted two; the other states have their dialogs.
States == {"list", "activate?", "delete?", "backup", "overwrite?", "importPath", "previewing",
           "import?"}
\* loadProfiles, refreshProfiles, the activation or the token refresh of a profile,
\* loadImportPreview and executeImport; executeExport changes nothing here.
Kinds == {"load", "refresh", "operation", "preview", "import"}
\* m.pendingProfile: a name to overwrite, the path of a bundle, or neither.
NothingPending == [of |-> "nothing"]
Pending == {NothingPending} \cup [of : {"name"}, name : Names]
             \cup [of : {"bundle"}, bundle : Bundles]

\* A command as the Update loop starts it; ran: it has read or written the vault.
Cmd(kind) == [kind |-> kind, ran |-> FALSE, read |-> NoListing, version |-> 0,
              deleted |-> None, selected |-> None, pending |-> NothingPending]
Refresh(deleted, selected) ==
  [Cmd("refresh") EXCEPT !.deleted = deleted, !.selected = selected]
InFlight(i) == cmds[i].kind # "none"
Ids == 1 .. MaxCmds
NoCmd == Cmd("none")
NoQuestion == [name |-> None, sure |-> FALSE]

TypeOK ==
  /\ vault \in [Providers -> SUBSET Names] /\ list \in [Providers -> SUBSET Names]
  /\ version \in 0 .. MaxChanges /\ shown \in 0 .. MaxChanges
  /\ sel \in [prov : Providers, panel : SUBSET Names, index : Nat, name : Names \cup {None}]
  /\ ui \in [state : States, profile : Pending]
  /\ cmds \in [Ids -> [kind : Kinds \cup {"none"}, ran : BOOLEAN,
                       read : [Providers -> SUBSET Names], version : 0 .. MaxChanges,
                       deleted : Names \cup {None}, selected : Names \cup {None},
                       pending : Pending]]
  /\ watching \in BOOLEAN
  /\ changed \in BOOLEAN /\ missed \in BOOLEAN
  /\ asked \in [name : Names \cup {None}, sure : BOOLEAN]

-----------------------------------------------------------------------------
(* The panel and the selection.                                            *)

\* The order of m.profiles, and that of the panel.
ByName(S, n) == Cardinality({o \in S : o < n})
ByUse(S, n) ==
  Cardinality({o \in S : LastUsed[o] > LastUsed[n] \/ (LastUsed[o] = LastUsed[n] /\ o < n)})
NthByName(S, i) == CHOOSE n \in S : ByName(S, n) = i
NthByUse(S, i) == CHOOSE n \in S : ByUse(S, n) = i

\* The panel shows S with its row i selected.
Showing(s, S, i) ==
  [s EXCEPT !.panel = S, !.index = i, !.name = IF S = {} THEN None ELSE NthByUse(S, i)]

\* Variation: the row stays where it is, whichever profile it shows now.
RowKept(s, S) == IF s.index >= Cardinality(S) THEN Cardinality(S) - 1 ELSE s.index

\* The row syncProfilesPanel selects: that of the selected name, or else one in range.
Row(s, S) ==
  CASE s.name \in S -> ByUse(S, s.name)
    [] s.name # None /\ s.name \notin S /\ s.index >= Cardinality(S) -> Cardinality(S) - 1
    [] s.name = None /\ s.index >= Cardinality(S) -> 0
    [] OTHER -> s.index

\* Variation: an empty panel leaves the name of what was selected.
SyncPanelKeepsName(s, l) ==
  LET S == l[s.prov]
  IN IF S = {} THEN [s EXCEPT !.panel = {}, !.index = 0] ELSE Showing(s, S, Row(s, S))

SyncPanel(s, l) ==
  LET S == l[s.prov] IN Showing(s, S, IF S = {} THEN 0 ELSE Row(s, S))

\* The selection a refresh restores, by what the refresh was for; the provider it
\* was for is not looked at.
RestoreSelection(s, l, c) ==
  LET S == l[s.prov]
      Select(n, i) == [s EXCEPT !.name = n, !.index = i]
      later == {n \in S : n > c.deleted}
      next == Cardinality(S \ later)
      beside == IF next = 0 THEN 0 ELSE next - 1
  IN CASE S = {} -> Select(None, 0)
       [] S # {} /\ c.deleted # None -> Select(NthByName(S, beside), beside)
       [] OTHER -> Select(c.selected, IF c.selected \in S THEN ByName(S, c.selected) ELSE 0)

\* What the actions act on: the panel's row or, when the panel is empty, the
\* profile of that index in m.profiles.
Selected(s, l) ==
  IF s.panel # {} THEN NthByUse(s.panel, s.index)
  ELSE IF s.index < Cardinality(l[s.prov]) THEN NthByName(l[s.prov], s.index) ELSE None

-----------------------------------------------------------------------------
(* The vault and the commands in flight.                                   *)

\* The vault becomes v; a watcher that is on has something to report.
Write(v) ==
  /\ v = vault \/ version < MaxChanges
  /\ vault' = v
  /\ version' = IF v = vault THEN version ELSE version + 1
  /\ changed' = (changed \/ (watching /\ v # vault))

Saving(n) == [vault EXCEPT ![sel.prov] = @ \cup {n}]
Adding(b) == [p \in Providers |-> vault[p] \cup b[p]]

\* A handler returns the command c.
Start(c) ==
  \E i \in Ids :
    /\ ~InFlight(i)
    /\ \A j \in Ids : j < i => InFlight(j)
    /\ cmds' = [cmds EXCEPT ![i] = c]

Becomes(i, c) == cmds' = [cmds EXCEPT ![i] = c]
Ends(i) == Becomes(i, NoCmd)

\* A command runs.  An operation and a preview leave the set of profiles alone:
\* their run is one with their message.
RunListing(i) ==
  /\ cmds[i].kind \in {"load", "refresh"} /\ ~cmds[i].ran
  /\ Becomes(i, [cmds[i] EXCEPT !.ran = TRUE, !.read = vault, !.version = version])
  /\ UNCHANGED disk

\* A name that the overwrite question left in the field is no bundle: it only fails.
RunImport(i) ==
  /\ cmds[i].kind = "import" /\ ~cmds[i].ran /\ cmds[i].pending.of = "bundle"
  /\ Write(Adding(cmds[i].pending.bundle))
  /\ Becomes(i, [cmds[i] EXCEPT !.ran = TRUE])

Run(i) ==
  /\ RunListing(i) \/ RunImport(i)
  /\ UNCHANGED <<listing, sel, ui, watching, missed, asked>>

-----------------------------------------------------------------------------
(* The messages.                                                           *)

\* A listing replaces m.profiles; a confirmation on screen stays sure of its
\* profile only while every listing has it and no refresh moves the selection.
Replace(c, moves) ==
  /\ list' = c.read /\ shown' = c.version
  /\ missed' = (c.version # version /\ (missed \/ c.version < shown))
  /\ asked' = [asked EXCEPT !.sure = @ /\ ~moves /\ asked.name \in c.read[sel.prov]]

ProfilesLoaded(i) ==
  /\ cmds[i].kind = "load" /\ cmds[i].ran
  /\ Replace(cmds[i], FALSE)
  /\ sel' = SyncPanel(sel, cmds[i].read)
  /\ Ends(i)
  /\ UNCHANGED ui

ProfilesRefreshed(i) ==
  /\ cmds[i].kind = "refresh" /\ cmds[i].ran
  /\ Replace(cmds[i], TRUE)
  /\ sel' = SyncPanel(RestoreSelection(sel, cmds[i].read, cmds[i]), cmds[i].read)
  /\ Ends(i)
  /\ UNCHANGED ui

\* An error is shown and nothing else.  A listing fails before it has read, an
\* import before or after it has written.
Failed(i) ==
  /\ InFlight(i) /\ (cmds[i].ran => cmds[i].kind = "import")
  /\ missed' = (missed \/ cmds[i].kind \in {"load", "refresh", "import"})
  /\ Ends(i)
  /\ UNCHANGED <<listing, sel, ui, asked>>

\* activateResultMsg and refreshResultMsg.
ResultOf(i) ==
  /\ cmds[i].kind = "operation"
  /\ Becomes(i, Refresh(None, cmds[i].selected))
  /\ UNCHANGED <<listing, sel, ui, missed, asked>>

\* The preview takes the screen, whatever is on it.
ImportPreview(i) ==
  /\ cmds[i].kind = "preview"
  /\ ui' = [ui EXCEPT !.state = "import?"]
  /\ asked' = NoQuestion
  /\ Ends(i)
  /\ UNCHANGED <<listing, sel, missed>>

ImportComplete(i) ==
  /\ cmds[i].kind = "import" /\ cmds[i].ran
  /\ Becomes(i, Cmd("load"))
  /\ UNCHANGED <<listing, sel, ui, missed, asked>>

Message(i) ==
  /\ \/ ProfilesLoaded(i) \/ ProfilesRefreshed(i) \/ Failed(i) \/ ResultOf(i)
     \/ ImportPreview(i) \/ ImportComplete(i)
  /\ UNCHANGED <<disk, watching>>

\* When it fails, or file watching is switched off, this never comes.
WatcherReady ==
  /\ ~watching
  /\ watching' = TRUE
  /\ UNCHANGED <<disk, listing, sel, ui, cmds, missed, asked>>

ProfilesChanged ==
  /\ changed
  /\ changed' = FALSE
  /\ Start(Cmd("load"))
  /\ UNCHANGED <<vault, version, listing, sel, ui, watching, missed, asked>>

\* SIGHUP.
ReloadRequested ==
  /\ Start(Cmd("load"))
  /\ UNCHANGED <<disk, listing, sel, ui, watching, missed, asked>>

\* The project context and the timers of the badges.
Resync ==
  /\ sel' = SyncPanel(sel, list)
  /\ UNCHANGED <<disk, listing, ui, cmds, watching, missed, asked>>

-----------------------------------------------------------------------------
(* The keys.  A screen that changes nothing here before its keys return to   *)
(* the list is the list: the help, the command palette, which calls the same *)
(* handlers, the editor of a profile's metadata, the export's confirmation,  *)
(* the usage overlay and the sync panel.                                    *)

Key(state) == ui.state = state

To(state) == [ui EXCEPT !.state = state]

\* A handler that changes the screen only.
Screen(u) ==
  /\ ui' = u
  /\ UNCHANGED <<disk, listing, sel, cmds, watching, missed, asked>>

\* A handler that returns to the list with a command.
Returning(u, c) ==
  /\ ui' = u
  /\ Start(c)
  /\ UNCHANGED <<disk, listing, sel, watching, missed, asked>>

Move ==
  /\ Key("list") /\ sel.panel # {}
  /\ \E i \in {sel.index - 1, sel.index + 1} \cap (0 .. Cardinality(sel.panel) - 1) :
       sel' = Showing(sel, sel.panel, i)
  /\ UNCHANGED <<disk, listing, ui, cmds, watching, missed, asked>>

SelectProvider ==
  /\ Key("list")
  /\ \E p \in {sel.prov - 1, sel.prov + 1, (sel.prov % NProviders) + 1} \cap Providers :
       sel' = SyncPanel([sel EXCEPT !.prov = p, !.index = 0, !.name = None], list)
  /\ UNCHANGED <<disk, listing, ui, cmds, watching, missed, asked>>

\* A key typed in the search, the panel's filter; leaving it without accepting it
\* syncs the panel, as Resync does.
ApplySearchFilter ==
  /\ Key("list")
  /\ \E matching \in SUBSET list[sel.prov] : sel' = Showing(sel, matching, 0)
  /\ UNCHANGED <<disk, listing, ui, cmds, watching, missed, asked>>

\* handleActivateProfile and handleDeleteProfile ask; the answer to "already
\* active" is a message only.
Ask(question) ==
  /\ Key("list") /\ Selected(sel, list) # None
  /\ ui' = To(question)
  /\ asked' = [name |-> sel.name, sure |-> sel.name # None]
  /\ UNCHANGED <<disk, listing, sel, cmds, watching, missed>>

ConfirmActivate ==
  /\ Key("activate?") /\ Selected(sel, list) # None
  /\ ui' = To("list") /\ asked' = NoQuestion
  /\ Start([Cmd("operation") EXCEPT !.selected = Selected(sel, list)])
  /\ UNCHANGED <<disk, listing, sel, watching, missed>>

ConfirmDelete ==
  /\ Key("delete?") /\ Selected(sel, list) # None
  /\ Write([vault EXCEPT ![sel.prov] = @ \ {Selected(sel, list)}])
  /\ ui' = To("list") /\ asked' = NoQuestion
  /\ Start(Refresh(Selected(sel, list), None))
  /\ UNCHANGED <<listing, sel, watching, missed>>

\* Answered with no, or with yes when nothing is left to act on or Vault.Delete
\* refuses, as it does a system profile.
Cancel ==
  /\ Key("activate?") \/ Key("delete?")
  /\ ui' = To("list") /\ asked' = NoQuestion
  /\ UNCHANGED <<disk, listing, sel, cmds, watching, missed>>

Login ==
  /\ Key("list") /\ Selected(sel, list) # None
  /\ Returning(To("list"), [Cmd("operation") EXCEPT !.selected = Selected(sel, list)])

SetProjectAssociation ==
  /\ Key("list") /\ Selected(sel, list) # None
  /\ ui' = To("list") /\ sel' = SyncPanel(sel, list)
  /\ UNCHANGED <<disk, listing, cmds, watching, missed, asked>>

BackupProfile == Key("list") /\ Screen(To("backup"))

\* Variation: the list is not loaded after a backup.
ExecuteBackupUnlisted(n, u) ==
  /\ Write(Saving(n))
  /\ ui' = u
  /\ UNCHANGED <<listing, sel, cmds, watching, missed, asked>>

\* Vault.Backup makes the profile's directory first: when it fails then, the
\* profile is there and no listing is asked for.
ExecuteBackup(n, u) ==
  \/ Write(Saving(n)) /\ ui' = u /\ Start(Cmd("load"))
     /\ UNCHANGED <<listing, sel, watching, missed, asked>>
  \/ Write(Saving(n)) /\ ui' = u
     /\ missed' = (missed \/ vault' # vault)
     /\ UNCHANGED <<listing, sel, cmds, watching, asked>>
  \/ Screen(u)

\* Whether the profile exists is read from the vault, not from the listing.
BackupSubmit ==
  /\ Key("backup")
  /\ \E n \in Names :
       \/ /\ n \notin vault[sel.prov]
          /\ ExecuteBackup(n, To("list"))
       \/ /\ n \in vault[sel.prov]
          /\ Screen([To("overwrite?") EXCEPT !.profile = [of |-> "name", name |-> n]])

BackupCancel == Key("backup") /\ Screen(To("list"))

Settled == [To("list") EXCEPT !.profile = NothingPending]

OverwriteYes ==
  /\ Key("overwrite?")
  /\ ExecuteBackup(ui.profile.name, Settled)

OverwriteNo == Key("overwrite?") /\ Screen(Settled)

ImportBundle == Key("list") /\ Screen(To("importPath"))

\* A readable path leaves the state as it is, without a dialog, until the preview
\* comes or a key returns to the list.
ImportPathSubmit ==
  /\ Key("importPath")
  /\ \/ \E b \in Bundles :
          Returning([To("previewing") EXCEPT !.profile = [of |-> "bundle", bundle |-> b]],
                    Cmd("preview"))
     \/ Screen(To("list"))

ImportYes ==
  /\ Key("import?") /\ ui.profile # NothingPending
  /\ Returning(Settled, [Cmd("import") EXCEPT !.pending = ui.profile])

ImportNo == Key("import?") /\ Screen(Settled)

\* A key while the preview is loaded finds no dialog.
LeavePreview == Key("previewing") /\ Screen(To("list"))

-----------------------------------------------------------------------------
(* Another process adds a profile or removes one (external).                *)
Elsewhere ==
  /\ \E p \in Providers, n \in Names :
       \E S \in {vault[p] \cup {n}, vault[p] \ {n}} \ {vault[p]} : Write([vault EXCEPT ![p] = S])
  /\ missed' = (missed \/ ~watching)
  /\ UNCHANGED <<listing, sel, ui, cmds, watching, asked>>

Init ==
  /\ vault = Saved /\ version = 0 /\ changed = FALSE
  /\ list = NoListing /\ shown = 0
  /\ sel = [prov |-> 1, panel |-> {}, index |-> 0, name |-> None]
  /\ ui = [state |-> "list", profile |-> NothingPending]
  /\ cmds = [i \in Ids |-> IF i = 1 THEN Cmd("load") ELSE NoCmd]
  /\ watching = FALSE
  /\ missed = FALSE
  /\ asked = NoQuestion

Commands == \E i \in Ids : Run(i) \/ Message(i)
Keys ==
  \/ Move \/ SelectProvider
  \/ ApplySearchFilter
  \/ Ask("activate?") \/ Ask("delete?") \/ ConfirmActivate \/ ConfirmDelete \/ Cancel
  \/ Login \/ SetProjectAssociation
  \/ BackupProfile \/ BackupSubmit \/ BackupCancel \/ OverwriteYes \/ OverwriteNo
  \/ ImportBundle \/ ImportPathSubmit \/ ImportYes \/ ImportNo \/ LeavePreview
Next ==
  \/ Commands \/ WatcherReady \/ ProfilesChanged \/ ReloadRequested \/ Resync
  \/ Keys \/ Elsewhere

Spec == Init /\ [][Next]_vars

-----------------------------------------------------------------------------
(* Properties.                                                             *)

\* The selected name, the source of truth for the actions, is the panel's row, and
\* both are there together: whatever filter, listing or refresh came last.
SelectionAgrees ==
  IF sel.panel = {} THEN sel.name = None
  ELSE sel.index \in 0 .. Cardinality(sel.panel) - 1 /\ sel.name = NthByUse(sel.panel, sel.index)

\* While it asks about a profile that every listing since still has, and no refresh
\* of another operation has been handled, the confirmation is about the profile a
\* yes would act on: loads, the project context and the badges reorder and unfilter
\* the panel under it.
AsksAboutSelected ==
  ui.state \in {"activate?", "delete?"} /\ asked.sure => Selected(sel, list) = asked.name

\* Once nothing is in flight, the listing is the vault's, but for a change the
\* interface had no way to hear of, a listing that failed, or one that a slower and
\* older one replaced.
ListSettles ==
  (\A i \in Ids : ~InFlight(i)) /\ ~changed /\ ~missed => list = vault

\* A deletion or an activation acts on the profile whose row was selected when it was
\* asked for, "Delete '%s'? (y/n)", and which is still listed.  It does not: the token
\* refresh or the activation of another profile ends while the question is on screen
\* and takes the selection with it.
ConfirmedIsAsked ==
  [][(ConfirmActivate \/ ConfirmDelete) /\ asked.name \in list[sel.prov]
       => Selected(sel, list) = asked.name]_vars
=============================================================================
