---------------------------- MODULE Coordinator ----------------------------
(***************************************************************************)
(* The distributed auth recovery of internal/coordinator: one goroutine    *)
(* polls the terminal panes in which Claude Code runs and drives each pane *)
(* through a login (PaneTracker's state machine); the HTTP handlers of     *)
(* api.go hand it the codes that internal/agent obtained in a browser.     *)
(*                                                                         *)
(* Four actors interleave: the monitor goroutine (Poll, then one handler   *)
(* action per tracker state), the HTTP goroutines of ReceiveAuthResponse   *)
(* (cut at each release of c.mu or of tracker.mu), the agent's poll loop,  *)
(* and the panes, which are not code of the repository: they are modelled  *)
(* from the patterns and injected texts of the coordinator.                *)
(***************************************************************************)
EXTENDS Naturals, Sequences, FiniteSets

CONSTANTS
    Panes,            \* panes that pass the PaneFilter
    ReqIds,           \* the uuids of auth requests, each created at most once
    Handlers,         \* concurrent HTTP handler goroutines
    None,             \* the empty string where an id or a code is expected
    MaxLogins,        \* bound: login attempts (URLs) Claude shows per pane
    Window,           \* bound: markers in the last OutputLines lines
    MaxPosts,         \* bound: answers the agent sends for one request
    MaxRestarts,      \* bound: crashes of the coordinator process
    PanesClose,       \* may a pane close
    SendFails,        \* may SendText return an error
    Stall,            \* may an HTTP handler be descheduled past a timeout
    SlowPanes,        \* may Claude leave its input unread past a timeout
    CompactionReminderEnabled

ASSUME CoordinatorAssumption ==
    /\ None \notin ReqIds /\ None \notin Panes
    /\ MaxLogins \in Nat \ {0} /\ Window \in Nat \ {0}
    /\ MaxPosts \in Nat /\ MaxRestarts \in Nat
    /\ {PanesClose, SendFails, Stall, SlowPanes,
      CompactionReminderEnabled} \subseteq BOOLEAN

VARIABLES
    tracked,    \* the keys of c.trackers
    trk,        \* c.trackers: NewTracker for a pane that has none
    reqs,       \* c.requests; "unused" and "gone" ids are not in the map
    mon,        \* the monitor goroutine: its step and what it has read
    http,       \* the HTTP handler goroutines inside ReceiveAuthResponse
    todo,       \* the agent: requests fetched and not yet answered
    posts,      \* answers of the agent on their way to the coordinator
    sent,       \* how many answers the agent sent for a request
    mode,       \* Claude in the pane: what it waits for
    screen,     \* the markers in the last OutputLines lines of the pane
    inbox,      \* texts injected into the pane and not yet read by Claude
    logins,     \* the number of OAuth URLs the pane has shown
    accepted,   \* the requests whose code logged their pane in
    dirty,      \* does the pane's output differ from tracker.LastOutput
    open,       \* the panes that exist
    restarts    \* crashes so far

coordVars == <<tracked, trk, reqs, mon, http>>
agentVars == <<todo, posts, sent>>
claudeVars == <<mode, screen, logins, accepted>>
vars == <<tracked, trk, reqs, mon, http, todo, posts, sent, mode, screen,
          inbox, logins, accepted, dirty, open, restarts>>

States == {"IDLE", "RATE_LIMITED", "AWAITING_METHOD_SELECT", "AWAITING_URL",
           "AUTH_PENDING", "CODE_RECEIVED", "AWAITING_CONFIRM", "RESUMING",
           "FAILED"}
Cooldowns == {"login", "method_select", "resume", "compaction"}
Urls == 0..MaxLogins            \* 0 is the empty URL
MaybeReq == ReqIds \cup {None}
Markers == [kind : {"ok", "fail", "url", "paste", "method", "limit",
                    "banner", "reminder"}, n : Urls]
Texts == [kind : {"login", "one", "resume", "reminder"}, req : {None}]
           \cup [kind : {"code"}, req : ReqIds]
Trackers == [st : States, url : Urls, rid : MaybeReq, code : MaybeReq,
             cool : SUBSET Cooldowns, aged : BOOLEAN]
Requests == [status : {"unused", "pending", "processing", "gone"},
             pane : Panes \cup {None}, url : Urls]

TrackerTypeOK ==
    /\ tracked \subseteq Panes
    /\ trk \in [Panes -> Trackers]
    /\ reqs \in [ReqIds -> Requests]

MonTypeOK ==
    /\ mon \in [pc : {"idle", "handle", "bind"}, pane : Panes \cup {None},
                cur : States, out : Seq(Markers), rid : MaybeReq]
    /\ mon.pc # "idle" => mon.pane \in Panes
    /\ mon.pc = "bind" => mon.rid \in ReqIds

HttpTypeOK ==
    /\ http \in [Handlers -> [pc : {"idle", "find", "store", "fail", "drop"},
                              rid : MaybeReq, ok : BOOLEAN,
                              pane : Panes \cup {None}]]
    /\ \A h \in Handlers :
          /\ http[h].pc # "idle" => http[h].rid \in ReqIds
          /\ http[h].pc \in {"store", "fail"} => http[h].pane \in Panes

AgentTypeOK ==
    /\ todo \subseteq ReqIds
    /\ posts \subseteq [rid : ReqIds, ok : BOOLEAN, n : 1..MaxPosts]
    /\ sent \in [ReqIds -> 0..MaxPosts]

ClaudeTypeOK ==
    /\ mode \in [Panes -> {"busy", "limited", "menu", "prompt"}]
    /\ screen \in [Panes -> Seq(Markers)]
    /\ logins \in [Panes -> Urls]
    /\ \A p \in Panes : mode[p] = "menu" => logins[p] < MaxLogins
    /\ accepted \subseteq ReqIds

PaneTypeOK ==
    /\ inbox \in [Panes -> Seq(Texts)]
    /\ dirty \in [Panes -> BOOLEAN]
    /\ open \subseteq Panes
    /\ restarts \in 0..MaxRestarts

TypeOK ==
    /\ TrackerTypeOK /\ MonTypeOK /\ HttpTypeOK
    /\ AgentTypeOK /\ ClaudeTypeOK /\ PaneTypeOK

-----------------------------------------------------------------------------
(* What the coordinator reads off a pane, and what a tracker starts from.  *)

Marker(k, n) == [kind |-> k, n |-> n]
Shown(out) == {out[i].kind : i \in DOMAIN out}

\* The patterns in their order of priority.
DetectState(out) ==
    CASE "ok" \in Shown(out) -> "RESUMING"
      [] "ok" \notin Shown(out) /\ "fail" \in Shown(out) -> "FAILED"
      [] Shown(out) \cap {"ok", "fail"} = {}
           /\ Shown(out) \cap {"url", "paste"} # {} -> "AWAITING_URL"
      [] Shown(out) \cap {"ok", "fail", "url", "paste"} = {}
           /\ "method" \in Shown(out) -> "AWAITING_METHOD_SELECT"
      [] Shown(out) \cap {"ok", "fail", "url", "paste", "method"} = {}
           /\ "limit" \in Shown(out) -> "RATE_LIMITED"
      [] OTHER -> "IDLE"

\* FindString returns the leftmost match: the oldest URL still in the window.
FirstUrlAt(out, i) ==
    /\ out[i].kind = "url"
    /\ \A j \in DOMAIN out : j < i => out[j].kind # "url"

ExtractOAuthURL(out) ==
    IF \E i \in DOMAIN out : FirstUrlAt(out, i)
    THEN out[CHOOSE i \in DOMAIN out : FirstUrlAt(out, i)].n
    ELSE 0

NewTracker == [st |-> "IDLE", url |-> 0, rid |-> None, code |-> None,
               cool |-> {}, aged |-> FALSE]
MonIdle == [pc |-> "idle", pane |-> None, cur |-> "IDLE", out |-> <<>>,
            rid |-> None]
HttpIdle == [pc |-> "idle", rid |-> None, ok |-> FALSE, pane |-> None]

SetState(t, s) == [t EXCEPT !.st = s, !.aged = FALSE]

\* A bug's form: Reset forgets the received code.
ResetKeepsCode(t) == [NewTracker EXCEPT !.code = t.code]

Reset(t) == NewTracker
SetCooldown(t, a) == [t EXCEPT !.cool = @ \cup {a}]

InMap(r) == r \in ReqIds /\ reqs[r].status \in {"pending", "processing"}
Dropped(r) == [q \in ReqIds |->
                 IF q = r /\ InMap(r) THEN [reqs[q] EXCEPT !.status = "gone"]
                 ELSE reqs[q]]
cleanupRequest(r) == reqs' = Dropped(r)

Text(k) == [kind |-> k, req |-> None]
CodeText(r) == [kind |-> "code", req |-> r]

\* SendText(p, x): ok says whether it returned nil.
SendText(p, x, ok) ==
    /\ ok => p \in open
    /\ ~ok => (SendFails \/ p \notin open)
    /\ inbox' = IF ok THEN [inbox EXCEPT ![p] = Append(@, x)] ELSE inbox

-----------------------------------------------------------------------------
Init ==
    /\ tracked = {}
    /\ trk = [p \in Panes |-> NewTracker]
    /\ reqs = [r \in ReqIds |-> [status |-> "unused", pane |-> None, url |-> 0]]
    /\ mon = MonIdle
    /\ http = [h \in Handlers |-> HttpIdle]
    /\ todo = {}
    /\ posts = {}
    /\ sent = [r \in ReqIds |-> 0]
    /\ mode = [p \in Panes |-> "busy"]
    /\ screen = [p \in Panes |-> <<>>]
    /\ inbox = [p \in Panes |-> <<>>]
    /\ logins = [p \in Panes |-> 0]
    /\ accepted = {}
    /\ dirty = [p \in Panes |-> TRUE]
    /\ open = Panes
    /\ restarts = 0

-----------------------------------------------------------------------------
(* The monitor goroutine.  Poll reads the output, the state and whether    *)
(* the output changed; the handler acts on what Poll read.                 *)

Poll(p) ==
    /\ mon.pc = "idle"
    /\ p \in open
    /\ tracked' = tracked \cup {p}
    /\ dirty' = [dirty EXCEPT ![p] = FALSE]
    /\ mon' = IF ~dirty[p] /\ trk[p].st = "IDLE" THEN mon
              ELSE [mon EXCEPT !.pc = "handle", !.pane = p, !.cur = trk[p].st,
                               !.out = screen[p]]
    /\ UNCHANGED <<trk, reqs, http, inbox, open, restarts>>
    /\ UNCHANGED <<agentVars, claudeVars>>

\* The end of pollPanes: trackers of panes that ListPanes no longer returns.
RemoveTracker(p) ==
    /\ mon.pc = "idle"
    /\ p \in tracked \ open
    /\ tracked' = tracked \ {p}
    /\ trk' = [trk EXCEPT ![p] = NewTracker]
    /\ UNCHANGED <<reqs, mon, http, dirty, inbox, open, restarts>>
    /\ UNCHANGED <<agentVars, claudeVars>>

Handling(s) == mon.pc = "handle" /\ mon.cur = s
Me == mon.pane
Mine == trk[mon.pane]
Become(t) == trk' = [trk EXCEPT ![Me] = t]
MonDone ==
    /\ mon' = MonIdle
    /\ UNCHANGED <<tracked, http, dirty, open, restarts>>
    /\ UNCHANGED <<agentVars, claudeVars>>

\* The check at the end of most handlers: StateTimeout elapsed in this state.
\* A bug's form: the state never times out.
NeverResets == UNCHANGED <<trk, reqs, inbox>>

ResetIfAged ==
    /\ Become(IF Mine.aged THEN Reset(Mine) ELSE Mine)
    /\ UNCHANGED <<reqs, inbox>>

InjectLogin ==
    LET limited == SetState(Mine, "RATE_LIMITED") IN
    IF "login" \in Mine.cool
    THEN Become(limited) /\ UNCHANGED inbox
    ELSE \E ok \in BOOLEAN :
           /\ SendText(Me, Text("login"), ok)
           /\ Become(IF ok THEN SetCooldown(limited, "login") ELSE limited)

ReminderDue ==
    /\ CompactionReminderEnabled
    /\ "banner" \in Shown(mon.out)
    /\ "reminder" \notin Shown(mon.out)
    /\ "compaction" \notin Mine.cool

InjectReminder ==
    \E ok \in BOOLEAN :
      /\ SendText(Me, Text("reminder"), ok)
      /\ Become(IF ok THEN SetCooldown(Mine, "compaction") ELSE Mine)

\* A bug's form: the limit is looked for anywhere in the output.
LimitAnywhere == "limit" \in Shown(mon.out)

\* The limit has the lowest priority, "as it might be in history".
RateLimitDetected == DetectState(mon.out) = "RATE_LIMITED"

HandleIdle ==
    /\ Handling("IDLE")
    /\ \/ /\ RateLimitDetected
          /\ InjectLogin
       \/ /\ ~RateLimitDetected /\ ReminderDue
          /\ InjectReminder
       \/ /\ ~RateLimitDetected /\ ~ReminderDue
          /\ UNCHANGED <<trk, inbox>>
    /\ UNCHANGED reqs
    /\ MonDone

InjectMethodSelect ==
    LET selecting == SetState(Mine, "AWAITING_METHOD_SELECT") IN
    IF "method_select" \in Mine.cool
    THEN Become(selecting) /\ UNCHANGED inbox
    ELSE \E ok \in BOOLEAN :
           /\ SendText(Me, Text("one"), ok)
           /\ Become(IF ok THEN SetCooldown(selecting, "method_select")
                     ELSE selecting)

UrlSeen == DetectState(mon.out) = "AWAITING_URL" /\ ExtractOAuthURL(mon.out) # 0
TakeUrl ==
    Become([SetState(Mine, "AWAITING_URL") EXCEPT !.url = ExtractOAuthURL(mon.out)])

HandleRateLimited ==
    /\ Handling("RATE_LIMITED")
    /\ \/ /\ DetectState(mon.out) = "AWAITING_METHOD_SELECT"
          /\ InjectMethodSelect
          /\ UNCHANGED reqs
       \/ UrlSeen /\ TakeUrl /\ UNCHANGED <<reqs, inbox>>
       \/ /\ DetectState(mon.out) # "AWAITING_METHOD_SELECT" /\ ~UrlSeen
          /\ ResetIfAged
    /\ MonDone

HandleAwaitingMethodSelect ==
    /\ Handling("AWAITING_METHOD_SELECT")
    /\ \/ UrlSeen /\ TakeUrl /\ UNCHANGED <<reqs, inbox>>
       \/ ~UrlSeen /\ ResetIfAged
    /\ MonDone

\* The URL the handler works with: the tracker's, or else the screen's.
LoginUrl == IF Mine.url # 0 THEN Mine.url ELSE ExtractOAuthURL(mon.out)

\* The request is in the map, and visible to the agent, before the tracker
\* knows its id (BindRequest).
HandleAwaitingURL(r) ==
    /\ Handling("AWAITING_URL")
    /\ IF LoginUrl # 0 /\ Mine.rid = None
       THEN /\ reqs[r].status = "unused"
            /\ reqs' = [reqs EXCEPT ![r] = [status |-> "pending", pane |-> Me,
                                            url |-> LoginUrl]]
            /\ Become([Mine EXCEPT !.url = LoginUrl])
            /\ mon' = [mon EXCEPT !.pc = "bind", !.rid = r]
            /\ UNCHANGED inbox
       ELSE ResetIfAged /\ mon' = MonIdle
    /\ UNCHANGED <<tracked, http, dirty, open, restarts>>
    /\ UNCHANGED <<agentVars, claudeVars>>

BindRequest ==
    /\ mon.pc = "bind"
    /\ Become([SetState(Mine, "AUTH_PENDING") EXCEPT !.rid = mon.rid])
    /\ UNCHANGED <<reqs, inbox>>
    /\ MonDone

HandleAuthPending ==
    /\ Handling("AUTH_PENDING")
    /\ \/ /\ Mine.code # None
          /\ Become(SetState(Mine, "CODE_RECEIVED"))
          /\ UNCHANGED reqs
       \/ /\ Mine.code = None /\ Mine.aged
          /\ cleanupRequest(Mine.rid)
          /\ Become(SetState(Mine, "FAILED"))
       \/ /\ Mine.code = None /\ ~Mine.aged
          /\ UNCHANGED <<trk, reqs>>
    /\ UNCHANGED inbox
    /\ MonDone

HandleCodeReceived ==
    /\ Handling("CODE_RECEIVED")
    /\ IF Mine.code = None
       THEN Become(SetState(Mine, "FAILED")) /\ UNCHANGED inbox
       ELSE \E ok \in BOOLEAN :
              /\ SendText(Me, CodeText(Mine.code), ok)
              /\ Become(SetState(Mine, IF ok THEN "AWAITING_CONFIRM" ELSE "FAILED"))
    /\ UNCHANGED reqs
    /\ MonDone

\* A bug's form: a confirmation that does not come has the code typed again.
ConfirmRetries ==
    /\ Handling("AWAITING_CONFIRM")
    /\ \/ /\ DetectState(mon.out) \in {"RESUMING", "FAILED"}
          /\ Become(SetState(Mine, DetectState(mon.out)))
       \/ /\ DetectState(mon.out) \notin {"RESUMING", "FAILED"}
          /\ Become(IF Mine.aged THEN SetState(Mine, "CODE_RECEIVED") ELSE Mine)
    /\ UNCHANGED <<reqs, inbox>>
    /\ MonDone

HandleAwaitingConfirm ==
    /\ Handling("AWAITING_CONFIRM")
    /\ \/ /\ DetectState(mon.out) \in {"RESUMING", "FAILED"}
          /\ Become(SetState(Mine, DetectState(mon.out)))
          /\ UNCHANGED reqs
       \/ /\ DetectState(mon.out) \notin {"RESUMING", "FAILED"}
          /\ Mine.aged
          /\ cleanupRequest(Mine.rid)
          /\ Become(SetState(Mine, "FAILED"))
       \/ /\ DetectState(mon.out) \notin {"RESUMING", "FAILED"}
          /\ ~Mine.aged
          /\ UNCHANGED <<trk, reqs>>
    /\ UNCHANGED inbox
    /\ MonDone

\* On success the request is dropped and the tracker reset, cooldowns included.
HandleResuming ==
    /\ Handling("RESUMING")
    /\ IF "resume" \in Mine.cool
       THEN UNCHANGED <<trk, reqs, inbox>>
       ELSE \/ SendText(Me, Text("resume"), FALSE) /\ UNCHANGED <<trk, reqs>>
            \/ /\ SendText(Me, Text("resume"), TRUE)
               /\ cleanupRequest(Mine.rid)
               /\ Become(Reset(SetCooldown(Mine, "resume")))
    /\ MonDone

\* A bug's form, the one TestAuthRequestLeakOnTimeout reproduces.
HandleFailedLeaks ==
    /\ Handling("FAILED")
    /\ Become(IF Mine.aged THEN Reset(Mine) ELSE Mine)
    /\ UNCHANGED <<reqs, inbox>>
    /\ MonDone

HandleFailed ==
    /\ Handling("FAILED")
    /\ \/ /\ Mine.aged
          /\ cleanupRequest(Mine.rid)
          /\ Become(Reset(Mine))
       \/ ~Mine.aged /\ UNCHANGED <<trk, reqs>>
    /\ UNCHANGED inbox
    /\ MonDone

MonitorStep ==
    \/ HandleIdle
    \/ HandleRateLimited
    \/ HandleAwaitingMethodSelect
    \/ \E r \in ReqIds : HandleAwaitingURL(r)
    \/ BindRequest
    \/ HandleAuthPending
    \/ HandleCodeReceived
    \/ HandleAwaitingConfirm
    \/ HandleResuming
    \/ HandleFailed

-----------------------------------------------------------------------------
(* ReceiveAuthResponse, one goroutine per HTTP request.                    *)

HttpUnchanged ==
    /\ UNCHANGED <<tracked, mon, todo, sent, inbox, dirty, open, restarts>>
    /\ UNCHANGED claudeVars

\* First critical section: the request is known, and leaves "pending".
HttpLookup(h, m) ==
    /\ http[h].pc = "idle"
    /\ m \in posts
    /\ posts' = posts \ {m}
    /\ \/ /\ InMap(m.rid)
          /\ reqs' = [reqs EXCEPT ![m.rid].status = "processing"]
          /\ http' = [http EXCEPT ![h] = [pc |-> "find", rid |-> m.rid,
                                          ok |-> m.ok, pane |-> None]]
       \/ ~InMap(m.rid) /\ UNCHANGED <<reqs, http>>
    /\ UNCHANGED trk
    /\ HttpUnchanged

\* A bug's form: any tracker that waits for a code will do.
WaitingTrackers(r) == {p \in tracked : trk[p].st = "AUTH_PENDING"}

Holders(r) == {p \in tracked : trk[p].rid = r}

Found(h, p) == [http[h] EXCEPT !.pane = p,
                               !.pc = IF http[h].ok THEN "store" ELSE "fail"]

\* A bug's form: the nil check on the tracker is missing.
HttpFindUnchecked(h) ==
    /\ http[h].pc = "find"
    /\ \E p \in (IF Holders(http[h].rid) = {} THEN {None} ELSE Holders(http[h].rid)) :
         http' = [http EXCEPT ![h] = Found(h, p)]
    /\ UNCHANGED <<trk, reqs, posts>>
    /\ HttpUnchanged

\* Second critical section: the tracker that holds the request.
HttpFind(h) ==
    /\ http[h].pc = "find"
    /\ \/ \E p \in Holders(http[h].rid) : http' = [http EXCEPT ![h] = Found(h, p)]
       \/ /\ Holders(http[h].rid) = {}
          /\ http' = [http EXCEPT ![h] = HttpIdle]
    /\ UNCHANGED <<trk, reqs, posts>>
    /\ HttpUnchanged

\* The handler holds a pointer to the tracker; nothing is checked again.  A
\* tracker that left the map is written to without effect.
HttpStore(h) ==
    /\ http[h].pc = "store"
    /\ trk' = [p \in Panes |->
                 IF p = http[h].pane /\ p \in tracked
                 THEN [trk[p] EXCEPT !.code = http[h].rid] ELSE trk[p]]
    /\ http' = [http EXCEPT ![h] = HttpIdle]
    /\ UNCHANGED <<reqs, posts>>
    /\ HttpUnchanged

HttpFail(h) ==
    /\ http[h].pc = "fail"
    /\ trk' = [p \in Panes |->
                 IF p = http[h].pane /\ p \in tracked
                 THEN SetState(trk[p], "FAILED") ELSE trk[p]]
    /\ http' = [http EXCEPT ![h].pc = "drop"]
    /\ UNCHANGED <<reqs, posts>>
    /\ HttpUnchanged

HttpDrop(h) ==
    /\ http[h].pc = "drop"
    /\ cleanupRequest(http[h].rid)
    /\ http' = [http EXCEPT ![h] = HttpIdle]
    /\ UNCHANGED <<trk, posts>>
    /\ HttpUnchanged

HttpStep(h) ==
    \/ \E m \in posts : HttpLookup(h, m)
    \/ HttpFind(h) \/ HttpStore(h) \/ HttpFail(h) \/ HttpDrop(h)

-----------------------------------------------------------------------------
(* The agent: fetch what is pending, then answer each one from that list.  *)

AgentUnchanged == UNCHANGED <<coordVars, claudeVars, inbox, dirty, open, restarts>>

checkPendingRequests ==
    /\ todo = {}
    /\ todo' = {r \in ReqIds : reqs[r].status = "pending"}
    /\ UNCHANGED <<posts, sent>>
    /\ AgentUnchanged

\* One OAuth run in the browser; ok says how it ended.  The answer may reach
\* the coordinator at any later time, after the agent gave up on it.
processAuthRequest(r, ok) ==
    /\ r \in todo
    /\ todo' = todo \ {r}
    /\ IF sent[r] < MaxPosts
       THEN /\ sent' = [sent EXCEPT ![r] = @ + 1]
            /\ posts' = posts \cup {[rid |-> r, ok |-> ok, n |-> sent[r] + 1]}
       ELSE UNCHANGED <<sent, posts>>
    /\ AgentUnchanged

LoseAnswer(m) ==
    /\ m \in posts
    /\ posts' = posts \ {m}
    /\ UNCHANGED <<todo, sent>>
    /\ AgentUnchanged

AgentStep ==
    \/ checkPendingRequests
    \/ \E r \in todo, ok \in BOOLEAN : processAuthRequest(r, ok)

-----------------------------------------------------------------------------
(* The panes: Claude Code, from what the coordinator expects of it.        *)

PaneUnchanged == UNCHANGED <<coordVars, agentVars, open, restarts>>

LastOf(s) == IF Len(s) > Window THEN SubSeq(s, Len(s) - Window + 1, Len(s)) ELSE s
Display(p, ms) ==
    /\ screen' = [screen EXCEPT ![p] = LastOf(@ \o ms)]
    /\ dirty' = [dirty EXCEPT ![p] = TRUE]

HitLimit(p) ==
    /\ p \in open /\ mode[p] = "busy" /\ inbox[p] = <<>>
    /\ logins[p] < MaxLogins
    /\ mode' = [mode EXCEPT ![p] = "limited"]
    /\ Display(p, <<Marker("limit", 0)>>)
    /\ UNCHANGED <<inbox, logins, accepted>>
    /\ PaneUnchanged

\* Ordinary output: old markers leave the window.
Scroll(p) ==
    /\ p \in open /\ mode[p] = "busy" /\ screen[p] # <<>>
    /\ screen' = [screen EXCEPT ![p] = Tail(@)]
    /\ dirty' = [dirty EXCEPT ![p] = TRUE]
    /\ UNCHANGED <<mode, inbox, logins, accepted>>
    /\ PaneUnchanged

Compact(p) ==
    /\ CompactionReminderEnabled
    /\ p \in open /\ mode[p] = "busy" /\ inbox[p] = <<>>
    /\ "banner" \notin Shown(screen[p])
    /\ Display(p, <<Marker("banner", 0)>>)
    /\ UNCHANGED <<mode, inbox, logins, accepted>>
    /\ PaneUnchanged

ShowPrompt(p) ==
    /\ mode' = [mode EXCEPT ![p] = "prompt"]
    /\ logins' = [logins EXCEPT ![p] = @ + 1]
    /\ Display(p, <<Marker("url", logins[p] + 1), Marker("paste", 0)>>)

ShowMenu(p) ==
    /\ mode' = [mode EXCEPT ![p] = "menu"]
    /\ Display(p, <<Marker("method", 0)>>)
    /\ UNCHANGED logins

\* A code is accepted by the prompt whose URL it was obtained for.
Accepts(p, x) ==
    /\ mode[p] = "prompt"
    /\ x.kind = "code" /\ reqs[x.req].pane = p /\ reqs[x.req].url = logins[p]

ReadText(p, x) ==
    \/ /\ x.kind = "login" /\ mode[p] \in {"busy", "limited"}
       /\ logins[p] < MaxLogins
       /\ ShowMenu(p) \/ ShowPrompt(p)
       /\ UNCHANGED accepted
    \/ /\ x.kind = "one" /\ mode[p] = "menu"
       /\ ShowPrompt(p)
       /\ UNCHANGED accepted
    \/ /\ Accepts(p, x)
       /\ mode' = [mode EXCEPT ![p] = "busy"]
       /\ Display(p, <<Marker("ok", 0)>>)
       /\ accepted' = accepted \cup {x.req}
       /\ UNCHANGED logins
    \/ /\ mode[p] = "prompt" /\ ~Accepts(p, x)
       /\ mode' = [mode EXCEPT ![p] = "limited"]
       /\ Display(p, <<Marker("fail", 0)>>)
       /\ UNCHANGED <<logins, accepted>>
    \/ /\ mode[p] = "limited" /\ x.kind # "login"
       /\ Display(p, <<Marker("limit", 0)>>)
       /\ UNCHANGED <<mode, logins, accepted>>
    \/ /\ mode[p] = "busy" /\ x.kind # "login"
       /\ Display(p, IF x.kind = "reminder" THEN <<Marker("reminder", 0)>> ELSE <<>>)
       /\ UNCHANGED <<mode, logins, accepted>>
    \/ /\ mode[p] = "menu" /\ x.kind # "one"
       /\ Display(p, <<>>)
       /\ UNCHANGED <<mode, logins, accepted>>

Read(p) ==
    /\ p \in open /\ inbox[p] # <<>>
    /\ ReadText(p, Head(inbox[p]))
    /\ inbox' = [inbox EXCEPT ![p] = Tail(@)]
    /\ PaneUnchanged

Close(p) ==
    /\ PanesClose
    /\ p \in open
    /\ open' = open \ {p}
    /\ UNCHANGED <<coordVars, agentVars, claudeVars, inbox, dirty, restarts>>

-----------------------------------------------------------------------------
(* Time and crashes.                                                       *)

\* StateTimeout (AuthTimeout in AUTH_PENDING) elapses.  Without Stall, no HTTP
\* handler sits for that long inside ReceiveAuthResponse; without SlowPanes, no
\* injected text stays unread for that long.
TimePasses(p) ==
    /\ p \in tracked /\ trk[p].st # "IDLE" /\ ~trk[p].aged
    /\ Stall \/ \A h \in Handlers : http[h].pc = "idle"
    /\ SlowPanes \/ inbox[p] = <<>> \/ p \notin open
    /\ trk' = [trk EXCEPT ![p].aged = TRUE]
    /\ UNCHANGED <<tracked, reqs, mon, http, inbox, dirty, open, restarts>>
    /\ UNCHANGED <<agentVars, claudeVars>>

CooldownEnds(p, a) ==
    /\ a \in trk[p].cool
    /\ trk' = [trk EXCEPT ![p].cool = @ \ {a}]
    /\ UNCHANGED <<tracked, reqs, mon, http, inbox, dirty, open, restarts>>
    /\ UNCHANGED <<agentVars, claudeVars>>

\* The coordinator keeps nothing on disk: a new process starts empty.
Restart ==
    /\ restarts < MaxRestarts
    /\ restarts' = restarts + 1
    /\ tracked' = {}
    /\ trk' = [p \in Panes |-> NewTracker]
    /\ reqs' = [r \in ReqIds |-> IF InMap(r) THEN [reqs[r] EXCEPT !.status = "gone"]
                                 ELSE reqs[r]]
    /\ mon' = MonIdle
    /\ http' = [h \in Handlers |-> HttpIdle]
    /\ dirty' = [p \in Panes |-> TRUE]
    /\ UNCHANGED <<inbox, open>>
    /\ UNCHANGED <<agentVars, claudeVars>>

-----------------------------------------------------------------------------
PaneStep(p) == Read(p) \/ HitLimit(p) \/ Scroll(p) \/ Compact(p) \/ Close(p)

Next ==
    \/ \E p \in Panes : Poll(p) \/ RemoveTracker(p)
    \/ MonitorStep
    \/ \E h \in Handlers : HttpStep(h)
    \/ AgentStep
    \/ \E m \in posts : LoseAnswer(m)
    \/ \E p \in Panes : PaneStep(p) \/ TimePasses(p)
    \/ \E p \in Panes, a \in Cooldowns : CooldownEnds(p, a)
    \/ Restart

Spec == Init /\ [][Next]_vars

(***************************************************************************)
(* Fairness.  The ticker runs pollPanes for ever and each run visits every *)
(* pane, so a pane is polled again and again although Poll is disabled     *)
(* while another pane is being handled: strong fairness per pane.  Every   *)
(* goroutine that can take a step eventually does, and time passes.        *)
(* Nothing is assumed of the agent, the panes or the network.              *)
(***************************************************************************)
Fairness ==
    /\ WF_vars(MonitorStep)
    /\ \A p \in Panes : /\ SF_vars(Poll(p))
                        /\ SF_vars(RemoveTracker(p))
                        /\ WF_vars(TimePasses(p))
    /\ \A h \in Handlers : WF_vars(HttpFind(h) \/ HttpStore(h) \/ HttpFail(h) \/ HttpDrop(h))

FairSpec == Spec /\ Fairness

\* A terminal that answers again and again, and a Claude that reads its input.
TerminalFairness ==
    \A p \in Panes : /\ WF_vars(Read(p))
                     /\ SF_vars(HandleIdle /\ inbox'[p] # inbox[p])
                     /\ SF_vars(HandleResuming /\ inbox'[p] # inbox[p])

RetrySpec == FairSpec /\ TerminalFairness

-----------------------------------------------------------------------------
(* Properties.                                                             *)

\* The tracker that created request r holds it, or is about to.
Held(r) ==
    \/ reqs[r].pane \in tracked /\ trk[reqs[r].pane].rid = r
    \/ mon.pc = "bind" /\ mon.rid = r

\* Every entry of c.requests whose pane is open is held: nothing else would ever remove
\* it, and the agent would be handed it at every poll (cleanupRequest, and
\* TestAuthRequestLeakOnTimeout).
NoLeakedRequest == \A r \in ReqIds : InMap(r) /\ reqs[r].pane \in open => Held(r)

\* The same of every entry.  pollPanes breaks it when a pane closes in mid-login: it drops
\* the tracker and leaves the request in the map.
EveryRequestHeld == \A r \in ReqIds : InMap(r) => Held(r)

\* A code obtained for one pane's login is never stored in another pane's
\* tracker nor typed into another pane, whatever the agent answers, in
\* whatever order, and whoever is reset meanwhile.
CodeStaysInPane ==
    \A p \in Panes :
        /\ trk[p].code # None => reqs[trk[p].code].pane = p
        /\ \A i \in DOMAIN inbox[p] :
              inbox[p][i].kind = "code" => reqs[inbox[p][i].req].pane = p

\* The code a tracker holds answers the request it holds: a code left by an
\* earlier login is never injected for the next one.
CodeAnswersRequest ==
    \A p \in Panes : trk[p].code # None => trk[p].code = trk[p].rid

\* The resume prompt is only due in a pane that Claude has logged in with the
\* code of the request at hand, not because of an older "Logged in" still in
\* the window.
ResumeAfterLogin ==
    \A p \in Panes : trk[p].st = "RESUMING" => trk[p].rid \in accepted

\* While Claude waits at a login prompt, the request its tracker waits on
\* carries the URL of that prompt, not of an earlier one in the scrollback.
RequestUrlIsCurrent ==
    \A p \in Panes :
        (trk[p].st = "AUTH_PENDING" /\ mode[p] = "prompt") =>
            reqs[trk[p].rid].url = logins[p]

\* No login hangs: a tracker that left IDLE returns to it (reset, or removed
\* with its pane), whatever the agent, the network and Claude do.
LoginEnds ==
    \A p \in Panes : trk[p].st # "IDLE" ~> trk[p].st = "IDLE"

\* "WezTerm not running: Log error, retry with backoff"
\* (docs/DISTRIBUTED_AUTH_RECOVERY.md): a pane that shows the limit and nothing
\* later gets its /login, even when an injection failed, provided that
\* injections do not fail for ever.
LimitGetsLogin ==
    \A p \in Panes :
        (mode[p] = "limited" /\ DetectState(screen[p]) = "RATE_LIMITED")
          ~> (mode[p] # "limited" \/ inbox[p] # <<>> \/ p \notin open)

\* No request is offered to the agent for ever: each one leaves the map, unless
\* its pane closes.
RequestsEnd ==
    \A r \in ReqIds : InMap(r) ~> (~InMap(r) \/ reqs[r].pane \notin open)

\* The stage of a login, from its tracker.  A failed tracker is only waiting to be reset:
\* a code that arrives now changes nothing.
StageIn(t) ==
    IF t.st = "AUTH_PENDING" /\ t.code = None THEN "asked"
    ELSE IF t.st \in {"AUTH_PENDING", "CODE_RECEIVED"} THEN "answered"
    ELSE IF t.st \in {"AWAITING_CONFIRM", "RESUMING"} THEN "typed" ELSE "over"
StageOf(r) ==
    IF reqs[r].status = "unused" THEN "unused"
    ELSE IF mon.pc = "bind" /\ mon.rid = r THEN "asked"
    ELSE IF trk[reqs[r].pane].rid = r THEN StageIn(trk[reqs[r].pane]) ELSE "over"

Unread(p, x) == \E i \in DOMAIN inbox[p] : inbox[p][i] = x

LoginStages == [r \in ReqIds |-> StageOf(r)]
LoginPanes == [r \in ReqIds |-> reqs[r].pane]
TypedCodes == {x \in Panes \X ReqIds : Unread(x[1], CodeText(x[2]))}
Resumptions == {p \in Panes : Unread(p, Text("resume"))}

\* The coordinator implements LoginBroker: one login per pane at a time, each through its
\* stages once and never back, its code typed once, into its own pane, and the pane resumed
\* once, after that code was accepted; whatever the handlers that hold no lock between two
\* steps, late answers, timeouts, failed injections and restarts do to each other.
Broker == INSTANCE LoginBroker WITH
    stage <- LoginStages, owner <- LoginPanes, typed <- TypedCodes, resumes <- Resumptions
BrokerSpec == Broker!Spec
=============================================================================
