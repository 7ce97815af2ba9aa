------------------------- MODULE Coordinator_proofs -------------------------
(***************************************************************************)
(* Proofs about Coordinator, for any panes, requests, handlers and bounds. *)
(***************************************************************************)
EXTENDS Coordinator, TLAPS

(* What the operators that build the next state return. *)

LEMMA NewTrackerType == NewTracker \in Trackers
BY CoordinatorAssumption DEF NewTracker, Trackers, States, Urls, MaybeReq

LEMMA SetStateType ==
    ASSUME NEW t \in Trackers, NEW s \in States
    PROVE  /\ SetState(t, s) \in Trackers
           /\ SetState(t, s).st = s
           /\ SetState(t, s).rid = t.rid
           /\ SetState(t, s).code = t.code
           /\ SetState(t, s).url = t.url
BY DEF SetState, Trackers

LEMMA SetCooldownType ==
    ASSUME NEW t \in Trackers, NEW a \in Cooldowns
    PROVE  /\ SetCooldown(t, a) \in Trackers
           /\ SetCooldown(t, a).st = t.st
           /\ SetCooldown(t, a).rid = t.rid
           /\ SetCooldown(t, a).code = t.code
BY DEF SetCooldown, Trackers

LEMMA DetectStateType == \A out : DetectState(out) \in States
BY DEF DetectState, States

LEMMA ExtractType ==
    ASSUME NEW out \in Seq(Markers)
    PROVE  ExtractOAuthURL(out) \in Urls
<1>1. CASE ~ \E i \in DOMAIN out : FirstUrlAt(out, i)
  BY <1>1, CoordinatorAssumption DEF ExtractOAuthURL, Urls
<1>2. CASE \E i \in DOMAIN out : FirstUrlAt(out, i)
  <2> DEFINE k == CHOOSE i \in DOMAIN out : FirstUrlAt(out, i)
  <2>1. k \in DOMAIN out
    BY <1>2
  <2>2. out[k] \in Markers
    BY <2>1
  <2>3. out[k].n \in Urls
    BY <2>2 DEF Markers
  <2> QED BY <1>2, <2>3 DEF ExtractOAuthURL
<1> QED BY <1>1, <1>2

LEMMA DroppedType ==
    ASSUME TrackerTypeOK, NEW r
    PROVE  /\ Dropped(r) \in [ReqIds -> Requests]
           /\ \A q \in ReqIds : /\ Dropped(r)[q].pane = reqs[q].pane
                                /\ Dropped(r)[q].url = reqs[q].url
                                /\ (Dropped(r)[q].status = "unused") <=>
                                     (reqs[q].status = "unused")
                                /\ Dropped(r)[q].status \in {"pending", "processing"} <=>
                                     (InMap(q) /\ q # r)
BY DEF Dropped, InMap, TrackerTypeOK, Requests

LEMMA TextTypes ==
    /\ \A k \in {"login", "one", "resume", "reminder"} :
          Text(k) \in Texts /\ Text(k).kind # "code"
    /\ \A r \in ReqIds : CodeText(r) \in Texts /\ CodeText(r).req = r
BY DEF Text, CodeText, Texts

LEMMA SendTextType ==
    ASSUME PaneTypeOK, NEW p \in Panes, NEW x \in Texts, NEW ok \in BOOLEAN,
           SendText(p, x, ok)
    PROVE  inbox' \in [Panes -> Seq(Texts)]
BY DEF SendText, PaneTypeOK

LEMMA LastOfType ==
    ASSUME NEW s \in Seq(Markers)
    PROVE  LastOf(s) \in Seq(Markers)
BY CoordinatorAssumption DEF LastOf

-----------------------------------------------------------------------------
(* Type correctness.                                                       *)

LEMMA TypeInit == Init => TypeOK
BY CoordinatorAssumption, NewTrackerType
   DEF Init, TypeOK, TrackerTypeOK, MonTypeOK, HttpTypeOK, AgentTypeOK,
       ClaudeTypeOK, PaneTypeOK, Requests, Urls, MonIdle, HttpIdle, States, MaybeReq

LEMMA HandlerTypes ==
    ASSUME TypeOK, mon.pc # "idle"
    PROVE  /\ Me \in Panes /\ Mine \in Trackers /\ mon.out \in Seq(Markers)
           /\ trk \in [Panes -> Trackers] /\ reqs \in [ReqIds -> Requests]
           /\ inbox \in [Panes -> Seq(Texts)]
           /\ TrackerTypeOK /\ PaneTypeOK
BY DEF TypeOK, MonTypeOK, TrackerTypeOK, PaneTypeOK, Me, Mine

LEMMA BecomeType ==
    ASSUME TypeOK, mon.pc # "idle", NEW t \in Trackers, Become(t)
    PROVE  trk' \in [Panes -> Trackers]
BY HandlerTypes DEF Become

LEMMA cleanupType ==
    ASSUME TypeOK, NEW r, cleanupRequest(r)
    PROVE  reqs' \in [ReqIds -> Requests]
BY DroppedType DEF cleanupRequest, TypeOK

\* A handler that ends leaves the rest of the state typed.
LEMMA MonDoneType ==
    ASSUME TypeOK, MonDone,
           trk' \in [Panes -> Trackers], reqs' \in [ReqIds -> Requests],
           inbox' \in [Panes -> Seq(Texts)]
    PROVE  TypeOK'
<1>1. TrackerTypeOK'
  BY DEF TypeOK, TrackerTypeOK, MonDone
<1>2. MonTypeOK'
  BY CoordinatorAssumption DEF MonTypeOK, MonDone, MonIdle, States, MaybeReq
<1>3. HttpTypeOK' /\ AgentTypeOK' /\ ClaudeTypeOK' /\ PaneTypeOK'
  BY DEF TypeOK, HttpTypeOK, AgentTypeOK, ClaudeTypeOK, PaneTypeOK, MonDone,
         agentVars, claudeVars
<1> QED BY <1>1, <1>2, <1>3 DEF TypeOK

LEMMA ResetIfAgedType ==
    ASSUME TypeOK, mon.pc # "idle", ResetIfAged
    PROVE  /\ trk' \in [Panes -> Trackers] /\ reqs' \in [ReqIds -> Requests]
           /\ inbox' \in [Panes -> Seq(Texts)]
BY BecomeType, HandlerTypes, NewTrackerType DEF ResetIfAged, Reset

LEMMA InjectType ==
    ASSUME TypeOK, mon.pc # "idle", NEW k \in {"login", "one", "resume", "reminder"},
           NEW ok \in BOOLEAN, SendText(Me, Text(k), ok)
    PROVE  inbox' \in [Panes -> Seq(Texts)]
BY HandlerTypes, TextTypes, SendTextType

LEMMA TypeHandleIdle ==
    ASSUME TypeOK, HandleIdle
    PROVE  TypeOK'
<1> USE DEF HandleIdle, Handling
<1>1. CASE RateLimitDetected /\ InjectLogin
  <2> DEFINE limited == SetState(Mine, "RATE_LIMITED")
  <2>1. limited \in Trackers /\ SetCooldown(limited, "login") \in Trackers
    BY HandlerTypes, SetStateType, SetCooldownType DEF States, Cooldowns
  <2>2. trk' \in [Panes -> Trackers]
    BY <1>1, <2>1, BecomeType DEF InjectLogin
  <2>3. inbox' \in [Panes -> Seq(Texts)]
    BY <1>1, HandlerTypes, InjectType DEF InjectLogin
  <2> QED BY <1>1, <2>2, <2>3, HandlerTypes, MonDoneType
<1>2. CASE ~RateLimitDetected /\ ReminderDue /\ InjectReminder
  <2>1. PICK ok \in BOOLEAN :
          /\ SendText(Me, Text("reminder"), ok)
          /\ Become(IF ok THEN SetCooldown(Mine, "compaction") ELSE Mine)
        BY <1>2 DEF InjectReminder
  <2>2. SetCooldown(Mine, "compaction") \in Trackers
    BY HandlerTypes, SetCooldownType DEF Cooldowns
  <2>3. trk' \in [Panes -> Trackers]
    BY <2>1, <2>2, BecomeType, HandlerTypes
  <2>4. inbox' \in [Panes -> Seq(Texts)]
    BY <2>1, HandlerTypes, InjectType
  <2> QED BY <2>3, <2>4, HandlerTypes, MonDoneType
<1>3. CASE ~RateLimitDetected /\ ~ReminderDue /\ UNCHANGED <<trk, inbox>>
  BY <1>3, HandlerTypes, MonDoneType
<1> QED BY <1>1, <1>2, <1>3

LEMMA TakeUrlType ==
    ASSUME TypeOK, mon.pc # "idle", TakeUrl
    PROVE  trk' \in [Panes -> Trackers]
<1> DEFINE t == SetState(Mine, "AWAITING_URL")
           u == ExtractOAuthURL(mon.out)
<1>1. t \in Trackers /\ u \in Urls
  BY HandlerTypes, SetStateType, ExtractType DEF States
<1>2. [t EXCEPT !.url = u] \in Trackers
  BY <1>1 DEF Trackers
<1> QED BY <1>2, BecomeType DEF TakeUrl

LEMMA TypeHandleRateLimited ==
    ASSUME TypeOK, HandleRateLimited
    PROVE  TypeOK'
<1> USE DEF HandleRateLimited, Handling
<1>1. CASE InjectMethodSelect /\ UNCHANGED reqs
  <2> DEFINE selecting == SetState(Mine, "AWAITING_METHOD_SELECT")
  <2>1. selecting \in Trackers /\ SetCooldown(selecting, "method_select") \in Trackers
    BY HandlerTypes, SetStateType, SetCooldownType DEF States, Cooldowns
  <2>2. trk' \in [Panes -> Trackers]
    BY <1>1, <2>1, BecomeType DEF InjectMethodSelect
  <2>3. inbox' \in [Panes -> Seq(Texts)]
    BY <1>1, HandlerTypes, InjectType DEF InjectMethodSelect
  <2> QED BY <1>1, <2>2, <2>3, HandlerTypes, MonDoneType
<1>2. CASE TakeUrl /\ UNCHANGED <<reqs, inbox>>
  BY <1>2, TakeUrlType, HandlerTypes, MonDoneType
<1>3. CASE ResetIfAged
  BY <1>3, ResetIfAgedType, MonDoneType
<1> QED BY <1>1, <1>2, <1>3

LEMMA TypeHandleAwaitingMethodSelect ==
    ASSUME TypeOK, HandleAwaitingMethodSelect
    PROVE  TypeOK'
<1> USE DEF HandleAwaitingMethodSelect, Handling
<1>1. CASE TakeUrl /\ UNCHANGED <<reqs, inbox>>
  BY <1>1, TakeUrlType, HandlerTypes, MonDoneType
<1>2. CASE ResetIfAged
  BY <1>2, ResetIfAgedType, MonDoneType
<1> QED BY <1>1, <1>2

LEMMA TypeHandleAwaitingURL ==
    ASSUME TypeOK, NEW r \in ReqIds, HandleAwaitingURL(r)
    PROVE  TypeOK'
<1> USE DEF HandleAwaitingURL, Handling
<1>1. CASE LoginUrl # 0 /\ Mine.rid = None
  <2>1. LoginUrl \in Urls
    BY HandlerTypes, ExtractType DEF LoginUrl, Trackers
  <2>2. [Mine EXCEPT !.url = LoginUrl] \in Trackers
    BY <2>1, HandlerTypes DEF Trackers
  <2>3. trk' \in [Panes -> Trackers]
    BY <1>1, <2>2, BecomeType
  <2>4. reqs' \in [ReqIds -> Requests]
    <3> DEFINE new == [status |-> "pending", pane |-> Me, url |-> LoginUrl]
    <3>1. new \in Requests
      BY <2>1, HandlerTypes DEF Requests
    <3>2. reqs' = [reqs EXCEPT ![r] = new]
      BY <1>1
    <3> QED BY <3>1, <3>2, HandlerTypes
  <2>5. TrackerTypeOK'
    BY <2>3, <2>4 DEF TypeOK, TrackerTypeOK
  <2>6. MonTypeOK'
    BY <1>1 DEF TypeOK, MonTypeOK, MaybeReq
  <2>7. HttpTypeOK' /\ AgentTypeOK' /\ ClaudeTypeOK' /\ PaneTypeOK'
    BY <1>1 DEF TypeOK, HttpTypeOK, AgentTypeOK, ClaudeTypeOK, PaneTypeOK,
                agentVars, claudeVars
  <2> QED BY <2>5, <2>6, <2>7 DEF TypeOK
<1>2. CASE ~(LoginUrl # 0 /\ Mine.rid = None)
  <2>1. ResetIfAged /\ MonDone
    BY <1>2 DEF MonDone
  <2> QED BY <2>1, ResetIfAgedType, MonDoneType
<1> QED BY <1>1, <1>2

LEMMA TypeBindRequest ==
    ASSUME TypeOK, BindRequest
    PROVE  TypeOK'
<1> DEFINE t == SetState(Mine, "AUTH_PENDING")
<1>1. mon.pc # "idle" /\ mon.rid \in ReqIds
  BY DEF BindRequest, TypeOK, MonTypeOK
<1>2. t \in Trackers
  BY <1>1, HandlerTypes, SetStateType DEF States
<1>3. [t EXCEPT !.rid = mon.rid] \in Trackers
  BY <1>1, <1>2 DEF Trackers, MaybeReq
<1>4. trk' \in [Panes -> Trackers]
  BY <1>1, <1>3, BecomeType DEF BindRequest
<1> QED BY <1>1, <1>4, HandlerTypes, MonDoneType DEF BindRequest

LEMMA TypeHandleAuthPending ==
    ASSUME TypeOK, HandleAuthPending
    PROVE  TypeOK'
<1>1. mon.pc # "idle"
  BY DEF HandleAuthPending, Handling
<1>2. /\ SetState(Mine, "CODE_RECEIVED") \in Trackers
      /\ SetState(Mine, "FAILED") \in Trackers
  BY <1>1, HandlerTypes, SetStateType DEF States
<1>3. trk' \in [Panes -> Trackers]
  <2>1. \/ Become(SetState(Mine, "CODE_RECEIVED"))
        \/ Become(SetState(Mine, "FAILED"))
        \/ UNCHANGED trk
    BY DEF HandleAuthPending
  <2> QED BY <1>1, <1>2, <2>1, BecomeType, HandlerTypes
<1>4. reqs' \in [ReqIds -> Requests]
  BY <1>1, cleanupType, HandlerTypes DEF HandleAuthPending
<1> QED BY <1>1, <1>3, <1>4, HandlerTypes, MonDoneType DEF HandleAuthPending

LEMMA TypeHandleCodeReceived ==
    ASSUME TypeOK, HandleCodeReceived
    PROVE  TypeOK'
<1>1. mon.pc # "idle" /\ MonDone /\ UNCHANGED reqs
  BY DEF HandleCodeReceived, Handling
<1>2. /\ SetState(Mine, "AWAITING_CONFIRM") \in Trackers
      /\ SetState(Mine, "FAILED") \in Trackers
  BY <1>1, HandlerTypes, SetStateType DEF States
<1>3. CASE Mine.code = None
  <2>1. Become(SetState(Mine, "FAILED")) /\ UNCHANGED inbox
    BY <1>3 DEF HandleCodeReceived
  <2> QED BY <1>1, <1>2, <2>1, BecomeType, HandlerTypes, MonDoneType
<1>4. CASE Mine.code # None
  <2>1. PICK ok \in BOOLEAN :
          /\ SendText(Me, CodeText(Mine.code), ok)
          /\ Become(SetState(Mine, IF ok THEN "AWAITING_CONFIRM" ELSE "FAILED"))
    BY <1>4 DEF HandleCodeReceived
  <2>2. Mine.code \in ReqIds
    BY <1>1, <1>4, HandlerTypes DEF Trackers, MaybeReq
  <2>3. inbox' \in [Panes -> Seq(Texts)]
    BY <1>1, <2>1, <2>2, HandlerTypes, TextTypes, SendTextType
  <2>4. trk' \in [Panes -> Trackers]
    BY <1>1, <1>2, <2>1, BecomeType
  <2> QED BY <1>1, <2>3, <2>4, HandlerTypes, MonDoneType
<1> QED BY <1>3, <1>4

LEMMA TypeHandleAwaitingConfirm ==
    ASSUME TypeOK, HandleAwaitingConfirm
    PROVE  TypeOK'
<1>1. mon.pc # "idle"
  BY DEF HandleAwaitingConfirm, Handling
<1>2. /\ SetState(Mine, DetectState(mon.out)) \in Trackers
      /\ SetState(Mine, "FAILED") \in Trackers
  <2>1. DetectState(mon.out) \in States /\ "FAILED" \in States
    BY DetectStateType DEF States
  <2> QED BY <1>1, <2>1, HandlerTypes, SetStateType
<1>3. trk' \in [Panes -> Trackers]
  <2>1. \/ Become(SetState(Mine, DetectState(mon.out)))
        \/ Become(SetState(Mine, "FAILED"))
        \/ UNCHANGED trk
    BY DEF HandleAwaitingConfirm
  <2> QED BY <1>1, <1>2, <2>1, BecomeType, HandlerTypes
<1>4. reqs' \in [ReqIds -> Requests]
  BY <1>1, cleanupType, HandlerTypes DEF HandleAwaitingConfirm
<1> QED BY <1>1, <1>3, <1>4, HandlerTypes, MonDoneType DEF HandleAwaitingConfirm

LEMMA TypeHandleResuming ==
    ASSUME TypeOK, HandleResuming
    PROVE  TypeOK'
<1>1. mon.pc # "idle" /\ MonDone  BY DEF HandleResuming, Handling
<1>2. CASE UNCHANGED <<trk, reqs, inbox>>
  BY <1>1, <1>2, HandlerTypes, MonDoneType
<1>3. CASE SendText(Me, Text("resume"), FALSE) /\ UNCHANGED <<trk, reqs>>
  BY <1>1, <1>3, HandlerTypes, InjectType, MonDoneType
<1>4. CASE /\ SendText(Me, Text("resume"), TRUE)
           /\ cleanupRequest(Mine.rid)
           /\ Become(Reset(SetCooldown(Mine, "resume")))
  <2>1. trk' \in [Panes -> Trackers]
    BY <1>1, <1>4, NewTrackerType, BecomeType DEF Reset
  <2>2. reqs' \in [ReqIds -> Requests]
    BY <1>4, cleanupType
  <2>3. inbox' \in [Panes -> Seq(Texts)]
    BY <1>1, <1>4, InjectType
  <2> QED BY <1>1, <2>1, <2>2, <2>3, HandlerTypes, MonDoneType
<1> QED BY <1>2, <1>3, <1>4 DEF HandleResuming

LEMMA TypeHandleFailed ==
    ASSUME TypeOK, HandleFailed
    PROVE  TypeOK'
<1>1. mon.pc # "idle"
  BY DEF HandleFailed, Handling
<1>2. trk' \in [Panes -> Trackers]
  BY <1>1, NewTrackerType, BecomeType, HandlerTypes DEF HandleFailed, Reset
<1>3. reqs' \in [ReqIds -> Requests]
  BY <1>1, cleanupType, HandlerTypes DEF HandleFailed
<1> QED BY <1>1, <1>2, <1>3, HandlerTypes, MonDoneType DEF HandleFailed

LEMMA TypeMonitor ==
    ASSUME TypeOK, MonitorStep
    PROVE  TypeOK'
BY TypeHandleIdle, TypeHandleRateLimited, TypeHandleAwaitingMethodSelect,
   TypeHandleAwaitingURL, TypeBindRequest, TypeHandleAuthPending,
   TypeHandleCodeReceived, TypeHandleAwaitingConfirm, TypeHandleResuming,
   TypeHandleFailed DEF MonitorStep

LEMMA TypePoll ==
    ASSUME TypeOK, NEW p \in Panes, Poll(p) \/ RemoveTracker(p)
    PROVE  TypeOK'
<1>1. CASE Poll(p)
  <2>1. trk[p].st \in States /\ screen[p] \in Seq(Markers)
    BY DEF TypeOK, TrackerTypeOK, ClaudeTypeOK, Trackers
  <2>2. MonTypeOK'
    BY <1>1, <2>1 DEF Poll, TypeOK, MonTypeOK
  <2> QED BY <1>1, <2>2
          DEF Poll, TypeOK, TrackerTypeOK, HttpTypeOK, AgentTypeOK, ClaudeTypeOK,
              PaneTypeOK, agentVars, claudeVars
<1>2. CASE RemoveTracker(p)
  BY <1>2, NewTrackerType
     DEF RemoveTracker, TypeOK, TrackerTypeOK, MonTypeOK, HttpTypeOK, AgentTypeOK,
         ClaudeTypeOK, PaneTypeOK, agentVars, claudeVars
<1> QED BY <1>1, <1>2

LEMMA TypeHttp ==
    ASSUME TypeOK, NEW h \in Handlers, HttpStep(h)
    PROVE  TypeOK'
<1> USE DEF HttpUnchanged, claudeVars
<1>0. HttpUnchanged => MonTypeOK' /\ ClaudeTypeOK' /\ PaneTypeOK'
  BY DEF TypeOK, MonTypeOK, ClaudeTypeOK, PaneTypeOK
<1>1. ASSUME NEW m \in posts, HttpLookup(h, m)
      PROVE  TypeOK'
  <2>1. m.rid \in ReqIds /\ m.ok \in BOOLEAN
    BY DEF TypeOK, AgentTypeOK
  <2>2. TrackerTypeOK'
    BY <1>1, <2>1 DEF HttpLookup, TypeOK, TrackerTypeOK, Requests
  <2>3. HttpTypeOK'
    BY <1>1, <2>1 DEF HttpLookup, TypeOK, HttpTypeOK, MaybeReq
  <2>4. AgentTypeOK'
    BY <1>1 DEF HttpLookup, TypeOK, AgentTypeOK
  <2> QED BY <1>0, <1>1, <2>2, <2>3, <2>4 DEF HttpLookup, TypeOK
<1>2. CASE HttpFind(h)
  <2>1. ASSUME http' = [http EXCEPT ![h] = HttpIdle]
        PROVE  HttpTypeOK'
    BY <2>1 DEF TypeOK, HttpTypeOK, HttpIdle, MaybeReq
  <2>2. ASSUME NEW p \in Holders(http[h].rid), http' = [http EXCEPT ![h] = Found(h, p)]
        PROVE  HttpTypeOK'
    <3>1. p \in Panes /\ http[h].rid \in ReqIds
      BY <1>2 DEF HttpFind, Holders, TypeOK, TrackerTypeOK, HttpTypeOK
    <3>2. /\ Found(h, p).pc \in {"store", "fail"} /\ Found(h, p).pane = p
          /\ Found(h, p) \in [pc : {"idle", "find", "store", "fail", "drop"},
                              rid : ReqIds, ok : BOOLEAN, pane : Panes]
      BY <3>1 DEF Found, TypeOK, HttpTypeOK
    <3> QED BY <2>2, <3>2 DEF TypeOK, HttpTypeOK, MaybeReq
  <2>3. HttpTypeOK'
    BY <1>2, <2>1, <2>2 DEF HttpFind
  <2> QED BY <1>0, <1>2, <2>3 DEF HttpFind, TypeOK, TrackerTypeOK, AgentTypeOK
<1>3. CASE HttpStore(h)
  <2>1. http[h].rid \in ReqIds
    BY <1>3 DEF HttpStore, TypeOK, HttpTypeOK
  <2>2. TrackerTypeOK'
    BY <1>3, <2>1 DEF HttpStore, TypeOK, TrackerTypeOK, Trackers, MaybeReq
  <2>3. HttpTypeOK'
    BY <1>3 DEF HttpStore, TypeOK, HttpTypeOK, HttpIdle, MaybeReq
  <2> QED BY <1>0, <1>3, <2>2, <2>3 DEF HttpStore, TypeOK, AgentTypeOK
<1>4. CASE HttpFail(h)
  <2>1. \A p \in Panes : SetState(trk[p], "FAILED") \in Trackers
    <3>1. "FAILED" \in States
      BY DEF States
    <3> QED BY <3>1, SetStateType DEF TypeOK, TrackerTypeOK
  <2>2. TrackerTypeOK'
    BY <1>4, <2>1 DEF HttpFail, TypeOK, TrackerTypeOK
  <2>3. HttpTypeOK'
    BY <1>4 DEF HttpFail, TypeOK, HttpTypeOK
  <2> QED BY <1>0, <1>4, <2>2, <2>3 DEF HttpFail, TypeOK, AgentTypeOK
<1>5. CASE HttpDrop(h)
  <2>1. TrackerTypeOK'
    BY <1>5, cleanupType DEF HttpDrop, TypeOK, TrackerTypeOK
  <2>2. HttpTypeOK'
    BY <1>5 DEF HttpDrop, TypeOK, HttpTypeOK, HttpIdle, MaybeReq
  <2> QED BY <1>0, <1>5, <2>1, <2>2 DEF HttpDrop, TypeOK, AgentTypeOK
<1> QED BY <1>1, <1>2, <1>3, <1>4, <1>5 DEF HttpStep

LEMMA TypeAgent ==
    ASSUME TypeOK, AgentStep \/ (\E m \in posts : LoseAnswer(m))
    PROVE  TypeOK'
<1> USE DEF AgentUnchanged, coordVars, claudeVars
<1>0. AgentUnchanged => /\ TrackerTypeOK' /\ MonTypeOK' /\ HttpTypeOK'
                        /\ ClaudeTypeOK' /\ PaneTypeOK'
  BY DEF TypeOK, TrackerTypeOK, MonTypeOK, HttpTypeOK, ClaudeTypeOK, PaneTypeOK
<1>1. CASE checkPendingRequests
  BY <1>0, <1>1 DEF checkPendingRequests, TypeOK, AgentTypeOK
<1>2. ASSUME NEW r \in todo, NEW ok \in BOOLEAN, processAuthRequest(r, ok)
      PROVE  TypeOK'
  <2>1. r \in ReqIds /\ sent[r] \in 0..MaxPosts
    BY DEF TypeOK, AgentTypeOK
  <2>2. AgentTypeOK'
    BY <1>2, <2>1, CoordinatorAssumption DEF processAuthRequest, TypeOK, AgentTypeOK
  <2> QED BY <1>0, <1>2, <2>2 DEF processAuthRequest, TypeOK
<1>3. ASSUME NEW m \in posts, LoseAnswer(m)
      PROVE  TypeOK'
  BY <1>0, <1>3 DEF LoseAnswer, TypeOK, AgentTypeOK
<1> QED BY <1>1, <1>2, <1>3 DEF AgentStep

LEMMA DisplayType ==
    ASSUME TypeOK, NEW p \in Panes, NEW ms \in Seq(Markers), Display(p, ms)
    PROVE  /\ screen' \in [Panes -> Seq(Markers)]
           /\ dirty' \in [Panes -> BOOLEAN]
<1>1. screen[p] \o ms \in Seq(Markers)
  BY DEF TypeOK, ClaudeTypeOK
<1>2. LastOf(screen[p] \o ms) \in Seq(Markers)
  BY <1>1, LastOfType
<1> QED BY <1>2 DEF Display, TypeOK, ClaudeTypeOK, PaneTypeOK

LEMMA MarkerType ==
    /\ \A k \in {"ok", "fail", "method", "limit", "banner", "reminder", "paste"} :
          <<Marker(k, 0)>> \in Seq(Markers)
    /\ \A u \in Urls : <<Marker("url", u), Marker("paste", 0)>> \in Seq(Markers)
    /\ <<>> \in Seq(Markers)
<1>1. \A k \in {"ok", "fail", "method", "limit", "banner", "reminder", "paste"} :
          Marker(k, 0) \in Markers
  BY CoordinatorAssumption DEF Marker, Markers, Urls
<1>2. \A u \in Urls : Marker("url", u) \in Markers
  BY DEF Marker, Markers
<1> QED BY <1>1, <1>2

\* What a step of a pane must establish.
LEMMA PaneStepType ==
    ASSUME TypeOK, PaneUnchanged,
           screen' \in [Panes -> Seq(Markers)], dirty' \in [Panes -> BOOLEAN],
           inbox' \in [Panes -> Seq(Texts)],
           mode' \in [Panes -> {"busy", "limited", "menu", "prompt"}],
           logins' \in [Panes -> Urls], accepted' \subseteq ReqIds,
           \A p \in Panes : mode'[p] = "menu" => logins'[p] < MaxLogins
    PROVE  TypeOK'
BY DEF PaneUnchanged, coordVars, agentVars, TypeOK, TrackerTypeOK, MonTypeOK,
       HttpTypeOK, AgentTypeOK, ClaudeTypeOK, PaneTypeOK

LEMMA ShowPromptType ==
    ASSUME TypeOK, NEW p \in Panes, logins[p] < MaxLogins, ShowPrompt(p)
    PROVE  /\ screen' \in [Panes -> Seq(Markers)] /\ dirty' \in [Panes -> BOOLEAN]
           /\ mode' \in [Panes -> {"busy", "limited", "menu", "prompt"}]
           /\ logins' \in [Panes -> Urls]
           /\ \A q \in Panes : mode'[q] = "menu" => logins'[q] < MaxLogins
<1>1. logins[p] + 1 \in Urls
  BY CoordinatorAssumption DEF TypeOK, ClaudeTypeOK, Urls
<1>2. <<Marker("url", logins[p] + 1), Marker("paste", 0)>> \in Seq(Markers)
  BY <1>1, MarkerType
<1>3. screen' \in [Panes -> Seq(Markers)] /\ dirty' \in [Panes -> BOOLEAN]
  BY <1>2, DisplayType DEF ShowPrompt
<1> QED BY <1>1, <1>3 DEF ShowPrompt, TypeOK, ClaudeTypeOK

LEMMA TypeRead ==
    ASSUME TypeOK, NEW p \in Panes, Read(p)
    PROVE  TypeOK'
<1> DEFINE x == Head(inbox[p])
<1>0. /\ inbox[p] \in Seq(Texts) /\ inbox[p] # <<>>
      /\ mode \in [Panes -> {"busy", "limited", "menu", "prompt"}]
      /\ logins \in [Panes -> Urls] /\ accepted \subseteq ReqIds
      /\ \A q \in Panes : mode[q] = "menu" => logins[q] < MaxLogins
  BY DEF Read, TypeOK, ClaudeTypeOK, PaneTypeOK
<1>1. x \in Texts
  BY <1>0
<1>2. inbox' \in [Panes -> Seq(Texts)] /\ PaneUnchanged
  BY <1>0 DEF Read, TypeOK, PaneTypeOK
<1> HIDE DEF x
<1>3. ReadText(p, x)
  BY DEF Read, x
<1>4. CASE ShowPrompt(p) /\ logins[p] < MaxLogins /\ UNCHANGED accepted
  BY <1>0, <1>2, <1>4, ShowPromptType, PaneStepType
<1>5. CASE ShowMenu(p) /\ logins[p] < MaxLogins /\ UNCHANGED accepted
  <2>1. screen' \in [Panes -> Seq(Markers)] /\ dirty' \in [Panes -> BOOLEAN]
    BY <1>5, MarkerType, DisplayType DEF ShowMenu
  <2> QED BY <1>0, <1>2, <1>5, <2>1, PaneStepType DEF ShowMenu
<1>6. CASE /\ Accepts(p, x)
           /\ mode' = [mode EXCEPT ![p] = "busy"]
           /\ Display(p, <<Marker("ok", 0)>>)
           /\ accepted' = accepted \cup {x.req}
           /\ UNCHANGED logins
  <2>1. screen' \in [Panes -> Seq(Markers)] /\ dirty' \in [Panes -> BOOLEAN]
    BY <1>6, MarkerType, DisplayType
  <2>2. x.req \in ReqIds
    BY <1>1, <1>6 DEF Accepts, Texts
  <2> QED BY <1>0, <1>2, <1>6, <2>1, <2>2, PaneStepType
<1>7. CASE /\ mode' = [mode EXCEPT ![p] = "limited"]
           /\ Display(p, <<Marker("fail", 0)>>)
           /\ UNCHANGED <<logins, accepted>>
  <2>1. screen' \in [Panes -> Seq(Markers)] /\ dirty' \in [Panes -> BOOLEAN]
    BY <1>7, MarkerType, DisplayType
  <2> QED BY <1>0, <1>2, <1>7, <2>1, PaneStepType
<1>8. CASE /\ \E ms \in {<<Marker("limit", 0)>>, <<Marker("reminder", 0)>>, <<>>} :
                 Display(p, ms)
           /\ UNCHANGED <<mode, logins, accepted>>
  <2>1. screen' \in [Panes -> Seq(Markers)] /\ dirty' \in [Panes -> BOOLEAN]
    BY <1>8, MarkerType, DisplayType
  <2> QED BY <1>0, <1>2, <1>8, <2>1, PaneStepType
<1> QED BY <1>0, <1>3, <1>4, <1>5, <1>6, <1>7, <1>8 DEF ReadText

LEMMA TypePane ==
    ASSUME TypeOK, NEW p \in Panes, PaneStep(p)
    PROVE  TypeOK'
<1>0. /\ mode \in [Panes -> {"busy", "limited", "menu", "prompt"}]
      /\ logins \in [Panes -> Urls] /\ accepted \subseteq ReqIds
      /\ inbox \in [Panes -> Seq(Texts)]
      /\ \A q \in Panes : mode[q] = "menu" => logins[q] < MaxLogins
  BY DEF TypeOK, ClaudeTypeOK, PaneTypeOK
<1>1. CASE Read(p)
  BY <1>1, TypeRead
<1>2. CASE HitLimit(p)
  <2>1. screen' \in [Panes -> Seq(Markers)] /\ dirty' \in [Panes -> BOOLEAN]
    BY <1>2, MarkerType, DisplayType DEF HitLimit
  <2> QED BY <1>0, <1>2, <2>1, PaneStepType DEF HitLimit
<1>3. CASE Scroll(p)
  <2>1. screen' \in [Panes -> Seq(Markers)] /\ dirty' \in [Panes -> BOOLEAN]
    BY <1>3 DEF Scroll, TypeOK, ClaudeTypeOK, PaneTypeOK
  <2> QED BY <1>0, <1>3, <2>1, PaneStepType DEF Scroll
<1>4. CASE Compact(p)
  <2>1. screen' \in [Panes -> Seq(Markers)] /\ dirty' \in [Panes -> BOOLEAN]
    BY <1>4, MarkerType, DisplayType DEF Compact
  <2> QED BY <1>0, <1>4, <2>1, PaneStepType DEF Compact
<1>5. CASE Close(p)
  BY <1>5 DEF Close, coordVars, agentVars, claudeVars, TypeOK, TrackerTypeOK,
     MonTypeOK, HttpTypeOK, AgentTypeOK, ClaudeTypeOK, PaneTypeOK
<1> QED BY <1>1, <1>2, <1>3, <1>4, <1>5 DEF PaneStep

LEMMA TypeClock ==
    ASSUME TypeOK, NEW p \in Panes,
           TimePasses(p) \/ (\E a \in Cooldowns : CooldownEnds(p, a))
    PROVE  TypeOK'
<1>1. trk[p] \in Trackers
  BY DEF TypeOK, TrackerTypeOK
<1>2. CASE TimePasses(p)
  <2>1. [trk[p] EXCEPT !.aged = TRUE] \in Trackers
    BY <1>1 DEF Trackers
  <2>2. TrackerTypeOK'
    BY <1>2, <2>1 DEF TimePasses, TypeOK, TrackerTypeOK
  <2> QED BY <1>2, <2>2
          DEF TimePasses, agentVars, claudeVars, TypeOK, MonTypeOK, HttpTypeOK,
              AgentTypeOK, ClaudeTypeOK, PaneTypeOK
<1>3. ASSUME NEW a \in Cooldowns, CooldownEnds(p, a)
      PROVE  TypeOK'
  <2>1. [trk[p] EXCEPT !.cool = @ \ {a}] \in Trackers
    BY <1>1 DEF Trackers
  <2>2. TrackerTypeOK'
    BY <1>3, <2>1 DEF CooldownEnds, TypeOK, TrackerTypeOK
  <2> QED BY <1>3, <2>2
          DEF CooldownEnds, agentVars, claudeVars, TypeOK, MonTypeOK, HttpTypeOK,
              AgentTypeOK, ClaudeTypeOK, PaneTypeOK
<1> QED BY <1>2, <1>3

LEMMA TypeRestart ==
    ASSUME TypeOK, Restart
    PROVE  TypeOK'
<1>1. TrackerTypeOK'
  BY NewTrackerType DEF Restart, TypeOK, TrackerTypeOK, InMap, Requests
<1>2. MonTypeOK' /\ HttpTypeOK'
  BY DEF Restart, MonTypeOK, HttpTypeOK, MonIdle, HttpIdle, States, MaybeReq
<1>3. AgentTypeOK' /\ ClaudeTypeOK'
  BY DEF Restart, TypeOK, AgentTypeOK, ClaudeTypeOK, agentVars, claudeVars
<1>4. PaneTypeOK'
  BY CoordinatorAssumption DEF Restart, TypeOK, PaneTypeOK
<1> QED BY <1>1, <1>2, <1>3, <1>4 DEF TypeOK

LEMMA TypeStutter ==
    ASSUME TypeOK, UNCHANGED vars
    PROVE  TypeOK'
BY DEF vars, TypeOK, TrackerTypeOK, MonTypeOK, HttpTypeOK, AgentTypeOK,
       ClaudeTypeOK, PaneTypeOK

\* Every variable keeps its type, through every interleaving of the monitor, the
\* HTTP handlers, the agent, the panes, timeouts and crashes.
THEOREM TypeCorrect == Spec => []TypeOK
<1>1. TypeOK /\ [Next]_vars => TypeOK'
  BY TypeMonitor, TypePoll, TypeHttp, TypeAgent, TypePane, TypeClock, TypeRestart,
     TypeStutter DEF Next
<1> QED BY TypeInit, <1>1, PTL DEF Spec

-----------------------------------------------------------------------------
(* Codes stay in their pane.  CodeStaysInPane is not inductive: a code     *)
(* reaches a tracker from an HTTP handler, which got the tracker from the  *)
(* request id that BindRequest wrote.  Ownership follows that path.        *)

Owner(r, p) == r \in ReqIds /\ reqs[r].status # "unused" /\ reqs[r].pane = p

TrackersOwn ==
    \A p \in Panes : /\ trk[p].rid # None => Owner(trk[p].rid, p)
                     /\ trk[p].code # None => Owner(trk[p].code, p)
MonOwns == mon.pc = "bind" => Owner(mon.rid, mon.pane)
HttpOwns ==
    \A h \in Handlers :
        http[h].pc \in {"store", "fail"} => Owner(http[h].rid, http[h].pane)
InboxOwns ==
    \A p \in Panes : \A i \in DOMAIN inbox[p] :
        inbox[p][i].kind = "code" => Owner(inbox[p][i].req, p)
Ownership == TrackersOwn /\ MonOwns /\ HttpOwns /\ InboxOwns

LEMMA OwnershipInit == Init => Ownership
BY DEF Init, Ownership, TrackersOwn, MonOwns, HttpOwns, InboxOwns, NewTracker,
       MonIdle, HttpIdle

\* Once created, a request keeps its pane, and never becomes fresh again.
Kept == \A r, p : Owner(r, p) => Owner(r, p)'

LEMMA KeptSame == ASSUME UNCHANGED reqs PROVE Kept
BY DEF Kept, Owner

LEMMA KeptCleanup == ASSUME TypeOK, NEW r, cleanupRequest(r) PROVE Kept
BY DroppedType DEF cleanupRequest, Kept, Owner, TypeOK

\* A step that keeps requests and leaves a part alone keeps that part owned.
LEMMA FrameOwns ==
    ASSUME Ownership, Kept
    PROVE  /\ UNCHANGED trk => TrackersOwn'
           /\ UNCHANGED mon => MonOwns'
           /\ UNCHANGED http => HttpOwns'
           /\ UNCHANGED inbox => InboxOwns'
BY DEF Ownership, Kept, TrackersOwn, MonOwns, HttpOwns, InboxOwns, Owner

LEMMA MonDoneOwns ==
    ASSUME Ownership, Kept, MonDone, TrackersOwn', InboxOwns'
    PROVE  Ownership'
<1>1. MonOwns'
  BY DEF MonDone, MonIdle, MonOwns
<1> QED BY <1>1, FrameOwns DEF MonDone, Ownership

\* A tracker that keeps its request and its code stays owned, a new one is.
LEMMA BecomeOwns ==
    ASSUME TypeOK, Ownership, Kept, mon.pc # "idle", NEW t \in Trackers, Become(t),
           t.rid = Mine.rid \/ t.rid = None,
           t.code = Mine.code \/ t.code = None
    PROVE  TrackersOwn'
<1> SUFFICES ASSUME NEW p \in Panes
             PROVE  /\ (trk[p].rid # None)' => Owner(trk[p].rid, p)'
                    /\ (trk[p].code # None)' => Owner(trk[p].code, p)'
  BY DEF TrackersOwn
<1>1. CASE p = Me
  <2>1. trk'[p] = t
    BY <1>1 DEF Become, TypeOK, TrackerTypeOK
  <2> QED BY <1>1, <2>1 DEF Kept, Owner, Ownership, TrackersOwn, Me, Mine
<1>2. CASE p # Me
  <2>1. trk'[p] = trk[p]
    BY <1>2 DEF Become, TypeOK, TrackerTypeOK
  <2> QED BY <2>1 DEF Kept, Owner, Ownership, TrackersOwn
<1> QED BY <1>1, <1>2

LEMMA SendTextOwns ==
    ASSUME TypeOK, Ownership, Kept, NEW p \in Panes, NEW x \in Texts,
           NEW ok \in BOOLEAN, SendText(p, x, ok),
           x.kind = "code" => Owner(x.req, p)
    PROVE  InboxOwns'
<1> SUFFICES ASSUME NEW q \in Panes, NEW i \in DOMAIN inbox'[q],
                    inbox'[q][i].kind = "code"
             PROVE  Owner(inbox[q][i].req, q)'
  BY DEF InboxOwns
<1>1. inbox \in [Panes -> Seq(Texts)]
  BY DEF TypeOK, PaneTypeOK
<1>2. CASE inbox'[q] = inbox[q]
  BY <1>2 DEF Kept, Owner, Ownership, InboxOwns
<1>3. CASE q = p /\ inbox'[q] = Append(inbox[q], x)
  <2>1. \/ i \in DOMAIN inbox[q] /\ inbox'[q][i] = inbox[q][i]
        \/ inbox'[q][i] = x
    BY <1>1, <1>3
  <2> QED BY <1>3, <2>1 DEF Kept, Owner, Ownership, InboxOwns
<1> QED BY <1>1, <1>2, <1>3 DEF SendText

LEMMA InjectOwns ==
    ASSUME TypeOK, Ownership, Kept, mon.pc # "idle",
           NEW k \in {"login", "one", "resume", "reminder"},
           NEW ok \in BOOLEAN, SendText(Me, Text(k), ok)
    PROVE  InboxOwns'
BY HandlerTypes, TextTypes, SendTextOwns

LEMMA ResetIfAgedOwns ==
    ASSUME TypeOK, Ownership, mon.pc # "idle", ResetIfAged
    PROVE  TrackersOwn' /\ InboxOwns' /\ Kept
<1>1. Kept
  BY KeptSame DEF ResetIfAged
<1>2. NewTracker.rid = None /\ NewTracker.code = None
  BY DEF NewTracker
<1>3. TrackersOwn'
  BY <1>1, <1>2, BecomeOwns, NewTrackerType, HandlerTypes DEF ResetIfAged, Reset
<1> QED BY <1>1, <1>3, FrameOwns DEF ResetIfAged

LEMMA OwnsHandleIdle ==
    ASSUME TypeOK, Ownership, HandleIdle
    PROVE  Ownership'
<1>1. mon.pc # "idle" /\ MonDone /\ Kept
  BY KeptSame DEF HandleIdle, Handling
<1>2. CASE InjectLogin
  <2> DEFINE limited == SetState(Mine, "RATE_LIMITED")
  <2>1. /\ limited \in Trackers /\ limited.rid = Mine.rid /\ limited.code = Mine.code
    BY <1>1, HandlerTypes, SetStateType DEF States
  <2>2. /\ SetCooldown(limited, "login") \in Trackers
        /\ SetCooldown(limited, "login").rid = Mine.rid
        /\ SetCooldown(limited, "login").code = Mine.code
    BY <2>1, SetCooldownType DEF Cooldowns
  <2>3. TrackersOwn'
    BY <1>1, <1>2, <2>1, <2>2, BecomeOwns DEF InjectLogin
  <2>4. InboxOwns'
    BY <1>1, <1>2, InjectOwns, FrameOwns DEF InjectLogin
  <2> QED BY <1>1, <2>3, <2>4, MonDoneOwns
<1>3. CASE InjectReminder
  <2>1. /\ SetCooldown(Mine, "compaction") \in Trackers
        /\ SetCooldown(Mine, "compaction").rid = Mine.rid
        /\ SetCooldown(Mine, "compaction").code = Mine.code
    BY <1>1, HandlerTypes, SetCooldownType DEF Cooldowns
  <2>2. TrackersOwn'
    BY <1>1, <1>3, <2>1, HandlerTypes, BecomeOwns DEF InjectReminder
  <2>3. InboxOwns'
    BY <1>1, <1>3, InjectOwns DEF InjectReminder
  <2> QED BY <1>1, <2>2, <2>3, MonDoneOwns
<1>4. CASE UNCHANGED <<trk, inbox>>
  BY <1>1, <1>4, FrameOwns, MonDoneOwns
<1> QED BY <1>2, <1>3, <1>4 DEF HandleIdle

LEMMA TakeUrlOwns ==
    ASSUME TypeOK, Ownership, Kept, mon.pc # "idle", TakeUrl
    PROVE  TrackersOwn'
<1> DEFINE t == SetState(Mine, "AWAITING_URL")
           u == [t EXCEPT !.url = ExtractOAuthURL(mon.out)]
<1>1. /\ t \in Trackers /\ t.rid = Mine.rid /\ t.code = Mine.code
      /\ ExtractOAuthURL(mon.out) \in Urls
  BY HandlerTypes, SetStateType, ExtractType DEF States
<1>2. u \in Trackers /\ u.rid = Mine.rid /\ u.code = Mine.code
  BY <1>1 DEF Trackers
<1> QED BY <1>2, BecomeOwns DEF TakeUrl

LEMMA OwnsHandleRateLimited ==
    ASSUME TypeOK, Ownership, HandleRateLimited
    PROVE  Ownership'
<1>1. mon.pc # "idle" /\ MonDone
  BY DEF HandleRateLimited, Handling
<1>2. CASE InjectMethodSelect /\ UNCHANGED reqs
  <2> DEFINE selecting == SetState(Mine, "AWAITING_METHOD_SELECT")
  <2>1. /\ Kept
        /\ selecting \in Trackers /\ selecting.rid = Mine.rid
        /\ selecting.code = Mine.code
    BY <1>1, <1>2, KeptSame, HandlerTypes, SetStateType DEF States
  <2>2. /\ SetCooldown(selecting, "method_select") \in Trackers
        /\ SetCooldown(selecting, "method_select").rid = Mine.rid
        /\ SetCooldown(selecting, "method_select").code = Mine.code
    BY <2>1, SetCooldownType DEF Cooldowns
  <2>3. TrackersOwn'
    BY <1>1, <1>2, <2>1, <2>2, BecomeOwns DEF InjectMethodSelect
  <2>4. InboxOwns'
    BY <1>1, <1>2, <2>1, InjectOwns, FrameOwns DEF InjectMethodSelect
  <2> QED BY <1>1, <2>1, <2>3, <2>4, MonDoneOwns
<1>3. CASE TakeUrl /\ UNCHANGED <<reqs, inbox>>
  BY <1>1, <1>3, KeptSame, TakeUrlOwns, FrameOwns, MonDoneOwns
<1>4. CASE ResetIfAged
  BY <1>1, <1>4, ResetIfAgedOwns, MonDoneOwns
<1> QED BY <1>2, <1>3, <1>4 DEF HandleRateLimited

LEMMA OwnsHandleAwaitingMethodSelect ==
    ASSUME TypeOK, Ownership, HandleAwaitingMethodSelect
    PROVE  Ownership'
<1>1. mon.pc # "idle" /\ MonDone
  BY DEF HandleAwaitingMethodSelect, Handling
<1>2. CASE TakeUrl /\ UNCHANGED <<reqs, inbox>>
  BY <1>1, <1>2, KeptSame, TakeUrlOwns, FrameOwns, MonDoneOwns
<1>3. CASE ResetIfAged
  BY <1>1, <1>3, ResetIfAgedOwns, MonDoneOwns
<1> QED BY <1>2, <1>3 DEF HandleAwaitingMethodSelect

LEMMA OwnsHandleAwaitingURL ==
    ASSUME TypeOK, Ownership, NEW r \in ReqIds, HandleAwaitingURL(r)
    PROVE  Ownership'
<1>1. mon.pc # "idle" /\ UNCHANGED http
  BY DEF HandleAwaitingURL, Handling
<1>2. CASE LoginUrl # 0 /\ Mine.rid = None
  <2> DEFINE new == [status |-> "pending", pane |-> Me, url |-> LoginUrl]
             t == [Mine EXCEPT !.url = LoginUrl]
  <2>1. /\ reqs[r].status = "unused" /\ reqs' = [reqs EXCEPT ![r] = new]
        /\ Become(t) /\ mon' = [mon EXCEPT !.pc = "bind", !.rid = r]
        /\ UNCHANGED inbox
    BY <1>2 DEF HandleAwaitingURL
  <2>2. Kept
    BY <2>1 DEF Kept, Owner, TypeOK, TrackerTypeOK
  <2>3. t \in Trackers /\ t.rid = Mine.rid /\ t.code = Mine.code
    BY <1>1, HandlerTypes, ExtractType DEF LoginUrl, Trackers
  <2>4. TrackersOwn'
    BY <1>1, <2>1, <2>2, <2>3, BecomeOwns
  <2>5. MonOwns'
    BY <2>1 DEF MonOwns, Owner, Me, TypeOK, TrackerTypeOK, MonTypeOK
  <2> QED BY <1>1, <2>1, <2>2, <2>4, <2>5, FrameOwns DEF Ownership
<1>3. CASE ~(LoginUrl # 0 /\ Mine.rid = None)
  <2>1. ResetIfAged /\ MonDone
    BY <1>3 DEF HandleAwaitingURL, MonDone
  <2> QED BY <1>1, <2>1, ResetIfAgedOwns, MonDoneOwns
<1> QED BY <1>2, <1>3

LEMMA OwnsBindRequest ==
    ASSUME TypeOK, Ownership, BindRequest
    PROVE  Ownership'
<1> DEFINE t == SetState(Mine, "AUTH_PENDING")
           u == [t EXCEPT !.rid = mon.rid]
<1>1. /\ mon.pc # "idle" /\ MonDone /\ Kept /\ UNCHANGED inbox /\ Become(u)
      /\ Owner(mon.rid, Me)
  BY KeptSame DEF BindRequest, Ownership, MonOwns, Me
<1>2. t \in Trackers /\ t.code = Mine.code
  BY <1>1, HandlerTypes, SetStateType DEF States
<1>3. u.rid = mon.rid /\ u.code = Mine.code
  BY <1>2 DEF Trackers
<1>4. TrackersOwn'
  <2> SUFFICES ASSUME NEW p \in Panes
               PROVE  /\ (trk[p].rid # None)' => Owner(trk[p].rid, p)'
                      /\ (trk[p].code # None)' => Owner(trk[p].code, p)'
    BY DEF TrackersOwn
  <2>1. trk'[p] = IF p = Me THEN u ELSE trk[p]
    BY <1>1 DEF Become, TypeOK, TrackerTypeOK
  <2> QED BY <1>1, <1>3, <2>1 DEF Kept, Owner, Ownership, TrackersOwn, Me, Mine
<1> QED BY <1>1, <1>4, FrameOwns, MonDoneOwns

\* The three handlers that may move the tracker on and drop its request.
LEMMA OwnsMoveOn ==
    ASSUME TypeOK, Ownership, mon.pc # "idle", MonDone, UNCHANGED inbox,
           NEW s \in States,
           UNCHANGED trk \/ Become(SetState(Mine, s)) \/ Become(Reset(Mine)),
           UNCHANGED reqs \/ cleanupRequest(Mine.rid)
    PROVE  Ownership'
<1>1. Kept
  BY KeptSame, KeptCleanup
<1>2. /\ SetState(Mine, s) \in Trackers
      /\ SetState(Mine, s).rid = Mine.rid /\ SetState(Mine, s).code = Mine.code
  BY HandlerTypes, SetStateType
<1>3. /\ Reset(Mine) \in Trackers
      /\ Reset(Mine).rid = None /\ Reset(Mine).code = None
  BY NewTrackerType DEF Reset, NewTracker
<1>4. TrackersOwn'
  BY <1>1, <1>2, <1>3, BecomeOwns, FrameOwns
<1> QED BY <1>1, <1>4, FrameOwns, MonDoneOwns

LEMMA OwnsHandleAuthPending ==
    ASSUME TypeOK, Ownership, HandleAuthPending
    PROVE  Ownership'
<1>1. "CODE_RECEIVED" \in States /\ "FAILED" \in States
  BY DEF States
<1> QED BY <1>1, OwnsMoveOn DEF HandleAuthPending, Handling

LEMMA OwnsHandleAwaitingConfirm ==
    ASSUME TypeOK, Ownership, HandleAwaitingConfirm
    PROVE  Ownership'
<1>1. "FAILED" \in States /\ DetectState(mon.out) \in States
  BY DetectStateType DEF States
<1> QED BY <1>1, OwnsMoveOn DEF HandleAwaitingConfirm, Handling

LEMMA OwnsHandleFailed ==
    ASSUME TypeOK, Ownership, HandleFailed
    PROVE  Ownership'
<1>1. "FAILED" \in States
  BY DEF States
<1> QED BY <1>1, OwnsMoveOn DEF HandleFailed, Handling

LEMMA OwnsHandleCodeReceived ==
    ASSUME TypeOK, Ownership, HandleCodeReceived
    PROVE  Ownership'
<1>1. mon.pc # "idle" /\ MonDone /\ Kept /\ UNCHANGED reqs
  BY KeptSame DEF HandleCodeReceived, Handling
<1>2. "FAILED" \in States /\ "AWAITING_CONFIRM" \in States
  BY DEF States
<1>3. CASE Mine.code = None
  BY <1>1, <1>2, <1>3, OwnsMoveOn DEF HandleCodeReceived
<1>4. CASE Mine.code # None
  <2>1. PICK ok \in BOOLEAN :
          /\ SendText(Me, CodeText(Mine.code), ok)
          /\ Become(SetState(Mine, IF ok THEN "AWAITING_CONFIRM" ELSE "FAILED"))
    BY <1>4 DEF HandleCodeReceived
  <2>2. /\ Mine.code \in ReqIds /\ Owner(Mine.code, Me)
    BY <1>1, <1>4, HandlerTypes DEF Trackers, MaybeReq, Ownership, TrackersOwn, Mine, Me
  <2>3. InboxOwns'
    BY <1>1, <2>1, <2>2, HandlerTypes, TextTypes, SendTextOwns
  <2>4. TrackersOwn'
    <3> DEFINE s == IF ok THEN "AWAITING_CONFIRM" ELSE "FAILED"
    <3>1. /\ SetState(Mine, s) \in Trackers
          /\ SetState(Mine, s).rid = Mine.rid /\ SetState(Mine, s).code = Mine.code
      BY <1>1, <1>2, HandlerTypes, SetStateType
    <3> QED BY <1>1, <2>1, <3>1, BecomeOwns
  <2> QED BY <1>1, <2>3, <2>4, MonDoneOwns
<1> QED BY <1>3, <1>4

LEMMA OwnsHandleResuming ==
    ASSUME TypeOK, Ownership, HandleResuming
    PROVE  Ownership'
<1>1. mon.pc # "idle" /\ MonDone
  BY DEF HandleResuming, Handling
<1>2. CASE UNCHANGED <<trk, reqs, inbox>>
  BY <1>1, <1>2, KeptSame, FrameOwns, MonDoneOwns
<1>3. CASE SendText(Me, Text("resume"), FALSE) /\ UNCHANGED <<trk, reqs>>
  BY <1>1, <1>3, KeptSame, FrameOwns, InjectOwns, MonDoneOwns
<1>4. CASE /\ SendText(Me, Text("resume"), TRUE)
           /\ cleanupRequest(Mine.rid)
           /\ Become(Reset(SetCooldown(Mine, "resume")))
  <2>1. Kept
    BY <1>4, KeptCleanup
  <2>2. NewTracker.rid = None /\ NewTracker.code = None
    BY DEF NewTracker
  <2>3. TrackersOwn'
    BY <1>1, <1>4, <2>1, <2>2, NewTrackerType, BecomeOwns DEF Reset
  <2>4. InboxOwns'
    BY <1>1, <1>4, <2>1, InjectOwns
  <2> QED BY <1>1, <2>1, <2>3, <2>4, MonDoneOwns
<1> QED BY <1>2, <1>3, <1>4 DEF HandleResuming

LEMMA OwnsMonitor ==
    ASSUME TypeOK, Ownership, MonitorStep
    PROVE  Ownership'
BY OwnsHandleIdle, OwnsHandleRateLimited, OwnsHandleAwaitingMethodSelect,
   OwnsHandleAwaitingURL, OwnsBindRequest, OwnsHandleAuthPending,
   OwnsHandleCodeReceived, OwnsHandleAwaitingConfirm, OwnsHandleResuming,
   OwnsHandleFailed DEF MonitorStep

LEMMA OwnsPoll ==
    ASSUME TypeOK, Ownership, NEW p \in Panes, Poll(p) \/ RemoveTracker(p)
    PROVE  Ownership'
<1>1. Kept /\ UNCHANGED <<http, inbox>>
  BY KeptSame DEF Poll, RemoveTracker
<1>2. CASE Poll(p)
  <2>1. MonOwns'
    BY <1>2 DEF Poll, MonOwns, TypeOK, MonTypeOK
  <2> QED BY <1>1, <1>2, <2>1, FrameOwns DEF Poll, Ownership
<1>3. CASE RemoveTracker(p)
  <2>1. TrackersOwn'
    BY <1>1, <1>3 DEF RemoveTracker, NewTracker, Kept, Owner, Ownership, TrackersOwn,
                      TypeOK, TrackerTypeOK
  <2> QED BY <1>1, <1>3, <2>1, FrameOwns DEF RemoveTracker, Ownership
<1> QED BY <1>2, <1>3

LEMMA OwnsHttp ==
    ASSUME TypeOK, Ownership, NEW h \in Handlers, HttpStep(h)
    PROVE  Ownership'
<1>1. UNCHANGED <<mon, inbox>>
  BY DEF HttpStep, HttpLookup, HttpFind, HttpStore, HttpFail, HttpDrop, HttpUnchanged
<1>2. ASSUME NEW m \in posts, HttpLookup(h, m)
      PROVE  Ownership'
  <2>1. Kept
    BY <1>2 DEF HttpLookup, Kept, Owner, InMap, TypeOK, TrackerTypeOK, AgentTypeOK, Requests
  <2>2. HttpOwns'
    BY <1>2, <2>1 DEF HttpLookup, Kept, Owner, Ownership, HttpOwns, TypeOK, HttpTypeOK
  <2> QED BY <1>1, <1>2, <2>1, <2>2, FrameOwns DEF HttpLookup, Ownership
<1>3. CASE HttpFind(h)
  <2>1. Kept /\ UNCHANGED trk
    BY <1>3, KeptSame DEF HttpFind
  <2>2. ASSUME http' = [http EXCEPT ![h] = HttpIdle]
        PROVE  HttpOwns'
    BY <2>1, <2>2 DEF HttpIdle, Kept, Owner, Ownership, HttpOwns, TypeOK, HttpTypeOK
  <2>3. ASSUME NEW p \in Holders(http[h].rid), http' = [http EXCEPT ![h] = Found(h, p)]
        PROVE  HttpOwns'
    <3>1. http[h].rid \in ReqIds /\ p \in Panes /\ trk[p].rid = http[h].rid
      BY <1>3 DEF HttpFind, Holders, TypeOK, TrackerTypeOK, HttpTypeOK
    <3>2. Owner(http[h].rid, p)
      BY <3>1, CoordinatorAssumption DEF Ownership, TrackersOwn
    <3>3. Found(h, p).rid = http[h].rid /\ Found(h, p).pane = p
      BY DEF Found, TypeOK, HttpTypeOK
    <3> QED BY <2>1, <2>3, <3>2, <3>3
            DEF Kept, Owner, Ownership, HttpOwns, TypeOK, HttpTypeOK
  <2>4. HttpOwns'
    BY <1>3, <2>2, <2>3 DEF HttpFind
  <2> QED BY <1>1, <2>1, <2>4, FrameOwns DEF Ownership
<1>4. CASE HttpStore(h)
  <2>1. Kept /\ Owner(http[h].rid, http[h].pane)
    BY <1>4, KeptSame DEF HttpStore, Ownership, HttpOwns
  <2>2. TrackersOwn'
    <3> SUFFICES ASSUME NEW p \in Panes
                 PROVE  /\ (trk[p].rid # None)' => Owner(trk[p].rid, p)'
                        /\ (trk[p].code # None)' => Owner(trk[p].code, p)'
      BY DEF TrackersOwn
    <3>1. \/ trk'[p] = trk[p]
          \/ /\ p = http[h].pane
             /\ trk'[p].rid = trk[p].rid /\ trk'[p].code = http[h].rid
      BY <1>4 DEF HttpStore, TypeOK, TrackerTypeOK, Trackers
    <3> QED BY <2>1, <3>1 DEF Kept, Owner, Ownership, TrackersOwn
  <2>3. HttpOwns'
    BY <1>4, <2>1 DEF HttpStore, HttpIdle, Kept, Owner, Ownership, HttpOwns, TypeOK, HttpTypeOK
  <2> QED BY <1>1, <2>1, <2>2, <2>3, FrameOwns DEF Ownership
<1>5. CASE HttpFail(h)
  <2>1. Kept
    BY <1>5, KeptSame DEF HttpFail
  <2>2. TrackersOwn'
    <3> SUFFICES ASSUME NEW p \in Panes
                 PROVE  /\ (trk[p].rid # None)' => Owner(trk[p].rid, p)'
                        /\ (trk[p].code # None)' => Owner(trk[p].code, p)'
      BY DEF TrackersOwn
    <3>1. trk'[p].rid = trk[p].rid /\ trk'[p].code = trk[p].code
      BY <1>5, SetStateType DEF HttpFail, SetState, TypeOK, TrackerTypeOK, Trackers
    <3> QED BY <2>1, <3>1 DEF Kept, Owner, Ownership, TrackersOwn
  <2>3. HttpOwns'
    BY <1>5, <2>1 DEF HttpFail, Kept, Owner, Ownership, HttpOwns, TypeOK, HttpTypeOK
  <2> QED BY <1>1, <2>1, <2>2, <2>3, FrameOwns DEF Ownership
<1>6. CASE HttpDrop(h)
  <2>1. Kept
    BY <1>6, KeptCleanup DEF HttpDrop
  <2>2. HttpOwns'
    BY <1>6, <2>1 DEF HttpDrop, HttpIdle, Kept, Owner, Ownership, HttpOwns, TypeOK, HttpTypeOK
  <2> QED BY <1>1, <1>6, <2>1, <2>2, FrameOwns DEF HttpDrop, Ownership
<1> QED BY <1>2, <1>3, <1>4, <1>5, <1>6 DEF HttpStep

LEMMA OwnsAgent ==
    ASSUME Ownership, AgentStep \/ (\E m \in posts : LoseAnswer(m))
    PROVE  Ownership'
<1>1. UNCHANGED <<trk, reqs, mon, http, inbox>>
  BY DEF AgentStep, LoseAnswer, checkPendingRequests, processAuthRequest,
         AgentUnchanged, coordVars
<1> QED BY <1>1, KeptSame, FrameOwns DEF Ownership

LEMMA OwnsPane ==
    ASSUME TypeOK, Ownership, NEW p \in Panes, PaneStep(p)
    PROVE  Ownership'
<1>1. UNCHANGED <<trk, reqs, mon, http>>
  BY DEF PaneStep, Read, HitLimit, Scroll, Compact, Close, PaneUnchanged, coordVars
<1>2. CASE UNCHANGED inbox
  BY <1>1, <1>2, KeptSame, FrameOwns DEF Ownership
<1>3. CASE Read(p)
  <2> SUFFICES ASSUME NEW q \in Panes, NEW i \in DOMAIN inbox'[q],
                      inbox'[q][i].kind = "code"
               PROVE  Owner(inbox[q][i].req, q)'
    BY <1>1, KeptSame, FrameOwns DEF Ownership, InboxOwns
  <2>1. inbox \in [Panes -> Seq(Texts)] /\ inbox[p] # <<>>
    BY <1>3 DEF Read, TypeOK, PaneTypeOK
  <2>2. inbox' = [inbox EXCEPT ![p] = Tail(inbox[p])]
    BY <1>3 DEF Read
  <2>3. \E j \in DOMAIN inbox[q] : inbox'[q][i] = inbox[q][j]
    <3>1. CASE q = p
      <4>1. inbox'[q] = Tail(inbox[q]) /\ inbox[q] \in Seq(Texts) /\ inbox[q] # <<>>
        BY <2>1, <2>2, <3>1
      <4>2. i \in 1..(Len(inbox[q]) - 1) /\ inbox'[q][i] = inbox[q][i + 1]
        BY <4>1
      <4> QED BY <4>1, <4>2
    <3>2. CASE q # p
      BY <2>1, <2>2, <3>2
    <3> QED BY <3>1, <3>2
  <2> QED BY <1>1, <2>3 DEF Ownership, InboxOwns, Owner
<1> QED BY <1>2, <1>3 DEF PaneStep, HitLimit, Scroll, Compact, Close

LEMMA OwnsClock ==
    ASSUME TypeOK, Ownership, NEW p \in Panes,
           TimePasses(p) \/ (\E a \in Cooldowns : CooldownEnds(p, a))
    PROVE  Ownership'
<1>1. Kept /\ UNCHANGED <<mon, http, inbox>>
  BY KeptSame DEF TimePasses, CooldownEnds
<1>2. \A q \in Panes : trk'[q].rid = trk[q].rid /\ trk'[q].code = trk[q].code
  BY DEF TimePasses, CooldownEnds, TypeOK, TrackerTypeOK, Trackers
<1>3. TrackersOwn'
  BY <1>1, <1>2 DEF Kept, Owner, Ownership, TrackersOwn
<1> QED BY <1>1, <1>3, FrameOwns DEF Ownership

LEMMA OwnsRestart ==
    ASSUME TypeOK, Ownership, Restart
    PROVE  Ownership'
<1>1. Kept
  BY DEF Restart, Kept, Owner, InMap, TypeOK, TrackerTypeOK, Requests
<1>2. TrackersOwn' /\ MonOwns' /\ HttpOwns'
  BY DEF Restart, NewTracker, MonIdle, HttpIdle, TrackersOwn, MonOwns, HttpOwns
<1> QED BY <1>1, <1>2, FrameOwns DEF Restart, Ownership

LEMMA OwnershipInvariant == Spec => [](TypeOK /\ Ownership)
<1>1. Init => Ownership
  BY OwnershipInit
<1>2. TypeOK /\ Ownership /\ [Next]_vars => Ownership'
  <2>1. ASSUME Ownership, UNCHANGED vars PROVE Ownership'
    BY <2>1, KeptSame, FrameOwns DEF vars, Ownership
  <2> QED BY <2>1, OwnsMonitor, OwnsPoll, OwnsHttp, OwnsAgent, OwnsPane, OwnsClock,
             OwnsRestart DEF Next
<1> QED BY <1>1, <1>2, TypeCorrect, PTL DEF Spec

\* A code never crosses from one pane's login to another pane, whatever the
\* agent answers, however the answers race with timeouts, resets and restarts.
THEOREM CodeStays == Spec => []CodeStaysInPane
<1>1. TypeOK /\ Ownership => CodeStaysInPane
  BY DEF Ownership, TrackersOwn, InboxOwns, Owner, CodeStaysInPane
<1> QED BY <1>1, OwnershipInvariant, PTL

-----------------------------------------------------------------------------
(* c.requests does not leak: an entry is held by the tracker that created   *)
(* it, unless its pane closed.  The reset of a tracker is the danger: a      *)
(* tracker must hold no request whenever a handler resets it without         *)
(* cleanupRequest.                                                           *)

\* The states from which a handler resets without cleanupRequest.
Early == {"IDLE", "RATE_LIMITED", "AWAITING_METHOD_SELECT", "AWAITING_URL"}

RequestsHeld == \A r \in ReqIds : InMap(r) => Held(r) \/ reqs[r].pane \in Panes \ open
EarlyFree == \A p \in Panes : trk[p].st \in Early => trk[p].rid = None
\* What Poll read is still so when the handler acts: no other goroutine gives
\* a tracker a request.
MonFree ==
    ((mon.pc = "handle" /\ mon.cur \in Early) \/ mon.pc = "bind") => Mine.rid = None
MonTracked == mon.pc # "idle" => Me \in tracked
HeldInv == RequestsHeld /\ EarlyFree /\ MonFree /\ MonTracked

LEMMA HeldInit == Init => HeldInv
BY DEF Init, HeldInv, RequestsHeld, EarlyFree, MonFree, MonTracked, InMap,
       NewTracker, MonIdle

\* Every handler but the two that create and bind a request: the tracker keeps
\* its request, or the request is dropped with it.
LEMMA HandlerHolds ==
    ASSUME TypeOK, HeldInv, mon.pc = "handle", MonDone,
           NEW t \in Trackers, Become(t),
           t.rid \in {Mine.rid, None}, t.st \in Early => t.rid = None,
           UNCHANGED reqs \/ cleanupRequest(Mine.rid),
           t.rid = Mine.rid \/ cleanupRequest(Mine.rid)
    PROVE  HeldInv'
<1>1. \A p \in Panes : trk'[p] = IF p = Me THEN t ELSE trk[p]
  BY DEF Become, TypeOK, TrackerTypeOK
<1>2. UNCHANGED <<tracked, open>> /\ mon' = MonIdle
  BY DEF MonDone
<1>3. RequestsHeld'
  <2> SUFFICES ASSUME NEW r \in ReqIds, InMap(r)'
               PROVE  Held(r)' \/ (reqs[r].pane \in Panes \ open)'
    BY DEF RequestsHeld
  <2>1. /\ InMap(r) /\ reqs'[r].pane = reqs[r].pane
        /\ cleanupRequest(Mine.rid) => r # Mine.rid
    BY DroppedType DEF cleanupRequest, InMap, TypeOK
  <2>2. CASE reqs[r].pane \in Panes \ open
    BY <1>2, <2>1, <2>2
  <2>3. CASE Held(r)
    <3>1. reqs[r].pane \in tracked /\ trk[reqs[r].pane].rid = r
      BY <2>3 DEF Held
    <3>2. reqs[r].pane \in Panes
      BY <3>1 DEF TypeOK, TrackerTypeOK
    <3>3. trk'[reqs[r].pane].rid = r
      BY <1>1, <2>1, <3>1, <3>2 DEF Mine, Me
    <3> QED BY <1>2, <2>1, <3>1, <3>3 DEF Held
  <2> QED BY <2>1, <2>2, <2>3 DEF HeldInv, RequestsHeld
<1>4. EarlyFree'
  BY <1>1 DEF HeldInv, EarlyFree
<1>5. MonFree' /\ MonTracked'
  BY <1>2 DEF MonFree, MonTracked, MonIdle
<1> QED BY <1>3, <1>4, <1>5 DEF HeldInv

\* The tracker after a handler: as it was, moved on, or fresh.
LEMMA SameHolds ==
    ASSUME TypeOK, HeldInv, mon.pc = "handle", MonDone, UNCHANGED trk,
           UNCHANGED reqs \/ cleanupRequest(Mine.rid)
    PROVE  HeldInv'
<1>1. Me \in Panes /\ Mine \in Trackers
  BY HandlerTypes
<1>2. Become(Mine)
  BY DEF Become, Mine, Me, TypeOK, TrackerTypeOK
<1>3. Mine.st \in Early => Mine.rid = None
  BY <1>1 DEF HeldInv, EarlyFree, Mine, Me
<1> QED BY <1>1, <1>2, <1>3, HandlerHolds

LEMMA MovedHolds ==
    ASSUME TypeOK, HeldInv, mon.pc = "handle", MonDone,
           NEW s \in States, Become(SetState(Mine, s)),
           s \in Early => Mine.rid = None,
           UNCHANGED reqs \/ cleanupRequest(Mine.rid)
    PROVE  HeldInv'
<1>1. /\ SetState(Mine, s) \in Trackers /\ SetState(Mine, s).st = s
      /\ SetState(Mine, s).rid = Mine.rid
  BY HandlerTypes, SetStateType
<1> QED BY <1>1, HandlerHolds

LEMMA FreshHolds ==
    ASSUME TypeOK, HeldInv, mon.pc = "handle", MonDone, Become(NewTracker),
           cleanupRequest(Mine.rid) \/ (UNCHANGED reqs /\ Mine.rid = None)
    PROVE  HeldInv'
<1>1. NewTracker \in Trackers /\ NewTracker.rid = None
  BY NewTrackerType DEF NewTracker
<1> QED BY <1>1, HandlerHolds

\* A handler of an early state resets freely: there is no request to leak.
LEMMA EarlyHandler ==
    ASSUME HeldInv, NEW s \in Early, Handling(s)
    PROVE  mon.pc = "handle" /\ Mine.rid = None
BY DEF Handling, HeldInv, MonFree

LEMMA ResetIfAgedHolds ==
    ASSUME TypeOK, HeldInv, NEW s \in Early, Handling(s), MonDone, ResetIfAged
    PROVE  HeldInv'
<1>1. mon.pc = "handle" /\ Mine.rid = None /\ UNCHANGED reqs
  BY EarlyHandler DEF ResetIfAged
<1>2. CASE Mine.aged
  BY <1>1, <1>2, FreshHolds DEF ResetIfAged, Reset
<1>3. CASE ~Mine.aged
  <2>1. UNCHANGED trk
    BY <1>1, <1>3, HandlerTypes DEF ResetIfAged, Become, Mine, Me
  <2> QED BY <1>1, <2>1, SameHolds
<1> QED BY <1>2, <1>3

-----------------------------------------------------------------------------
(* One lemma per handler.                                                  *)

LEMMA HoldsHandleIdle ==
    ASSUME TypeOK, HeldInv, HandleIdle
    PROVE  HeldInv'
<1>1. mon.pc = "handle" /\ Mine.rid = None /\ MonDone /\ UNCHANGED reqs
  BY EarlyHandler DEF HandleIdle, Early
<1>2. /\ Mine \in Trackers /\ SetState(Mine, "RATE_LIMITED") \in Trackers
      /\ SetState(Mine, "RATE_LIMITED").rid = None
  BY <1>1, HandlerTypes, SetStateType DEF States
<1>3. ASSUME NEW t \in {Mine, SetState(Mine, "RATE_LIMITED"),
                        SetCooldown(SetState(Mine, "RATE_LIMITED"), "login"),
                        SetCooldown(Mine, "compaction")},
             Become(t)
      PROVE  HeldInv'
  <2>1. t \in Trackers /\ t.rid = None
    BY <1>1, <1>2, <1>3, SetCooldownType DEF Cooldowns
  <2> QED BY <1>1, <1>3, <2>1, HandlerHolds
<1>4. CASE InjectLogin
  BY <1>3, <1>4 DEF InjectLogin
<1>5. CASE InjectReminder
  BY <1>3, <1>5 DEF InjectReminder
<1>6. CASE UNCHANGED trk
  BY <1>1, <1>6, SameHolds
<1> QED BY <1>4, <1>5, <1>6 DEF HandleIdle

LEMMA TakeUrlHolds ==
    ASSUME TypeOK, HeldInv, NEW s \in Early, Handling(s), MonDone, TakeUrl,
           UNCHANGED reqs
    PROVE  HeldInv'
<1> DEFINE a == SetState(Mine, "AWAITING_URL")
           t == [a EXCEPT !.url = ExtractOAuthURL(mon.out)]
<1>1. mon.pc = "handle" /\ Mine.rid = None
  BY EarlyHandler
<1>2. a \in Trackers /\ a.rid = None /\ ExtractOAuthURL(mon.out) \in Urls
  BY <1>1, HandlerTypes, SetStateType, ExtractType DEF States
<1>3. t \in Trackers /\ t.rid = None
  BY <1>2 DEF Trackers
<1> QED BY <1>1, <1>3, HandlerHolds DEF TakeUrl

LEMMA HoldsHandleRateLimited ==
    ASSUME TypeOK, HeldInv, HandleRateLimited
    PROVE  HeldInv'
<1>1. Handling("RATE_LIMITED") /\ MonDone /\ "RATE_LIMITED" \in Early
  BY DEF HandleRateLimited, Early
<1>2. CASE InjectMethodSelect /\ UNCHANGED reqs
  <2> DEFINE a == SetState(Mine, "AWAITING_METHOD_SELECT")
  <2>1. mon.pc = "handle" /\ Mine.rid = None
    BY <1>1, EarlyHandler
  <2>2. a \in Trackers /\ a.rid = None
    BY <2>1, HandlerTypes, SetStateType DEF States
  <2>3. PICK t \in {a, SetCooldown(a, "method_select")} : Become(t)
    BY <1>2 DEF InjectMethodSelect
  <2>4. t \in Trackers /\ t.rid = None
    BY <2>2, SetCooldownType DEF Cooldowns
  <2> QED BY <1>1, <1>2, <2>1, <2>3, <2>4, HandlerHolds
<1>3. CASE TakeUrl /\ UNCHANGED reqs
  BY <1>1, <1>3, TakeUrlHolds
<1>4. CASE ResetIfAged
  BY <1>1, <1>4, ResetIfAgedHolds
<1> QED BY <1>2, <1>3, <1>4 DEF HandleRateLimited

LEMMA HoldsHandleAwaitingMethodSelect ==
    ASSUME TypeOK, HeldInv, HandleAwaitingMethodSelect
    PROVE  HeldInv'
<1>1. /\ Handling("AWAITING_METHOD_SELECT") /\ MonDone
      /\ "AWAITING_METHOD_SELECT" \in Early
  BY DEF HandleAwaitingMethodSelect, Early
<1> QED BY <1>1, TakeUrlHolds, ResetIfAgedHolds DEF HandleAwaitingMethodSelect

LEMMA HoldsHandleAwaitingURL ==
    ASSUME TypeOK, HeldInv, NEW r \in ReqIds, HandleAwaitingURL(r)
    PROVE  HeldInv'
<1>1. /\ Handling("AWAITING_URL") /\ mon.pc = "handle" /\ Mine.rid = None
      /\ Me \in Panes /\ Mine \in Trackers /\ Me \in tracked
  BY EarlyHandler, HandlerTypes DEF HandleAwaitingURL, Early, HeldInv, MonTracked, Handling
<1>2. CASE LoginUrl # 0 /\ Mine.rid = None
  <2> DEFINE new == [status |-> "pending", pane |-> Me, url |-> LoginUrl]
             t == [Mine EXCEPT !.url = LoginUrl]
  <2>1. /\ reqs[r].status = "unused" /\ reqs' = [reqs EXCEPT ![r] = new]
        /\ Become(t) /\ mon' = [mon EXCEPT !.pc = "bind", !.rid = r]
        /\ UNCHANGED <<tracked, open>>
    BY <1>2 DEF HandleAwaitingURL
  <2>2. t.st = Mine.st /\ t.rid = Mine.rid
    BY <1>1 DEF Trackers
  <2>3. \A p \in Panes : /\ trk'[p].st = trk[p].st /\ trk'[p].rid = trk[p].rid
    BY <2>1, <2>2 DEF Become, Mine, Me, TypeOK, TrackerTypeOK
  <2>4. /\ mon'.pc = "bind" /\ mon'.pane = Me /\ mon'.rid = r
    BY <2>1 DEF Me, TypeOK, MonTypeOK
  <2>5. RequestsHeld'
    <3> SUFFICES ASSUME NEW q \in ReqIds, InMap(q)'
                 PROVE  Held(q)' \/ (reqs[q].pane \in Panes \ open)'
      BY DEF RequestsHeld
    <3>1. CASE q = r
      BY <2>4, <3>1 DEF Held
    <3>2. CASE q # r
      <4>1. InMap(q) /\ reqs'[q] = reqs[q]
        BY <2>1, <3>2 DEF InMap, TypeOK, TrackerTypeOK
      <4>2. CASE reqs[q].pane \in Panes \ open
        BY <2>1, <4>1, <4>2
      <4>3. CASE reqs[q].pane \in tracked /\ trk[reqs[q].pane].rid = q
        <5>1. reqs[q].pane \in Panes
          BY <4>3 DEF TypeOK, TrackerTypeOK
        <5> QED BY <2>1, <2>3, <4>1, <4>3, <5>1 DEF Held
      <4> QED BY <1>1, <4>1, <4>2, <4>3 DEF HeldInv, RequestsHeld, Held
    <3> QED BY <3>1, <3>2
  <2>6. EarlyFree'
    BY <2>3 DEF HeldInv, EarlyFree
  <2>7. MonFree' /\ MonTracked'
    BY <1>1, <2>1, <2>3, <2>4 DEF MonFree, MonTracked, Mine, Me
  <2> QED BY <2>5, <2>6, <2>7 DEF HeldInv
<1>3. CASE ~(LoginUrl # 0 /\ Mine.rid = None)
  <2>1. ResetIfAged /\ MonDone
    BY <1>3 DEF HandleAwaitingURL, MonDone
  <2> QED BY <1>1, <2>1, ResetIfAgedHolds DEF Early
<1> QED BY <1>2, <1>3

LEMMA HoldsBindRequest ==
    ASSUME TypeOK, Ownership, HeldInv, BindRequest
    PROVE  HeldInv'
<1> DEFINE a == SetState(Mine, "AUTH_PENDING")
           t == [a EXCEPT !.rid = mon.rid]
<1>1. /\ mon.pc = "bind" /\ MonDone /\ UNCHANGED reqs /\ Become(t)
      /\ Me \in Panes /\ Mine \in Trackers /\ Me \in tracked /\ Mine.rid = None
      /\ reqs[mon.rid].pane = Me
  BY HandlerTypes DEF BindRequest, HeldInv, MonTracked, MonFree, Ownership, MonOwns,
                      Owner, Me
<1>2. a \in Trackers /\ a.st = "AUTH_PENDING"
  BY <1>1, SetStateType DEF States
<1>3. t.st = "AUTH_PENDING" /\ t.rid = mon.rid
  BY <1>2 DEF Trackers
<1>4. \A p \in Panes : trk'[p] = IF p = Me THEN t ELSE trk[p]
  BY <1>1 DEF Become, TypeOK, TrackerTypeOK
<1>5. UNCHANGED <<tracked, open>> /\ mon' = MonIdle
  BY <1>1 DEF MonDone
<1>6. RequestsHeld'
  <2> SUFFICES ASSUME NEW q \in ReqIds, InMap(q), reqs[q].pane \notin Panes \ open
               PROVE  Held(q)'
    BY <1>1, <1>5 DEF RequestsHeld, InMap
  <2>1. CASE mon.rid = q
    BY <1>1, <1>3, <1>4, <1>5, <2>1 DEF Held
  <2>2. CASE mon.rid # q
    <3>1. reqs[q].pane \in tracked /\ trk[reqs[q].pane].rid = q
      BY <2>2 DEF HeldInv, RequestsHeld, Held
    <3>2. reqs[q].pane \in Panes /\ reqs[q].pane # Me
      BY <1>1, <3>1, CoordinatorAssumption DEF TypeOK, TrackerTypeOK, Mine, Me
    <3> QED BY <1>1, <1>4, <1>5, <3>1, <3>2 DEF Held
  <2> QED BY <2>1, <2>2
<1>7. EarlyFree'
  BY <1>3, <1>4 DEF HeldInv, EarlyFree, Early
<1>8. MonFree' /\ MonTracked'
  BY <1>5 DEF MonFree, MonTracked, MonIdle
<1> QED BY <1>6, <1>7, <1>8 DEF HeldInv

LEMMA HoldsHandleAuthPending ==
    ASSUME TypeOK, HeldInv, HandleAuthPending
    PROVE  HeldInv'
<1>1. mon.pc = "handle" /\ MonDone /\ (UNCHANGED reqs \/ cleanupRequest(Mine.rid))
  BY DEF HandleAuthPending, Handling
<1>2. \/ Become(SetState(Mine, "CODE_RECEIVED"))
      \/ Become(SetState(Mine, "FAILED"))
      \/ UNCHANGED trk
  BY DEF HandleAuthPending
<1>3. {"CODE_RECEIVED", "FAILED"} \subseteq States \ Early
  BY DEF States, Early
<1> QED BY <1>1, <1>2, <1>3, SameHolds, MovedHolds

LEMMA HoldsHandleCodeReceived ==
    ASSUME TypeOK, HeldInv, HandleCodeReceived
    PROVE  HeldInv'
<1>1. mon.pc = "handle" /\ MonDone /\ UNCHANGED reqs
  BY DEF HandleCodeReceived, Handling
<1>2. Become(SetState(Mine, "AWAITING_CONFIRM")) \/ Become(SetState(Mine, "FAILED"))
  BY DEF HandleCodeReceived
<1>3. {"AWAITING_CONFIRM", "FAILED"} \subseteq States \ Early
  BY DEF States, Early
<1> QED BY <1>1, <1>2, <1>3, MovedHolds

LEMMA HoldsHandleAwaitingConfirm ==
    ASSUME TypeOK, HeldInv, HandleAwaitingConfirm
    PROVE  HeldInv'
<1>1. mon.pc = "handle" /\ MonDone /\ (UNCHANGED reqs \/ cleanupRequest(Mine.rid))
  BY DEF HandleAwaitingConfirm, Handling
<1>2. UNCHANGED trk \/ (\E s \in {"RESUMING", "FAILED"} : Become(SetState(Mine, s)))
  BY DEF HandleAwaitingConfirm
<1>3. {"RESUMING", "FAILED"} \subseteq States \ Early
  BY DEF States, Early
<1> QED BY <1>1, <1>2, <1>3, SameHolds, MovedHolds

LEMMA HoldsHandleResuming ==
    ASSUME TypeOK, HeldInv, HandleResuming
    PROVE  HeldInv'
<1>1. mon.pc = "handle" /\ MonDone
  BY DEF HandleResuming, Handling
<1>2. \/ UNCHANGED <<trk, reqs>>
      \/ cleanupRequest(Mine.rid) /\ Become(NewTracker)
  BY DEF HandleResuming, Reset
<1> QED BY <1>1, <1>2, SameHolds, FreshHolds

LEMMA HoldsHandleFailed ==
    ASSUME TypeOK, HeldInv, HandleFailed
    PROVE  HeldInv'
<1>1. mon.pc = "handle" /\ MonDone
  BY DEF HandleFailed, Handling
<1>2. \/ UNCHANGED <<trk, reqs>>
      \/ cleanupRequest(Mine.rid) /\ Become(NewTracker)
  BY DEF HandleFailed, Reset
<1> QED BY <1>1, <1>2, SameHolds, FreshHolds

LEMMA HoldsMonitor ==
    ASSUME TypeOK, Ownership, HeldInv, MonitorStep
    PROVE  HeldInv'
BY HoldsHandleIdle, HoldsHandleRateLimited, HoldsHandleAwaitingMethodSelect,
   HoldsHandleAwaitingURL, HoldsBindRequest, HoldsHandleAuthPending,
   HoldsHandleCodeReceived, HoldsHandleAwaitingConfirm, HoldsHandleResuming,
   HoldsHandleFailed DEF MonitorStep

-----------------------------------------------------------------------------
(* The other actors.                                                       *)

\* A step of another actor: trackers keep their requests and do not go back to
\* an early state, requests only leave the map, panes only close.
LEMMA FrameHolds ==
    ASSUME TypeOK, HeldInv, UNCHANGED <<tracked, mon>>, open' \subseteq open,
           \A p \in Panes : /\ trk'[p].rid = trk[p].rid
                            /\ trk'[p].st \in Early => trk[p].st \in Early,
           \A r \in ReqIds : /\ InMap(r)' => InMap(r)
                             /\ reqs'[r].pane = reqs[r].pane
    PROVE  HeldInv'
<1>1. RequestsHeld'
  <2> SUFFICES ASSUME NEW r \in ReqIds, InMap(r)'
               PROVE  Held(r)' \/ (reqs[r].pane \in Panes \ open)'
    BY DEF RequestsHeld
  <2>1. Held(r) \/ reqs[r].pane \in Panes \ open
    BY DEF HeldInv, RequestsHeld
  <2>2. CASE reqs[r].pane \in tracked /\ trk[reqs[r].pane].rid = r
    BY <2>2 DEF Held, TypeOK, TrackerTypeOK
  <2>3. CASE mon.pc = "bind" /\ mon.rid = r
    BY <2>3 DEF Held
  <2> QED BY <2>1, <2>2, <2>3 DEF Held
<1>2. EarlyFree'
  BY DEF HeldInv, EarlyFree
<1>3. MonFree'
  <2>1. Me \in Panes \/ mon.pc = "idle"
    BY DEF TypeOK, MonTypeOK, Me
  <2> QED BY <2>1 DEF HeldInv, MonFree, Mine, Me
<1>4. MonTracked'
  BY DEF HeldInv, MonTracked, Me
<1> QED BY <1>1, <1>2, <1>3, <1>4 DEF HeldInv

LEMMA HoldsPoll ==
    ASSUME TypeOK, HeldInv, NEW p \in Panes, Poll(p)
    PROVE  HeldInv'
<1>1. UNCHANGED <<trk, reqs, open>> /\ tracked' = tracked \cup {p} /\ mon.pc = "idle"
  BY DEF Poll
<1>2. RequestsHeld' /\ EarlyFree'
  BY <1>1 DEF HeldInv, RequestsHeld, EarlyFree, Held, InMap
<1>3. mon' = mon \/ (/\ mon'.pc = "handle" /\ mon'.pane = p /\ mon'.cur = trk[p].st)
  BY DEF Poll, TypeOK, MonTypeOK
<1>4. MonTracked'
  BY <1>1, <1>3 DEF HeldInv, MonTracked, Me
<1>5. MonFree'
  BY <1>1, <1>3 DEF HeldInv, MonFree, EarlyFree, Mine, Me
<1> QED BY <1>2, <1>4, <1>5 DEF HeldInv

LEMMA HoldsRemoveTracker ==
    ASSUME TypeOK, HeldInv, NEW p \in Panes, RemoveTracker(p)
    PROVE  HeldInv'
<1>1. /\ UNCHANGED <<reqs, open, mon>> /\ tracked' = tracked \ {p}
      /\ mon.pc = "idle" /\ p \notin open
      /\ \A q \in Panes : trk'[q] = IF q = p THEN NewTracker ELSE trk[q]
  BY DEF RemoveTracker, TypeOK, TrackerTypeOK
<1>2. RequestsHeld'
  <2> SUFFICES ASSUME NEW r \in ReqIds, InMap(r), reqs[r].pane \notin Panes \ open
               PROVE  Held(r)'
    BY <1>1 DEF RequestsHeld, InMap
  <2>1. reqs[r].pane \in tracked /\ trk[reqs[r].pane].rid = r
    BY <1>1 DEF HeldInv, RequestsHeld, Held
  <2>2. reqs[r].pane \in Panes /\ reqs[r].pane # p
    BY <1>1, <2>1 DEF TypeOK, TrackerTypeOK
  <2> QED BY <1>1, <2>1, <2>2 DEF Held
<1>3. EarlyFree' /\ MonFree' /\ MonTracked'
  BY <1>1 DEF HeldInv, EarlyFree, MonFree, MonTracked, NewTracker
<1> QED BY <1>2, <1>3 DEF HeldInv

LEMMA HoldsHttp ==
    ASSUME TypeOK, HeldInv, NEW h \in Handlers, HttpStep(h)
    PROVE  HeldInv'
<1>1. UNCHANGED <<tracked, mon, open>>
  BY DEF HttpStep, HttpLookup, HttpFind, HttpStore, HttpFail, HttpDrop, HttpUnchanged
<1>2. \A p \in Panes : /\ trk'[p].rid = trk[p].rid
                       /\ trk'[p].st \in Early => trk[p].st \in Early
  <2>1. CASE UNCHANGED trk
    BY <2>1
  <2>2. CASE HttpStore(h)
    BY <2>2 DEF HttpStore, TypeOK, TrackerTypeOK, Trackers
  <2>3. CASE HttpFail(h)
    BY <2>3 DEF HttpFail, SetState, Early, TypeOK, TrackerTypeOK, Trackers
  <2> QED BY <2>1, <2>2, <2>3 DEF HttpStep, HttpLookup, HttpFind, HttpDrop
<1>3. \A r \in ReqIds : (InMap(r)' => InMap(r)) /\ reqs'[r].pane = reqs[r].pane
  <2>1. CASE UNCHANGED reqs
    BY <2>1 DEF InMap
  <2>2. ASSUME NEW m \in posts, HttpLookup(h, m)
        PROVE  \A r \in ReqIds : (InMap(r)' => InMap(r)) /\ reqs'[r].pane = reqs[r].pane
    BY <2>2 DEF HttpLookup, InMap, TypeOK, TrackerTypeOK, AgentTypeOK, Requests
  <2>3. CASE HttpDrop(h)
    BY <2>3, DroppedType DEF HttpDrop, cleanupRequest, InMap, TypeOK
  <2> QED BY <2>1, <2>2, <2>3 DEF HttpStep, HttpFind, HttpStore, HttpFail
<1> QED BY <1>1, <1>2, <1>3, FrameHolds

LEMMA HoldsOutside ==
    ASSUME TypeOK, HeldInv,
           \/ AgentStep
           \/ \E m \in posts : LoseAnswer(m)
           \/ \E p \in Panes : PaneStep(p)
    PROVE  HeldInv'
<1>1. UNCHANGED <<tracked, trk, reqs, mon>> /\ open' \subseteq open
  BY DEF AgentStep, LoseAnswer, checkPendingRequests, processAuthRequest,
         AgentUnchanged, PaneStep, Read, HitLimit, Scroll, Compact, Close,
         PaneUnchanged, coordVars
<1> QED BY <1>1, FrameHolds DEF InMap

LEMMA HoldsClock ==
    ASSUME TypeOK, HeldInv, NEW p \in Panes,
           TimePasses(p) \/ (\E a \in Cooldowns : CooldownEnds(p, a))
    PROVE  HeldInv'
<1>1. UNCHANGED <<tracked, reqs, mon, open>>
  BY DEF TimePasses, CooldownEnds
<1>2. \A q \in Panes : trk'[q].rid = trk[q].rid /\ trk'[q].st = trk[q].st
  BY DEF TimePasses, CooldownEnds, TypeOK, TrackerTypeOK, Trackers
<1> QED BY <1>1, <1>2, FrameHolds DEF InMap

LEMMA HoldsRestart ==
    ASSUME TypeOK, HeldInv, Restart
    PROVE  HeldInv'
<1>1. \A r \in ReqIds : ~InMap(r)'
  BY DEF Restart, InMap, TypeOK, TrackerTypeOK, Requests
<1>2. EarlyFree' /\ MonFree' /\ MonTracked'
  BY DEF Restart, EarlyFree, MonFree, MonTracked, NewTracker, MonIdle
<1> QED BY <1>1, <1>2 DEF HeldInv, RequestsHeld

-----------------------------------------------------------------------------
\* A request that is still in c.requests while its pane is open is held by the
\* tracker of that pane, or is about to be: cleanupRequest and pane removal
\* are the only ways in which the two part.
THEOREM HeldWhileOpen == Spec => [](TypeOK /\ HeldInv)
<1>1. TypeOK /\ Ownership /\ HeldInv /\ [Next]_vars => HeldInv'
  <2>1. ASSUME TypeOK, HeldInv, UNCHANGED vars PROVE HeldInv'
    BY <2>1, FrameHolds DEF vars, InMap
  <2> QED BY <2>1, HoldsMonitor, HoldsPoll, HoldsRemoveTracker, HoldsHttp, HoldsOutside,
             HoldsClock, HoldsRestart DEF Next
<1> QED BY <1>1, HeldInit, OwnershipInvariant, PTL DEF Spec

\* No request of an open pane leaks, over any number of panes, logins, timeouts, failed
\* injections, late answers, restarts and closing panes.
THEOREM NoLeak == Spec => []NoLeakedRequest
<1>1. TypeOK /\ HeldInv => NoLeakedRequest
  BY DEF HeldInv, RequestsHeld, NoLeakedRequest
<1> QED BY <1>1, HeldWhileOpen, PTL

-----------------------------------------------------------------------------
(* The code of a tracker answers its request, when the agent answers a      *)
(* request once and no HTTP handler is descheduled past a timeout.  The     *)
(* danger is a reset between HttpFind and HttpStore: a tracker must not     *)
(* leave a request whose answer is still on its way.                        *)

Busy(h) == http[h].pc \in {"find", "store", "fail"}
Answering(r) == \E h \in Handlers : Busy(h) /\ http[h].rid = r
Posted(r) == \E m \in posts : m.rid = r
Answered(r) == r \in ReqIds /\ sent[r] = 1 /\ ~Posted(r) /\ ~Answering(r)

\* There is one answer, and it is in one place.
OneAnswer ==
    \A r \in ReqIds :
        /\ sent[r] = 0 => ~Posted(r) /\ ~Answering(r)
        /\ Posted(r) => ~Answering(r)
        /\ \A m, n \in posts : m.rid = r /\ n.rid = r => m = n
        /\ \A h, i \in Handlers :
              Busy(h) /\ Busy(i) /\ http[h].rid = r /\ http[i].rid = r => h = i

\* A code is the one of the request, which is then answered; a tracker that has given up
\* does not leave while an answer is under way.
Stage(t) ==
    /\ t.rid = None => t.st \in Early
    /\ t.code # None => t.code = t.rid /\ Answered(t.rid)
    /\ t.st \in {"CODE_RECEIVED", "AWAITING_CONFIRM", "RESUMING"} => t.code # None
    /\ t.st = "FAILED" => Answered(t.rid) \/ ~InMap(t.rid)
    /\ t.st = "FAILED" /\ t.aged => ~Answering(t.rid)
TrackerStage == \A p \in Panes : Stage(trk[p])

\* The tracker that an HTTP handler has found still waits for its answer.
HttpStage ==
    \A h \in Handlers :
        http[h].pc \in {"store", "fail"} /\ http[h].pane \in open \cup tracked =>
            /\ http[h].pane \in tracked
            /\ trk[http[h].pane].rid = http[h].rid
            /\ trk[http[h].pane].st \in {"AUTH_PENDING", "FAILED"}

\* What Poll read is still so, unless the agent has given up.
MonStage ==
    mon.pc # "idle" =>
        \/ trk[Me].st = mon.cur
        \/ mon.cur = "AUTH_PENDING" /\ trk[Me].st = "FAILED"

AnswerInv == OneAnswer /\ TrackerStage /\ HttpStage /\ MonStage

LEMMA AnswerInit == Init => AnswerInv
<1> SUFFICES ASSUME Init PROVE AnswerInv
  OBVIOUS
<1>1. OneAnswer /\ HttpStage /\ MonStage
  BY DEF Init, OneAnswer, HttpStage, MonStage, Posted, Answering, Busy, HttpIdle, MonIdle
<1>2. TrackerStage
  BY DEF Init, TrackerStage, Stage, NewTracker, Early
<1> QED BY <1>1, <1>2 DEF AnswerInv

\* A tracker whose answer is under way has not gone on.
LEMMA StillWaiting ==
    ASSUME TypeOK, HeldInv, AnswerInv, NEW p \in Panes, Answering(trk[p].rid)
    PROVE  /\ trk[p].rid \in ReqIds /\ trk[p].code = None
           /\ trk[p].st \in {"AUTH_PENDING", "FAILED"}
<1>1. trk[p] \in Trackers /\ Stage(trk[p])
  BY DEF TypeOK, TrackerTypeOK, AnswerInv, TrackerStage
<1>2. trk[p].rid \in ReqIds
  BY DEF Answering, Busy, TypeOK, HttpTypeOK
<1>3. trk[p].code = None
  BY <1>1 DEF Stage, Answered
<1>4. trk[p].st \notin Early
  BY <1>2, CoordinatorAssumption DEF HeldInv, EarlyFree
<1>5. trk[p].st \in States /\ trk[p].st \notin {"CODE_RECEIVED", "AWAITING_CONFIRM", "RESUMING"}
  BY <1>1, <1>3 DEF Stage, Trackers
<1> QED BY <1>2, <1>3, <1>4, <1>5 DEF States, Early

LEMMA SameMessages ==
    ASSUME UNCHANGED <<http, posts, sent>>
    PROVE  /\ \A r : (Answering(r)' <=> Answering(r)) /\ (Answered(r)' <=> Answered(r))
           /\ OneAnswer => OneAnswer'
BY DEF Answering, Answered, Posted, Busy, OneAnswer

-----------------------------------------------------------------------------
(* The monitor.                                                             *)

\* What a handler must make sure of.
LEMMA HandlerAnswers ==
    ASSUME TypeOK, HeldInv, AnswerInv, mon.pc # "idle", MonDone,
           UNCHANGED <<posts, sent>>,
           NEW t \in Trackers, Become(t),
           UNCHANGED reqs \/ cleanupRequest(Mine.rid),
           t.rid = None => t.st \in Early,
           t.code # None => t.code = t.rid /\ Answered(t.rid),
           t.st \in {"CODE_RECEIVED", "AWAITING_CONFIRM", "RESUMING"} => t.code # None,
           t.st = "FAILED" => \/ Answered(t.rid) \/ ~InMap(t.rid)
                              \/ t.rid = Mine.rid /\ cleanupRequest(Mine.rid),
           t.st = "FAILED" /\ t.aged => ~Answering(t.rid),
           Answering(Mine.rid) =>
             t.rid = Mine.rid /\ t.st \in {"AUTH_PENDING", "FAILED"}
    PROVE  AnswerInv'
<1>1. \A p \in Panes : trk'[p] = IF p = Me THEN t ELSE trk[p]
  BY DEF Become, TypeOK, TrackerTypeOK
<1>2. UNCHANGED <<tracked, http, open>> /\ mon' = MonIdle
  BY DEF MonDone
<1>3. /\ \A r : (Answering(r)' <=> Answering(r)) /\ (Answered(r)' <=> Answered(r))
      /\ OneAnswer'
  BY <1>2, SameMessages DEF AnswerInv
<1>4. \A r : InMap(r)' => InMap(r) /\ (cleanupRequest(Mine.rid) => r # Mine.rid)
  BY DroppedType DEF cleanupRequest, InMap, TypeOK
<1>5. TrackerStage'
  <2> SUFFICES ASSUME NEW p \in Panes PROVE Stage(trk[p])'
    BY DEF TrackerStage
  <2>1. CASE p = Me
    <3>1. trk'[p] = t
      BY <1>1, <2>1
    <3> QED BY <1>3, <1>4, <3>1 DEF Stage
  <2>2. CASE p # Me
    <3>1. trk'[p] = trk[p] /\ Stage(trk[p])
      BY <1>1, <2>2 DEF AnswerInv, TrackerStage
    <3> QED BY <1>3, <1>4, <3>1 DEF Stage
  <2> QED BY <2>1, <2>2
<1>6. HttpStage'
  <2> SUFFICES ASSUME NEW h \in Handlers, http[h].pc \in {"store", "fail"},
                      http[h].pane \in open \cup tracked
               PROVE  /\ http[h].pane \in tracked
                      /\ trk'[http[h].pane].rid = http[h].rid
                      /\ trk'[http[h].pane].st \in {"AUTH_PENDING", "FAILED"}
    BY <1>2 DEF HttpStage
  <2>1. /\ http[h].pane \in tracked /\ trk[http[h].pane].rid = http[h].rid
        /\ trk[http[h].pane].st \in {"AUTH_PENDING", "FAILED"}
    BY DEF AnswerInv, HttpStage
  <2>2. http[h].pane \in Panes /\ Answering(http[h].rid)
    BY DEF TypeOK, HttpTypeOK, Answering, Busy
  <2>3. http[h].pane = Me => Answering(Mine.rid) /\ Mine.rid = http[h].rid
    BY <2>1, <2>2 DEF Mine, Me
  <2> QED BY <1>1, <2>1, <2>2, <2>3
<1>7. MonStage'
  BY <1>2 DEF MonStage, MonIdle
<1> QED BY <1>3, <1>5, <1>6, <1>7 DEF AnswerInv

\* What holds of the tracker that a handler works on.
LEMMA MyStage ==
    ASSUME TypeOK, AnswerInv, mon.pc # "idle"
    PROVE  Me \in Panes /\ Mine \in Trackers /\ Stage(Mine)
BY HandlerTypes DEF AnswerInv, TrackerStage, Mine, Me

LEMMA SameAnswers ==
    ASSUME TypeOK, HeldInv, AnswerInv, mon.pc # "idle", MonDone, UNCHANGED trk,
           UNCHANGED reqs \/ cleanupRequest(Mine.rid)
    PROVE  AnswerInv'
<1>1. Me \in Panes /\ Mine \in Trackers /\ Stage(Mine)
  BY MyStage
<1>2. Become(Mine)
  BY DEF Become, Mine, Me, TypeOK, TrackerTypeOK
<1>3. Answering(Mine.rid) => Mine.st \in {"AUTH_PENDING", "FAILED"}
  BY <1>1, StillWaiting DEF Mine, Me
<1>4. UNCHANGED <<posts, sent>>
  BY DEF MonDone, agentVars
<1> QED BY <1>1, <1>2, <1>3, <1>4, HandlerAnswers DEF Stage

LEMMA MovedAnswers ==
    ASSUME TypeOK, HeldInv, AnswerInv, mon.pc # "idle", MonDone,
           NEW s \in States \ Early, Become(SetState(Mine, s)),
           UNCHANGED reqs \/ cleanupRequest(Mine.rid),
           Mine.rid # None,
           s # "AUTH_PENDING",
           s = "FAILED" => \/ Answered(Mine.rid) \/ ~InMap(Mine.rid)
                           \/ cleanupRequest(Mine.rid),
           s # "FAILED" => Mine.code # None
    PROVE  AnswerInv'
<1> DEFINE t == SetState(Mine, s)
<1>1. Mine \in Trackers /\ Stage(Mine)
  BY MyStage
<1>2. t \in Trackers /\ t.st = s /\ t.rid = Mine.rid /\ t.code = Mine.code /\ t.aged = FALSE
  BY <1>1, SetStateType DEF SetState, Trackers
<1>3. UNCHANGED <<posts, sent>>
  BY DEF MonDone, agentVars
<1>4. Answering(Mine.rid) => s = "FAILED"
  BY <1>1 DEF Stage, Answered
<1> HIDE DEF t
<1>5. Become(t)
  BY DEF t
<1> QED BY <1>1, <1>2, <1>3, <1>4, <1>5, HandlerAnswers DEF Stage

\* A handler of an early state, and a reset.
LEMMA EarlyAnswers ==
    ASSUME TypeOK, HeldInv, AnswerInv, mon.pc # "idle", MonDone,
           NEW t \in Trackers, Become(t), t.st \in Early, t.rid = None, t.code = None,
           UNCHANGED reqs \/ cleanupRequest(Mine.rid),
           ~Answering(Mine.rid)
    PROVE  AnswerInv'
<1>1. UNCHANGED <<posts, sent>>
  BY DEF MonDone, agentVars
<1>2. t.st \notin {"CODE_RECEIVED", "AWAITING_CONFIRM", "RESUMING", "FAILED"}
  BY DEF Early
<1> QED BY <1>1, <1>2, HandlerAnswers

LEMMA FreshAnswers ==
    ASSUME TypeOK, HeldInv, AnswerInv, mon.pc # "idle", MonDone, Become(NewTracker),
           UNCHANGED reqs \/ cleanupRequest(Mine.rid),
           ~Answering(Mine.rid)
    PROVE  AnswerInv'
<1>1. NewTracker \in Trackers /\ NewTracker.st \in Early /\ NewTracker.rid = None
      /\ NewTracker.code = None
  BY NewTrackerType DEF NewTracker, Early
<1> QED BY <1>1, EarlyAnswers

LEMMA EarlyStage ==
    ASSUME TypeOK, HeldInv, AnswerInv, NEW s \in Early, Handling(s)
    PROVE  /\ mon.pc = "handle" /\ Mine \in Trackers
           /\ Mine.rid = None /\ Mine.code = None /\ Mine.st \in Early
           /\ ~Answering(Mine.rid)
<1>1. mon.pc = "handle" /\ Mine.rid = None
  BY EarlyHandler
<1>2. Mine \in Trackers /\ Stage(Mine)
  BY <1>1, MyStage
<1>3. ~Answering(None)
  BY CoordinatorAssumption DEF Answering, Busy, TypeOK, HttpTypeOK
<1> QED BY <1>1, <1>2, <1>3, CoordinatorAssumption DEF Stage, Answered

LEMMA ResetIfAgedAnswers ==
    ASSUME TypeOK, HeldInv, AnswerInv, NEW s \in Early, Handling(s), MonDone, ResetIfAged
    PROVE  AnswerInv'
<1>1. mon.pc = "handle" /\ Mine \in Trackers /\ ~Answering(Mine.rid) /\ UNCHANGED reqs
  BY EarlyStage DEF ResetIfAged
<1>2. CASE Mine.aged
  BY <1>1, <1>2, FreshAnswers DEF ResetIfAged, Reset
<1>3. CASE ~Mine.aged
  <2>1. UNCHANGED trk
    BY <1>1, <1>3, HandlerTypes DEF ResetIfAged, Become, Mine, Me
  <2> QED BY <1>1, <2>1, SameAnswers
<1> QED BY <1>2, <1>3

LEMMA AnswersHandleIdle ==
    ASSUME TypeOK, HeldInv, AnswerInv, HandleIdle
    PROVE  AnswerInv'
<1>1. /\ Handling("IDLE") /\ "IDLE" \in Early /\ MonDone /\ UNCHANGED reqs
  BY DEF HandleIdle, Early
<1>2. /\ mon.pc = "handle" /\ Mine \in Trackers /\ Mine.rid = None /\ Mine.code = None
      /\ Mine.st \in Early /\ ~Answering(Mine.rid)
  BY <1>1, EarlyStage
<1> DEFINE a == SetState(Mine, "RATE_LIMITED")
<1>3. a \in Trackers /\ a.rid = None /\ a.code = None /\ a.st \in Early
  BY <1>2, SetStateType DEF States, Early
<1>4. ASSUME NEW t \in {Mine, a, SetCooldown(a, "login"), SetCooldown(Mine, "compaction")},
             Become(t)
      PROVE  AnswerInv'
  <2>1. t \in Trackers /\ t.rid = None /\ t.code = None /\ t.st \in Early
    BY <1>2, <1>3, <1>4, SetCooldownType DEF Cooldowns
  <2> QED BY <1>1, <1>2, <1>4, <2>1, EarlyAnswers
<1>5. CASE InjectLogin
  BY <1>4, <1>5 DEF InjectLogin
<1>6. CASE InjectReminder
  BY <1>4, <1>6 DEF InjectReminder
<1>7. CASE UNCHANGED trk
  BY <1>1, <1>2, <1>7, SameAnswers
<1> QED BY <1>5, <1>6, <1>7 DEF HandleIdle

LEMMA TakeUrlAnswers ==
    ASSUME TypeOK, HeldInv, AnswerInv, NEW s \in Early, Handling(s), MonDone, TakeUrl,
           UNCHANGED reqs
    PROVE  AnswerInv'
<1> DEFINE a == SetState(Mine, "AWAITING_URL")
           t == [a EXCEPT !.url = ExtractOAuthURL(mon.out)]
<1>1. /\ mon.pc = "handle" /\ Mine \in Trackers /\ Mine.rid = None /\ Mine.code = None
      /\ ~Answering(Mine.rid)
  BY EarlyStage
<1>2. /\ a \in Trackers /\ a.rid = None /\ a.code = None /\ a.st = "AWAITING_URL"
      /\ ExtractOAuthURL(mon.out) \in Urls
  BY <1>1, HandlerTypes, SetStateType, ExtractType DEF States
<1>3. t \in Trackers /\ t.rid = None /\ t.code = None /\ t.st \in Early
  BY <1>2 DEF Trackers, Early
<1> QED BY <1>1, <1>3, EarlyAnswers DEF TakeUrl

LEMMA AnswersHandleRateLimited ==
    ASSUME TypeOK, HeldInv, AnswerInv, HandleRateLimited
    PROVE  AnswerInv'
<1>1. Handling("RATE_LIMITED") /\ MonDone /\ "RATE_LIMITED" \in Early
  BY DEF HandleRateLimited, Early
<1>2. CASE InjectMethodSelect /\ UNCHANGED reqs
  <2> DEFINE a == SetState(Mine, "AWAITING_METHOD_SELECT")
  <2>1. /\ mon.pc = "handle" /\ Mine \in Trackers /\ Mine.rid = None /\ Mine.code = None
        /\ ~Answering(Mine.rid)
    BY <1>1, EarlyStage
  <2>2. a \in Trackers /\ a.rid = None /\ a.code = None /\ a.st \in Early
    BY <2>1, SetStateType DEF States, Early
  <2>3. PICK t \in {a, SetCooldown(a, "method_select")} : Become(t)
    BY <1>2 DEF InjectMethodSelect
  <2>4. t \in Trackers /\ t.rid = None /\ t.code = None /\ t.st \in Early
    BY <2>2, SetCooldownType DEF Cooldowns
  <2> QED BY <1>1, <1>2, <2>1, <2>3, <2>4, EarlyAnswers
<1>3. CASE TakeUrl /\ UNCHANGED reqs
  BY <1>1, <1>3, TakeUrlAnswers
<1>4. CASE ResetIfAged
  BY <1>1, <1>4, ResetIfAgedAnswers
<1> QED BY <1>2, <1>3, <1>4 DEF HandleRateLimited

LEMMA AnswersHandleAwaitingMethodSelect ==
    ASSUME TypeOK, HeldInv, AnswerInv, HandleAwaitingMethodSelect
    PROVE  AnswerInv'
<1>1. /\ Handling("AWAITING_METHOD_SELECT") /\ MonDone
      /\ "AWAITING_METHOD_SELECT" \in Early
  BY DEF HandleAwaitingMethodSelect, Early
<1> QED BY <1>1, TakeUrlAnswers, ResetIfAgedAnswers DEF HandleAwaitingMethodSelect

LEMMA AnswersHandleAwaitingURL ==
    ASSUME TypeOK, Ownership, HeldInv, AnswerInv, NEW r \in ReqIds, HandleAwaitingURL(r)
    PROVE  AnswerInv'
<1>1. Handling("AWAITING_URL") /\ "AWAITING_URL" \in Early
  BY DEF HandleAwaitingURL, Early
<1>2. /\ mon.pc = "handle" /\ Mine \in Trackers /\ Mine.rid = None /\ Mine.code = None
      /\ Mine.st = "AWAITING_URL" /\ Me \in Panes
  BY <1>1, EarlyStage, HandlerTypes
     DEF Handling, AnswerInv, MonStage, Mine, Me
<1>3. CASE LoginUrl # 0 /\ Mine.rid = None
  <2> DEFINE new == [status |-> "pending", pane |-> Me, url |-> LoginUrl]
             t == [Mine EXCEPT !.url = LoginUrl]
  <2>1. /\ reqs[r].status = "unused" /\ reqs' = [reqs EXCEPT ![r] = new]
        /\ Become(t) /\ mon' = [mon EXCEPT !.pc = "bind", !.rid = r]
        /\ UNCHANGED <<tracked, open, http, posts, sent>>
    BY <1>3 DEF HandleAwaitingURL, agentVars
  <2>2. t.st = Mine.st /\ t.rid = None /\ t.code = None
    BY <1>2 DEF Trackers
  <2>3. \A p \in Panes : trk'[p] = IF p = Me THEN t ELSE trk[p]
    BY <2>1 DEF Become, TypeOK, TrackerTypeOK
  <2>4. /\ \A q : (Answering(q)' <=> Answering(q)) /\ (Answered(q)' <=> Answered(q))
        /\ OneAnswer'
    BY <2>1, SameMessages DEF AnswerInv
  <2> HIDE DEF t, new
  <2>5. TrackerStage'
    <3> SUFFICES ASSUME NEW p \in Panes PROVE Stage(trk[p])'
      BY DEF TrackerStage
    <3>1. CASE p = Me
      <4>1. trk'[p] = t /\ t.st = "AWAITING_URL"
        BY <1>2, <2>2, <2>3, <3>1
      <4> QED BY <2>2, <4>1 DEF Stage, Early
    <3>2. CASE p # Me
      <4>1. trk'[p] = trk[p] /\ Stage(trk[p])
        BY <2>3, <3>2 DEF AnswerInv, TrackerStage
      <4>2. trk[p].rid # r
        BY <2>1, CoordinatorAssumption DEF Ownership, TrackersOwn, Owner
      <4>3. InMap(trk[p].rid)' => InMap(trk[p].rid)
        BY <2>1, <4>1, <4>2 DEF InMap, TypeOK, TrackerTypeOK
      <4> QED BY <2>4, <4>1, <4>3 DEF Stage
    <3> QED BY <3>1, <3>2
  <2>6. HttpStage'
    <3>1. \A p \in Panes : trk'[p].rid = trk[p].rid /\ trk'[p].st = trk[p].st
      BY <1>2, <2>2, <2>3 DEF Mine, Me
    <3>2. \A h \in Handlers : http[h].pc \in {"store", "fail"} => http[h].pane \in Panes
      BY DEF TypeOK, HttpTypeOK
    <3> QED BY <2>1, <3>1, <3>2 DEF AnswerInv, HttpStage
  <2>7. MonStage'
    <3>1. mon'.cur = "AWAITING_URL" /\ mon'.pane = Me
      BY <1>1, <2>1 DEF Handling, Me, TypeOK, MonTypeOK
    <3>2. trk'[Me].st = "AWAITING_URL"
      BY <1>2, <2>2, <2>3
    <3> QED BY <3>1, <3>2 DEF MonStage, Me
  <2> QED BY <2>4, <2>5, <2>6, <2>7 DEF AnswerInv
<1>4. CASE ~(LoginUrl # 0 /\ Mine.rid = None)
  <2>1. ResetIfAged /\ MonDone
    BY <1>4 DEF HandleAwaitingURL, MonDone
  <2> QED BY <1>1, <2>1, ResetIfAgedAnswers
<1> QED BY <1>3, <1>4

LEMMA AnswersBindRequest ==
    ASSUME TypeOK, HeldInv, AnswerInv, BindRequest
    PROVE  AnswerInv'
<1> DEFINE a == SetState(Mine, "AUTH_PENDING")
           t == [a EXCEPT !.rid = mon.rid]
<1>1. /\ mon.pc = "bind" /\ MonDone /\ UNCHANGED reqs /\ Become(t) /\ mon.rid \in ReqIds
  BY DEF BindRequest, TypeOK, MonTypeOK
<1>2. Mine \in Trackers /\ Stage(Mine) /\ Mine.rid = None
  BY <1>1, MyStage DEF HeldInv, MonFree
<1>3. Mine.code = None
  BY <1>2 DEF Stage
<1>4. a \in Trackers /\ a.st = "AUTH_PENDING" /\ a.code = None /\ a.rid = None
  BY <1>2, <1>3, SetStateType DEF States
<1>5. t \in Trackers /\ t.st = "AUTH_PENDING" /\ t.rid = mon.rid /\ t.code = None
  BY <1>1, <1>4 DEF Trackers, MaybeReq
<1>6. mon.rid # None /\ ~Answering(Mine.rid)
  BY <1>1, <1>2, CoordinatorAssumption DEF Answering, Busy, TypeOK, HttpTypeOK
<1>7. UNCHANGED <<posts, sent>>
  BY <1>1 DEF MonDone, agentVars
<1> HIDE DEF t
<1> QED BY <1>1, <1>5, <1>6, <1>7, HandlerAnswers

\* From what Poll read to what the handler may rely on.
LEMMA LateStage ==
    ASSUME TypeOK, HeldInv, AnswerInv, NEW s \in States \ Early, Handling(s)
    PROVE  /\ mon.pc = "handle" /\ Mine \in Trackers /\ Stage(Mine)
           /\ Mine.st = s \/ (s = "AUTH_PENDING" /\ Mine.st = "FAILED")
           /\ Mine.rid # None
           /\ s \in {"CODE_RECEIVED", "AWAITING_CONFIRM", "RESUMING"} =>
                Mine.code # None /\ Answered(Mine.rid) /\ ~Answering(Mine.rid)
<1>1. mon.pc = "handle" /\ mon.cur = s
  BY DEF Handling
<1>2. Mine \in Trackers /\ Stage(Mine)
  BY <1>1, MyStage
<1>3. Mine.st = s \/ (s = "AUTH_PENDING" /\ Mine.st = "FAILED")
  BY <1>1 DEF AnswerInv, MonStage, Mine, Me
<1>4. Mine.rid # None
  BY <1>2, <1>3 DEF Stage, Early
<1> QED BY <1>1, <1>2, <1>3, <1>4 DEF Stage, Answered

LEMMA AnswersHandleAuthPending ==
    ASSUME TypeOK, HeldInv, AnswerInv, HandleAuthPending
    PROVE  AnswerInv'
<1>1. Handling("AUTH_PENDING") /\ MonDone /\ "AUTH_PENDING" \in States \ Early
  BY DEF HandleAuthPending, States, Early
<1>2. mon.pc = "handle" /\ Mine.rid # None
  BY <1>1, LateStage
<1>3. {"CODE_RECEIVED", "FAILED"} \subseteq States \ Early
  BY DEF States, Early
<1>4. CASE Mine.code # None /\ Become(SetState(Mine, "CODE_RECEIVED")) /\ UNCHANGED reqs
  BY <1>1, <1>2, <1>3, <1>4, MovedAnswers
<1>5. CASE cleanupRequest(Mine.rid) /\ Become(SetState(Mine, "FAILED"))
  BY <1>1, <1>2, <1>3, <1>5, MovedAnswers
<1>6. CASE UNCHANGED <<trk, reqs>>
  BY <1>1, <1>2, <1>6, SameAnswers
<1> QED BY <1>4, <1>5, <1>6 DEF HandleAuthPending

LEMMA AnswersHandleCodeReceived ==
    ASSUME TypeOK, HeldInv, AnswerInv, HandleCodeReceived
    PROVE  AnswerInv'
<1>1. Handling("CODE_RECEIVED") /\ MonDone /\ "CODE_RECEIVED" \in States \ Early
      /\ UNCHANGED reqs
  BY DEF HandleCodeReceived, States, Early
<1>2. /\ mon.pc = "handle" /\ Mine.rid # None /\ Mine.code # None /\ Answered(Mine.rid)
  BY <1>1, LateStage
<1>3. {"AWAITING_CONFIRM", "FAILED"} \subseteq States \ Early
  BY DEF States, Early
<1>4. Become(SetState(Mine, "AWAITING_CONFIRM")) \/ Become(SetState(Mine, "FAILED"))
  BY DEF HandleCodeReceived
<1> QED BY <1>1, <1>2, <1>3, <1>4, MovedAnswers

LEMMA AnswersHandleAwaitingConfirm ==
    ASSUME TypeOK, HeldInv, AnswerInv, HandleAwaitingConfirm
    PROVE  AnswerInv'
<1>1. Handling("AWAITING_CONFIRM") /\ MonDone /\ "AWAITING_CONFIRM" \in States \ Early
      /\ (UNCHANGED reqs \/ cleanupRequest(Mine.rid))
  BY DEF HandleAwaitingConfirm, States, Early
<1>2. /\ mon.pc = "handle" /\ Mine.rid # None /\ Mine.code # None /\ Answered(Mine.rid)
  BY <1>1, LateStage
<1>3. {"RESUMING", "FAILED"} \subseteq States \ Early
  BY DEF States, Early
<1>4. UNCHANGED trk \/ (\E s \in {"RESUMING", "FAILED"} : Become(SetState(Mine, s)))
  BY DEF HandleAwaitingConfirm
<1>5. CASE UNCHANGED trk
  BY <1>1, <1>2, <1>5, SameAnswers
<1>6. ASSUME NEW s \in {"RESUMING", "FAILED"}, Become(SetState(Mine, s)) PROVE AnswerInv'
  BY <1>1, <1>2, <1>3, <1>6, MovedAnswers
<1> QED BY <1>4, <1>5, <1>6

LEMMA AnswersHandleResuming ==
    ASSUME TypeOK, HeldInv, AnswerInv, HandleResuming
    PROVE  AnswerInv'
<1>1. Handling("RESUMING") /\ MonDone /\ "RESUMING" \in States \ Early
  BY DEF HandleResuming, States, Early
<1>2. mon.pc = "handle" /\ ~Answering(Mine.rid)
  BY <1>1, LateStage
<1>3. \/ UNCHANGED <<trk, reqs>>
      \/ cleanupRequest(Mine.rid) /\ Become(NewTracker)
  BY DEF HandleResuming, Reset
<1> QED BY <1>1, <1>2, <1>3, SameAnswers, FreshAnswers

LEMMA AnswersHandleFailed ==
    ASSUME TypeOK, HeldInv, AnswerInv, HandleFailed
    PROVE  AnswerInv'
<1>1. Handling("FAILED") /\ MonDone /\ "FAILED" \in States \ Early
  BY DEF HandleFailed, States, Early
<1>2. mon.pc = "handle" /\ Mine.st = "FAILED" /\ Stage(Mine)
  BY <1>1, LateStage
<1>3. CASE UNCHANGED <<trk, reqs>>
  BY <1>1, <1>2, <1>3, SameAnswers
<1>4. CASE Mine.aged /\ cleanupRequest(Mine.rid) /\ Become(NewTracker)
  BY <1>1, <1>2, <1>4, FreshAnswers DEF Stage
<1> QED BY <1>3, <1>4 DEF HandleFailed, Reset

LEMMA AnswersMonitor ==
    ASSUME TypeOK, Ownership, HeldInv, AnswerInv, MonitorStep
    PROVE  AnswerInv'
BY AnswersHandleIdle, AnswersHandleRateLimited, AnswersHandleAwaitingMethodSelect,
   AnswersHandleAwaitingURL, AnswersBindRequest, AnswersHandleAuthPending,
   AnswersHandleCodeReceived, AnswersHandleAwaitingConfirm, AnswersHandleResuming,
   AnswersHandleFailed DEF MonitorStep

-----------------------------------------------------------------------------
(* The other actors.                                                       *)

\* What holds of a tracker goes on holding while its answer only gets on.
LEMMA StageStays ==
    ASSUME NEW t, Stage(t),
           Answered(t.rid) => Answered(t.rid)',
           Answering(t.rid)' => Answering(t.rid),
           InMap(t.rid)' => InMap(t.rid)
    PROVE  Stage(t)'
BY DEF Stage

\* A step that leaves trackers alone.
LEMMA FrameAnswers ==
    ASSUME TypeOK, AnswerInv, UNCHANGED <<trk, tracked, mon>>, open' \subseteq open,
           \A r : InMap(r)' => InMap(r),
           \A r : Answered(r) => Answered(r)',
           \A r : Answering(r)' => Answering(r),
           OneAnswer',
           \A h \in Handlers :
               http'[h].pc \in {"store", "fail"} =>
                 /\ http[h].pc \in {"store", "fail"}
                 /\ http'[h].pane = http[h].pane /\ http'[h].rid = http[h].rid
    PROVE  AnswerInv'
<1>1. TrackerStage'
  <2> SUFFICES ASSUME NEW p \in Panes PROVE Stage(trk[p])'
    BY DEF TrackerStage
  <2>1. Stage(trk[p])
    BY DEF AnswerInv, TrackerStage
  <2> QED BY <2>1 DEF Stage
<1>2. HttpStage'
  BY DEF AnswerInv, HttpStage
<1>3. MonStage'
  BY DEF AnswerInv, MonStage, Me
<1> QED BY <1>1, <1>2, <1>3 DEF AnswerInv

LEMMA AnswersPoll ==
    ASSUME TypeOK, AnswerInv, NEW p \in Panes, Poll(p)
    PROVE  AnswerInv'
<1>1. UNCHANGED <<trk, reqs, open, http, posts, sent>> /\ tracked' = tracked \cup {p}
      /\ mon.pc = "idle" /\ p \in open
  BY DEF Poll, agentVars
<1>2. /\ \A r : (Answering(r)' <=> Answering(r)) /\ (Answered(r)' <=> Answered(r))
      /\ OneAnswer'
  BY <1>1, SameMessages DEF AnswerInv
<1>3. TrackerStage'
  <2> SUFFICES ASSUME NEW q \in Panes PROVE Stage(trk[q])'
    BY DEF TrackerStage
  <2> QED BY <1>1, <1>2 DEF AnswerInv, TrackerStage, Stage, InMap
<1>4. HttpStage'
  BY <1>1 DEF AnswerInv, HttpStage
<1>5. mon' = mon \/ (/\ mon'.pc = "handle" /\ mon'.pane = p /\ mon'.cur = trk[p].st)
  BY DEF Poll, TypeOK, MonTypeOK
<1>6. MonStage'
  BY <1>1, <1>5 DEF MonStage, Me
<1> QED BY <1>2, <1>3, <1>4, <1>6 DEF AnswerInv

LEMMA AnswersRemoveTracker ==
    ASSUME TypeOK, AnswerInv, NEW p \in Panes, RemoveTracker(p)
    PROVE  AnswerInv'
<1>1. /\ UNCHANGED <<reqs, open, mon, http, posts, sent>> /\ tracked' = tracked \ {p}
      /\ mon.pc = "idle" /\ p \notin open
      /\ \A q \in Panes : trk'[q] = IF q = p THEN NewTracker ELSE trk[q]
  BY DEF RemoveTracker, TypeOK, TrackerTypeOK, agentVars
<1>2. /\ \A r : (Answering(r)' <=> Answering(r)) /\ (Answered(r)' <=> Answered(r))
      /\ OneAnswer'
  BY <1>1, SameMessages DEF AnswerInv
<1>3. TrackerStage'
  <2> SUFFICES ASSUME NEW q \in Panes PROVE Stage(trk[q])'
    BY DEF TrackerStage
  <2>1. CASE q = p
    BY <1>1, <2>1 DEF Stage, NewTracker, Early
  <2>2. CASE q # p
    <3>1. trk'[q] = trk[q] /\ Stage(trk[q])
      BY <1>1, <2>2 DEF AnswerInv, TrackerStage
    <3> QED BY <1>1, <1>2, <3>1 DEF Stage, InMap
  <2> QED BY <2>1, <2>2
<1>4. HttpStage'
  BY <1>1 DEF AnswerInv, HttpStage, TypeOK, TrackerTypeOK
<1>5. MonStage'
  BY <1>1 DEF MonStage
<1> QED BY <1>2, <1>3, <1>4, <1>5 DEF AnswerInv

LEMMA AnswersHttpLookup ==
    ASSUME TypeOK, HeldInv, AnswerInv, NEW h \in Handlers, NEW m \in posts, HttpLookup(h, m)
    PROVE  AnswerInv'
<1>1. /\ http[h].pc = "idle" /\ posts' = posts \ {m} /\ m.rid \in ReqIds /\ Posted(m.rid)
      /\ UNCHANGED <<trk, tracked, mon, sent, open>>
  BY DEF HttpLookup, HttpUnchanged, TypeOK, AgentTypeOK, Posted
<1>2. ~Posted(m.rid)' /\ \A r : r # m.rid => (Posted(r)' <=> Posted(r))
  BY <1>1 DEF Posted, AnswerInv, OneAnswer
<1>3. sent[m.rid] # 0 /\ ~Answering(m.rid)
  BY <1>1 DEF AnswerInv, OneAnswer
<1>4. CASE ~InMap(m.rid) /\ UNCHANGED <<reqs, http>>
  <2>1. \A r : Answering(r)' <=> Answering(r)
    BY <1>4 DEF Answering, Busy
  <2>2. OneAnswer'
    <3> SUFFICES ASSUME NEW r \in ReqIds
                 PROVE  /\ (sent[r] = 0)' => ~Posted(r)' /\ ~Answering(r)'
                        /\ Posted(r)' => ~Answering(r)'
                        /\ \A k, n \in posts' : k.rid = r /\ n.rid = r => k = n
                        /\ \A g, i \in Handlers :
                             Busy(g)' /\ Busy(i)' /\ http'[g].rid = r /\ http'[i].rid = r
                               => g = i
      BY DEF OneAnswer
    <3> QED BY <1>1, <1>2, <1>3, <1>4, <2>1 DEF AnswerInv, OneAnswer, Busy
  <2>3. \A r : Answered(r) => Answered(r)'
    BY <1>1, <1>2, <2>1 DEF Answered
  <2> QED BY <1>1, <1>4, <2>1, <2>2, <2>3, FrameAnswers DEF InMap
<1>5. CASE /\ InMap(m.rid)
           /\ reqs' = [reqs EXCEPT ![m.rid].status = "processing"]
           /\ http' = [http EXCEPT ![h] = [pc |-> "find", rid |-> m.rid,
                                           ok |-> m.ok, pane |-> None]]
  <2>1. /\ Busy(h)' /\ http'[h].rid = m.rid /\ http'[h].pc = "find" /\ ~Busy(h)
        /\ \A g \in Handlers : g # h => http'[g] = http[g]
    BY <1>1, <1>5 DEF Busy, TypeOK, HttpTypeOK
  <2>2. \A r : r # m.rid => (Answering(r)' <=> Answering(r))
    BY <2>1 DEF Answering, Busy
  <2>3. OneAnswer'
    <3> SUFFICES ASSUME NEW r \in ReqIds
                 PROVE  /\ (sent[r] = 0)' => ~Posted(r)' /\ ~Answering(r)'
                        /\ Posted(r)' => ~Answering(r)'
                        /\ \A k, n \in posts' : k.rid = r /\ n.rid = r => k = n
                        /\ \A g, i \in Handlers :
                             Busy(g)' /\ Busy(i)' /\ http'[g].rid = r /\ http'[i].rid = r
                               => g = i
      BY DEF OneAnswer
    <3>1. CASE r = m.rid
      <4>1. \A g \in Handlers : Busy(g)' /\ http'[g].rid = r => g = h
        BY <1>3, <2>1, <3>1 DEF Answering, Busy
      <4> QED BY <1>1, <1>2, <1>3, <3>1, <4>1 DEF AnswerInv, OneAnswer
    <3>2. CASE r # m.rid
      <4>1. \A g \in Handlers : Busy(g)' /\ http'[g].rid = r => Busy(g) /\ http[g].rid = r
        BY <2>1, <3>2 DEF Busy
      <4> QED BY <1>1, <1>2, <2>2, <3>2, <4>1 DEF AnswerInv, OneAnswer
    <3> QED BY <3>1, <3>2
  <2>4. \A r : InMap(r)' => InMap(r)
    BY <1>5 DEF InMap, TypeOK, TrackerTypeOK
  <2>5. TrackerStage'
    <3> SUFFICES ASSUME NEW p \in Panes PROVE Stage(trk[p])'
      BY DEF TrackerStage
    <3>1. Stage(trk[p]) /\ trk'[p] = trk[p]
      BY <1>1 DEF AnswerInv, TrackerStage
    <3>2. CASE trk[p].rid # m.rid
      <4>1. Answered(trk[p].rid) => Answered(trk[p].rid)'
        BY <1>1, <1>2, <2>2, <3>1, <3>2 DEF Answered
      <4> QED BY <1>1, <2>2, <2>4, <3>1, <3>2, <4>1 DEF Stage
    <3>3. CASE trk[p].rid = m.rid
      <4>1. ~Answered(m.rid)
        BY <1>1 DEF Answered
      <4> QED BY <1>5, <3>1, <3>3, <4>1 DEF Stage
    <3> QED BY <3>2, <3>3
  <2>6. HttpStage'
    BY <1>1, <2>1 DEF AnswerInv, HttpStage
  <2>7. MonStage'
    BY <1>1 DEF AnswerInv, MonStage, Me
  <2> QED BY <2>3, <2>5, <2>6, <2>7 DEF AnswerInv
<1> QED BY <1>4, <1>5 DEF HttpLookup

\* A handler that is done, or goes on to drop the request.
LEMMA HandlerLeaves ==
    ASSUME TypeOK, AnswerInv, NEW h \in Handlers, ~Busy(h)',
           NEW r0, r0 = http[h].rid,
           \A g \in Handlers : g # h => http'[g] = http[g],
           UNCHANGED <<posts, sent>>
    PROVE  /\ OneAnswer'
           /\ \A r : Answering(r)' => Answering(r)
           /\ \A r : Answered(r) => Answered(r)'
           /\ Busy(h) => ~Answering(r0)' /\ ~Posted(r0) /\ sent[r0] # 0
<1>1. \A g \in Handlers : Busy(g)' => Busy(g) /\ http'[g] = http[g] /\ g # h
  BY DEF Busy
<1>2. \A r : Answering(r)' => Answering(r)
  BY <1>1 DEF Answering
<1>3. \A r : Posted(r)' <=> Posted(r)
  BY DEF Posted
<1>4. OneAnswer'
  <2> SUFFICES ASSUME NEW r \in ReqIds
               PROVE  /\ (sent[r] = 0)' => ~Posted(r)' /\ ~Answering(r)'
                      /\ Posted(r)' => ~Answering(r)'
                      /\ \A k, n \in posts' : k.rid = r /\ n.rid = r => k = n
                      /\ \A g, i \in Handlers :
                           Busy(g)' /\ Busy(i)' /\ http'[g].rid = r /\ http'[i].rid = r
                             => g = i
    BY DEF OneAnswer
  <2> QED BY <1>1, <1>2, <1>3 DEF AnswerInv, OneAnswer
<1>5. \A r : Answered(r) => Answered(r)'
  BY <1>2, <1>3 DEF Answered
<1>6. ASSUME Busy(h)
      PROVE  ~Answering(r0)' /\ ~Posted(r0) /\ sent[r0] # 0
  <2>1. r0 \in ReqIds /\ Answering(r0)
    BY <1>6 DEF TypeOK, HttpTypeOK, Busy, Answering
  <2>2. ~Posted(r0) /\ sent[r0] # 0
    BY <2>1 DEF AnswerInv, OneAnswer
  <2>3. ~Answering(r0)'
    <3> SUFFICES ASSUME NEW g \in Handlers, Busy(g)', http'[g].rid = r0
                 PROVE  FALSE
      BY DEF Answering
    <3> QED BY <1>1, <1>6, <2>1 DEF AnswerInv, OneAnswer
  <2> QED BY <2>2, <2>3
<1> QED BY <1>2, <1>4, <1>5, <1>6

LEMMA AnswersHttpFind ==
    ASSUME TypeOK, HeldInv, AnswerInv, NEW h \in Handlers, HttpFind(h)
    PROVE  AnswerInv'
<1>1. /\ http[h].pc = "find" /\ Busy(h) /\ http[h].rid \in ReqIds
      /\ UNCHANGED <<trk, tracked, mon, reqs, posts, sent, open>>
  BY DEF HttpFind, HttpUnchanged, Busy, TypeOK, HttpTypeOK
<1>2. \A r : InMap(r)' <=> InMap(r)
  BY <1>1 DEF InMap
<1>3. CASE http' = [http EXCEPT ![h] = HttpIdle]
  <2>1. /\ ~Busy(h)' /\ http'[h].pc = "idle"
        /\ \A g \in Handlers : g # h => http'[g] = http[g]
    BY <1>3 DEF Busy, HttpIdle, TypeOK, HttpTypeOK
  <2>2. /\ OneAnswer' /\ \A r : Answering(r)' => Answering(r)
        /\ \A r : Answered(r) => Answered(r)'
    BY <1>1, <2>1, HandlerLeaves
  <2> QED BY <1>1, <1>2, <2>1, <2>2, FrameAnswers
<1>4. ASSUME NEW p \in Holders(http[h].rid), http' = [http EXCEPT ![h] = Found(h, p)]
      PROVE  AnswerInv'
  <2>1. p \in tracked /\ p \in Panes /\ trk[p].rid = http[h].rid
    BY DEF Holders, TypeOK, TrackerTypeOK
  <2>2. /\ http'[h].pc \in {"store", "fail"} /\ http'[h].rid = http[h].rid
        /\ http'[h].pane = p
        /\ \A g \in Handlers : g # h => http'[g] = http[g]
    BY <1>4 DEF Found, TypeOK, HttpTypeOK
  <2>3. \A g \in Handlers : (Busy(g)' <=> Busy(g)) /\ http'[g].rid = http[g].rid
    BY <1>1, <2>2 DEF Busy
  <2>4. \A r : Answering(r)' <=> Answering(r)
    BY <2>3 DEF Answering
  <2>5. \A r : (Posted(r)' <=> Posted(r)) /\ (Answered(r) <=> Answered(r)')
    BY <1>1, <2>4 DEF Posted, Answered
  <2>6. OneAnswer'
    BY <1>1, <2>3, <2>4, <2>5 DEF AnswerInv, OneAnswer
  <2>7. TrackerStage'
    BY <1>1, <1>2, <2>4, <2>5 DEF AnswerInv, TrackerStage, Stage
  <2>8. trk[p].st \in {"AUTH_PENDING", "FAILED"}
    BY <1>1, <2>1, StillWaiting DEF Answering
  <2>9. HttpStage'
    BY <1>1, <2>1, <2>2, <2>8 DEF AnswerInv, HttpStage
  <2>10. MonStage'
    BY <1>1 DEF AnswerInv, MonStage, Me
  <2> QED BY <2>6, <2>7, <2>9, <2>10 DEF AnswerInv
<1> QED BY <1>3, <1>4 DEF HttpFind

\* What a handler does to the tracker it found, when its pane is still tracked.
LEMMA HandlerWrites ==
    ASSUME TypeOK, AnswerInv, MaxPosts <= 1,
           NEW h \in Handlers, http[h].pc \in {"store", "fail"}, ~Busy(h)',
           NEW r, r = http[h].rid, NEW w, w = http[h].pane,
           NEW t \in Trackers,
           w \in tracked => t.rid = trk[w].rid,
           t.code \in {None, r},
           t.st = "FAILED" \/ (t.st = "AUTH_PENDING" /\ t.st = trk[w].st),
           \A p \in Panes : trk'[p] = IF p = w /\ p \in tracked THEN t ELSE trk[p],
           http'[h].pc \notin {"store", "fail"},
           \A g \in Handlers : g # h => http'[g] = http[g],
           UNCHANGED <<tracked, mon, reqs, posts, sent, open>>
    PROVE  AnswerInv'
<1>1. /\ Busy(h) /\ r \in ReqIds /\ w \in Panes
      /\ w \in tracked => trk[w].rid = r /\ trk[w].st \in {"AUTH_PENDING", "FAILED"}
  BY DEF Busy, TypeOK, HttpTypeOK, AnswerInv, HttpStage
<1>2. /\ OneAnswer' /\ \A q : Answering(q)' => Answering(q)
      /\ \A q : Answered(q) => Answered(q)'
      /\ ~Answering(r)' /\ ~Posted(r) /\ sent[r] # 0
  BY <1>1, HandlerLeaves
<1>3. sent[r] = 1
  BY <1>1, <1>2, CoordinatorAssumption DEF TypeOK, AgentTypeOK
<1>4. Answered(r)'
  BY <1>1, <1>2, <1>3 DEF Answered, Posted
<1>5. TrackerStage'
  <2> SUFFICES ASSUME NEW p \in Panes PROVE Stage(trk[p])'
    BY DEF TrackerStage
  <2>1. CASE p = w /\ p \in tracked
    <3>1. trk'[p] = t /\ t.rid = r /\ t.code \in {None, r}
          /\ t.st \in {"AUTH_PENDING", "FAILED"} /\ r # None
      BY <1>1, <2>1, CoordinatorAssumption
    <3> QED BY <1>2, <1>4, <3>1 DEF Stage, Early
  <2>2. CASE ~(p = w /\ p \in tracked)
    <3>1. trk'[p] = trk[p] /\ Stage(trk[p])
      BY <2>2 DEF AnswerInv, TrackerStage
    <3> QED BY <1>2, <3>1 DEF Stage, InMap
  <2> QED BY <2>1, <2>2
<1>6. \A p \in Panes : /\ trk'[p].rid = trk[p].rid
                       /\ trk'[p].st # trk[p].st =>
                            trk[p].st = "AUTH_PENDING" /\ trk'[p].st = "FAILED"
  BY <1>1
<1>7. HttpStage'
  <2> SUFFICES ASSUME NEW g \in Handlers, http'[g].pc \in {"store", "fail"},
                      http'[g].pane \in open \cup tracked
               PROVE  /\ http'[g].pane \in tracked
                      /\ trk'[http'[g].pane].rid = http'[g].rid
                      /\ trk'[http'[g].pane].st \in {"AUTH_PENDING", "FAILED"}
    BY DEF HttpStage
  <2>1. g # h /\ http'[g] = http[g] /\ http[g].pane \in Panes
    BY DEF TypeOK, HttpTypeOK
  <2>2. /\ http[g].pane \in tracked
        /\ trk[http[g].pane].rid = http[g].rid
        /\ trk[http[g].pane].st \in {"AUTH_PENDING", "FAILED"}
    BY <2>1 DEF AnswerInv, HttpStage
  <2> QED BY <1>6, <2>1, <2>2
<1>8. MonStage'
  <2> SUFFICES ASSUME mon.pc # "idle"
               PROVE  \/ trk'[Me].st = mon.cur
                      \/ mon.cur = "AUTH_PENDING" /\ trk'[Me].st = "FAILED"
    BY DEF MonStage, Me
  <2> QED BY <1>6 DEF AnswerInv, MonStage, TypeOK, MonTypeOK, Me
<1> QED BY <1>2, <1>5, <1>7, <1>8 DEF AnswerInv

LEMMA AnswersHttpStore ==
    ASSUME TypeOK, AnswerInv, MaxPosts <= 1, NEW h \in Handlers, HttpStore(h)
    PROVE  AnswerInv'
<1> DEFINE r == http[h].rid
           w == http[h].pane
           t == [trk[w] EXCEPT !.code = r]
<1>1. /\ http[h].pc = "store" /\ w \in Panes /\ r \in ReqIds
      /\ UNCHANGED <<tracked, mon, reqs, posts, sent, open>>
      /\ \A p \in Panes : trk'[p] = IF p = w /\ p \in tracked THEN t ELSE trk[p]
      /\ http'[h].pc = "idle" /\ \A g \in Handlers : g # h => http'[g] = http[g]
  BY DEF HttpStore, HttpUnchanged, HttpIdle, TypeOK, HttpTypeOK
<1>2. t \in Trackers /\ t.rid = trk[w].rid /\ t.code = r /\ t.st = trk[w].st
  BY <1>1 DEF Trackers, MaybeReq, TypeOK, TrackerTypeOK
<1>3. ~Busy(h)'
  BY <1>1 DEF Busy
<1>4. w \in tracked => trk[w].st \in {"AUTH_PENDING", "FAILED"}
  BY <1>1 DEF AnswerInv, HttpStage
<1>5. CASE w \in tracked
  <2> HIDE DEF t, r, w
  <2>1. http[h].rid = r /\ http[h].pane = w
    BY DEF r, w
  <2> QED BY <1>1, <1>2, <1>3, <1>4, <1>5, <2>1, HandlerWrites
<1>6. CASE w \notin tracked
  <2>1. UNCHANGED trk
    BY <1>6 DEF HttpStore, TypeOK, TrackerTypeOK
  <2>2. /\ OneAnswer' /\ \A q : Answering(q)' => Answering(q)
        /\ \A q : Answered(q) => Answered(q)'
    BY <1>1, <1>3, HandlerLeaves
  <2> QED BY <1>1, <2>1, <2>2, FrameAnswers DEF InMap
<1> QED BY <1>5, <1>6

LEMMA AnswersHttpFail ==
    ASSUME TypeOK, AnswerInv, MaxPosts <= 1, NEW h \in Handlers, HttpFail(h)
    PROVE  AnswerInv'
<1> DEFINE r == http[h].rid
           w == http[h].pane
           t == SetState(trk[w], "FAILED")
<1>1. /\ http[h].pc = "fail" /\ w \in Panes /\ r \in ReqIds
      /\ UNCHANGED <<tracked, mon, reqs, posts, sent, open>>
      /\ \A p \in Panes : trk'[p] = IF p = w /\ p \in tracked THEN t ELSE trk[p]
      /\ http'[h].pc = "drop" /\ \A g \in Handlers : g # h => http'[g] = http[g]
  BY DEF HttpFail, HttpUnchanged, HttpIdle, TypeOK, HttpTypeOK
<1>2. trk[w] \in Trackers /\ Stage(trk[w])
  BY <1>1 DEF TypeOK, TrackerTypeOK, AnswerInv, TrackerStage
<1>3. t \in Trackers /\ t.rid = trk[w].rid /\ t.code = trk[w].code /\ t.st = "FAILED"
  BY <1>2, SetStateType DEF States
<1>4. ~Busy(h)'
  BY <1>1 DEF Busy
<1>5. CASE w \in tracked
  <2>1. trk[w].rid = r
    BY <1>1, <1>5 DEF AnswerInv, HttpStage
  <2>2. t.code \in {None, r}
    BY <1>2, <1>3, <2>1 DEF Stage
  <2> HIDE DEF t, r, w
  <2>3. http[h].rid = r /\ http[h].pane = w
    BY DEF r, w
  <2> QED BY <1>1, <1>3, <1>4, <1>5, <2>2, <2>3, HandlerWrites
<1>6. CASE w \notin tracked
  <2>1. UNCHANGED trk
    BY <1>6 DEF HttpFail, TypeOK, TrackerTypeOK
  <2>2. /\ OneAnswer' /\ \A q : Answering(q)' => Answering(q)
        /\ \A q : Answered(q) => Answered(q)'
    BY <1>1, <1>4, HandlerLeaves
  <2> QED BY <1>1, <2>1, <2>2, FrameAnswers DEF InMap
<1> QED BY <1>5, <1>6

LEMMA AnswersHttpDrop ==
    ASSUME TypeOK, AnswerInv, NEW h \in Handlers, HttpDrop(h)
    PROVE  AnswerInv'
<1>1. /\ UNCHANGED <<trk, tracked, mon, posts, sent, open>> /\ cleanupRequest(http[h].rid)
      /\ http'[h].pc = "idle" /\ \A g \in Handlers : g # h => http'[g] = http[g]
  BY DEF HttpDrop, HttpUnchanged, HttpIdle, TypeOK, HttpTypeOK
<1>2. ~Busy(h)'
  BY <1>1 DEF Busy
<1>3. /\ OneAnswer' /\ \A q : Answering(q)' => Answering(q)
      /\ \A q : Answered(q) => Answered(q)'
  BY <1>1, <1>2, HandlerLeaves
<1>4. \A r : InMap(r)' => InMap(r)
  BY <1>1, DroppedType DEF cleanupRequest, InMap, TypeOK
<1> QED BY <1>1, <1>3, <1>4, FrameAnswers

LEMMA AnswersHttp ==
    ASSUME TypeOK, HeldInv, AnswerInv, MaxPosts <= 1, NEW h \in Handlers, HttpStep(h)
    PROVE  AnswerInv'
BY AnswersHttpLookup, AnswersHttpFind, AnswersHttpStore, AnswersHttpFail, AnswersHttpDrop
   DEF HttpStep

LEMMA AnswersAgent ==
    ASSUME TypeOK, AnswerInv, MaxPosts <= 1, AgentStep \/ (\E m \in posts : LoseAnswer(m))
    PROVE  AnswerInv'
<1>1. UNCHANGED <<trk, tracked, mon, reqs, http, open>>
  BY DEF AgentStep, LoseAnswer, checkPendingRequests, processAuthRequest,
         AgentUnchanged, coordVars
<1>2. \A r : (Answering(r)' <=> Answering(r)) /\ (InMap(r)' <=> InMap(r))
  BY <1>1 DEF Answering, Busy, InMap
<1>3. CASE UNCHANGED <<posts, sent>>
  BY <1>1, <1>2, <1>3, SameMessages, FrameAnswers DEF AnswerInv
<1>4. ASSUME NEW r \in todo, NEW ok \in BOOLEAN, processAuthRequest(r, ok), sent[r] < MaxPosts
      PROVE  AnswerInv'
  <2> DEFINE k == [rid |-> r, ok |-> ok, n |-> sent[r] + 1]
  <2>1. /\ r \in ReqIds /\ sent[r] = 0 /\ posts' = posts \cup {k} /\ k.rid = r
        /\ sent' = [sent EXCEPT ![r] = 1]
    BY <1>4, CoordinatorAssumption DEF processAuthRequest, TypeOK, AgentTypeOK
  <2>2. ~Posted(r) /\ ~Answering(r)
    BY <2>1 DEF AnswerInv, OneAnswer
  <2> HIDE DEF k
  <2>3. \A q : q # r => (Posted(q)' <=> Posted(q))
    BY <2>1 DEF Posted
  <2>4. \A q \in ReqIds : sent'[q] = IF q = r THEN 1 ELSE sent[q]
    BY <2>1 DEF TypeOK, AgentTypeOK
  <2>5. OneAnswer'
    <3> SUFFICES ASSUME NEW q \in ReqIds
                 PROVE  /\ (sent[q] = 0)' => ~Posted(q)' /\ ~Answering(q)'
                        /\ Posted(q)' => ~Answering(q)'
                        /\ \A m, n \in posts' : m.rid = q /\ n.rid = q => m = n
                        /\ \A g, i \in Handlers :
                             Busy(g)' /\ Busy(i)' /\ http'[g].rid = q /\ http'[i].rid = q
                               => g = i
      BY DEF OneAnswer
    <3>1. CASE q = r
      BY <1>1, <1>2, <2>1, <2>2, <2>4, <3>1 DEF AnswerInv, OneAnswer, Posted, Busy
    <3>2. CASE q # r
      BY <1>1, <1>2, <2>1, <2>3, <2>4, <3>2 DEF AnswerInv, OneAnswer, Busy
    <3> QED BY <3>1, <3>2
  <2>6. \A q : Answered(q) => Answered(q)'
    BY <1>2, <2>1, <2>3, <2>4 DEF Answered
  <2> QED BY <1>1, <1>2, <2>5, <2>6, FrameAnswers
<1>5. ASSUME NEW m \in posts, LoseAnswer(m) PROVE AnswerInv'
  <2>1. UNCHANGED sent /\ posts' \subseteq posts
    BY <1>5 DEF LoseAnswer
  <2>2. \A q : Posted(q)' => Posted(q)
    BY <2>1 DEF Posted
  <2>3. OneAnswer'
    BY <1>1, <1>2, <2>1, <2>2 DEF AnswerInv, OneAnswer, Busy
  <2>4. \A q : Answered(q) => Answered(q)'
    BY <1>2, <2>1, <2>2 DEF Answered
  <2> QED BY <1>1, <1>2, <2>3, <2>4, FrameAnswers
<1> QED BY <1>3, <1>4, <1>5 DEF AgentStep, checkPendingRequests, processAuthRequest

LEMMA AnswersPane ==
    ASSUME TypeOK, AnswerInv, NEW p \in Panes, PaneStep(p)
    PROVE  AnswerInv'
<1>1. UNCHANGED <<tracked, trk, reqs, mon, http, posts, sent>> /\ open' \subseteq open
  BY DEF PaneStep, Read, HitLimit, Scroll, Compact, Close, PaneUnchanged,
         coordVars, agentVars
<1> QED BY <1>1, SameMessages, FrameAnswers DEF InMap, AnswerInv

\* A timeout that comes while an answer is under way would undo HttpStage: no handler
\* is descheduled for that long.
LEMMA AnswersClock ==
    ASSUME TypeOK, AnswerInv, Stall = FALSE, NEW p \in Panes,
           TimePasses(p) \/ (\E a \in Cooldowns : CooldownEnds(p, a))
    PROVE  AnswerInv'
<1>1. UNCHANGED <<tracked, reqs, mon, http, posts, sent, open>>
  BY DEF TimePasses, CooldownEnds, agentVars
<1>2. \A q \in Panes : /\ trk'[q].rid = trk[q].rid /\ trk'[q].st = trk[q].st
                       /\ trk'[q].code = trk[q].code
                       /\ trk'[q].aged = trk[q].aged \/ (\A r : ~Answering(r))
  BY DEF TimePasses, CooldownEnds, TypeOK, TrackerTypeOK, Trackers, Answering, Busy
<1>3. /\ \A r : (Answering(r)' <=> Answering(r)) /\ (Answered(r)' <=> Answered(r))
      /\ OneAnswer'
  BY <1>1, SameMessages DEF AnswerInv
<1>4. TrackerStage'
  <2> SUFFICES ASSUME NEW q \in Panes PROVE Stage(trk[q])'
    BY DEF TrackerStage
  <2>1. Stage(trk[q])
    BY DEF AnswerInv, TrackerStage
  <2> QED BY <1>1, <1>2, <1>3, <2>1 DEF Stage, InMap
<1>5. HttpStage'
  BY <1>1, <1>2 DEF AnswerInv, HttpStage, TypeOK, HttpTypeOK
<1>6. MonStage'
  BY <1>1, <1>2 DEF AnswerInv, MonStage, Me, TypeOK, MonTypeOK
<1> QED BY <1>3, <1>4, <1>5, <1>6 DEF AnswerInv

LEMMA AnswersRestart ==
    ASSUME TypeOK, AnswerInv, Restart
    PROVE  AnswerInv'
<1>1. /\ \A p \in Panes : trk'[p] = NewTracker
      /\ \A h \in Handlers : http'[h].pc = "idle"
      /\ mon'.pc = "idle" /\ UNCHANGED <<posts, sent>>
  BY DEF Restart, MonIdle, HttpIdle, agentVars
<1>2. \A h \in Handlers : ~Busy(h)'
  BY <1>1 DEF Busy
<1>3. \A r : ~Answering(r)' /\ (Posted(r)' <=> Posted(r))
  BY <1>1, <1>2 DEF Answering, Posted
<1>4. OneAnswer'
  BY <1>1, <1>2, <1>3 DEF AnswerInv, OneAnswer
<1>5. TrackerStage'
  BY <1>1 DEF TrackerStage, Stage, NewTracker, Early
<1>6. HttpStage' /\ MonStage'
  BY <1>1 DEF HttpStage, MonStage
<1> QED BY <1>4, <1>5, <1>6 DEF AnswerInv

LEMMA AnswerInvariant ==
    ASSUME MaxPosts <= 1, Stall = FALSE
    PROVE  Spec => []AnswerInv
<1>1. TypeOK /\ Ownership /\ HeldInv /\ AnswerInv /\ [Next]_vars => AnswerInv'
  <2>1. ASSUME TypeOK, AnswerInv, UNCHANGED vars PROVE AnswerInv'
    BY <2>1, SameMessages, FrameAnswers DEF vars, InMap, AnswerInv
  <2> QED BY <2>1, AnswersMonitor, AnswersPoll, AnswersRemoveTracker, AnswersHttp,
             AnswersAgent, AnswersPane, AnswersClock, AnswersRestart DEF Next
<1> QED BY <1>1, AnswerInit, OwnershipInvariant, HeldWhileOpen, PTL DEF Spec

\* When the agent answers a request at most once and no HTTP handler is descheduled for
\* longer than a timeout, the code in a tracker is the one of its request, over any number
\* of logins, timeouts, failed logins, lost answers, closed panes and restarts.
THEOREM CodeAnswers ==
    ASSUME MaxPosts <= 1, Stall = FALSE
    PROVE  Spec => []CodeAnswersRequest
<1>1. AnswerInv => CodeAnswersRequest
  BY DEF AnswerInv, TrackerStage, Stage, CodeAnswersRequest
<1> QED BY <1>1, AnswerInvariant, PTL

-----------------------------------------------------------------------------
(* The resume prompt is due.  ResumeAfterLogin is not inductive: an "ok" in *)
(* the window is the one of the request at hand because it was not there    *)
(* when the login URL was read, and because no code but that of the request *)
(* made for a prompt can be accepted by it (Current).                       *)

\* The login prompt of the pane is the one that request q was made for.
Current(p, q) == Owner(q, p) /\ mode[p] = "prompt" /\ reqs[q].url = logins[p]
Binding(p) == mon.pc = "bind" /\ Me = p
Working(p) == mon.pc = "handle" /\ Me = p
BeforeRequest == {"RATE_LIMITED", "AWAITING_METHOD_SELECT", "AWAITING_URL"}

\* URLs are numbered as they are shown.
Numbered(p, out) == \A i \in DOMAIN out : out[i].n <= logins[p]
UrlsShown ==
    /\ \A p \in Panes : trk[p].url <= logins[p] /\ Numbered(p, screen[p])
    /\ \A p \in Panes, q \in ReqIds : Owner(q, p) => reqs[q].url <= logins[p]
    /\ mon.pc = "handle" => Numbered(Me, mon.out)

\* A prompt is on the screen as long as Claude waits at it.
PromptShown ==
    \A p \in Panes : mode[p] = "prompt" => Shown(screen[p]) \cap {"url", "paste"} # {}

\* A request is made for a prompt at most once: nobody starts over while it is up.
MadeOnce ==
    \A p \in Panes, q \in ReqIds :
        Current(p, q) =>
          /\ trk[p].rid \in {None, q}
          /\ trk[p].st \in BeforeRequest => Binding(p)
          /\ Binding(p) => mon.rid = q
          /\ Working(p) => /\ mon.cur \notin BeforeRequest
                           /\ mon.cur = "IDLE" => DetectState(mon.out) # "RATE_LIMITED"

\* Past the early states a tracker has a request, but for a failure that came late.
LateBound ==
    /\ \A p \in Panes : trk[p].st \notin Early \cup {"FAILED"} => trk[p].rid # None
    /\ mon.pc = "handle" /\ mon.cur \notin Early \cup {"FAILED"} => Mine.rid # None

\* Where an "ok" comes from.
OkIsOurs ==
    /\ \A p \in Panes : "ok" \in Shown(screen[p]) =>
          /\ trk[p].rid # None => trk[p].rid \in accepted
          /\ Binding(p) => mon.rid \in accepted
          /\ trk[p].st = "AWAITING_URL" => Binding(p)
          /\ Working(p) => /\ mon.cur # "AWAITING_URL"
                           /\ mon.cur \in BeforeRequest => "ok" \in Shown(mon.out)
    /\ \A p \in Panes : Working(p) /\ mon.cur = "AWAITING_CONFIRM"
          /\ "ok" \in Shown(mon.out) => Mine.rid \in accepted

LoginInv ==
    UrlsShown /\ PromptShown /\ MadeOnce /\ LateBound /\ OkIsOurs /\ ResumeAfterLogin

LEMMA LoginInit == Init => LoginInv
<1> SUFFICES ASSUME Init PROVE LoginInv
  OBVIOUS
<1>1. UrlsShown /\ PromptShown /\ MadeOnce
  BY CoordinatorAssumption
     DEF Init, UrlsShown, PromptShown, MadeOnce, Numbered, NewTracker, MonIdle, Owner, Current
<1>2. LateBound /\ OkIsOurs /\ ResumeAfterLogin
  BY DEF Init, LateBound, OkIsOurs, ResumeAfterLogin, Shown, NewTracker, MonIdle, Early,
         Working
<1> QED BY <1>1, <1>2 DEF LoginInv

LEMMA DetectShows ==
    \A out :
        /\ DetectState(out) = "RESUMING" => "ok" \in Shown(out)
        /\ DetectState(out) = "AWAITING_URL" => Shown(out) \cap {"ok", "fail"} = {}
        /\ DetectState(out) = "AWAITING_METHOD_SELECT" =>
             "method" \in Shown(out) /\ Shown(out) \cap {"ok", "fail", "url", "paste"} = {}
        /\ DetectState(out) = "RATE_LIMITED" =>
             Shown(out) \cap {"url", "paste", "method"} = {}
BY DEF DetectState

LEMMA ExtractShown ==
    ASSUME NEW p, NEW out \in Seq(Markers), Numbered(p, out), logins[p] \in Nat
    PROVE  ExtractOAuthURL(out) <= logins[p]
<1>1. CASE ~ \E i \in DOMAIN out : FirstUrlAt(out, i)
  BY <1>1 DEF ExtractOAuthURL
<1>2. CASE \E i \in DOMAIN out : FirstUrlAt(out, i)
  BY <1>2 DEF ExtractOAuthURL, Numbered
<1> QED BY <1>1, <1>2

LEMMA LoginTypes ==
    ASSUME TypeOK
    PROVE  \A p \in Panes : /\ logins[p] \in Nat /\ trk[p] \in Trackers
                            /\ screen[p] \in Seq(Markers)
BY CoordinatorAssumption DEF TypeOK, TrackerTypeOK, ClaudeTypeOK, Urls

-----------------------------------------------------------------------------
(* The monitor.                                                             *)

\* Requests keep their pane and their URL.
SameRequests ==
    \A q, p : /\ Owner(q, p)' <=> Owner(q, p)
              /\ Owner(q, p) => reqs'[q].url = reqs[q].url

LEMMA CleanupSame ==
    ASSUME TypeOK, NEW r, UNCHANGED reqs \/ cleanupRequest(r)
    PROVE  SameRequests
BY DroppedType DEF cleanupRequest, SameRequests, Owner, TypeOK

\* What a handler must make sure of.
LEMMA HandlerLogs ==
    ASSUME TypeOK, LoginInv, mon.pc # "idle", MonDone, SameRequests,
           NEW t \in Trackers, Become(t),
           t.url <= logins[Me],
           \A q \in ReqIds :
               Current(Me, q) => t.rid \in {None, q} /\ t.st \notin BeforeRequest,
           t.st \notin Early \cup {"FAILED"} => t.rid # None,
           "ok" \in Shown(screen[Me]) =>
               /\ t.rid # None => t.rid \in accepted
               /\ t.st # "AWAITING_URL",
           t.st = "RESUMING" => t.rid \in accepted
    PROVE  LoginInv'
<1>1. \A p \in Panes : trk'[p] = IF p = Me THEN t ELSE trk[p]
  BY DEF Become, TypeOK, TrackerTypeOK
<1>2. UNCHANGED <<mode, screen, logins, accepted>> /\ mon' = MonIdle
  BY DEF MonDone, claudeVars
<1>3. \A p : ~Binding(p)' /\ ~Working(p)'
  BY <1>2 DEF Binding, Working, MonIdle
<1>4. \A p, q : Current(p, q)' <=> Current(p, q)
  BY <1>2 DEF SameRequests, Current
<1>5. UrlsShown'
  <2>1. \A p \in Panes : trk'[p].url <= logins'[p] /\ Numbered(p, screen[p])'
    BY <1>1, <1>2 DEF LoginInv, UrlsShown, Numbered
  <2>2. \A p \in Panes, q \in ReqIds : Owner(q, p)' => reqs'[q].url <= logins'[p]
    BY <1>2 DEF LoginInv, UrlsShown, SameRequests
  <2> QED BY <1>2, <2>1, <2>2 DEF UrlsShown, MonIdle
<1>6. PromptShown'
  BY <1>2 DEF LoginInv, PromptShown
<1>7. MadeOnce'
  <2> SUFFICES ASSUME NEW p \in Panes, NEW q \in ReqIds, Current(p, q)
               PROVE  trk'[p].rid \in {None, q} /\ trk'[p].st \notin BeforeRequest
    BY <1>3, <1>4 DEF MadeOnce
  <2>1. CASE p = Me
    BY <1>1, <2>1
  <2>2. CASE p # Me
    BY <1>1, <2>2 DEF LoginInv, MadeOnce, Binding
  <2> QED BY <2>1, <2>2
<1>8. LateBound'
  BY <1>1, <1>2 DEF LoginInv, LateBound, MonIdle
<1>9. OkIsOurs'
  <2> SUFFICES ASSUME NEW p \in Panes, "ok" \in Shown(screen[p])
               PROVE  /\ trk'[p].rid # None => trk'[p].rid \in accepted
                      /\ trk'[p].st # "AWAITING_URL"
    BY <1>2, <1>3 DEF OkIsOurs
  <2>1. CASE p = Me
    BY <1>1, <2>1
  <2>2. CASE p # Me
    BY <1>1, <2>2 DEF LoginInv, OkIsOurs, Binding
  <2> QED BY <2>1, <2>2
<1>10. ResumeAfterLogin'
  BY <1>1, <1>2 DEF LoginInv, ResumeAfterLogin
<1> QED BY <1>5, <1>6, <1>7, <1>8, <1>9, <1>10 DEF LoginInv

\* What a handler may rely on.
LEMMA HandlerKnows ==
    ASSUME TypeOK, HeldInv, LoginInv, mon.pc = "handle"
    PROVE  /\ Me \in Panes /\ Mine \in Trackers /\ Mine.url <= logins[Me]
           /\ \A q \in ReqIds :
                Current(Me, q) =>
                  /\ Mine.rid \in {None, q} /\ Mine.st \notin BeforeRequest
                  /\ mon.cur \notin BeforeRequest
                  /\ mon.cur = "IDLE" => DetectState(mon.out) # "RATE_LIMITED"
           /\ Mine.st \notin Early \cup {"FAILED"} => Mine.rid # None
           /\ mon.cur \notin Early \cup {"FAILED"} => Mine.rid # None
           /\ "ok" \in Shown(screen[Me]) =>
                /\ Mine.rid # None => Mine.rid \in accepted
                /\ Mine.st # "AWAITING_URL" /\ mon.cur # "AWAITING_URL"
                /\ mon.cur \in BeforeRequest => "ok" \in Shown(mon.out)
           /\ mon.cur = "AWAITING_CONFIRM" /\ "ok" \in Shown(mon.out) => Mine.rid \in accepted
           /\ Mine.st = "RESUMING" => Mine.rid \in accepted
           /\ Mine.st \in Early => Mine.rid = None
           /\ mon.cur \in Early => Mine.rid = None
<1>1. /\ Me \in Panes /\ Mine \in Trackers /\ Working(Me) /\ ~Binding(Me)
      /\ Mine = trk[Me]
  BY HandlerTypes DEF Working, Binding, Mine, Me
<1>2. Mine.url <= logins[Me]
  BY <1>1 DEF LoginInv, UrlsShown
<1>3. \A q \in ReqIds :
        Current(Me, q) =>
          /\ Mine.rid \in {None, q} /\ Mine.st \notin BeforeRequest
          /\ mon.cur \notin BeforeRequest
          /\ mon.cur = "IDLE" => DetectState(mon.out) # "RATE_LIMITED"
  BY <1>1 DEF LoginInv, MadeOnce
<1>4. /\ Mine.st \notin Early \cup {"FAILED"} => Mine.rid # None
      /\ mon.cur \notin Early \cup {"FAILED"} => Mine.rid # None
  BY <1>1 DEF LoginInv, LateBound
<1>5. /\ "ok" \in Shown(screen[Me]) =>
           /\ Mine.rid # None => Mine.rid \in accepted
           /\ Mine.st # "AWAITING_URL" /\ mon.cur # "AWAITING_URL"
           /\ mon.cur \in BeforeRequest => "ok" \in Shown(mon.out)
      /\ mon.cur = "AWAITING_CONFIRM" /\ "ok" \in Shown(mon.out) => Mine.rid \in accepted
  BY <1>1 DEF LoginInv, OkIsOurs
<1>6. Mine.st = "RESUMING" => Mine.rid \in accepted
  BY <1>1 DEF LoginInv, ResumeAfterLogin
<1>7. /\ Mine.st \in Early => Mine.rid = None
      /\ mon.cur \in Early => Mine.rid = None
  BY <1>1 DEF HeldInv, EarlyFree, MonFree
<1> QED BY <1>1, <1>2, <1>3, <1>4, <1>5, <1>6, <1>7

\* The tracker after a handler: as it was, moved on, or fresh.
LEMMA SameLogs ==
    ASSUME TypeOK, HeldInv, LoginInv, mon.pc = "handle", MonDone, SameRequests,
           NEW t \in Trackers, Become(t),
           t.st = Mine.st, t.rid = Mine.rid, t.url = Mine.url
    PROVE  LoginInv'
BY HandlerKnows, HandlerLogs

LEMMA StayLogs ==
    ASSUME TypeOK, HeldInv, LoginInv, mon.pc = "handle", MonDone, SameRequests, UNCHANGED trk
    PROVE  LoginInv'
<1>1. Mine \in Trackers /\ Become(Mine)
  BY HandlerTypes DEF Become, Mine, Me
<1> QED BY <1>1, SameLogs

LEMMA FreshLogs ==
    ASSUME TypeOK, HeldInv, LoginInv, mon.pc = "handle", MonDone, SameRequests,
           Become(NewTracker)
    PROVE  LoginInv'
<1>1. /\ NewTracker \in Trackers /\ NewTracker.st = "IDLE" /\ NewTracker.rid = None
      /\ NewTracker.url = 0
  BY NewTrackerType DEF NewTracker
<1>2. NewTracker.url <= logins[Me]
  BY <1>1, LoginTypes, HandlerTypes
<1> QED BY <1>1, <1>2, HandlerLogs DEF Early, BeforeRequest

LEMMA ResetIfAgedLogs ==
    ASSUME TypeOK, HeldInv, LoginInv, mon.pc = "handle", MonDone, ResetIfAged
    PROVE  LoginInv'
<1>1. SameRequests
  BY CleanupSame DEF ResetIfAged
<1>2. CASE Mine.aged
  BY <1>1, <1>2, FreshLogs DEF ResetIfAged, Reset
<1>3. CASE ~Mine.aged
  BY <1>1, <1>3, HandlerTypes, SameLogs DEF ResetIfAged
<1> QED BY <1>2, <1>3

\* Before there is a request.
LEMMA EarlyLogs ==
    ASSUME TypeOK, HeldInv, LoginInv, mon.pc = "handle", MonDone, SameRequests,
           \A q \in ReqIds : ~Current(Me, q),
           NEW t \in Trackers, Become(t), t.rid = None,
           t.st \in {"RATE_LIMITED", "AWAITING_METHOD_SELECT"}, t.url = Mine.url
    PROVE  LoginInv'
<1>1. t.url <= logins[Me]
  BY HandlerKnows
<1>2. t.st \in Early /\ t.st # "RESUMING" /\ t.st # "AWAITING_URL"
  BY DEF Early
<1> QED BY <1>1, <1>2, HandlerLogs

LEMMA MovedLogs ==
    ASSUME TypeOK, HeldInv, LoginInv, mon.pc = "handle", MonDone, SameRequests,
           mon.cur \notin Early \cup {"FAILED"},
           NEW s \in States \ Early, Become(SetState(Mine, s)),
           s = "RESUMING" => Mine.rid \in accepted
    PROVE  LoginInv'
<1> DEFINE t == SetState(Mine, s)
<1>1. Mine \in Trackers /\ s \notin BeforeRequest
  BY HandlerTypes DEF Early, BeforeRequest
<1>2. t \in Trackers /\ t.st = s /\ t.rid = Mine.rid /\ t.url = Mine.url
  BY <1>1, SetStateType DEF SetState, Trackers
<1> HIDE DEF t
<1>3. Become(t)
  BY DEF t
<1>4. s # "AWAITING_URL"
  BY DEF Early
<1> QED BY <1>1, <1>2, <1>3, <1>4, HandlerKnows, HandlerLogs

LEMMA LogsHandleIdle ==
    ASSUME TypeOK, HeldInv, LoginInv, HandleIdle
    PROVE  LoginInv'
<1>1. /\ mon.pc = "handle" /\ mon.cur = "IDLE" /\ MonDone /\ SameRequests
      /\ Mine \in Trackers /\ Mine.rid = None
  BY HandlerKnows, CleanupSame DEF HandleIdle, Handling, Early
<1>2. CASE RateLimitDetected /\ InjectLogin
  <2> DEFINE a == SetState(Mine, "RATE_LIMITED")
  <2>1. a \in Trackers /\ a.rid = None /\ a.url = Mine.url /\ a.st = "RATE_LIMITED"
    BY <1>1, SetStateType DEF SetState, Trackers, States
  <2>2. PICK t \in {a, SetCooldown(a, "login")} : Become(t)
    BY <1>2 DEF InjectLogin
  <2>3. t \in Trackers /\ t.rid = None /\ t.url = Mine.url /\ t.st = "RATE_LIMITED"
    BY <2>1, SetCooldownType DEF SetCooldown, Trackers, Cooldowns
  <2>4. \A q \in ReqIds : ~Current(Me, q)
    BY <1>1, <1>2, HandlerKnows DEF RateLimitDetected
  <2> QED BY <1>1, <2>2, <2>3, <2>4, EarlyLogs
<1>3. CASE InjectReminder
  <2> DEFINE a == SetCooldown(Mine, "compaction")
  <2>1. PICK t \in {a, Mine} : Become(t)
    BY <1>3 DEF InjectReminder
  <2>2. a \in Trackers /\ a.rid = Mine.rid /\ a.url = Mine.url /\ a.st = Mine.st
    BY <1>1, SetCooldownType DEF SetCooldown, Trackers, Cooldowns
  <2> HIDE DEF a
  <2>3. t \in Trackers /\ t.rid = Mine.rid /\ t.url = Mine.url /\ t.st = Mine.st
    BY <1>1, <2>2
  <2> QED BY <1>1, <2>1, <2>3, SameLogs
<1>4. CASE UNCHANGED trk
  BY <1>1, <1>4, StayLogs
<1> QED BY <1>2, <1>3, <1>4 DEF HandleIdle

\* A URL that Poll read with no "ok" next to it.
LEMMA TakeUrlLogs ==
    ASSUME TypeOK, HeldInv, LoginInv, mon.pc = "handle",
           mon.cur \in {"RATE_LIMITED", "AWAITING_METHOD_SELECT"},
           MonDone, UNCHANGED reqs, UrlSeen, TakeUrl
    PROVE  LoginInv'
<1> DEFINE a == SetState(Mine, "AWAITING_URL")
           u == ExtractOAuthURL(mon.out)
           t == [a EXCEPT !.url = u]
<1>1. /\ mon.cur \in BeforeRequest /\ mon.cur \in Early /\ SameRequests
      /\ Mine \in Trackers /\ Mine.rid = None /\ Me \in Panes /\ mon.out \in Seq(Markers)
  BY HandlerKnows, HandlerTypes, CleanupSame DEF BeforeRequest, Early
<1>2. u \in Urls /\ u <= logins[Me]
  <2>1. Numbered(Me, mon.out)
    BY DEF LoginInv, UrlsShown
  <2> QED BY <1>1, <2>1, ExtractType, ExtractShown, LoginTypes
<1> HIDE DEF u
<1>3. a \in Trackers /\ a.st = "AWAITING_URL" /\ a.rid = None
  BY <1>1, SetStateType DEF States
<1>4. t \in Trackers /\ t.st = "AWAITING_URL" /\ t.rid = None /\ t.url = u
  BY <1>2, <1>3 DEF Trackers
<1>5. Become(t)
  BY DEF TakeUrl, u
<1> HIDE DEF t
<1>6. "ok" \notin Shown(screen[Me])
  BY <1>1, DetectShows, HandlerKnows DEF UrlSeen
<1>7. \A q \in ReqIds : ~Current(Me, q)
  BY <1>1, HandlerKnows
<1> QED BY <1>1, <1>2, <1>4, <1>5, <1>6, <1>7, HandlerLogs DEF Early

LEMMA LogsHandleRateLimited ==
    ASSUME TypeOK, HeldInv, LoginInv, HandleRateLimited
    PROVE  LoginInv'
<1>1. /\ mon.pc = "handle" /\ mon.cur = "RATE_LIMITED" /\ MonDone
      /\ Mine \in Trackers /\ Mine.rid = None
  BY HandlerKnows DEF HandleRateLimited, Handling, Early
<1>2. CASE InjectMethodSelect /\ UNCHANGED reqs
  <2> DEFINE a == SetState(Mine, "AWAITING_METHOD_SELECT")
  <2>1. /\ a \in Trackers /\ a.rid = None /\ a.url = Mine.url
        /\ a.st = "AWAITING_METHOD_SELECT"
    BY <1>1, SetStateType DEF SetState, Trackers, States
  <2>2. PICK t \in {a, SetCooldown(a, "method_select")} : Become(t)
    BY <1>2 DEF InjectMethodSelect
  <2>3. /\ t \in Trackers /\ t.rid = None /\ t.url = Mine.url
        /\ t.st = "AWAITING_METHOD_SELECT"
    BY <2>1, SetCooldownType DEF SetCooldown, Trackers, Cooldowns
  <2>4. SameRequests /\ \A q \in ReqIds : ~Current(Me, q)
    BY <1>1, <1>2, HandlerKnows, CleanupSame DEF BeforeRequest
  <2> QED BY <1>1, <2>2, <2>3, <2>4, EarlyLogs
<1>3. CASE UrlSeen /\ TakeUrl /\ UNCHANGED reqs
  BY <1>1, <1>3, TakeUrlLogs
<1>4. CASE ResetIfAged
  BY <1>1, <1>4, ResetIfAgedLogs
<1> QED BY <1>2, <1>3, <1>4 DEF HandleRateLimited

LEMMA LogsHandleAwaitingMethodSelect ==
    ASSUME TypeOK, HeldInv, LoginInv, HandleAwaitingMethodSelect
    PROVE  LoginInv'
<1>1. mon.pc = "handle" /\ mon.cur = "AWAITING_METHOD_SELECT" /\ MonDone
  BY DEF HandleAwaitingMethodSelect, Handling
<1> QED BY <1>1, TakeUrlLogs, ResetIfAgedLogs DEF HandleAwaitingMethodSelect

LEMMA LogsHandleAwaitingURL ==
    ASSUME TypeOK, HeldInv, LoginInv, NEW r \in ReqIds, HandleAwaitingURL(r)
    PROVE  LoginInv'
<1>1. /\ mon.pc = "handle" /\ mon.cur = "AWAITING_URL" /\ Me \in Panes /\ Mine \in Trackers
      /\ Mine.rid = None /\ Mine.url <= logins[Me] /\ mon.out \in Seq(Markers)
      /\ "ok" \notin Shown(screen[Me])
      /\ \A q \in ReqIds : ~Current(Me, q)
  BY HandlerKnows, HandlerTypes DEF HandleAwaitingURL, Handling, Early, BeforeRequest
<1>2. CASE LoginUrl # 0 /\ Mine.rid = None
  <2> DEFINE u == LoginUrl
             new == [status |-> "pending", pane |-> Me, url |-> u]
             t == [Mine EXCEPT !.url = u]
  <2>1. /\ reqs[r].status = "unused" /\ reqs' = [reqs EXCEPT ![r] = new]
        /\ Become(t) /\ mon' = [mon EXCEPT !.pc = "bind", !.rid = r]
        /\ UNCHANGED <<mode, screen, logins, accepted>>
    BY <1>2 DEF HandleAwaitingURL, claudeVars
  <2>2. u \in Urls /\ u <= logins[Me]
    <3>1. Numbered(Me, mon.out)
      BY <1>1 DEF LoginInv, UrlsShown
    <3>2. /\ ExtractOAuthURL(mon.out) \in Urls
          /\ ExtractOAuthURL(mon.out) <= logins[Me]
      BY <1>1, <3>1, ExtractType, ExtractShown, LoginTypes
    <3> QED BY <1>1, <3>2 DEF LoginUrl, Trackers
  <2> HIDE DEF u
  <2>3. t.st = Mine.st /\ t.rid = None /\ t.url = u
    BY <1>1 DEF Trackers
  <2>4. \A p \in Panes : trk'[p] = IF p = Me THEN t ELSE trk[p]
    BY <2>1 DEF Become, TypeOK, TrackerTypeOK
  <2>5. /\ mon'.pc = "bind" /\ mon'.pane = Me /\ mon'.rid = r
    BY <2>1 DEF Me, TypeOK, MonTypeOK
  <2>6. \A p, q : /\ q # r => (/\ Owner(q, p)' <=> Owner(q, p)
                               /\ Owner(q, p) => reqs'[q].url = reqs[q].url)
                  /\ Owner(r, p)' => p = Me /\ reqs'[r].url = u
    BY <2>1 DEF Owner, TypeOK, TrackerTypeOK
  <2>7. \A p, q : Current(p, q)' => Current(p, q) \/ (q = r /\ p = Me)
    BY <2>1, <2>6 DEF Current
  <2>8. /\ Binding(Me)'
        /\ \A p : ~Working(p)' /\ ~Binding(p) /\ (p # Me => ~Binding(p)')
    BY <1>1, <2>5 DEF Binding, Working, Me
  <2> HIDE DEF t, new
  <2>9. UrlsShown'
    <3>1. \A p \in Panes : trk'[p].url <= logins'[p] /\ Numbered(p, screen[p])'
      BY <2>1, <2>2, <2>3, <2>4 DEF LoginInv, UrlsShown, Numbered
    <3>2. \A p \in Panes, q \in ReqIds : Owner(q, p)' => reqs'[q].url <= logins'[p]
      BY <2>1, <2>2, <2>6 DEF LoginInv, UrlsShown
    <3> QED BY <2>5, <3>1, <3>2 DEF UrlsShown
  <2>10. PromptShown'
    BY <2>1 DEF LoginInv, PromptShown
  <2>11. MadeOnce'
    <3> SUFFICES ASSUME NEW p \in Panes, NEW q \in ReqIds, Current(p, q)'
                 PROVE  /\ trk'[p].rid \in {None, q}
                        /\ trk'[p].st \in BeforeRequest => Binding(p)'
                        /\ Binding(p)' => mon'.rid = q
      BY <2>8 DEF MadeOnce
    <3>1. CASE p = Me
      BY <1>1, <2>3, <2>4, <2>5, <2>7, <2>8, <3>1
    <3>2. CASE p # Me
      BY <2>4, <2>7, <2>8, <3>2 DEF LoginInv, MadeOnce
    <3> QED BY <3>1, <3>2
  <2>12. LateBound'
    <3>1. \A p \in Panes : trk'[p].st = trk[p].st /\ trk'[p].rid = trk[p].rid
      BY <1>1, <2>3, <2>4 DEF Mine, Me
    <3> QED BY <2>5, <3>1 DEF LoginInv, LateBound
  <2>13. OkIsOurs'
    <3> SUFFICES ASSUME NEW p \in Panes, "ok" \in Shown(screen[p])
                 PROVE  /\ trk'[p].rid # None => trk'[p].rid \in accepted
                        /\ Binding(p)' => mon'.rid \in accepted
                        /\ trk'[p].st = "AWAITING_URL" => Binding(p)'
      BY <2>1, <2>8 DEF OkIsOurs
    <3>1. p # Me
      BY <1>1
    <3> QED BY <2>4, <2>8, <3>1 DEF LoginInv, OkIsOurs
  <2>14. ResumeAfterLogin'
    <3>1. \A p \in Panes : trk'[p].st = trk[p].st /\ trk'[p].rid = trk[p].rid
      BY <1>1, <2>3, <2>4 DEF Mine, Me
    <3> QED BY <2>1, <3>1 DEF LoginInv, ResumeAfterLogin
  <2> QED BY <2>9, <2>10, <2>11, <2>12, <2>13, <2>14 DEF LoginInv
<1>3. CASE ~(LoginUrl # 0 /\ Mine.rid = None)
  <2>1. ResetIfAged /\ MonDone
    BY <1>3 DEF HandleAwaitingURL, MonDone
  <2> QED BY <1>1, <2>1, ResetIfAgedLogs
<1> QED BY <1>2, <1>3

LEMMA LogsBindRequest ==
    ASSUME TypeOK, LoginInv, BindRequest
    PROVE  LoginInv'
<1> DEFINE a == SetState(Mine, "AUTH_PENDING")
           t == [a EXCEPT !.rid = mon.rid]
<1>1. /\ mon.pc = "bind" /\ MonDone /\ SameRequests /\ Become(t) /\ mon.rid \in ReqIds
      /\ Me \in Panes /\ Mine \in Trackers /\ Mine = trk[Me] /\ Binding(Me)
  BY HandlerTypes, CleanupSame DEF BindRequest, TypeOK, MonTypeOK, Mine, Me, Binding
<1>2. Mine.url <= logins[Me]
  BY <1>1 DEF LoginInv, UrlsShown
<1>3. a \in Trackers /\ a.st = "AUTH_PENDING" /\ a.url = Mine.url
  BY <1>1, SetStateType DEF SetState, Trackers, States
<1>4. /\ t \in Trackers /\ t.st = "AUTH_PENDING" /\ t.rid = mon.rid /\ t.url = Mine.url
  BY <1>1, <1>3 DEF Trackers, MaybeReq
<1> HIDE DEF t
<1>5. \A q \in ReqIds : Current(Me, q) => t.rid = q
  BY <1>1, <1>4 DEF LoginInv, MadeOnce
<1>6. "ok" \in Shown(screen[Me]) => t.rid \in accepted
  BY <1>1, <1>4 DEF LoginInv, OkIsOurs
<1>7. t.rid # None /\ t.st \notin BeforeRequest
  BY <1>1, <1>4, CoordinatorAssumption DEF BeforeRequest
<1> QED BY <1>1, <1>2, <1>4, <1>5, <1>6, <1>7, HandlerLogs

LEMMA LogsHandleAuthPending ==
    ASSUME TypeOK, HeldInv, LoginInv, HandleAuthPending
    PROVE  LoginInv'
<1>1. /\ mon.pc = "handle" /\ MonDone /\ SameRequests
      /\ mon.cur \notin Early \cup {"FAILED"}
  BY CleanupSame DEF HandleAuthPending, Handling, Early
<1>2. UNCHANGED trk \/ (\E s \in {"CODE_RECEIVED", "FAILED"} : Become(SetState(Mine, s)))
  BY DEF HandleAuthPending
<1>3. \A s \in {"CODE_RECEIVED", "FAILED"} : s \in States \ Early /\ s # "RESUMING"
  BY DEF States, Early
<1> QED BY <1>1, <1>2, <1>3, StayLogs, MovedLogs

LEMMA LogsHandleCodeReceived ==
    ASSUME TypeOK, HeldInv, LoginInv, HandleCodeReceived
    PROVE  LoginInv'
<1>1. /\ mon.pc = "handle" /\ MonDone /\ SameRequests
      /\ mon.cur \notin Early \cup {"FAILED"}
  BY CleanupSame DEF HandleCodeReceived, Handling, Early
<1>2. \E s \in {"AWAITING_CONFIRM", "FAILED"} : Become(SetState(Mine, s))
  BY DEF HandleCodeReceived
<1>3. \A s \in {"AWAITING_CONFIRM", "FAILED"} : s \in States \ Early /\ s # "RESUMING"
  BY DEF States, Early
<1> QED BY <1>1, <1>2, <1>3, MovedLogs

LEMMA LogsHandleAwaitingConfirm ==
    ASSUME TypeOK, HeldInv, LoginInv, HandleAwaitingConfirm
    PROVE  LoginInv'
<1>1. /\ mon.pc = "handle" /\ mon.cur = "AWAITING_CONFIRM" /\ MonDone /\ SameRequests
      /\ mon.cur \notin Early \cup {"FAILED"}
  BY CleanupSame DEF HandleAwaitingConfirm, Handling, Early
<1>2. DetectState(mon.out) = "RESUMING" => Mine.rid \in accepted
  BY <1>1, DetectShows, HandlerKnows
<1>3. \/ UNCHANGED trk
      \/ Become(SetState(Mine, "FAILED"))
      \/ Become(SetState(Mine, "RESUMING")) /\ Mine.rid \in accepted
  BY <1>2 DEF HandleAwaitingConfirm
<1>4. {"RESUMING", "FAILED"} \subseteq States \ Early
  BY DEF States, Early
<1> QED BY <1>1, <1>3, <1>4, StayLogs, MovedLogs

LEMMA LogsHandleLast ==
    ASSUME TypeOK, HeldInv, LoginInv, HandleResuming \/ HandleFailed
    PROVE  LoginInv'
<1>1. mon.pc = "handle" /\ MonDone /\ SameRequests
  BY CleanupSame DEF HandleResuming, HandleFailed, Handling
<1>2. UNCHANGED trk \/ Become(NewTracker)
  BY DEF HandleResuming, HandleFailed, Reset
<1> QED BY <1>1, <1>2, StayLogs, FreshLogs

LEMMA LogsMonitor ==
    ASSUME TypeOK, HeldInv, LoginInv, MonitorStep
    PROVE  LoginInv'
BY LogsHandleIdle, LogsHandleRateLimited, LogsHandleAwaitingMethodSelect,
   LogsHandleAwaitingURL, LogsBindRequest, LogsHandleAuthPending,
   LogsHandleCodeReceived, LogsHandleAwaitingConfirm, LogsHandleLast DEF MonitorStep

-----------------------------------------------------------------------------
(* The other actors.                                                       *)

\* A step of another goroutine, or of the clock: a tracker is left where it is, or failed.
LEMMA FrameLogs ==
    ASSUME LoginInv, SameRequests,
           UNCHANGED <<mon, mode, screen, logins, accepted>>,
           \A p \in Panes : /\ trk'[p].rid = trk[p].rid /\ trk'[p].url = trk[p].url
                            /\ trk'[p].st \in {trk[p].st, "FAILED"},
           mon.pc # "idle" => Me \in Panes
    PROVE  LoginInv'
<1>1. \A p, q : Current(p, q)' <=> Current(p, q)
  BY DEF SameRequests, Current
<1>2. \A p : (Binding(p)' <=> Binding(p)) /\ (Working(p)' <=> Working(p))
  BY DEF Binding, Working, Me
<1>3. "FAILED" \notin BeforeRequest \cup {"AWAITING_URL", "RESUMING"}
  BY DEF BeforeRequest
<1>4. UrlsShown' /\ PromptShown'
  BY DEF LoginInv, UrlsShown, PromptShown, Numbered, SameRequests, Me
<1>5. MadeOnce'
  BY <1>1, <1>2, <1>3 DEF LoginInv, MadeOnce
<1>6. LateBound'
  BY DEF LoginInv, LateBound, Mine, Me
<1>7. OkIsOurs'
  BY <1>2, <1>3 DEF LoginInv, OkIsOurs, Mine, Working, Me
<1>8. ResumeAfterLogin'
  BY <1>3 DEF LoginInv, ResumeAfterLogin
<1> QED BY <1>4, <1>5, <1>6, <1>7, <1>8 DEF LoginInv

LEMMA MonPane == ASSUME TypeOK PROVE mon.pc # "idle" => Me \in Panes
BY DEF TypeOK, MonTypeOK, Me

LEMMA LogsHttp ==
    ASSUME TypeOK, LoginInv, NEW h \in Handlers, HttpStep(h)
    PROVE  LoginInv'
<1>1. UNCHANGED <<mon, mode, screen, logins, accepted>>
  BY DEF HttpStep, HttpLookup, HttpFind, HttpStore, HttpFail, HttpDrop, HttpUnchanged,
         claudeVars
<1>2. \A p \in Panes : /\ trk'[p].rid = trk[p].rid /\ trk'[p].url = trk[p].url
                       /\ trk'[p].st \in {trk[p].st, "FAILED"}
  <2>1. CASE UNCHANGED trk
    BY <2>1
  <2>2. CASE HttpStore(h)
    BY <2>2 DEF HttpStore, TypeOK, TrackerTypeOK, Trackers
  <2>3. CASE HttpFail(h)
    BY <2>3 DEF HttpFail, SetState, TypeOK, TrackerTypeOK, Trackers
  <2> QED BY <2>1, <2>2, <2>3 DEF HttpStep, HttpLookup, HttpFind, HttpDrop
<1>3. SameRequests
  <2>1. CASE UNCHANGED reqs
    BY <2>1 DEF SameRequests, Owner
  <2>2. ASSUME NEW m \in posts, InMap(m.rid),
               reqs' = [reqs EXCEPT ![m.rid].status = "processing"]
        PROVE  SameRequests
    BY <2>2 DEF SameRequests, Owner, InMap, TypeOK, TrackerTypeOK, Requests
  <2>3. CASE HttpDrop(h)
    BY <2>3, CleanupSame DEF HttpDrop
  <2> QED BY <2>1, <2>2, <2>3 DEF HttpStep, HttpLookup, HttpFind, HttpStore, HttpFail
<1> QED BY <1>1, <1>2, <1>3, MonPane, FrameLogs

LEMMA LogsOutside ==
    ASSUME TypeOK, LoginInv,
           \/ AgentStep
           \/ \E m \in posts : LoseAnswer(m)
           \/ \E p \in Panes : Close(p) \/ TimePasses(p)
           \/ \E p \in Panes, a \in Cooldowns : CooldownEnds(p, a)
    PROVE  LoginInv'
<1>1. UNCHANGED <<reqs, mon, mode, screen, logins, accepted>>
  BY DEF AgentStep, LoseAnswer, checkPendingRequests, processAuthRequest, AgentUnchanged,
         Close, TimePasses, CooldownEnds, coordVars, claudeVars
<1>2. \A p \in Panes : /\ trk'[p].rid = trk[p].rid /\ trk'[p].url = trk[p].url
                       /\ trk'[p].st = trk[p].st
  BY DEF AgentStep, LoseAnswer, checkPendingRequests, processAuthRequest, AgentUnchanged,
         Close, TimePasses, CooldownEnds, coordVars, TypeOK, TrackerTypeOK, Trackers
<1>3. SameRequests
  BY <1>1 DEF SameRequests, Owner
<1> QED BY <1>1, <1>2, <1>3, MonPane, FrameLogs

LEMMA LogsPoll ==
    ASSUME TypeOK, LoginInv, NEW p \in Panes, Poll(p)
    PROVE  LoginInv'
<1>1. /\ UNCHANGED <<trk, reqs, mode, screen, logins, accepted>> /\ mon.pc = "idle"
      /\ trk[p] \in Trackers
  BY DEF Poll, claudeVars, TypeOK, TrackerTypeOK
<1>2. CASE mon' = mon
  <2>1. SameRequests
    BY <1>1 DEF SameRequests, Owner
  <2> QED BY <1>1, <1>2, <2>1, FrameLogs
<1>3. CASE mon' = [mon EXCEPT !.pc = "handle", !.pane = p, !.cur = trk[p].st,
                              !.out = screen[p]]
  <2>1. /\ mon'.pc = "handle" /\ mon'.pane = p /\ mon'.cur = trk[p].st
        /\ mon'.out = screen[p]
    BY <1>3 DEF TypeOK, MonTypeOK
  <2>2. /\ \A q : ~Binding(q) /\ ~Binding(q)' /\ (Working(q)' => q = p)
        /\ \A q, r : Current(q, r)' <=> Current(q, r)
    BY <1>1, <2>1 DEF Binding, Working, Me, Current, Owner
  <2>3. UrlsShown'
    BY <1>1, <2>1 DEF LoginInv, UrlsShown, Numbered, Owner, Me
  <2>4. PromptShown'
    BY <1>1 DEF LoginInv, PromptShown
  <2>5. MadeOnce'
    <3> SUFFICES ASSUME NEW q \in Panes, NEW r \in ReqIds, Current(q, r)
                 PROVE  /\ trk[q].rid \in {None, r}
                        /\ trk[q].st \notin BeforeRequest
                        /\ q = p => DetectState(screen[p]) # "RATE_LIMITED"
      BY <1>1, <2>1, <2>2 DEF MadeOnce
    <3>1. trk[q].rid \in {None, r} /\ trk[q].st \notin BeforeRequest
      BY <2>2 DEF LoginInv, MadeOnce
    <3>2. Shown(screen[q]) \cap {"url", "paste"} # {}
      BY DEF Current, LoginInv, PromptShown
    <3> QED BY <3>1, <3>2, DetectShows
  <2>6. LateBound'
    BY <1>1, <2>1 DEF LoginInv, LateBound, Mine
  <2>7. OkIsOurs'
    <3>1. trk[p].st = "AWAITING_CONFIRM" => trk[p].rid # None
      BY DEF LoginInv, LateBound, Early
    <3>2. \A q \in Panes : "ok" \in Shown(screen[q]) =>
              /\ trk[q].rid # None => trk[q].rid \in accepted
              /\ trk[q].st # "AWAITING_URL"
      BY <2>2 DEF LoginInv, OkIsOurs
    <3> QED BY <1>1, <2>1, <2>2, <3>1, <3>2 DEF OkIsOurs, Mine
  <2>8. ResumeAfterLogin'
    BY <1>1 DEF LoginInv, ResumeAfterLogin
  <2> QED BY <2>3, <2>4, <2>5, <2>6, <2>7, <2>8 DEF LoginInv
<1> QED BY <1>2, <1>3 DEF Poll

\* Trackers that start over, with no handler at work.
LEMMA ForgottenLogs ==
    ASSUME TypeOK, LoginInv, SameRequests, mon'.pc = "idle",
           UNCHANGED <<mode, screen, logins, accepted>>,
           \A p \in Panes : trk'[p] = NewTracker \/ (trk'[p] = trk[p] /\ mon.pc = "idle")
    PROVE  LoginInv'
<1>1. /\ NewTracker.rid = None /\ NewTracker.url = 0 /\ NewTracker.st = "IDLE"
      /\ "IDLE" \notin BeforeRequest \cup {"AWAITING_URL", "RESUMING"} /\ "IDLE" \in Early
  BY DEF NewTracker, BeforeRequest, Early
<1>2. /\ \A p, q : Current(p, q)' <=> Current(p, q)
      /\ \A p : ~Binding(p)' /\ ~Working(p)' /\ (mon.pc = "idle" => ~Binding(p))
  BY DEF SameRequests, Current, Binding, Working
<1>3. UrlsShown'
  BY <1>1, LoginTypes DEF LoginInv, UrlsShown, Numbered, SameRequests
<1>4. PromptShown'
  BY DEF LoginInv, PromptShown
<1>5. MadeOnce'
  BY <1>1, <1>2 DEF LoginInv, MadeOnce
<1>6. LateBound'
  BY <1>1 DEF LoginInv, LateBound
<1>7. OkIsOurs'
  BY <1>1, <1>2 DEF LoginInv, OkIsOurs
<1>8. ResumeAfterLogin'
  BY <1>1 DEF LoginInv, ResumeAfterLogin
<1> QED BY <1>3, <1>4, <1>5, <1>6, <1>7, <1>8 DEF LoginInv

LEMMA LogsForgotten ==
    ASSUME TypeOK, LoginInv, Restart \/ (\E p \in Panes : RemoveTracker(p))
    PROVE  LoginInv'
<1>1. CASE Restart
  <2>1. SameRequests
    BY <1>1 DEF Restart, SameRequests, Owner, InMap, TypeOK, TrackerTypeOK, Requests
  <2>2. mon'.pc = "idle" /\ UNCHANGED <<mode, screen, logins, accepted>>
        /\ \A p \in Panes : trk'[p] = NewTracker
    BY <1>1 DEF Restart, MonIdle, claudeVars
  <2> QED BY <2>1, <2>2, ForgottenLogs
<1>2. ASSUME NEW p \in Panes, RemoveTracker(p) PROVE LoginInv'
  <2>1. SameRequests
    BY <1>2 DEF RemoveTracker, SameRequests, Owner
  <2>2. mon.pc = "idle" /\ UNCHANGED <<mon, mode, screen, logins, accepted>>
        /\ \A q \in Panes : trk'[q] = IF q = p THEN NewTracker ELSE trk[q]
    BY <1>2 DEF RemoveTracker, claudeVars, TypeOK, TrackerTypeOK
  <2> QED BY <2>1, <2>2, ForgottenLogs
<1> QED BY <1>1, <1>2

-----------------------------------------------------------------------------
(* The panes.                                                              *)

\* Every marker of s is one of o or of ms.
From(s, o, ms) ==
    \A i \in DOMAIN s : \/ \E j \in DOMAIN o : s[i] = o[j]
                        \/ \E j \in DOMAIN ms : s[i] = ms[j]

\* The window keeps no marker that was not there, and the last one.
LEMMA WindowKeeps ==
    ASSUME NEW s \in Seq(Markers)
    PROVE  /\ \A i \in DOMAIN LastOf(s) : \E j \in DOMAIN s : LastOf(s)[i] = s[j]
           /\ s # <<>> => \E i \in DOMAIN LastOf(s) : LastOf(s)[i] = s[Len(s)]
<1>1. CASE Len(s) > Window
  <2> DEFINE d == Len(s) - Window
  <2>1. d \in Nat /\ Len(s) \in Nat /\ Window \in Nat \ {0} /\ d >= 1 /\ d + Window = Len(s)
    BY <1>1, CoordinatorAssumption
  <2>2. LastOf(s) = SubSeq(s, d + 1, Len(s))
    BY <1>1 DEF LastOf
  <2> HIDE DEF d
  <2>3. /\ DOMAIN LastOf(s) = 1..Window
        /\ \A i \in 1..Window : LastOf(s)[i] = s[d + i]
    BY <2>1, <2>2
  <2>4. \A i \in 1..Window : d + i \in DOMAIN s
    BY <2>1
  <2>5. Window \in 1..Window
    BY <2>1
  <2> QED BY <2>1, <2>3, <2>4, <2>5
<1>2. CASE ~(Len(s) > Window)
  <2>1. LastOf(s) = s
    BY <1>2 DEF LastOf
  <2>2. s # <<>> => Len(s) \in DOMAIN s
    OBVIOUS
  <2> QED BY <2>1, <2>2
<1> QED BY <1>1, <1>2

LEMMA DisplayKeeps ==
    ASSUME TypeOK, NEW p \in Panes, NEW ms \in Seq(Markers), Display(p, ms)
    PROVE  /\ From(screen'[p], screen[p], ms)
           /\ ms # <<>> => \E i \in DOMAIN screen'[p] : screen'[p][i] = ms[Len(ms)]
           /\ \A q \in Panes : q # p => screen'[q] = screen[q]
<1> DEFINE o == screen[p]
           s == o \o ms
<1>1. /\ o \in Seq(Markers) /\ s \in Seq(Markers) /\ screen'[p] = LastOf(s)
      /\ \A q \in Panes : q # p => screen'[q] = screen[q]
  BY DEF Display, TypeOK, ClaudeTypeOK
<1>2. /\ \A i \in DOMAIN s : \/ \E j \in DOMAIN o : s[i] = o[j]
                             \/ \E j \in DOMAIN ms : s[i] = ms[j]
      /\ ms # <<>> => s # <<>> /\ s[Len(s)] = ms[Len(ms)]
  <2>1. /\ Len(s) = Len(o) + Len(ms) /\ Len(o) \in Nat /\ Len(ms) \in Nat
        /\ \A i \in 1..Len(o) : s[i] = o[i]
        /\ \A i \in 1..Len(ms) : s[Len(o) + i] = ms[i]
    BY <1>1
  <2>2. DOMAIN s = 1..Len(s) /\ DOMAIN o = 1..Len(o) /\ DOMAIN ms = 1..Len(ms)
    BY <1>1
  <2> HIDE DEF s, o
  <2>3. \A i \in 1..Len(s) : i \in 1..Len(o) \/ (\E j \in 1..Len(ms) : i = Len(o) + j)
    <3> SUFFICES ASSUME NEW i \in 1..Len(s), i \notin 1..Len(o)
                 PROVE  \E j \in 1..Len(ms) : i = Len(o) + j
      OBVIOUS
    <3>1. i - Len(o) \in 1..Len(ms) /\ i = Len(o) + (i - Len(o))
      BY <2>1
    <3> QED BY <3>1
  <2>4. ASSUME NEW i \in DOMAIN s
        PROVE  \/ \E j \in DOMAIN o : s[i] = o[j]
               \/ \E j \in DOMAIN ms : s[i] = ms[j]
    <3>1. CASE i \in 1..Len(o)
      BY <2>1, <2>2, <3>1
    <3>2. CASE \E j \in 1..Len(ms) : i = Len(o) + j
      BY <2>1, <2>2, <3>2
    <3> QED BY <2>2, <2>3, <2>4, <3>1, <3>2
  <2>5. ASSUME ms # <<>> PROVE s # <<>> /\ s[Len(s)] = ms[Len(ms)]
    <3>1. Len(ms) \in 1..Len(ms)
      BY <2>5
    <3>2. s[Len(s)] = ms[Len(ms)] /\ Len(s) # 0
      BY <2>1, <3>1
    <3> QED BY <3>2
  <2> QED BY <2>4, <2>5
<1> HIDE DEF s
<1>3. LastOf(s) = screen'[p] /\ screen[p] = o
  BY <1>1
<1> HIDE DEF o
<1> QED BY <1>1, <1>2, <1>3, WindowKeeps DEF From

\* What a step of a pane must make sure of.
LEMMA PaneLogs ==
    ASSUME TypeOK, LoginInv, NEW p \in Panes, PaneUnchanged,
           NEW ms \in Seq(Markers), From(screen'[p], screen[p], ms),
           \A q \in Panes : q # p => /\ screen'[q] = screen[q] /\ mode'[q] = mode[q]
                                     /\ logins'[q] = logins[q],
           logins'[p] \in Nat, logins[p] <= logins'[p],
           \A i \in DOMAIN ms : ms[i].n <= logins'[p],
           accepted \subseteq accepted',
           mode'[p] = "prompt" => /\ logins'[p] > logins[p]
                                  /\ Shown(screen[p])' \cap {"url", "paste"} # {},
           \A i \in DOMAIN ms : ms[i].kind = "ok" => \E q \in accepted' : Current(p, q)
    PROVE  LoginInv'
<1>1. UNCHANGED <<trk, reqs, mon>>
  BY DEF PaneUnchanged, coordVars
<1>2. \A q \in Panes : logins[q] <= logins'[q] /\ logins[q] \in Nat /\ logins'[q] \in Nat
  BY LoginTypes
<1>3. \A out \in Seq(Markers) : \A i \in DOMAIN out : out[i].n \in Nat
  <2>1. \A out \in Seq(Markers) : \A i \in DOMAIN out : out[i] \in Markers
    OBVIOUS
  <2>2. \A m \in Markers : m.n \in Nat
    BY CoordinatorAssumption DEF Markers, Urls
  <2> QED BY <2>1, <2>2
<1>4. \A q \in Panes : Numbered(q, screen[q])'
  <2> SUFFICES ASSUME NEW q \in Panes, NEW i \in DOMAIN screen'[q]
               PROVE  screen'[q][i].n <= logins'[q]
    BY DEF Numbered
  <2>1. \A j \in DOMAIN screen[q] : screen[q][j].n <= logins[q] /\ screen[q][j].n \in Nat
    BY <1>3, LoginTypes DEF LoginInv, UrlsShown, Numbered
  <2>2. CASE q = p
    BY <1>2, <2>1, <2>2 DEF From
  <2>3. CASE q # p
    BY <2>1, <2>3
  <2> QED BY <2>2, <2>3
<1>5. UrlsShown'
  <2>1. \A q \in Panes : trk'[q].url <= logins'[q]
    BY <1>1, <1>2, LoginTypes DEF LoginInv, UrlsShown, Trackers, Urls
  <2>2. \A q \in Panes, r \in ReqIds : Owner(r, q)' => reqs'[r].url <= logins'[q]
    BY <1>1, <1>2 DEF LoginInv, UrlsShown, Owner, TypeOK, TrackerTypeOK, Requests, Urls
  <2>3. (mon.pc = "handle" => Numbered(Me, mon.out))'
    <3> SUFFICES ASSUME mon.pc = "handle", NEW i \in DOMAIN mon.out
                 PROVE  mon.out[i].n <= logins'[Me]
      BY <1>1 DEF Numbered, Me
    <3>1. Me \in Panes /\ mon.out \in Seq(Markers)
      BY HandlerTypes
    <3>2. mon.out[i].n \in Nat /\ mon.out[i].n <= logins[Me]
      BY <1>3, <3>1 DEF LoginInv, UrlsShown, Numbered
    <3> QED BY <1>2, <3>1, <3>2
  <2> QED BY <1>4, <2>1, <2>2, <2>3 DEF UrlsShown
<1>6. PromptShown'
  <2>1. \A q \in Panes : q # p => mode'[q] = mode[q] /\ screen'[q] = screen[q]
    OBVIOUS
  <2>2. \A q \in Panes : mode[q] = "prompt" => Shown(screen[q]) \cap {"url", "paste"} # {}
    BY DEF LoginInv, PromptShown
  <2>3. mode'[p] = "prompt" => Shown(screen'[p]) \cap {"url", "paste"} # {}
    BY DEF Shown
  <2>4. \A q \in Panes : mode'[q] = "prompt" => Shown(screen'[q]) \cap {"url", "paste"} # {}
    BY <2>1, <2>2, <2>3
  <2> QED BY <2>4 DEF PromptShown
<1>7. \A q \in Panes, r \in ReqIds : Current(q, r)' => Current(q, r)
  <2> SUFFICES ASSUME NEW r \in ReqIds PROVE ~Current(p, r)'
    BY <1>1 DEF Current, Owner
  <2> QED BY <1>1, <1>2 DEF Current, Owner, LoginInv, UrlsShown, TypeOK, TrackerTypeOK,
                            Requests, Urls
<1>8. \A q : (Binding(q)' <=> Binding(q)) /\ (Working(q)' <=> Working(q))
  BY <1>1 DEF Binding, Working, Me
<1>9. MadeOnce'
  BY <1>1, <1>7, <1>8 DEF LoginInv, MadeOnce
<1>10. LateBound' /\ ResumeAfterLogin'
  BY <1>1 DEF LoginInv, LateBound, ResumeAfterLogin, Mine
<1>11. OkIsOurs'
  <2>1. \A q \in Panes : Working(q) /\ mon.cur = "AWAITING_CONFIRM"
          /\ "ok" \in Shown(mon.out) => Mine.rid \in accepted'
    BY DEF LoginInv, OkIsOurs
  <2>2. ASSUME NEW q \in Panes, "ok" \in Shown(screen'[q])
        PROVE  /\ trk[q].rid # None => trk[q].rid \in accepted'
               /\ Binding(q) => mon.rid \in accepted'
               /\ trk[q].st = "AWAITING_URL" => Binding(q)
               /\ Working(q) => /\ mon.cur # "AWAITING_URL"
                                /\ mon.cur \in BeforeRequest => "ok" \in Shown(mon.out)
    <3>1. CASE "ok" \in Shown(screen[q])
      BY <3>1 DEF LoginInv, OkIsOurs
    <3>2. CASE "ok" \notin Shown(screen[q])
      <4>1. q = p /\ \E i \in DOMAIN ms : ms[i].kind = "ok"
        BY <2>2, <3>2 DEF Shown, From
      <4>2. PICK r \in accepted' : Current(p, r)
        BY <4>1
      <4>3. r \in ReqIds /\ q = p
        BY <4>1, <4>2 DEF Current, Owner
      <4> QED BY <4>2, <4>3 DEF LoginInv, MadeOnce, BeforeRequest
    <3> QED BY <3>1, <3>2
  <2>3. \A q \in Panes : "ok" \in Shown(screen'[q]) =>
          /\ trk'[q].rid # None => trk'[q].rid \in accepted'
          /\ Binding(q)' => mon'.rid \in accepted'
          /\ trk'[q].st = "AWAITING_URL" => Binding(q)'
          /\ Working(q)' => /\ mon'.cur # "AWAITING_URL"
                            /\ mon'.cur \in BeforeRequest => "ok" \in Shown(mon'.out)
    BY <1>1, <1>8, <2>2
  <2>4. \A q \in Panes : Working(q)' /\ mon'.cur = "AWAITING_CONFIRM"
          /\ "ok" \in Shown(mon'.out) => Mine'.rid \in accepted'
    BY <1>1, <1>8, <2>1 DEF Mine
  <2> QED BY <2>3, <2>4 DEF OkIsOurs, Shown
<1> QED BY <1>5, <1>6, <1>9, <1>10, <1>11 DEF LoginInv

LEMMA PromptLogs ==
    ASSUME TypeOK, LoginInv, NEW p \in Panes, PaneUnchanged, ShowPrompt(p),
           logins[p] < MaxLogins, UNCHANGED accepted
    PROVE  LoginInv'
<1> DEFINE ms == <<Marker("url", logins[p] + 1), Marker("paste", 0)>>
<1>1. logins[p] \in Nat /\ logins[p] + 1 \in Urls
  BY CoordinatorAssumption DEF TypeOK, ClaudeTypeOK, Urls
<1>2. /\ ms \in Seq(Markers) /\ ms # <<>> /\ Len(ms) = 2 /\ DOMAIN ms = {1, 2}
      /\ ms[1].n = logins[p] + 1 /\ ms[2].n = 0
      /\ ms[1].kind = "url" /\ ms[2].kind = "paste"
  BY <1>1, MarkerType DEF Marker
<1>3. /\ \A q \in Panes : q # p => mode'[q] = mode[q] /\ logins'[q] = logins[q]
      /\ logins'[p] = logins[p] + 1 /\ Display(p, ms)
  BY DEF ShowPrompt, TypeOK, ClaudeTypeOK
<1> HIDE DEF ms
<1>4. /\ From(screen'[p], screen[p], ms)
      /\ \E i \in DOMAIN screen'[p] : screen'[p][i] = ms[Len(ms)]
      /\ \A q \in Panes : q # p => screen'[q] = screen[q]
  BY <1>2, <1>3, DisplayKeeps
<1>5. "paste" \in Shown(screen[p])'
  BY <1>2, <1>4 DEF Shown
<1>6. /\ \A i \in DOMAIN ms : ms[i].n <= logins'[p] /\ ms[i].kind # "ok"
      /\ logins'[p] \in Nat /\ logins'[p] > logins[p] /\ logins[p] <= logins'[p]
  BY <1>1, <1>2, <1>3
<1> QED BY <1>2, <1>3, <1>4, <1>5, <1>6, PaneLogs

\* One other marker, or none.
LEMMA MarkLogs ==
    ASSUME TypeOK, LoginInv, NEW p \in Panes, PaneUnchanged,
           NEW k \in {"ok", "fail", "method", "limit", "banner", "reminder", "none"},
           Display(p, IF k = "none" THEN <<>> ELSE <<Marker(k, 0)>>),
           NEW m \in {"busy", "limited", "menu"}, mode' = [mode EXCEPT ![p] = m],
           UNCHANGED logins, accepted \subseteq accepted',
           k = "ok" => \E q \in accepted' : Current(p, q)
    PROVE  LoginInv'
<1> DEFINE ms == IF k = "none" THEN <<>> ELSE <<Marker(k, 0)>>
<1>1. /\ ms \in Seq(Markers)
      /\ \A i \in DOMAIN ms : ms[i].n = 0 /\ ms[i].kind = k
  BY MarkerType DEF Marker
<1>2. Display(p, ms)
  OBVIOUS
<1> HIDE DEF ms
<1>3. /\ From(screen'[p], screen[p], ms)
      /\ \A q \in Panes : q # p => screen'[q] = screen[q]
  BY <1>1, <1>2, DisplayKeeps
<1>4. /\ \A q \in Panes : q # p => mode'[q] = mode[q] /\ logins'[q] = logins[q]
      /\ mode'[p] # "prompt"
  BY DEF TypeOK, ClaudeTypeOK
<1>5. logins'[p] \in Nat /\ logins[p] <= logins'[p] /\ 0 <= logins'[p]
  BY LoginTypes
<1> QED BY <1>1, <1>3, <1>4, <1>5, PaneLogs

LEMMA LogsScroll ==
    ASSUME TypeOK, LoginInv, NEW p \in Panes, Scroll(p)
    PROVE  LoginInv'
<1>1. /\ screen[p] \in Seq(Markers) /\ screen[p] # <<>> /\ screen'[p] = Tail(screen[p])
      /\ \A q \in Panes : q # p => screen'[q] = screen[q]
      /\ mode[p] = "busy" /\ UNCHANGED <<mode, logins, accepted>> /\ PaneUnchanged
  BY DEF Scroll, TypeOK, ClaudeTypeOK
<1>2. From(screen'[p], screen[p], <<>>)
  <2>1. \A i \in DOMAIN Tail(screen[p]) :
            i + 1 \in DOMAIN screen[p] /\ Tail(screen[p])[i] = screen[p][i + 1]
    BY <1>1
  <2> QED BY <1>1, <2>1 DEF From
<1>3. <<>> \in Seq(Markers) /\ DOMAIN <<>> = {}
  BY MarkerType
<1>4. logins'[p] \in Nat /\ logins[p] <= logins'[p]
  BY <1>1, LoginTypes
<1> QED BY <1>1, <1>2, <1>3, <1>4, PaneLogs

LEMMA LogsRead ==
    ASSUME TypeOK, Ownership, LoginInv, NEW p \in Panes, Read(p)
    PROVE  LoginInv'
<1> DEFINE x == Head(inbox[p])
<1>1. /\ ReadText(p, x) /\ PaneUnchanged /\ inbox[p] \in Seq(Texts) /\ inbox[p] # <<>>
      /\ mode \in [Panes -> {"busy", "limited", "menu", "prompt"}]
      /\ \A q \in Panes : mode[q] = "menu" => logins[q] < MaxLogins
  BY DEF Read, TypeOK, PaneTypeOK, ClaudeTypeOK
<1>2. /\ 1 \in DOMAIN inbox[p] /\ x = inbox[p][1]
  BY <1>1
<1>3. x.kind = "code" => Owner(x.req, p)
  BY <1>2 DEF Ownership, InboxOwns
<1> HIDE DEF x
<1>4. CASE ShowPrompt(p) /\ logins[p] < MaxLogins /\ UNCHANGED accepted
  BY <1>1, <1>4, PromptLogs
<1>5. CASE ShowMenu(p) /\ UNCHANGED accepted
  BY <1>1, <1>5, MarkLogs DEF ShowMenu
<1>6. CASE /\ Accepts(p, x)
           /\ mode' = [mode EXCEPT ![p] = "busy"]
           /\ Display(p, <<Marker("ok", 0)>>)
           /\ accepted' = accepted \cup {x.req}
           /\ UNCHANGED logins
  <2>1. x.req \in accepted' /\ Current(p, x.req)
    BY <1>3, <1>6 DEF Accepts, Current
  <2> QED BY <1>1, <1>6, <2>1, MarkLogs
<1>7. CASE /\ mode' = [mode EXCEPT ![p] = "limited"]
           /\ Display(p, <<Marker("fail", 0)>>)
           /\ UNCHANGED <<logins, accepted>>
  BY <1>1, <1>7, MarkLogs
<1>8. ASSUME NEW k \in {"limit", "reminder", "none"},
             Display(p, IF k = "none" THEN <<>> ELSE <<Marker(k, 0)>>),
             mode[p] \in {"busy", "limited", "menu"},
             UNCHANGED <<mode, logins, accepted>>
      PROVE  LoginInv'
  <2>1. mode' = [mode EXCEPT ![p] = mode[p]]
    BY <1>1, <1>8
  <2> QED BY <1>1, <1>8, <2>1, MarkLogs
<1>9. CASE /\ mode[p] = "limited" /\ Display(p, <<Marker("limit", 0)>>)
           /\ UNCHANGED <<mode, logins, accepted>>
  BY <1>8, <1>9
<1>10. CASE /\ mode[p] = "busy"
            /\ Display(p, IF x.kind = "reminder" THEN <<Marker("reminder", 0)>> ELSE <<>>)
            /\ UNCHANGED <<mode, logins, accepted>>
  <2>1. CASE x.kind = "reminder"
    BY <1>8, <1>10, <2>1
  <2>2. CASE x.kind # "reminder"
    BY <1>8, <1>10, <2>2
  <2> QED BY <2>1, <2>2
<1>11. CASE /\ mode[p] = "menu" /\ Display(p, <<>>)
            /\ UNCHANGED <<mode, logins, accepted>>
  BY <1>8, <1>11
<1> QED BY <1>1, <1>4, <1>5, <1>6, <1>7, <1>9, <1>10, <1>11 DEF ReadText

LEMMA LogsPane ==
    ASSUME TypeOK, Ownership, LoginInv, NEW p \in Panes, PaneStep(p)
    PROVE  LoginInv'
<1>1. CASE HitLimit(p)
  BY <1>1, MarkLogs DEF HitLimit
<1>2. CASE Compact(p)
  <2>1. mode' = [mode EXCEPT ![p] = "busy"] /\ accepted \subseteq accepted'
    BY <1>2 DEF Compact, TypeOK, ClaudeTypeOK
  <2> QED BY <1>2, <2>1, MarkLogs DEF Compact
<1> QED BY <1>1, <1>2, LogsRead, LogsScroll, LogsOutside DEF PaneStep

LEMMA LoginInvariant == Spec => []LoginInv
<1>1. TypeOK /\ Ownership /\ HeldInv /\ LoginInv /\ [Next]_vars => LoginInv'
  <2>1. ASSUME TypeOK, LoginInv, UNCHANGED vars PROVE LoginInv'
    <3>1. SameRequests
      BY <2>1 DEF SameRequests, Owner, vars
    <3> QED BY <2>1, <3>1, MonPane, FrameLogs DEF vars
  <2> QED BY <2>1, LogsMonitor, LogsPoll, LogsForgotten, LogsHttp, LogsOutside, LogsPane
          DEF Next
<1> QED BY <1>1, LoginInit, OwnershipInvariant, HeldWhileOpen, PTL DEF Spec

\* The resume prompt is typed only where the code of the request at hand has logged Claude
\* in, for a window of any length, whatever the agent answers and when, and whatever is left
\* in the scrollback or unread by an earlier login, a reset or a restart.
THEOREM ResumesOwnLogin == Spec => []ResumeAfterLogin
<1>1. LoginInv => ResumeAfterLogin
  BY DEF LoginInv
<1> QED BY <1>1, LoginInvariant, PTL

-----------------------------------------------------------------------------
(* The URL of a request is the one that Claude waits with.  The tracker     *)
(* takes the leftmost URL in the window, so older ones must be followed by  *)
(* the outcome of their login (ScreenOK); and the prompt must still be up   *)
(* when the request is made, so nothing may be left to read behind it       *)
(* (Phase): that is where a pane that reads late, or a restart over unread  *)
(* input, would do harm.  The operators below speak of one pane: md is what *)
(* Claude waits for, ib its unread texts, sc the window, lg the last URL.   *)

\* What the markers in the window say of Claude.
Followed(s, i, kinds) == \E j \in DOMAIN s : j > i /\ s[j].kind \in kinds
ScreenOK(md, sc, lg) ==
    /\ md = "menu" => sc # <<>> /\ sc[Len(sc)].kind = "method"
    /\ \A i \in DOMAIN sc :
          /\ sc[i].kind = "method" => md = "menu" \/ Followed(sc, i, {"paste"})
          /\ sc[i].kind = "url" =>
               (md = "prompt" /\ sc[i].n = lg) \/ Followed(sc, i, {"ok", "fail"})
ScreenTells == \A p \in Panes : ScreenOK(mode[p], screen[p], logins[p])

\* Unread texts that Claude would answer by moving on.
Quiet(x) == x.kind \in {"resume", "reminder"}
Asked(ib) == \E i \in DOMAIN ib : ~Quiet(ib[i])
AtPrompt(md, ib, sc) == md = "prompt" /\ ib = <<>> /\ "ok" \notin Shown(sc)

\* The pane of a tracker in state s.
Phase(s, md, ib, sc) ==
    /\ s = "RATE_LIMITED" =>
         /\ \A i \in DOMAIN ib : Quiet(ib[i]) \/ (ib[i].kind = "login" /\ i = Len(ib))
         /\ md \in {"menu", "prompt"} => ib = <<>>
    /\ s = "AWAITING_METHOD_SELECT" =>
         /\ md \in {"menu", "prompt"}
         /\ ib = <<>> \/ (Len(ib) = 1 /\ md = "menu")
    /\ s \in {"AWAITING_URL", "AUTH_PENDING", "CODE_RECEIVED"} => AtPrompt(md, ib, sc)
    /\ s = "AWAITING_CONFIRM" =>
         \/ ib = <<>>
         \/ Len(ib) = 1 /\ md = "prompt" /\ "ok" \notin Shown(sc)
    /\ s = "RESUMING" => ~Asked(ib)

\* Where no login is under way, or where one may be given up, none is asked for.
TrackerPhase ==
    \A p \in Panes :
        /\ Phase(trk[p].st, mode[p], inbox[p], screen[p])
        /\ p \in open /\ (trk[p].st = "IDLE" \/ trk[p].aged) => ~Asked(inbox[p])
        /\ trk[p].st = "AWAITING_URL" => trk[p].url = logins[p] /\ logins[p] # 0
        /\ trk[p].st = "AUTH_PENDING" => reqs[trk[p].rid].url = logins[p]

\* What the monitor read in state s of the tracker is still so.
UrlIn(out) == DetectState(out) = "AWAITING_URL" /\ ExtractOAuthURL(out) # 0
StillSo(s, out, md, ib, sc, lg) ==
    /\ Phase(s, md, ib, sc)
    /\ s = "IDLE" =>
         /\ ~Asked(ib)
         /\ DetectState(out) = "RATE_LIMITED" => md \notin {"menu", "prompt"}
    /\ s = "RATE_LIMITED" /\ DetectState(out) = "AWAITING_METHOD_SELECT" =>
         md = "menu" /\ ib = <<>>
    /\ s \in {"RATE_LIMITED", "AWAITING_METHOD_SELECT"} /\ UrlIn(out) =>
         AtPrompt(md, ib, sc) /\ ExtractOAuthURL(out) = lg
    /\ s = "AWAITING_CONFIRM" /\ "ok" \in Shown(out) => ib = <<>>

HandlerPhase ==
    /\ mon.pc = "handle" =>
         /\ StillSo(mon.cur, mon.out, mode[Me], inbox[Me], screen[Me], logins[Me])
         /\ Mine.st \in {mon.cur, "FAILED"}
         /\ mon.cur = "AWAITING_URL" => Mine.url = logins[Me] /\ logins[Me] # 0
    /\ mon.pc = "bind" =>
         /\ AtPrompt(mode[Me], inbox[Me], screen[Me])
         /\ reqs[mon.rid].url = logins[Me]

PhaseInv == ScreenTells /\ TrackerPhase /\ HandlerPhase

\* A new coordinator process starts when the panes have read what the old one typed.
AllRead == \A p \in open : inbox[p] = <<>>
CalmRestarts == [][Restart => AllRead]_vars

LEMMA PhaseInit == Init => PhaseInv
<1> SUFFICES ASSUME Init PROVE PhaseInv
  OBVIOUS
<1>1. \A p \in Panes : mode[p] = "busy" /\ screen[p] = <<>> /\ inbox[p] = <<>>
                       /\ trk[p].st = "IDLE"
  BY DEF Init, NewTracker
<1>2. ScreenTells
  BY <1>1 DEF ScreenTells, ScreenOK
<1>3. TrackerPhase
  BY <1>1 DEF TrackerPhase, Phase, Asked
<1>4. HandlerPhase
  BY DEF Init, HandlerPhase, MonIdle
<1> QED BY <1>2, <1>3, <1>4 DEF PhaseInv

LEMMA SameScreens == UNCHANGED <<mode, screen, logins>> /\ ScreenTells => ScreenTells'
BY DEF ScreenTells

\* A tracker that waits for a code holds a request.
LEMMA PendingRequest ==
    ASSUME Ownership, LoginInv, NEW p \in Panes, trk[p].st = "AUTH_PENDING"
    PROVE  trk[p].rid \in ReqIds /\ reqs[trk[p].rid].status # "unused"
<1>1. trk[p].rid # None
  BY DEF LoginInv, LateBound, Early
<1> QED BY <1>1 DEF Ownership, TrackersOwn, Owner

-----------------------------------------------------------------------------
(* The monitor.                                                             *)

\* What a handler must make sure of.
LEMMA HandlerSettles ==
    ASSUME TypeOK, Ownership, LoginInv, PhaseInv, mon.pc # "idle", MonDone,
           NEW me \in Panes, me = Me, NEW t \in Trackers, Become(t),
           \A q \in ReqIds : reqs'[q].url = reqs[q].url,
           NEW ib, inbox'[me] = ib, \A p \in Panes : p # me => inbox'[p] = inbox[p],
           Phase(t.st, mode[me], ib, screen[me]),
           me \in open /\ (t.st = "IDLE" \/ t.aged) => ~Asked(ib),
           t.st = "AWAITING_URL" => t.url = logins[me] /\ logins[me] # 0,
           t.st = "AUTH_PENDING" => t.rid \in ReqIds /\ reqs[t.rid].url = logins[me]
    PROVE  PhaseInv'
<1>1. \A p \in Panes : trk'[p] = IF p = me THEN t ELSE trk[p]
  BY DEF Become, TypeOK, TrackerTypeOK
<1>2. UNCHANGED <<mode, screen, logins, open>> /\ mon' = MonIdle
  BY DEF MonDone, claudeVars
<1>3. TrackerPhase'
  <2> SUFFICES ASSUME NEW p \in Panes
               PROVE  /\ Phase(trk'[p].st, mode[p], inbox'[p], screen[p])
                      /\ p \in open /\ (trk'[p].st = "IDLE" \/ trk'[p].aged) =>
                           ~Asked(inbox'[p])
                      /\ trk'[p].st = "AWAITING_URL" =>
                           trk'[p].url = logins[p] /\ logins[p] # 0
                      /\ trk'[p].st = "AUTH_PENDING" => reqs'[trk'[p].rid].url = logins[p]
    BY <1>2 DEF TrackerPhase
  <2>1. CASE p = me
    BY <1>1, <2>1
  <2>2. CASE p # me
    <3>1. trk'[p] = trk[p] /\ inbox'[p] = inbox[p]
      BY <1>1, <2>2
    <3> QED BY <3>1, PendingRequest DEF PhaseInv, TrackerPhase
  <2> QED BY <2>1, <2>2
<1>4. HandlerPhase'
  BY <1>2 DEF HandlerPhase, MonIdle
<1> QED BY <1>2, <1>3, <1>4, SameScreens DEF PhaseInv

\* What a handler may rely on.
LEMMA HandlerSees ==
    ASSUME TypeOK, PhaseInv, mon.pc = "handle"
    PROVE  /\ Me \in Panes /\ Mine \in Trackers /\ inbox[Me] \in Seq(Texts)
           /\ StillSo(mon.cur, mon.out, mode[Me], inbox[Me], screen[Me], logins[Me])
           /\ Phase(mon.cur, mode[Me], inbox[Me], screen[Me])
           /\ Phase(Mine.st, mode[Me], inbox[Me], screen[Me])
           /\ Mine.st \in {mon.cur, "FAILED"}
           /\ Me \in open /\ (Mine.st = "IDLE" \/ Mine.aged) => ~Asked(inbox[Me])
           /\ mon.cur = "AWAITING_URL" \/ Mine.st = "AWAITING_URL" =>
                Mine.url = logins[Me] /\ logins[Me] # 0
           /\ Mine.st = "AUTH_PENDING" => reqs[Mine.rid].url = logins[Me]
<1>1. Me \in Panes /\ Mine \in Trackers /\ inbox[Me] \in Seq(Texts) /\ Mine = trk[Me]
  BY HandlerTypes DEF Mine, Me
<1>2. /\ Phase(Mine.st, mode[Me], inbox[Me], screen[Me])
      /\ Me \in open /\ (Mine.st = "IDLE" \/ Mine.aged) => ~Asked(inbox[Me])
      /\ Mine.st = "AWAITING_URL" => Mine.url = logins[Me] /\ logins[Me] # 0
      /\ Mine.st = "AUTH_PENDING" => reqs[Mine.rid].url = logins[Me]
  BY <1>1 DEF PhaseInv, TrackerPhase
<1>3. /\ StillSo(mon.cur, mon.out, mode[Me], inbox[Me], screen[Me], logins[Me])
      /\ Mine.st \in {mon.cur, "FAILED"}
      /\ mon.cur = "AWAITING_URL" => Mine.url = logins[Me] /\ logins[Me] # 0
  BY DEF PhaseInv, HandlerPhase
<1>4. Phase(mon.cur, mode[Me], inbox[Me], screen[Me])
  BY <1>3 DEF StillSo
<1> QED BY <1>1, <1>2, <1>3, <1>4

LEMMA CleanupUrls ==
    ASSUME TypeOK, NEW r, UNCHANGED reqs \/ cleanupRequest(r)
    PROVE  \A q \in ReqIds : reqs'[q].url = reqs[q].url
BY DroppedType DEF cleanupRequest, TypeOK

\* The tracker after a handler: as it was, failed, or fresh.
LEMMA SameSettles ==
    ASSUME TypeOK, Ownership, LoginInv, PhaseInv, mon.pc = "handle", MonDone,
           UNCHANGED inbox, NEW r, UNCHANGED reqs \/ cleanupRequest(r),
           NEW t \in Trackers, Become(t), t.st = Mine.st, t.url = Mine.url,
           t.rid = Mine.rid, t.aged = Mine.aged
    PROVE  PhaseInv'
<1> DEFINE me == Me
           ib == inbox[me]
<1>1. me \in Panes /\ inbox'[me] = ib /\ me = Me
  BY HandlerSees
<1>2. /\ Phase(t.st, mode[me], ib, screen[me])
      /\ me \in open /\ (t.st = "IDLE" \/ t.aged) => ~Asked(ib)
      /\ t.st = "AWAITING_URL" => t.url = logins[me] /\ logins[me] # 0
      /\ t.st = "AUTH_PENDING" => reqs[t.rid].url = logins[me]
  BY HandlerSees
<1>3. t.st = "AUTH_PENDING" => t.rid \in ReqIds
  BY <1>1, PendingRequest DEF Mine, Me
<1> HIDE DEF me, ib
<1> QED BY <1>1, <1>2, <1>3, CleanupUrls, HandlerSettles

LEMMA StaySettles ==
    ASSUME TypeOK, Ownership, LoginInv, PhaseInv, mon.pc = "handle", MonDone,
           UNCHANGED <<trk, inbox>>, NEW r, UNCHANGED reqs \/ cleanupRequest(r)
    PROVE  PhaseInv'
<1>1. Mine \in Trackers /\ Become(Mine)
  BY HandlerTypes DEF Become, Mine, Me
<1> QED BY <1>1, SameSettles

LEMMA FailedSettles ==
    ASSUME TypeOK, Ownership, LoginInv, PhaseInv, mon.pc = "handle", MonDone,
           NEW r, UNCHANGED reqs \/ cleanupRequest(r), UNCHANGED inbox,
           Become(SetState(Mine, "FAILED"))
    PROVE  PhaseInv'
<1> DEFINE me == Me
           ib == inbox[me]
           t == SetState(Mine, "FAILED")
<1>1. me \in Panes /\ inbox'[me] = ib /\ me = Me /\ Mine \in Trackers
  BY HandlerSees
<1>2. t \in Trackers /\ t.st = "FAILED" /\ ~t.aged /\ Become(t)
  BY <1>1 DEF SetState, Trackers, States
<1> HIDE DEF me, ib, t
<1>3. Phase(t.st, mode[me], ib, screen[me])
  BY <1>2 DEF Phase
<1> QED BY <1>1, <1>2, <1>3, CleanupUrls, HandlerSettles

LEMMA FreshSettles ==
    ASSUME TypeOK, Ownership, LoginInv, PhaseInv, mon.pc = "handle", MonDone,
           NEW r, UNCHANGED reqs \/ cleanupRequest(r), Become(NewTracker),
           NEW ib, inbox'[Me] = ib, \A p \in Panes : p # Me => inbox'[p] = inbox[p],
           Me \in open => ~Asked(ib)
    PROVE  PhaseInv'
<1> DEFINE me == Me
           t == NewTracker
<1>1. me \in Panes /\ me = Me
  BY HandlerSees
<1>2. t \in Trackers /\ t.st = "IDLE" /\ Become(t)
  BY NewTrackerType DEF NewTracker
<1>3. inbox'[me] = ib /\ (\A p \in Panes : p # me => inbox'[p] = inbox[p])
      /\ (me \in open => ~Asked(ib))
  OBVIOUS
<1> HIDE DEF me, t
<1>4. Phase(t.st, mode[me], ib, screen[me])
  BY <1>2 DEF Phase
<1> QED BY <1>1, <1>2, <1>3, <1>4, CleanupUrls, HandlerSettles

LEMMA ResetIfAgedSettles ==
    ASSUME TypeOK, Ownership, LoginInv, PhaseInv, mon.pc = "handle", MonDone, ResetIfAged
    PROVE  PhaseInv'
<1>1. UNCHANGED inbox /\ UNCHANGED reqs
  BY DEF ResetIfAged
<1>2. CASE Mine.aged
  BY <1>1, <1>2, HandlerSees, FreshSettles DEF ResetIfAged, Reset
<1>3. CASE ~Mine.aged
  BY <1>1, <1>3, HandlerSees, SameSettles DEF ResetIfAged
<1> QED BY <1>2, <1>3

\* A text that is typed is the last one to be read.
LEMMA Typing ==
    ASSUME NEW ib \in Seq(Texts), NEW x \in Texts
    PROVE  /\ ~Asked(ib) /\ Quiet(x) => ~Asked(Append(ib, x))
           /\ ~Asked(ib) /\ x.kind = "login" =>
                \A i \in DOMAIN Append(ib, x) :
                   \/ Quiet(Append(ib, x)[i])
                   \/ Append(ib, x)[i].kind = "login" /\ i = Len(Append(ib, x))
           /\ ib = <<>> => Len(Append(ib, x)) = 1
<1>1. /\ Len(Append(ib, x)) = Len(ib) + 1 /\ DOMAIN Append(ib, x) = 1..(Len(ib) + 1)
      /\ Len(ib) \in Nat /\ DOMAIN ib = 1..Len(ib)
      /\ Append(ib, x)[Len(ib) + 1] = x
      /\ \A i \in 1..Len(ib) : Append(ib, x)[i] = ib[i]
  OBVIOUS
<1>2. \A i \in DOMAIN Append(ib, x) : i \in DOMAIN ib \/ i = Len(ib) + 1
  BY <1>1
<1>3. ib = <<>> => Len(ib) = 0
  OBVIOUS
<1> QED BY <1>1, <1>2, <1>3 DEF Asked

\* What SendText leaves of the inboxes.
LEMMA SendTextInbox ==
    ASSUME TypeOK, NEW p \in Panes, NEW x \in Texts, NEW ok \in BOOLEAN, SendText(p, x, ok)
    PROVE  /\ inbox'[p] = IF ok THEN Append(inbox[p], x) ELSE inbox[p]
           /\ \A q \in Panes : q # p => inbox'[q] = inbox[q]
BY DEF SendText, TypeOK, PaneTypeOK

LEMMA SettlesHandleIdle ==
    ASSUME TypeOK, Ownership, LoginInv, PhaseInv, HandleIdle
    PROVE  PhaseInv'
<1> DEFINE me == Me
<1>1. /\ mon.pc = "handle" /\ mon.cur = "IDLE" /\ MonDone /\ UNCHANGED reqs
      /\ me \in Panes /\ me = Me /\ Mine \in Trackers /\ inbox[me] \in Seq(Texts)
      /\ Mine.st \in {"IDLE", "FAILED"} /\ ~Asked(inbox[me])
      /\ DetectState(mon.out) = "RATE_LIMITED" => mode[me] \notin {"menu", "prompt"}
  BY HandlerSees DEF HandleIdle, Handling, StillSo
<1>2. \A q \in ReqIds : reqs'[q].url = reqs[q].url
  BY <1>1
<1> HIDE DEF me
<1>3. CASE RateLimitDetected /\ InjectLogin
  <2> DEFINE a == SetState(Mine, "RATE_LIMITED")
             ib == inbox'[me]
  <2>1. a \in Trackers /\ a.st = "RATE_LIMITED" /\ ~a.aged
    BY <1>1 DEF SetState, Trackers, States
  <2>2. PICK t \in {a, SetCooldown(a, "login")} :
            /\ Become(t)
            /\ UNCHANGED inbox \/ (\E ok \in BOOLEAN : SendText(me, Text("login"), ok))
    BY <1>1, <1>3 DEF InjectLogin
  <2>3. t \in Trackers /\ t.st = "RATE_LIMITED" /\ ~t.aged
    BY <2>1 DEF SetCooldown, Trackers, Cooldowns
  <2>4. Text("login") \in Texts /\ Text("login").kind = "login"
    BY DEF Text, Texts
  <2>5. /\ ib \in {inbox[me], Append(inbox[me], Text("login"))}
        /\ \A q \in Panes : q # me => inbox'[q] = inbox[q]
    BY <1>1, <2>2, <2>4, SendTextInbox
  <2> HIDE DEF ib, a
  <2>6. \A i \in DOMAIN ib : Quiet(ib[i]) \/ (ib[i].kind = "login" /\ i = Len(ib))
    BY <1>1, <2>4, <2>5, Typing DEF Asked
  <2>7. Phase(t.st, mode[me], ib, screen[me])
    BY <1>1, <1>3, <2>3, <2>6 DEF Phase, RateLimitDetected
  <2> QED BY <1>1, <1>2, <2>2, <2>3, <2>5, <2>7, HandlerSettles DEF ib
<1>4. CASE InjectReminder
  <2> DEFINE a == SetCooldown(Mine, "compaction")
             ib == inbox'[me]
  <2>1. PICK t \in {a, Mine} :
            /\ Become(t)
            /\ \E ok \in BOOLEAN : SendText(me, Text("reminder"), ok)
    BY <1>1, <1>4 DEF InjectReminder
  <2>2. t \in Trackers /\ t.st = Mine.st /\ t.aged = Mine.aged
    BY <1>1, <2>1 DEF SetCooldown, Trackers, Cooldowns
  <2>3. Text("reminder") \in Texts /\ Quiet(Text("reminder"))
    BY DEF Text, Texts, Quiet
  <2>4. /\ ib \in {inbox[me], Append(inbox[me], Text("reminder"))}
        /\ \A q \in Panes : q # me => inbox'[q] = inbox[q]
    BY <1>1, <2>1, <2>3, SendTextInbox
  <2> HIDE DEF ib, a
  <2>5. ~Asked(ib)
    BY <1>1, <2>3, <2>4, Typing
  <2>6. Phase(t.st, mode[me], ib, screen[me])
    BY <1>1, <2>2 DEF Phase
  <2> QED BY <1>1, <1>2, <2>1, <2>2, <2>4, <2>5, <2>6, HandlerSettles DEF ib
<1>5. CASE UNCHANGED <<trk, inbox>>
  BY <1>1, <1>5, StaySettles
<1> QED BY <1>3, <1>4, <1>5 DEF HandleIdle

\* A URL that Poll read is that of the prompt.
LEMMA TakeUrlSettles ==
    ASSUME TypeOK, Ownership, LoginInv, PhaseInv, mon.pc = "handle",
           mon.cur \in {"RATE_LIMITED", "AWAITING_METHOD_SELECT"},
           MonDone, UNCHANGED <<reqs, inbox>>, UrlSeen, TakeUrl
    PROVE  PhaseInv'
<1> DEFINE me == Me
           ib == inbox[me]
           u == ExtractOAuthURL(mon.out)
           a == SetState(Mine, "AWAITING_URL")
           t == [a EXCEPT !.url = u]
<1>1. /\ me \in Panes /\ me = Me /\ Mine \in Trackers /\ mon.out \in Seq(Markers)
      /\ AtPrompt(mode[me], ib, screen[me]) /\ u = logins[me] /\ u # 0
  BY HandlerSees, HandlerTypes DEF UrlSeen, UrlIn, StillSo
<1>2. u \in Urls
  BY <1>1, ExtractType
<1> HIDE DEF u
<1>3. a \in Trackers /\ a.st = "AWAITING_URL" /\ ~a.aged
  BY <1>1 DEF SetState, Trackers, States
<1>4. t \in Trackers /\ t.st = "AWAITING_URL" /\ ~t.aged /\ t.url = u
  BY <1>2, <1>3 DEF Trackers
<1>5. Become(t) /\ inbox'[me] = ib
  BY DEF TakeUrl, u
<1> HIDE DEF me, ib, a, t
<1>6. Phase(t.st, mode[me], ib, screen[me])
  BY <1>1, <1>4 DEF Phase
<1> QED BY <1>1, <1>4, <1>5, <1>6, HandlerSettles

LEMMA SettlesHandleRateLimited ==
    ASSUME TypeOK, Ownership, LoginInv, PhaseInv, HandleRateLimited
    PROVE  PhaseInv'
<1> DEFINE me == Me
<1>1. /\ mon.pc = "handle" /\ mon.cur = "RATE_LIMITED" /\ MonDone
      /\ me \in Panes /\ me = Me /\ Mine \in Trackers /\ inbox[me] \in Seq(Texts)
      /\ DetectState(mon.out) = "AWAITING_METHOD_SELECT" =>
           mode[me] = "menu" /\ inbox[me] = <<>>
  BY HandlerSees DEF HandleRateLimited, Handling, StillSo
<1> HIDE DEF me
<1>2. CASE /\ DetectState(mon.out) = "AWAITING_METHOD_SELECT"
           /\ InjectMethodSelect /\ UNCHANGED reqs
  <2> DEFINE a == SetState(Mine, "AWAITING_METHOD_SELECT")
             ib == inbox'[me]
  <2>1. a \in Trackers /\ a.st = "AWAITING_METHOD_SELECT" /\ ~a.aged
    BY <1>1 DEF SetState, Trackers, States
  <2>2. PICK t \in {a, SetCooldown(a, "method_select")} :
            /\ Become(t)
            /\ UNCHANGED inbox \/ (\E ok \in BOOLEAN : SendText(me, Text("one"), ok))
    BY <1>1, <1>2 DEF InjectMethodSelect
  <2>3. t \in Trackers /\ t.st = "AWAITING_METHOD_SELECT" /\ ~t.aged
    BY <2>1 DEF SetCooldown, Trackers, Cooldowns
  <2>4. Text("one") \in Texts
    BY DEF Text, Texts
  <2>5. /\ ib \in {inbox[me], Append(inbox[me], Text("one"))}
        /\ \A q \in Panes : q # me => inbox'[q] = inbox[q]
    BY <1>1, <2>2, <2>4, SendTextInbox
  <2> HIDE DEF ib, a
  <2>6. ib = <<>> \/ Len(ib) = 1
    BY <1>1, <1>2, <2>4, <2>5, Typing
  <2>7. Phase(t.st, mode[me], ib, screen[me])
    BY <1>1, <1>2, <2>3, <2>6 DEF Phase
  <2> QED BY <1>1, <1>2, <2>2, <2>3, <2>5, <2>7, HandlerSettles DEF ib
<1>3. CASE UrlSeen /\ TakeUrl /\ UNCHANGED <<reqs, inbox>>
  BY <1>1, <1>3, TakeUrlSettles
<1>4. CASE ResetIfAged
  BY <1>1, <1>4, ResetIfAgedSettles
<1> QED BY <1>2, <1>3, <1>4 DEF HandleRateLimited

LEMMA SettlesHandleAwaitingMethodSelect ==
    ASSUME TypeOK, Ownership, LoginInv, PhaseInv, HandleAwaitingMethodSelect
    PROVE  PhaseInv'
<1>1. mon.pc = "handle" /\ mon.cur = "AWAITING_METHOD_SELECT" /\ MonDone
  BY DEF HandleAwaitingMethodSelect, Handling
<1> QED BY <1>1, TakeUrlSettles, ResetIfAgedSettles DEF HandleAwaitingMethodSelect

\* The request is made while the prompt is up, for the URL on it.
LEMMA SettlesHandleAwaitingURL ==
    ASSUME TypeOK, Ownership, LoginInv, PhaseInv, NEW r \in ReqIds, HandleAwaitingURL(r)
    PROVE  PhaseInv'
<1>1. /\ mon.pc = "handle" /\ mon.cur = "AWAITING_URL" /\ Me \in Panes /\ Mine \in Trackers
      /\ Mine = trk[Me] /\ Mine.url = logins[Me] /\ logins[Me] # 0
      /\ AtPrompt(mode[Me], inbox[Me], screen[Me])
  BY HandlerSees DEF HandleAwaitingURL, Handling, Phase, Mine, Me
<1>2. CASE LoginUrl # 0 /\ Mine.rid = None
  <2> DEFINE new == [status |-> "pending", pane |-> Me, url |-> LoginUrl]
  <2>1. /\ reqs[r].status = "unused" /\ reqs' = [reqs EXCEPT ![r] = new]
        /\ Become([Mine EXCEPT !.url = LoginUrl])
        /\ mon' = [mon EXCEPT !.pc = "bind", !.rid = r]
        /\ UNCHANGED <<mode, screen, logins, open, inbox>>
    BY <1>2 DEF HandleAwaitingURL, claudeVars
  <2>2. LoginUrl = logins[Me] /\ [Mine EXCEPT !.url = LoginUrl] = Mine
    BY <1>1 DEF LoginUrl, Trackers
  <2>3. UNCHANGED trk
    BY <1>1, <2>1, <2>2 DEF Become, TypeOK, TrackerTypeOK
  <2>4. /\ reqs'[r].url = logins[Me]
        /\ \A q \in ReqIds : q # r => reqs'[q].url = reqs[q].url
    BY <2>1, <2>2 DEF TypeOK, TrackerTypeOK
  <2>5. mon'.pc = "bind" /\ mon'.pane = Me /\ mon'.rid = r
    BY <2>1 DEF Me, TypeOK, MonTypeOK
  <2>6. TrackerPhase'
    <3>1. \A p \in Panes : trk[p].st = "AUTH_PENDING" =>
            reqs'[trk[p].rid].url = logins[p]
      BY <2>1, <2>4, PendingRequest DEF PhaseInv, TrackerPhase
    <3> QED BY <2>1, <2>3, <3>1 DEF PhaseInv, TrackerPhase
  <2>7. HandlerPhase'
    BY <1>1, <2>1, <2>4, <2>5 DEF HandlerPhase, Me
  <2> QED BY <2>1, <2>6, <2>7, SameScreens DEF PhaseInv
<1>3. CASE ~(LoginUrl # 0 /\ Mine.rid = None)
  <2>1. ResetIfAged /\ MonDone
    BY <1>3 DEF HandleAwaitingURL, MonDone
  <2> QED BY <1>1, <2>1, ResetIfAgedSettles
<1> QED BY <1>2, <1>3

LEMMA SettlesBindRequest ==
    ASSUME TypeOK, Ownership, LoginInv, PhaseInv, BindRequest
    PROVE  PhaseInv'
<1> DEFINE me == Me
           ib == inbox[me]
           a == SetState(Mine, "AUTH_PENDING")
           t == [a EXCEPT !.rid = mon.rid]
<1>1. /\ mon.pc = "bind" /\ MonDone /\ Become(t) /\ mon.rid \in ReqIds /\ UNCHANGED reqs
      /\ me \in Panes /\ me = Me /\ Mine \in Trackers /\ UNCHANGED inbox
  BY HandlerTypes DEF BindRequest, TypeOK, MonTypeOK
<1>2. AtPrompt(mode[me], ib, screen[me]) /\ reqs[mon.rid].url = logins[me]
  BY <1>1 DEF PhaseInv, HandlerPhase
<1>3. a \in Trackers /\ a.st = "AUTH_PENDING" /\ ~a.aged
  BY <1>1 DEF SetState, Trackers, States
<1>4. t \in Trackers /\ t.st = "AUTH_PENDING" /\ ~t.aged /\ t.rid = mon.rid
  BY <1>1, <1>3 DEF Trackers, MaybeReq
<1>5. inbox'[me] = ib
  BY <1>1
<1> HIDE DEF me, ib, a, t
<1>6. Phase(t.st, mode[me], ib, screen[me])
  BY <1>2, <1>4 DEF Phase
<1> QED BY <1>1, <1>2, <1>4, <1>5, <1>6, HandlerSettles

\* A tracker that moves on, with nothing typed.
LEMMA MovedSettles ==
    ASSUME TypeOK, Ownership, LoginInv, PhaseInv, mon.pc = "handle", MonDone,
           UNCHANGED <<reqs, inbox>>,
           NEW s \in {"CODE_RECEIVED", "RESUMING"}, Become(SetState(Mine, s)),
           Phase(s, mode[Me], inbox[Me], screen[Me])
    PROVE  PhaseInv'
<1> DEFINE me == Me
           ib == inbox[me]
           t == SetState(Mine, s)
<1>1. me \in Panes /\ inbox'[me] = ib /\ me = Me /\ Mine \in Trackers
  BY HandlerSees
<1>2. t \in Trackers /\ t.st = s /\ ~t.aged /\ Become(t)
  BY <1>1 DEF SetState, Trackers, States
<1>3. Phase(t.st, mode[me], ib, screen[me])
  BY <1>2
<1> HIDE DEF me, ib, t
<1> QED BY <1>1, <1>2, <1>3, HandlerSettles

LEMMA SettlesHandleAuthPending ==
    ASSUME TypeOK, Ownership, LoginInv, PhaseInv, HandleAuthPending
    PROVE  PhaseInv'
<1>1. /\ mon.pc = "handle" /\ MonDone /\ UNCHANGED inbox
      /\ Phase("AUTH_PENDING", mode[Me], inbox[Me], screen[Me])
  BY HandlerSees DEF HandleAuthPending, Handling
<1>2. Phase("CODE_RECEIVED", mode[Me], inbox[Me], screen[Me])
  BY <1>1 DEF Phase
<1> QED BY <1>1, <1>2, MovedSettles, FailedSettles, StaySettles DEF HandleAuthPending

LEMMA SettlesHandleCodeReceived ==
    ASSUME TypeOK, Ownership, LoginInv, PhaseInv, HandleCodeReceived
    PROVE  PhaseInv'
<1> DEFINE me == Me
<1>1. /\ mon.pc = "handle" /\ MonDone /\ UNCHANGED reqs
      /\ me \in Panes /\ me = Me /\ Mine \in Trackers /\ inbox[me] \in Seq(Texts)
      /\ AtPrompt(mode[me], inbox[me], screen[me])
  BY HandlerSees DEF HandleCodeReceived, Handling, Phase
<1> HIDE DEF me
<1>2. CASE UNCHANGED inbox /\ Become(SetState(Mine, "FAILED"))
  BY <1>1, <1>2, FailedSettles
<1>3. ASSUME Mine.code # None, SendText(me, CodeText(Mine.code), TRUE),
             Become(SetState(Mine, "AWAITING_CONFIRM"))
      PROVE  PhaseInv'
  <2> DEFINE t == SetState(Mine, "AWAITING_CONFIRM")
             x == CodeText(Mine.code)
             ib == inbox'[me]
  <2>1. t \in Trackers /\ t.st = "AWAITING_CONFIRM" /\ ~t.aged /\ Become(t)
    BY <1>1, <1>3 DEF SetState, Trackers, States
  <2>2. x \in Texts /\ SendText(me, x, TRUE)
    BY <1>1, <1>3, TextTypes DEF Trackers, MaybeReq
  <2> HIDE DEF t, x
  <2>3. ib = Append(inbox[me], x) /\ \A q \in Panes : q # me => inbox'[q] = inbox[q]
    BY <1>1, <2>2, SendTextInbox
  <2> HIDE DEF ib
  <2>4. Len(ib) = 1
    BY <1>1, <2>2, <2>3, Typing DEF AtPrompt
  <2>5. Phase(t.st, mode[me], ib, screen[me])
    BY <1>1, <2>1, <2>4 DEF Phase, AtPrompt
  <2> QED BY <1>1, <2>1, <2>3, <2>5, HandlerSettles DEF ib
<1>4. \A x : SendText(me, x, FALSE) => UNCHANGED inbox
  BY DEF SendText
<1> QED BY <1>1, <1>2, <1>3, <1>4 DEF HandleCodeReceived

LEMMA SettlesHandleAwaitingConfirm ==
    ASSUME TypeOK, Ownership, LoginInv, PhaseInv, HandleAwaitingConfirm
    PROVE  PhaseInv'
<1>1. /\ mon.pc = "handle" /\ MonDone /\ UNCHANGED inbox
      /\ "ok" \in Shown(mon.out) => inbox[Me] = <<>>
  BY HandlerSees DEF HandleAwaitingConfirm, Handling, StillSo
<1>2. CASE Become(SetState(Mine, "RESUMING")) /\ DetectState(mon.out) = "RESUMING"
           /\ UNCHANGED reqs
  <2>1. inbox[Me] = <<>>
    BY <1>1, <1>2, DetectShows
  <2>2. Phase("RESUMING", mode[Me], inbox[Me], screen[Me])
    BY <2>1 DEF Phase, Asked
  <2> QED BY <1>1, <1>2, <2>2, MovedSettles
<1>3. CASE Become(SetState(Mine, "FAILED")) /\ (UNCHANGED reqs \/ cleanupRequest(Mine.rid))
  BY <1>1, <1>3, FailedSettles
<1>4. CASE UNCHANGED <<trk, reqs>>
  BY <1>1, <1>4, StaySettles
<1> QED BY <1>2, <1>3, <1>4 DEF HandleAwaitingConfirm

LEMMA SettlesHandleResuming ==
    ASSUME TypeOK, Ownership, LoginInv, PhaseInv, HandleResuming
    PROVE  PhaseInv'
<1> DEFINE x == Text("resume")
<1>1. /\ mon.pc = "handle" /\ MonDone /\ Me \in Panes /\ inbox[Me] \in Seq(Texts)
      /\ ~Asked(inbox[Me])
  BY HandlerSees DEF HandleResuming, Handling, Phase
<1>2. CASE UNCHANGED <<trk, reqs, inbox>>
  BY <1>1, <1>2, StaySettles
<1>3. CASE SendText(Me, x, TRUE) /\ cleanupRequest(Mine.rid) /\ Become(NewTracker)
  <2>1. x \in Texts /\ Quiet(x)
    BY DEF Text, Texts, Quiet
  <2> HIDE DEF x
  <2>2. /\ inbox'[Me] = Append(inbox[Me], x)
        /\ \A q \in Panes : q # Me => inbox'[q] = inbox[q]
    BY <1>1, <1>3, <2>1, SendTextInbox
  <2>3. ~Asked(Append(inbox[Me], x))
    BY <1>1, <2>1, Typing
  <2> QED BY <1>1, <1>3, <2>2, <2>3, FreshSettles
<1>4. SendText(Me, x, FALSE) => UNCHANGED inbox
  BY DEF SendText
<1> QED BY <1>2, <1>3, <1>4 DEF HandleResuming, Reset

LEMMA SettlesHandleFailed ==
    ASSUME TypeOK, Ownership, LoginInv, PhaseInv, HandleFailed
    PROVE  PhaseInv'
<1>1. mon.pc = "handle" /\ MonDone /\ UNCHANGED inbox
  BY DEF HandleFailed, Handling
<1>2. CASE Mine.aged /\ cleanupRequest(Mine.rid) /\ Become(NewTracker)
  <2>1. Me \in open => ~Asked(inbox[Me])
    BY <1>1, <1>2, HandlerSees
  <2> QED BY <1>1, <1>2, <2>1, FreshSettles
<1>3. CASE UNCHANGED <<trk, reqs>>
  BY <1>1, <1>3, StaySettles
<1> QED BY <1>2, <1>3 DEF HandleFailed, Reset

LEMMA SettlesMonitor ==
    ASSUME TypeOK, Ownership, LoginInv, PhaseInv, MonitorStep
    PROVE  PhaseInv'
BY SettlesHandleIdle, SettlesHandleRateLimited, SettlesHandleAwaitingMethodSelect,
   SettlesHandleAwaitingURL, SettlesBindRequest, SettlesHandleAuthPending,
   SettlesHandleCodeReceived, SettlesHandleAwaitingConfirm, SettlesHandleResuming,
   SettlesHandleFailed DEF MonitorStep

-----------------------------------------------------------------------------
(* The other actors.                                                       *)

\* A step that leaves the panes alone: a tracker stays where it is, or fails, and grows old
\* only with its pane's input read.
LEMMA FrameSettles ==
    ASSUME TypeOK, Ownership, LoginInv, PhaseInv,
           UNCHANGED <<mon, mode, screen, inbox, logins>>, open' \subseteq open,
           \A q \in ReqIds : reqs'[q].url = reqs[q].url,
           \A p \in Panes : /\ trk'[p].rid = trk[p].rid /\ trk'[p].url = trk[p].url
                            /\ trk'[p].st \in {trk[p].st, "FAILED"}
                            /\ trk'[p].aged => trk[p].aged \/ inbox[p] = <<>> \/ p \notin open
    PROVE  PhaseInv'
<1>1. TrackerPhase'
  <2> SUFFICES ASSUME NEW p \in Panes
               PROVE  /\ Phase(trk'[p].st, mode[p], inbox[p], screen[p])
                      /\ p \in open /\ (trk'[p].st = "IDLE" \/ trk'[p].aged) =>
                           ~Asked(inbox[p])
                      /\ trk'[p].st = "AWAITING_URL" =>
                           trk'[p].url = logins[p] /\ logins[p] # 0
                      /\ trk'[p].st = "AUTH_PENDING" => reqs'[trk'[p].rid].url = logins[p]
    BY DEF TrackerPhase
  <2>1. Phase("FAILED", mode[p], inbox[p], screen[p])
    BY DEF Phase
  <2>2. Phase(trk'[p].st, mode[p], inbox[p], screen[p])
    BY <2>1 DEF PhaseInv, TrackerPhase
  <2>3. inbox[p] = <<>> => ~Asked(inbox[p])
    BY DEF Asked
  <2> QED BY <2>2, <2>3, PendingRequest DEF PhaseInv, TrackerPhase
<1>2. HandlerPhase'
  <2>1. mon.pc = "bind" => mon.rid \in ReqIds
    BY DEF TypeOK, MonTypeOK
  <2> QED BY <2>1, MonPane DEF PhaseInv, HandlerPhase, Mine, Me
<1> QED BY <1>1, <1>2, SameScreens DEF PhaseInv

LEMMA SettlesHttp ==
    ASSUME TypeOK, Ownership, LoginInv, PhaseInv, NEW h \in Handlers, HttpStep(h)
    PROVE  PhaseInv'
<1>1. UNCHANGED <<mon, mode, screen, inbox, logins, open>>
  BY DEF HttpStep, HttpLookup, HttpFind, HttpStore, HttpFail, HttpDrop, HttpUnchanged,
         claudeVars
<1>2. \A p \in Panes : /\ trk'[p].rid = trk[p].rid /\ trk'[p].url = trk[p].url
                       /\ trk'[p].st \in {trk[p].st, "FAILED"}
                       /\ trk'[p].aged => trk[p].aged
  <2>1. CASE UNCHANGED trk
    BY <2>1
  <2>2. CASE HttpStore(h)
    BY <2>2 DEF HttpStore, TypeOK, TrackerTypeOK, Trackers
  <2>3. CASE HttpFail(h)
    BY <2>3 DEF HttpFail, SetState, TypeOK, TrackerTypeOK, Trackers
  <2> QED BY <2>1, <2>2, <2>3 DEF HttpStep, HttpLookup, HttpFind, HttpDrop
<1>3. \A q \in ReqIds : reqs'[q].url = reqs[q].url
  <2>1. CASE UNCHANGED reqs
    BY <2>1
  <2>2. ASSUME NEW m \in posts, InMap(m.rid),
               reqs' = [reqs EXCEPT ![m.rid].status = "processing"]
        PROVE  \A q \in ReqIds : reqs'[q].url = reqs[q].url
    BY <2>2 DEF InMap, TypeOK, TrackerTypeOK, Requests
  <2>3. CASE HttpDrop(h)
    BY <2>3, CleanupUrls DEF HttpDrop
  <2> QED BY <2>1, <2>2, <2>3 DEF HttpStep, HttpLookup, HttpFind, HttpStore, HttpFail
<1> QED BY <1>1, <1>2, <1>3, FrameSettles

LEMMA SettlesOutside ==
    ASSUME TypeOK, Ownership, LoginInv, PhaseInv, SlowPanes = FALSE,
           \/ AgentStep
           \/ \E m \in posts : LoseAnswer(m)
           \/ \E p \in Panes : Close(p) \/ TimePasses(p)
           \/ \E p \in Panes, a \in Cooldowns : CooldownEnds(p, a)
    PROVE  PhaseInv'
<1>1. UNCHANGED <<reqs, mon, mode, screen, inbox, logins>> /\ open' \subseteq open
  BY DEF AgentStep, LoseAnswer, checkPendingRequests, processAuthRequest, AgentUnchanged,
         Close, TimePasses, CooldownEnds, coordVars, claudeVars
<1>2. \A p \in Panes : /\ trk'[p].rid = trk[p].rid /\ trk'[p].url = trk[p].url
                       /\ trk'[p].st = trk[p].st
                       /\ trk'[p].aged => trk[p].aged \/ inbox[p] = <<>> \/ p \notin open
  BY DEF AgentStep, LoseAnswer, checkPendingRequests, processAuthRequest, AgentUnchanged,
         Close, TimePasses, CooldownEnds, coordVars, TypeOK, TrackerTypeOK, Trackers
<1> QED BY <1>1, <1>2, FrameSettles

\* The leftmost URL is one that the window shows.
LEMMA ExtractFinds ==
    ASSUME NEW out \in Seq(Markers), ExtractOAuthURL(out) # 0
    PROVE  \E i \in DOMAIN out : out[i].kind = "url" /\ out[i].n = ExtractOAuthURL(out)
<1>1. PICK i \in DOMAIN out : FirstUrlAt(out, i)
  BY DEF ExtractOAuthURL
<1>2. LET k == CHOOSE j \in DOMAIN out : FirstUrlAt(out, j)
      IN  k \in DOMAIN out /\ FirstUrlAt(out, k) /\ ExtractOAuthURL(out) = out[k].n
  BY <1>1 DEF ExtractOAuthURL
<1> QED BY <1>2 DEF FirstUrlAt

\* What Poll reads off a pane is so.
LEMMA PollSees ==
    ASSUME TypeOK, LoginInv, PhaseInv, NEW p \in Panes, p \in open,
           NEW s, s = trk[p].st, NEW sc, sc = screen[p], NEW md, md = mode[p],
           NEW ib, ib = inbox[p], NEW lg, lg = logins[p]
    PROVE  StillSo(s, sc, md, ib, sc, lg)
<1>1. /\ ScreenOK(md, sc, lg) /\ Phase(s, md, ib, sc) /\ sc \in Seq(Markers)
      /\ s = "IDLE" => ~Asked(ib)
      /\ md = "prompt" => Shown(sc) \cap {"url", "paste"} # {}
      /\ md \in {"busy", "limited", "menu", "prompt"}
  BY DEF PhaseInv, ScreenTells, TrackerPhase, LoginInv, PromptShown, TypeOK, ClaudeTypeOK
<1>2. md = "menu" => "method" \in Shown(sc)
  <2>1. sc # <<>> => Len(sc) \in DOMAIN sc
    BY <1>1
  <2> QED BY <1>1, <2>1 DEF ScreenOK, Shown
<1>3. DetectState(sc) = "RATE_LIMITED" => md \notin {"menu", "prompt"}
  BY <1>1, <1>2, DetectShows
<1>4. DetectState(sc) = "AWAITING_METHOD_SELECT" => md = "menu"
  <2> SUFFICES ASSUME DetectState(sc) = "AWAITING_METHOD_SELECT" PROVE md = "menu"
    OBVIOUS
  <2>1. PICK i \in DOMAIN sc : sc[i].kind = "method"
    BY DetectShows DEF Shown
  <2>2. ~Followed(sc, i, {"paste"})
    BY DetectShows DEF Shown, Followed
  <2> QED BY <1>1, <2>1, <2>2 DEF ScreenOK
<1>5. UrlIn(sc) => md = "prompt" /\ ExtractOAuthURL(sc) = lg /\ "ok" \notin Shown(sc)
  <2> SUFFICES ASSUME UrlIn(sc)
               PROVE  md = "prompt" /\ ExtractOAuthURL(sc) = lg /\ "ok" \notin Shown(sc)
    OBVIOUS
  <2>1. Shown(sc) \cap {"ok", "fail"} = {}
    BY DetectShows DEF UrlIn
  <2>2. PICK i \in DOMAIN sc : sc[i].kind = "url" /\ sc[i].n = ExtractOAuthURL(sc)
    BY <1>1, ExtractFinds DEF UrlIn
  <2>3. ~Followed(sc, i, {"ok", "fail"})
    BY <2>1 DEF Shown, Followed
  <2> QED BY <1>1, <2>1, <2>2, <2>3 DEF ScreenOK
<1>6. s \in {"RATE_LIMITED", "AWAITING_METHOD_SELECT"} /\ md = "prompt" => ib = <<>>
  BY <1>1 DEF Phase
<1>7. s = "RATE_LIMITED" /\ md = "menu" => ib = <<>>
  BY <1>1 DEF Phase
<1>8. s = "AWAITING_CONFIRM" /\ "ok" \in Shown(sc) => ib = <<>>
  BY <1>1 DEF Phase
<1> QED BY <1>1, <1>3, <1>4, <1>5, <1>6, <1>7, <1>8 DEF StillSo, AtPrompt

LEMMA SettlesPoll ==
    ASSUME TypeOK, Ownership, LoginInv, PhaseInv, NEW p \in Panes, Poll(p)
    PROVE  PhaseInv'
<1>1. /\ UNCHANGED <<trk, reqs, mode, screen, inbox, logins, open>> /\ mon.pc = "idle"
      /\ p \in open
  BY DEF Poll, claudeVars
<1>2. CASE mon' = mon
  BY <1>1, <1>2, FrameSettles
<1>3. CASE mon' = [mon EXCEPT !.pc = "handle", !.pane = p, !.cur = trk[p].st,
                              !.out = screen[p]]
  <2>1. /\ mon'.pc = "handle" /\ mon'.pane = p /\ mon'.cur = trk[p].st
        /\ mon'.out = screen[p]
    BY <1>3 DEF TypeOK, MonTypeOK
  <2>2. StillSo(trk[p].st, screen[p], mode[p], inbox[p], screen[p], logins[p])
    BY <1>1, PollSees
  <2>3. HandlerPhase'
    BY <1>1, <2>1, <2>2 DEF HandlerPhase, PhaseInv, TrackerPhase, Mine, Me
  <2>4. TrackerPhase'
    BY <1>1 DEF PhaseInv, TrackerPhase
  <2> QED BY <1>1, <2>3, <2>4, SameScreens DEF PhaseInv
<1> QED BY <1>2, <1>3 DEF Poll

\* Trackers that start over, with no handler at work and nothing left to read.
LEMMA ForgottenSettles ==
    ASSUME TypeOK, PhaseInv, mon'.pc = "idle",
           UNCHANGED <<mode, screen, inbox, logins, open>>,
           \A p \in Panes : \/ trk'[p] = NewTracker /\ (p \in open => inbox[p] = <<>>)
                            \/ trk'[p] = trk[p] /\ UNCHANGED reqs
    PROVE  PhaseInv'
<1>1. TrackerPhase'
  <2> SUFFICES ASSUME NEW p \in Panes
               PROVE  /\ Phase(trk'[p].st, mode[p], inbox[p], screen[p])
                      /\ p \in open /\ (trk'[p].st = "IDLE" \/ trk'[p].aged) =>
                           ~Asked(inbox[p])
                      /\ trk'[p].st = "AWAITING_URL" =>
                           trk'[p].url = logins[p] /\ logins[p] # 0
                      /\ trk'[p].st = "AUTH_PENDING" => reqs'[trk'[p].rid].url = logins[p]
    BY DEF TrackerPhase
  <2>1. CASE trk'[p] = NewTracker /\ (p \in open => inbox[p] = <<>>)
    BY <2>1 DEF NewTracker, Phase, Asked
  <2>2. CASE trk'[p] = trk[p] /\ UNCHANGED reqs
    BY <2>2 DEF PhaseInv, TrackerPhase
  <2> QED BY <2>1, <2>2
<1>2. HandlerPhase'
  BY DEF HandlerPhase
<1> QED BY <1>1, <1>2, SameScreens DEF PhaseInv

LEMMA SettlesForgotten ==
    ASSUME TypeOK, PhaseInv, (Restart /\ AllRead) \/ (\E p \in Panes : RemoveTracker(p))
    PROVE  PhaseInv'
<1>1. CASE Restart /\ AllRead
  <2>1. /\ mon'.pc = "idle" /\ UNCHANGED <<mode, screen, inbox, logins, open>>
        /\ \A p \in Panes : trk'[p] = NewTracker /\ (p \in open => inbox[p] = <<>>)
    BY <1>1 DEF Restart, MonIdle, claudeVars, AllRead
  <2> QED BY <2>1, ForgottenSettles
<1>2. ASSUME NEW p \in Panes, RemoveTracker(p) PROVE PhaseInv'
  <2>1. /\ mon'.pc = "idle" /\ UNCHANGED <<mode, screen, inbox, logins, open, reqs>>
        /\ p \notin open
        /\ \A q \in Panes : trk'[q] = IF q = p THEN NewTracker ELSE trk[q]
    BY <1>2 DEF RemoveTracker, claudeVars, TypeOK, TrackerTypeOK
  <2> QED BY <2>1, ForgottenSettles
<1> QED BY <1>1, <1>2

-----------------------------------------------------------------------------
(* The panes.                                                              *)

\* What Claude does in one step with what it waits for and with its unread texts: nothing at
\* all when it waits at a menu or a prompt and has read everything.
Moves(md, ib, md2, ib2) ==
    \/ ib2 = ib /\ md = "busy" /\ md2 \in {"busy", "limited"}
    \/ /\ ib # <<>> /\ ib2 = Tail(ib)
       /\ md \in {"busy", "limited"} /\ Head(ib).kind # "login" => md2 = md
       /\ md = "menu" => md2 \in {"menu", "prompt"}

LEMMA MovesRead ==
    ASSUME NEW ib \in Seq(Texts), ib # <<>>
    PROVE  /\ Tail(ib) \in Seq(Texts) /\ Head(ib) = ib[1] /\ 1 \in DOMAIN ib
           /\ Len(Tail(ib)) = Len(ib) - 1 /\ Len(ib) \in Nat /\ Len(Tail(ib)) \in Nat
           /\ \A i \in DOMAIN Tail(ib) : i + 1 \in DOMAIN ib /\ Tail(ib)[i] = ib[i + 1]
           /\ Len(ib) = 1 => Tail(ib) = <<>>
           /\ ~Asked(ib) => ~Asked(Tail(ib)) /\ Quiet(Head(ib))
<1>1. /\ Tail(ib) \in Seq(Texts) /\ Head(ib) = ib[1] /\ 1 \in DOMAIN ib
      /\ Len(Tail(ib)) = Len(ib) - 1 /\ Len(ib) \in Nat /\ Len(Tail(ib)) \in Nat
      /\ \A i \in DOMAIN Tail(ib) : i + 1 \in DOMAIN ib /\ Tail(ib)[i] = ib[i + 1]
  OBVIOUS
<1>2. Len(ib) = 1 => Tail(ib) = <<>>
  <2>1. Len(ib) = 1 => Len(Tail(ib)) = 0
    BY <1>1
  <2>2. \A e \in Seq(Texts) : Len(e) = 0 => e = <<>>
    OBVIOUS
  <2> QED BY <1>1, <2>1, <2>2
<1>3. ~Asked(ib) => ~Asked(Tail(ib)) /\ Quiet(Head(ib))
  BY <1>1 DEF Asked
<1> QED BY <1>1, <1>2, <1>3

LEMMA PhaseMoves ==
    ASSUME NEW ib \in Seq(Texts), NEW md \in {"busy", "limited", "menu", "prompt"},
           NEW md2, NEW ib2, NEW s, NEW sc, NEW sc2,
           Moves(md, ib, md2, ib2), Phase(s, md, ib, sc)
    PROVE  Phase(s, md2, ib2, sc2) /\ (~Asked(ib) => ~Asked(ib2))
<1>1. CASE ib2 = ib /\ md = "busy" /\ md2 \in {"busy", "limited"}
  BY <1>1 DEF Phase, AtPrompt
<1>2. CASE /\ ib # <<>> /\ ib2 = Tail(ib)
           /\ md \in {"busy", "limited"} /\ Head(ib).kind # "login" => md2 = md
           /\ md = "menu" => md2 \in {"menu", "prompt"}
  <2>1. ~Asked(ib) => ~Asked(ib2)
    BY <1>2, MovesRead
  <2>2. CASE s = "RATE_LIMITED"
    <3>1. /\ \A i \in DOMAIN ib : Quiet(ib[i]) \/ (ib[i].kind = "login" /\ i = Len(ib))
          /\ md \in {"busy", "limited"}
      BY <1>2, <2>2 DEF Phase
    <3>2. \A i \in DOMAIN ib2 : Quiet(ib2[i]) \/ (ib2[i].kind = "login" /\ i = Len(ib2))
      <4> SUFFICES ASSUME NEW i \in DOMAIN ib2
                   PROVE  Quiet(ib2[i]) \/ (ib2[i].kind = "login" /\ i = Len(ib2))
        OBVIOUS
      <4>1. i + 1 \in DOMAIN ib /\ ib2[i] = ib[i + 1]
        BY <1>2, MovesRead
      <4>2. i + 1 = Len(ib) => i = Len(ib2)
        BY <1>2, MovesRead
      <4> QED BY <3>1, <4>1, <4>2
    <3>3. Head(ib).kind = "login" => ib2 = <<>>
      <4>1. Head(ib).kind = "login" => Len(ib) = 1
        BY <1>2, <3>1, MovesRead DEF Quiet
      <4> QED BY <1>2, <4>1, MovesRead
    <3>4. md2 \in {"menu", "prompt"} => ib2 = <<>>
      BY <1>2, <3>1, <3>3
    <3> QED BY <2>1, <2>2, <3>2, <3>4 DEF Phase
  <2>3. CASE s = "AWAITING_METHOD_SELECT"
    <3>1. Len(ib) = 1 /\ md = "menu"
      BY <1>2, <2>3 DEF Phase
    <3>2. ib2 = <<>> /\ md2 \in {"menu", "prompt"}
      BY <1>2, <3>1, MovesRead
    <3> QED BY <2>1, <2>3, <3>2 DEF Phase
  <2>4. CASE s \in {"AWAITING_URL", "AUTH_PENDING", "CODE_RECEIVED"}
    BY <1>2, <2>4 DEF Phase, AtPrompt
  <2>5. CASE s = "AWAITING_CONFIRM"
    <3>1. ib2 = <<>>
      BY <1>2, <2>5, MovesRead DEF Phase
    <3> QED BY <2>1, <2>5, <3>1 DEF Phase
  <2>6. CASE s = "RESUMING"
    BY <2>1, <2>6 DEF Phase
  <2>7. CASE s \notin {"RATE_LIMITED", "AWAITING_METHOD_SELECT", "AWAITING_URL",
                       "AUTH_PENDING", "CODE_RECEIVED", "AWAITING_CONFIRM", "RESUMING"}
    BY <2>1, <2>7 DEF Phase
  <2> QED BY <2>1, <2>2, <2>3, <2>4, <2>5, <2>6, <2>7
<1> QED BY <1>1, <1>2 DEF Moves

\* At a menu or a prompt with nothing to read, Claude stays.
LEMMA MovesNot ==
    ASSUME NEW md \in {"menu", "prompt"}, NEW md2, NEW ib2
    PROVE  ~Moves(md, <<>>, md2, ib2)
BY DEF Moves

LEMMA StillSoMoves ==
    ASSUME NEW ib \in Seq(Texts), NEW md \in {"busy", "limited", "menu", "prompt"},
           NEW md2, NEW ib2, NEW s, NEW out, NEW sc, NEW sc2, NEW lg, NEW lg2,
           Moves(md, ib, md2, ib2), StillSo(s, out, md, ib, sc, lg)
    PROVE  StillSo(s, out, md2, ib2, sc2, lg2)
<1>1. Phase(s, md2, ib2, sc2) /\ (~Asked(ib) => ~Asked(ib2))
  BY PhaseMoves DEF StillSo
<1>2. s = "IDLE" /\ DetectState(out) = "RATE_LIMITED" => md2 \notin {"menu", "prompt"}
  <2> SUFFICES ASSUME s = "IDLE", DetectState(out) = "RATE_LIMITED"
               PROVE  md2 \notin {"menu", "prompt"}
    OBVIOUS
  <2>1. ~Asked(ib) /\ md \notin {"menu", "prompt"}
    BY DEF StillSo
  <2>2. ib # <<>> => Head(ib).kind # "login"
    BY <2>1, MovesRead DEF Quiet
  <2> QED BY <2>1, <2>2 DEF Moves
<1>3. ~(s = "RATE_LIMITED" /\ DetectState(out) = "AWAITING_METHOD_SELECT")
  BY MovesNot DEF StillSo
<1>4. ~(s \in {"RATE_LIMITED", "AWAITING_METHOD_SELECT"} /\ UrlIn(out))
  BY MovesNot DEF StillSo, AtPrompt
<1>5. s = "AWAITING_CONFIRM" /\ "ok" \in Shown(out) => ib2 = <<>>
  BY DEF StillSo, Moves
<1> QED BY <1>1, <1>2, <1>3, <1>4, <1>5 DEF StillSo

\* What a step of a pane must make sure of.
LEMMA PaneSettles ==
    ASSUME TypeOK, PhaseInv, NEW p \in Panes, PaneUnchanged, ScreenTells',
           \A q \in Panes : q # p => /\ mode'[q] = mode[q] /\ screen'[q] = screen[q]
                                     /\ inbox'[q] = inbox[q] /\ logins'[q] = logins[q],
           Moves(mode[p], inbox[p], mode'[p], inbox'[p])
    PROVE  PhaseInv'
<1>1. UNCHANGED <<trk, reqs, mon, open>>
  BY DEF PaneUnchanged, coordVars
<1>2. inbox[p] \in Seq(Texts) /\ mode[p] \in {"busy", "limited", "menu", "prompt"}
  BY DEF TypeOK, PaneTypeOK, ClaudeTypeOK
<1>3. ~AtPrompt(mode[p], inbox[p], screen[p])
  BY MovesNot DEF AtPrompt
<1>4. TrackerPhase'
  <2> SUFFICES ASSUME NEW q \in Panes
               PROVE  /\ Phase(trk[q].st, mode'[q], inbox'[q], screen'[q])
                      /\ q \in open /\ (trk[q].st = "IDLE" \/ trk[q].aged) => ~Asked(inbox'[q])
                      /\ trk[q].st = "AWAITING_URL" =>
                           trk[q].url = logins'[q] /\ logins'[q] # 0
                      /\ trk[q].st = "AUTH_PENDING" => reqs[trk[q].rid].url = logins'[q]
    BY <1>1 DEF TrackerPhase
  <2>1. CASE q = p
    <3>1. trk[p].st \notin {"AWAITING_URL", "AUTH_PENDING"}
      BY <1>3 DEF PhaseInv, TrackerPhase, Phase
    <3>2. /\ Phase(trk[p].st, mode[p], inbox[p], screen[p])
          /\ p \in open /\ (trk[p].st = "IDLE" \/ trk[p].aged) => ~Asked(inbox[p])
      BY DEF PhaseInv, TrackerPhase
    <3>3. /\ Phase(trk[p].st, mode'[p], inbox'[p], screen'[p])
          /\ ~Asked(inbox[p]) => ~Asked(inbox'[p])
      BY <1>2, <3>2, PhaseMoves
    <3> QED BY <2>1, <3>1, <3>2, <3>3
  <2>2. CASE q # p
    BY <2>2 DEF PhaseInv, TrackerPhase
  <2> QED BY <2>1, <2>2
<1>5. HandlerPhase'
  <2>1. CASE mon.pc = "idle"
    BY <1>1, <2>1 DEF HandlerPhase
  <2>2. CASE mon.pc # "idle" /\ Me # p
    BY <1>1, <2>2, MonPane DEF PhaseInv, HandlerPhase, Mine, Me
  <2>3. CASE mon.pc # "idle" /\ Me = p
    <3>1. mon.pc = "handle"
      BY <1>3, <2>3 DEF PhaseInv, HandlerPhase, TypeOK, MonTypeOK
    <3>2. StillSo(mon.cur, mon.out, mode[p], inbox[p], screen[p], logins[p])
      BY <2>3, <3>1 DEF PhaseInv, HandlerPhase
    <3>3. mon.cur # "AWAITING_URL"
      BY <1>3, <3>2 DEF StillSo, Phase
    <3>4. StillSo(mon.cur, mon.out, mode'[p], inbox'[p], screen'[p], logins'[p])
      BY <1>2, <3>2, StillSoMoves
    <3> QED BY <1>1, <2>3, <3>1, <3>3, <3>4 DEF PhaseInv, HandlerPhase, Mine, Me
  <2> QED BY <2>1, <2>2, <2>3
<1> QED BY <1>4, <1>5 DEF PhaseInv

-----------------------------------------------------------------------------
(* The windows.                                                            *)

\* c is s without its first k markers.
Cut(c, s, k) ==
    /\ k \in Nat /\ Len(s) = Len(c) + k
    /\ \A i \in DOMAIN c : c[i] = s[i + k]

LEMMA ScreenCut ==
    ASSUME NEW s \in Seq(Markers), NEW c \in Seq(Markers), NEW k, Cut(c, s, k),
           NEW md, NEW lg, ScreenOK(md, s, lg), md = "menu" => c # <<>>
    PROVE  ScreenOK(md, c, lg)
<1>1. /\ k \in Nat /\ Len(c) \in Nat /\ Len(s) \in Nat /\ Len(s) = Len(c) + k
      /\ DOMAIN c = 1..Len(c) /\ DOMAIN s = 1..Len(s)
      /\ \A i \in DOMAIN c : i + k \in DOMAIN s /\ c[i] = s[i + k]
  BY DEF Cut
<1>2. \A i \in DOMAIN c : \A kinds : Followed(s, i + k, kinds) => Followed(c, i, kinds)
  <2> SUFFICES ASSUME NEW i \in DOMAIN c, NEW kinds, Followed(s, i + k, kinds)
               PROVE  Followed(c, i, kinds)
    OBVIOUS
  <2>1. PICK j \in DOMAIN s : j > i + k /\ s[j].kind \in kinds
    BY DEF Followed
  <2>2. j - k \in DOMAIN c /\ j - k > i /\ (j - k) + k = j
    BY <1>1, <2>1
  <2>3. c[j - k].kind \in kinds
    BY <1>1, <2>1, <2>2
  <2> QED BY <2>2, <2>3 DEF Followed
<1>3. md = "menu" => c # <<>> /\ c[Len(c)].kind = "method"
  <2> SUFFICES ASSUME md = "menu" PROVE c # <<>> /\ c[Len(c)].kind = "method"
    OBVIOUS
  <2>1. c # <<>> /\ Len(c) \in DOMAIN c
    OBVIOUS
  <2>2. c[Len(c)] = s[Len(s)]
    BY <1>1, <2>1
  <2> QED BY <2>1, <2>2 DEF ScreenOK
<1>4. ASSUME NEW i \in DOMAIN c
      PROVE  /\ c[i].kind = "method" => md = "menu" \/ Followed(c, i, {"paste"})
             /\ c[i].kind = "url" =>
                  (md = "prompt" /\ c[i].n = lg) \/ Followed(c, i, {"ok", "fail"})
  <2>1. i + k \in DOMAIN s /\ c[i] = s[i + k]
    BY <1>1
  <2> QED BY <1>2, <2>1 DEF ScreenOK
<1> QED BY <1>3, <1>4 DEF ScreenOK

LEMMA WindowCut ==
    ASSUME NEW s \in Seq(Markers)
    PROVE  \E k : Cut(LastOf(s), s, k) /\ (s # <<>> => LastOf(s) # <<>>)
<1>1. CASE Len(s) > Window
  <2> DEFINE d == Len(s) - Window
  <2>1. d \in Nat /\ Len(s) \in Nat /\ Window \in Nat \ {0} /\ d >= 1 /\ d + Window = Len(s)
    BY <1>1, CoordinatorAssumption
  <2>2. LastOf(s) = SubSeq(s, d + 1, Len(s))
    BY <1>1 DEF LastOf
  <2> HIDE DEF d
  <2>3. /\ DOMAIN LastOf(s) = 1..Window /\ Len(LastOf(s)) = Window
        /\ \A i \in 1..Window : LastOf(s)[i] = s[i + d]
    BY <2>1, <2>2
  <2>4. LastOf(s) # <<>>
    BY <2>1, <2>3
  <2>5. Len(s) = Len(LastOf(s)) + d
    BY <2>1, <2>3
  <2>6. Cut(LastOf(s), s, d)
    BY <2>1, <2>3, <2>5 DEF Cut
  <2> QED BY <2>4, <2>6
<1>2. CASE ~(Len(s) > Window)
  <2>1. LastOf(s) = s
    BY <1>2 DEF LastOf
  <2>2. Cut(s, s, 0)
    BY DEF Cut
  <2> QED BY <2>1, <2>2
<1> QED BY <1>1, <1>2

\* Output that says what Claude does next.
LEMMA ScreenAppend ==
    ASSUME NEW s \in Seq(Markers), NEW ms \in Seq(Markers), NEW md, NEW md2, NEW lg, NEW lg2,
           ScreenOK(md, s, lg),
           md = "prompt" => \E j \in DOMAIN ms : ms[j].kind \in {"ok", "fail"},
           md = "menu" => md2 = "menu" \/ (\E j \in DOMAIN ms : ms[j].kind = "paste"),
           \A j \in DOMAIN ms :
               /\ ms[j].kind = "method" =>
                    md2 = "menu" \/ (\E l \in DOMAIN ms : l > j /\ ms[l].kind = "paste")
               /\ ms[j].kind = "url" => md2 = "prompt" /\ ms[j].n = lg2,
           md2 = "menu" => IF ms = <<>> THEN md = "menu"
                           ELSE ms[Len(ms)].kind = "method"
    PROVE  ScreenOK(md2, s \o ms, lg2)
<1> DEFINE c == s \o ms
<1>1. /\ c \in Seq(Markers) /\ Len(c) = Len(s) + Len(ms) /\ Len(s) \in Nat /\ Len(ms) \in Nat
      /\ DOMAIN c = 1..Len(c) /\ DOMAIN s = 1..Len(s) /\ DOMAIN ms = 1..Len(ms)
      /\ \A i \in 1..Len(s) : c[i] = s[i]
      /\ \A i \in 1..Len(ms) : c[Len(s) + i] = ms[i]
  OBVIOUS
<1>2. ms = <<>> => c = s
  OBVIOUS
<1>3. ms # <<>> => Len(ms) \in DOMAIN ms
  OBVIOUS
<1> HIDE DEF c
<1>4. \A i \in DOMAIN s : i \in DOMAIN c /\ c[i] = s[i]
  BY <1>1
<1>5. \A j \in DOMAIN ms : Len(s) + j \in DOMAIN c /\ c[Len(s) + j] = ms[j]
  BY <1>1
<1>6. \A i \in DOMAIN c : i \in DOMAIN s \/ (\E j \in DOMAIN ms : i = Len(s) + j)
  <2> SUFFICES ASSUME NEW i \in DOMAIN c, i \notin DOMAIN s
               PROVE  \E j \in DOMAIN ms : i = Len(s) + j
    OBVIOUS
  <2>1. i - Len(s) \in DOMAIN ms /\ i = Len(s) + (i - Len(s))
    BY <1>1
  <2> QED BY <2>1
<1>7. \A i \in DOMAIN s : \A kinds :
        /\ Followed(s, i, kinds) => Followed(c, i, kinds)
        /\ (\E j \in DOMAIN ms : ms[j].kind \in kinds) => Followed(c, i, kinds)
  <2>1. ASSUME NEW i \in DOMAIN s, NEW kinds, Followed(s, i, kinds)
        PROVE  Followed(c, i, kinds)
    BY <1>4, <2>1 DEF Followed
  <2>2. ASSUME NEW i \in DOMAIN s, NEW kinds, NEW j \in DOMAIN ms, ms[j].kind \in kinds
        PROVE  Followed(c, i, kinds)
    <3>1. Len(s) + j > i
      BY <1>1
    <3> QED BY <1>5, <2>2, <3>1 DEF Followed
  <2> QED BY <2>1, <2>2
<1>8. md2 = "menu" => c # <<>> /\ c[Len(c)].kind = "method"
  <2> SUFFICES ASSUME md2 = "menu" PROVE c # <<>> /\ c[Len(c)].kind = "method"
    OBVIOUS
  <2>1. CASE ms = <<>>
    BY <1>2, <2>1 DEF ScreenOK
  <2>2. CASE ms # <<>>
    <3>1. c[Len(c)] = ms[Len(ms)] /\ Len(c) # 0
      BY <1>1, <1>3, <2>2
    <3>2. c # <<>>
      BY <1>1, <3>1
    <3> QED BY <2>2, <3>1, <3>2
  <2> QED BY <2>1, <2>2
<1>9. ASSUME NEW i \in DOMAIN c
      PROVE  /\ c[i].kind = "method" => md2 = "menu" \/ Followed(c, i, {"paste"})
             /\ c[i].kind = "url" =>
                  (md2 = "prompt" /\ c[i].n = lg2) \/ Followed(c, i, {"ok", "fail"})
  <2>1. CASE i \in DOMAIN s
    <3>1. c[i] = s[i]
      BY <1>4, <2>1
    <3>2. c[i].kind = "method" => md2 = "menu" \/ Followed(c, i, {"paste"})
      BY <1>7, <2>1, <3>1 DEF ScreenOK
    <3>3. c[i].kind = "url" => Followed(c, i, {"ok", "fail"})
      BY <1>7, <2>1, <3>1 DEF ScreenOK
    <3> QED BY <3>2, <3>3
  <2>2. ASSUME NEW j \in DOMAIN ms, i = Len(s) + j
        PROVE  /\ c[i].kind = "method" => md2 = "menu" \/ Followed(c, i, {"paste"})
               /\ c[i].kind = "url" => md2 = "prompt" /\ c[i].n = lg2
    <3>1. c[i] = ms[j]
      BY <1>5, <2>2
    <3>2. \A l \in DOMAIN ms : l > j => Len(s) + l > i
      BY <1>1, <2>2
    <3>3. (\E l \in DOMAIN ms : l > j /\ ms[l].kind = "paste") => Followed(c, i, {"paste"})
      BY <1>5, <3>2 DEF Followed
    <3> QED BY <3>1, <3>3
  <2> QED BY <1>6, <2>1, <2>2
<1> QED BY <1>8, <1>9 DEF ScreenOK, c

LEMMA DisplaySettles ==
    ASSUME TypeOK, ScreenTells, NEW p \in Panes, NEW ms \in Seq(Markers), Display(p, ms),
           NEW md2, md2 = mode'[p], NEW lg2, lg2 = logins'[p],
           \A q \in Panes : q # p => mode'[q] = mode[q] /\ logins'[q] = logins[q],
           mode[p] = "prompt" => \E j \in DOMAIN ms : ms[j].kind \in {"ok", "fail"},
           mode[p] = "menu" => md2 = "menu" \/ (\E j \in DOMAIN ms : ms[j].kind = "paste"),
           \A j \in DOMAIN ms :
               /\ ms[j].kind = "method" =>
                    md2 = "menu" \/ (\E l \in DOMAIN ms : l > j /\ ms[l].kind = "paste")
               /\ ms[j].kind = "url" => md2 = "prompt" /\ ms[j].n = lg2,
           md2 = "menu" => IF ms = <<>> THEN mode[p] = "menu"
                           ELSE ms[Len(ms)].kind = "method"
    PROVE  ScreenTells' /\ \A q \in Panes : q # p => screen'[q] = screen[q]
<1> DEFINE s == screen[p] \o ms
<1>1. /\ screen[p] \in Seq(Markers) /\ s \in Seq(Markers) /\ screen'[p] = LastOf(s)
      /\ \A q \in Panes : q # p => screen'[q] = screen[q]
  BY DEF Display, TypeOK, ClaudeTypeOK
<1>2. ScreenOK(mode[p], screen[p], logins[p])
  BY DEF ScreenTells
<1>3. ScreenOK(md2, s, lg2)
  BY <1>1, <1>2, ScreenAppend
<1>4. md2 = "menu" => s # <<>>
  BY <1>3 DEF ScreenOK
<1> HIDE DEF s
<1>5. PICK k : Cut(LastOf(s), s, k) /\ (s # <<>> => LastOf(s) # <<>>)
  BY <1>1, WindowCut
<1>6. ScreenOK(md2, LastOf(s), lg2)
  BY <1>1, <1>3, <1>4, <1>5, ScreenCut, LastOfType
<1>7. \A q \in Panes : ScreenOK(mode'[q], screen'[q], logins'[q])
  <2> SUFFICES ASSUME NEW q \in Panes PROVE ScreenOK(mode'[q], screen'[q], logins'[q])
    OBVIOUS
  <2>1. CASE q = p
    BY <1>1, <1>6, <2>1
  <2>2. CASE q # p
    BY <1>1, <2>2 DEF ScreenTells
  <2> QED BY <2>1, <2>2
<1> QED BY <1>1, <1>7 DEF ScreenTells

\* One marker, or none.
LEMMA MarkSettles ==
    ASSUME TypeOK, PhaseInv, NEW p \in Panes, PaneUnchanged,
           NEW k \in {"ok", "fail", "method", "limit", "banner", "reminder", "none"},
           Display(p, IF k = "none" THEN <<>> ELSE <<Marker(k, 0)>>),
           NEW m \in {"busy", "limited", "menu"}, mode' = [mode EXCEPT ![p] = m],
           UNCHANGED logins, \A q \in Panes : q # p => inbox'[q] = inbox[q],
           mode[p] = "prompt" => k \in {"ok", "fail"},
           mode[p] = "menu" => m = "menu",
           m = "menu" => k = "method" \/ (k = "none" /\ mode[p] = "menu"),
           k = "method" => m = "menu",
           Moves(mode[p], inbox[p], m, inbox'[p])
    PROVE  PhaseInv'
<1> DEFINE ms == IF k = "none" THEN <<>> ELSE <<Marker(k, 0)>>
<1>1. /\ ms \in Seq(Markers) /\ Display(p, ms)
      /\ k = "none" => ms = <<>> /\ DOMAIN ms = {}
      /\ k # "none" => ms # <<>> /\ Len(ms) = 1 /\ DOMAIN ms = {1} /\ ms[1].kind = k
  BY MarkerType DEF Marker
<1> HIDE DEF ms
<1>2. /\ mode'[p] = m /\ \A q \in Panes : q # p => mode'[q] = mode[q]
      /\ logins'[p] = logins[p] /\ \A q \in Panes : q # p => logins'[q] = logins[q]
  BY DEF TypeOK, ClaudeTypeOK
<1>3. mode[p] = "prompt" => \E j \in DOMAIN ms : ms[j].kind \in {"ok", "fail"}
  BY <1>1
<1>4. \A j \in DOMAIN ms : ms[j].kind = k /\ ms[j].kind # "url"
  BY <1>1
<1>5. m = "menu" => IF ms = <<>> THEN mode[p] = "menu" ELSE ms[Len(ms)].kind = "method"
  BY <1>1
<1>6. ScreenTells' /\ (\A q \in Panes : q # p => screen'[q] = screen[q])
  BY <1>1, <1>2, <1>3, <1>4, <1>5, DisplaySettles DEF PhaseInv
<1> QED BY <1>2, <1>6, PaneSettles

LEMMA PromptSettles ==
    ASSUME TypeOK, PhaseInv, NEW p \in Panes, PaneUnchanged, ShowPrompt(p),
           logins[p] < MaxLogins, \A q \in Panes : q # p => inbox'[q] = inbox[q],
           mode[p] # "prompt", Moves(mode[p], inbox[p], "prompt", inbox'[p])
    PROVE  PhaseInv'
<1> DEFINE ms == <<Marker("url", logins[p] + 1), Marker("paste", 0)>>
<1>1. logins[p] \in Nat /\ logins[p] + 1 \in Urls
  BY CoordinatorAssumption DEF TypeOK, ClaudeTypeOK, Urls
<1>2. /\ ms \in Seq(Markers) /\ ms # <<>> /\ DOMAIN ms = {1, 2} /\ 2 > 1
      /\ ms[1].n = logins[p] + 1 /\ ms[1].kind = "url" /\ ms[2].kind = "paste"
  BY <1>1, MarkerType DEF Marker
<1>3. Display(p, ms)
  BY DEF ShowPrompt
<1> HIDE DEF ms
<1>4. /\ mode'[p] = "prompt" /\ \A q \in Panes : q # p => mode'[q] = mode[q]
      /\ logins'[p] = logins[p] + 1 /\ \A q \in Panes : q # p => logins'[q] = logins[q]
  BY DEF ShowPrompt, TypeOK, ClaudeTypeOK
<1>5. /\ \E j \in DOMAIN ms : ms[j].kind = "paste"
      /\ \A j \in DOMAIN ms : /\ ms[j].kind # "method"
                              /\ ms[j].kind = "url" => ms[j].n = logins[p] + 1
  BY <1>2
<1>6. ScreenTells' /\ (\A q \in Panes : q # p => screen'[q] = screen[q])
  BY <1>2, <1>3, <1>4, <1>5, DisplaySettles DEF PhaseInv
<1> QED BY <1>4, <1>6, PaneSettles

LEMMA SettlesScroll ==
    ASSUME TypeOK, PhaseInv, NEW p \in Panes, Scroll(p)
    PROVE  PhaseInv'
<1>1. /\ screen[p] \in Seq(Markers) /\ screen[p] # <<>> /\ screen'[p] = Tail(screen[p])
      /\ \A q \in Panes : q # p => screen'[q] = screen[q]
      /\ mode[p] = "busy" /\ UNCHANGED <<mode, inbox, logins>> /\ PaneUnchanged
  BY DEF Scroll, TypeOK, ClaudeTypeOK
<1>2. Tail(screen[p]) \in Seq(Markers) /\ Cut(Tail(screen[p]), screen[p], 1)
  <2>1. /\ Len(screen[p]) = Len(Tail(screen[p])) + 1
        /\ \A i \in DOMAIN Tail(screen[p]) : Tail(screen[p])[i] = screen[p][i + 1]
    BY <1>1
  <2> QED BY <1>1, <2>1 DEF Cut
<1>3. ScreenOK("busy", screen[p], logins[p])
  BY <1>1 DEF PhaseInv, ScreenTells
<1>4. ScreenOK("busy", Tail(screen[p]), logins[p])
  BY <1>1, <1>2, <1>3, ScreenCut
<1>5. \A q \in Panes : ScreenOK(mode'[q], screen'[q], logins'[q])
  <2> SUFFICES ASSUME NEW q \in Panes PROVE ScreenOK(mode[q], screen'[q], logins[q])
    BY <1>1
  <2>1. CASE q = p
    BY <1>1, <1>4, <2>1
  <2>2. CASE q # p
    BY <1>1, <2>2 DEF PhaseInv, ScreenTells
  <2> QED BY <2>1, <2>2
<1>6. ScreenTells'
  BY <1>5 DEF ScreenTells
<1>7. Moves(mode[p], inbox[p], mode'[p], inbox'[p])
  BY <1>1 DEF Moves
<1> QED BY <1>1, <1>6, <1>7, PaneSettles

LEMMA SettlesRead ==
    ASSUME TypeOK, PhaseInv, NEW p \in Panes, Read(p)
    PROVE  PhaseInv'
<1> DEFINE x == Head(inbox[p])
<1>1. /\ ReadText(p, x) /\ PaneUnchanged /\ inbox[p] # <<>>
      /\ mode[p] \in {"busy", "limited", "menu", "prompt"}
      /\ mode \in [Panes -> {"busy", "limited", "menu", "prompt"}]
      /\ inbox'[p] = Tail(inbox[p]) /\ \A q \in Panes : q # p => inbox'[q] = inbox[q]
      /\ mode[p] = "menu" => logins[p] < MaxLogins
  BY DEF Read, TypeOK, PaneTypeOK, ClaudeTypeOK
<1>2. /\ \A m \in {"menu", "prompt"} :
           (mode[p] = "menu" \/ x.kind = "login") => Moves(mode[p], inbox[p], m, inbox'[p])
      /\ \A m : mode[p] = "prompt" => Moves(mode[p], inbox[p], m, inbox'[p])
      /\ mode[p] \in {"busy", "limited"} => Moves(mode[p], inbox[p], mode[p], inbox'[p])
  BY <1>1 DEF Moves
<1> HIDE DEF x
<1>3. CASE ShowPrompt(p) /\ logins[p] < MaxLogins /\ mode[p] # "prompt"
           /\ (mode[p] = "menu" \/ x.kind = "login")
  BY <1>1, <1>2, <1>3, PromptSettles
<1>4. CASE ShowMenu(p) /\ mode[p] \in {"busy", "limited"} /\ x.kind = "login"
  BY <1>1, <1>2, <1>4, MarkSettles DEF ShowMenu
<1>5. ASSUME NEW k \in {"ok", "fail"}, NEW m \in {"busy", "limited"}, mode[p] = "prompt",
             mode' = [mode EXCEPT ![p] = m], Display(p, <<Marker(k, 0)>>), UNCHANGED logins
      PROVE  PhaseInv'
  BY <1>1, <1>2, <1>5, MarkSettles
<1>6. ASSUME NEW k \in {"limit", "reminder", "none"},
             Display(p, IF k = "none" THEN <<>> ELSE <<Marker(k, 0)>>),
             mode[p] \in {"busy", "limited"}, UNCHANGED <<mode, logins>>
      PROVE  PhaseInv'
  <2>1. mode' = [mode EXCEPT ![p] = mode[p]]
    BY <1>1, <1>6
  <2> QED BY <1>1, <1>2, <1>6, <2>1, MarkSettles
<1>7. CASE mode[p] = "menu" /\ Display(p, <<>>) /\ UNCHANGED <<mode, logins>>
  <2>1. mode' = [mode EXCEPT ![p] = "menu"]
    BY <1>1, <1>7
  <2> QED BY <1>1, <1>2, <1>7, <2>1, MarkSettles
<1>8. CASE /\ mode[p] = "limited" /\ Display(p, <<Marker("limit", 0)>>)
           /\ UNCHANGED <<mode, logins>>
  BY <1>6, <1>8
<1>9. CASE /\ mode[p] = "busy"
           /\ Display(p, IF x.kind = "reminder" THEN <<Marker("reminder", 0)>> ELSE <<>>)
           /\ UNCHANGED <<mode, logins>>
  <2>1. CASE x.kind = "reminder"
    BY <1>6, <1>9, <2>1
  <2>2. CASE x.kind # "reminder"
    BY <1>6, <1>9, <2>2
  <2> QED BY <2>1, <2>2
<1>10. CASE /\ mode[p] = "prompt" /\ UNCHANGED logins
            /\ \/ mode' = [mode EXCEPT ![p] = "busy"] /\ Display(p, <<Marker("ok", 0)>>)
               \/ mode' = [mode EXCEPT ![p] = "limited"] /\ Display(p, <<Marker("fail", 0)>>)
  BY <1>5, <1>10
<1> QED BY <1>1, <1>3, <1>4, <1>7, <1>8, <1>9, <1>10 DEF ReadText, Accepts

LEMMA SettlesPane ==
    ASSUME TypeOK, Ownership, LoginInv, PhaseInv, SlowPanes = FALSE,
           NEW p \in Panes, PaneStep(p)
    PROVE  PhaseInv'
<1>1. CASE HitLimit(p)
  <2>1. Moves(mode[p], inbox[p], "limited", inbox'[p])
    BY <1>1 DEF HitLimit, Moves
  <2> QED BY <1>1, <2>1, MarkSettles DEF HitLimit
<1>2. CASE Compact(p)
  <2>1. Moves(mode[p], inbox[p], "busy", inbox'[p]) /\ mode' = [mode EXCEPT ![p] = "busy"]
    BY <1>2 DEF Compact, Moves, TypeOK, ClaudeTypeOK
  <2> QED BY <1>2, <2>1, MarkSettles DEF Compact
<1> QED BY <1>1, <1>2, SettlesRead, SettlesScroll, SettlesOutside DEF PaneStep

LEMMA SettlesNext ==
    ASSUME TypeOK, Ownership, LoginInv, PhaseInv, SlowPanes = FALSE,
           [Next]_vars, [Restart => AllRead]_vars
    PROVE  PhaseInv'
<1>1. CASE UNCHANGED vars
  BY <1>1, FrameSettles DEF vars
<1>2. CASE Next /\ ~UNCHANGED vars
  <2>1. Restart => AllRead
    BY <1>2
  <2> QED BY <1>2, <2>1, SettlesMonitor, SettlesPoll, SettlesForgotten, SettlesHttp,
             SettlesOutside, SettlesPane DEF Next
<1> QED BY <1>1, <1>2

\* If Claude reads what was typed before a timeout elapses and before the coordinator is
\* started anew, the request that a tracker waits on carries the URL of the prompt that
\* Claude waits at, for a window of any length and whatever the agent, the network and the
\* HTTP handlers do.
THEOREM UrlCurrent ==
    ASSUME SlowPanes = FALSE
    PROVE  Spec /\ CalmRestarts => []RequestUrlIsCurrent
<1>1. TypeOK /\ Ownership /\ LoginInv /\ PhaseInv /\ [Next]_vars /\ [Restart => AllRead]_vars
        => PhaseInv'
  BY SettlesNext
<1>2. PhaseInv => RequestUrlIsCurrent
  BY DEF PhaseInv, TrackerPhase, RequestUrlIsCurrent
<1> QED BY <1>1, <1>2, PhaseInit, LoginInvariant, OwnershipInvariant, PTL
        DEF Spec, CalmRestarts

-----------------------------------------------------------------------------
(* The coordinator implements LoginBroker.  Most steps give up some logins  *)
(* or none: what a tracker may do to a login is GiveUpStep.  BrokerInv has  *)
(* what the other theorems do not say: a tracker that the agent has failed  *)
(* has no code, so that the monitor, which read AUTH_PENDING before, does   *)
(* not bring its login back.                                                *)

Placed == \A r \in ReqIds : reqs[r].status # "unused" => reqs[r].pane \in Panes
FailedIsOver ==
    mon.pc = "handle" /\ mon.cur = "AUTH_PENDING" /\ Mine.st = "FAILED" =>
        Mine.code = None /\ Answered(Mine.rid)
BrokerInv == Placed /\ FailedIsOver

Making(r) == mon.pc = "bind" /\ mon.rid = r
Used(r) == reqs[r].status # "unused"
SamePlaces == \A r \in ReqIds : (Used(r)' <=> Used(r)) /\ reqs'[r].pane = reqs[r].pane

LEMMA SamePlaced == ASSUME Placed, SamePlaces PROVE Placed'
BY DEF Placed, SamePlaces, Used

LEMMA UnchangedPlaces == ASSUME UNCHANGED reqs PROVE SamePlaces
BY DEF SamePlaces, Used

LEMMA CleanupPlaces == ASSUME TypeOK, NEW r, cleanupRequest(r) PROVE SamePlaces
<1>1. \A q \in ReqIds : /\ reqs'[q].pane = reqs[q].pane
                        /\ reqs'[q].status = reqs[q].status \/
                             (InMap(q) /\ reqs'[q].status = "gone")
  BY DEF cleanupRequest, Dropped, TypeOK, TrackerTypeOK, Requests
<1> QED BY <1>1 DEF SamePlaces, Used, InMap

\* Logins that stop, and nothing else.
LEMMA GiveUpStep ==
    ASSUME TypeOK, Placed, SamePlaces,
           \A r \in ReqIds : Making(r)' <=> Making(r),
           \A p \in Panes : \/ /\ trk'[p].rid = trk[p].rid
                               /\ StageIn(trk'[p]) \in {StageIn(trk[p]), "over"}
                            \/ trk'[p].rid = None
                            \/ trk'[p] = trk[p],
           UNCHANGED <<TypedCodes, Resumptions, accepted>>
    PROVE  Broker!Next
<1>1. \A t : StageIn(t) \in {"asked", "answered", "typed", "over"}
  BY DEF StageIn
<1>2. \A r \in ReqIds : \/ StageOf(r)' = StageOf(r)
                        \/ StageOf(r) \notin {"unused", "over"} /\ StageOf(r)' = "over"
  <2> SUFFICES ASSUME NEW r \in ReqIds
               PROVE  \/ StageOf(r)' = StageOf(r)
                      \/ StageOf(r) \notin {"unused", "over"} /\ StageOf(r)' = "over"
    OBVIOUS
  <2>1. CASE ~Used(r)
    BY <2>1 DEF StageOf, SamePlaces, Used
  <2>2. CASE Used(r) /\ Making(r)
    BY <2>2 DEF StageOf, SamePlaces, Used, Making
  <2>3. CASE Used(r) /\ ~Making(r)
    <3> DEFINE p == reqs[r].pane
    <3>1. p \in Panes /\ reqs'[r].pane = p /\ r # None
      BY <2>3, CoordinatorAssumption DEF Placed, Used, SamePlaces
    <3>2. StageOf(r) = IF trk[p].rid = r THEN StageIn(trk[p]) ELSE "over"
      BY <2>3 DEF StageOf, Used, Making
    <3>3. StageOf(r)' = IF trk'[p].rid = r THEN StageIn(trk'[p]) ELSE "over"
      BY <2>3, <3>1 DEF StageOf, Used, Making, SamePlaces
    <3> HIDE DEF p
    <3> QED BY <1>1, <3>1, <3>2, <3>3
  <2> QED BY <2>1, <2>2, <2>3
<1> DEFINE rs == {r \in ReqIds : StageOf(r)' # StageOf(r)}
<1>3. LoginStages' = [r \in ReqIds |-> IF r \in rs THEN "over" ELSE LoginStages[r]]
  BY <1>2 DEF LoginStages
<1>4. \A r \in rs : LoginStages[r] \notin {"unused", "over"}
  BY <1>2 DEF LoginStages
<1>5. UNCHANGED LoginPanes
  BY DEF LoginPanes, SamePlaces
<1>6. rs \in SUBSET ReqIds
  OBVIOUS
<1> HIDE DEF rs
<1>7. Broker!GiveUp(rs)
  BY <1>3, <1>4, <1>5 DEF Broker!GiveUp, Broker!Live
<1> QED BY <1>6, <1>7 DEF Broker!Next

\* What Claude has to read, when nothing is typed, and when something is.
LEMMA SameInbox ==
    ASSUME UNCHANGED inbox PROVE UNCHANGED <<TypedCodes, Resumptions>>
BY DEF TypedCodes, Resumptions, Unread

LEMMA SendTextUnread ==
    ASSUME TypeOK, NEW p \in Panes, NEW x \in Texts, NEW ok \in BOOLEAN, SendText(p, x, ok)
    PROVE  \A q \in Panes : \A y :
             Unread(q, y)' <=> Unread(q, y) \/ (ok /\ q = p /\ y = x)
<1> SUFFICES ASSUME NEW q \in Panes, NEW y
             PROVE  Unread(q, y)' <=> Unread(q, y) \/ (ok /\ q = p /\ y = x)
  OBVIOUS
<1>1. inbox'[q] = IF ok /\ q = p THEN Append(inbox[q], x) ELSE inbox[q]
  BY SendTextInbox
<1>2. inbox[q] \in Seq(Texts)
  BY DEF TypeOK, PaneTypeOK
<1>3. /\ DOMAIN Append(inbox[q], x) = 1..(Len(inbox[q]) + 1)
      /\ DOMAIN inbox[q] = 1..Len(inbox[q]) /\ Len(inbox[q]) \in Nat
      /\ Append(inbox[q], x)[Len(inbox[q]) + 1] = x
      /\ \A i \in 1..Len(inbox[q]) : Append(inbox[q], x)[i] = inbox[q][i]
  BY <1>2
<1>4. CASE ok /\ q = p
  <2>1. Unread(q, y)' => Unread(q, y) \/ y = x
    BY <1>1, <1>3, <1>4 DEF Unread
  <2>2. Unread(q, y) => Unread(q, y)'
    BY <1>1, <1>3, <1>4 DEF Unread
  <2>3. Len(inbox[q]) + 1 \in DOMAIN Append(inbox[q], x)
    BY <1>3
  <2>4. y = x => Unread(q, y)'
    BY <1>1, <1>3, <1>4, <2>3 DEF Unread
  <2> QED BY <1>4, <2>1, <2>2, <2>4
<1>5. CASE ~(ok /\ q = p)
  BY <1>1, <1>5 DEF Unread
<1> QED BY <1>4, <1>5

LEMMA TypedUnread ==
    ASSUME TypeOK, NEW p \in Panes, NEW x \in Texts, SendText(p, x, TRUE)
    PROVE  \A q \in Panes : \A y : Unread(q, y)' <=> Unread(q, y) \/ (q = p /\ y = x)
<1>1. PICK ok \in BOOLEAN : ok = TRUE
  OBVIOUS
<1>2. SendText(p, x, ok)
  BY <1>1
<1>3. \A q \in Panes : \A y : Unread(q, y)' <=> Unread(q, y) \/ (ok /\ q = p /\ y = x)
  BY <1>2, SendTextUnread
<1> QED BY <1>1, <1>3

\* Neither a code nor a resume prompt.
LEMMA OtherText ==
    ASSUME TypeOK, mon.pc # "idle", NEW k \in {"login", "one", "reminder"},
           NEW ok \in BOOLEAN, SendText(Me, Text(k), ok)
    PROVE  UNCHANGED <<TypedCodes, Resumptions>>
<1>1. Me \in Panes /\ Text(k) \in Texts
  BY HandlerTypes, TextTypes
<1>2. \A r : Text(k) # CodeText(r) /\ Text(k) # Text("resume")
  BY DEF Text, CodeText
<1>3. \A q \in Panes : \A r : (Unread(q, CodeText(r))' <=> Unread(q, CodeText(r)))
                              /\ (Unread(q, Text("resume"))' <=> Unread(q, Text("resume")))
  BY <1>1, <1>2, SendTextUnread
<1> QED BY <1>3 DEF TypedCodes, Resumptions

\* A handler that leaves the tracker its request and does not move its login on.
LEMMA HandlerGivesUp ==
    ASSUME TypeOK, Placed, mon.pc = "handle", MonDone, NEW t \in Trackers, Become(t),
           t.rid = None \/ (t.rid = Mine.rid /\ StageIn(t) \in {StageIn(Mine), "over"}),
           SamePlaces, UNCHANGED <<TypedCodes, Resumptions>>
    PROVE  Broker!Next
<1>1. \A p \in Panes : trk'[p] = IF p = Me THEN t ELSE trk[p]
  BY DEF Become, TypeOK, TrackerTypeOK
<1>2. \A r \in ReqIds : Making(r)' <=> Making(r)
  BY DEF Making, MonDone, MonIdle
<1>3. UNCHANGED accepted
  BY DEF MonDone, claudeVars
<1>4. \A p \in Panes : \/ /\ trk'[p].rid = trk[p].rid
                          /\ StageIn(trk'[p]) \in {StageIn(trk[p]), "over"}
                       \/ trk'[p].rid = None
                       \/ trk'[p] = trk[p]
  BY <1>1 DEF Mine, Me
<1> QED BY <1>2, <1>3, <1>4, GiveUpStep

LEMMA SameTracker ==
    ASSUME TypeOK, mon.pc = "handle", UNCHANGED trk
    PROVE  Mine \in Trackers /\ Become(Mine)
BY HandlerTypes DEF Become, Mine, Me

LEMMA HandlerStays ==
    ASSUME TypeOK, Placed, mon.pc = "handle", MonDone, UNCHANGED <<trk, reqs, inbox>>
    PROVE  Broker!Next
BY SameTracker, UnchangedPlaces, SameInbox, HandlerGivesUp

\* Before there is a request.
LEMMA EarlyGivesUp ==
    ASSUME TypeOK, Placed, mon.pc = "handle", MonDone, Mine.rid = None,
           NEW t \in Trackers, Become(t), t.rid = Mine.rid,
           UNCHANGED reqs, UNCHANGED <<TypedCodes, Resumptions>>
    PROVE  Broker!Next
BY UnchangedPlaces, HandlerGivesUp

LEMMA ResetIfAgedGivesUp ==
    ASSUME TypeOK, Placed, mon.pc = "handle", MonDone, ResetIfAged
    PROVE  Broker!Next
<1>1. Mine \in Trackers /\ NewTracker \in Trackers /\ NewTracker.rid = None
  BY HandlerTypes, NewTrackerType DEF NewTracker
<1>2. UNCHANGED <<reqs, inbox>> /\ (Become(NewTracker) \/ Become(Mine))
  BY DEF ResetIfAged, Reset
<1>3. SamePlaces /\ UNCHANGED <<TypedCodes, Resumptions>>
  BY <1>2, UnchangedPlaces, SameInbox
<1> QED BY <1>1, <1>2, <1>3, HandlerGivesUp

LEMMA BrokerHandleIdle ==
    ASSUME TypeOK, HeldInv, Placed, HandleIdle
    PROVE  Broker!Next
<1>1. /\ mon.pc = "handle" /\ Mine.rid = None /\ MonDone /\ UNCHANGED reqs
      /\ Mine \in Trackers
  BY EarlyHandler, HandlerTypes DEF HandleIdle, Handling, Early
<1>2. CASE InjectLogin
  <2> DEFINE a == SetState(Mine, "RATE_LIMITED")
             b == SetCooldown(a, "login")
  <2>1. a \in Trackers /\ b \in Trackers /\ a.rid = None /\ b.rid = None
    <3>1. a \in Trackers /\ a.rid = None
      BY <1>1, SetStateType DEF States
    <3> HIDE DEF a
    <3> QED BY <3>1, SetCooldownType DEF Cooldowns
  <2>2. /\ Become(a) \/ Become(b)
        /\ UNCHANGED inbox \/ \E ok \in BOOLEAN : SendText(Me, Text("login"), ok)
    BY <1>2 DEF InjectLogin
  <2>3. UNCHANGED <<TypedCodes, Resumptions>>
    BY <1>1, <2>2, SameInbox, OtherText
  <2> HIDE DEF a, b
  <2> QED BY <1>1, <2>1, <2>2, <2>3, EarlyGivesUp
<1>3. CASE InjectReminder
  <2> DEFINE b == SetCooldown(Mine, "compaction")
  <2>1. b \in Trackers /\ b.rid = None
    BY <1>1, SetCooldownType DEF Cooldowns
  <2>2. /\ Become(b) \/ Become(Mine)
        /\ \E ok \in BOOLEAN : SendText(Me, Text("reminder"), ok)
    BY <1>3 DEF InjectReminder
  <2>3. UNCHANGED <<TypedCodes, Resumptions>>
    BY <1>1, <2>2, OtherText
  <2> HIDE DEF b
  <2> QED BY <1>1, <2>1, <2>2, <2>3, EarlyGivesUp
<1>4. CASE UNCHANGED <<trk, inbox>>
  BY <1>1, <1>4, HandlerStays
<1> QED BY <1>2, <1>3, <1>4 DEF HandleIdle

LEMMA TakeUrlGivesUp ==
    ASSUME TypeOK, Placed, mon.pc = "handle", MonDone, Mine.rid = None, TakeUrl,
           UNCHANGED <<reqs, inbox>>
    PROVE  Broker!Next
<1> DEFINE a == SetState(Mine, "AWAITING_URL")
           t == [a EXCEPT !.url = ExtractOAuthURL(mon.out)]
<1>1. Mine \in Trackers /\ ExtractOAuthURL(mon.out) \in Urls
  BY HandlerTypes, ExtractType
<1>2. a \in Trackers /\ a.rid = None
  BY <1>1, SetStateType DEF States
<1>3. t \in Trackers /\ t.rid = None
  BY <1>1, <1>2 DEF Trackers
<1>4. Become(t)
  BY DEF TakeUrl
<1> HIDE DEF t
<1> QED BY <1>3, <1>4, SameInbox, EarlyGivesUp

LEMMA BrokerHandleRateLimited ==
    ASSUME TypeOK, HeldInv, Placed, HandleRateLimited
    PROVE  Broker!Next
<1>1. mon.pc = "handle" /\ Mine.rid = None /\ MonDone /\ Mine \in Trackers
  BY EarlyHandler, HandlerTypes DEF HandleRateLimited, Handling, Early
<1>2. CASE InjectMethodSelect /\ UNCHANGED reqs
  <2> DEFINE a == SetState(Mine, "AWAITING_METHOD_SELECT")
             b == SetCooldown(a, "method_select")
  <2>1. a \in Trackers /\ b \in Trackers /\ a.rid = None /\ b.rid = None
    <3>1. a \in Trackers /\ a.rid = None
      BY <1>1, SetStateType DEF States
    <3> HIDE DEF a
    <3> QED BY <3>1, SetCooldownType DEF Cooldowns
  <2>2. /\ Become(a) \/ Become(b)
        /\ UNCHANGED inbox \/ \E ok \in BOOLEAN : SendText(Me, Text("one"), ok)
    BY <1>2 DEF InjectMethodSelect
  <2>3. UNCHANGED <<TypedCodes, Resumptions>>
    BY <1>1, <2>2, SameInbox, OtherText
  <2> HIDE DEF a, b
  <2> QED BY <1>1, <1>2, <2>1, <2>2, <2>3, EarlyGivesUp
<1>3. CASE TakeUrl /\ UNCHANGED <<reqs, inbox>>
  BY <1>1, <1>3, TakeUrlGivesUp
<1>4. CASE ResetIfAged
  BY <1>1, <1>4, ResetIfAgedGivesUp
<1> QED BY <1>2, <1>3, <1>4 DEF HandleRateLimited

LEMMA BrokerHandleAwaitingMethodSelect ==
    ASSUME TypeOK, HeldInv, Placed, HandleAwaitingMethodSelect
    PROVE  Broker!Next
<1>1. mon.pc = "handle" /\ Mine.rid = None /\ MonDone
  BY EarlyHandler DEF HandleAwaitingMethodSelect, Handling, Early
<1> QED BY <1>1, TakeUrlGivesUp, ResetIfAgedGivesUp DEF HandleAwaitingMethodSelect

\* A request is made only by a pane that has no login.
LEMMA BrokerHandleAwaitingURL ==
    ASSUME TypeOK, HeldInv, Placed, NEW r \in ReqIds, HandleAwaitingURL(r)
    PROVE  Broker!Next
<1>1. /\ Handling("AWAITING_URL") /\ mon.pc = "handle" /\ Mine.rid = None
      /\ Me \in Panes /\ Mine \in Trackers
  BY EarlyHandler, HandlerTypes DEF HandleAwaitingURL, Early, Handling
<1>2. CASE LoginUrl # 0 /\ Mine.rid = None
  <2> DEFINE new == [status |-> "pending", pane |-> Me, url |-> LoginUrl]
             t == [Mine EXCEPT !.url = LoginUrl]
  <2>1. /\ reqs[r].status = "unused" /\ reqs' = [reqs EXCEPT ![r] = new]
        /\ Become(t) /\ mon' = [mon EXCEPT !.pc = "bind", !.rid = r]
        /\ UNCHANGED <<inbox, accepted>>
    BY <1>2 DEF HandleAwaitingURL, claudeVars
  <2>2. t.rid = Mine.rid /\ StageIn(t) = StageIn(Mine)
    BY <1>1 DEF Trackers, StageIn
  <2>3. \A p \in Panes : trk'[p].rid = trk[p].rid /\ StageIn(trk'[p]) = StageIn(trk[p])
    <3> HIDE DEF t
    <3> QED BY <2>1, <2>2 DEF Become, Mine, Me, TypeOK, TrackerTypeOK
  <2>4. mon'.pc = "bind" /\ mon'.rid = r
    BY <2>1 DEF TypeOK, MonTypeOK
  <2>5. \A q \in ReqIds : reqs'[q] = IF q = r THEN new ELSE reqs[q]
    BY <2>1 DEF TypeOK, TrackerTypeOK
  <2>6. new.status # "unused" /\ new.pane = Me
    OBVIOUS
  <2> HIDE DEF new, t
  <2>7. StageOf(r) = "unused" /\ StageOf(r)' = "asked"
    BY <2>1, <2>4, <2>5, <2>6 DEF StageOf
  <2>8. \A q \in ReqIds : q # r => StageOf(q)' = StageOf(q)
    BY <1>1, <2>3, <2>4, <2>5 DEF StageOf, Placed
  <2>9. LoginStages' = [LoginStages EXCEPT ![r] = "asked"]
    BY <2>7, <2>8 DEF LoginStages
  <2>10. LoginPanes' = [LoginPanes EXCEPT ![r] = Me]
    BY <2>5, <2>6 DEF LoginPanes
  <2>11. \A q \in ReqIds : LoginStages[q] \notin {"unused", "over"} => LoginPanes[q] # Me
    <3> SUFFICES ASSUME NEW q \in ReqIds, reqs[q].pane = Me,
                        StageOf(q) \notin {"unused", "over"}
                 PROVE  FALSE
      BY DEF LoginStages, LoginPanes
    <3>1. Mine.rid = q
      BY <1>1 DEF StageOf, Mine, Me
    <3> QED BY <1>1, <3>1, CoordinatorAssumption
  <2>12. UNCHANGED <<TypedCodes, accepted, Resumptions>>
    BY <2>1, SameInbox
  <2>13. Broker!Ask(r, Me)
    BY <2>7, <2>9, <2>10, <2>11, <2>12 DEF Broker!Ask, Broker!Live, LoginStages
  <2> QED BY <1>1, <2>13 DEF Broker!Next
<1>3. CASE ~(LoginUrl # 0 /\ Mine.rid = None)
  <2>1. ResetIfAged /\ MonDone
    BY <1>3 DEF HandleAwaitingURL, MonDone
  <2> QED BY <1>1, <2>1, ResetIfAgedGivesUp
<1> QED BY <1>2, <1>3

LEMMA BrokerBindRequest ==
    ASSUME TypeOK, Ownership, HeldInv, AnswerInv, Placed, BindRequest
    PROVE  Broker!Next
<1> DEFINE a == SetState(Mine, "AUTH_PENDING")
           t == [a EXCEPT !.rid = mon.rid]
<1>1. /\ mon.pc = "bind" /\ MonDone /\ UNCHANGED <<reqs, inbox>> /\ Become(t)
      /\ mon.rid \in ReqIds
  BY DEF BindRequest, TypeOK, MonTypeOK
<1>2. Me \in Panes /\ Mine \in Trackers /\ Stage(Mine) /\ Mine.rid = None
  BY <1>1, MyStage DEF HeldInv, MonFree
<1>3. Mine.code = None
  BY <1>2 DEF Stage
<1>4. a \in Trackers /\ a.st = "AUTH_PENDING" /\ a.code = None
  BY <1>2, <1>3, SetStateType DEF States
<1>5. t.st = "AUTH_PENDING" /\ t.rid = mon.rid /\ t.code = None
  BY <1>1, <1>4 DEF Trackers, MaybeReq
<1>6. StageIn(t) = "asked"
  BY <1>5 DEF StageIn
<1> HIDE DEF t
<1>7. \A p \in Panes : trk'[p] = IF p = Me THEN t ELSE trk[p]
  BY <1>1 DEF Become, TypeOK, TrackerTypeOK
<1>8. Used(mon.rid) /\ reqs[mon.rid].pane = Me
  BY <1>1 DEF Ownership, MonOwns, Owner, Used, Me
<1>9. \A r \in ReqIds : StageOf(r)' = StageOf(r)
  <2> SUFFICES ASSUME NEW r \in ReqIds PROVE StageOf(r)' = StageOf(r)
    OBVIOUS
  <2>1. mon'.pc # "bind"
    BY <1>1 DEF MonDone, MonIdle
  <2>2. CASE r = mon.rid
    BY <1>1, <1>2, <1>5, <1>6, <1>7, <1>8, <2>1, <2>2 DEF StageOf, Used
  <2>3. CASE r # mon.rid /\ Used(r)
    <3>1. reqs[r].pane \in Panes /\ r # None
      BY <2>3, CoordinatorAssumption DEF Placed, Used
    <3>2. CASE reqs[r].pane = Me
      <4>1. trk[Me].rid # r /\ trk'[Me].rid # r
        BY <1>2, <1>5, <1>7, <2>3, <3>1 DEF Mine, Me
      <4> QED BY <1>1, <2>1, <2>3, <3>2, <4>1 DEF StageOf, Used
    <3>3. CASE reqs[r].pane # Me
      BY <1>1, <1>7, <2>1, <2>3, <3>1, <3>3 DEF StageOf, Used
    <3> QED BY <3>2, <3>3
  <2>4. CASE ~Used(r)
    BY <1>1, <2>4 DEF StageOf, Used
  <2> QED BY <2>2, <2>3, <2>4
<1>10. LoginStages' = LoginStages /\ LoginPanes' = LoginPanes
  BY <1>1, <1>9 DEF LoginStages, LoginPanes
<1>11. UNCHANGED <<TypedCodes, Resumptions, accepted>>
  BY <1>1, SameInbox DEF MonDone, claudeVars
<1>12. Broker!GiveUp({})
  BY <1>10, <1>11 DEF Broker!GiveUp, LoginStages
<1> QED BY <1>12 DEF Broker!Next

LEMMA SetStateOf ==
    ASSUME NEW t \in Trackers, NEW s \in States
    PROVE  /\ SetState(t, s) \in Trackers /\ SetState(t, s).st = s
           /\ SetState(t, s).rid = t.rid /\ SetState(t, s).code = t.code
BY SetStateType

\* A tracker that fails gives its login up.
LEMMA FailedGivesUp ==
    ASSUME TypeOK, Placed, mon.pc = "handle", MonDone, UNCHANGED inbox,
           Become(SetState(Mine, "FAILED")), SamePlaces
    PROVE  Broker!Next
<1> DEFINE t == SetState(Mine, "FAILED")
<1>1. t \in Trackers /\ t.rid = Mine.rid /\ t.st = "FAILED"
  BY HandlerTypes, SetStateOf DEF States
<1>2. StageIn(t) = "over"
  BY <1>1 DEF StageIn
<1> HIDE DEF t
<1>3. Become(t)
  BY DEF t
<1> QED BY <1>1, <1>2, <1>3, SameInbox, HandlerGivesUp

LEMMA BrokerHandleAuthPending ==
    ASSUME TypeOK, HeldInv, AnswerInv, BrokerInv, HandleAuthPending
    PROVE  Broker!Next
<1>1. /\ Handling("AUTH_PENDING") /\ MonDone /\ UNCHANGED inbox /\ Placed
      /\ "AUTH_PENDING" \in States \ Early
  BY DEF HandleAuthPending, BrokerInv, States, Early
<1>2. /\ mon.pc = "handle" /\ Mine \in Trackers
      /\ Mine.st \in {"AUTH_PENDING", "FAILED"}
  BY <1>1, LateStage
<1>3. Mine.st = "FAILED" => Mine.code = None
  BY <1>1, <1>2 DEF BrokerInv, FailedIsOver, Handling
<1>4. CASE Mine.code # None /\ Become(SetState(Mine, "CODE_RECEIVED")) /\ UNCHANGED reqs
  <2> DEFINE t == SetState(Mine, "CODE_RECEIVED")
  <2>1. /\ t \in Trackers /\ t.rid = Mine.rid /\ t.code = Mine.code
        /\ t.st = "CODE_RECEIVED"
    BY <1>2, SetStateOf DEF States
  <2>2. StageIn(t) = StageIn(Mine)
    BY <1>2, <1>3, <1>4, <2>1 DEF StageIn
  <2> HIDE DEF t
  <2>3. Become(t)
    BY <1>4 DEF t
  <2> QED BY <1>1, <1>2, <1>4, <2>1, <2>2, <2>3, UnchangedPlaces, SameInbox, HandlerGivesUp
<1>5. CASE cleanupRequest(Mine.rid) /\ Become(SetState(Mine, "FAILED"))
  BY <1>1, <1>2, <1>5, CleanupPlaces, FailedGivesUp
<1>6. CASE UNCHANGED <<trk, reqs>>
  BY <1>1, <1>2, <1>6, HandlerStays
<1> QED BY <1>4, <1>5, <1>6 DEF HandleAuthPending

\* One login moves, and no other.
LEMMA LoginMoves ==
    ASSUME TypeOK, Placed, SamePlaces,
           \A q \in ReqIds : Making(q)' <=> Making(q),
           NEW r \in ReqIds, Used(r), ~Making(r),
           NEW w \in Panes, reqs[r].pane = w, trk[w].rid = r,
           NEW t, \A p \in Panes : trk'[p] = IF p = w THEN t ELSE trk[p],
           t.rid \in {r, None},
           NEW s, s = IF t.rid = r THEN StageIn(t) ELSE "over"
    PROVE  /\ LoginStages' = [LoginStages EXCEPT ![r] = s]
           /\ LoginStages[r] = StageIn(trk[w])
           /\ LoginPanes' = LoginPanes /\ LoginPanes[r] = w
<1>1. StageOf(r) = StageIn(trk[w])
  BY DEF StageOf, Used, Making
<1>2. StageOf(r)' = s
  <2>1. reqs'[r].status # "unused" /\ reqs'[r].pane = w /\ trk'[w] = t /\ ~Making(r)'
    BY DEF SamePlaces, Used
  <2> QED BY <2>1 DEF StageOf, Making
<1>3. ASSUME NEW q \in ReqIds, q # r PROVE StageOf(q)' = StageOf(q)
  <2>1. CASE ~Used(q)
    BY <2>1 DEF StageOf, Used, SamePlaces
  <2>2. CASE Used(q) /\ Making(q)
    BY <2>2 DEF StageOf, Used, SamePlaces, Making
  <2>3. CASE Used(q) /\ ~Making(q)
    <3>1. reqs[q].pane \in Panes /\ Used(q)' /\ ~Making(q)' /\ reqs'[q].pane = reqs[q].pane
      BY <2>3 DEF Placed, Used, SamePlaces
    <3>2. CASE reqs[q].pane = w
      <4>1. trk[w].rid # q /\ trk'[w].rid # q
        BY <1>3, CoordinatorAssumption
      <4> QED BY <2>3, <3>1, <3>2, <4>1 DEF StageOf, Used, Making
    <3>3. CASE reqs[q].pane # w
      <4>1. trk'[reqs[q].pane] = trk[reqs[q].pane]
        BY <3>1, <3>3
      <4> QED BY <2>3, <3>1, <4>1 DEF StageOf, Used, Making
    <3> QED BY <3>2, <3>3
  <2> QED BY <2>1, <2>2, <2>3
<1>4. LoginStages' = [LoginStages EXCEPT ![r] = s]
  BY <1>2, <1>3 DEF LoginStages
<1> QED BY <1>1, <1>4 DEF LoginStages, LoginPanes, SamePlaces

LEMMA MyLoginMoves ==
    ASSUME TypeOK, Placed, mon.pc = "handle", MonDone, SamePlaces,
           NEW r \in ReqIds, r = Mine.rid, Used(r), reqs[r].pane = Me, Me \in Panes,
           NEW t, Become(t), t.rid \in {r, None},
           NEW s, s = IF t.rid = r THEN StageIn(t) ELSE "over"
    PROVE  /\ LoginStages' = [LoginStages EXCEPT ![r] = s]
           /\ LoginStages[r] = StageIn(Mine)
           /\ LoginPanes' = LoginPanes /\ LoginPanes[r] = Me
<1>1. \A p \in Panes : trk'[p] = IF p = Me THEN t ELSE trk[p]
  BY DEF Become, TypeOK, TrackerTypeOK
<1>2. \A q \in ReqIds : ~Making(q)' /\ ~Making(q)
  BY DEF MonDone, MonIdle, Making
<1>3. PICK w \in Panes : w = Me
  OBVIOUS
<1>4. trk[w].rid = r /\ Mine = trk[w]
  BY <1>3 DEF Mine, Me
<1> QED BY <1>1, <1>2, <1>3, <1>4, LoginMoves

\* The one step that types a code.
LEMMA BrokerHandleCodeReceived ==
    ASSUME TypeOK, Ownership, HeldInv, AnswerInv, Placed, HandleCodeReceived
    PROVE  Broker!Next
<1> DEFINE t == SetState(Mine, "AWAITING_CONFIRM")
<1>1. Handling("CODE_RECEIVED") /\ MonDone /\ "CODE_RECEIVED" \in States \ Early
      /\ UNCHANGED reqs
  BY DEF HandleCodeReceived, States, Early
<1>2. /\ mon.pc = "handle" /\ Mine \in Trackers /\ Mine.st = "CODE_RECEIVED"
      /\ Mine.rid # None /\ Mine.code # None /\ Stage(Mine) /\ Me \in Panes
  BY <1>1, LateStage, HandlerTypes
<1>3. Mine.code = Mine.rid
  BY <1>2 DEF Stage
<1>4. PICK r \in ReqIds : r = Mine.rid /\ Used(r) /\ reqs[r].pane = Me
  BY <1>2 DEF Ownership, TrackersOwn, Owner, Used, Mine, Me
<1>5. PICK ok \in BOOLEAN :
        /\ SendText(Me, CodeText(r), ok)
        /\ Become(SetState(Mine, IF ok THEN "AWAITING_CONFIRM" ELSE "FAILED"))
  BY <1>2, <1>3, <1>4 DEF HandleCodeReceived
<1>6. CASE ~ok
  BY <1>1, <1>2, <1>5, <1>6, UnchangedPlaces, FailedGivesUp DEF SendText
<1>7. CASE ok
  <2>1. t.rid = r /\ t.st = "AWAITING_CONFIRM"
    BY <1>2, <1>4, SetStateOf DEF States
  <2>2. StageIn(Mine) = "answered" /\ StageIn(t) = "typed"
    BY <1>2, <2>1 DEF StageIn
  <2>3. Become(t)
    BY <1>5, <1>7
  <2> HIDE DEF t
  <2>4. /\ LoginStages' = [LoginStages EXCEPT ![r] = "typed"] /\ LoginStages[r] = "answered"
        /\ LoginPanes' = LoginPanes /\ LoginPanes[r] = Me
    BY <1>1, <1>2, <1>4, <2>1, <2>2, <2>3, UnchangedPlaces, MyLoginMoves
  <2>5. CodeText(r) \in Texts /\ CodeText(r) # Text("resume")
        /\ \A q \in ReqIds : CodeText(q) = CodeText(r) => q = r
    BY <1>4 DEF CodeText, Text, Texts
  <2>6. \A p \in Panes : \A y :
           Unread(p, y)' <=> Unread(p, y) \/ (p = Me /\ y = CodeText(r))
    BY <1>2, <1>5, <1>7, <2>5, SendTextUnread
  <2>7. TypedCodes' = TypedCodes \cup {<<Me, r>>}
    BY <1>2, <1>4, <2>5, <2>6 DEF TypedCodes
  <2>8. UNCHANGED Resumptions
    BY <2>5, <2>6 DEF Resumptions
  <2>9. UNCHANGED accepted
    BY <1>1 DEF MonDone, claudeVars
  <2>10. Broker!TypeCode(r)
    BY <2>4, <2>7, <2>8, <2>9 DEF Broker!TypeCode
  <2> QED BY <1>4, <2>10 DEF Broker!Next
<1> QED BY <1>6, <1>7

LEMMA BrokerHandleAwaitingConfirm ==
    ASSUME TypeOK, HeldInv, AnswerInv, Placed, HandleAwaitingConfirm
    PROVE  Broker!Next
<1>1. Handling("AWAITING_CONFIRM") /\ MonDone /\ UNCHANGED inbox
      /\ "AWAITING_CONFIRM" \in States \ Early
  BY DEF HandleAwaitingConfirm, States, Early
<1>2. mon.pc = "handle" /\ Mine \in Trackers /\ Mine.st = "AWAITING_CONFIRM"
  BY <1>1, LateStage
<1>3. CASE Become(SetState(Mine, "RESUMING")) /\ UNCHANGED reqs
  <2> DEFINE t == SetState(Mine, "RESUMING")
  <2>1. t \in Trackers /\ t.rid = Mine.rid /\ t.st = "RESUMING"
    BY <1>2, SetStateOf DEF States
  <2>2. StageIn(t) = StageIn(Mine)
    BY <1>2, <2>1 DEF StageIn
  <2>3. Become(t)
    BY <1>3
  <2> HIDE DEF t
  <2> QED BY <1>1, <1>2, <1>3, <2>1, <2>2, <2>3, UnchangedPlaces, SameInbox, HandlerGivesUp
<1>4. CASE Become(SetState(Mine, "FAILED")) /\ (UNCHANGED reqs \/ cleanupRequest(Mine.rid))
  BY <1>1, <1>2, <1>4, UnchangedPlaces, CleanupPlaces, FailedGivesUp
<1>5. CASE UNCHANGED <<trk, reqs>>
  BY <1>1, <1>2, <1>5, HandlerStays
<1>6. \/ Become(SetState(Mine, "RESUMING")) /\ UNCHANGED reqs
      \/ Become(SetState(Mine, "FAILED")) /\ (UNCHANGED reqs \/ cleanupRequest(Mine.rid))
      \/ UNCHANGED <<trk, reqs>>
  BY DEF HandleAwaitingConfirm
<1> QED BY <1>3, <1>4, <1>5, <1>6

\* The one step that ends a login well: its code has logged the pane in.
LEMMA BrokerHandleResuming ==
    ASSUME TypeOK, Ownership, HeldInv, AnswerInv, Placed, ResumeAfterLogin, HandleResuming
    PROVE  Broker!Next
<1>1. Handling("RESUMING") /\ MonDone /\ "RESUMING" \in States \ Early
  BY DEF HandleResuming, States, Early
<1>2. /\ mon.pc = "handle" /\ Mine \in Trackers /\ Mine.st = "RESUMING"
      /\ Mine.rid # None /\ Me \in Panes
  BY <1>1, LateStage, HandlerTypes
<1>3. PICK r \in ReqIds : r = Mine.rid /\ Used(r) /\ reqs[r].pane = Me /\ r \in accepted
  BY <1>2 DEF Ownership, TrackersOwn, Owner, Used, Mine, Me, ResumeAfterLogin
<1>4. CASE UNCHANGED <<trk, reqs, inbox>>
  BY <1>1, <1>2, <1>4, HandlerStays
<1>5. CASE SendText(Me, Text("resume"), TRUE) /\ cleanupRequest(r) /\ Become(NewTracker)
  <2>1. NewTracker.rid = None /\ r # None
    BY CoordinatorAssumption DEF NewTracker
  <2>2. SamePlaces
    BY <1>5, CleanupPlaces
  <2>3. StageIn(Mine) = "typed"
    BY <1>2 DEF StageIn
  <2>4. /\ LoginStages' = [LoginStages EXCEPT ![r] = "over"] /\ LoginStages[r] = "typed"
        /\ LoginPanes' = LoginPanes /\ LoginPanes[r] = Me
    BY <1>1, <1>2, <1>3, <1>5, <2>1, <2>2, <2>3, MyLoginMoves
  <2>5. Text("resume") \in Texts /\ \A q : CodeText(q) # Text("resume")
    BY TextTypes DEF CodeText, Text
  <2>6. \A p \in Panes : \A y :
           Unread(p, y)' <=> Unread(p, y) \/ (p = Me /\ y = Text("resume"))
    BY <1>2, <1>5, <2>5, TypedUnread
  <2>7. Resumptions' = Resumptions \cup {Me}
    BY <1>2, <2>6 DEF Resumptions
  <2>8. UNCHANGED TypedCodes
    BY <2>5, <2>6 DEF TypedCodes
  <2>9. UNCHANGED accepted
    BY <1>1 DEF MonDone, claudeVars
  <2>10. Broker!Resume(r)
    BY <1>3, <2>4, <2>7, <2>8, <2>9 DEF Broker!Resume
  <2> QED BY <2>10 DEF Broker!Next
<1>6. \/ UNCHANGED <<trk, reqs, inbox>>
      \/ SendText(Me, Text("resume"), TRUE) /\ cleanupRequest(r) /\ Become(NewTracker)
  BY <1>3 DEF HandleResuming, SendText, Reset
<1> QED BY <1>4, <1>5, <1>6

LEMMA BrokerHandleFailed ==
    ASSUME TypeOK, HeldInv, AnswerInv, Placed, HandleFailed
    PROVE  Broker!Next
<1>1. mon.pc = "handle" /\ MonDone /\ UNCHANGED inbox
  BY DEF HandleFailed, Handling
<1>2. CASE cleanupRequest(Mine.rid) /\ Become(NewTracker)
  <2>1. NewTracker \in Trackers /\ NewTracker.rid = None
    BY NewTrackerType DEF NewTracker
  <2> QED BY <1>1, <1>2, <2>1, CleanupPlaces, SameInbox, HandlerGivesUp
<1>3. CASE UNCHANGED <<trk, reqs>>
  BY <1>1, <1>3, HandlerStays
<1> QED BY <1>2, <1>3 DEF HandleFailed, Reset

LEMMA BrokerMonitor ==
    ASSUME TypeOK, Ownership, HeldInv, AnswerInv, LoginInv, BrokerInv, MonitorStep
    PROVE  Broker!Next
BY BrokerHandleIdle, BrokerHandleRateLimited, BrokerHandleAwaitingMethodSelect,
   BrokerHandleAwaitingURL, BrokerBindRequest, BrokerHandleAuthPending,
   BrokerHandleCodeReceived, BrokerHandleAwaitingConfirm, BrokerHandleResuming,
   BrokerHandleFailed DEF MonitorStep, BrokerInv, LoginInv

-----------------------------------------------------------------------------
(* The other actors.                                                       *)

\* Steps that leave every login at its stage.
LEMMA StepStays ==
    ASSUME TypeOK, Placed, SamePlaces, UNCHANGED accepted,
           \A r \in ReqIds : Making(r)' <=> Making(r),
           \A p \in Panes : /\ trk'[p].rid = trk[p].rid
                            /\ StageIn(trk'[p]) = StageIn(trk[p]),
           UNCHANGED inbox
    PROVE  Broker!Next
BY SameInbox, GiveUpStep

LEMMA BrokerPoll ==
    ASSUME TypeOK, Placed, NEW p \in Panes, Poll(p)
    PROVE  Broker!Next
<1>1. UNCHANGED <<trk, reqs, inbox, accepted>>
  BY DEF Poll, claudeVars
<1>2. \A r \in ReqIds : Making(r)' <=> Making(r)
  BY DEF Poll, Making, TypeOK, MonTypeOK
<1> QED BY <1>1, <1>2, UnchangedPlaces, StepStays

LEMMA BrokerRemoveTracker ==
    ASSUME TypeOK, Placed, NEW p \in Panes, RemoveTracker(p)
    PROVE  Broker!Next
<1>1. UNCHANGED <<reqs, mon, inbox, accepted>>
  BY DEF RemoveTracker, claudeVars
<1>2. \A q \in Panes : trk'[q] = trk[q] \/ trk'[q].rid = None
  BY DEF RemoveTracker, NewTracker, TypeOK, TrackerTypeOK
<1> QED BY <1>1, <1>2, UnchangedPlaces, SameInbox, GiveUpStep DEF Making

LEMMA BrokerRestart ==
    ASSUME TypeOK, Placed, Restart
    PROVE  Broker!Next
<1>1. UNCHANGED <<inbox, accepted>> /\ mon'.pc = "idle"
      /\ \A p \in Panes : trk'[p].rid = None
  BY DEF Restart, claudeVars, MonIdle, NewTracker
<1>2. \A r \in ReqIds : reqs'[r].pane = reqs[r].pane /\ (Used(r)' <=> Used(r))
  BY DEF Restart, Used, InMap, TypeOK, TrackerTypeOK, Requests
<1>3. \A r \in ReqIds : StageOf(r)' = IF Used(r) THEN "over" ELSE "unused"
  <2> SUFFICES ASSUME NEW r \in ReqIds
               PROVE  StageOf(r)' = IF Used(r) THEN "over" ELSE "unused"
    OBVIOUS
  <2>1. CASE Used(r)
    <3>1. reqs'[r].pane \in Panes /\ r # None
      BY <1>2, <2>1, CoordinatorAssumption DEF Placed, Used
    <3>2. trk'[reqs'[r].pane].rid # r
      BY <1>1, <3>1
    <3> QED BY <1>1, <1>2, <2>1, <3>2 DEF StageOf, Used
  <2>2. CASE ~Used(r)
    BY <1>2, <2>2 DEF StageOf, Used
  <2> QED BY <2>1, <2>2
<1> DEFINE rs == {r \in ReqIds : StageOf(r) \notin {"unused", "over"}}
<1>4. \A r \in ReqIds : StageOf(r) = "unused" <=> ~Used(r)
  BY DEF StageOf, StageIn, Used
<1>5. LoginStages' = [r \in ReqIds |-> IF r \in rs THEN "over" ELSE LoginStages[r]]
  BY <1>3, <1>4 DEF LoginStages
<1>6. rs \in SUBSET ReqIds /\ \A r \in rs : LoginStages[r] \notin {"unused", "over"}
  BY DEF LoginStages
<1> HIDE DEF rs
<1>7. UNCHANGED <<LoginPanes, TypedCodes, Resumptions, accepted>>
  BY <1>1, <1>2, SameInbox DEF LoginPanes
<1>8. Broker!GiveUp(rs)
  BY <1>5, <1>6, <1>7 DEF Broker!GiveUp, Broker!Live
<1> QED BY <1>6, <1>8 DEF Broker!Next

LEMMA BrokerClock ==
    ASSUME TypeOK, Placed, NEW p \in Panes,
           TimePasses(p) \/ (\E a \in Cooldowns : CooldownEnds(p, a))
    PROVE  Broker!Next
<1>1. UNCHANGED <<reqs, mon, inbox, accepted>>
  BY DEF TimePasses, CooldownEnds, claudeVars
<1>2. \A q \in Panes : /\ trk'[q].rid = trk[q].rid /\ trk'[q].st = trk[q].st
                       /\ trk'[q].code = trk[q].code
  BY DEF TimePasses, CooldownEnds, TypeOK, TrackerTypeOK, Trackers
<1> QED BY <1>1, <1>2, UnchangedPlaces, StepStays DEF StageIn, Making

LEMMA BrokerAgent ==
    ASSUME TypeOK, Placed, AgentStep \/ (\E m \in posts : LoseAnswer(m))
    PROVE  Broker!Next
<1>1. UNCHANGED <<trk, reqs, mon, inbox, accepted>>
  BY DEF AgentStep, LoseAnswer, checkPendingRequests, processAuthRequest, AgentUnchanged,
         coordVars, claudeVars
<1> QED BY <1>1, UnchangedPlaces, StepStays DEF Making

LEMMA BrokerHttpLookup ==
    ASSUME TypeOK, Placed, NEW h \in Handlers, NEW m \in posts, HttpLookup(h, m)
    PROVE  Broker!Next
<1>1. UNCHANGED <<trk, mon, inbox, accepted>>
  BY DEF HttpLookup, HttpUnchanged, claudeVars
<1>2. SamePlaces
  BY DEF HttpLookup, InMap, SamePlaces, Used, TypeOK, TrackerTypeOK, Requests
<1> QED BY <1>1, <1>2, StepStays DEF Making

LEMMA BrokerHttpFind ==
    ASSUME TypeOK, Placed, NEW h \in Handlers, HttpFind(h) \/ HttpDrop(h)
    PROVE  Broker!Next
<1>1. UNCHANGED <<trk, mon, inbox, accepted>>
  BY DEF HttpFind, HttpDrop, HttpUnchanged, claudeVars
<1>2. SamePlaces
  BY UnchangedPlaces, CleanupPlaces DEF HttpFind, HttpDrop
<1> QED BY <1>1, <1>2, StepStays DEF Making

LEMMA BrokerHttpFail ==
    ASSUME TypeOK, Placed, NEW h \in Handlers, HttpFail(h)
    PROVE  Broker!Next
<1>1. UNCHANGED <<reqs, mon, inbox, accepted>>
  BY DEF HttpFail, HttpUnchanged, claudeVars
<1>2. \A p \in Panes : trk'[p] = trk[p] \/ trk'[p] = SetState(trk[p], "FAILED")
  BY DEF HttpFail
<1>3. \A p \in Panes : /\ SetState(trk[p], "FAILED").rid = trk[p].rid
                       /\ StageIn(SetState(trk[p], "FAILED")) = "over"
  <2> SUFFICES ASSUME NEW p \in Panes
               PROVE  /\ SetState(trk[p], "FAILED").rid = trk[p].rid
                      /\ StageIn(SetState(trk[p], "FAILED")) = "over"
    OBVIOUS
  <2>1. trk[p] \in Trackers
    BY DEF TypeOK, TrackerTypeOK
  <2>2. /\ SetState(trk[p], "FAILED").rid = trk[p].rid
        /\ SetState(trk[p], "FAILED").st = "FAILED"
    BY <2>1, SetStateOf DEF States
  <2> QED BY <2>2 DEF StageIn
<1>4. \A p \in Panes : \/ /\ trk'[p].rid = trk[p].rid
                          /\ StageIn(trk'[p]) \in {StageIn(trk[p]), "over"}
                       \/ trk'[p] = trk[p]
  BY <1>2, <1>3
<1> QED BY <1>1, <1>4, UnchangedPlaces, SameInbox, GiveUpStep DEF Making

\* The answer comes in; for a login that was given up, too late.
LEMMA BrokerHttpStore ==
    ASSUME TypeOK, Ownership, HeldInv, AnswerInv, Placed, NEW h \in Handlers, HttpStore(h)
    PROVE  Broker!Next
<1>1. /\ http[h].pc = "store" /\ http[h].pane \in Panes /\ http[h].rid \in ReqIds
      /\ UNCHANGED <<reqs, mon, inbox, accepted>>
  BY DEF HttpStore, HttpUnchanged, claudeVars, TypeOK, HttpTypeOK
<1>2. CASE http[h].pane \notin tracked
  <2>1. UNCHANGED trk
    BY <1>2 DEF HttpStore, TypeOK, TrackerTypeOK
  <2> QED BY <1>1, <2>1, UnchangedPlaces, StepStays DEF Making
<1>3. CASE http[h].pane \in tracked
  <2>1. PICK w \in Panes, r \in ReqIds : w = http[h].pane /\ r = http[h].rid
    BY <1>1
  <2>2. trk[w].rid = r /\ trk[w] \in Trackers
    BY <1>1, <1>3, <2>1 DEF AnswerInv, HttpStage, TypeOK, TrackerTypeOK
  <2>3. Answering(r)
    BY <1>1, <2>1 DEF Answering, Busy
  <2>4. trk[w].code = None /\ trk[w].st \in {"AUTH_PENDING", "FAILED"} /\ r # None
    BY <2>2, <2>3, StillWaiting, CoordinatorAssumption
  <2>5. Used(r) /\ reqs[r].pane = w
    BY <2>2, <2>4 DEF Ownership, TrackersOwn, Owner, Used
  <2>6. ~Making(r)
    BY <2>2, <2>4, <2>5 DEF Making, Ownership, MonOwns, Owner, HeldInv, MonFree, Mine, Me
  <2> DEFINE t == [trk[w] EXCEPT !.code = r]
  <2>7. t.rid = r /\ t.code = r /\ t.st = trk[w].st
    BY <2>2 DEF Trackers
  <2>8. \A p \in Panes : trk'[p] = IF p = w THEN t ELSE trk[p]
    BY <1>3, <2>1 DEF HttpStore
  <2> HIDE DEF t
  <2>9. CASE trk[w].st = "AUTH_PENDING"
    <3>1. StageIn(t) = "answered" /\ StageIn(trk[w]) = "asked"
      BY <2>4, <2>7, <2>9 DEF StageIn
    <3>2. /\ LoginStages' = [LoginStages EXCEPT ![r] = "answered"]
          /\ LoginStages[r] = "asked" /\ LoginPanes' = LoginPanes
      BY <1>1, <2>2, <2>5, <2>6, <2>7, <2>8, <3>1, UnchangedPlaces, LoginMoves DEF Making
    <3>3. Broker!Answer(r)
      BY <1>1, <3>2, SameInbox DEF Broker!Answer
    <3> QED BY <3>3 DEF Broker!Next
  <2>10. CASE trk[w].st = "FAILED"
    <3>1. StageIn(t) = StageIn(trk[w])
      BY <2>7, <2>10 DEF StageIn
    <3> QED BY <1>1, <2>2, <2>7, <2>8, <3>1, UnchangedPlaces, StepStays DEF Making
  <2> QED BY <2>4, <2>9, <2>10
<1> QED BY <1>2, <1>3

LEMMA BrokerHttp ==
    ASSUME TypeOK, Ownership, HeldInv, AnswerInv, Placed, NEW h \in Handlers, HttpStep(h)
    PROVE  Broker!Next
BY BrokerHttpLookup, BrokerHttpFind, BrokerHttpStore, BrokerHttpFail DEF HttpStep

\* Claude reads one text.
LEMMA BrokerRead ==
    ASSUME TypeOK, Placed, NEW p \in Panes, Read(p)
    PROVE  Broker!Next
<1>1. /\ UNCHANGED <<reqs, trk, mon>> /\ inbox[p] # <<>> /\ inbox[p] \in Seq(Texts)
      /\ inbox' = [inbox EXCEPT ![p] = Tail(inbox[p])]
  BY DEF Read, PaneUnchanged, coordVars, TypeOK, PaneTypeOK
<1>2. PICK x \in Texts : x = inbox[p][1] /\ x = Head(inbox[p])
  BY <1>1
<1>3. inbox'[p] = Tail(inbox[p]) /\ \A q \in Panes : q # p => inbox'[q] = inbox[q]
  BY <1>1 DEF TypeOK, PaneTypeOK
<1>4. \A y : Unread(p, y) <=> Unread(p, y)' \/ y = x
  <2>1. /\ Len(inbox[p]) \in Nat \ {0} /\ DOMAIN inbox[p] = 1..Len(inbox[p])
        /\ DOMAIN Tail(inbox[p]) = 1..(Len(inbox[p]) - 1)
        /\ \A i \in 1..(Len(inbox[p]) - 1) : Tail(inbox[p])[i] = inbox[p][i + 1]
    BY <1>1
  <2> SUFFICES ASSUME NEW y PROVE Unread(p, y) <=> Unread(p, y)' \/ y = x
    OBVIOUS
  <2>2. Unread(p, y)' => Unread(p, y)
    BY <1>3, <2>1 DEF Unread
  <2>3. y = x => Unread(p, y)
    BY <1>2, <2>1 DEF Unread
  <2>4. ASSUME NEW i \in DOMAIN inbox[p], inbox[p][i] = y PROVE Unread(p, y)' \/ y = x
    <3>1. CASE i = 1
      BY <1>2, <2>4, <3>1
    <3>2. CASE i # 1
      <4>1. i - 1 \in 1..(Len(inbox[p]) - 1) /\ (i - 1) + 1 = i
        BY <2>1, <2>4, <3>2
      <4> QED BY <1>3, <2>1, <2>4, <4>1 DEF Unread
    <3> QED BY <3>1, <3>2
  <2> QED BY <2>2, <2>3, <2>4 DEF Unread
<1>5. \A q \in Panes : \A y : q # p => (Unread(q, y)' <=> Unread(q, y))
  BY <1>3 DEF Unread
<1> DEFINE rs == {r \in ReqIds : ~Unread(p, CodeText(r))'}
<1>6. rs \in SUBSET ReqIds /\ TypedCodes' = TypedCodes \ ({p} \X rs)
  BY <1>4, <1>5 DEF TypedCodes
<1>7. Resumptions' \in {Resumptions, Resumptions \ {p}}
  <2>1. CASE Unread(p, Text("resume"))' \/ ~Unread(p, Text("resume"))
    <3>1. Resumptions' = Resumptions
      BY <1>4, <1>5, <2>1 DEF Resumptions
    <3> QED BY <3>1
  <2>2. CASE ~Unread(p, Text("resume"))' /\ Unread(p, Text("resume"))
    <3>1. Resumptions' = Resumptions \ {p}
      BY <1>5, <2>2 DEF Resumptions
    <3> QED BY <3>1
  <2> QED BY <2>1, <2>2
<1>8. \/ accepted' = accepted
      \/ \E r \in ReqIds : <<p, r>> \in TypedCodes /\ accepted' = accepted \cup {r}
  <2>1. UNCHANGED accepted \/ (x.kind = "code" /\ accepted' = accepted \cup {x.req})
    BY <1>2 DEF Read, ReadText, Accepts
  <2>2. ASSUME x.kind = "code" PROVE x.req \in ReqIds /\ x = CodeText(x.req)
    BY <2>2 DEF Texts, CodeText
  <2>3. ASSUME x.kind = "code" PROVE <<p, x.req>> \in TypedCodes
    <3>1. x.req \in ReqIds /\ Unread(p, CodeText(x.req))
      BY <1>4, <2>2, <2>3
    <3> QED BY <3>1 DEF TypedCodes
  <2> QED BY <2>1, <2>2, <2>3
<1>9. UNCHANGED <<LoginStages, LoginPanes>>
  BY <1>1 DEF LoginStages, LoginPanes, StageOf
<1> HIDE DEF rs
<1>10. Broker!ReadInput(p)
  BY <1>6, <1>7, <1>8, <1>9 DEF Broker!ReadInput
<1> QED BY <1>10 DEF Broker!Next

LEMMA BrokerPane ==
    ASSUME TypeOK, Placed, NEW p \in Panes, PaneStep(p)
    PROVE  Broker!Next
<1>1. CASE ~Read(p)
  <2>1. UNCHANGED <<trk, reqs, mon, inbox, accepted>>
    BY <1>1 DEF PaneStep, HitLimit, Scroll, Compact, Close, PaneUnchanged, coordVars,
                claudeVars
  <2> QED BY <2>1, UnchangedPlaces, StepStays DEF Making
<1> QED BY <1>1, BrokerRead

-----------------------------------------------------------------------------
(* BrokerInv is kept.                                                      *)

LEMMA PlacedStays ==
    ASSUME TypeOK, Placed, Next
    PROVE  Placed'
<1>1. CASE UNCHANGED reqs
  BY <1>1, UnchangedPlaces, SamePlaced
<1>2. ASSUME NEW r, cleanupRequest(r) PROVE Placed'
  BY <1>2, CleanupPlaces, SamePlaced
<1>3. CASE Restart
  BY <1>3 DEF Restart, Placed, InMap, TypeOK, TrackerTypeOK, Requests
<1>4. ASSUME NEW r \in ReqIds, HandleAwaitingURL(r) PROVE Placed'
  <2>1. Me \in Panes
    BY <1>4, HandlerTypes DEF HandleAwaitingURL, Handling
  <2>2. UNCHANGED reqs \/
        reqs' = [reqs EXCEPT ![r] = [status |-> "pending", pane |-> Me, url |-> LoginUrl]]
    BY <1>4 DEF HandleAwaitingURL, ResetIfAged
  <2> QED BY <1>1, <2>1, <2>2 DEF Placed, TypeOK, TrackerTypeOK
<1>5. ASSUME NEW h \in Handlers, NEW m \in posts, HttpLookup(h, m) PROVE Placed'
  BY <1>5 DEF HttpLookup, Placed, InMap, TypeOK, TrackerTypeOK, Requests
<1>6. CASE MonitorStep
  <2>1. \/ UNCHANGED reqs \/ cleanupRequest(Mine.rid)
        \/ \E r \in ReqIds : HandleAwaitingURL(r)
    BY <1>6 DEF MonitorStep, HandleIdle, HandleRateLimited, HandleAwaitingMethodSelect,
                BindRequest, HandleAuthPending, HandleCodeReceived, HandleAwaitingConfirm,
                HandleResuming, HandleFailed, ResetIfAged
  <2> QED BY <1>1, <1>2, <1>4, <2>1
<1>7. ASSUME NEW h \in Handlers, HttpStep(h) PROVE Placed'
  <2>1. UNCHANGED reqs \/ cleanupRequest(http[h].rid) \/ \E m \in posts : HttpLookup(h, m)
    BY <1>7 DEF HttpStep, HttpFind, HttpStore, HttpFail, HttpDrop
  <2> QED BY <1>1, <1>2, <1>5, <2>1
<1>8. CASE \/ \E p \in Panes : Poll(p) \/ RemoveTracker(p) \/ PaneStep(p) \/ TimePasses(p)
           \/ AgentStep \/ \E m \in posts : LoseAnswer(m)
           \/ \E p \in Panes, a \in Cooldowns : CooldownEnds(p, a)
  <2>1. UNCHANGED reqs
    BY <1>8 DEF Poll, RemoveTracker, PaneStep, Read, HitLimit, Scroll, Compact, Close,
                PaneUnchanged, TimePasses, CooldownEnds, AgentStep, LoseAnswer,
                checkPendingRequests, processAuthRequest, AgentUnchanged, coordVars
  <2> QED BY <1>1, <2>1
<1> QED BY <1>3, <1>6, <1>7, <1>8 DEF Next

\* A request that is answered stays so.
LEMMA AnsweredStays ==
    ASSUME TypeOK, AnswerInv, MaxPosts <= 1, NEW r, Answered(r),
           \/ \E h \in Handlers : HttpStep(h)
           \/ AgentStep \/ \E m \in posts : LoseAnswer(m)
           \/ UNCHANGED <<http, posts, sent>>
    PROVE  Answered(r)'
<1>1. r \in ReqIds /\ sent[r] = 1 /\ ~Posted(r) /\ ~Answering(r)
  BY DEF Answered
<1>2. CASE UNCHANGED <<http, posts, sent>>
  BY <1>2, SameMessages
<1>3. ASSUME NEW h \in Handlers, NEW m \in posts, HttpLookup(h, m) PROVE Answered(r)'
  <2>1. m.rid # r /\ UNCHANGED sent /\ posts' \subseteq posts
    BY <1>1, <1>3 DEF Posted, HttpLookup, HttpUnchanged
  <2>2. \A g \in Handlers : http'[g] = http[g] \/ (g = h /\ http'[g].rid = m.rid)
    BY <1>3 DEF HttpLookup, TypeOK, HttpTypeOK
  <2>3. ~Answering(r)'
    BY <1>1, <2>1, <2>2 DEF Answering, Busy
  <2> QED BY <1>1, <2>1, <2>3 DEF Answered, Posted
<1>4. ASSUME NEW h \in Handlers, HttpFind(h) \/ HttpStore(h) \/ HttpFail(h) \/ HttpDrop(h)
      PROVE  Answered(r)'
  <2>1. UNCHANGED <<posts, sent>>
    BY <1>4 DEF HttpFind, HttpStore, HttpFail, HttpDrop, HttpUnchanged
  <2>2. \A g \in Handlers : Busy(g)' => Busy(g) /\ http'[g].rid = http[g].rid
    <3>1. \A g \in Handlers : g # h => http'[g] = http[g]
      BY <1>4 DEF HttpFind, HttpStore, HttpFail, HttpDrop, TypeOK, HttpTypeOK
    <3>2. http'[h].pc \in {"idle", "drop"} \/ (Busy(h) /\ http'[h].rid = http[h].rid)
      <4>1. CASE HttpFind(h)
        <5>1. ASSUME NEW p, http' = [http EXCEPT ![h] = Found(h, p)]
              PROVE  http'[h].rid = http[h].rid
          BY <5>1 DEF Found, TypeOK, HttpTypeOK
        <5>2. http' = [http EXCEPT ![h] = HttpIdle] => http'[h].pc = "idle"
          BY DEF HttpIdle, TypeOK, HttpTypeOK
        <5> QED BY <4>1, <5>1, <5>2 DEF HttpFind, Busy
      <4>2. CASE HttpStore(h) \/ HttpFail(h) \/ HttpDrop(h)
        BY <4>2 DEF HttpStore, HttpFail, HttpDrop, HttpIdle, TypeOK, HttpTypeOK
      <4> QED BY <1>4, <4>1, <4>2
    <3> QED BY <3>1, <3>2 DEF Busy
  <2>3. ~Answering(r)'
    BY <1>1, <2>2 DEF Answering
  <2> QED BY <1>1, <2>1, <2>3 DEF Answered, Posted
<1>5. CASE AgentStep \/ \E m \in posts : LoseAnswer(m)
  <2>1. UNCHANGED http
    BY <1>5 DEF AgentStep, LoseAnswer, checkPendingRequests, processAuthRequest,
                AgentUnchanged, coordVars
  <2>2. sent'[r] = 1 /\ ~Posted(r)'
    <3>1. CASE checkPendingRequests \/ \E m \in posts : LoseAnswer(m)
      BY <1>1, <3>1 DEF checkPendingRequests, LoseAnswer, Posted
    <3>2. ASSUME NEW q \in todo, NEW ok \in BOOLEAN, processAuthRequest(q, ok)
          PROVE  sent'[r] = 1 /\ ~Posted(r)'
      <4>1. CASE sent[q] < MaxPosts
        <5>1. q # r
          BY <1>1, <4>1, CoordinatorAssumption
        <5> QED BY <1>1, <3>2, <4>1, <5>1 DEF processAuthRequest, Posted, TypeOK, AgentTypeOK
      <4>2. CASE ~(sent[q] < MaxPosts)
        BY <1>1, <3>2, <4>2 DEF processAuthRequest, Posted
      <4> QED BY <4>1, <4>2
    <3> QED BY <1>5, <3>1, <3>2 DEF AgentStep
  <2> QED BY <1>1, <2>1, <2>2 DEF Answered, Answering, Busy
<1> QED BY <1>2, <1>3, <1>4, <1>5 DEF HttpStep

LEMMA FailedStays ==
    ASSUME TypeOK, HeldInv, AnswerInv, FailedIsOver, MaxPosts <= 1, Next
    PROVE  FailedIsOver'
<1>1. CASE MonitorStep
  <2>1. MonDone \/ \E r \in ReqIds : HandleAwaitingURL(r)
    BY <1>1 DEF MonitorStep, HandleIdle, HandleRateLimited, HandleAwaitingMethodSelect,
                BindRequest, HandleAuthPending, HandleCodeReceived, HandleAwaitingConfirm,
                HandleResuming, HandleFailed
  <2>2. mon' = MonIdle \/ \E r \in ReqIds : mon' = [mon EXCEPT !.pc = "bind", !.rid = r]
    BY <2>1 DEF MonDone, HandleAwaitingURL
  <2>3. mon'.pc # "handle"
    <3>1. CASE mon' = MonIdle
      BY <3>1 DEF MonIdle
    <3>2. ASSUME NEW r \in ReqIds, mon' = [mon EXCEPT !.pc = "bind", !.rid = r]
          PROVE  mon'.pc # "handle"
      BY <3>2 DEF TypeOK, MonTypeOK
    <3> QED BY <2>2, <3>1, <3>2
  <2> QED BY <2>3 DEF FailedIsOver
<1>2. CASE Restart \/ \E p \in Panes : RemoveTracker(p)
  BY <1>2 DEF Restart, RemoveTracker, MonIdle, FailedIsOver
<1>3. ASSUME NEW p \in Panes, Poll(p) PROVE FailedIsOver'
  <2>1. UNCHANGED trk
        /\ (mon'.pc # "handle" \/ (mon'.pane = p /\ mon'.cur = trk[p].st))
    BY <1>3 DEF Poll, TypeOK, MonTypeOK
  <2> QED BY <2>1 DEF FailedIsOver, Mine
\* A step that leaves the tracker its request, state and code.
<1>4. ASSUME UNCHANGED mon, \A r : Answered(r) => Answered(r)',
             Me \in Panes =>
               /\ trk'[Me].st = Mine.st /\ trk'[Me].rid = Mine.rid
               /\ trk'[Me].code = Mine.code
      PROVE  FailedIsOver'
  <2>1. mon.pc = "handle" => Me \in Panes
    BY MonPane
  <2>2. Mine' = trk'[Me]
    BY <1>4 DEF Mine, Me
  <2> QED BY <1>4, <2>1, <2>2 DEF FailedIsOver
<1>5. CASE \/ \E h \in Handlers : \/ \E m \in posts : HttpLookup(h, m)
                                  \/ HttpFind(h) \/ HttpDrop(h)
           \/ AgentStep \/ \E m \in posts : LoseAnswer(m)
           \/ \E p \in Panes : PaneStep(p) \/ TimePasses(p)
           \/ \E p \in Panes, a \in Cooldowns : CooldownEnds(p, a)
  <2>1. UNCHANGED mon
    BY <1>5 DEF HttpLookup, HttpFind, HttpDrop, HttpUnchanged, AgentStep, LoseAnswer,
                checkPendingRequests, processAuthRequest, AgentUnchanged, PaneStep, Read,
                HitLimit, Scroll, Compact, Close, PaneUnchanged, TimePasses, CooldownEnds,
                coordVars
  <2>2. \A p \in Panes : /\ trk'[p].st = trk[p].st /\ trk'[p].rid = trk[p].rid
                         /\ trk'[p].code = trk[p].code
    <3>1. CASE \E p \in Panes : TimePasses(p) \/ \E a \in Cooldowns : CooldownEnds(p, a)
      BY <3>1 DEF TimePasses, CooldownEnds, TypeOK, TrackerTypeOK, Trackers
    <3>2. CASE UNCHANGED trk
      BY <3>2
    <3> QED BY <1>5, <3>1, <3>2
            DEF HttpLookup, HttpFind, HttpDrop, AgentStep, LoseAnswer, checkPendingRequests,
                processAuthRequest, AgentUnchanged, PaneStep, Read, HitLimit, Scroll,
                Compact, Close, PaneUnchanged, coordVars
  <2>3. \/ \E h \in Handlers : HttpStep(h)
        \/ AgentStep \/ \E m \in posts : LoseAnswer(m)
        \/ UNCHANGED <<http, posts, sent>>
    BY <1>5 DEF HttpStep, PaneStep, Read, HitLimit, Scroll, Compact, Close, PaneUnchanged,
                TimePasses, CooldownEnds, coordVars, agentVars
  <2>4. \A r : Answered(r) => Answered(r)'
    BY <2>3, AnsweredStays
  <2> QED BY <1>4, <2>1, <2>2, <2>4 DEF Mine, Me
<1>6. ASSUME NEW h \in Handlers, HttpStore(h) \/ HttpFail(h) PROVE FailedIsOver'
  <2>1. /\ http[h].pc \in {"store", "fail"} /\ UNCHANGED <<mon, posts, sent>>
        /\ http[h].rid \in ReqIds /\ http[h].pane \in Panes
        /\ http'[h].pc \in {"idle", "drop"}
        /\ \A g \in Handlers : g # h => http'[g] = http[g]
    BY <1>6 DEF HttpStore, HttpFail, HttpUnchanged, HttpIdle, TypeOK, HttpTypeOK
  <2>2. \A r : Answered(r) => Answered(r)'
    BY <1>6, AnsweredStays DEF HttpStep
  <2>3. PICK w \in Panes, r \in ReqIds : w = http[h].pane /\ r = http[h].rid
    BY <2>1
  <2>4. CASE w \notin tracked \/ w # Me
    <3>1. Me \in Panes => trk'[Me] = trk[Me]
      BY <1>6, <2>3, <2>4 DEF HttpStore, HttpFail
    <3> QED BY <1>4, <2>1, <2>2, <3>1 DEF Mine, Me
  <2>5. CASE w \in tracked /\ w = Me
    <3>1. Mine = trk[w] /\ trk[w].rid = r /\ trk[w] \in Trackers
      BY <2>1, <2>3, <2>5 DEF AnswerInv, HttpStage, Mine, Me, TypeOK, TrackerTypeOK
    <3>2. Answering(r) /\ ~Answered(r) /\ Busy(h)
      BY <2>1, <2>3 DEF Answering, Answered, Busy
    <3>3. trk[w].code = None
      BY <3>1, <3>2, StillWaiting
    <3>4. mon.pc = "handle" /\ mon.cur = "AUTH_PENDING" => Mine.st # "FAILED"
      BY <3>1, <3>2 DEF FailedIsOver
    <3>5. CASE HttpStore(h)
      <4>1. trk'[Me].st = Mine.st
        BY <2>3, <2>5, <3>1, <3>5 DEF HttpStore, Trackers
      <4>2. Mine' = trk'[Me] /\ UNCHANGED mon
        BY <2>1 DEF Mine, Me
      <4> QED BY <3>4, <4>1, <4>2 DEF FailedIsOver
    <3>6. CASE HttpFail(h)
      <4>1. trk'[Me] = SetState(trk[w], "FAILED")
        BY <2>3, <2>5, <3>6 DEF HttpFail
      <4>2. trk'[Me].code = None /\ trk'[Me].rid = r
        BY <3>1, <3>3, <4>1, SetStateOf DEF States
      <4>3. ~Busy(h)'
        BY <2>1 DEF Busy
      <4>4. ~Answering(r)' /\ ~Posted(r) /\ sent[r] # 0
        BY <2>1, <2>3, <3>2, <4>3, HandlerLeaves
      <4>5. Answered(r)'
        BY <2>1, <4>4, CoordinatorAssumption DEF Answered, Posted, TypeOK, AgentTypeOK
      <4>6. Mine' = trk'[Me]
        BY <2>1 DEF Mine, Me
      <4> QED BY <4>2, <4>5, <4>6 DEF FailedIsOver
    <3> QED BY <1>6, <3>5, <3>6
  <2> QED BY <2>4, <2>5
<1> QED BY <1>1, <1>2, <1>3, <1>5, <1>6 DEF Next, HttpStep

LEMMA BrokerInit == Init => Broker!Init /\ BrokerInv
<1> SUFFICES ASSUME Init PROVE Broker!Init /\ BrokerInv
  OBVIOUS
<1>1. \A r \in ReqIds : StageOf(r) = "unused" /\ reqs[r].pane = None
  BY DEF Init, StageOf
<1>2. \A p \in Panes : \A x : ~Unread(p, x)
  BY DEF Init, Unread
<1>3. LoginStages = [r \in ReqIds |-> "unused"] /\ LoginPanes = [r \in ReqIds |-> None]
  BY <1>1 DEF LoginStages, LoginPanes
<1>4. TypedCodes = {} /\ Resumptions = {} /\ accepted = {}
  BY <1>2 DEF TypedCodes, Resumptions, Init
<1>5. BrokerInv
  BY DEF Init, MonIdle, BrokerInv, Placed, FailedIsOver
<1> QED BY <1>3, <1>4, <1>5 DEF Broker!Init

\* Every step of the coordinator, the agent, the panes and the clock is one of LoginBroker
\* or changes nothing that LoginBroker speaks of: whatever the handlers that hold no lock
\* between two steps, lost answers, timeouts, failed injections, closed panes and restarts do
\* to each other, a pane has one login at a time, no login goes back a stage, its code is
\* typed once and only into its own pane, and the pane is resumed once, after that code was
\* accepted.  The assumptions are those of CodeAnswers.
THEOREM ImplementsBroker ==
    ASSUME MaxPosts <= 1, Stall = FALSE
    PROVE  Spec => BrokerSpec
<1>1. /\ TypeOK /\ Ownership /\ HeldInv /\ AnswerInv /\ LoginInv /\ BrokerInv /\ [Next]_vars
      => [Broker!Next]_(Broker!brokerVars) /\ BrokerInv'
  <2> SUFFICES ASSUME TypeOK, Ownership, HeldInv, AnswerInv, LoginInv, BrokerInv, [Next]_vars
               PROVE  [Broker!Next]_(Broker!brokerVars) /\ BrokerInv'
    OBVIOUS
  <2>1. CASE UNCHANGED vars
    <3>1. UNCHANGED Broker!brokerVars
      BY <2>1, SameInbox DEF vars, Broker!brokerVars, LoginStages, LoginPanes, StageOf
    <3>2. BrokerInv'
      BY <2>1, SameMessages DEF vars, BrokerInv, Placed, FailedIsOver, Mine
    <3> QED BY <3>1, <3>2
  <2>2. CASE Next
    <3>1. Broker!Next
      BY <2>2, BrokerPoll, BrokerRemoveTracker, BrokerMonitor, BrokerHttp, BrokerAgent,
         BrokerPane, BrokerClock, BrokerRestart DEF Next, BrokerInv
    <3>2. BrokerInv'
      BY <2>2, PlacedStays, FailedStays DEF BrokerInv
    <3> QED BY <3>1, <3>2
  <2> QED BY <2>1, <2>2
<1> QED BY <1>1, BrokerInit, AnswerInvariant, OwnershipInvariant, HeldWhileOpen,
           LoginInvariant, PTL DEF Spec, BrokerSpec, Broker!Spec
=============================================================================
