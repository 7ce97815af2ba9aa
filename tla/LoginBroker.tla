---------------------------- MODULE LoginBroker ----------------------------
(***************************************************************************)
(* What the coordinator promises to the panes, the agent and the user, with *)
(* no state machine, no HTTP and no screen: a pane has one login at a time,  *)
(* a login takes one request, at most one code is typed for it, into its     *)
(* own pane, and the pane is resumed once, when that code was accepted.      *)
(* Coordinator implements it.                                                *)
(***************************************************************************)
CONSTANTS Panes, ReqIds, None

VARIABLES
  stage,      \* of each request
  owner,      \* the pane a request was made for
  typed,      \* codes typed into a pane and not read yet: <<pane, request>>
  accepted,   \* the requests whose code has logged their pane in
  resumes     \* the panes with a resume prompt that is not read yet

brokerVars == <<stage, owner, typed, accepted, resumes>>

Stages == {"unused", "asked", "answered", "typed", "over"}
Live(r) == stage[r] \notin {"unused", "over"}

Init ==
  /\ stage = [r \in ReqIds |-> "unused"]
  /\ owner = [r \in ReqIds |-> None]
  /\ typed = {} /\ accepted = {} /\ resumes = {}

\* A login begins: the pane has no other.
Ask(r, p) ==
  /\ stage[r] = "unused"
  /\ \A q \in ReqIds : Live(q) => owner[q] # p
  /\ stage' = [stage EXCEPT ![r] = "asked"]
  /\ owner' = [owner EXCEPT ![r] = p]
  /\ UNCHANGED <<typed, accepted, resumes>>

Answer(r) ==
  /\ stage[r] = "asked"
  /\ stage' = [stage EXCEPT ![r] = "answered"]
  /\ UNCHANGED <<owner, typed, accepted, resumes>>

TypeCode(r) ==
  /\ stage[r] = "answered"
  /\ stage' = [stage EXCEPT ![r] = "typed"]
  /\ typed' = typed \cup {<<owner[r], r>>}
  /\ UNCHANGED <<owner, accepted, resumes>>

\* The login is over, and the pane goes back to work.
Resume(r) ==
  /\ stage[r] = "typed" /\ r \in accepted
  /\ stage' = [stage EXCEPT ![r] = "over"]
  /\ resumes' = resumes \cup {owner[r]}
  /\ UNCHANGED <<owner, typed, accepted>>

\* Logins are given up: one that failed or took too long, the one of a pane that is no
\* more, all of them when the coordinator ends.  None comes back.
GiveUp(rs) ==
  /\ \A r \in rs : Live(r)
  /\ stage' = [r \in ReqIds |-> IF r \in rs THEN "over" ELSE stage[r]]
  /\ UNCHANGED <<owner, typed, accepted, resumes>>

\* Claude reads what was typed into a pane.  It accepts no code but one typed there.
ReadInput(p) ==
  /\ \E rs \in SUBSET ReqIds : typed' = typed \ ({p} \X rs)
  /\ resumes' \in {resumes, resumes \ {p}}
  /\ \/ accepted' = accepted
     \/ \E r \in ReqIds : <<p, r>> \in typed /\ accepted' = accepted \cup {r}
  /\ UNCHANGED <<stage, owner>>

Next ==
  \/ \E r \in ReqIds, p \in Panes : Ask(r, p)
  \/ \E r \in ReqIds : Answer(r) \/ TypeCode(r) \/ Resume(r)
  \/ \E rs \in SUBSET ReqIds : GiveUp(rs)
  \/ \E p \in Panes : ReadInput(p)

Spec == Init /\ [][Next]_brokerVars
=============================================================================
