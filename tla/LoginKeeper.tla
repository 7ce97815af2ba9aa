---------------------------- MODULE LoginKeeper ----------------------------
(***************************************************************************)
(* What caam promises to a user who keeps several logins, with no tokens,    *)
(* files or processes: the tool works under one login, a profile keeps one,  *)
(* and a switch brings back just the login that the profile keeps and takes  *)
(* no other away.  A login is replaced by a later one to the same account    *)
(* and in no other way.  CodexVault implements it.                           *)
(***************************************************************************)
EXTENDS Naturals

CONSTANTS Accounts, Profiles, Owner, NoLogin

VARIABLES
  session,    \* the login the tool works under
  kept,       \* the login each profile brings back
  clock       \* tells one login from a later one

keeperVars == <<session, kept, clock>>

Init ==
  /\ session = NoLogin
  /\ kept = [p \in Profiles |-> NoLogin]
  /\ clock = 0

\* The user logs in.  A profile of that account will bring the new login back.
SignIn(a) ==
  /\ clock' = clock + 1
  /\ session' = [acct |-> a, made |-> clock + 1]
  /\ kept' = [p \in Profiles |->
                IF kept[p] # NoLogin /\ Owner[p] = a THEN session' ELSE kept[p]]

SignOut ==
  /\ session # NoLogin
  /\ session' = NoLogin
  /\ UNCHANGED <<kept, clock>>

\* The login in use is saved, under the name of its account.
Keep(p) ==
  /\ session # NoLogin /\ session.acct = Owner[p]
  /\ kept' = [kept EXCEPT ![p] = session]
  /\ UNCHANGED <<session, clock>>

Switch(p) ==
  /\ kept[p] # NoLogin
  /\ session' = kept[p]
  /\ UNCHANGED <<kept, clock>>

\* Tokens age and are exchanged for others; the logins are the same.
Tick == clock' = clock + 1 /\ UNCHANGED <<session, kept>>

Next ==
  \/ \E a \in Accounts : SignIn(a)
  \/ \E p \in Profiles : Keep(p) \/ Switch(p)
  \/ SignOut \/ Tick

Spec == Init /\ [][Next]_keeperVars
=============================================================================
