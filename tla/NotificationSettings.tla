------------------------ MODULE NotificationSettings ------------------------
(***************************************************************************)
(* Which notifications reach whom: the policy of a group of scenes, the    *)
(* preferences of the accounts below it, and the plan of a delivery, which *)
(* reads the one and then the others.                                      *)
(*                                                                         *)
(* One group; a switch is a scene of it and a channel, which the scene may *)
(* not declare.  A row that is not there is a row without switches, and of *)
(* a managed group.  Plans only read: one is followed, about one recipient *)
(* and one switch.                                                         *)
(***************************************************************************)
EXTENDS Naturals

CONSTANTS Account,
          Stranger,  \* a recipient without an account
          Switch,
          Declared,  \* the switches whose channel is among scene.channels
          Patched,   \* bound: those that patches are about; all may be
          InApp,     \* those of the channel in_app
          Default,   \* default_enabled of the scene of each switch
          Thread,
          Unset

ASSUME NotifyAssumption ==
  /\ Patched \subseteq Declared
  /\ Declared \subseteq Switch
  /\ Default \in [Switch -> BOOLEAN]
  /\ Stranger \notin Account
  /\ Unset \notin BOOLEAN

VARIABLES
  managed,  \* is the group managed by the platform?
  row,      \* the switches of each row
  locked,   \* rows locked by each thread
  tx,       \* what each thread does
  said,     \* what the last acknowledged patch of each switch said
  plan      \* the plan of a delivery, and what was in force since it began

notifyVars == <<managed, row, locked, tx, said, plan>>

Policy == <<"policy">>
PreferenceOf(a) == <<"preference", a>>
Rows == {Policy} \cup {PreferenceOf(a) : a \in Account}

Value == BOOLEAN \cup {Unset}
Switches == [Switch -> Value]
NoSwitches == [s \in Switch |-> Unset]

NoTx == [pc |-> "idle"]

\* A patch at work: of the switches, and of whether the group is managed.
Patches ==
  [pc : {"policy", "row", "write"}, row : Rows, patch : Switches, manage : Value,
   read : Switches, readManaged : Value]

Patch(pc, r, p, m) ==
  [pc |-> pc, row |-> r, patch |-> p, manage |-> m,
   read |-> NoSwitches, readManaged |-> Unset]

NoPlan == [pc |-> "idle"]

Plans ==
  [pc : {"load"}, who : Account, switch : Switch, policy : Value, inForce : SUBSET BOOLEAN]
    \cup [pc : {"planned"}, sends : BOOLEAN, inForce : SUBSET BOOLEAN]

NotifyTypeOK ==
  /\ managed \in BOOLEAN
  /\ row \in [Rows -> Switches]
  /\ locked \in [Thread -> SUBSET Rows]
  /\ tx \in [Thread -> Patches \cup {NoTx}]
  /\ said \in [switches : [Rows -> Switches], managed : BOOLEAN]
  /\ plan \in Plans \cup {NoPlan}

NotifyInit ==
  /\ managed = TRUE
  /\ row = [r \in Rows |-> NoSwitches]
  /\ locked = [t \in Thread |-> {}]
  /\ tx = [t \in Thread |-> NoTx]
  /\ said = [switches |-> [r \in Rows |-> NoSwitches], managed |-> TRUE]
  /\ plan = NoPlan

-----------------------------------------------------------------------------
(* What is in force *)

\* effective_enabled: the first layer that says something.
Effective(m, s, policy, preference) ==
  IF ~m /\ preference # Unset THEN preference
  ELSE IF policy # Unset THEN policy ELSE Default[s]

\* A recipient without an account has no preferences.
Preference(rows, who, s) ==
  IF who = Stranger THEN Unset ELSE rows[PreferenceOf(who)][s]

\* What policy and preferences want, as a person would put it: an account that
\* may choose and has chosen gets what it chose, all others what the policy or
\* else the scene says; without an account nothing appears in the application,
\* and a channel that the scene does not declare carries nothing.
Wanted(m, rows, who, s) ==
  LET preference == Preference(rows, who, s)
      policy     == rows[Policy][s]
  IN
  /\ s \in Declared
  /\ who = Stranger => s \notin InApp
  /\ \/ ~m /\ preference = TRUE
     \/ (m \/ preference = Unset) /\ policy = TRUE
     \/ (m \/ preference = Unset) /\ policy = Unset /\ Default[s]

-----------------------------------------------------------------------------
(* Patches *)

One(s, v) == [NoSwitches EXCEPT ![s] = v]

StartPatch(t, step) == tx[t].pc = "idle" /\ tx' = [tx EXCEPT ![t] = step]

\* The route looks at the policy before it asks for the lock.
StartPreference(t) ==
  /\ ~managed
  /\ \E a \in Account, s \in Patched, v \in BOOLEAN :
       StartPatch(t, Patch("policy", PreferenceOf(a), One(s, v), Unset))
  /\ UNCHANGED <<managed, row, locked, said, plan>>

\* managed, a switch, or both.
StartPolicy(t) ==
  /\ \E m \in Value, p \in {NoSwitches} \cup {One(s, v) : s \in Patched, v \in BOOLEAN} :
       /\ m # Unset \/ p # NoSwitches
       /\ StartPatch(t, Patch("policy", Policy, p, m))
  /\ UNCHANGED <<managed, row, locked, said, plan>>

Free(r) == \A t \in Thread : r \notin locked[t]

\* Mutant: what the route has seen is enough.
NotManaged(t) == TRUE

\* A group that is managed by now refuses preferences.
Open(t) == tx[t].row = Policy \/ ~managed

\* _lock_policy, with its INSERT of a row that is missing.
LockPolicy(t) ==
  /\ tx[t].pc = "policy"
  /\ Free(Policy)
  /\ \/ /\ Open(t)
        /\ locked' = [locked EXCEPT ![t] = @ \cup {Policy}]
        /\ tx' = [tx EXCEPT ![t] = IF @.row = Policy
             THEN [@ EXCEPT !.pc = "write", !.read = row[Policy], !.readManaged = managed]
             ELSE [@ EXCEPT !.pc = "row"]]
     \/ /\ ~Open(t)
        /\ tx' = [tx EXCEPT ![t] = NoTx]
        /\ UNCHANGED locked
  /\ UNCHANGED <<managed, row, said, plan>>

\* _lock_preference.
LockRow(t) ==
  /\ tx[t].pc = "row"
  /\ Free(tx[t].row)
  /\ locked' = [locked EXCEPT ![t] = @ \cup {tx[t].row}]
  /\ tx' = [tx EXCEPT ![t].pc = "write", ![t].read = row[tx[t].row]]
  /\ UNCHANGED <<managed, row, said, plan>>

\* Mutant: the patch replaces the row.
Replace(old, patch) == patch

Merge(old, patch) == [s \in Switch |-> IF patch[s] # Unset THEN patch[s] ELSE old[s]]

Commit(t) ==
  LET r == tx[t].row
      m == IF tx[t].manage # Unset THEN tx[t].manage ELSE tx[t].readManaged
  IN
  /\ tx[t].pc = "write"
  /\ row' = [row EXCEPT ![r] = Merge(tx[t].read, tx[t].patch)]
  /\ managed' = IF r = Policy THEN m ELSE managed
  /\ said' = [said EXCEPT
       !.switches[r] = [s \in Switch |-> IF tx[t].patch[s] # Unset THEN tx[t].patch[s] ELSE @[s]],
       !.managed = IF tx[t].manage # Unset THEN tx[t].manage ELSE @]
  /\ plan' = IF plan.pc = "load"
       THEN [plan EXCEPT !.inForce = @ \cup {Wanted(managed', row', plan.who, plan.switch)}]
       ELSE plan
  /\ locked' = [locked EXCEPT ![t] = {}]
  /\ tx' = [tx EXCEPT ![t] = NoTx]

\* The database gives up, or the process.
Abandon(t) ==
  /\ tx[t].pc # "idle"
  /\ tx' = [tx EXCEPT ![t] = NoTx]
  /\ locked' = [locked EXCEPT ![t] = {}]
  /\ UNCHANGED <<managed, row, said, plan>>

-----------------------------------------------------------------------------
(* Plans *)

\* Mutant: the channel in_app is for everybody.
Everybody(m, who, s, policy, preference) ==
  s \in Declared /\ Effective(m, s, policy, preference)

\* _planned: the scene has the channel; _recipient_enabled: in_app requires an
\* account.
Sends(m, who, s, policy, preference) ==
  /\ s \in Declared
  /\ s \in InApp => who # Stranger
  /\ Effective(m, s, policy, preference)

Planned(sends, past) == [pc |-> "planned", sends |-> sends, inForce |-> past]

\* plan_delivery: the policy first, and nothing else for a managed group or a
\* recipient without an account.
StartPlan ==
  /\ plan.pc # "load"
  /\ \E who \in Account \cup {Stranger}, s \in Switch :
       LET now == {Wanted(managed, row, who, s)}
       IN  plan' = IF managed \/ who = Stranger
             THEN Planned(Sends(managed, who, s, row[Policy][s], Unset), now)
             ELSE [pc |-> "load", who |-> who, switch |-> s,
                   policy |-> row[Policy][s], inForce |-> now]
  /\ UNCHANGED <<managed, row, locked, tx, said>>

\* Then the preferences.
LoadPreferences ==
  /\ plan.pc = "load"
  /\ plan' = Planned(Sends(FALSE, plan.who, plan.switch, plan.policy,
                           Preference(row, plan.who, plan.switch)), plan.inForce)
  /\ UNCHANGED <<managed, row, locked, tx, said>>

PatchStep(t) ==
  \/ StartPreference(t) \/ StartPolicy(t)
  \/ LockPolicy(t) \/ LockRow(t) \/ Commit(t) \/ Abandon(t)

NotifyNext ==
  \/ \E t \in Thread : PatchStep(t)
  \/ StartPlan \/ LoadPreferences

NotifySpec == NotifyInit /\ [][NotifyNext]_notifyVars

-----------------------------------------------------------------------------
(* Properties *)

\* Concurrent patches lose nothing: every switch, and whether the group is
\* managed, is what the last acknowledged patch of it said (save_policy,
\* save_preference).
PatchesAreKept == row = said.switches /\ managed = said.managed

\* Whatever is patched between its two reads, a plan sends exactly what policy
\* and preferences wanted at some moment of its making: no preference is written
\* while the group is managed (save_preference, plan_delivery), and only accounts
\* are planned in_app (_recipient_enabled).
PlanWasInForce == plan.pc = "planned" => plan.sends \in plan.inForce
=============================================================================
