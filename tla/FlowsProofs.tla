----------------------------- MODULE FlowsProofs -----------------------------
(***************************************************************************)
(* What holds of the smaller components for every value of their           *)
(* constants.  They do not wait for each other, and each has its           *)
(* invariant and its theorem in a section of its own.                      *)
(***************************************************************************)
EXTENDS ManifestSync, OidcFlow, NotificationSettings, PlatformSettings, DirectorySync,
        NotificationCenter, SignedMessages, Identities, TLAPS, FiniteSetTheorems, WellFoundedInduction

-----------------------------------------------------------------------------
(* PlatformSettings: a secret and its place *)

\* The secret of a row was entered for its place, or before there was one.
Fits(r) == r.secret \in {NoSecret, Blank, r.place}

\* The row fits, and so does every row that is still to be written: whatever
\* the row of the database is by then, it is written as a whole.
SettingsInv ==
  /\ SettingsTypeOK
  /\ Fits(setting)
  /\ \A a \in Admin : saving[a].pc = "write" => Fits(saving[a].row)

\* A secret is kept only for the place it has, or where there was no place.
LEMMA KeptSecretFits ==
  ASSUME SettingsInv, NEW place \in Authorities, NEW secret \in Incoming,
         ~(NeedsSecret(place) /\ secret # "enter")
  PROVE  NextSecret(place, secret) \in {NoSecret, Blank, place}
<1>1. CASE secret = "keep"
  <2>1. setting.place = Blank \/ setting.place = place
    BY <1>1 DEF NeedsSecret, AuthorityChanged, IdentityChanged
  <2> QED  BY <1>1, <2>1 DEF NextSecret, SettingsInv, Fits
<1>2. CASE secret # "keep"
  BY <1>2 DEF NextSecret, Incoming
<1> QED  BY <1>1, <1>2

\* A decision leaves a row that fits, or none.
LEMMA DecisionFits ==
  ASSUME SettingsInv, NEW a \in Admin, NEW place \in Authorities,
         NEW secret \in Incoming, Decide(a, place, secret), UNCHANGED <<upstream, setting>>
  PROVE  SettingsInv'
<1> DEFINE new == [place |-> place, secret |-> NextSecret(place, secret), complete |-> TRUE]
<1>1. CASE NeedsSecret(place) /\ secret # "enter"
  BY <1>1 DEF Decide, SettingsInv, SettingsTypeOK, NotSaving
<1>2. CASE ~(NeedsSecret(place) /\ secret # "enter")
  <2>1. new.secret \in {NoSecret, Blank, place}
    BY <1>2, KeptSecretFits
  <2>2. new \in Settings /\ Fits(new)
    BY <2>1 DEF Settings, Secrets, Authorities, Fits
  <2>3. saving' = [saving EXCEPT ![a] = [pc |-> "write", row |-> new]]
    BY <1>2 DEF Decide
  <2> HIDE DEF new
  <2> QED  BY <2>2, <2>3 DEF SettingsInv, SettingsTypeOK
<1> QED  BY <1>1, <1>2

LEMMA SettingsKept == SettingsInv /\ [SettingsNext]_settingsVars => SettingsInv'
<1> SUFFICES ASSUME SettingsInv, [SettingsNext]_settingsVars PROVE SettingsInv'
  OBVIOUS
<1>1. ASSUME NEW a \in Admin, Save(a) PROVE SettingsInv'
  BY <1>1, DecisionFits DEF Save
<1>2. ASSUME NEW a \in Admin, Draft(a) PROVE SettingsInv'
  BY <1>2 DEF Draft, SettingsInv, SettingsTypeOK, Settings
<1>3. ASSUME NEW a \in Admin, SaveDraft(a) PROVE SettingsInv'
  <2>1. saving[a].place \in Authorities /\ saving[a].secret \in Incoming
    BY <1>3 DEF SaveDraft, SettingsInv, SettingsTypeOK, NotSaving
  <2> QED  BY <1>3, <2>1, DecisionFits DEF SaveDraft
<1>4. ASSUME NEW a \in Admin, CopyBack(a) PROVE SettingsInv'
  BY <1>4 DEF CopyBack, SettingsInv, SettingsTypeOK
<1>5. ASSUME NEW a \in Admin, Write(a) PROVE SettingsInv'
  <2>1. saving[a].row \in Settings /\ Fits(saving[a].row)
    BY <1>5 DEF Write, SettingsInv, SettingsTypeOK, NotSaving
  <2> QED  BY <1>5, <2>1 DEF Write, SettingsInv, SettingsTypeOK, NotSaving
<1>6. CASE UNCHANGED settingsVars
  BY <1>6 DEF settingsVars, SettingsInv, SettingsTypeOK
<1> QED  BY <1>1, <1>2, <1>3, <1>4, <1>5, <1>6 DEF SettingsNext

\* However the saves of any number of administrators cross, the secret in the
\* row was entered for the place in the row, or before there was one
\* (save_easyauth_settings, save_oidc_settings, save_directory_settings).
THEOREM CredentialsFit == SettingsSpec => []CredentialFits
<1>1. SettingsInit => SettingsInv
  BY DEF SettingsInit, SettingsInv, SettingsTypeOK, Settings, Secrets, Authorities,
         Fits, NotSaving
<1>2. SettingsInv => CredentialFits
  BY DEF SettingsInv, Fits, CredentialFits
<1> QED  BY <1>1, <1>2, SettingsKept, PTL DEF SettingsSpec

-----------------------------------------------------------------------------
(* NotificationSettings: patches and plans *)

\* A row is locked by one patch at a time.
OneHolder == \A t, u \in Thread : t # u => locked[t] \cap locked[u] = {}

\* A patch holds the policy before it asks for its row, and both when it writes.
HoldsPolicy ==
  \A t \in Thread :
    /\ tx[t].pc \in {"row", "write"} => Policy \in locked[t]
    /\ tx[t].pc = "write" => tx[t].row \in locked[t]

\* What a patch has read is still there when it writes.
ReadIsCurrent ==
  \A t \in Thread : tx[t].pc = "write" =>
    /\ tx[t].read = row[tx[t].row]
    /\ tx[t].row = Policy => tx[t].readManaged = managed

\* Behind the lock of the policy a preference is patched only while the group
\* is not managed, and only a patch of the policy says whether it is.
PreferencesOpen ==
  \A t \in Thread : tx[t].pc # "idle" /\ tx[t].row # Policy =>
    /\ tx[t].manage = Unset
    /\ tx[t].pc \in {"row", "write"} => ~managed

PatchInv ==
  /\ NotifyTypeOK
  /\ OneHolder /\ HoldsPolicy /\ ReadIsCurrent /\ PreferencesOpen
  /\ PatchesAreKept

\* What a plan would send if it looked for preferences now.
WouldSend(rows) ==
  Sends(FALSE, plan.who, plan.switch, plan.policy, Preference(rows, plan.who, plan.switch))

\* That was in force at some moment of its making, though the policy it has read
\* may be gone: a preference that was set since counts before the policy.
PlanIsCovered == plan.pc = "load" => WouldSend(row) \in plan.inForce

NotifyInv == PatchInv /\ PlanIsCovered /\ PlanWasInForce

\* The rows are told apart by their names.
LEMMA RowNames ==
  /\ Policy \in Rows
  /\ \A a \in Account : PreferenceOf(a) \in Rows /\ PreferenceOf(a) # Policy
  /\ \A a, b \in Account : PreferenceOf(a) = PreferenceOf(b) => a = b
<1>1. \A a \in Account : PreferenceOf(a)[1] = "preference" /\ PreferenceOf(a)[2] = a
  BY DEF PreferenceOf
<1>2. Policy[1] = "policy"
  BY DEF Policy
<1> QED  BY <1>1, <1>2 DEF Rows

\* A patch of switches is one, with a switch or without.
LEMMA PatchTyped ==
  /\ NoSwitches \in Switches
  /\ Patched \subseteq Declared /\ Declared \subseteq Switch
  /\ \A s \in Patched, v \in Value : One(s, v) \in Switches
  /\ \A old, p \in Switches : Merge(old, p) \in Switches
BY NotifyAssumption DEF NotifyAssumption, NoSwitches, Switches, Value, One, Merge

\* What is sent, and what is wanted, is a Boolean.
LEMMA SendsTyped ==
  ASSUME NEW m \in BOOLEAN, NEW who, NEW s \in Switch, NEW policy \in Value,
         NEW preference \in Value
  PROVE  Sends(m, who, s, policy, preference) \in BOOLEAN
BY DEF Sends

LEMMA WantedTyped == \A m, rows, who, s : Wanted(m, rows, who, s) \in BOOLEAN
BY DEF Wanted

\* What is sent is what is wanted, where both look at the same rows.
LEMMA SendsWanted ==
  ASSUME NEW m \in BOOLEAN, NEW rows \in [Rows -> Switches],
         NEW who \in Account \cup {Stranger}, NEW s \in Switch
  PROVE  /\ Sends(m, who, s, rows[Policy][s], Preference(rows, who, s)) = Wanted(m, rows, who, s)
         /\ m \/ who = Stranger =>
              Sends(m, who, s, rows[Policy][s], Unset) = Wanted(m, rows, who, s)
<1>1. Preference(rows, who, s) \in Value /\ rows[Policy][s] \in Value
  BY RowNames DEF Preference, Switches, Value
<1>2. Default[s] \in BOOLEAN /\ Unset \notin BOOLEAN
  BY NotifyAssumption DEF NotifyAssumption
<1>3. ASSUME NEW policy \in Value, NEW preference \in Value
      PROVE  Effective(m, s, policy, preference) <=>
               \/ ~m /\ preference = TRUE
               \/ (m \/ preference = Unset) /\ policy = TRUE
               \/ (m \/ preference = Unset) /\ policy = Unset /\ Default[s]
  BY <1>2 DEF Effective, Value
<1>4. who = Stranger => Preference(rows, who, s) = Unset
  BY DEF Preference
<1>5. m => Effective(m, s, rows[Policy][s], Unset)
             = Effective(m, s, rows[Policy][s], Preference(rows, who, s))
  BY DEF Effective
<1>6. Sends(m, who, s, rows[Policy][s], Preference(rows, who, s)) = Wanted(m, rows, who, s)
  BY <1>1, <1>3 DEF Sends, Wanted
<1>7. CASE who = Stranger
  BY <1>4, <1>6, <1>7
<1>8. CASE m
  <2>1. Sends(m, who, s, rows[Policy][s], Unset)
          = Sends(m, who, s, rows[Policy][s], Preference(rows, who, s))
    BY <1>5, <1>8 DEF Sends
  <2> QED  BY <1>6, <2>1
<1> QED  BY <1>6, <1>7, <1>8

\* Where the group is not managed, a preference decides for an account.
LEMMA PreferenceCounts ==
  ASSUME NEW who, NEW s \in Switch, NEW policy \in Value, NEW preference \in Value,
         who # Stranger, preference # Unset
  PROVE  Sends(FALSE, who, s, policy, preference) = (s \in Declared /\ preference = TRUE)
BY DEF Sends, Effective, Value

LEMMA PreferenceTyped ==
  ASSUME NEW rows \in [Rows -> Switches], NEW who \in Account \cup {Stranger},
         NEW s \in Switch
  PROVE  Preference(rows, who, s) \in Value /\ rows[Policy][s] \in Value
BY RowNames DEF Preference, Switches, Value

\* A plan that is to load preferences knows whose, and of which switch.
LEMMA LoadTyped ==
  ASSUME NotifyTypeOK, plan.pc = "load"
  PROVE  /\ plan.who \in Account \cup {Stranger} /\ plan.switch \in Switch
         /\ plan.policy \in Value /\ plan.inForce \in SUBSET BOOLEAN
         /\ plan \in [pc : {"load"}, who : Account, switch : Switch, policy : Value,
                      inForce : SUBSET BOOLEAN]
BY DEF NotifyTypeOK, Plans, NoPlan

\* A patch that begins has locked nothing yet.
LEMMA StartKept ==
  ASSUME PatchInv, NEW t \in Thread, StartPreference(t) \/ StartPolicy(t)
  PROVE  PatchInv'
<1>1. CASE StartPreference(t)
  <2>1. PICK a \in Account, s \in Patched, v \in BOOLEAN :
          tx' = [tx EXCEPT ![t] = Patch("policy", PreferenceOf(a), One(s, v), Unset)]
    BY <1>1 DEF StartPreference, StartPatch
  <2>2. Patch("policy", PreferenceOf(a), One(s, v), Unset) \in Patches
    BY RowNames, PatchTyped DEF Patch, Patches, Value
  <2> QED
    BY <1>1, <2>1, <2>2 DEF StartPreference, PatchInv, NotifyTypeOK, OneHolder, HoldsPolicy,
       ReadIsCurrent, PreferencesOpen, PatchesAreKept, Patch
<1>2. CASE StartPolicy(t)
  <2>1. PICK m \in Value,
             p \in {NoSwitches} \cup {One(s, v) : s \in Patched, v \in BOOLEAN} :
          /\ m # Unset \/ p # NoSwitches
          /\ StartPatch(t, Patch("policy", Policy, p, m))
    BY <1>2 DEF StartPolicy
  <2>2. p \in Switches
    BY PatchTyped DEF Value
  <2>3. Patch("policy", Policy, p, m) \in Patches
    BY <2>2, RowNames, PatchTyped DEF Patch, Patches, Value
  <2> QED
    BY <1>2, <2>1, <2>3 DEF StartPolicy, StartPatch, PatchInv, NotifyTypeOK, OneHolder, HoldsPolicy,
       ReadIsCurrent, PreferencesOpen, PatchesAreKept, Patch
<1> QED  BY <1>1, <1>2

\* Locks are given to one patch at a time, and nobody changes what they cover.
LEMMA LockKept ==
  ASSUME PatchInv, NEW t \in Thread, LockPolicy(t) \/ LockRow(t)
  PROVE  PatchInv'
<1>0. /\ tx[t].pc # "idle" => tx[t] \in Patches
      /\ row \in [Rows -> Switches]
  BY DEF PatchInv, NotifyTypeOK, NoTx
<1>1. CASE LockPolicy(t) /\ Open(t) /\ tx[t].row = Policy
  <2> DEFINE new == [tx[t] EXCEPT !.pc = "write", !.read = row[Policy], !.readManaged = managed]
  <2>1. /\ tx' = [tx EXCEPT ![t] = new]
        /\ locked' = [locked EXCEPT ![t] = @ \cup {Policy}]
        /\ Free(Policy)
        /\ UNCHANGED <<managed, row, said, plan>>
    BY <1>1 DEF LockPolicy
  <2>2. /\ new \in Patches
        /\ new.pc = "write" /\ new.row = Policy /\ new.read = row[Policy]
        /\ new.readManaged = managed
    BY <1>0, <1>1, RowNames DEF LockPolicy, PatchInv, NotifyTypeOK, Patches, Value
  <2> HIDE DEF new
  <2> QED
    BY <2>1, <2>2, RowNames DEF PatchInv, NotifyTypeOK, OneHolder, HoldsPolicy, ReadIsCurrent,
       PreferencesOpen, PatchesAreKept, Free
<1>2. CASE LockPolicy(t) /\ Open(t) /\ tx[t].row # Policy
  <2> DEFINE new == [tx[t] EXCEPT !.pc = "row"]
  <2>1. /\ tx' = [tx EXCEPT ![t] = new]
        /\ locked' = [locked EXCEPT ![t] = @ \cup {Policy}]
        /\ Free(Policy)
        /\ UNCHANGED <<managed, row, said, plan>>
    BY <1>2 DEF LockPolicy
  <2>2. new \in Patches /\ new.pc = "row" /\ new.row = tx[t].row /\ new.manage = Unset
    BY <1>0, <1>2 DEF LockPolicy, PatchInv, PreferencesOpen, Patches
  <2>3. ~managed
    BY <1>2 DEF Open
  <2> HIDE DEF new
  <2> QED
    BY <1>2, <2>1, <2>2, <2>3, RowNames DEF PatchInv, NotifyTypeOK, OneHolder, HoldsPolicy,
       ReadIsCurrent, PreferencesOpen, PatchesAreKept, Free
<1>3. CASE LockPolicy(t) /\ ~Open(t)
  BY <1>3 DEF LockPolicy, PatchInv, NotifyTypeOK, OneHolder, HoldsPolicy, ReadIsCurrent,
     PreferencesOpen, PatchesAreKept, NoTx
<1>4. CASE LockRow(t)
  <2> DEFINE new == [tx[t] EXCEPT !.pc = "write", !.read = row[tx[t].row]]
  <2>1. /\ tx' = [tx EXCEPT ![t] = new]
        /\ locked' = [locked EXCEPT ![t] = @ \cup {tx[t].row}]
        /\ Free(tx[t].row)
        /\ tx[t].pc = "row"
        /\ UNCHANGED <<managed, row, said, plan>>
    BY <1>4 DEF LockRow, PatchInv, NotifyTypeOK
  <2>2. /\ Policy \in locked[t]
        /\ tx[t].row # Policy
    BY <2>1 DEF PatchInv, HoldsPolicy, Free
  <2>3. /\ new \in Patches /\ new.pc = "write" /\ new.row = tx[t].row
        /\ new.read = row[tx[t].row] /\ new.manage = tx[t].manage
    BY <1>0, <2>1 DEF Patches
  <2>4. tx[t].row \in Rows
    BY <1>0, <2>1 DEF Patches
  <2> HIDE DEF new
  <2> QED
    BY <2>1, <2>2, <2>3, <2>4 DEF PatchInv, NotifyTypeOK, OneHolder, HoldsPolicy,
       ReadIsCurrent, PreferencesOpen, PatchesAreKept, Free
<1> QED  BY <1>1, <1>2, <1>3, <1>4 DEF LockPolicy

\* What a commit makes of the row, the policy and what was said.
LEMMA CommitKept ==
  ASSUME PatchInv, NEW t \in Thread, Commit(t)
  PROVE  PatchInv'
<1> DEFINE r == tx[t].row
           new == Merge(tx[t].read, tx[t].patch)
<1>1. /\ tx[t] \in Patches /\ tx[t].pc = "write" /\ r \in Rows
      /\ row \in [Rows -> Switches]
      /\ new \in Switches
      /\ new = [s \in Switch |-> IF tx[t].patch[s] # Unset THEN tx[t].patch[s]
                                  ELSE said.switches[r][s]]
  <2>1. tx[t] \in Patches /\ tx[t].pc = "write"
    BY DEF Commit, PatchInv, NotifyTypeOK, NoTx
  <2>2. tx[t].read = row[r] /\ row = said.switches
    BY <2>1 DEF PatchInv, ReadIsCurrent, PatchesAreKept
  <2>3. r \in Rows /\ tx[t].read \in Switches /\ tx[t].patch \in Switches
    BY <2>1 DEF Patches
  <2> QED  BY <2>1, <2>2, <2>3, PatchTyped DEF Merge, PatchInv, NotifyTypeOK
<1>2. row' = [row EXCEPT ![r] = new] /\ row'[r] = new
  BY <1>1 DEF Commit
<1>3. said'.switches = [said.switches EXCEPT ![r] = new]
  BY <1>1 DEF Commit, PatchInv, NotifyTypeOK
<1>4. said'.managed = managed' /\ managed' \in BOOLEAN
  <2>1. said.managed = managed /\ said.managed \in BOOLEAN
    BY DEF PatchInv, PatchesAreKept, NotifyTypeOK
  <2>2. said'.managed = IF tx[t].manage # Unset THEN tx[t].manage ELSE said.managed
    BY DEF Commit, PatchInv, NotifyTypeOK
  <2>3. tx[t].manage \in Value
    BY <1>1 DEF Patches
  <2>4. CASE r = Policy
    <3>1. tx[t].readManaged = managed
      BY <1>1, <2>4 DEF PatchInv, ReadIsCurrent
    <3> QED  BY <2>1, <2>2, <2>3, <2>4, <3>1 DEF Commit, Value
  <2>5. CASE r # Policy
    <3>1. tx[t].manage = Unset
      BY <1>1, <2>5 DEF PatchInv, PreferencesOpen
    <3> QED  BY <2>1, <2>2, <2>5, <3>1 DEF Commit
  <2> QED  BY <2>4, <2>5
<1>5. tx' = [tx EXCEPT ![t] = NoTx] /\ locked' = [locked EXCEPT ![t] = {}]
  BY DEF Commit
<1> HIDE DEF new
<1>6. \A u \in Thread : u # t /\ tx[u].pc = "write" => tx[u].row # r /\ r # Policy
  BY <1>1 DEF PatchInv, HoldsPolicy, OneHolder
<1>7. \A u \in Thread : u # t /\ tx[u].pc \in {"row", "write"} => managed' = managed
  <2>1. ASSUME NEW u \in Thread, u # t, tx[u].pc \in {"row", "write"} PROVE r # Policy
    BY <1>1, <2>1 DEF PatchInv, HoldsPolicy, OneHolder
  <2> QED  BY <2>1 DEF Commit
<1>8. plan' \in Plans \cup {NoPlan}
  <2>1. CASE plan.pc = "load"
    <3> QED  BY <2>1, WantedTyped, LoadTyped DEF Commit, PatchInv, Plans
  <2>2. CASE plan.pc # "load"
    BY <2>2 DEF Commit, PatchInv, NotifyTypeOK
  <2> QED  BY <2>1, <2>2
<1>9. NotifyTypeOK'
  <2>1. said' = [switches |-> [said.switches EXCEPT ![r] = new], managed |-> said'.managed]
    BY <1>3 DEF Commit, PatchInv, NotifyTypeOK
  <2>2. said' \in [switches : [Rows -> Switches], managed : BOOLEAN]
    BY <1>1, <1>4, <2>1 DEF PatchInv, NotifyTypeOK
  <2>3. row' \in [Rows -> Switches]
    BY <1>1, <1>2
  <2> QED  BY <1>4, <1>5, <1>8, <2>2, <2>3 DEF PatchInv, NotifyTypeOK
<1>10. OneHolder' /\ HoldsPolicy'
  BY <1>5 DEF PatchInv, NotifyTypeOK, OneHolder, HoldsPolicy, NoTx
<1>11. ReadIsCurrent'
  BY <1>1, <1>2, <1>5, <1>6, <1>7 DEF PatchInv, NotifyTypeOK, ReadIsCurrent, NoTx, Patches
<1>12. PreferencesOpen'
  BY <1>5, <1>7 DEF PatchInv, NotifyTypeOK, PreferencesOpen, NoTx
<1>13. PatchesAreKept'
  BY <1>1, <1>2, <1>3, <1>4 DEF PatchInv, NotifyTypeOK, PatchesAreKept
<1> QED  BY <1>9, <1>10, <1>11, <1>12, <1>13 DEF PatchInv

\* A patch that is given up lets go of its locks; plans only read.
LEMMA AbandonKept ==
  ASSUME PatchInv, NEW t \in Thread, Abandon(t)
  PROVE  PatchInv'
BY DEF Abandon, PatchInv, NotifyTypeOK, OneHolder, HoldsPolicy, ReadIsCurrent,
   PreferencesOpen, PatchesAreKept, NoTx

LEMMA PlanKeepsPatches ==
  ASSUME PatchInv, StartPlan \/ LoadPreferences
  PROVE  PatchInv'
<1>1. UNCHANGED <<managed, row, locked, tx, said>>
  BY DEF StartPlan, LoadPreferences
<1>2. plan' \in Plans \cup {NoPlan}
  <2>1. CASE StartPlan
    <3>1. PICK who \in Account \cup {Stranger}, s \in Switch :
            plan' = IF managed \/ who = Stranger
              THEN Planned(Sends(managed, who, s, row[Policy][s], Unset),
                           {Wanted(managed, row, who, s)})
              ELSE [pc |-> "load", who |-> who, switch |-> s,
                    policy |-> row[Policy][s], inForce |-> {Wanted(managed, row, who, s)}]
      BY <2>1 DEF StartPlan
    <3>2. /\ Wanted(managed, row, who, s) \in BOOLEAN
          /\ Sends(managed, who, s, row[Policy][s], Unset) \in BOOLEAN
          /\ row[Policy][s] \in Value
      BY PreferenceTyped, SendsTyped, WantedTyped DEF PatchInv, NotifyTypeOK, Value
    <3> QED  BY <3>1, <3>2 DEF Plans, Planned
  <2>2. CASE LoadPreferences
    <3>1. Sends(FALSE, plan.who, plan.switch, plan.policy,
                Preference(row, plan.who, plan.switch)) \in BOOLEAN
      <4>1. row \in [Rows -> Switches] /\ FALSE \in BOOLEAN
        BY DEF PatchInv, NotifyTypeOK
      <4> QED  BY <2>2, <4>1, LoadTyped, PreferenceTyped, SendsTyped
                  DEF LoadPreferences, PatchInv
    <3> QED  BY <2>2, <3>1, LoadTyped DEF LoadPreferences, PatchInv, Plans, Planned
  <2> QED  BY <2>1, <2>2
<1> QED
  BY <1>1, <1>2 DEF PatchInv, NotifyTypeOK, OneHolder, HoldsPolicy, ReadIsCurrent,
     PreferencesOpen, PatchesAreKept

\* A commit is counted among what was in force.  Only a patch of that switch of
\* that recipient's preferences changes what the plan would send: it was let in
\* because the group is not managed, and so is in force at once.
LEMMA CommitCovered ==
  ASSUME NotifyInv, NEW t \in Thread, Commit(t)
  PROVE  PlanIsCovered' /\ PlanWasInForce'
<1>1. CASE plan.pc # "load"
  BY <1>1 DEF Commit, NotifyInv, PlanIsCovered, PlanWasInForce
<1>2. CASE plan.pc = "load"
  <2> DEFINE r == tx[t].row
             who == plan.who
             s == plan.switch
             now == Wanted(managed', row', who, s)
  <2>1. /\ plan.who \in Account /\ plan.switch \in Switch
        /\ plan' = [plan EXCEPT !.inForce = @ \cup {now}]
        /\ plan'.pc = "load" /\ plan'.who = who /\ plan'.switch = s
        /\ plan'.policy = plan.policy /\ plan'.inForce = plan.inForce \cup {now}
    BY <1>2, LoadTyped DEF Commit, NotifyInv, PatchInv
  <2>2. who # Stranger
    BY <2>1, NotifyAssumption DEF NotifyAssumption
  <2>3. CASE Preference(row', who, s) = Preference(row, who, s)
    BY <1>2, <2>1, <2>3 DEF NotifyInv, PlanIsCovered, PlanWasInForce, WouldSend
  <2>4. CASE Preference(row', who, s) # Preference(row, who, s)
    <3>1. /\ tx[t] \in Patches /\ tx[t].pc = "write" /\ r \in Rows
          /\ row \in [Rows -> Switches] /\ tx[t].read = row[r]
      BY DEF Commit, NotifyInv, PatchInv, NotifyTypeOK, NoTx, ReadIsCurrent, Patches
    <3>2. row' = [row EXCEPT ![r] = Merge(tx[t].read, tx[t].patch)]
      BY DEF Commit
    <3>3. r = PreferenceOf(who) /\ r # Policy
      BY <2>1, <2>2, <2>4, <3>1, <3>2, RowNames DEF Preference
    <3>4. ~managed /\ managed' = managed
      BY <3>1, <3>3 DEF Commit, NotifyInv, PatchInv, PreferencesOpen
    <3>5. Preference(row', who, s) = Merge(row[r], tx[t].patch)[s]
      BY <2>2, <3>1, <3>2, <3>3 DEF Preference
    <3>6. Preference(row, who, s) = row[r][s]
      BY <2>2, <3>3 DEF Preference
    <3>7. Preference(row', who, s) # Unset
      BY <2>1, <2>4, <3>5, <3>6 DEF Merge
    <3> DEFINE preference == Preference(row', who, s)
    <3>8. row'[Policy][s] \in Value /\ preference \in Value /\ plan.policy \in Value
      <4>1. row' \in [Rows -> Switches]
        BY CommitKept DEF NotifyInv, PatchInv, NotifyTypeOK
      <4> QED  BY <1>2, <2>1, <4>1, PreferenceTyped, LoadTyped DEF NotifyInv, PatchInv
    <3>9. managed' = FALSE
      BY <3>4 DEF NotifyInv, PatchInv, NotifyTypeOK
    <3>10. now = Sends(FALSE, who, s, row'[Policy][s], preference)
      <4>1. row' \in [Rows -> Switches] /\ FALSE \in BOOLEAN
        BY CommitKept DEF NotifyInv, PatchInv, NotifyTypeOK
      <4>2. who \in Account \cup {Stranger} /\ s \in Switch
        BY <2>1
      <4>3. Sends(FALSE, who, s, row'[Policy][s], preference) = Wanted(FALSE, row', who, s)
        BY <4>1, <4>2, SendsWanted
      <4> QED  BY <3>9, <4>3
    <3>11. WouldSend(row)' = Sends(FALSE, who, s, plan.policy, preference)
      BY <2>1 DEF WouldSend
    <3> HIDE DEF preference
    <3>12. now = WouldSend(row)'
      <4>1. s \in Switch /\ preference # Unset
        BY <2>1, <3>7 DEF preference
      <4>2. now = (s \in Declared /\ preference = TRUE)
        BY <2>2, <3>8, <3>10, <4>1, PreferenceCounts
      <4>3. WouldSend(row)' = (s \in Declared /\ preference = TRUE)
        BY <2>2, <3>8, <3>11, <4>1, PreferenceCounts
      <4> QED  BY <4>2, <4>3
    <3> QED  BY <2>1, <3>12 DEF PlanIsCovered, PlanWasInForce
  <2> QED  BY <2>3, <2>4
<1> QED  BY <1>1, <1>2

\* A managed group and a recipient without an account need no second read.
LEMMA StartCovered ==
  ASSUME NotifyInv, StartPlan
  PROVE  PlanIsCovered' /\ PlanWasInForce'
<1>1. PICK who \in Account \cup {Stranger}, s \in Switch :
        plan' = IF managed \/ who = Stranger
          THEN Planned(Sends(managed, who, s, row[Policy][s], Unset),
                       {Wanted(managed, row, who, s)})
          ELSE [pc |-> "load", who |-> who, switch |-> s,
                policy |-> row[Policy][s], inForce |-> {Wanted(managed, row, who, s)}]
  BY DEF StartPlan
<1>2. UNCHANGED <<managed, row>> /\ managed \in BOOLEAN /\ row \in [Rows -> Switches]
  BY DEF StartPlan, NotifyInv, PatchInv, NotifyTypeOK
<1>3. CASE managed \/ who = Stranger
  <2>1. Sends(managed, who, s, row[Policy][s], Unset) = Wanted(managed, row, who, s)
    BY <1>2, <1>3, SendsWanted
  <2> QED  BY <1>1, <1>3, <2>1 DEF Planned, PlanIsCovered, PlanWasInForce
<1>4. CASE ~(managed \/ who = Stranger)
  <2>1. managed = FALSE
    BY <1>2, <1>4
  <2>2. WouldSend(row)' = Sends(FALSE, who, s, row[Policy][s], Preference(row, who, s))
    BY <1>1, <1>2, <1>4 DEF WouldSend
  <2>3. Sends(FALSE, who, s, row[Policy][s], Preference(row, who, s)) = Wanted(managed, row, who, s)
    BY <1>2, <2>1, SendsWanted
  <2> QED  BY <1>1, <1>4, <2>2, <2>3 DEF PlanIsCovered, PlanWasInForce
<1> QED  BY <1>3, <1>4

LEMMA NotifyKept == NotifyInv /\ [NotifyNext]_notifyVars => NotifyInv'
<1> SUFFICES ASSUME NotifyInv, [NotifyNext]_notifyVars PROVE NotifyInv'
  OBVIOUS
<1>1. ASSUME NEW t \in Thread, StartPreference(t) \/ StartPolicy(t) PROVE NotifyInv'
  <2>1. UNCHANGED <<row, plan>>
    BY <1>1 DEF StartPreference, StartPolicy
  <2> QED
    BY <1>1, <2>1, StartKept DEF NotifyInv, PlanIsCovered, WouldSend, PlanWasInForce
<1>2. ASSUME NEW t \in Thread, LockPolicy(t) \/ LockRow(t) PROVE NotifyInv'
  <2>1. UNCHANGED <<row, plan>>
    BY <1>2 DEF LockPolicy, LockRow
  <2> QED
    BY <1>2, <2>1, LockKept DEF NotifyInv, PlanIsCovered, WouldSend, PlanWasInForce
<1>3. ASSUME NEW t \in Thread, Commit(t) PROVE NotifyInv'
  BY <1>3, CommitKept, CommitCovered DEF NotifyInv
<1>4. ASSUME NEW t \in Thread, Abandon(t) PROVE NotifyInv'
  <2>1. UNCHANGED <<row, plan>>
    BY <1>4 DEF Abandon
  <2> QED
    BY <1>4, <2>1, AbandonKept DEF NotifyInv, PlanIsCovered, WouldSend, PlanWasInForce
<1>5. CASE StartPlan
  BY <1>5, PlanKeepsPatches, StartCovered DEF NotifyInv
<1>6. CASE LoadPreferences
  BY <1>6, PlanKeepsPatches
     DEF LoadPreferences, Planned, NotifyInv, PlanIsCovered, WouldSend, PlanWasInForce
<1>7. CASE UNCHANGED notifyVars
  BY <1>7 DEF notifyVars, NotifyInv, PatchInv, NotifyTypeOK, OneHolder, HoldsPolicy,
     ReadIsCurrent, PreferencesOpen, PatchesAreKept, PlanIsCovered, WouldSend, PlanWasInForce
<1> QED  BY <1>1, <1>2, <1>3, <1>4, <1>5, <1>6, <1>7 DEF NotifyNext, PatchStep

LEMMA NotifyBegins == NotifyInit => NotifyInv
<1> SUFFICES ASSUME NotifyInit PROVE NotifyInv
  OBVIOUS
<1>1. NotifyTypeOK
  BY PatchTyped DEF NotifyInit, NotifyTypeOK
<1> QED
  BY <1>1 DEF NotifyInit, NotifyInv, PatchInv, OneHolder, HoldsPolicy, ReadIsCurrent,
     PreferencesOpen, PatchesAreKept, PlanIsCovered, PlanWasInForce, NoTx, NoPlan

\* For any number of threads, accounts and switches: concurrent patches lose
\* nothing (save_policy, save_preference).
THEOREM PatchesKept == NotifySpec => []PatchesAreKept
<1>1. NotifyInv => PatchesAreKept
  BY DEF NotifyInv, PatchInv
<1> QED  BY <1>1, NotifyBegins, NotifyKept, PTL DEF NotifySpec

\* And a plan sends what was wanted at a moment of its making, though it reads the
\* policy and the preferences apart, and without locks (plan_delivery); to whom
\* there is no account, nothing in the application (_recipient_enabled).
THEOREM PlansWereInForce == NotifySpec => []PlanWasInForce
<1>1. NotifyInv => PlanWasInForce
  BY DEF NotifyInv
<1> QED  BY <1>1, NotifyBegins, NotifyKept, PTL DEF NotifySpec

-----------------------------------------------------------------------------
(* Identities: who is refused *)

\* While nobody passes it, what a request has found out stays true.
FoundIsTrue ==
  \A p \in Process :
    \/ passed[p]
    \/ /\ At(p, "new") \/ At(p, "insert") => external[request[p].human] = NoAccount
       /\ At(p, "insert") /\ NameTaken(request[p].username) =>
            request[p].username = Fallback(request[p])

IdentityInv == IdentityTypeOK /\ FoundIsTrue

LEMMA RequestTyped ==
  ASSUME IdentityTypeOK, NEW p \in Process, request[p] # NoRequest
  PROVE  /\ request[p] \in Requests
         /\ Chosen(request[p]) \in Name
         /\ NameTaken(Chosen(request[p])) => Chosen(request[p]) = Fallback(request[p])
<1>1. request[p] \in Requests
  BY DEF IdentityTypeOK
<1> QED  BY <1>1, IdentityAssumption DEF IdentityAssumption, Requests, Chosen, Fallback

\* The steps of a request.
LEMMA RequestKept ==
  ASSUME IdentityInv, NEW p \in Process,
         \/ \E h \in Human, n \in Shown : Find(p, h, n)
         \/ ChooseName(p) \/ Refused(p) \/ Finish(p)
  PROVE  IdentityInv'
<1> USE DEF IdentityInv
<1>1. ASSUME NEW h \in Human, NEW n \in Shown, Find(p, h, n) PROVE IdentityInv'
  <2> DEFINE new == [human |-> h, name |-> n, username |-> n,
                     step |-> IF external[h] = NoAccount THEN "new" ELSE "update"]
  <2>1. /\ new \in Requests /\ new # NoRequest /\ new.human = h
        /\ new.step = "new" => external[h] = NoAccount
        /\ new.step \notin {"insert", "refused"}
    BY IdentityAssumption DEF IdentityAssumption, Requests
  <2>2. /\ request' = [request EXCEPT ![p] = new]
        /\ passed' = [passed EXCEPT ![p] = FALSE]
        /\ UNCHANGED <<external, typed>>
    BY <1>1 DEF Find
  <2> HIDE DEF new
  <2> QED
    BY <2>1, <2>2 DEF IdentityTypeOK, FoundIsTrue, At, NameTaken, Fallback
<1>2. CASE ChooseName(p)
  <2> DEFINE r == request[p]
             new == [r EXCEPT !.username = Chosen(r), !.step = "insert"]
  <2>1. r \in Requests /\ r.step = "new" /\ r # NoRequest
    BY <1>2, RequestTyped DEF ChooseName, At
  <2>2. /\ request' = [request EXCEPT ![p] = new]
        /\ UNCHANGED <<external, typed, passed>>
    BY <1>2 DEF ChooseName, IdentityTypeOK
  <2>3. Chosen(r) \in Name /\ (NameTaken(Chosen(r)) => Chosen(r) = Fallback(r))
    BY <2>1, RequestTyped
  <2>4. /\ new \in Requests /\ new # NoRequest
        /\ new.human = r.human /\ new.username = Chosen(r) /\ new.step = "insert"
        /\ Fallback(new) = Fallback(r)
    BY <2>1, <2>3, IdentityAssumption DEF IdentityAssumption, Requests, Fallback
  <2>5. passed[p] \/ external[r.human] = NoAccount
    BY <2>1 DEF FoundIsTrue, At
  <2> HIDE DEF new
  <2> QED
    BY <2>1, <2>2, <2>3, <2>4, <2>5 DEF IdentityTypeOK, FoundIsTrue, At, NameTaken
<1>3. CASE Refused(p)
  <2> DEFINE new == [request[p] EXCEPT !.step = "refused"]
  <2>1. /\ request' = [request EXCEPT ![p] = new]
        /\ UNCHANGED <<external, typed, passed>>
    BY <1>3 DEF Refused, IdentityTypeOK
  <2>2. new \in Requests /\ new.step = "refused" /\ new # NoRequest
    BY <1>3, RequestTyped, IdentityAssumption DEF IdentityAssumption, Refused, At, Requests
  <2> HIDE DEF new
  <2> QED
    BY <2>1, <2>2 DEF IdentityTypeOK, FoundIsTrue, At, NameTaken
<1>4. CASE Finish(p)
  BY <1>4 DEF Finish, IdentityTypeOK, FoundIsTrue, At, NameTaken
<1> QED  BY <1>1, <1>2, <1>3, <1>4

\* An insert takes a name from every other request, which has been passed by it.
LEMMA InsertKept ==
  ASSUME IdentityInv, NEW p \in Process, Insert(p)
  PROVE  IdentityInv'
<1> DEFINE r == request[p]
           new == [username |-> r.username, active |-> TRUE]
<1>1. r \in Requests
  BY RequestTyped DEF Insert, IdentityInv, At
<1>2. /\ external' = [external EXCEPT ![r.human] = new]
      /\ request' = [request EXCEPT ![p] = NoRequest]
      /\ passed' = [q \in Process |-> q # p /\ request[q] # NoRequest]
      /\ typed' = typed
  BY DEF Insert
<1>3. r.human \in Human /\ new \in Accounts
  BY <1>1 DEF Requests, Accounts
<1> HIDE DEF new
<1>4. IdentityTypeOK'
  BY <1>2, <1>3 DEF IdentityInv, IdentityTypeOK
<1>5. FoundIsTrue'
  <2>1. ASSUME NEW q \in Process, request'[q] # NoRequest PROVE passed'[q]
    BY <1>2, <2>1 DEF IdentityInv, IdentityTypeOK
  <2> QED  BY <2>1 DEF FoundIsTrue, At
<1> QED  BY <1>4, <1>5 DEF IdentityInv

\* So does a local account that is made; one that goes takes none.
LEMMA LocalKept ==
  ASSUME IdentityInv, NEW n \in Name, TypeName(n) \/ Forget(n)
  PROVE  IdentityInv'
<1>1. CASE TypeName(n)
  <2>1. IdentityTypeOK'
    BY <1>1 DEF TypeName, Inserted, IdentityInv, IdentityTypeOK
  <2>2. ASSUME NEW q \in Process, request'[q] # NoRequest PROVE passed'[q]
    BY <1>1, <2>2 DEF TypeName, Inserted
  <2> QED  BY <2>1, <2>2 DEF IdentityInv, FoundIsTrue, At
<1>2. CASE Forget(n)
  BY <1>2 DEF Forget, IdentityInv, IdentityTypeOK, FoundIsTrue, At, NameTaken
<1> QED  BY <1>1, <1>2

\* An account that is taken out of use keeps its name.
LEMMA UseKept ==
  ASSUME IdentityInv, NEW h \in Human, Use(h)
  PROVE  IdentityInv'
<1> DEFINE new == [external[h] EXCEPT !.active = ~@]
<1>1. /\ external' = [external EXCEPT ![h] = new] /\ external[h] # NoAccount
      /\ UNCHANGED <<typed, request, passed>>
  BY DEF Use, IdentityInv, IdentityTypeOK
<1>2. new \in Accounts /\ new # NoAccount /\ new.username = external[h].username
  BY <1>1, IdentityAssumption DEF IdentityAssumption, IdentityInv, IdentityTypeOK, Accounts
<1> HIDE DEF new
<1> QED
  BY <1>1, <1>2 DEF IdentityInv, IdentityTypeOK, FoundIsTrue, At, NameTaken

\* A request becomes refused in one step only.
LEMMA OnlyRefused ==
  ASSUME IdentityInv, [IdentityNext]_identityVars, NEW p \in Process,
         ~At(p, "refused"), At(p, "refused")'
  PROVE  Refused(p)
<1> USE DEF IdentityInv, IdentityTypeOK, At
<1>1. ASSUME NEW q \in Process, NEW h \in Human, NEW n \in Shown, Find(q, h, n) PROVE FALSE
  BY <1>1 DEF Find
<1>2. ASSUME NEW q \in Process, ChooseName(q) PROVE FALSE
  BY <1>2 DEF ChooseName
<1>3. ASSUME NEW q \in Process, Insert(q) \/ Finish(q) PROVE FALSE
  BY <1>3 DEF Insert, Finish
<1>4. ASSUME NEW q \in Process, Refused(q) PROVE q = p
  BY <1>4 DEF Refused
<1>5. ASSUME UNCHANGED request PROVE FALSE
  BY <1>5
<1>6. request' # request
  BY <1>5
<1> QED
  BY <1>1, <1>2, <1>3, <1>4, <1>6 DEF IdentityNext, identityVars, TypeName, Forget, Use

\* For any number of requests, humans and names, and any way of telling humans
\* apart by a name: who is refused was passed by an insert, or bears another's
\* name with its subject (upsert_identity, resolve_trusted_principal).
THEOREM RefusalsExplained == IdentitySpec => RefusalIsExplained
<1>1. IdentityInit => IdentityInv
  BY DEF IdentityInit, IdentityInv, IdentityTypeOK, FoundIsTrue, At
<1>2. IdentityInv /\ [IdentityNext]_identityVars => IdentityInv'
  <2> SUFFICES ASSUME IdentityInv, [IdentityNext]_identityVars PROVE IdentityInv'
    OBVIOUS
  <2>1. CASE UNCHANGED identityVars
    BY <2>1 DEF identityVars, IdentityInv, IdentityTypeOK, FoundIsTrue, At, NameTaken
  <2> QED  BY <2>1, RequestKept, InsertKept, LocalKept, UseKept DEF IdentityNext
<1> DEFINE Explained ==
      \A p \in Process :
        ~At(p, "refused") /\ At(p, "refused")' =>
          \/ passed[p]
          \/ request[p].username = Fallback(request[p]) /\ NameTaken(request[p].username)
<1>3. IdentityInv /\ [IdentityNext]_identityVars => Explained
  <2> SUFFICES ASSUME IdentityInv, [IdentityNext]_identityVars, NEW p \in Process,
                      ~At(p, "refused"), At(p, "refused")', ~passed[p]
               PROVE  request[p].username = Fallback(request[p])
                        /\ NameTaken(request[p].username)
    OBVIOUS
  <2>1. At(p, "insert") /\ ~Insertable(request[p])
    BY OnlyRefused DEF Refused
  <2>2. external[request[p].human] = NoAccount
    BY <2>1 DEF IdentityInv, FoundIsTrue
  <2>3. NameTaken(request[p].username)
    BY <2>1, <2>2 DEF Insertable
  <2> QED  BY <2>1, <2>3 DEF IdentityInv, FoundIsTrue
<1>4. IdentityInv /\ [IdentityNext]_identityVars => [Explained]_identityVars
  BY <1>3
<1> QED  BY <1>1, <1>2, <1>4, PTL DEF IdentitySpec, RefusalIsExplained

-----------------------------------------------------------------------------
(* ManifestSync: what is in force *)

\* The version in force among those of a place.
LastOf(held) ==
  IF \A v \in Version : held[v] = Nothing THEN 0
  ELSE CHOOSE v \in Version : /\ held[v] # Nothing
                              /\ \A u \in Version : held[u] # Nothing => u <= v

\* Some version that is held is the last: the first, counted from the bound.
LEMMA LastExists ==
  ASSUME NEW held, NEW w \in Version, held[w] # Nothing
  PROVE  \E v \in Version : /\ held[v] # Nothing
                            /\ \A u \in Version : held[u] # Nothing => u <= v
<1> DEFINE Left == {n \in Nat : n <= MaxVersion /\ MaxVersion - n \in Version
                                /\ held[MaxVersion - n] # Nothing}
<1>0. MaxVersion \in Nat
  BY SyncAssumption DEF SyncAssumption
<1>1. MaxVersion - w \in Left
  BY <1>0 DEF Version
<1>2. PICK n \in Left : \A k \in Left : ~(<<k, n>> \in OpToRel(<, Nat))
  <2>1. Left \subseteq Nat /\ Left # {}
    BY <1>1
  <2> HIDE DEF Left
  <2> QED  BY <2>1, NatLessThanWellFounded, WFMin
<1>3. n \in Nat /\ n <= MaxVersion /\ MaxVersion - n \in Version /\ held[MaxVersion - n] # Nothing
  OBVIOUS
<1>4. ASSUME NEW u \in Version, held[u] # Nothing PROVE u <= MaxVersion - n
  <2>1. MaxVersion - u \in Nat /\ MaxVersion - (MaxVersion - u) = u /\ MaxVersion - u <= MaxVersion
    BY <1>0 DEF Version
  <2>2. MaxVersion - u \in Left
    BY <1>4, <2>1
  <2>3. ~(MaxVersion - u < n)
    BY <1>2, <1>3, <2>1, <2>2 DEF OpToRel
  <2> QED  BY <1>0, <1>3, <2>3 DEF Version
<1> QED  BY <1>3, <1>4

\* What the CHOOSE of LastOf returns.
LEMMA LastIsLast ==
  ASSUME NEW held
  PROVE  /\ LastOf(held) \in 0 .. MaxVersion
         /\ LastOf(held) # 0 => LastOf(held) \in Version /\ held[LastOf(held)] # Nothing
         /\ \A u \in Version : held[u] # Nothing => u <= LastOf(held)
<1>0. MaxVersion \in Nat
  BY SyncAssumption DEF SyncAssumption
<1>1. CASE \A v \in Version : held[v] = Nothing
  BY <1>0, <1>1 DEF LastOf
<1>2. CASE ~ \A v \in Version : held[v] = Nothing
  <2>1. \E v \in Version : /\ held[v] # Nothing
                           /\ \A u \in Version : held[u] # Nothing => u <= v
    BY <1>2, LastExists
  <2>2. LastOf(held) = CHOOSE v \in Version : /\ held[v] # Nothing
                         /\ \A u \in Version : held[u] # Nothing => u <= v
    BY <1>2 DEF LastOf
  <2>3. /\ LastOf(held) \in Version /\ held[LastOf(held)] # Nothing
        /\ \A u \in Version : held[u] # Nothing => u <= LastOf(held)
    BY <2>1, <2>2
  <2> QED  BY <1>0, <2>3 DEF Version
<1> QED  BY <1>1, <1>2

LEMMA InForceIsLast == \A p : InForce(p) = LastOf(imported[p])
BY DEF InForce, LastOf

\* What a row says was accepted, EasyAuth holds.
Recorded(held, r) ==
  r.status = "ok" =>
    /\ r.place \in Place /\ r.version \in Version
    /\ r.hash \in Manifest
    /\ held[r.place][r.version] = r.hash

\* So it does for the row that a push of m began with and may write again, and
\* for what the push has been told was accepted.
PushRecorded(held, m, p) ==
  /\ Recorded(held, p.old)
  /\ p.pc \notin {"idle", "conflict"} => p.place \in Place
  /\ p.pc = "ok" => p.version \in Version /\ held[p.place][p.version] = m

\* Alone, a push has probed the version in force, or stepped above it: a second
\* conflict settles it.
PushSettles(held, p, a) ==
  /\ p.pc = "load" => p.stage = "open"
  /\ p.pc = "post" /\ a =>
       /\ p.stage = "probe" => p.version = LastOf(held[p.place])
       /\ p.stage = "bump"  => p.version > LastOf(held[p.place])
  /\ p.pc = "conflict" => ~a

PushFits(held, m, p, a) == PushRecorded(held, m, p) /\ PushSettles(held, p, a)

SyncInv ==
  /\ SyncTypeOK
  /\ Recorded(imported, stored)
  /\ \A w \in Worker : PushFits(imported, release[w], push[w], alone[w])

\* Nothing is under way, and nothing was accepted.
LEMMA NoPushFits ==
  /\ NoRow \in Row /\ NoPush \in Push /\ NoPush.pc = "idle"
  /\ \A held : Recorded(held, NoRow)
  /\ \A held, m, a : PushFits(held, m, NoPush, a)
BY DEF NoPush, NoRow, Push, Row, PushFits, PushRecorded, PushSettles, Recorded

LEMMA PushTyped ==
  ASSUME SyncTypeOK, NEW w \in Worker
  PROVE  /\ push[w] \in Push /\ push[w].version \in Nat /\ push[w].old \in Row
         /\ push[w].stage \in {"open", "probe", "bump"}
         /\ push[w].place \in Place \cup {Nowhere}
         /\ release[w] \in Manifest /\ alone[w] \in BOOLEAN
BY DEF SyncTypeOK, Push

\* What one process does that leaves alone what EasyAuth holds, and the row.
LEMMA OwnStepKept ==
  ASSUME SyncInv, NEW w \in Worker, NEW new \in Push, NEW a \in BOOLEAN,
         push' = [push EXCEPT ![w] = new], alone' = [alone EXCEPT ![w] = a],
         UNCHANGED <<release, stored, imported>>,
         PushFits(imported, release[w], new, a)
  PROVE  SyncInv'
BY DEF SyncInv, SyncTypeOK

\* The later holdings keep what the earlier ones hold.
Keeps(held, later) ==
  \A q \in Place, u \in Version : held[q][u] # Nothing => later[q][u] = held[q][u]

\* An import changes no version that was imported before, since it is the last.
LEMMA ImportKeeps ==
  ASSUME SyncTypeOK, NEW place \in Place, NEW v \in Version, NEW m \in Manifest,
         v > LastOf(imported[place]), imported' = [imported EXCEPT ![place][v] = m]
  PROVE  /\ imported' \in [Place -> [Version -> Manifest \cup {Nothing}]]
         /\ imported'[place][v] = m
         /\ Keeps(imported, imported')
         /\ \A q \in Place : q # place => imported'[q] = imported[q]
<1>1. /\ imported' \in [Place -> [Version -> Manifest \cup {Nothing}]]
      /\ imported'[place][v] = m
  BY DEF SyncTypeOK
<1>2. \A q \in Place : q # place => imported'[q] = imported[q]
  BY DEF SyncTypeOK
<1>3. imported[place][v] = Nothing
  <2>1. LastOf(imported[place]) \in Nat /\ ~(v <= LastOf(imported[place]))
    BY LastIsLast, SyncAssumption DEF Version, SyncAssumption
  <2> QED  BY <2>1, LastIsLast
<1>4. Keeps(imported, imported')
  BY <1>3 DEF SyncTypeOK, Keeps
<1> QED  BY <1>1, <1>2, <1>4

LEMMA RowKept ==
  ASSUME Keeps(imported, imported'), NEW r, Recorded(imported, r)
  PROVE  Recorded(imported', r)
BY SyncAssumption DEF Recorded, Keeps, SyncAssumption

\* Another's push to the same place is no longer alone.
LEMMA PushKept ==
  ASSUME SyncTypeOK, NEW u \in Worker, NEW place, Keeps(imported, imported'),
         \A q \in Place : q # place => imported'[q] = imported[q],
         push'[u] = push[u], release'[u] = release[u],
         alone'[u] = (alone[u] /\ push[u].place # place),
         PushFits(imported, release[u], push[u], alone[u])
  PROVE  PushFits(imported', release'[u], push'[u], alone'[u])
<1>1. Recorded(imported', push[u].old)
  BY RowKept DEF PushFits, PushRecorded
<1>2. PushRecorded(imported', release'[u], push'[u])
  BY <1>1, PushTyped, SyncAssumption DEF PushFits, PushRecorded, SyncAssumption, Keeps
<1>3. PushSettles(imported', push'[u], alone'[u])
  <2>1. push[u].pc = "post" /\ alone'[u] => alone[u] /\ imported'[push[u].place] = imported[push[u].place]
    BY DEF PushFits, PushRecorded
  <2> QED  BY <2>1 DEF PushFits, PushSettles
<1> QED  BY <1>2, <1>3 DEF PushFits

\* What one process does when EasyAuth imports what it sent.
LEMMA ImportStepKept ==
  ASSUME SyncInv, NEW w \in Worker, NEW new \in Push, Posting(w), Imports(w),
         push' = [push EXCEPT ![w] = new], UNCHANGED <<release, stored>>,
         \/ new = NoPush
         \/ /\ new.pc = "ok" /\ new.old = NoRow
            /\ new.place = push[w].place /\ new.version = push[w].version
  PROVE  SyncInv'
<1> DEFINE p == push[w].place
           v == push[w].version
<1>1. p \in Place /\ v \in Version /\ release[w] \in Manifest
  BY PushTyped DEF SyncInv, PushFits, PushRecorded, Posting, Imports
<1>2. v > LastOf(imported[p])
  BY InForceIsLast DEF Imports
<1>3. imported' = [imported EXCEPT ![p][v] = release[w]]
  BY DEF Imports
<1>4. alone' = [u \in Worker |-> alone[u] /\ (u = w \/ push[u].place # p)]
  BY DEF Imports
<1>5. /\ imported' \in [Place -> [Version -> Manifest \cup {Nothing}]]
      /\ imported'[p][v] = release[w]
      /\ Keeps(imported, imported')
      /\ \A q \in Place : q # p => imported'[q] = imported[q]
  BY <1>1, <1>2, <1>3, ImportKeeps DEF SyncInv
<1>6. PushFits(imported', release[w], new, alone'[w])
  <2>1. CASE new = NoPush
    BY <2>1, NoPushFits
  <2>2. CASE new # NoPush
    BY <1>1, <1>5, <2>2, NoPushFits DEF PushFits, PushRecorded, PushSettles
  <2> QED  BY <2>1, <2>2
<1>7. ASSUME NEW u \in Worker, u # w
      PROVE  PushFits(imported', release'[u], push'[u], alone'[u])
  <2>1. /\ push'[u] = push[u] /\ release'[u] = release[u]
        /\ alone'[u] = (alone[u] /\ push[u].place # p)
        /\ PushFits(imported, release[u], push[u], alone[u])
    BY <1>4, <1>7 DEF SyncInv, SyncTypeOK
  <2> QED  BY <1>5, <2>1, PushKept DEF SyncInv
<1>8. SyncTypeOK'
  BY <1>4, <1>5 DEF SyncInv, SyncTypeOK
<1>9. PushFits(imported', release'[w], push'[w], alone'[w])
  BY <1>6 DEF SyncInv, SyncTypeOK
<1>10. Recorded(imported', stored')
  BY <1>5, RowKept DEF SyncInv
<1> QED  BY <1>7, <1>8, <1>9, <1>10 DEF SyncInv

\* A process leaves its flag alone.
LEMMA AloneSame == SyncTypeOK => \A w \in Worker : alone = [alone EXCEPT ![w] = alone[w]]
BY DEF SyncTypeOK

\* A push begins, reads the row, and decides.
LEMMA BeginKept ==
  ASSUME SyncInv, NEW w \in Worker, Begin(w) \/ Load(w)
  PROVE  SyncInv'
<1>1. CASE Begin(w)
  <2>1. PICK place \in Place, public \in BOOLEAN, force \in BOOLEAN :
          push' = [push EXCEPT ![w] = [NoPush EXCEPT !.pc = "load", !.force = force,
                                         !.place = place, !.public = public]]
    BY <1>1 DEF Begin
  <2> DEFINE new == [NoPush EXCEPT !.pc = "load", !.force = force,
                                   !.place = place, !.public = public]
  <2>2. new \in Push /\ PushFits(imported, release[w], new, TRUE)
    BY DEF NoPush, NoRow, Push, Row, PushFits, PushRecorded, PushSettles, Recorded
  <2> HIDE DEF new
  <2>3. push' = [push EXCEPT ![w] = new]
    BY <2>1 DEF new
  <2> QED  BY <1>1, <2>2, <2>3, OwnStepKept DEF Begin
<1>2. CASE Load(w)
  <2> DEFINE new == IF ShouldSkip(stored, release[w], push[w].place, push[w].force)
                    THEN NoPush
                    ELSE [push[w] EXCEPT !.pc = "post", !.old = stored, !.force = FALSE,
                                         !.version = NextVersion(stored, release[w])]
  <2>1. push' = [push EXCEPT ![w] = new] /\ alone' = [alone EXCEPT ![w] = alone[w]]
    BY <1>2, AloneSame DEF Load, SyncInv, SyncTypeOK
  <2>2. NextVersion(stored, release[w]) \in Nat
    BY SyncAssumption DEF NextVersion, SyncAssumption, SyncInv, SyncTypeOK, Row
  <2>3. /\ push[w].pc = "load" /\ push[w].place \in Place /\ push[w].stage = "open"
        /\ push[w] \in Push /\ alone[w] \in BOOLEAN
    BY <1>2, PushTyped DEF Load, SyncInv, PushFits, PushRecorded, PushSettles
  <2>4. new \in Push
    BY <2>2, <2>3, NoPushFits DEF Push, SyncInv, SyncTypeOK
  <2>5. PushFits(imported, release[w], new, alone[w])
    <3>1. CASE new = NoPush
      BY <3>1, NoPushFits
    <3>2. CASE new # NoPush
      <4>1. /\ new.pc = "post" /\ new.old = stored /\ new.stage = "open"
            /\ new.place = push[w].place
        BY <2>3, <3>2 DEF Push
      <4> HIDE DEF new
      <4> QED  BY <2>3, <4>1 DEF SyncInv, PushFits, PushRecorded, PushSettles
    <3> QED  BY <3>1, <3>2
  <2> HIDE DEF new
  <2> QED  BY <1>2, <2>1, <2>3, <2>4, <2>5, OwnStepKept, ZenonT(40) DEF Load
<1> QED  BY <1>1, <1>2

\* Answers that import nothing.
LEMMA AnswerKept ==
  ASSUME SyncInv, NEW w \in Worker, Unprocessable(w) \/ Conflict(w)
  PROVE  SyncInv'
<1> DEFINE p == push[w].place
<1>1. /\ push[w] \in Push /\ push[w].pc = "post" /\ p \in Place
      /\ PushFits(imported, release[w], push[w], alone[w])
      /\ push[w].version \in Nat /\ alone[w] \in BOOLEAN
  BY PushTyped DEF Unprocessable, Conflict, Posting, SyncInv, PushFits, PushRecorded
<1>2. CASE Unprocessable(w)
  <2> DEFINE new == IF push[w].public THEN [push[w] EXCEPT !.public = FALSE]
                    ELSE [push[w] EXCEPT !.pc = "rejected", !.stage = "open"]
  <2>1. push' = [push EXCEPT ![w] = new] /\ alone' = [alone EXCEPT ![w] = alone[w]]
    BY <1>2, AloneSame DEF Unprocessable, SyncInv, SyncTypeOK
  <2>2. new \in Push /\ PushFits(imported, release[w], new, alone[w])
    BY <1>1 DEF Push, PushFits, PushRecorded, PushSettles
  <2> HIDE DEF new
  <2> QED  BY <1>1, <1>2, <2>1, <2>2, OwnStepKept, ZenonT(40) DEF Unprocessable
<1>3. CASE Conflict(w)
  <2> DEFINE last == LastOf(imported[p])
  <2>1. PICK latest \in Told(p) :
          /\ alone' = [alone EXCEPT ![w] = @ /\ (latest # 0 \/ push[w].stage # "open")]
          /\ push' = [push EXCEPT ![w] = IF @.stage = "bump"
                                         THEN [NoPush EXCEPT !.pc = "conflict"]
                                         ELSE TryNext(@, latest)]
    BY <1>3 DEF Conflict
  <2>2. latest \in {0, last} /\ last \in Nat /\ push[w].version <= last
    BY <1>3, InForceIsLast, LastIsLast, SyncAssumption DEF Told, Conflict, SyncAssumption
  <2> DEFINE a == alone[w] /\ (latest # 0 \/ push[w].stage # "open")
  <2>3. CASE push[w].stage = "bump"
    <3> DEFINE new == [NoPush EXCEPT !.pc = "conflict"]
    <3>1. ~a
      BY <1>1, <2>2, <2>3 DEF PushFits, PushSettles
    <3>2. new \in Push /\ PushFits(imported, release[w], new, a)
      BY <3>1 DEF NoPush, NoRow, Push, Row, PushFits, PushRecorded, PushSettles, Recorded
    <3>3. push' = [push EXCEPT ![w] = new] /\ alone' = [alone EXCEPT ![w] = a]
      BY <2>1, <2>3 DEF SyncInv, SyncTypeOK
    <3> HIDE DEF new, a
    <3>4. a \in BOOLEAN
      BY <1>1 DEF a
    <3> QED  BY <1>3, <3>2, <3>3, <3>4, OwnStepKept, ZenonT(40) DEF Conflict
  <2>4. CASE push[w].stage # "bump"
    <3> DEFINE new == TryNext(push[w], latest)
    <3>1. push' = [push EXCEPT ![w] = new] /\ alone' = [alone EXCEPT ![w] = a]
      BY <2>1, <2>4 DEF SyncInv, SyncTypeOK
    <3>2. new \in Push
      <4>1. latest \in Nat /\ push[w].version + 1 \in Nat
        BY <1>1, <2>2
      <4> QED  BY <1>1, <4>1 DEF TryNext, Push
    <3>3. /\ new.pc = "post" /\ new.place = p /\ new.old = push[w].old
          /\ new.stage \in {"probe", "bump"}
          /\ new.stage = "probe" => new.version = latest /\ latest # 0
          /\ new.stage = "bump" =>
               /\ new.version = push[w].version + 1
               /\ push[w].stage # "open" \/ latest \in {0, push[w].version}
      BY <1>1, <2>2 DEF TryNext, Push
    <3>4. a /\ new.stage = "bump" => push[w].version = last
      BY <1>1, <2>2, <2>4, <3>3 DEF PushFits, PushSettles, Push
    <3>5. PushSettles(imported, new, a)
      BY <1>1, <2>2, <3>3, <3>4 DEF PushSettles
    <3>6. PushRecorded(imported, release[w], new)
      BY <1>1, <3>3 DEF PushFits, PushRecorded
    <3> HIDE DEF new, a
    <3>7. a \in BOOLEAN
      BY <1>1 DEF a
    <3> QED  BY <1>3, <3>1, <3>2, <3>5, <3>6, <3>7, OwnStepKept, ZenonT(40) DEF Conflict, PushFits
  <2> QED  BY <2>3, <2>4
<1> QED  BY <1>2, <1>3 DEF Unprocessable, Conflict

\* Accepted, or not told whether.
LEMMA PostKept ==
  ASSUME SyncInv, NEW w \in Worker, Success(w) \/ Retryable(w)
  PROVE  SyncInv'
<1> DEFINE p == push[w].place
           ok(v) == [NoPush EXCEPT !.pc = "ok", !.place = p, !.version = v]
<1>1. /\ p \in Place /\ Posting(w) /\ alone[w] \in BOOLEAN
      /\ UNCHANGED <<release, stored>>
  BY PushTyped DEF Success, Retryable, Posting, SyncInv, PushFits, PushRecorded
<1>2. \A v \in Nat : /\ ok(v) \in Push /\ ok(v).pc = "ok" /\ ok(v).old = NoRow
                     /\ ok(v).place = p /\ ok(v).version = v
  BY <1>1, NoPushFits DEF NoPush, Push
<1>3. CASE Imports(w) /\ (Accept(w, push[w].version) \/ push' = [push EXCEPT ![w] = NoPush])
  <2>1. PICK new \in {NoPush, ok(push[w].version)} : push' = [push EXCEPT ![w] = new]
    BY <1>3 DEF Accept
  <2>2. new \in Push /\ push[w].version \in Nat
    BY <1>2, NoPushFits, PushTyped DEF SyncInv
  <2>3. \/ new = NoPush
        \/ /\ new.pc = "ok" /\ new.old = NoRow
           /\ new.place = push[w].place /\ new.version = push[w].version
    BY <1>2, <2>2, ZenonT(40)
  <2> QED  BY <1>1, <1>3, <2>1, <2>2, <2>3, ImportStepKept
<1>4. CASE /\ Holds(p, release[w]) /\ Accept(w, VersionFromSuccess(w, TRUE))
           /\ UNCHANGED <<imported, alone>>
  <2> DEFINE v == InForce(p)
             new == ok(v)
  <2>1. /\ Holds(p, release[w]) /\ push' = [push EXCEPT ![w] = new]
        /\ UNCHANGED <<release, stored, imported, alone>>
    BY <1>1, <1>4 DEF Accept, VersionFromSuccess
  <2>2. v \in Nat /\ v \in Version /\ imported[p][v] = release[w]
    BY <2>1, InForceIsLast, LastIsLast, SyncAssumption DEF Holds, SyncAssumption
  <2>3. new \in Push /\ PushFits(imported, release[w], new, alone[w])
    BY <1>1, <1>2, <2>2, NoPushFits DEF PushFits, PushRecorded, PushSettles
  <2>4. alone' = [alone EXCEPT ![w] = alone[w]]
    BY <2>1, AloneSame DEF SyncInv
  <2> HIDE DEF new
  <2> QED  BY <1>1, <2>1, <2>3, <2>4, OwnStepKept
<1>5. CASE push' = [push EXCEPT ![w] = NoPush] /\ UNCHANGED <<imported, alone>>
  <2>1. alone' = [alone EXCEPT ![w] = alone[w]] /\ push' = [push EXCEPT ![w] = NoPush]
        /\ UNCHANGED <<release, stored, imported>>
    BY <1>1, <1>5, AloneSame DEF SyncInv
  <2> QED  BY <1>1, <2>1, NoPushFits, OwnStepKept
<1> QED  BY <1>3, <1>4, <1>5 DEF Success, Retryable, VersionFromSuccess

\* What is written down was accepted; a refusal is written beside what was.
LEMMA CommitSyncKept ==
  ASSUME SyncInv, NEW w \in Worker, CommitSync(w)
  PROVE  SyncInv'
<1>1. /\ push' = [push EXCEPT ![w] = NoPush] /\ UNCHANGED <<release, imported, alone>>
  BY DEF CommitSync
<1>2. /\ PushFits(imported, release[w], push[w], alone[w])
      /\ push[w] \in Push /\ push[w].old \in Row /\ release[w] \in Manifest
  BY PushTyped DEF SyncInv
<1>3. stored' \in Row /\ Recorded(imported, stored')
  <2>1. CASE push[w].pc = "ok" /\ SaveState(OkPayload(w))
    BY <1>2, <2>1, SyncAssumption DEF SaveState, OkPayload, NoRow, Row, Push, Recorded,
       PushFits, PushRecorded, SyncAssumption, Version
  <2>2. CASE push[w].pc = "rejected" /\ SaveState(Failure422(w))
    <3>1. push[w].place \in Place /\ Recorded(imported, push[w].old)
      BY <1>2, <2>2 DEF PushFits, PushRecorded
    <3>2. CASE push[w].old.status = "ok"
      BY <1>2, <2>2, <3>1, <3>2 DEF SaveState, Failure422, Row, Recorded
    <3>3. CASE push[w].old.status # "ok"
      BY <1>2, <2>2, <3>1, <3>3 DEF SaveState, Failure422, Row, Recorded, NoRow
    <3> QED  BY <3>2, <3>3
  <2>3. CASE UNCHANGED stored
    BY <2>3 DEF SyncInv, SyncTypeOK
  <2> QED  BY <2>1, <2>2, <2>3 DEF CommitSync
<1> QED  BY <1>1, <1>3, NoPushFits DEF SyncInv, SyncTypeOK

LEMMA SyncKept == SyncInv /\ [SyncNext]_syncVars => SyncInv'
<1> SUFFICES ASSUME SyncInv, [SyncNext]_syncVars PROVE SyncInv'
  OBVIOUS
<1>1. ASSUME NEW w \in Worker, Restart(w) PROVE SyncInv'
  BY <1>1, NoPushFits DEF Restart, SyncInv, SyncTypeOK
<1>2. CASE UNCHANGED syncVars
  BY <1>2 DEF syncVars, SyncInv, SyncTypeOK
<1> QED
  BY <1>1, <1>2, BeginKept, PostKept, AnswerKept, CommitSyncKept DEF SyncNext, SyncStep

LEMMA SyncBegins == SyncInit => SyncInv
<1> SUFFICES ASSUME SyncInit PROVE SyncInv
  OBVIOUS
<1>1. SyncTypeOK
  BY NoPushFits DEF SyncInit, SyncTypeOK
<1>2. ASSUME NEW w \in Worker PROVE PushFits(imported, release[w], push[w], alone[w])
  BY NoPushFits DEF SyncInit
<1> QED  BY <1>1, <1>2, NoPushFits DEF SyncInit, SyncInv

\* For any number of processes, releases and places of EasyAuth: what the row says
\* was accepted is imported under that version (sync_manifest, _failure_422).
THEOREM StoredIsImported == SyncSpec => []StoredWasImported
<1>1. SyncInv => StoredWasImported
  BY DEF SyncInv, Recorded, StoredWasImported
<1> QED  BY <1>1, SyncBegins, SyncKept, PTL DEF SyncSpec

\* And a push that meets no other is never given up for a conflict: the probe
\* finds the version in force, and the step above it is free (_resolve_conflict).
THEOREM AloneIsSettled == SyncSpec => []ConflictNeedsAnother
<1>1. SyncInv => ConflictNeedsAnother
  BY DEF SyncInv, PushFits, PushSettles, ConflictNeedsAnother
<1> QED  BY <1>1, SyncBegins, SyncKept, PTL DEF SyncSpec

-----------------------------------------------------------------------------
(* OidcFlow: cookies and keys *)

Outside(f) == flow[f].at \in {"away", "back"}

\* A cookie is that of a flow of its kind.
CookiesAreOfKind ==
  \A k \in Kinds : jar[k] # NoFlow => flow[jar[k]].kind = k /\ flow[jar[k]].at # "unused"

\* A flow that ran beside no other of its kind finds its cookie when it is back,
\* and no callback of another is about to delete it.
CookieIsThere ==
  \A f \in Flow : Outside(f) /\ f \notin overlapped =>
    /\ jar[flow[f].kind] = f
    /\ \A g \in Flow : g # f /\ Under(g) /\ flow[g].matched => flow[g].kind # flow[f].kind

\* The key that is sought is published, or was withdrawn meanwhile; and so it is
\* among the keys that were fetched since.
KeyIsKnown ==
  \A f \in Flow :
    /\ flow[f].at \in {"key", "answer"} => flow[f].kid \in published \/ f \in orphaned
    /\ flow[f].at = "answer" => flow[f].kid \in flow[f].fetched \/ f \in orphaned

OidcInv ==
  /\ OidcTypeOK
  /\ CookiesAreOfKind /\ CookieIsThere /\ KeyIsKnown
  /\ RefusalsAreJust

LEMMA EndedTyped ==
  ASSUME OidcTypeOK, NEW f \in Flow, NEW at \in {"end", "done"},
         NEW result \in {"none", "mismatch", "nokey", "error", "session"}
  PROVE  /\ Ended(f, at, result) \in FlowState
         /\ Ended(f, at, result).at = at /\ Ended(f, at, result).result = result
         /\ Ended(f, at, result).kind = flow[f].kind
         /\ Ended(f, at, result).matched = flow[f].matched
BY OidcAssumption DEF OidcTypeOK, Ended, Fresh, FlowState, Kinds

\* A step of a callback once the state is verified: the flow stays inside, or ends.
LEMMA InsideKept ==
  ASSUME OidcInv, NEW f \in Flow, NEW new \in FlowState,
         flow' = [flow EXCEPT ![f] = new],
         Under(f), ~Outside(f), new.at \notin {"unused", "away", "back"},
         new.kind = flow[f].kind, new.matched = flow[f].matched,
         new.at \in {"key", "answer"} => new.kid \in published \/ f \in orphaned,
         new.at = "answer" => new.kid \in new.fetched \/ f \in orphaned,
         new.result = "mismatch" => flow[f].result = "mismatch",
         new.result = "nokey" => f \in orphaned,
         UNCHANGED <<jar, marks, orphaned, published>>,
         cached' \subseteq Key, known' \in [Sub -> {"none", "active", "inactive"}]
  PROVE  OidcInv'
<1>1. OidcTypeOK'
  BY DEF OidcInv, OidcTypeOK, marks
<1>2. flow'[f] = new /\ \A g \in Flow : g # f => flow'[g] = flow[g]
  BY DEF OidcInv, OidcTypeOK
<1>3. CookiesAreOfKind'
  BY <1>2 DEF OidcInv, OidcTypeOK, CookiesAreOfKind, marks
<1>4. CookieIsThere'
  BY <1>2 DEF OidcInv, CookieIsThere, Outside, Under, marks
<1>5. KeyIsKnown'
  BY <1>2 DEF OidcInv, KeyIsKnown
<1>6. RefusalsAreJust'
  BY <1>2 DEF OidcInv, RefusalsAreJust, marks
<1> QED  BY <1>1, <1>3, <1>4, <1>5, <1>6 DEF OidcInv

\* An answer from inside, or an error that is none.
LEMMA EndKept ==
  ASSUME OidcInv, NEW f \in Flow, Under(f), ~Outside(f),
         NEW result \in {"nokey", "error", "session"},
         Answer(f, result) \/ Breaks(f),
         result = "nokey" => f \in orphaned,
         UNCHANGED <<jar, marks, orphaned, published>>,
         cached' \subseteq Key, known' \in [Sub -> {"none", "active", "inactive"}]
  PROVE  OidcInv'
<1>1. CASE Answer(f, result)
  <2> DEFINE new == Ended(f, "end", result)
  <2>1. flow' = [flow EXCEPT ![f] = new]
    BY <1>1 DEF Answer
  <2>2. new \in FlowState /\ new.at = "end" /\ new.result = result
        /\ new.kind = flow[f].kind /\ new.matched = flow[f].matched
    BY EndedTyped DEF OidcInv
  <2> HIDE DEF new
  <2> QED  BY <2>1, <2>2, InsideKept
<1>2. CASE Breaks(f)
  <2> DEFINE new == Ended(f, "done", "error")
  <2>1. flow' = [flow EXCEPT ![f] = new]
    BY <1>2 DEF Breaks
  <2>2. new \in FlowState /\ new.at = "done" /\ new.result = "error"
        /\ new.kind = flow[f].kind /\ new.matched = flow[f].matched
    BY EndedTyped DEF OidcInv
  <2> HIDE DEF new
  <2> QED  BY <2>1, <2>2, InsideKept
<1> QED  BY <1>1, <1>2

\* The code is exchanged, and the key of the token sought.
LEMMA ExchangeKept ==
  ASSUME OidcInv, NEW f \in Flow, Exchange(f)
  PROVE  OidcInv'
<1>1. Under(f) /\ ~Outside(f) /\ flow[f] \in FlowState
  BY DEF Exchange, Is, Under, Outside, OidcInv, OidcTypeOK
<1>2. /\ UNCHANGED <<jar, marks, orphaned, published>>
      /\ cached' \subseteq Key /\ known' \in [Sub -> {"none", "active", "inactive"}]
  BY DEF Exchange, keyVars, OidcInv, OidcTypeOK
<1>3. CASE Answer(f, "error")
  BY <1>1, <1>2, <1>3, EndKept
<1>4. ASSUME NEW k \in published,
             flow' = [flow EXCEPT ![f].at = "key", ![f].kid = k, ![f].code = FALSE]
      PROVE  OidcInv'
  <2> DEFINE new == [flow[f] EXCEPT !.at = "key", !.kid = k, !.code = FALSE]
  <2>1. flow' = [flow EXCEPT ![f] = new]
    BY <1>4 DEF OidcInv, OidcTypeOK
  <2>2. /\ new \in FlowState /\ new.at = "key" /\ new.kid = k
        /\ new.kind = flow[f].kind /\ new.matched = flow[f].matched
        /\ new.result = flow[f].result
    BY <1>1 DEF FlowState, OidcInv, OidcTypeOK
  <2>3. new.result = "nokey" => f \in orphaned
    BY <2>2 DEF OidcInv, RefusalsAreJust
  <2> HIDE DEF new
  <2> QED  BY <1>1, <1>2, <2>1, <2>2, <2>3, InsideKept
<1> QED  BY <1>3, <1>4 DEF Exchange

\* The key was found: what was gathered for the search is dropped.
LEMMA FoundKept ==
  ASSUME OidcInv, NEW f \in Flow, flow[f].at \in {"key", "answer"}, Found(f),
         UNCHANGED <<jar, marks, orphaned, published, known>>, cached' \subseteq Key
  PROVE  OidcInv'
<1> DEFINE new == [flow[f] EXCEPT !.at = "look", !.kid = NoKey, !.fetched = {}, !.forced = FALSE]
<1>1. flow' = [flow EXCEPT ![f] = new] /\ flow[f] \in FlowState
  BY DEF Found, OidcInv, OidcTypeOK
<1>2. /\ new \in FlowState /\ new.at = "look"
      /\ new.kind = flow[f].kind /\ new.matched = flow[f].matched
      /\ new.result = flow[f].result
  BY <1>1 DEF FlowState
<1>3. /\ Under(f) /\ ~Outside(f) /\ known' \in [Sub -> {"none", "active", "inactive"}]
      /\ flow[f].result = "nokey" => f \in orphaned
  BY DEF Under, Outside, OidcInv, OidcTypeOK, RefusalsAreJust
<1> HIDE DEF new
<1> QED  BY <1>1, <1>2, <1>3, InsideKept

LEMMA FindKeyKept ==
  ASSUME OidcInv, NEW f \in Flow, FindKey(f)
  PROVE  OidcInv'
<1>1. /\ Under(f) /\ ~Outside(f) /\ flow[f] \in FlowState /\ flow[f].at = "key"
      /\ flow[f].kid \in published \/ f \in orphaned
      /\ flow[f].result = "nokey" => f \in orphaned
  BY DEF FindKey, Is, Under, Outside, OidcInv, OidcTypeOK, KeyIsKnown, RefusalsAreJust
<1>2. /\ UNCHANGED <<jar, marks, orphaned, published, cached, known>>
      /\ cached' \subseteq Key /\ published \subseteq Key
      /\ known' \in [Sub -> {"none", "active", "inactive"}]
  BY DEF FindKey, keyVars, OidcInv, OidcTypeOK
<1>3. CASE Found(f)
  BY <1>1, <1>2, <1>3, FoundKept
<1>4. CASE Answer(f, "error")
  BY <1>1, <1>2, <1>4, EndKept
<1>5. CASE flow' = [flow EXCEPT ![f].forced = TRUE]
  <2> DEFINE new == [flow[f] EXCEPT !.forced = TRUE]
  <2>1. flow' = [flow EXCEPT ![f] = new]
    BY <1>5 DEF OidcInv, OidcTypeOK
  <2>2. /\ new \in FlowState /\ new.at = "key" /\ new.kid = flow[f].kid
        /\ new.kind = flow[f].kind /\ new.matched = flow[f].matched
        /\ new.result = flow[f].result
    BY <1>1 DEF FlowState
  <2> HIDE DEF new
  <2> QED  BY <1>1, <1>2, <2>1, <2>2, InsideKept
<1>6. CASE flow' = [flow EXCEPT ![f].at = "answer", ![f].fetched = published]
  <2> DEFINE new == [flow[f] EXCEPT !.at = "answer", !.fetched = published]
  <2>1. flow' = [flow EXCEPT ![f] = new]
    BY <1>6 DEF OidcInv, OidcTypeOK
  <2>2. /\ new \in FlowState /\ new.at = "answer" /\ new.kid = flow[f].kid
        /\ new.kind = flow[f].kind /\ new.matched = flow[f].matched
        /\ new.result = flow[f].result /\ new.fetched = published
    BY <1>1, <1>2 DEF FlowState
  <2> HIDE DEF new
  <2> QED  BY <1>1, <1>2, <2>1, <2>2, InsideKept
<1> QED  BY <1>3, <1>4, <1>5, <1>6 DEF FindKey, Missed

\* Only a key that was withdrawn is missed by the second search.
LEMMA KeysFetchedKept ==
  ASSUME OidcInv, NEW f \in Flow, KeysFetched(f)
  PROVE  OidcInv'
<1>1. /\ Under(f) /\ ~Outside(f) /\ flow[f] \in FlowState /\ flow[f].at = "answer"
      /\ flow[f].kid \in published \/ f \in orphaned
      /\ flow[f].kid \in flow[f].fetched \/ f \in orphaned
      /\ flow[f].result = "nokey" => f \in orphaned
  BY DEF KeysFetched, Is, Under, Outside, OidcInv, OidcTypeOK, KeyIsKnown, RefusalsAreJust
<1>2. /\ UNCHANGED <<jar, marks, orphaned, published, known>>
      /\ cached' \subseteq Key
      /\ known' \in [Sub -> {"none", "active", "inactive"}]
  BY <1>1 DEF KeysFetched, FlowState, OidcInv, OidcTypeOK
<1>3. CASE Found(f)
  BY <1>1, <1>2, <1>3, FoundKept
<1>4. CASE flow[f].kid \notin flow[f].fetched /\ Answer(f, "nokey")
  BY <1>1, <1>2, <1>4, EndKept
<1>5. CASE flow' = [flow EXCEPT ![f].at = "key", ![f].forced = TRUE, ![f].fetched = {}]
  <2> DEFINE new == [flow[f] EXCEPT !.at = "key", !.forced = TRUE, !.fetched = {}]
  <2>1. flow' = [flow EXCEPT ![f] = new]
    BY <1>5 DEF OidcInv, OidcTypeOK
  <2>2. /\ new \in FlowState /\ new.at = "key" /\ new.kid = flow[f].kid
        /\ new.kind = flow[f].kind /\ new.matched = flow[f].matched
        /\ new.result = flow[f].result
    BY <1>1 DEF FlowState
  <2> HIDE DEF new
  <2> QED  BY <1>1, <1>2, <2>1, <2>2, InsideKept
<1> QED  BY <1>3, <1>4, <1>5 DEF KeysFetched

\* The account is looked up and written, the token kept, the session issued.
LEMMA AccountKept ==
  ASSUME OidcInv, NEW f \in Flow,
         Look(f) \/ Upsert(f) \/ StoreIdToken(f) \/ IssueSession(f)
  PROVE  OidcInv'
<1>1. /\ Under(f) /\ ~Outside(f) /\ flow[f] \in FlowState
      /\ flow[f].result = "nokey" => f \in orphaned
  BY DEF Look, Upsert, StoreIdToken, IssueSession, Is, Under, Outside, OidcInv, OidcTypeOK,
         RefusalsAreJust
<1>2. /\ UNCHANGED <<jar, marks, orphaned, published>>
      /\ cached' \subseteq Key
  BY DEF Look, Upsert, StoreIdToken, IssueSession, keyVars, OidcInv, OidcTypeOK
<1>3. known' \in [Sub -> {"none", "active", "inactive"}]
  BY DEF Look, Upsert, StoreIdToken, IssueSession, OidcInv, OidcTypeOK
<1>4. CASE \E result \in {"error", "session"} : Answer(f, result) \/ Breaks(f)
  BY <1>1, <1>2, <1>3, <1>4, EndKept
<1>5. ASSUME NEW at \in {"upsert", "store", "issue"}, NEW isNew \in BOOLEAN,
             flow' = [flow EXCEPT ![f].at = at, ![f].new = isNew]
      PROVE  OidcInv'
  <2> DEFINE new == [flow[f] EXCEPT !.at = at, !.new = isNew]
  <2>1. flow' = [flow EXCEPT ![f] = new]
    BY <1>5 DEF OidcInv, OidcTypeOK
  <2>2. /\ new \in FlowState /\ new.at = at
        /\ new.kind = flow[f].kind /\ new.matched = flow[f].matched
        /\ new.result = flow[f].result
    BY <1>1, <1>5 DEF FlowState
  <2> HIDE DEF new
  <2> QED  BY <1>1, <1>2, <1>3, <2>1, <2>2, InsideKept
<1>6. CASE \E at \in {"store", "issue"} : flow' = [flow EXCEPT ![f].at = at]
  <2>1. PICK at \in {"store", "issue"} : flow' = [flow EXCEPT ![f].at = at]
    BY <1>6
  <2>2. flow' = [flow EXCEPT ![f].at = at, ![f].new = flow[f].new] /\ flow[f].new \in BOOLEAN
    BY <1>1, <2>1 DEF OidcInv, OidcTypeOK, FlowState
  <2> QED  BY <1>5, <2>2
<1>7. CASE Look(f)
  BY <1>4, <1>5, <1>7 DEF Look
<1>8. CASE Upsert(f)
  BY <1>4, <1>6, <1>8 DEF Upsert
<1>9. CASE StoreIdToken(f)
  BY <1>6, <1>9 DEF StoreIdToken
<1>10. CASE IssueSession(f)
  BY <1>4, <1>10 DEF IssueSession
<1> QED  BY <1>7, <1>8, <1>9, <1>10

\* A flow begins: it takes the cookie of its kind, and marks those it passes.
LEMMA AuthorizeKept ==
  ASSUME OidcInv, NEW f \in Flow, Authorize(f)
  PROVE  OidcInv'
<1>1. PICK k \in Kinds :
        /\ flow' = [flow EXCEPT ![f].at = "away", ![f].kind = k]
        /\ jar' = [jar EXCEPT ![k] = f]
        /\ overlapped' = overlapped \cup
             (IF {g \in Flow : Under(g) /\ flow[g].kind = k} = {} THEN {}
              ELSE {g \in Flow : Under(g) /\ flow[g].kind = k} \cup {f})
  BY DEF Authorize
<1>2. /\ flow[f] \in FlowState /\ flow[f].at = "unused" /\ f # NoFlow
      /\ UNCHANGED <<lapsed, orphaned, published, cached, known>>
  BY OidcAssumption DEF Authorize, Is, keyVars, OidcInv, OidcTypeOK
<1>3. /\ overlapped \subseteq overlapped' /\ overlapped' \subseteq Flow
      /\ \A g \in Flow : Under(g) /\ flow[g].kind = k => g \in overlapped' /\ f \in overlapped'
  BY <1>1 DEF OidcInv, OidcTypeOK
<1> DEFINE new == [flow[f] EXCEPT !.at = "away", !.kind = k]
<1>4. flow' = [flow EXCEPT ![f] = new]
  BY <1>1 DEF OidcInv, OidcTypeOK
<1>5. /\ new \in FlowState /\ new.at = "away" /\ new.kind = k
      /\ new.result = flow[f].result
  BY <1>2 DEF FlowState, Kinds
<1> HIDE DEF new
<1>6. flow'[f] = new /\ \A g \in Flow : g # f => flow'[g] = flow[g]
  BY <1>4 DEF OidcInv, OidcTypeOK
<1>7. jar'[k] = f /\ \A j \in Kinds : j # k => jar'[j] = jar[j]
  BY <1>1 DEF OidcInv, OidcTypeOK
<1>8. OidcTypeOK'
  <2>1. jar' \in [Kinds -> Flow \cup {NoFlow}]
    BY <1>1 DEF OidcInv, OidcTypeOK
  <2>2. flow' \in [Flow -> FlowState]
    BY <1>4, <1>5 DEF OidcInv, OidcTypeOK
  <2> QED  BY <1>2, <1>3, <2>1, <2>2 DEF OidcInv, OidcTypeOK
<1>9. CookiesAreOfKind'
  <2> SUFFICES ASSUME NEW j \in Kinds, jar'[j] # NoFlow
               PROVE  flow'[jar'[j]].kind = j /\ flow'[jar'[j]].at # "unused"
    BY DEF CookiesAreOfKind
  <2>1. CASE j = k
    BY <1>5, <1>6, <1>7, <2>1
  <2>2. CASE j # k
    <3>1. jar[j] \in Flow /\ flow[jar[j]].kind = j /\ flow[jar[j]].at # "unused"
      BY <1>7, <2>2 DEF OidcInv, OidcTypeOK, CookiesAreOfKind
    <3> QED  BY <1>2, <1>6, <1>7, <2>2, <3>1
  <2> QED  BY <2>1, <2>2
<1>10. CookieIsThere'
  <2> SUFFICES ASSUME NEW g \in Flow, Outside(g)', g \notin overlapped'
               PROVE  /\ jar'[flow'[g].kind] = g
                      /\ \A h \in Flow : h # g /\ Under(h)' /\ flow'[h].matched
                                           => flow'[h].kind # flow'[g].kind
    BY DEF CookieIsThere
  <2>1. CASE g = f
    BY <1>3, <1>5, <1>6, <1>7, <2>1 DEF Under
  <2>2. CASE g # f
    <3>1. /\ Outside(g) /\ g \notin overlapped /\ Under(g) /\ flow[g].kind # k
          /\ flow[g] \in FlowState
      BY <1>3, <1>6, <2>2 DEF Outside, Under, OidcInv, OidcTypeOK
    <3>2. /\ jar[flow[g].kind] = g /\ flow[g].kind \in Kinds
          /\ \A h \in Flow : h # g /\ Under(h) /\ flow[h].matched
                               => flow[h].kind # flow[g].kind
      BY <3>1 DEF OidcInv, CookieIsThere, FlowState
    <3> QED  BY <1>5, <1>6, <1>7, <2>2, <3>1, <3>2 DEF Under
  <2> QED  BY <2>1, <2>2
<1>11. KeyIsKnown'
  BY <1>2, <1>5, <1>6 DEF OidcInv, KeyIsKnown
<1>12. RefusalsAreJust'
  BY <1>2, <1>3, <1>5, <1>6 DEF OidcInv, RefusalsAreJust
<1> QED  BY <1>8, <1>9, <1>10, <1>11, <1>12 DEF OidcInv

\* A flow comes back, late or not.
LEMMA ReturnKept ==
  ASSUME OidcInv, NEW f \in Flow, Return(f) \/ Lapse(f)
  PROVE  OidcInv'
<1>1. CASE Return(f)
  <2>1. PICK s \in Sub, code \in BOOLEAN :
          flow' = [flow EXCEPT ![f].at = "back", ![f].sub = s, ![f].code = code]
    BY <1>1 DEF Return
  <2> DEFINE new == [flow[f] EXCEPT !.at = "back", !.sub = s, !.code = code]
  <2>2. /\ flow[f] \in FlowState /\ flow[f].at = "away"
        /\ UNCHANGED <<jar, lapsed, overlapped, orphaned, published, cached, known>>
        /\ flow' = [flow EXCEPT ![f] = new]
    BY <1>1, <2>1 DEF Return, Is, marks, keyVars, OidcInv, OidcTypeOK
  <2>3. /\ new \in FlowState /\ new.at = "back" /\ new.kind = flow[f].kind
        /\ new.result = flow[f].result /\ new.matched = flow[f].matched
    BY <2>2 DEF FlowState
  <2> HIDE DEF new
  <2>4. flow'[f] = new /\ \A g \in Flow : g # f => flow'[g] = flow[g]
    BY <2>2 DEF OidcInv, OidcTypeOK
  <2>5. OidcTypeOK'
    BY <2>2, <2>3 DEF OidcInv, OidcTypeOK
  <2>6. CookiesAreOfKind'
    BY <2>2, <2>3, <2>4 DEF OidcInv, OidcTypeOK, CookiesAreOfKind
  <2>7. CookieIsThere'
    BY <2>2, <2>3, <2>4 DEF OidcInv, CookieIsThere, Outside, Under
  <2>8. KeyIsKnown' /\ RefusalsAreJust'
    BY <2>2, <2>3, <2>4 DEF OidcInv, KeyIsKnown, RefusalsAreJust
  <2> QED  BY <2>5, <2>6, <2>7, <2>8 DEF OidcInv
<1>2. CASE Lapse(f)
  BY <1>2 DEF Lapse, keyVars, OidcInv, OidcTypeOK, CookiesAreOfKind, CookieIsThere, Outside,
     Under, KeyIsKnown, RefusalsAreJust
<1> QED  BY <1>1, <1>2

\* A callback without its cookie belongs to a flow that was passed, or is late.
LEMMA CallbackKept ==
  ASSUME OidcInv, NEW f \in Flow, Callback(f)
  PROVE  OidcInv'
<1>1. /\ flow[f] \in FlowState /\ flow[f].at = "back" /\ Outside(f)
      /\ UNCHANGED <<jar, lapsed, overlapped, orphaned, published, cached, known>>
      /\ flow[f].result = "nokey" => f \in orphaned
      /\ flow[f].result = "mismatch" => f \in overlapped \cup lapsed
  BY DEF Callback, Is, Outside, marks, keyVars, OidcInv, OidcTypeOK, RefusalsAreJust
<1>2. Matched(f) => jar[flow[f].kind] = f
  BY OidcAssumption DEF Matched, OidcInv, CookiesAreOfKind
<1>3. f \notin overlapped => Matched(f)
  <2>1. flow[f].kind \in Kinds
    BY <1>1 DEF FlowState
  <2> QED  BY <1>1, <2>1 DEF Matched, OidcInv, CookieIsThere
<1>4. ASSUME NEW new \in FlowState, flow' = [flow EXCEPT ![f] = new],
             new.at \in {"exchange", "end"}, new.kind = flow[f].kind,
             new.matched => Matched(f),
             new.result = "nokey" => flow[f].result = "nokey",
             new.result = "mismatch" => flow[f].result = "mismatch" \/ ~Verified(f)
      PROVE  OidcInv'
  <2>1. flow'[f] = new /\ \A g \in Flow : g # f => flow'[g] = flow[g]
    BY <1>4 DEF OidcInv, OidcTypeOK
  <2>2. OidcTypeOK'
    BY <1>1, <1>4 DEF OidcInv, OidcTypeOK
  <2>3. CookiesAreOfKind'
    BY <1>1, <1>4, <2>1 DEF OidcInv, OidcTypeOK, CookiesAreOfKind
  <2>4. CookieIsThere'
    <3> SUFFICES ASSUME NEW g \in Flow, Outside(g)', g \notin overlapped
                 PROVE  /\ jar[flow'[g].kind] = g
                        /\ \A h \in Flow : h # g /\ Under(h)' /\ flow'[h].matched
                                             => flow'[h].kind # flow'[g].kind
      BY <1>1 DEF CookieIsThere
    <3>1. g # f /\ Outside(g) /\ flow'[g] = flow[g]
      BY <1>4, <2>1 DEF Outside
    <3>2. /\ jar[flow[g].kind] = g
          /\ \A h \in Flow : h # g /\ Under(h) /\ flow[h].matched
                               => flow[h].kind # flow[g].kind
      BY <3>1 DEF OidcInv, CookieIsThere
    <3>3. new.matched => flow[f].kind # flow[g].kind
      BY <1>2, <1>4, <3>1, <3>2
    <3> QED  BY <1>4, <2>1, <3>1, <3>2, <3>3 DEF Under
  <2>5. KeyIsKnown'
    BY <1>1, <1>4, <2>1 DEF OidcInv, KeyIsKnown
  <2>6. RefusalsAreJust'
    <3>1. ~Verified(f) => f \in overlapped \cup lapsed
      BY <1>3 DEF Verified
    <3> QED  BY <1>1, <1>4, <2>1, <3>1 DEF OidcInv, RefusalsAreJust
  <2> QED  BY <2>2, <2>3, <2>4, <2>5, <2>6 DEF OidcInv
<1>5. ASSUME NEW matched \in {Matched(f), FALSE}, NEW result \in {"error", "mismatch"},
             result = "mismatch" => ~Verified(f),
             flow' = [flow EXCEPT ![f].at = "end", ![f].result = result, ![f].matched = matched]
      PROVE  OidcInv'
  <2> DEFINE new == [flow[f] EXCEPT !.at = "end", !.result = result, !.matched = matched]
  <2>1. flow' = [flow EXCEPT ![f] = new]
    BY <1>5 DEF OidcInv, OidcTypeOK
  <2>2. matched \in BOOLEAN /\ (matched => Matched(f))
    BY DEF Matched
  <2>3. /\ new \in FlowState /\ new.at = "end" /\ new.kind = flow[f].kind
        /\ new.matched = matched /\ new.result = result
    BY <1>1, <1>5, <2>2 DEF FlowState
  <2> HIDE DEF new
  <2> QED  BY <1>4, <1>5, <2>1, <2>2, <2>3
<1>6. CASE Verified(f) /\ flow[f].code
           /\ flow' = [flow EXCEPT ![f].at = "exchange", ![f].matched = TRUE]
  <2> DEFINE new == [flow[f] EXCEPT !.at = "exchange", !.matched = TRUE]
  <2>1. flow' = [flow EXCEPT ![f] = new]
    BY <1>6 DEF OidcInv, OidcTypeOK
  <2>2. /\ new \in FlowState /\ new.at = "exchange" /\ new.kind = flow[f].kind
        /\ new.result = flow[f].result
    BY <1>1 DEF FlowState
  <2>3. Matched(f)
    BY <1>6 DEF Verified
  <2> HIDE DEF new
  <2> QED  BY <1>4, <2>1, <2>2, <2>3
<1>7. CASE \E matched \in {Matched(f), FALSE} : flow' =
             [flow EXCEPT ![f].at = "end", ![f].result = "error", ![f].matched = matched]
  BY <1>5, <1>7
<1>8. CASE ~Verified(f) /\ flow' = [flow EXCEPT ![f].at = "end", ![f].result = "mismatch",
                                                ![f].matched = Matched(f)]
  BY <1>5, <1>8
<1>9. CASE /\ Verified(f)
           /\ flow' = [flow EXCEPT ![f].at = "end", ![f].result = "error", ![f].matched = TRUE]
  <2>1. Matched(f) = TRUE
    BY <1>9 DEF Verified, Matched
  <2> QED  BY <1>5, <1>9, <2>1
<1>10. CASE Verified(f) /\ flow' = [flow EXCEPT ![f] =
             IF @.code THEN [@ EXCEPT !.at = "exchange", !.matched = TRUE]
             ELSE [@ EXCEPT !.at = "end", !.result = "error", !.matched = TRUE]]
  BY <1>6, <1>9, <1>10 DEF OidcInv, OidcTypeOK
<1> QED  BY <1>7, <1>8, <1>10 DEF Callback

\* An answer deletes the cookie that was matched, which nobody else waits for.
LEMMA RespondKept ==
  ASSUME OidcInv, NEW f \in Flow, Respond(f)
  PROVE  OidcInv'
<1> DEFINE new == [flow[f] EXCEPT !.at = "done", !.matched = FALSE]
<1>1. /\ flow[f] \in FlowState /\ flow[f].at = "end"
      /\ UNCHANGED <<lapsed, overlapped, orphaned, published, cached, known>>
      /\ flow' = [flow EXCEPT ![f] = new]
  BY DEF Respond, Is, marks, keyVars, OidcInv, OidcTypeOK
<1>2. /\ new \in FlowState /\ new.at = "done" /\ new.result = flow[f].result
      /\ new.kind = flow[f].kind
  BY <1>1 DEF FlowState
<1> HIDE DEF new
<1>3. flow'[f] = new /\ \A g \in Flow : g # f => flow'[g] = flow[g]
  BY <1>1 DEF OidcInv, OidcTypeOK
<1>4. /\ jar' \in [Kinds -> Flow \cup {NoFlow}]
      /\ \A k \in Kinds : jar'[k] \in {NoFlow, jar[k]}
      /\ \A k \in Kinds : jar'[k] # jar[k] => flow[f].matched /\ k = flow[f].kind
  BY DEF Respond, Deleted, OidcInv, OidcTypeOK
<1>5. OidcTypeOK'
  BY <1>1, <1>2, <1>4 DEF OidcInv, OidcTypeOK
<1>6. CookiesAreOfKind'
  BY <1>1, <1>2, <1>3, <1>4 DEF OidcInv, OidcTypeOK, CookiesAreOfKind
<1>7. CookieIsThere'
  <2> SUFFICES ASSUME NEW g \in Flow, Outside(g)', g \notin overlapped
               PROVE  /\ jar'[flow'[g].kind] = g
                      /\ \A h \in Flow : h # g /\ Under(h)' /\ flow'[h].matched
                                           => flow'[h].kind # flow'[g].kind
    BY <1>1 DEF CookieIsThere
  <2>1. g # f /\ Outside(g) /\ flow'[g] = flow[g] /\ flow[g].kind \in Kinds
    BY <1>2, <1>3 DEF Outside, OidcInv, OidcTypeOK, FlowState
  <2>2. /\ jar[flow[g].kind] = g
        /\ \A h \in Flow : h # g /\ Under(h) /\ flow[h].matched
                             => flow[h].kind # flow[g].kind
    BY <2>1 DEF OidcInv, CookieIsThere
  <2>3. Under(f)
    BY <1>1 DEF Under
  <2> QED  BY <1>2, <1>3, <1>4, <2>1, <2>2, <2>3 DEF Under
<1>8. KeyIsKnown' /\ RefusalsAreJust'
  BY <1>1, <1>2, <1>3 DEF OidcInv, KeyIsKnown, RefusalsAreJust
<1> QED  BY <1>5, <1>6, <1>7, <1>8 DEF OidcInv

\* A flow that comes again is one that came twice.
LEMMA ReloadKept ==
  ASSUME OidcInv, NEW f \in Flow, Reload(f)
  PROVE  OidcInv'
<1> DEFINE new == [flow[f] EXCEPT !.at = "back", !.matched = FALSE, !.result = "none"]
<1>1. /\ flow[f] \in FlowState /\ flow[f].at = "done"
      /\ UNCHANGED <<jar, lapsed, orphaned, published, cached, known>>
      /\ flow' = [flow EXCEPT ![f] = new] /\ overlapped' = overlapped \cup {f}
  BY DEF Reload, Is, keyVars, OidcInv, OidcTypeOK
<1>2. /\ new \in FlowState /\ new.at = "back" /\ new.result = "none"
      /\ new.kind = flow[f].kind /\ ~new.matched
  BY <1>1 DEF FlowState
<1> HIDE DEF new
<1>3. flow'[f] = new /\ \A g \in Flow : g # f => flow'[g] = flow[g]
  BY <1>1 DEF OidcInv, OidcTypeOK
<1>4. OidcTypeOK'
  BY <1>1, <1>2 DEF OidcInv, OidcTypeOK
<1>5. CookiesAreOfKind'
  BY <1>1, <1>2, <1>3 DEF OidcInv, OidcTypeOK, CookiesAreOfKind
<1>6. CookieIsThere'
  BY <1>1, <1>2, <1>3 DEF OidcInv, CookieIsThere, Outside, Under
<1>7. KeyIsKnown' /\ RefusalsAreJust'
  BY <1>1, <1>2, <1>3 DEF OidcInv, KeyIsKnown, RefusalsAreJust
<1> QED  BY <1>4, <1>5, <1>6, <1>7 DEF OidcInv

\* A key that is withdrawn marks the flows that seek it.
LEMMA AroundKept ==
  ASSUME OidcInv, BackchannelLogout \/ SetEligible \/ Rotate \/ CacheLapses
  PROVE  OidcInv'
<1>1. UNCHANGED <<jar, flow, lapsed, overlapped>>
  BY DEF BackchannelLogout, SetEligible, Rotate, CacheLapses, marks
<1>2. /\ orphaned \subseteq orphaned' /\ orphaned' \subseteq Flow
      /\ \A f \in Flow : flow[f].kid \in published => flow[f].kid \in published' \/ f \in orphaned'
      /\ published' \subseteq Key /\ cached' \subseteq Key
  BY DEF BackchannelLogout, SetEligible, Rotate, CacheLapses, keyVars, OidcInv, OidcTypeOK
<1>3. known' \in [Sub -> {"none", "active", "inactive"}]
  BY DEF BackchannelLogout, SetEligible, Rotate, CacheLapses, OidcInv, OidcTypeOK
<1>4. OidcTypeOK'
  BY <1>1, <1>2, <1>3 DEF OidcInv, OidcTypeOK
<1>5. CookiesAreOfKind' /\ CookieIsThere'
  BY <1>1 DEF OidcInv, CookiesAreOfKind, CookieIsThere, Outside, Under
<1>6. KeyIsKnown' /\ RefusalsAreJust'
  BY <1>1, <1>2 DEF OidcInv, KeyIsKnown, RefusalsAreJust
<1> QED  BY <1>4, <1>5, <1>6 DEF OidcInv

LEMMA OidcKept == OidcInv /\ [OidcNext]_oidcVars => OidcInv'
<1> SUFFICES ASSUME OidcInv, [OidcNext]_oidcVars PROVE OidcInv'
  OBVIOUS
<1>1. CASE UNCHANGED oidcVars
  BY <1>1 DEF oidcVars, marks, keyVars, OidcInv, OidcTypeOK, CookiesAreOfKind, CookieIsThere,
     Outside, Under, KeyIsKnown, RefusalsAreJust
<1>2. ASSUME NEW f \in Flow, OidcStep(f) PROVE OidcInv'
  BY <1>2, AuthorizeKept, ReturnKept, CallbackKept, RespondKept, ReloadKept, ExchangeKept,
     FindKeyKept, KeysFetchedKept, AccountKept DEF OidcStep
<1> QED  BY <1>1, <1>2, AroundKept DEF OidcNext

\* For any number of flows, subjects and keys: no login is refused for its state
\* but beside another of its kind, late or twice, and none for its key while the
\* provider publishes it (select_cookie, _signing_key).
THEOREM RefusalsJust == OidcSpec => []RefusalsAreJust
<1>1. OidcInit => OidcInv
  <2> SUFFICES ASSUME OidcInit PROVE OidcInv
    OBVIOUS
  <2>1. Fresh \in FlowState /\ Fresh.at = "unused" /\ Fresh.result = "none"
    BY OidcAssumption DEF Fresh, FlowState, Kinds
  <2>2. \A f \in Flow : flow[f] = Fresh
    BY DEF OidcInit
  <2>3. OidcTypeOK
    BY <2>1 DEF OidcInit, OidcTypeOK
  <2> QED  BY <2>1, <2>2, <2>3 DEF OidcInit, OidcInv, CookiesAreOfKind, CookieIsThere, Outside,
             KeyIsKnown, RefusalsAreJust
<1>2. OidcInv => RefusalsAreJust
  BY DEF OidcInv
<1> QED  BY <1>1, <1>2, OidcKept, PTL DEF OidcSpec

-----------------------------------------------------------------------------
(* DirectorySync: pages of one snapshot *)

\* The users read so far are those of the first pages of the snapshot.
Begins(users, s) ==
  Len(users) <= Len(s) /\ \A i \in 1 .. Len(users) : users[i] = s[i]

\* While all answers were authoritative, one page after another came from the
\* snapshot that the first one named.
ReadsOneSnapshot ==
  reader.pc = "read" =>
    /\ reader.page \in Nat \ {0}
    /\ reader.page = 1 => reader.users = <<>> /\ reader.pin = 0
    /\ reader.page > 1 => reader.pin \in 1 .. Len(history)
    /\ reader.page > 1 /\ reader.authoritative =>
         /\ reader.total = Len(history[reader.pin]) /\ reader.page <= reader.total
         /\ Len(reader.users) = reader.page - 1
         /\ Begins(reader.users, history[reader.pin])

\* And so has read it as a whole at the end.
ProjectsOneSnapshot ==
  reader.pc = "project" =>
    /\ reader.pin \in 1 .. Len(history)
    /\ reader.authoritative => Listed(reader.users) = Listed(history[reader.pin])

DirectoryInv ==
  /\ DirectoryTypeOK
  /\ ReadsOneSnapshot /\ ProjectsOneSnapshot
  /\ projected.of \in 0 .. Len(history)
  /\ ProjectionIsOneSnapshot

LEMMA ListingSeq ==
  ASSUME NEW s \in Listing
  PROVE  s \in Seq(Ref) /\ Len(s) \in Nat /\ DOMAIN s = 1 .. Len(s)
<1>1. PICK n \in Nat : s \in [1 .. n -> Ref]
  BY DEF Listing
<1> QED  BY <1>1

\* One more page.
LEMMA NextPage ==
  ASSUME NEW users \in Seq(Ref), NEW s \in Seq(Ref), Begins(users, s), Len(users) < Len(s)
  PROVE  LET more == users \o <<s[Len(users) + 1]>> IN
         more \in Seq(Ref) /\ Len(more) = Len(users) + 1 /\ Begins(more, s)
<1> DEFINE x == s[Len(users) + 1]
           more == users \o <<x>>
<1>1. x \in Ref /\ <<x>> \in Seq(Ref) /\ Len(<<x>>) = 1
  OBVIOUS
<1>2. more \in Seq(Ref) /\ Len(more) = Len(users) + 1
  BY <1>1
<1>3. /\ \A i \in 1 .. Len(users) : more[i] = users[i]
      /\ more[Len(users) + 1] = x
  BY <1>1
<1> HIDE DEF more
<1>4. Begins(more, s)
  BY <1>2, <1>3 DEF Begins
<1> QED  BY <1>2, <1>4 DEF more

\* A sequence that begins another, and is as long, lists the same.
LEMMA WholeIsListed ==
  ASSUME NEW users \in Listing, NEW s \in Listing, Begins(users, s), Len(users) = Len(s)
  PROVE  Listed(users) = Listed(s)
BY ListingSeq DEF Begins, Listed

\* What an answer says of itself is true.
LEMMA AnswerIsTrue ==
  ASSUME DirectoryInv, reader.pc = "read", NEW answer \in Answers(reader.page, reader.pin)
  PROVE  /\ answer.id \in 1 .. Len(history)
         /\ answer.total \in Nat /\ answer.authoritative \in BOOLEAN
         /\ answer.authoritative =>
              /\ answer.total = Len(history[answer.id])
              /\ answer.data = IF reader.page <= answer.total
                               THEN <<history[answer.id][reader.page]>> ELSE <<>>
<1> DEFINE current == Len(history)
           asked == IF reader.pin = 0 THEN current ELSE reader.pin
<1>1. current \in Nat /\ current >= 1 /\ \A i \in 1 .. current : Len(history[i]) \in Nat
  <2>1. history \in Seq(Listing) /\ Len(history) \in 1 .. MaxSnapshot
    BY DEF DirectoryInv, DirectoryTypeOK
  <2>2. \A i \in 1 .. Len(history) : history[i] \in Listing
    BY <2>1
  <2> QED  BY <2>1, <2>2, ListingSeq
<1>2. asked \in 1 .. current
  BY <1>1 DEF DirectoryInv, ReadsOneSnapshot
<1>3. PICK id \in {asked, current}, s \in {history[asked], history[current]}, a \in BOOLEAN :
        /\ answer = PageOf(s, reader.page, id, a)
        /\ a => s = history[id]
  <2> HIDE DEF asked
  <2>1. CASE \E a \in BOOLEAN : answer = PageOf(history[asked], reader.page, asked, a)
    BY <2>1
  <2>2. CASE \E a \in BOOLEAN : answer = PageOf(history[current], reader.page, current, a)
    BY <2>2
  <2>3. CASE answer = PageOf(history[current], reader.page, asked, FALSE)
    BY <2>3
  <2> QED  BY <2>1, <2>2, <2>3 DEF Answers, asked
<1>4. answer.id = id /\ answer.total = Len(s) /\ answer.authoritative = a
      /\ answer.data = IF reader.page <= Len(s) THEN <<s[reader.page]>> ELSE <<>>
  BY <1>3 DEF PageOf
<1> QED  BY <1>1, <1>2, <1>3, <1>4

\* A page that fits goes with those before it.
LEMMA ReadPageKept ==
  ASSUME DirectoryInv, ReadPage
  PROVE  DirectoryInv'
<1> DEFINE start == reader.page = 1
<1>1. PICK answer \in Answers(reader.page, reader.pin) :
        LET users == reader.users \o answer.data
            last  == reader.page >= (IF start THEN answer.total ELSE reader.total)
            fits  == /\ SamePin(reader, answer)
                     /\ users \in Listing
                     /\ last => Len(users) = answer.total
        IN  reader' = IF ~fits THEN NoRead
              ELSE [reader EXCEPT
                     !.pc = IF last THEN "project" ELSE "read",
                     !.page = IF last THEN @ ELSE @ + 1,
                     !.pin = IF start THEN answer.id ELSE @,
                     !.total = IF start THEN answer.total ELSE @,
                     !.authoritative = Conjoined(reader, answer),
                     !.users = users]
  BY DEF ReadPage
<1>2. reader.pc = "read" /\ UNCHANGED <<history, projected>>
  BY DEF ReadPage
<1> DEFINE users == reader.users \o answer.data
           last  == reader.page >= (IF start THEN answer.total ELSE reader.total)
           new   == [reader EXCEPT
                      !.pc = IF last THEN "project" ELSE "read",
                      !.page = IF last THEN @ ELSE @ + 1,
                      !.pin = IF start THEN answer.id ELSE @,
                      !.total = IF start THEN answer.total ELSE @,
                      !.authoritative = Conjoined(reader, answer),
                      !.users = users]
<1>3. CASE reader' = NoRead
  BY <1>2, <1>3 DEF DirectoryInv, DirectoryTypeOK, ReadsOneSnapshot, ProjectsOneSnapshot,
     ProjectionIsOneSnapshot, NoRead
<1>4. CASE /\ reader' = new
           /\ SamePin(reader, answer) /\ users \in Listing
           /\ last => Len(users) = answer.total
  <2>1. /\ answer.id \in 1 .. Len(history)
        /\ answer.total \in Nat /\ answer.authoritative \in BOOLEAN
        /\ answer.authoritative =>
             /\ answer.total = Len(history[answer.id])
             /\ answer.data = IF reader.page <= answer.total
                              THEN <<history[answer.id][reader.page]>> ELSE <<>>
    BY <1>2, AnswerIsTrue
  <2>2. /\ reader \in Readers /\ reader.page \in Nat \ {0}
        /\ reader.authoritative \in BOOLEAN /\ reader.total \in Nat /\ reader.pin \in Nat
        /\ reader.users \in Listing
    BY <1>2 DEF DirectoryInv, DirectoryTypeOK, ReadsOneSnapshot, NoRead, Readers
  <2>3. /\ new \in Readers
        /\ new.pc = (IF last THEN "project" ELSE "read")
        /\ new.page = (IF last THEN reader.page ELSE reader.page + 1)
        /\ new.pin = answer.id
        /\ new.total = answer.total
        /\ new.authoritative = (reader.authoritative /\ answer.authoritative)
        /\ new.users = users
        /\ last <=> reader.page >= answer.total
    <3>1. /\ ~start => answer.id = reader.pin /\ answer.total = reader.total
      BY <1>4 DEF SamePin
    <3>2. Conjoined(reader, answer) = (reader.authoritative /\ answer.authoritative)
      BY DEF Conjoined
    <3>3. DOMAIN reader = {"pc", "restarts", "page", "pin", "total", "authoritative", "users"}
      BY <2>2 DEF Readers
    <3>4. last \in BOOLEAN /\ answer.id \in Nat /\ Conjoined(reader, answer) \in BOOLEAN
      BY <2>1, <2>2, <3>2
    <3> HIDE DEF users, last
    <3>5. /\ new.pc = (IF last THEN "project" ELSE "read")
          /\ new.page = (IF last THEN reader.page ELSE reader.page + 1)
          /\ new.pin = (IF start THEN answer.id ELSE reader.pin)
          /\ new.total = (IF start THEN answer.total ELSE reader.total)
          /\ new.authoritative = Conjoined(reader, answer)
          /\ new.users = users
      BY <3>3
    <3>6. new \in Readers
      <4> DEFINE pc == IF last THEN "project" ELSE "read"
                 page == IF last THEN reader.page ELSE reader.page + 1
                 pin == IF start THEN answer.id ELSE reader.pin
                 total == IF start THEN answer.total ELSE reader.total
      <4>1. /\ pc \in {"read", "project"} /\ page \in Nat /\ pin \in Nat /\ total \in Nat
            /\ users \in Listing /\ Conjoined(reader, answer) \in BOOLEAN
        BY <1>4, <2>1, <2>2, <3>4
      <4>2. new = [reader EXCEPT !.pc = pc, !.page = page, !.pin = pin, !.total = total,
                                 !.authoritative = Conjoined(reader, answer), !.users = users]
        OBVIOUS
      <4> HIDE DEF pc, page, pin, total, new
      <4> QED  BY <2>2, <4>1, <4>2 DEF Readers
    <3>7. last <=> reader.page >= answer.total
      BY <3>1 DEF last
    <3> QED  BY <3>1, <3>2, <3>5, <3>6, <3>7
  <2> HIDE DEF new
  <2>4. \A i \in 1 .. Len(history) :
          history[i] \in Listing /\ history[i] \in Seq(Ref) /\ Len(history[i]) \in Nat
    BY ListingSeq DEF DirectoryInv, DirectoryTypeOK
  <2>5. reader.users \in Seq(Ref) /\ Len(reader.users) \in Nat
    BY <2>2, ListingSeq
  \* While the answers are authoritative, this page goes on with the others.
  <2>6. ASSUME new.authoritative
        PROVE  /\ answer.total = Len(history[answer.id])
               /\ Begins(reader.users, history[answer.id])
               /\ Len(reader.users) = reader.page - 1
               /\ ~start => reader.page <= answer.total
    <3>1. answer.total = Len(history[answer.id]) /\ reader.authoritative
      BY <2>1, <2>3, <2>6
    <3>2. CASE start
      <4>1. reader.users = <<>>
        BY <1>2, <3>2 DEF DirectoryInv, ReadsOneSnapshot
      <4> QED  BY <2>1, <2>4, <3>1, <3>2, <4>1 DEF Begins
    <3>3. CASE ~start
      <4>1. answer.id = reader.pin /\ answer.total = reader.total
        BY <1>4, <3>3 DEF SamePin
      <4> QED  BY <1>2, <2>2, <3>1, <3>3, <4>1 DEF DirectoryInv, ReadsOneSnapshot
    <3> QED  BY <3>2, <3>3, <3>1
  <2>7. ASSUME new.authoritative, reader.page <= answer.total
        PROVE  Len(users) = reader.page /\ Begins(users, history[answer.id])
    <3>1. answer.data = <<history[answer.id][Len(reader.users) + 1]>>
      BY <2>1, <2>2, <2>3, <2>6, <2>7, SMTT(30)
    <3>2. Len(reader.users) < Len(history[answer.id])
      BY <2>1, <2>2, <2>4, <2>6, <2>7
    <3> QED  BY <2>1, <2>2, <2>4, <2>5, <2>6, <2>7, <3>1, <3>2, NextPage, SMTT(30)
  <2>8. ASSUME new.authoritative, ~(reader.page <= answer.total)
        PROVE  users = <<>> /\ answer.total = 0
    <3>1. start /\ answer.total = 0
      BY <2>1, <2>2, <2>6, <2>8
    <3>2. reader.users = <<>> /\ answer.data = <<>>
      BY <1>2, <2>1, <2>3, <2>8, <3>1 DEF DirectoryInv, ReadsOneSnapshot
    <3> QED  BY <3>1, <3>2
  <2>9. ReadsOneSnapshot'
    <3> SUFFICES ASSUME new.pc = "read" PROVE
          /\ new.page \in Nat \ {0} /\ new.page > 1
          /\ new.pin \in 1 .. Len(history)
          /\ new.authoritative =>
               /\ new.total = Len(history[new.pin]) /\ new.page <= new.total
               /\ Len(new.users) = new.page - 1
               /\ Begins(new.users, history[new.pin])
      BY <1>2, <1>4 DEF ReadsOneSnapshot
    <3>1. ~last /\ new.page = reader.page + 1 /\ reader.page < answer.total
      BY <2>1, <2>2, <2>3
    <3>2. new.page \in Nat \ {0} /\ new.page > 1 /\ new.page <= answer.total
      BY <2>1, <2>2, <3>1
    <3>3. ASSUME new.authoritative
          PROVE  /\ new.total = Len(history[new.pin])
                 /\ Len(new.users) = new.page - 1
                 /\ Begins(new.users, history[new.pin])
      <4>1. reader.page <= answer.total
        BY <2>1, <2>2, <3>1
      <4>2. Len(users) = reader.page /\ Begins(users, history[answer.id])
        BY <2>7, <3>3, <4>1
      <4>3. answer.total = Len(history[answer.id])
        BY <2>6, <3>3
      <4> HIDE DEF users, last
      <4> QED  BY <2>2, <2>3, <3>1, <4>2, <4>3
    <3> QED  BY <2>1, <2>3, <3>2, <3>3
  <2>10. ProjectsOneSnapshot'
    <3> SUFFICES ASSUME new.pc = "project" PROVE
          /\ new.pin \in 1 .. Len(history)
          /\ new.authoritative => Listed(new.users) = Listed(history[new.pin])
      BY <1>2, <1>4 DEF ProjectsOneSnapshot
    <3>1. last /\ Len(users) = answer.total
      BY <1>4, <2>3
    <3>2. ASSUME new.authoritative PROVE Listed(users) = Listed(history[answer.id])
      <4>1. Begins(users, history[answer.id])
        <5>1. CASE reader.page <= answer.total
          BY <2>7, <3>2, <5>1
        <5>2. CASE ~(reader.page <= answer.total)
          <6>1. users = <<>> /\ Len(history[answer.id]) = 0
            BY <2>6, <2>8, <3>2, <5>2
          <6> HIDE DEF users
          <6> QED  BY <6>1 DEF Begins
        <5> QED  BY <5>1, <5>2
      <4> QED  BY <1>4, <2>1, <2>4, <2>6, <3>1, <3>2, <4>1, WholeIsListed
    <3> QED  BY <2>1, <2>3, <3>2
  <2> QED  BY <1>2, <1>4, <2>3, <2>9, <2>10
           DEF DirectoryInv, DirectoryTypeOK, ProjectionIsOneSnapshot
<1> QED  BY <1>1, <1>3, <1>4

\* The history of the directory only grows.
LEMMA SnapshotKept ==
  ASSUME DirectoryInv, Snapshot
  PROVE  DirectoryInv'
<1>1. PICK s \in Listing : history' = Append(history, s)
  BY DEF Snapshot
<1>2. Len(history) < MaxSnapshot /\ UNCHANGED <<reader, projected>>
  BY DEF Snapshot
<1>3. history \in Seq(Listing) /\ Len(history) \in 1 .. MaxSnapshot /\ MaxSnapshot \in Nat
  BY DirectoryAssumption DEF DirectoryInv, DirectoryTypeOK
<1>4. /\ history' \in Seq(Listing) /\ Len(history') = Len(history) + 1
      /\ \A i \in 1 .. Len(history) : history'[i] = history[i]
  BY <1>1, <1>3
<1>5. DirectoryTypeOK'
  BY <1>2, <1>3, <1>4 DEF DirectoryInv, DirectoryTypeOK
<1>6. ReadsOneSnapshot' /\ ProjectsOneSnapshot'
  BY <1>2, <1>3, <1>4 DEF DirectoryInv, ReadsOneSnapshot, ProjectsOneSnapshot
<1>7. projected'.of \in 0 .. Len(history') /\ ProjectionIsOneSnapshot'
  BY <1>2, <1>3, <1>4 DEF DirectoryInv, ProjectionIsOneSnapshot
<1> QED  BY <1>5, <1>6, <1>7 DEF DirectoryInv

LEMMA DirectoryKept == DirectoryInv /\ [DirectoryNext]_directoryVars => DirectoryInv'
<1> SUFFICES ASSUME DirectoryInv, [DirectoryNext]_directoryVars PROVE DirectoryInv'
  OBVIOUS
\* A read that begins, or begins again, has nothing; one that is over has nothing.
<1>1. ASSUME UNCHANGED <<history, projected>>,
             \/ reader' = NoRead
             \/ \E n \in 0 .. MaxRestarts : reader' = Reading(n)
      PROVE  DirectoryInv'
  <2>1. \A n \in 0 .. MaxRestarts : Reading(n) \in Readers
    <3>1. <<>> \in Listing
      <4>1. Cardinality(Ref) \in Nat
        BY DirectoryAssumption, FS_CardinalityType
      <4>2. <<>> \in [1 .. 0 -> Ref] /\ 0 \in 0 .. Cardinality(Ref)
        BY <4>1
      <4> QED  BY <4>2 DEF Listing
    <3> QED  BY <3>1 DEF Reading, Readers
  <2>2. CASE reader' = NoRead
    BY <1>1, <2>2 DEF DirectoryInv, DirectoryTypeOK, ReadsOneSnapshot, ProjectsOneSnapshot,
       ProjectionIsOneSnapshot, NoRead
  <2>3. CASE \E n \in 0 .. MaxRestarts : reader' = Reading(n)
    <3>1. PICK n \in 0 .. MaxRestarts : reader' = Reading(n)
      BY <2>3
    <3>2. /\ reader' \in Readers /\ reader'.pc = "read" /\ reader'.page = 1
          /\ reader'.users = <<>> /\ reader'.pin = 0
      BY <2>1, <3>1 DEF Reading
    <3> QED  BY <1>1, <3>2 DEF DirectoryInv, DirectoryTypeOK, ReadsOneSnapshot,
                ProjectsOneSnapshot, ProjectionIsOneSnapshot
  <2> QED  BY <1>1, <2>2, <2>3
<1>2. CASE Snapshot
  BY <1>2, SnapshotKept
<1>3. CASE StartSync
  BY <1>1, <1>3, DirectoryAssumption DEF StartSync
<1>4. CASE ReadPage
  BY <1>4, ReadPageKept
<1>5. CASE Drift
  <2>1. reader.restarts \in 0 .. MaxRestarts
    BY <1>5 DEF Drift, DirectoryInv, DirectoryTypeOK, NoRead, Readers
  <2>2. reader.restarts < MaxRestarts => reader.restarts + 1 \in 0 .. MaxRestarts
    BY <2>1, DirectoryAssumption
  <2> QED  BY <1>1, <1>5, <2>2 DEF Drift
<1>6. CASE FailSync
  BY <1>1, <1>6 DEF FailSync
<1>7. CASE Project
  <2>1. UNCHANGED history /\ reader' = NoRead /\ reader.pc = "project"
    BY <1>7 DEF Project
  <2>2. CASE ~reader.authoritative
    BY <1>1, <1>7, <2>1, <2>2 DEF Project
  <2>3. CASE reader.authoritative
    <3>1. projected' = [known  |-> projected.known \cup Listed(reader.users),
                        active |-> Listed(reader.users),
                        of     |-> reader.pin]
      BY <1>7, <2>3 DEF Project
    <3>2. /\ reader.pin \in 1 .. Len(history)
          /\ Listed(reader.users) = Listed(history[reader.pin])
      BY <2>1, <2>3 DEF DirectoryInv, ProjectsOneSnapshot
    <3>3. Listed(reader.users) \subseteq Ref
      <4>1. reader.users \in Listing
        BY <2>1 DEF DirectoryInv, DirectoryTypeOK, NoRead, Readers
      <4> QED  BY <4>1, ListingSeq DEF Listed
    <3>4. ProjectionIsOneSnapshot'
      BY <2>1, <3>1, <3>2 DEF ProjectionIsOneSnapshot
    <3>5. projected' \in [known : SUBSET Ref, active : SUBSET Ref, of : 0 .. MaxSnapshot]
      BY <3>1, <3>2, <3>3, DirectoryAssumption DEF DirectoryInv, DirectoryTypeOK
    <3> QED  BY <2>1, <3>1, <3>2, <3>4, <3>5
             DEF DirectoryInv, DirectoryTypeOK, ReadsOneSnapshot, ProjectsOneSnapshot, NoRead
  <2> QED  BY <2>2, <2>3
<1>8. CASE UNCHANGED directoryVars
  BY <1>8 DEF directoryVars, DirectoryInv, DirectoryTypeOK, ReadsOneSnapshot,
     ProjectsOneSnapshot, ProjectionIsOneSnapshot
<1> QED  BY <1>2, <1>3, <1>4, <1>5, <1>6, <1>7, <1>8 DEF DirectoryNext

LEMMA DirectoryBegins == DirectoryInit => DirectoryInv
<1> SUFFICES ASSUME DirectoryInit PROVE DirectoryInv
  OBVIOUS
<1>1. history \in Seq(Listing) /\ Len(history) = 1
  <2>1. history \in [1 .. 1 -> Listing]
    BY DEF DirectoryInit
  <2>2. \E n \in Nat : history \in [1 .. n -> Listing]
    BY <2>1
  <2> QED  BY <2>1, <2>2
<1> QED  BY <1>1, DirectoryAssumption
         DEF DirectoryInit, DirectoryInv, DirectoryTypeOK, ReadsOneSnapshot,
             ProjectsOneSnapshot, ProjectionIsOneSnapshot, NoRead

\* The active users of the host are those of one snapshot of the directory, however it
\* moves on while its pages are read (read_full_snapshot, run_directory_sync).
THEOREM ProjectionsAreSnapshots == DirectorySpec => []ProjectionIsOneSnapshot
<1>1. DirectoryInv => ProjectionIsOneSnapshot
  BY DEF DirectoryInv
<1> QED  BY <1>1, DirectoryBegins, DirectoryKept, PTL DEF DirectorySpec

-----------------------------------------------------------------------------
(* SignedMessages: the bound on the reuse of a message for every lifetime, skew and
   window that the host may be built with *)


\* When it was accepted first, the message was acceptable, and that is past.
FirstWasAccepted ==
  first # Never => /\ first \in 0 .. clock
                   /\ Accepted(message, first)

SInv ==
  /\ message \in Message
  /\ clock \in Time
  /\ FirstWasAccepted

\* A message that is acceptable at two times is so within its bound: for a
\* principal the first is not before iat - Skew and the last before exp; for
\* a delivery both are within a window of the same time.
LEMMA TwiceAccepted ==
  ASSUME NEW m \in Message, NEW a \in Nat, NEW b \in Nat, Accepted(m, a), Accepted(m, b)
  PROVE  b - a <= Reuse(m)
<1>1. CASE m.kind = "principal"
  <2>1. InTime(m, a) /\ InTime(m, b)
    BY <1>1 DEF Accepted
  <2>2. m.iat \in Nat /\ m.exp \in Nat
    BY <1>1, TimesAssumption DEF Message, Principal, Delivery, Time
  <2>3. b <= m.exp - 1 /\ m.exp <= m.iat + Lifetime /\ m.iat <= a + Skew
    BY <2>1, <2>2, TimesAssumption DEF InTime
  <2> QED  BY <1>1, <2>2, <2>3, TimesAssumption DEF Reuse
<1>2. CASE m.kind = "webhook"
  <2>1. InWindow(m, a) /\ InWindow(m, b)
    BY <1>2 DEF Accepted
  <2>2. m.at \in Nat
    BY <1>2, TimesAssumption DEF Message, Principal, Delivery, Time
  <2> QED  BY <1>2, <2>1, <2>2, TimesAssumption DEF Reuse, InWindow
<1>3. m.kind = "principal" \/ m.kind = "webhook"
  BY DEF Accepted
<1> QED  BY <1>1, <1>2, <1>3

\* Time passes over a message that was accepted; the first acceptance is kept.
LEMMA FirstIsKept == SInv /\ [SignedNext]_signedVars => SInv'
<1> SUFFICES ASSUME SInv, [SignedNext]_signedVars PROVE SInv'
  OBVIOUS
<1> USE TimesAssumption DEF SInv, FirstWasAccepted
<1>1. CASE Tick
  BY <1>1 DEF Tick, Time
<1>2. CASE Receive
  BY <1>2 DEF Receive, Time
<1>3. CASE UNCHANGED signedVars
  BY <1>3 DEF signedVars
<1> QED  BY <1>1, <1>2, <1>3 DEF SignedNext

\* The rules of _require_freshness and _validate_timestamp on single times add
\* up to a bound on the reuse of any message, for all values of the constants.
THEOREM ReuseBounded == SignedSpec => []ReuseIsBounded
<1>1. SignedInit => SInv
  BY TimesAssumption DEF SignedInit, SInv, FirstWasAccepted, Time
<1>2. SInv => ReuseIsBounded
  <2> SUFFICES ASSUME SInv, first # Never, Accepted(message, clock)
               PROVE  clock - first <= Reuse(message)
    BY DEF ReuseIsBounded
  <2>1. first \in Nat /\ clock \in Nat /\ Accepted(message, first)
    BY TimesAssumption DEF SInv, FirstWasAccepted, Time
  <2> QED  BY <2>1, TwiceAccepted DEF SInv
<1> QED  BY <1>1, <1>2, FirstIsKept, PTL DEF SignedSpec

-----------------------------------------------------------------------------
(* NotificationCenter: a walk through the pages *)

InOrder(s) == \A i, j \in 1 .. Len(s) : i < j => Before(s[i], s[j])

\* What the walk was to show is shown, or is still below the cursor.
NoneIsPassed ==
  /\ walk = "on" => Len(shown) > 0 /\ \A n \in there : n \in Range(shown) \/ Before(shown[Len(shown)], n)
  /\ walk = "end" => there \subseteq Range(shown)

\* Rows that are shown, or were there, are there for good: nothing is inserted
\* in their place.
CenterInv ==
  /\ created \in [Note -> Nat]
  /\ shown \in Seq(Mine)
  /\ \A i \in 1 .. Len(shown) : created[shown[i]] > 0
  /\ InOrder(shown)
  /\ there \subseteq Inbox
  /\ NoneIsPassed

\* The order of a page is a strict one.
LEMMA BeforeIsStrict ==
  ASSUME created \in [Note -> Nat], NEW m \in Note, NEW n \in Note, NEW o \in Note
  PROVE  ~Before(m, m) /\ (Before(m, n) /\ Before(n, o) => Before(m, o))
<1>1. m \in Nat /\ n \in Nat /\ o \in Nat /\ created[m] \in Nat /\ created[n] \in Nat /\ created[o] \in Nat
  BY CenterAssumption DEF Note
<1> QED  BY <1>1 DEF Before

\* A page has all rows when no more than the limit are left, and else the first.
LEMMA PageOfRows ==
  ASSUME created \in [Note -> Nat], NEW R, R \subseteq Note, NEW s \in Pages(R)
  PROVE  /\ s \in Seq(R) /\ InOrder(s)
         /\ ~More(R) => R \subseteq Range(s)
         /\ More(R) => Len(s) > 0 /\ \A n \in R : n \in Range(s) \/ Before(s[Len(s)], n)
<1> DEFINE size == IF More(R) THEN PageLimit ELSE Cardinality(R)
<1>1. IsFiniteSet(R) /\ Cardinality(R) \in Nat
  <2>1. IsFiniteSet(Note)
    BY CenterAssumption, FS_Interval DEF Note
  <2>2. IsFiniteSet(R)
    BY <2>1, FS_Subset
  <2> QED  BY <2>2, FS_CardinalityType
<1>2. size \in Nat /\ (More(R) => size > 0)
  BY <1>1, CenterAssumption
<1>3. /\ s \in [1 .. size -> R]
      /\ \A i, j \in 1 .. size : i < j => Before(s[i], s[j])
      /\ \A i \in 1 .. size, n \in R \ Range(s) : Before(s[i], n)
  BY DEF Pages
<1>4. ~More(R) => size = Cardinality(R)
  OBVIOUS
<1> HIDE DEF size
<1>5. s \in Seq(R) /\ Len(s) = size /\ InOrder(s)
  BY <1>2, <1>3 DEF InOrder
<1>6. ASSUME ~More(R) PROVE R \subseteq Range(s)
  <2>1. s \in Injection(1 .. size, R)
    <3>1. ASSUME NEW i \in 1 .. size, NEW j \in 1 .. size, s[i] = s[j] PROVE i = j
      <4>1. s[i] \in Note /\ ~Before(s[i], s[i])
        BY <1>3, BeforeIsStrict
      <4>2. ~(i < j) /\ ~(j < i)
        BY <1>3, <3>1, <4>1
      <4> QED  BY <1>2, <4>2
    <3> QED  BY <1>3, <3>1 DEF Injection, IsInjective
  <2>2. Cardinality(1 .. size) = Cardinality(R)
    BY <1>1, <1>2, <1>4, <1>6, FS_Interval
  <2>3. s \in Surjection(1 .. size, R)
    BY <1>1, <2>1, <2>2, FS_Injection
  <2> QED  BY <1>3, <2>3 DEF Surjection, Range
<1>7. More(R) => Len(s) > 0 /\ \A n \in R : n \in Range(s) \/ Before(s[Len(s)], n)
  BY <1>2, <1>3, <1>5
<1> QED  BY <1>5, <1>6, <1>7

\* Rows below a cursor are ones of the account, after the cursor.
LEMMA RowsBelow ==
  ASSUME CenterInv
  PROVE  /\ Inbox \subseteq Note /\ Mine \subseteq Note
         /\ \A c \in Note : After(c) \subseteq Inbox /\ \A n \in After(c) : Before(c, n)
BY CenterAssumption DEF Inbox, After

LEMMA FirstPageKeeps ==
  ASSUME CenterInv, ListFirst
  PROVE  CenterInv'
<1>1. /\ shown' \in Pages(Inbox) /\ there' = Inbox /\ created' = created
      /\ walk' = IF More(Inbox) THEN "on" ELSE "end"
  BY DEF ListFirst
<1>2. created \in [Note -> Nat] /\ Inbox \subseteq Note
  BY RowsBelow DEF CenterInv
<1>3. /\ shown' \in Seq(Inbox) /\ InOrder(shown')
      /\ ~More(Inbox) => Inbox \subseteq Range(shown')
      /\ More(Inbox) => Len(shown') > 0
                        /\ \A n \in Inbox : n \in Range(shown') \/ Before(shown'[Len(shown')], n)
  BY <1>1, <1>2, PageOfRows
<1>4. shown' \in Seq(Mine) /\ \A i \in 1 .. Len(shown') : created[shown'[i]] > 0
  BY <1>3 DEF Inbox
<1>5. InOrder(shown)' /\ there' \subseteq Inbox'
  BY <1>1, <1>3 DEF InOrder, Before, Inbox
<1>6. NoneIsPassed'
  BY <1>1, <1>3 DEF NoneIsPassed, Before
<1> QED  BY <1>1, <1>2, <1>4, <1>5, <1>6 DEF CenterInv

\* Two pages, one after the other.
LEMMA PagesJoined ==
  ASSUME CenterInv, Len(shown) > 0, NEW s \in Seq(After(shown[Len(shown)])), InOrder(s)
  PROVE  /\ shown \o s \in Seq(Mine)
         /\ \A i \in 1 .. Len(shown \o s) : created[(shown \o s)[i]] > 0
         /\ InOrder(shown \o s)
         /\ Range(shown \o s) = Range(shown) \cup Range(s)
         /\ Len(s) > 0 => (shown \o s)[Len(shown \o s)] = s[Len(s)]
<1> DEFINE n == Len(shown)
           c == shown[n]
           t == shown \o s
<1>1. /\ created \in [Note -> Nat] /\ shown \in Seq(Mine) /\ n \in Nat /\ n > 0
      /\ \A i \in 1 .. n : shown[i] \in Note /\ created[shown[i]] > 0
  BY RowsBelow DEF CenterInv
<1>2. /\ Len(s) \in Nat /\ After(c) \subseteq Inbox /\ Inbox \subseteq Mine
      /\ \A i \in 1 .. Len(s) : s[i] \in Mine /\ s[i] \in Note /\ created[s[i]] > 0 /\ Before(c, s[i])
  BY <1>1, RowsBelow DEF Inbox
<1>3. s \in Seq(Mine)
  BY <1>2
<1>4. /\ t \in Seq(Mine) /\ Len(t) = n + Len(s)
      /\ \A i \in 1 .. n : t[i] = shown[i]
      /\ \A i \in n + 1 .. n + Len(s) : t[i] = s[i - n] /\ i - n \in 1 .. Len(s)
  BY <1>1, <1>3
<1>5. \A i \in 1 .. Len(t) : i \in 1 .. n \/ i \in n + 1 .. n + Len(s)
  BY <1>1, <1>2, <1>4
<1>6. \A i \in 1 .. Len(t) : created[t[i]] > 0
  BY <1>1, <1>2, <1>4, <1>5
<1>7. InOrder(t)
  <2> SUFFICES ASSUME NEW i \in 1 .. Len(t), NEW j \in 1 .. Len(t), i < j
               PROVE  Before(t[i], t[j])
    BY DEF InOrder
  <2>1. CASE i \in 1 .. n /\ j \in 1 .. n
    BY <1>4, <2>1 DEF CenterInv, InOrder
  <2>2. CASE i \in n + 1 .. n + Len(s) /\ j \in n + 1 .. n + Len(s)
    <3>1. i - n < j - n /\ i - n \in 1 .. Len(s) /\ j - n \in 1 .. Len(s)
      BY <1>1, <1>2, <2>2
    <3> QED  BY <1>4, <2>2, <3>1 DEF InOrder
  <2>3. CASE i \in 1 .. n /\ j \in n + 1 .. n + Len(s)
    <3>1. t[i] = shown[i] /\ Before(c, t[j]) /\ t[j] \in Note /\ shown[i] \in Note /\ c \in Note
      BY <1>1, <1>2, <1>4, <2>3
    <3>2. i = n \/ Before(shown[i], c)
      BY <1>1, <2>3 DEF CenterInv, InOrder
    <3> QED  BY <1>1, <3>1, <3>2, BeforeIsStrict
  <2> QED  BY <1>1, <1>2, <1>5, <2>1, <2>2, <2>3
<1>8. Range(t) = Range(shown) \cup Range(s)
  <2>1. DOMAIN t = 1 .. Len(t) /\ DOMAIN shown = 1 .. n /\ DOMAIN s = 1 .. Len(s)
    BY <1>1, <1>3, <1>4
  <2>2. \A i \in 1 .. n : i \in 1 .. Len(t) /\ t[i] = shown[i]
    BY <1>1, <1>2, <1>4
  <2>3. \A i \in 1 .. Len(s) : i + n \in 1 .. Len(t) /\ t[i + n] = s[i]
    BY <1>1, <1>2, <1>4
  <2> HIDE DEF n, t
  <2>4. Range(t) \subseteq Range(shown) \cup Range(s)
    BY <1>4, <1>5, <2>1 DEF Range
  <2>5. Range(shown) \subseteq Range(t) /\ Range(s) \subseteq Range(t)
    BY <2>1, <2>2, <2>3 DEF Range
  <2> QED  BY <2>4, <2>5
<1>9. Len(s) > 0 => t[Len(t)] = s[Len(s)]
  BY <1>1, <1>2, <1>4
<1> QED  BY <1>4, <1>6, <1>7, <1>8, <1>9

LEMMA NextPageKeeps ==
  ASSUME CenterInv, ListNext
  PROVE  CenterInv'
<1> DEFINE c == shown[Len(shown)]
<1>1. walk = "on" /\ created' = created /\ there' = there
      /\ walk' = IF More(After(c)) THEN "on" ELSE "end"
  BY DEF ListNext
<1>2. PICK s \in Pages(After(c)) : shown' = shown \o s
  BY DEF ListNext
<1>3. Len(shown) > 0 /\ \A n \in there : n \in Range(shown) \/ Before(c, n)
  BY <1>1 DEF CenterInv, NoneIsPassed
<1>4. c \in Note /\ After(c) \subseteq Inbox /\ Inbox \subseteq Note
  BY <1>3, RowsBelow DEF CenterInv
<1>5. /\ s \in Seq(After(c)) /\ InOrder(s)
      /\ ~More(After(c)) => After(c) \subseteq Range(s)
      /\ More(After(c)) => Len(s) > 0
                           /\ \A n \in After(c) : n \in Range(s) \/ Before(s[Len(s)], n)
  BY <1>4, PageOfRows DEF CenterInv
<1>6. \A n \in there : n \in Range(shown) \/ n \in After(c)
  BY <1>3 DEF CenterInv, After
<1>7. /\ shown' \in Seq(Mine)
      /\ \A i \in 1 .. Len(shown') : created[shown'[i]] > 0
      /\ InOrder(shown')
      /\ Range(shown') = Range(shown) \cup Range(s)
      /\ Len(s) > 0 => shown'[Len(shown')] = s[Len(s)]
  BY <1>2, <1>3, <1>5, PagesJoined
<1>8. InOrder(shown)' /\ there' \subseteq Inbox'
  BY <1>1, <1>7 DEF CenterInv, InOrder, Before, Inbox
<1>9. NoneIsPassed'
  <2>1. CASE ~More(After(c))
    BY <1>1, <1>5, <1>6, <1>7, <2>1 DEF NoneIsPassed
  <2>2. CASE More(After(c))
    <3>1. Len(s) > 0 /\ Len(s) \in Nat /\ Len(shown) \in Nat
      BY <1>5, <2>2 DEF CenterInv
    <3>2. Len(shown') > 0
      BY <1>2, <1>5, <3>1 DEF CenterInv
    <3>3. \A n \in there : n \in Range(shown') \/ Before(shown'[Len(shown')], n)
      BY <1>5, <1>6, <1>7, <2>2, <3>1
    <3> QED  BY <1>1, <2>2, <3>2, <3>3 DEF NoneIsPassed, Before
  <2> QED  BY <2>1, <2>2
<1> QED  BY <1>1, <1>7, <1>8, <1>9 DEF CenterInv

\* A row that is inserted was not there: what is shown is not it, and keeps its
\* place.
LEMMA PostKeeps ==
  ASSUME CenterInv, NEW n \in Note, NEW t \in Stamp, Post(n, t)
  PROVE  CenterInv'
<1>1. created[n] = 0 /\ created' = [created EXCEPT ![n] = t] /\ UNCHANGED <<walk, shown, there>>
  BY DEF Post
<1>2. created' \in [Note -> Nat]
  BY <1>1, CenterAssumption DEF CenterInv, Stamp
<1>3. \A m \in Note : created[m] > 0 => created'[m] = created[m]
  BY <1>1 DEF CenterInv
<1>4. /\ \A i \in 1 .. Len(shown) : shown[i] \in Note /\ created[shown[i]] > 0
      /\ \A m \in there : m \in Note /\ created[m] > 0
  BY RowsBelow DEF CenterInv, Inbox
<1>5. \A k, m \in Note : created[k] > 0 /\ created[m] > 0 /\ Before(k, m) => Before(k, m)'
  BY <1>3 DEF Before
<1>6. InOrder(shown)'
  BY <1>1, <1>4, <1>5 DEF CenterInv, InOrder
<1>7. there' \subseteq Inbox'
  BY <1>1, <1>3, <1>4 DEF CenterInv, Inbox
<1>8. NoneIsPassed'
  <2>1. CASE walk = "on"
    <3>1. Len(shown) \in 1 .. Len(shown)
      BY <2>1 DEF CenterInv, NoneIsPassed
    <3> QED  BY <1>1, <1>4, <1>5, <2>1, <3>1 DEF CenterInv, NoneIsPassed
  <2>2. CASE walk # "on"
    BY <1>1, <2>2 DEF CenterInv, NoneIsPassed
  <2> QED  BY <2>1, <2>2
<1> QED
  BY <1>1, <1>2, <1>3, <1>4, <1>6, <1>7, <1>8 DEF CenterInv

\* However many notifications there are, and whenever they are inserted or marked,
\* a walk from page to page is exact (list_notifications and its cursor).
THEOREM WalksAreExact == CenterSpec => []WalkIsExact
<1>1. CenterInit => CenterInv
  <2> SUFFICES ASSUME CenterInit PROVE CenterInv
    OBVIOUS
  <2> QED
    BY DEF CenterInit, CenterInv, InOrder, NoneIsPassed, Inbox
<1>2. CenterInv /\ [CenterNext]_centerVars => CenterInv'
  <2> SUFFICES ASSUME CenterInv, [CenterNext]_centerVars PROVE CenterInv'
    OBVIOUS
  <2>1. ASSUME UNCHANGED <<created, walk, shown, there>> PROVE CenterInv'
    BY <2>1 DEF CenterInv, InOrder, Before, Inbox, NoneIsPassed
  <2>2. ASSUME NEW R, MarkRead(R) PROVE CenterInv'
    BY <2>1, <2>2 DEF MarkRead
  <2> QED
    BY <2>1, <2>2, PostKeeps, FirstPageKeeps, NextPageKeeps DEF CenterNext, centerVars
<1>3. CenterInv => WalkIsExact
  BY DEF CenterInv, InOrder, NoneIsPassed, WalkIsExact
<1> QED  BY <1>1, <1>2, <1>3, PTL DEF CenterSpec
=============================================================================
