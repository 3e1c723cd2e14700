------------------------------ MODULE MCFlows ------------------------------
(***************************************************************************)
(* Components that do not wait for each other, checked one beside the      *)
(* other: part says which of them moves, and the others stay as they       *)
(* began.                                                                  *)
(***************************************************************************)
EXTENDS ManifestSync, OidcFlow, NotificationSettings, PlatformSettings, DirectorySync,
        NotificationCenter, SignedMessages, Identities, TLC

CONSTANTS m1, m2, v1, v2, n2, n3

VARIABLE part

MCOwn == (m1 :> 1) @@ (m2 :> 2)
MCDefault == [s \in Switch |-> TRUE]

\* Two subjects that begin with the same eight characters, and one that does not.
MCWithSub == [r \in Shown \X Human |-> IF r[2] \in {v1, v2} THEN n2 ELSE n3]

\* One component moves, so that the exchanges in several may go together: the
\* actors of all, the things of all, or both.
Swap(S) == CHOOSE p \in Permutations(S) : \E x \in S : p[x] # x
With(p, swap) == IF \E x \in DOMAIN p : p[x] # x THEN p @@ swap ELSE p
FlowsSymmetry ==
  {With(p, Swap(Worker) @@ Swap(Thread) @@ Swap(Admin) @@ Swap(Process))
     @@ With(q, Swap(Patched) @@ Swap(Authority) @@ Swap(Ref) @@ Swap({v1, v2})) :
       p \in Permutations(Flow), q \in Permutations(Key)}

vars == <<syncVars, oidcVars, notifyVars, settingsVars, directoryVars, centerVars,
          signedVars, identityVars, part>>

Init ==
  /\ part \in {"sync", "oidc", "notify", "settings", "directory", "center", "signed", "identity"}
  /\ SyncInit /\ (part = "sync" \/ release = [w \in Worker |-> m1])
  /\ OidcInit /\ (part = "oidc" \/ published = Key)
  /\ NotifyInit
  /\ SettingsInit /\ (part = "settings" \/ upstream = "oidc")
  /\ DirectoryInit /\ (part = "directory" \/ history = <<<<>>>>)
  /\ CenterInit
  /\ SignedInit /\ (part = "signed" \/ message = [kind |-> "webhook", genuine |-> TRUE, at |-> 0])
  /\ IdentityInit /\ (part = "identity" \/ typed = {})

Rest == <<signedVars, identityVars>>

Next ==
  /\ UNCHANGED part
  /\ \/ part = "sync" /\ SyncNext
        /\ UNCHANGED <<oidcVars, notifyVars, settingsVars, directoryVars, centerVars, Rest>>
     \/ part = "oidc" /\ OidcNext
        /\ UNCHANGED <<syncVars, notifyVars, settingsVars, directoryVars, centerVars, Rest>>
     \/ part = "notify" /\ NotifyNext
        /\ UNCHANGED <<syncVars, oidcVars, settingsVars, directoryVars, centerVars, Rest>>
     \/ part = "settings" /\ SettingsNext
        /\ UNCHANGED <<syncVars, oidcVars, notifyVars, directoryVars, centerVars, Rest>>
     \/ part = "directory" /\ DirectoryNext
        /\ UNCHANGED <<syncVars, oidcVars, notifyVars, settingsVars, centerVars, Rest>>
     \/ part = "center" /\ CenterNext
        /\ UNCHANGED <<syncVars, oidcVars, notifyVars, settingsVars, directoryVars, Rest>>
     \/ part = "signed" /\ SignedNext
        /\ UNCHANGED <<syncVars, oidcVars, notifyVars, settingsVars, directoryVars, centerVars, identityVars>>
     \/ part = "identity" /\ IdentityNext
        /\ UNCHANGED <<syncVars, oidcVars, notifyVars, settingsVars, directoryVars, centerVars, signedVars>>

Spec == Init /\ [][Next]_vars
=============================================================================
