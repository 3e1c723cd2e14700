-------------------------- MODULE PlatformSettings --------------------------
(***************************************************************************)
(* The settings of one upstream: where it is, and the secret for it.  A    *)
(* save reads the row, decides, and writes the row as a whole, in two      *)
(* transactions, so that two administrators, or one and a copy-back, may   *)
(* cross.                                                                  *)
(*                                                                         *)
(* The place is what the code calls the authority: address, key, endpoints.*)
(* A secret is named by the place it was entered for.  The other fields of *)
(* a row are left out.                                                     *)
(***************************************************************************)
EXTENDS Naturals

CONSTANTS Authority,
          Blank,     \* a place with all fields blank
          NoSecret,
          Admin

ASSUME SettingsAssumption ==
  /\ Blank \notin Authority /\ NoSecret \notin Authority /\ NoSecret # Blank

VARIABLES
  upstream,  \* which settings: "easyauth", "oidc" or "directory"
  setting,   \* the row
  saving     \* what each request does

settingsVars == <<upstream, setting, saving>>

Authorities == Authority \cup {Blank}
Secrets == Authorities \cup {NoSecret}

\* complete: the row is from a save, and has an auth_mode.
Settings == [place : Authorities, secret : Secrets, complete : BOOLEAN]

Incoming == {"keep", "clear", "enter"}

NotSaving == [pc |-> "idle"]

SettingsTypeOK ==
  /\ upstream \in {"easyauth", "oidc", "directory"}
  /\ setting \in Settings
  /\ saving \in [Admin -> {NotSaving}
                   \cup [pc : {"draft"}, place : Authorities, secret : Incoming]
                   \cup [pc : {"write"}, row : Settings]]

SettingsInit ==
  /\ upstream \in {"easyauth", "oidc", "directory"}
  /\ setting = [place |-> Blank, secret |-> NoSecret, complete |-> FALSE]
  /\ saving = [a \in Admin |-> NotSaving]

-----------------------------------------------------------------------------

\* Mutant: to clear the place is not to change it.
ClearedIsNoChange(place) ==
  setting.place # Blank /\ place \notin {Blank, setting.place}

\* authority_changed of the EasyAuth row, client_authority_changed of the OIDC one.
AuthorityChanged(place) == setting.place # Blank /\ setting.place # place

\* identity_changed: with its auth_mode, a saved row always names something.
IdentityChanged(place) ==
  (setting.place # Blank \/ setting.complete) /\ setting.place # place

NeedsSecret(place) ==
  IF upstream = "directory" THEN IdentityChanged(place) ELSE AuthorityChanged(place)

\* The secret of the new row.
NextSecret(place, secret) ==
  CASE secret = "keep"  -> setting.secret
    [] secret = "clear" -> NoSecret
    [] secret = "enter" -> place

\* Reading the row and the decision on it: 422, or a row to write.
Decide(a, place, secret) ==
  IF NeedsSecret(place) /\ secret # "enter"
    THEN saving' = [saving EXCEPT ![a] = NotSaving]
    ELSE saving' = [saving EXCEPT ![a] = [pc |-> "write",
           row |-> [place |-> place, secret |-> NextSecret(place, secret), complete |-> TRUE]]]

\* save_easyauth_settings, save_oidc_settings, save_directory_settings.
Save(a) ==
  /\ saving[a] = NotSaving
  /\ \E place \in Authorities, secret \in Incoming : Decide(a, place, secret)
  /\ UNCHANGED <<upstream, setting>>

\* save_authorization_update: what is not in the request is read first, and the
\* row is read again for the decision.
Draft(a) ==
  /\ saving[a] = NotSaving
  /\ upstream = "easyauth" /\ setting.place # Blank
  /\ \E secret \in Incoming :
       saving' = [saving EXCEPT ![a] =
         [pc |-> "draft", place |-> setting.place, secret |-> secret]]
  /\ UNCHANGED <<upstream, setting>>

SaveDraft(a) ==
  /\ saving[a].pc = "draft"
  /\ Decide(a, saving[a].place, saving[a].secret)
  /\ UNCHANGED <<upstream, setting>>

\* save_permission_request_url and sync_directory: the row as it was, but for a
\* field that is left out here.
CopyBack(a) ==
  /\ saving[a] = NotSaving
  /\ upstream \in {"easyauth", "directory"}
  /\ saving' = [saving EXCEPT ![a] = [pc |-> "write", row |-> setting]]
  /\ UNCHANGED <<upstream, setting>>

\* _save_setting: committed, or not.
Write(a) ==
  /\ saving[a].pc = "write"
  /\ setting' \in {saving[a].row, setting}
  /\ saving' = [saving EXCEPT ![a] = NotSaving]
  /\ UNCHANGED upstream

SettingsNext ==
  \E a \in Admin : Save(a) \/ Draft(a) \/ SaveDraft(a) \/ CopyBack(a) \/ Write(a)

SettingsSpec == SettingsInit /\ [][SettingsNext]_settingsVars

-----------------------------------------------------------------------------
(* Properties *)

\* However saves cross, the secret of a row was entered for the place of that row,
\* or before there was one: it is not kept for another upstream
\* (save_easyauth_settings, save_oidc_settings, save_directory_settings).
CredentialFits == setting.secret \in {NoSecret, Blank, setting.place}
=============================================================================
