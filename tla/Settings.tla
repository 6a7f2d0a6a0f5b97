------------------------------ MODULE Settings ------------------------------
(***************************************************************************)
(* Review and persistence of setting changes: reducer/settings.rs.         *)
(***************************************************************************)
EXTENDS WalletState

SettingChangeRequested(id, host, change) ==
    \/ RequestRefusal(host) # Accepted /\ Reject(RequestRefusal(host))
    \/ /\ RequestRefusal(host) = Accepted
       /\ flow' = [tag |-> "Settings", id |-> id, host |-> host,
                   change |-> change, stage |-> "Reviewing"]
       /\ effect' = [tag |-> "RenderSettingChange", id |-> id,
                     change |-> change]
       /\ UNCHANGED <<lifecycle, auth, policy>>

\* Mutant: the stage is not tested.
SettingsRefusal_AnyStage(id, stage) ==
    CallbackRefusal(flow.tag = "Settings", flow.id, id)
\* The settings flow is in this stage and the callback is about it.
SettingsRefusal(id, stage) ==
    CallbackRefusal(flow.tag = "Settings" /\ flow.stage = stage, flow.id, id)

ConfirmRefusal(id) ==
    IF SettingsRefusal(id, "Reviewing") # Accepted
    THEN SettingsRefusal(id, "Reviewing")
    ELSE IF ~IsUnlocked THEN "Locked"
    ELSE IF auth.host # flow.host THEN "WrongHost"
    ELSE Accepted

SettingChangeConfirmed(id) ==
    \/ ConfirmRefusal(id) # Accepted /\ Reject(ConfirmRefusal(id))
    \/ /\ ConfirmRefusal(id) = Accepted
       /\ flow' = [flow EXCEPT !.stage = "Persisting"]
       /\ effect' = [tag |-> "PersistSettingChange", id |-> id,
                     change |-> flow.change]
       /\ UNCHANGED <<lifecycle, auth, policy>>

SettingChangeRejected(id) ==
    LET refusal == SettingsRefusal(id, "Reviewing")
    IN \/ refusal # Accepted /\ Reject(refusal)
       \/ /\ refusal = Accepted
          /\ flow' = Idle
          /\ effect' = [tag |-> "SettingChangeRejected", id |-> id]
          /\ UNCHANGED <<lifecycle, auth, policy>>

\* SecurityPolicy::apply
ApplySetting(p, setting) == [p EXCEPT ![setting.field] = setting.value]

\* The change revokes the host of the open session.
Downgrades(change) ==
    /\ IsUnlocked
    /\ \/ change.tag = "RevokeAllHosts"
       \/ change.tag = "RevokeHost" /\ change.host = auth.host

\* A passphrase mode has nowhere to go without a provisioned wallet.
IsOrphaned(change) == change.tag = "Passphrase" /\ ~IsProvisioned

\* Mutant: a session keeps the trust of a host that was revoked.
ApplyChange_KeepsTrust(change) ==
    /\ policy' = IF change.tag = "Security"
                 THEN ApplySetting(policy, change.setting) ELSE policy
    /\ UNCHANGED <<lifecycle, auth>>
ApplyChange(change) ==
    /\ policy' = IF change.tag = "Security"
                 THEN ApplySetting(policy, change.setting) ELSE policy
    /\ lifecycle' = IF change.tag = "Passphrase" /\ IsProvisioned
                    THEN [lifecycle EXCEPT !.metadata.passphrase = change.mode]
                    ELSE lifecycle
    /\ auth' = IF Downgrades(change)
               THEN [auth EXCEPT !.trust = "Untrusted"] ELSE auth

SettingChangePersisted(id) ==
    LET refusal == SettingsRefusal(id, "Persisting")
    IN \/ refusal # Accepted /\ Reject(refusal)
       \/ /\ refusal = Accepted
          /\ flow' = Idle
          /\ ApplyChange(flow.change)
          /\ effect' = IF IsOrphaned(flow.change)
                       THEN Rejection("NotProvisioned")
                       ELSE [tag |-> "SettingChangeComplete", id |-> id]
=============================================================================
