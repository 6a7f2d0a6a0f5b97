-------------------------------- MODULE Auth --------------------------------
(***************************************************************************)
(* Unlocking, locking and host pairing: reducer/auth.rs.                   *)
(***************************************************************************)
EXTENDS WalletState

UnlockRefusal ==
    IF ~IsProvisioned THEN "NotProvisioned"
    ELSE IF flow # Idle THEN "Busy"
    ELSE IF auth.tag # "Locked" THEN "InvalidState"
    ELSE Accepted

UnlockRequested(id, host) ==
    \/ /\ UnlockRefusal # Accepted
       /\ Reject(UnlockRefusal)
    \/ /\ UnlockRefusal = Accepted
       /\ auth' = [tag |-> "ResolvingHost", id |-> id, host |-> host,
                   failed |-> auth.failed]
       /\ effect' = [tag |-> "ResolveHostTrust", id |-> id, host |-> host]
       /\ UNCHANGED <<lifecycle, flow, policy>>

\* An authentication attempt in its next stage, with its retry count.
Attempt(stage, trust, failed) ==
    [tag |-> stage, id |-> auth.id, host |-> auth.host, trust |-> trust,
     failed |-> failed]

HostTrustResolved(id, trust) ==
    LET refusal == CallbackRefusal(auth.tag = "ResolvingHost", auth.id, id)
    IN \/ refusal # Accepted /\ Reject(refusal)
       \/ /\ refusal = Accepted
          /\ auth' = Attempt("VerifyingPin", trust, auth.failed)
          /\ effect' = [tag |-> "VerifyPin", id |-> id, host |-> auth.host]
          /\ UNCHANGED <<lifecycle, flow, policy>>

PinVerifiedRefusal(id) ==
    LET refusal == CallbackRefusal(auth.tag = "VerifyingPin", auth.id, id)
    IN IF refusal = Accepted /\ ~IsProvisioned THEN "NotProvisioned"
       ELSE refusal

OpenSession(failed) ==
    /\ auth' = Attempt("OpeningSession", auth.trust, failed)
    /\ effect' = [tag |-> "OpenSession", id |-> auth.id, host |-> auth.host]
    /\ UNCHANGED <<lifecycle, flow, policy>>

PinVerified(id) ==
    \/ /\ PinVerifiedRefusal(id) # Accepted
       /\ Reject(PinVerifiedRefusal(id))
    \/ /\ PinVerifiedRefusal(id) = Accepted
       /\ lifecycle.metadata.passphrase = "Disabled"
       /\ OpenSession(0)
    \/ /\ PinVerifiedRefusal(id) = Accepted
       /\ lifecycle.metadata.passphrase # "Disabled"
       /\ auth' = Attempt("AwaitingPassphrase", auth.trust, 0)
       /\ effect' = [tag |-> "RequestPassphrase", id |-> id]
       /\ UNCHANGED <<lifecycle, flow, policy>>

\* A count that does not exceed the last observed one is refused.
PinRejectedRefusal(id, count) ==
    LET refusal == CallbackRefusal(auth.tag = "VerifyingPin", auth.id, id)
    IN IF refusal = Accepted /\ (count = 0 \/ count <= auth.failed)
       THEN "InvalidState" ELSE refusal

\* Mutant: one attempt too many.
IsExhausted_OffByOne(count) == count > MaxPinAttempts
IsExhausted(count) == count >= MaxPinAttempts

\* Mutant: the subtraction does not saturate.
Remaining_Unsaturated(count) == MaxPinAttempts - count
\* saturating_sub
Remaining(count) ==
    IF count < MaxPinAttempts THEN MaxPinAttempts - count ELSE 0

PinRejected(id, count) ==
    \/ /\ PinRejectedRefusal(id, count) # Accepted
       /\ Reject(PinRejectedRefusal(id, count))
    \/ /\ PinRejectedRefusal(id, count) = Accepted
       /\ IsExhausted(count) /\ policy.pin_exhaustion = "Wipe"
       /\ StartWipe
    \/ /\ PinRejectedRefusal(id, count) = Accepted
       /\ ~(IsExhausted(count) /\ policy.pin_exhaustion = "Wipe")
       /\ auth' = Locked(count)
       /\ effect' = [tag |-> "AuthenticationFailed",
                     remaining |-> Remaining(count)]
       /\ UNCHANGED <<lifecycle, flow, policy>>

PassphraseRefusal(id) ==
    CallbackRefusal(auth.tag = "AwaitingPassphrase", auth.id, id)

PassphraseProvided(id) ==
    \/ PassphraseRefusal(id) # Accepted /\ Reject(PassphraseRefusal(id))
    \/ PassphraseRefusal(id) = Accepted /\ OpenSession(auth.failed)

\* Mutant: any passphrase may be skipped.
SkipRefusal_AnyMode(id) ==
    IF PassphraseRefusal(id) # Accepted THEN PassphraseRefusal(id)
    ELSE IF ~IsProvisioned THEN "NotProvisioned"
    ELSE Accepted
\* Only an optional passphrase may be skipped.
SkipRefusal(id) ==
    IF PassphraseRefusal(id) # Accepted THEN PassphraseRefusal(id)
    ELSE IF ~IsProvisioned THEN "NotProvisioned"
    ELSE IF lifecycle.metadata.passphrase # "Optional" THEN "InvalidState"
    ELSE Accepted

PassphraseSkipped(id) ==
    \/ SkipRefusal(id) # Accepted /\ Reject(SkipRefusal(id))
    \/ SkipRefusal(id) = Accepted /\ OpenSession(auth.failed)

SessionOpened(id, session, context) ==
    LET refusal == CallbackRefusal(auth.tag = "OpeningSession", auth.id, id)
    IN \/ refusal # Accepted /\ Reject(refusal)
       \/ /\ refusal = Accepted
          /\ auth' = [tag |-> "Unlocked", session |-> session,
                      host |-> auth.host, wallet |-> context,
                      trust |-> auth.trust]
          /\ effect' = [tag |-> "SessionReady"]
          /\ UNCHANGED <<lifecycle, flow, policy>>

LockRequested == LockWallet

SessionExpired(session) ==
    LET refusal == CallbackRefusal(IsUnlocked, auth.session, session)
    IN \/ refusal # Accepted /\ Reject(refusal)
       \/ refusal = Accepted /\ LockWallet

\* The host an unlock attempt or a session is bound to is the one leaving.
IsBoundTo(host) ==
    auth.tag \notin {"Unavailable", "Locked"} /\ auth.host = host

HostDisconnected(host) ==
    \/ /\ policy.disconnect = "KeepSession" \/ ~IsBoundTo(host)
       /\ effect' = NoEffect
       /\ UNCHANGED wallet
    \/ /\ policy.disconnect # "KeepSession" /\ IsBoundTo(host)
       /\ LockWallet

-----------------------------------------------------------------------------
(* Pairing *)

PairingRequested(id, host) ==
    \/ RequestRefusal(host) # Accepted /\ Reject(RequestRefusal(host))
    \/ /\ RequestRefusal(host) = Accepted
       /\ flow' = [tag |-> "Pairing", id |-> id, host |-> host,
                   persisted |-> FALSE]
       /\ effect' = [tag |-> "RenderPairing", id |-> id, host |-> host]
       /\ UNCHANGED <<lifecycle, auth, policy>>

IsPairing == flow.tag = "Pairing"

PairingConfirmed(id) ==
    LET refusal == CallbackRefusal(IsPairing /\ ~flow.persisted, flow.id, id)
    IN \/ refusal # Accepted /\ Reject(refusal)
       \/ /\ refusal = Accepted
          /\ flow' = [tag |-> "Pairing", id |-> id, host |-> flow.host,
                      persisted |-> TRUE]
          /\ effect' = [tag |-> "PersistTrustedHost", id |-> id,
                        host |-> flow.host]
          /\ UNCHANGED <<lifecycle, auth, policy>>

EndPairing(refusal, id, report) ==
    \/ refusal # Accepted /\ Reject(refusal)
    \/ /\ refusal = Accepted
       /\ flow' = Idle
       /\ effect' = [tag |-> report, id |-> id]
       /\ UNCHANGED <<lifecycle, auth, policy>>

PairingRejected(id) ==
    EndPairing(CallbackRefusal(IsPairing, flow.id, id), id, "PairingRejected")

TrustedHostPersisted(id) ==
    EndPairing(CallbackRefusal(IsPairing /\ flow.persisted, flow.id, id), id,
               "PairingComplete")
=============================================================================
