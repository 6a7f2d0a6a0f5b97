----------------------------- MODULE SigningGate -----------------------------
(***************************************************************************)
(* What the wallet promises a host and the person holding the device, and  *)
(* nothing about how: there is at most one session; a job belongs to the   *)
(* host and the wallet context of that session and dies with it; a job     *)
(* that touches a private key runs only after it was presented and the     *)
(* user consented.  WalletCore implements this specification.              *)
(***************************************************************************)
CONSTANTS Hosts, Wallets

VARIABLES session, job

gateVars == <<session, job>>

Trusts == {"Untrusted", "Trusted"}
Closed == [tag |-> "Closed"]
NoJob == [tag |-> "None"]

Init == session = Closed /\ job = NoJob

OpenSession(host, context, trust) ==
    /\ session = Closed
    /\ session' = [tag |-> "Open", host |-> host, wallet |-> context,
                   trust |-> trust]
    /\ UNCHANGED job

\* Lock, expiry, disconnect, failure, wipe or reboot.
CloseSession ==
    /\ session' = Closed
    /\ job' = NoJob

\* Trust is only ever taken away from an open session, between jobs.
Downgrade ==
    /\ session # Closed
    /\ job = NoJob
    /\ session' = [session EXCEPT !.trust = "Untrusted"]
    /\ UNCHANGED job

Submit ==
    /\ session # Closed
    /\ job = NoJob
    /\ job' = [tag |-> "Submitted", host |-> session.host,
               wallet |-> session.wallet, key |-> FALSE]
    /\ UNCHANGED session

Become(phase, key) ==
    /\ job' = [tag |-> phase, host |-> job.host, wallet |-> job.wallet, key |-> key]
    /\ UNCHANGED session

Plan == job.tag = "Submitted" /\ \E key \in BOOLEAN : Become("Planned", key)
RunSilently == job.tag = "Submitted" /\ Become("Running", FALSE)
RunShown == job.tag = "Planned" /\ ~job.key /\ Become("Running", FALSE)
Present == job.tag = "Planned" /\ Become("Presented", job.key)
Consent == job.tag = "Presented" /\ Become("Running", job.key)

\* Completion, failure, refusal or cancellation.
EndJob ==
    /\ job' = NoJob
    /\ UNCHANGED session

Next ==
    \/ \E h \in Hosts, w \in Wallets, t \in Trusts : OpenSession(h, w, t)
    \/ CloseSession
    \/ Downgrade
    \/ Submit
    \/ Plan
    \/ RunSilently
    \/ RunShown
    \/ Present
    \/ Consent
    \/ EndJob

Spec == Init /\ [][Next]_gateVars
=============================================================================
