------------------------------ MODULE Operation ------------------------------
(***************************************************************************)
(* Chain operations, from request through review to execution:             *)
(* reducer/operation.rs.                                                   *)
(***************************************************************************)
EXTENDS WalletState

\* OperationKind::uses_private_key and OperationKind::requires_confirmation.
UsesPrivateKey(kind) == kind \in KeyKind
RequiresConfirmation(kind) == kind \in KeyKind \cup {"ExportPublicKey"}

IsOperation == flow.tag = "Operation"

OperationRequested(id, host) ==
    \/ /\ RequestRefusal(host) # Accepted
       /\ RejectOperation(id, RequestRefusal(host))
    \/ /\ RequestRefusal(host) = Accepted
       /\ flow' = [tag |-> "Operation", id |-> id, host |-> host,
                   wallet |-> auth.wallet, kind |-> "None",
                   stage |-> [tag |-> "PreparingReview"]]
       /\ effect' = [tag |-> "PrepareOperationReview", id |-> id]
       /\ UNCHANGED <<lifecycle, auth, policy>>

\* Handlers of a pending operation answer a foreign event with Reject and an
\* event for the wrong stage with RejectOperation; both keep the flow.
OperationRefusal(id) == CallbackRefusal(IsOperation, flow.id, id)

RefuseOperation(id, stages) ==
    \/ OperationRefusal(id) # Accepted /\ Reject(OperationRefusal(id))
    \/ /\ OperationRefusal(id) = Accepted
       /\ flow.stage.tag \notin stages
       /\ RejectOperation(id, "InvalidState")

IsAwaited(id, stages) ==
    OperationRefusal(id) = Accepted /\ flow.stage.tag \in stages

\* The pending operation ends.
EndOperation(report) ==
    /\ flow' = Idle
    /\ effect' = report
    /\ UNCHANGED <<lifecycle, auth, policy>>

AdvanceOperation(kind, stage, report) ==
    /\ flow' = [flow EXCEPT !.kind = kind, !.stage = stage]
    /\ effect' = report
    /\ UNCHANGED <<lifecycle, auth, policy>>

\* Mutant: the stage stays behind.
Execute_InPlace(id, kind) ==
    AdvanceOperation(kind, flow.stage, [tag |-> "ExecuteOperation", id |-> id])
Execute(id, kind) ==
    AdvanceOperation(kind, [tag |-> "Executing"],
                     [tag |-> "ExecuteOperation", id |-> id])

OperationDropped(id, reason) ==
    EndOperation([tag |-> "RejectOperation", id |-> id, reason |-> reason])

\* Mutant: the declared use of a key is ignored.
MinimumInteraction_KindOnly(kind, key) ==
    IF kind \in KeyKind \cup {"ExportPublicKey"} THEN "Confirm"
    ELSE IF kind \in {"ShowAddress", "CreateAccount"} THEN "Display"
    ELSE "Silent"
MinimumInteraction(kind, key) ==
    IF key \/ kind \in KeyKind \cup {"ExportPublicKey"} THEN "Confirm"
    ELSE IF kind \in {"ShowAddress", "CreateAccount"} THEN "Display"
    ELSE "Silent"

StrongestInteraction(left, right) ==
    IF "Confirm" \in {left, right} THEN "Confirm"
    ELSE IF "Display" \in {left, right} THEN "Display"
    ELSE "Silent"

PlanUsesKey(plan) == plan.uses_private_key \/ UsesPrivateKey(plan.kind)

\* The plan with the key use and the interaction the reducer enforces.
EnforcedPlan(plan) ==
    [kind |-> plan.kind, uses_private_key |-> PlanUsesKey(plan),
     assurance |-> plan.assurance,
     interaction |-> StrongestInteraction(plan.interaction,
                         MinimumInteraction(plan.kind, PlanUsesKey(plan)))]

\* The session still is the one that asked.
SessionRefusal ==
    IF ~IsUnlocked THEN "Locked"
    ELSE IF auth.host # flow.host \/ auth.wallet # flow.wallet
         THEN "InvalidState"
    ELSE Accepted

\* Mutant: the kind's use of a key is ignored.
PolicyRefusal_Declared(plan) ==
    IF SessionRefusal # Accepted THEN SessionRefusal
    ELSE IF plan.assurance = "Blind" /\ policy.blind_signing = "Deny"
         THEN "BlindSigningDisabled"
    ELSE IF plan.uses_private_key /\ policy.signing_hosts = "TrustedOnly"
            /\ auth.trust # "Trusted"
         THEN "UntrustedHost"
    ELSE Accepted
PolicyRefusal(plan) ==
    IF SessionRefusal # Accepted THEN SessionRefusal
    ELSE IF plan.assurance = "Blind" /\ policy.blind_signing = "Deny"
         THEN "BlindSigningDisabled"
    ELSE IF PlanUsesKey(plan) /\ policy.signing_hosts = "TrustedOnly"
            /\ auth.trust # "Trusted"
         THEN "UntrustedHost"
    ELSE Accepted

ReviewPrepared(id, plan) ==
    LET enforced == EnforcedPlan(plan)
    IN \/ RefuseOperation(id, {"PreparingReview"})
       \/ /\ IsAwaited(id, {"PreparingReview"})
          /\ PolicyRefusal(plan) # Accepted
          /\ OperationDropped(id, PolicyRefusal(plan))
       \/ /\ IsAwaited(id, {"PreparingReview"})
          /\ PolicyRefusal(plan) = Accepted
          /\ \/ /\ enforced.interaction = "Silent"
                /\ Execute(id, plan.kind)
             \/ /\ enforced.interaction # "Silent"
                /\ AdvanceOperation(plan.kind,
                       [tag |-> "Displaying", plan |-> enforced],
                       [tag |-> "RenderOperationReview", id |-> id])

ReviewDisplayed(id) ==
    \/ RefuseOperation(id, {"Displaying"})
    \/ /\ IsAwaited(id, {"Displaying"})
       /\ IF flow.stage.plan.interaction = "Display"
          THEN Execute(id, flow.kind)
          ELSE IF flow.stage.plan.interaction = "Confirm"
          THEN AdvanceOperation(flow.kind,
                   [tag |-> "Reviewing", plan |-> flow.stage.plan], NoEffect)
          ELSE RejectOperation(id, "InvalidState")

\* A reviewed plan that asks for no confirmation is refused in place; a
\* session that changed drops the operation.
OperationConfirmed(id) ==
    \/ RefuseOperation(id, {"Reviewing"})
    \/ /\ IsAwaited(id, {"Reviewing"})
       /\ IF flow.stage.plan.interaction # "Confirm"
          THEN RejectOperation(id, "InvalidState")
          ELSE IF SessionRefusal # Accepted
          THEN OperationDropped(id, SessionRefusal)
          ELSE Execute(id, flow.kind)

OperationRejected(id) ==
    \/ RefuseOperation(id, {"Displaying", "Reviewing"})
    \/ /\ IsAwaited(id, {"Displaying", "Reviewing"})
       /\ OperationDropped(id, "UserRejected")

OperationFinished(id, success) ==
    \/ RefuseOperation(id, {"Executing"})
    \/ /\ IsAwaited(id, {"Executing"})
       /\ IF success
          THEN EndOperation([tag |-> "CompleteOperation", id |-> id])
          ELSE OperationDropped(id, "ExecutionFailed")

OperationCompleted(id) == OperationFinished(id, TRUE)
OperationFailed(id) == OperationFinished(id, FALSE)

OperationCancelled(id) ==
    \/ OperationRefusal(id) # Accepted /\ Reject(OperationRefusal(id))
    \/ /\ OperationRefusal(id) = Accepted
       /\ EndOperation([tag |-> "AbortOperation", id |-> id])

-----------------------------------------------------------------------------
(* The reducer as SigningGate sees it *)

Phase == [PreparingReview |-> "Submitted", Displaying |-> "Planned",
          Reviewing |-> "Presented", Executing |-> "Running"]

GateSession ==
    IF IsUnlocked
    THEN [tag |-> "Open", host |-> auth.host, wallet |-> auth.wallet,
          trust |-> auth.trust]
    ELSE [tag |-> "Closed"]
=============================================================================
