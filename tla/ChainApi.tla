------------------------------ MODULE ChainApi ------------------------------
(***************************************************************************)
(* The boundary between a chain adapter and the runtime that drives it     *)
(* (crates/chain-api) with the key and crypto vocabulary of wallet-core    *)
(* (key.rs, crypto.rs).  An execution is a coroutine: next() consumes the  *)
(* answer to the operation it asked for last and either asks for another   *)
(* one, completes, or fails; a failure leaves its stage alone.             *)
(***************************************************************************)
EXTENDS KeyRuntime

VARIABLES
    exec,      \* the adapter's Execution, or None
    op,        \* the CryptoOperation it asked for last, or None
    answer,    \* the CryptoOutput the driver holds for it, or None
    outcome    \* of the last call: Pending, Complete(response) or Err(error)

execVars == <<exec, op, answer, outcome>>

Ok(value) == [tag |-> "Ok", value |-> value]
Err(error) == [tag |-> "Err", error |-> error]
Complete(response) == [tag |-> "Complete", response |-> response]
Pending == [tag |-> "Pending"]

\* ExecutionContext::bind_key
BindKey(context, target) == [wallet |-> context, target |-> target]

-----------------------------------------------------------------------------
(* CryptoOperation and CryptoOutput *)

DerivePublicKey(key, format) ==
    [type |-> "DerivePublicKey", key |-> key, format |-> format]
Hash(algorithm, payload) ==
    [type |-> "Hash", algorithm |-> algorithm, payload |-> payload]
Sign(key, scheme, prehash, payload) ==
    [type |-> "Sign", key |-> key, scheme |-> scheme, prehash |-> prehash,
     payload |-> payload]

IsOutput(type) == answer # None /\ answer.type = type

-----------------------------------------------------------------------------
(* The three results of next() *)

Refuse(error) ==
    /\ outcome' = Err(error)
    /\ answer' = None
    /\ UNCHANGED <<exec, op>>

AskFor(request) ==
    /\ op' = request
    /\ answer' = None
    /\ outcome' = Pending

Finish(response) ==
    /\ exec' = [exec EXCEPT !.stage = "Finished"]
    /\ outcome' = Complete(response)
    /\ op' = None
    /\ answer' = None

\* What every adapter does first and last.  (No answer exists before the
\* first operation, so the refusal of one in Ready cannot occur.)
Start(stage, request) ==
    /\ exec.stage = "Ready"
    /\ answer = None
    /\ exec' = [exec EXCEPT !.stage = stage]
    /\ AskFor(request)

ExecutionFinished == exec.stage = "Finished" /\ Refuse("ExecutionFinished")

-----------------------------------------------------------------------------
(* Requests for a public key are the same in every adapter but for the     *)
(* format.                                                                 *)

PublicKeyKinds == {"ShowAddress", "ExportPublicKey"}

PublicKeyReview(chain, request) ==
    [chain |-> chain, kind |-> request.kind, key |-> request.key]

\* review_plan: what the adapter tells the reducer about a review.
\* Mutant: signing is announced like an address.
SigningPlan_AsAddress == [kind |-> "ShowAddress", uses_private_key |-> FALSE,
                          interaction |-> "Display"]
SigningPlan == [kind |-> "SignTransaction", uses_private_key |-> TRUE,
                interaction |-> "Confirm"]
PublicKeyPlan(kind) ==
    [kind |-> kind, uses_private_key |-> FALSE,
     interaction |-> IF kind = "ShowAddress" THEN "Display" ELSE "Confirm"]

PublicKeyExecution(review, context, format) ==
    [chain |-> review.chain, kind |-> "PublicKey", stage |-> "Ready",
     key |-> BindKey(context, review.key), format |-> format]

AcceptPublicKeyOnly(stage) ==
    /\ exec.kind = "PublicKey"
    /\ exec.stage = stage
    /\ LET expected == IsOutput("PublicKey") /\ answer.format = exec.format
       IN \/ ~expected /\ Refuse("UnexpectedCryptoResult")
          \/ expected /\ Finish([type |-> "PublicKey", bytes |-> answer.bytes])
=============================================================================
