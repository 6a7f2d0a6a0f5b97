----------------------------- MODULE ChainSolana -----------------------------
(***************************************************************************)
(* The Solana adapter (crates/chain-solana): a system transfer names its   *)
(* signer, which the execution compares with the wallet's key before it    *)
(* asks for the signature over the message.                                *)
(***************************************************************************)
EXTENDS ChainApi, Naturals, Sequences

\* parse_system_transfer: one signer, one writable recipient, one instruction
\* of the system program, and not a byte more.  The cursor's own refusals are
\* the encoding's.
ParseTransferRefusal(message) ==
    LET instruction == message.instructions[1]
    IN OrElse(Unless(message.encoding = "Ok", message.encoding),
       OrElse(Unless(message.header = <<1, 0, 1>>, "UnsupportedHeader"),
       OrElse(Unless(Len(message.accounts) = 3, "UnsupportedAccounts"),
       OrElse(Unless(message.accounts[3] = "SystemProgram", "UnsupportedProgram"),
       OrElse(Unless(Len(message.instructions) = 1, "UnsupportedInstruction"),
       OrElse(Unless(instruction.program = 2, "UnsupportedProgram"),
              Unless(instruction.accounts = <<0, 1>> /\ instruction.type = "Transfer",
                     "UnsupportedInstruction")))))))

TransferReview(request) ==
    [chain |-> "solana", kind |-> "SignTransaction", key |-> request.key,
     signer |-> request.message.accounts[1],
     recipient |-> request.message.accounts[2],
     lamports |-> request.message.instructions[1].lamports,
     message |-> request.message]

SolanaReview(request) ==
    CASE request.kind \in PublicKeyKinds -> Ok(PublicKeyReview("solana", request))
      [] request.kind = "SignMessage" -> Err("ParserNotImplemented")
      [] request.kind = "SignTransaction" ->
            IF ParseTransferRefusal(request.message) = {}
            THEN Ok(TransferReview(request))
            ELSE Err(CHOOSE e \in ParseTransferRefusal(request.message) : TRUE)

\* prepare_execution
SolanaExecution(review, context) ==
    IF review.kind \in PublicKeyKinds
    THEN PublicKeyExecution(review, context, "Raw")
    ELSE [chain |-> "solana", kind |-> "SystemTransfer", stage |-> "Ready",
          key |-> BindKey(context, review.key), format |-> "Raw",
          signer |-> review.signer, message |-> review.message]

\* payload()
SolanaPayload(id) == IF id = "Transfer" THEN exec.message ELSE None

-----------------------------------------------------------------------------
(* Execution::next *)

SolanaStart ==
    exec.chain = "solana"
      /\ Start("AwaitingPublicKey", DerivePublicKey(exec.key, exec.format))

SignerRefusal ==
    OrElse(Unless(IsOutput("PublicKey"), "UnexpectedCryptoResult"),
           Unless(/\ answer # None
                  /\ answer.format = "Raw" /\ answer.bytes = exec.signer,
                  "SignerMismatch"))

AcceptSigner ==
    /\ exec.chain = "solana" /\ exec.kind = "SystemTransfer"
    /\ exec.stage = "AwaitingPublicKey"
    /\ \/ \E e \in SignerRefusal : Refuse(e)
       \/ /\ SignerRefusal = {}
          /\ exec' = [exec EXCEPT !.stage = "AwaitingSignature"]
          /\ AskFor(Sign(exec.key, "Ed25519", "None", "Transfer"))

AcceptTransferSignature ==
    /\ exec.chain = "solana" /\ exec.kind = "SystemTransfer"
    /\ exec.stage = "AwaitingSignature"
    /\ LET refusal == OrElse(Unless(IsOutput("Signature"),
                                    "UnexpectedCryptoResult"),
                             Unless(/\ answer # None
                                    /\ answer.scheme = "Ed25519"
                                    /\ answer.recovery_id = None,
                                    "InvalidSignature"))
       IN \/ \E e \in refusal : Refuse(e)
          \/ /\ refusal = {}
             /\ Finish([type |-> "SignedTransaction", message |-> exec.message,
                        signature |-> answer.bytes])

SolanaNext ==
    \/ SolanaStart
    \/ exec.chain = "solana" /\ AcceptPublicKeyOnly("AwaitingPublicKey")
    \/ AcceptSigner
    \/ AcceptTransferSignature
=============================================================================
