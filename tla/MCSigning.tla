----------------------------- MODULE MCSigning -----------------------------
(* Small instances of the signing path for TLC. *)
EXTENDS SigningSession, TLC

CONSTANTS h1, s1, s2, a1, a2, hard, soft, t1, n1, to

Own(path) == [account |-> a1, path |-> path]
Foreign == [account |-> a2, path |-> hard]

Secp(seed, path) == PublicKey(Secret("Secp256k1Bip32", seed, path), "Compressed")
Ed(seed, path) == PublicKey(Secret("Ed25519Slip10", seed, path), "Raw")

PublicKeyRequests ==
    [chain: {"bitcoin", "ethereum", "solana"}, kind: {"ShowAddress"}, key: {Own(hard)}]
    \cup [chain: {"ethereum"}, kind: {"ExportPublicKey"}, key: {Own(hard), Foreign}]
    \cup [chain: {"solana"}, kind: {"ExportPublicKey"}, key: {Own(soft)}]
Unsupported ==
    [chain: {"bitcoin", "ethereum", "solana"}, kind: {"SignMessage"}]

Tx(amount) == [type |-> "UnsignedTx", tx |-> [id |-> t1, amount |-> amount]]
Utxo(owner) == [type |-> "WitnessUtxo", amount |-> 2,
                program |-> Digest("Hash160", owner)]
Derivation(pubkey) == [type |-> "Bip32Derivation", pubkey |-> pubkey]
SighashType(value) == [type |-> "SighashType", value |-> value]
Plain(type) == [type |-> type]

Psbt(global, input) == [global |-> global, input |-> input, rest |-> "Empty"]
GoodPsbt == Psbt(<<Tx(1)>>, <<Utxo(Secp(s1, hard))>>)
Psbts ==
    \* who owns the input, and what the PSBT says about it
    {Psbt(<<Plain("Version0"), Tx(1)>>, <<Utxo(Secp(owner, hard))>>) : owner \in {s1, s2}}
    \cup
    {Psbt(<<Tx(1)>>, <<Utxo(Secp(s1, hard)), Derivation(k)>>)
        : k \in {Secp(s1, hard), Secp(s1, soft)}}
    \cup
    \* the input map in other orders, incomplete, repeated
    {Psbt(<<Tx(1)>>, fields)
        : fields \in {<<>>,
                      <<Plain("NonWitnessUtxo"), SighashType("All")>>,
                      <<SighashType("Single"), Utxo(Secp(s1, hard))>>,
                      <<SighashType("Single"), SighashType("All"), Utxo(Secp(s1, hard))>>,
                      <<Utxo(Secp(s1, hard)), Utxo(Secp(s2, hard))>>,
                      <<Derivation(Secp(s1, hard)), Utxo(Secp(s1, hard)),
                        Derivation(Secp(s1, soft))>>,
                      <<[Utxo(Secp(s1, hard)) EXCEPT !.program = None]>>,
                      <<Utxo(Secp(s1, hard)), Plain("Other")>>}}
    \cup
    {Psbt(fields, <<Utxo(Secp(s1, hard))>>)
        : fields \in {<<>>, <<Plain("Other")>>, <<Tx(1), Tx(2)>>, <<Tx(2)>>, <<Tx(3)>>,
                      <<[Tx(1) EXCEPT !.tx = None]>>}}
    \cup {[GoodPsbt EXCEPT !.rest = "TrailingBytes"]}

Bytes(payload) == [is_list |-> FALSE, payload |-> payload]
List(payload) == [is_list |-> TRUE, payload |-> payload]
Transfer == [envelope |-> "Ok",
             fields |-> <<Bytes(n1), Bytes(None), Bytes(n1), Bytes(n1), Bytes(n1),
                          Bytes(to), Bytes(n1), Bytes(None), List(None)>>]
With(i, item) == [Transfer EXCEPT !.fields[i] = item]
Eip1559s ==
    {Transfer, With(7, Bytes(None)), [Transfer EXCEPT !.envelope = "NonCanonicalRlp"],
     [Transfer EXCEPT !.fields = SubSeq(@, 1, 8)],
     With(2, List(None)), With(7, Bytes(to)),
     With(6, Bytes(None)), With(6, Bytes(n1)), With(6, List(to)),
     With(8, Bytes(n1)), With(8, List(None)), With(9, List(to)), With(9, Bytes(None))}

Instruction == [program |-> 2, accounts |-> <<0, 1>>, type |-> "Transfer", lamports |-> 1]
Message(signer) == [encoding |-> "Ok", header |-> <<1, 0, 1>>,
                    accounts |-> <<signer, to, "SystemProgram">>,
                    instructions |-> <<Instruction>>]
Mine == Message(Ed(s1, hard))
Messages ==
    {Mine, Message(Ed(s2, hard)),
     [Mine EXCEPT !.encoding = "TrailingBytes"],
     [Mine EXCEPT !.header = <<2, 0, 1>>],
     [Mine EXCEPT !.accounts = Append(@, to)],
     [Mine EXCEPT !.accounts[3] = to],
     [Mine EXCEPT !.instructions = @ \o @],
     [Mine EXCEPT !.instructions[1].program = 1],
     [Mine EXCEPT !.instructions[1].accounts = <<1, 0>>],
     [Mine EXCEPT !.instructions[1].type = "Other"]}

SigningRequests ==
    [chain: {"bitcoin"}, kind: {"SignTransaction"}, key: {Own(hard)}, psbt: Psbts]
    \cup [chain: {"ethereum"}, kind: {"SignTransaction"},
          key: {Own(hard)}, unsigned: Eip1559s]
    \cup [chain: {"ethereum"}, kind: {"SignTransaction"},
          key: {Own(soft), Foreign}, unsigned: {Transfer}]
    \cup [chain: {"solana"}, kind: {"SignTransaction"}, key: {Own(hard)}, message: Messages]
    \cup [chain: {"solana"}, kind: {"SignTransaction"}, key: {Own(soft)}, message: {Mine}]

AllRequests == PublicKeyRequests \cup Unsupported \cup SigningRequests
=============================================================================
