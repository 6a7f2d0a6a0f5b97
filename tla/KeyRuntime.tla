----------------------------- MODULE KeyRuntime -----------------------------
(***************************************************************************)
(* The key side of the boundary: the HD key source of an account           *)
(* (crates/hd-key-backend), the one-key software backend it materializes   *)
(* and CryptoRuntime::execute (crates/crypto-runtime).                     *)
(*                                                                         *)
(* Derivation, hashing and signing are external and ideal: distinct inputs *)
(* have distinct results, so a result is the record of its inputs.         *)
(***************************************************************************)
CONSTANTS
    None,           \* Option::None
    Account,        \* AccountDescriptor::id of the device-owned account
    HardenedPaths   \* relative paths all of whose children are hardened

\* A check, as the set of its refusals.
Unless(condition, error) == IF condition THEN {} ELSE {error}
\* The first check that fails decides.
OrElse(refusal, next) == IF refusal # {} THEN refusal ELSE next

Family(chain) == IF chain = "solana" THEN "Ed25519Slip10" ELSE "Secp256k1Bip32"

\* HdKeyBackend::new for the account of a wallet context with this seed.
HdKeyBackend(context, seed, chain) ==
    [wallet |-> context, account |-> Account, family |-> Family(chain),
     seed |-> seed]

\* HdKeyBackend::authorize
HdAuthorize(hd, key) ==
    OrElse(Unless(key.wallet = hd.wallet, "WrongWallet"),
           Unless(key.target.account = hd.account, "WrongAccount"))

DeriveRefusal(hd, key) ==
    OrElse(HdAuthorize(hd, key),
           Unless(hd.family = "Ed25519Slip10" => key.target.path \in HardenedPaths,
                  "Ed25519RequiresHardened"))

\* A derived secret: BIP-32 or SLIP-0010 from the seed along the root of the
\* account, which is fixed, and the path.
Secret(family, seed, path) == [family |-> family, seed |-> seed, path |-> path]

\* HdKeyBackend::software_backend, once nothing refused it.
SoftwareBackend(hd, key) ==
    [wallet |-> hd.wallet, target |-> key.target,
     secret |-> Secret(hd.family, hd.seed, key.target.path)]

-----------------------------------------------------------------------------
(* CryptoRuntime<SoftwareKeyBackend> *)

\* Mutant: any key of the wallet will do.
Authorize_AnyTarget(backend, key) ==
    Unless(key.wallet = backend.wallet, "WrongWallet")
\* SoftwareKeyBackend::authorize
Authorize(backend, key) ==
    OrElse(Unless(key.wallet = backend.wallet, "WrongWallet"),
           Unless(key.target = backend.target, "WrongKeyTarget"))

Formats(family) ==
    IF family = "Ed25519Slip10" THEN {"Raw"}
    ELSE {"Compressed", "Uncompressed", "XOnly", "Raw"}
Schemes(family) ==
    IF family = "Ed25519Slip10" THEN {"Ed25519"} ELSE {"Ecdsa", "EcdsaRecoverable"}
Hashes == {"Sha256", "DoubleSha256", "Hash160", "Keccak256", "Sha512_256"}
Prehashes(family) ==
    IF family = "Ed25519Slip10" THEN {"None"} ELSE Hashes \ {"Hash160"}

PublicKey(secret, format) == [secret |-> secret, format |-> format]
Digest(algorithm, payload) == [algorithm |-> algorithm, of |-> payload]

\* Why execute refuses an operation with this payload.
ExecuteRefusal(backend, request, payload) ==
    CASE request.type = "DerivePublicKey" ->
            OrElse(Unless(payload = None, "UnexpectedPayload"),
            OrElse(Authorize(backend, request.key),
                   Unless(request.format \in Formats(backend.secret.family),
                          "UnsupportedPublicKeyFormat")))
      [] request.type = "Hash" ->
            OrElse(Unless(payload # None, "MissingPayload"),
                   Unless(request.algorithm \in Hashes, "UnsupportedHash"))
      [] request.type = "Sign" ->
            OrElse(Unless(payload # None, "MissingPayload"),
            OrElse(Authorize(backend, request.key),
            OrElse(Unless(request.scheme \in Schemes(backend.secret.family),
                          "UnsupportedSignatureScheme"),
                   Unless(request.prehash \in Prehashes(backend.secret.family),
                          "UnsupportedHash"))))

\* The recovery id is 2 or 3 when the x coordinate was reduced.
RecoveryIds(scheme) == IF scheme = "EcdsaRecoverable" THEN {0, 2} ELSE {None}

\* The outputs execute may return.
ExecuteOutput(backend, request, payload) ==
    CASE request.type = "DerivePublicKey" ->
            {[type |-> "PublicKey", format |-> request.format,
              bytes |-> PublicKey(backend.secret, request.format)]}
      [] request.type = "Hash" ->
            {[type |-> "Digest", algorithm |-> request.algorithm,
              bytes |-> Digest(request.algorithm, payload)]}
      [] request.type = "Sign" ->
            {[type |-> "Signature", scheme |-> request.scheme, recovery_id |-> id,
              bytes |-> [secret |-> backend.secret, prehash |-> request.prehash,
                         payload |-> payload]]
                : id \in RecoveryIds(request.scheme)}
=============================================================================
