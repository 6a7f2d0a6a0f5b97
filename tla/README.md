# Verification of the hardware wallet

TLA+ models of the wallet in `src/`, the TLC runs that check them on small
instances, and TLAPS proofs of their main properties for every instance.
`PROJECT.json` lists the components, the runs, the lines every definition
models, the hazards and the theorems.

## 1. The system

| part | state it keeps | operations | talks to |
|---|---|---|---|
| `crates/wallet-core` reducer | `State` = lifecycle, auth, flow, policy; no secrets | `update(state, event)`: 44 events; `restore`, `persistent_snapshot` | the runtime: every `Effect` it returns is executed outside and answered later by an `Event` |
| `wallet-core/key.rs`, `crypto.rs` | none; capability types | `execution_context`, `bind_key` | chain adapters, crypto runtime |
| `crates/key-lifecycle` | the staged root, the context counter, a handle on the store | `begin_create`, `begin_recovery`, `pending_mnemonic`, `commit_pending`, `cancel_pending`, `open_context`, `wipe` | `RootStore` and `EntropySource`, supplied by the board |
| `firmware-budget/virtual_device.rs` | two record slots, a commit counter | `AtomicStore::commit`, `selected` | the emulated flash |
| `firmware-budget/main.rs` | none | links and calls every crate once | all crates |
| `crates/chain-api` | bounded buffers | `ChainModule`, `ChainExecution` contracts | chain adapters and their driver |
| `crates/chain-{bitcoin,ethereum,solana}` | one execution: stage, keys and digests collected so far | `prepare_review`, `review_plan`, `prepare_execution`, `next`, `payload` | the crypto runtime, through the driver |
| `crates/crypto-runtime`, `crates/hd-key-backend` | one secret, the wallet and key it belongs to | `authorize`, `derive_public_key`, `sign`, `execute`, `software_backend` | chain executions |
| `demos/browser-wallet` | a screen, PIN digits, timers, a reducer state; the loop's gesture and last frame | button presses and ticks; poll, publish, WFI | the reducer; the display through a mailbox |
| the device runtime (the embedder's; `key-lifecycle/tests/domain_flow.rs` is its reference) | effects to carry out, answers to deliver, what the backends store | carries out effects, delivers events | the reducer, `KeyLifecycle`, PIN, host and settings storage |
| `tools/*.py` | none | budget and measurement reports | CI |

The reducer is sequential. What is hard about it is the asynchrony around it:
host requests, user decisions and backend callbacks arrive in any order, late,
twice, or with the id of something that no longer exists, and between any two
of them the device may lock, lose its host, fail, detect tampering or reboot.
The handlers that finish a flow (`review_displayed`, `operation_confirmed`,
`setting_change_persisted`, `session_opened`) trust facts that were tested
several events earlier. The key lifecycle and the record store face the other
kind of difficulty: a medium that fails or loses power in the middle of a call.
The demo firmware is a polling loop: buttons, clock and screen change between
any two of its reads. The byte formats have their own kind of hardness, two
encodings of one value at the border of two forms.
The list of hazards, each at its line, is in `PROJECT.json`.

What makes each part correct:

* reducer: a flow belongs to the open session; nothing runs without the consent
  the policy asks for, or twice; a session is earned by this attempt's PIN,
  trust and passphrase; PIN failures are not forgotten and the budget holds;
  settings change only by approval; a wipe ends in an empty wallet; a backup
  called verified was verified;
* key lifecycle: the backup is that of the root that will be installed; a
  failing store loses nothing; a wiped root does not return; a context id names
  one seed;
* record store: readers see the old or the new record, never a mixture;
* signing path: the response is the reviewed one, made with the reviewed key of
  the session's wallet; a key proves itself before it signs; no signature
  without the consent of the running operation, unless an execution is kept
  while the device is wiped; every execution ends;
* byte formats: one encoding per value; the signed envelope carries the bytes
  that were reviewed;
* device: a session works on the installed root, a provisioned wallet has a
  root with a proven backup, nothing takes effect before it is stored, trust is
  backed by storage, every request ends;
* demo firmware: the screen and the reducer agree, an approval is the user's, a
  gesture acts on what was shown, a signature ends, an idle device locks.

## 2. Modules

| module | models | remarks |
|---|---|---|
| `WalletState` | `state.rs`, `policy.rs`, `effect.rs`, shared helpers of the reducer | the types of the four state fields, `lifecycle`, `auth`, `flow`, `policy`, and the last `effect`; `Accepted`/`Reject` |
| `Provisioning`, `Auth`, `Operation`, `Settings`, `Maintenance` | the files of the same names under `reducer/` | one action per handler. A handler is its refusal, the set of reasons for which the early returns refuse the event in code order, or its effect on the state |
| `WalletCore` | `reducer/mod.rs`, `event.rs`, restart | `Next` has one disjunct per event, plus `Restart` (`restore` of `persistent_snapshot`) |
| `SigningGate` | abstract | what a host and a user are promised; `WalletCore` and, with its screens and loop, `DemoFirmware` implement it (`ImplementsGate`) |
| `KeyLifecycle` | `key-lifecycle/src/lib.rs` | `root` is the medium; a failing `persist_root` or `wipe_root` may or may not have taken effect, because the trait does not say |
| `AtomicStore` | `Slot` and `AtomicStore` of `virtual_device.rs` | one step per field write |
| `AtomicRegister` | abstract | what a durable record promises; `AtomicStore` implements it (`ImplementsRegister`) |
| `KeyRuntime` | `hd-key-backend`, `crypto-runtime` | operators: authorisation, what execute refuses and returns; a digest, public key or signature is the record of its inputs, so distinct inputs have distinct results |
| `ChainApi` | `chain-api`, `key.rs`, `crypto.rs` | the state of one execution (`exec`, `op`, `answer`, `outcome`) and the results of `next`; what all adapters do alike |
| `ChainBitcoin`, `ChainEthereum`, `ChainSolana` | the adapters | one action per stage of `Execution::next`; parsers over fields of a PSBT, RLP items, parts of a Solana message; the bytes below them are in `WireFormats` |
| `SigningSession` | the loop of the `*_e2e.rs` examples | composes the adapters, the key runtime and, in place of the reducer, its abstract specification `SigningGate`; the reducer's refusals are stutters of the gate |
| `WireFormats` | RLP and the EIP-1559 envelope, compact sizes, DER, short vectors of the three adapters | readers and writers as functions on sequences of bytes, a loop over bytes or fields as a recursive function of the position; a refusal is `Failure`, whatever its reason |
| `WireInput` | | what those functions meet: pieces of bytes, transfers with a field or byte altered, everything the signer writes |
| `WalletDemo` | `demos/browser-wallet/src/lib.rs` | one operator per screen's input, `tick`, and the calls of the reducer; `call` is the reducer call a handler has begun, as the handlers feed several events |
| `DemoFirmware` | `demos/browser-wallet/src/main.rs` | the loop: tick, poll, publish, WFI. `origin` is an observer, the frame on the display when the gesture began |
| `BackendProtocol` | what reducer and backends say to each other | the effects that are jobs, the events that are answers, the handler of each answer |
| `DeviceRuntime` | the embedder's loop | `jobs`, the effects still to carry out, `answers`, the events still to deliver; answers arrive in any order, effects are carried out in the order they were returned |
| `SecretDevice` | reducer, runtime and `KeyLifecycle` | the store may fail at each call, with or without taking effect; power loss between any two steps |
| `DurableDevice` | reducer, runtime and the storage of PIN counter, hosts, policy | each backend writes, then answers; `disk` is what survives |
| `MC*` | | instances for TLC |
| `HandlerLemmas` | | what every reducer handler does to state and effect, shared by the proofs about the reducer and the devices |
| `WalletCoreProofs`, `AtomicStoreProofs`, `SigningProofs`, `DurableDeviceProofs`, `SecretDeviceProofs`, `DemoProofs`, `WireProofs` | | the proofs |

The reducer's inputs are as wide as its type allows: every event is possible in
every state, with every id, host, plan, retry count and setting. This contains
every correct and every faulty runtime, so the properties need no assumption
about the embedder.

`WalletCore.seen` is an observer. It records what the device has really
witnessed about the present setup, unlock attempt, operation and setting change
(a PIN verified, a review shown, a change approved). It is written from the
event and the question that was outstanding when the event came, and a fact
ends with its subject; the reducer's decision does not enter. The properties
compare the reducer's state with these facts. `KeyLifecycle` has observers of
the same sort (`contexts`, `backup`, `erased`).

Definitions whose names end in an underscore and a word (`LockWallet_Forgets`)
are mutants: the operator that follows them, with a plausible mistake. No
specification uses them; `PROJECT.json` says which property each must break.

Abstractions: ids, hosts, wallet contexts, roots and passphrases are model
values compared only for equality, as in the code. A record is identified with
its digest. BIP-39 is abstracted to "a mnemonic names one root"; an unsupported
mnemonic is one outcome of `begin_recovery`. Secrets and their zeroisation are
not represented.

## 3. Runs

| run | question | bounds |
|---|---|---|
| `core_operation` | Do operations stay bound to session, policy and consent, run at most once, and does the reducer implement the gate? | 2 hosts, 2 ids, 2 wallet contexts (a foreign one of each exists), one operation kind per class of `uses_private_key` / `requires_confirmation` / display, all assurances and interactions, the setting changes that signing depends on; PIN budget 1 |
| `core_session` | Are sessions earned, retries remembered, settings approved, wipes final, backup claims true? | 2 hosts, 2 ids, all passphrase modes, creation and recovery, PIN budget 2 with reported counts up to 3 so that a report can jump over the budget; the setting changes that unlocking depends on |
| `key_lifecycle` | Do backups, installed roots and context ids stay consistent under failing stores, wipes and reboots? | 2 roots, 2 passphrases, context ids up to 4, so that the counter runs out |
| `atomic_store` | Is a commit atomic under power loss? | 2 payloads, 4 generations: both slots are rewritten, in both orders |
| `signing` | Is what leaves the device what was reviewed, made with the proven, reviewed key, and signed only in the session and operation that were confirmed? Does every operation handed to the driver end? | 1 host, 2 seeds, context ids 1 and 2 and again 1 and 2 after every wipe, a hardened, a soft and a foreign key, on each chain requests that pass and one per parser check that fail, a PSBT key that agrees, disagrees or is missing; the driver may retry, call `next` too early, keep the runtime for the next operation, and go on after a lock or a wipe |
| `demo_firmware` | Do screen and reducer agree, are approvals and PIN entries the user's, do gestures act on what was shown? | a PIN of 2 binary digits, 2 recovery words, sleep after 2 ticks, clock steps 0 and 1, a hold of 1, frame numbers modulo 3 |
| `demo_live` | Does signing end, does a device left alone lock? | the same with one digit and one word, fair clock |
| `demo_display` | violated: does the display show the present frame? | see findings |
| `secret_device` | Does a session use the installed root, does a provisioned wallet have the root whose backup was proved, is a wiped root gone, does every request end? | 1 host, 2 ids, 2 roots, context ids up to 3, 3 messages in flight when an event arrives |
| `secret_late_wipe` | violated: does WipeCompleted mean the root is gone? | the same |
| `durable_device` | Does nothing take effect before it is stored, is trust backed, do sessions follow a reset counter, does exhaustion wipe, does every request end? | 2 hosts, 2 ids, PIN budget 2 with counts up to 3, settings an unlock depends on, 2 messages in flight |
| `wire_formats` | Does every reader accept one encoding, and does the signed envelope carry what was reviewed? | numbers of 2 bytes, 4 bytes before the last piece, pieces and runs around 55/56, 127/128, 252/253 and 65535, one field or byte altered |

Two values of every id are enough to have the right one and a wrong one: no
handler compares more than two. The theorems below confirm that the bounds hide
nothing from the safety properties of these runs. Deadlock is checked: in
each model something can always happen, because rejecting an event, losing
power, or locking a locked device, is a step.

`MaxRetryCount` stands for 255 (`u8::MAX`), `MaxContextId` for `u32::MAX`.
`MaxGeneration` is a bound on `AtomicStore.generation`; the code's `u32` would
wrap after 2^32 commits, which is not modelled. `MaxPinAttempts` is at least 1
by assumption; the field is a public `u8`, and with 0 the remaining attempts
after a failure would be none, which `SecurityPolicy`'s users do not configure.

`SigningSession` counts context ids up as `open_context` does and begins at 1
again after a wipe, as `wipe` does (`key-lifecycle/src/lib.rs:288-291, 304`); when
all are used only a wipe helps. Two ids and two seeds give an execution left over
from one session a later session with the same seed and one with another, under
another id and, after a wipe, under its own. A restart begins at 1 as well but
takes executions and keys in RAM along; seen from here it is a wipe with no
execution left.

`MaxQueue` bounds what is in flight when a new event comes; two ids and one
more message than a flow produces are enough for a late answer next to a current
one. The ids of requests are chosen fresh: not those of anything in progress or
in flight. That restricts what these two runs cover (`docs/SECURITY.md:92` counts
ids from a transport as untrusted input); what a reused id does to the reducer
alone is in `core_operation` and `core_session`, whose ids are any. `UsizeMax` stands for `u32::MAX`; TLC's integers are
narrower, so it is 2^22 - 1. `IntBytes` stands for 32, `MaxSigned` and
`MaxUnsigned` for 640 and 512, with no more slack for r and s than the assumption
asks, and an `AddressBytes` of 36 for the 20: then the list of a transfer needs a
long header never, only once r and s are added, or from the start. `SequenceSpan`,
`MaxTicks` and `MaxWakeCount` bound the demo's frame number, clocks and wake
counter.

Fairness, per run:

* `signing`: weak fairness of `Driver`, the disjunction of the driver's steps,
  and strong fairness of `Report`. The driver is one loop that calls `next` and
  `execute` until the execution is complete or failed
  (`chain-bitcoin/examples/bitcoin_e2e.rs:98-112`), so it does not rest while it
  can step; the examples give up at the first error, so a driver that meets
  errors again and again reports one at last. Nothing is assumed of the user or
  the host.
* `demo_live`: weak fairness of the loop, which has no exit and blocks only in
  WFI, and strong fairness of a clock step above zero, as the cycle counter
  advances while the loop runs. Nothing is assumed of the buttons.
* `secret_device`: the runtime finishes the oldest effect though the store may
  fail any number of times before (`WF(Perform /\ jobs' # jobs)`), and delivers
  the oldest answer. `durable_device`: the same without failing stores. The
  reducer waits for these answers and has no timeout of its own; without the
  assumption a lock or failure event is the only way out.

The other runs check safety, refinement included, and assume nothing.

Two assumptions of `SigningSession` about the driver are not enforced by the code:

* A runtime is used for chains of its own key family only.
  `SoftwareKeyBackend::authorize` compares wallet and target, and a secp256k1
  backend serves the `Raw` format, so a driver that handed it to a Solana address
  request for the same target would return a key of the wrong curve.
  `firmware-budget/src/main.rs` keeps one runtime per family, under different
  account ids.
* The keys in RAM are gone after a lock and after a wipe. A lock asks for it with
  `ClearSensitiveState`; a wipe asks for `WipeWallet` only, and that this includes
  RAM is what `docs/SECURITY.md:229` requires of tamper events. A backend kept over a
  wipe would serve the old key to the session that gets its id.

Nothing is assumed of what the driver does with an execution whose session has
ended: it may drop it, keep it over locks and wipes, and go on with it at any time.

## 4. Proofs

All proofs hold for any sets of hosts, ids, contexts, roots, payloads and
requests and any bounds that satisfy the named assumptions of the modules.
Every inductive invariant was checked by TLC on the run's instance, and the two
of the devices on a second, larger one, before it was proved; so was the
refinement of the demo firmware.

**The reducer.**

* `WalletCoreProofs!TypeCorrect`: every handler yields well-formed state and
  effect. `HandlerLemmas` has one lemma per handler.
* `WalletCoreProofs!Inductive`: `Spec => []IInv`, with one lemma per group of
  events. `IInv` has three parts. *Session*: the properties
  `FlowBoundToSession`, `SessionEarned`, `RetryBudgetKept`. *Wallet*:
  `BackupClaimIsTrue` needs `SetupInOrder`, that a generated wallet reaches its
  PIN only past the backup challenge. *Flow*: `ExecutionHasConsent` and
  `OperationHonoursPolicy` need `ReviewInOrder`, that the plan under review is
  the enforced one and was displayed before the decision, and
  `FactsPertinent`, that facts of an earlier operation do not survive it.
  Without these the consequence is not inductive: a state in `Reviewing` with a
  plan of another kind would satisfy it and violate it one event later.
* From it: `FlowsAreBound`, `SessionsAreEarned`, `BudgetIsKept`,
  `ConsentIsGiven`, `PolicyIsHonoured`, `BackupClaimsAreTrue`.
* What a step may never do: `RetriesAreKept`,
  `SettingsAreApproved`, `OperationsRunOnce`, `WipesRunToTheEnd`, by sorting the
  events into the few that can touch what the property speaks of; and the
  refinement `GateIsImplemented` (`Spec => Gate!Spec`): an event is a step of
  `SigningGate` or leaves session and job alone. The refinement needs `IInv`,
  as the gate's job has the host and wallet of the session.

**Key lifecycle and record store.**

* The key lifecycle by itself, in `SecretDeviceProofs`: `KeyInductive`, with `IssuedBelowCounter` (issued ids
  lie behind the counter) as the strengthening of `ContextNamesOneSeed`; the
  action property `StagedRootIsNotLost` follows from the actions.
* `AtomicStoreProofs`: `SlotsAreInOrder` and the refinement `StoreIsAtomic`.
  The invariant says that the commit in progress writes the slot readers do not
  select and which of its fields are already written.

**The signing path** (`SigningProofs`). `SigningInv` says that at every moment

* `JobInOrder`: a running job was planned from one of the reviews the adapters
  can produce, and confirmed if it uses a key;
* `RuntimeIsOfSession`: the secret in the driver's hands is derived from the
  seed of the open session, along its own target;
* `SubjectIsRunning`: an execution belongs to the running job, or its session is
  over; as long as the device is not wiped its context id keeps its seed and is
  not opened again, and after a wipe it may name any seed;
* `ExecutionPinned`, `StageIsEarned`: the record of the execution is one of those
  that the review allows at its stage, with the key and digests the stage claims
  to have, and it has asked for what its stage asks for;
* `AnswerIsOfReviewedKey`: an answer the driver holds is what the reviewed key
  would have answered, in the wallet the job was accepted in or, after a wipe, in
  some wallet.

The heart is `AuthorizedIsReviewed`: `authorize` compares context id and target,
so whatever runtime answers, it answers with the reviewed key of a wallet that
the id can have named.
`ResponsesMatchReviews` follows with what the parsers let pass
(`BitcoinReviewIsTrue` and its siblings: the fee is not negative, there is no
data, the accounts are the shown ones), `KeysAreProven` from `StageIsEarned`,
and `SignaturesHaveConsent` because the runtime's context id is the session's: an
execution left over from a session that ended meets its id again only after a
wipe. The exception is real: `signing` reaches a state in which an Ethereum
transfer confirmed in one wallet is signed with the key of the next. What holds
then too is that the reviewed bytes are all that is signed, with a key at the
reviewed path, in an open session with the execution's id, and on Bitcoin after
some key has proved to own the input. Assumptions: chain and kind of a request are those of the enums, amounts are
natural (`u64`), and `None` is no record.

**The device.** Effects are carried out in order, answers delivered in any
order; what keeps this from doing harm is how few of them matter at a time.

* `DurableDeviceProofs`: `DeviceInv` follows an unlock attempt through the
  queue. Its question about the host is the newest job, so once it is answered
  no older job is left that could take the trust away (`HostBeingResolved`);
  from then on the attempt's own question is the only job there may be
  (`AttemptAlone`), so a `PinVerified` for it means that the counter on the disk
  is zero (`VerifiedMeansReset`). In a session no job touches the counter, and
  only the approved change, again the newest job, touches the policy or takes
  trust away (`SessionJobs`, `PersistedMeansHeld`). `TrustStaysBacked` and
  `SessionsFollowReset` are consequences; the action properties
  `NothingAppliedBeforePersisted` and `ExhaustionWipes` use the invariant at the
  step that delivers the answer. Power loss clears both queues, and the booted
  state satisfies the invariant again.
* `SecretDeviceProofs`: `SecretInv` says that a setup has one question or one
  answer under way, that the root it commits is the one whose backup was proved,
  that a context id in a session or an answer names a context of the installed
  root, and that a wiping device has the erasing job before it or the store
  empty with no commit left (`WipeIsComing`). A commit is always the oldest job
  (`CommitIsNext`), also when its setup was given up. From it `SessionsUseTheRoot`, `WalletsHaveRoots` and
  `WipesErase`, and `DeviceUsesKeyLifecycle` (`Spec => KeySpec`): every step
  of the device is a step of the key lifecycle or leaves it alone, so its
  theorems hold of the device too (`DeviceKeepsRoots`). Its assumption
  `ContextIdsAreWallets` says that the reducer can name every id the lifecycle
  issues; both are `u32`.

**The demo firmware** (`DemoProofs`). The handlers feed the reducer several
events, drop its refusals, and decide what to show from a call's result; the
loop reads the buttons, the clock and the screen at different moments. None of
the run's properties is inductive, since each speaks of a moment at the end of
a handler or a gesture. `DemoInv` says what leads there:

* `SetupFirst`: before the setup is complete the reducer is empty and nothing is
  fed to it; afterwards it is provisioned under the strict policy;
* `WalletFollowsScreen`: for every event a handler still has to apply, the
  screen it was started on, the one it will show, and the exact reducer state it
  will meet. So every event of a handler is accepted, and `Error` is never shown;
* `PinKnown`: the two PINs agree from the confirmation on, and a handler about to
  show the dashboard has compared the entry with them;
* `PageExists`: the selected page of a menu is one that menu has;
* `FrameCounted`: in each phase of the loop the frame counter is at most two
  ahead of the one on the display, so equal counters mean an unchanged screen.
  This needs `SequenceSpan > 2`, and is why a counter of a `u8` that wraps does
  no harm;
* `CallHasCause`: the clock starts two handlers only, every other one belongs to
  a gesture that is over or was long enough;
* `GestureHasOrigin`, `ConfirmationShown`: until a gesture is sent, the frame it
  began on is still the one on the display and of the screen it will act on,
  unless the device fell asleep or the signature was finished meanwhile.

The proof sorts presses and ticks into those that only change what is shown
(`Turn`) and those that begin to call the reducer (`Start`), and the steps of a
handler into those that go on (`Proceed`) and the last one (`Finish`). The reducer's part of a step is one row
of `WalletFollowsScreen`: its effect is computed from the handler named there.
`DemoTypes` and `ScreenIsHonest` follow from the invariant; `PinTheorem`,
`ApprovalTheorem` and `GestureTheorem` follow at the step they speak of. `DemoIsGated` is
the refinement of `SigningGate`: whatever the buttons and the clock do, a key is
used only for a job that was presented and agreed to. `DemoIsTyped` assumes that
the demo's fixed ids are among those the reducer can name.

**The byte formats** (`WireProofs`). The properties speak of every input, so
the state machine is the small part: `WireInv` says that the bytes on hand are
bytes, no more than a request holds, and until somebody alters them those the
signer or the host's encoder wrote (`WireInductive`). The rest is about the
functions of `WireFormats`, for scalars of 1 to 32 bytes and any lengths within
`CapacityAssumption`.

* Loops over bytes and fields are recursive functions of a position. What they
  compute is proved from the least position at which it would be false
  (`LeastElement`, `Positions`): the library's induction rules take an operator
  as a parameter and cannot be used, but a set of positions can. `Recursion`
  shows that such a function satisfies its equation.
* Numbers: `BytesOfNumber` and `NumberOfBytes` say that `Number` and
  `LittleEndian` are inverse to each other as long as the number fits a `usize`,
  `SignificantProperties` what dropping and padding zeros do.
* RLP: an item that is read is the one encoding of its payload (`RlpCanonical`),
  and an encoding followed by anything is read back (`ItemRead`). The cases are
  a byte that is its own encoding, a short and a long item, of bytes or a list.
* Compact sizes, short vectors and DER signatures have a `...Read` lemma (what is
  accepted is what the writer writes for the value) and a `...Written` lemma (what
  is written is read back). With `RlpCanonical` they give `ReadersTheorem`.
* The envelope: `EnvelopeRead` says that an accepted envelope is the encoding of
  its fields joined, `EnvelopeWritten` that joined encodings are read back field
  by field. `finalize_eip1559` appends three encodings to the fields that were
  read, so the signed envelope is of the same form, and `SignedEnvelope` adds up
  the lengths: parity, r, s and a longer list prefix stay within the room
  `CapacityAssumption` leaves. `EnvelopeTheorem` follows, with
  `HostTransfer` for what a host encoded.

What is assumed: `CapacityAssumption` says that the signed envelope has that
room and that lengths take three bytes at most, which 512 and 640 satisfy;
`HostAssumption` that a host sends bytes and encodes numbers its scalars hold,
as every `u64` is. `BigEndian` starts from eight bytes; a `usize` of four gives
the same, as the leading zeros are dropped.

**Left to TLC.** Liveness under fairness (`OperationEnds`, `EveryRequestEnds`,
`RequestsEnd`, `SigningEnds`, `IdleDeviceLocks`) and `ENABLED` are out of the
prover's reach. The two findings are counterexamples and have nothing to prove.

## 5. Findings

* `demo_display` (`DisplayIsCurrent`): holding both buttons on the control center
  resets the selection, but `set_screen` asks for a frame only when the screen
  changes; the display keeps the old entry while a press selects the first one.
* `secret_late_wipe` (`WipedMeansGone`): `WipeCompleted` has no id and
  `TamperDetected` asks for another wipe while one is running, so two answers
  are under way; the late one ends the next wipe before its job has run.
  `OneWipeMeansGone` shows that this is the only way.

Observations that no document contradicts or that have no run:

* A `PinRejected` that reports the last attempt and arrives after a lock or a
  disconnect is refused with its count. The wallet stays provisioned until
  another attempt is rejected, although `docs/SECURITY.md` says that exhaustion
  enters the wipe flow. `ReportedExhaustionWipes` holds for reports of the
  current attempt.
* An execution kept over a wipe signs in the next wallet. `KeyLifecycle::wipe`
  restarts the context ids (`key-lifecycle/src/lib.rs:304`), an `ExecutionContext`
  is a copy (`wallet-core/src/key.rs:163`), and `authorize`
  (`crypto-runtime/src/lib.rs:82`) compares ids: after tampering or a factory reset
  and a new setup, the first session has id 1 again, and an execution of the wiped
  wallet's session 1 that the driver did not drop gets its signature from the new
  wallet's key, with no consent there. `docs/DOMAIN.md:48-49` says that an
  unfinished operation "cannot migrate between hidden wallets", and
  `docs/SECURITY.md:290` that "wallet-context changes cannot take over an in-flight
  operation"; in the reducer both hold (`FlowBoundToSession`), and the examples'
  driver has no execution once its session is over. It is the exception in
  `ResponseMatchesReview` and `SignatureHasConsent`; without it TLC refutes both in
  the run `signing`.
* A `PinVerified` dropped by a lock leaves RAM with a larger count than the
  backend; the next `PinRejected` is refused and the attempt waits for a lock or
  failure (`CountIsStale`, the exception of `RequestsEnd`).
* `PairingRejected` is accepted after the host was sent to storage: the host is
  stored as trusted. `TrustIsBacked` holds with it.
* The demo's README says the left button locks or rejects; on a review it turns
  the page.
* `signature_from_signed_eip1559` does not look at `is_list` of its last three
  fields and takes a list for a number; it reads what the adapter itself signed,
  in tests.

## 6. Status of the plan

The modules were written in the order of section 2: the reducer, its gate, the
two storage components, the signing path, the device around the reducer, the
demo firmware, the byte formats. Every safety property of the passing runs is
now a theorem, and every action property and refinement; liveness is model-checked.
What would extend the project further is the layout of transactions and messages
(see section 7).

## 7. Not modelled

* The firmware size probe (`main.rs`): it calls each crate once and keeps no
  state.
* The display, button, TRNG and secure-element self tests of
  `virtual_device.rs`: straight-line code that runs once.
* The Python tools and CI.
* The text of the user interface beyond which entry is shown, and the layout of
  a frame; the reader of the mailbox, which is in the browser.
* The layout of Bitcoin transactions, preimages and Solana messages: the models
  start from fields, `WireFormats` covers the length and number formats inside.
  `extract_p2wpkh_witness` is a helper of tests.
* Depth and index limits of derivation paths, zeroisation, and the
  elliptic-curve and hash arithmetic.
* A generation of `AtomicStore` beyond 2^32 commits.
