---------------------------- MODULE KeyLifecycle ----------------------------
(***************************************************************************)
(* The owner of the root secret (crates/key-lifecycle/src/lib.rs): a root  *)
(* is staged by creation or recovery, its mnemonic is read for the backup, *)
(* and only commit_pending hands it to the durable store.  Wallet contexts *)
(* are opened from the stored root.                                        *)
(*                                                                         *)
(* The store and the entropy source are capabilities the board supplies.   *)
(* The trait promises nothing about the medium after an error, so a failed *)
(* persist or wipe may have taken effect or not.                           *)
(***************************************************************************)
EXTENDS Naturals

CONSTANTS
    Roots,        \* root entropies, with the mnemonics that encode them
    NoRoot,       \* Option::None
    Passphrases,  \* normalized passphrases
    MaxContextId  \* u32::MAX

ASSUME NoRootAssumption == NoRoot \notin Roots
ASSUME ContextIdAssumption == MaxContextId \in Nat \ {0}

VARIABLES
    root,             \* what the durable store holds
    pending,          \* the staged PendingRoot
    next_context_id,
    result,           \* of the last call
    contexts,         \* observer: contexts opened since boot or wipe
    backup,           \* observer: the root whose mnemonic was last read while
                      \* the present one was staged
    erased            \* observer: roots removed by a successful wipe

keyVars == <<root, pending, next_context_id, result, contexts, backup, erased>>

Errors == {"PendingProvisioning", "NoPendingProvisioning", "RootNotFound",
           "InvalidStoredRoot", "ContextIdExhausted", "Store", "Entropy"}
Contexts == [id: 0..MaxContextId, root: Roots, passphrase: Passphrases]

\* KeyLifecycle::new over an empty store.
KeyInit ==
    /\ root = NoRoot
    /\ pending = NoRoot
    /\ next_context_id = 1
    /\ result = "Ok"
    /\ contexts = {}
    /\ backup = NoRoot
    /\ erased = {}

\* A call that returns an error and leaves everything alone.
Fail(error) ==
    /\ result' = error
    /\ UNCHANGED <<root, pending, next_context_id, contexts, backup, erased>>

-----------------------------------------------------------------------------
(* Staging *)

\* Mutant: a second setup replaces the staged root.
StagingRefused_Never == FALSE
StagingRefused == pending # NoRoot

Stage(r) ==
    /\ pending' = r
    /\ result' = "Ok"
    /\ erased' = erased \ {r}
    /\ UNCHANGED <<root, next_context_id, contexts, backup>>

BeginCreate(r) ==
    \/ StagingRefused /\ Fail("PendingProvisioning")
    \/ ~StagingRefused /\ Fail("Entropy")
    \/ ~StagingRefused /\ Stage(r)

\* A mnemonic of an unsupported length is refused.
BeginRecovery(r) ==
    \/ StagingRefused /\ Fail("PendingProvisioning")
    \/ ~StagingRefused /\ Fail("InvalidStoredRoot")
    \/ ~StagingRefused /\ Stage(r)

PendingMnemonic ==
    /\ backup' = pending
    /\ result' = "Ok"
    /\ UNCHANGED <<root, pending, next_context_id, contexts, erased>>

\* The staged root is dropped, and with it the backup in the making.
Unstage == pending' = NoRoot /\ backup' = NoRoot

\* Mutant: the staged root is consumed before the store answers.
PersistFailed_Drops ==
    /\ root' \in {root, pending}
    /\ result' = "Store"
    /\ Unstage
    /\ UNCHANGED <<next_context_id, contexts, erased>>
\* persist_root returns an error; the staged root stays for a retry.
PersistFailed ==
    /\ root' \in {root, pending}
    /\ result' = "Store"
    /\ UNCHANGED <<pending, next_context_id, contexts, backup, erased>>

CommitPending ==
    \/ pending = NoRoot /\ Fail("NoPendingProvisioning")
    \/ pending # NoRoot /\ PersistFailed
    \/ /\ pending # NoRoot
       /\ root' = pending
       /\ result' = "Ok"
       /\ Unstage
       /\ UNCHANGED <<next_context_id, contexts, erased>>

CancelPending ==
    /\ Unstage
    /\ result' = "Ok"
    /\ UNCHANGED <<root, next_context_id, contexts, erased>>

-----------------------------------------------------------------------------
(* Wallet contexts *)

\* Mutant: the counter wraps around.
CheckedAdd_Wraps(id) == {(id + 1) % (MaxContextId + 1)}
\* checked_add(1), as the set of its results: none at u32::MAX, which is
\* therefore never issued.
CheckedAdd(id) == {id + 1} \cap 0..MaxContextId

OpenContext(passphrase) ==
    \/ Fail("Store")
    \/ root = NoRoot /\ Fail("RootNotFound")
    \/ root # NoRoot /\ Fail("InvalidStoredRoot")
    \/ /\ root # NoRoot
       /\ CheckedAdd(next_context_id) = {}
       /\ Fail("ContextIdExhausted")
    \/ /\ root # NoRoot
       /\ next_context_id' \in CheckedAdd(next_context_id)
       /\ contexts' = contexts \cup
              {[id |-> next_context_id, root |-> root,
                passphrase |-> passphrase]}
       /\ result' = "Ok"
       /\ UNCHANGED <<root, pending, backup, erased>>

-----------------------------------------------------------------------------
(* Wipe and reboot *)

\* Mutant: only the store is wiped.
WipeUnstages_Not == UNCHANGED <<pending, backup>>
WipeUnstages == Unstage

\* Mutant: an error of the store does not stop the wipe.
Wipe_ReportsOk ==
    /\ WipeUnstages
    /\ root' \in {root, NoRoot}
    /\ next_context_id' = 1
    /\ contexts' = {}
    /\ erased' = erased \cup ({root, pending} \ {NoRoot})
    /\ result' = "Ok"
\* The staged root goes first, then the store, then the context counter.
Wipe ==
    /\ WipeUnstages
    /\ \/ /\ root' \in {root, NoRoot}
          /\ result' = "Store"
          /\ UNCHANGED <<next_context_id, contexts, erased>>
       \/ /\ root' = NoRoot
          /\ next_context_id' = 1
          /\ contexts' = {}
          /\ erased' = erased \cup ({root, pending} \ {NoRoot})
          /\ result' = "Ok"

\* Power loss, or into_parts followed by KeyLifecycle::new: only the store
\* survives.
Reboot ==
    /\ Unstage
    /\ next_context_id' = 1
    /\ contexts' = {}
    /\ result' = "Ok"
    /\ UNCHANGED <<root, erased>>

KeyNext ==
    \/ \E r \in Roots : BeginCreate(r) \/ BeginRecovery(r)
    \/ PendingMnemonic
    \/ CommitPending
    \/ CancelPending
    \/ \E p \in Passphrases : OpenContext(p)
    \/ Wipe
    \/ Reboot

KeySpec == KeyInit /\ [][KeyNext]_keyVars

-----------------------------------------------------------------------------
(* Properties *)

\* The types of the fields; the counter keeps its width although open_context
\* counts up at its last value.  Part of the inductive invariant below.
KeyTypeOK ==
    /\ root \in Roots \cup {NoRoot}
    /\ pending \in Roots \cup {NoRoot}
    /\ next_context_id \in 0..MaxContextId
    /\ result \in Errors \cup {"Ok"}
    /\ contexts \subseteq Contexts
    /\ backup \in Roots \cup {NoRoot}
    /\ erased \subseteq Roots

\* The identifier handed to the reducer names one seed: no two contexts opened
\* since boot or wipe share it, up to the last id of the counter.
ContextNamesOneSeed ==
    \A c, d \in contexts : c.id = d.id => c = d

\* The mnemonic the user wrote down is the one of the root that a commit
\* would install, however setups, failures and retries interleave.
BackupIsOfStagedRoot == backup # NoRoot => backup = pending

\* A root is gone once a wipe has reported success: it is neither stored nor
\* staged, so no later commit can bring it back, unless it is entered anew.
WipedRootsStayGone == erased \cap {root, pending} = {}

\* A staged root disappears only by being installed, or by an explicit cancel,
\* wipe or reboot: a failing store never costs the user the backup just made.
StagedRootIsNotLost ==
    [][pending # NoRoot /\ pending' # pending =>
           \/ root' = pending /\ result' = "Ok"
           \/ CancelPending \/ Wipe \/ Reboot]_keyVars

\* What the invariants need to be inductive: issued ids lie behind the
\* counter.
IssuedBelowCounter == \A c \in contexts : c.id < next_context_id

KeyInv ==
    /\ KeyTypeOK
    /\ ContextNamesOneSeed
    /\ BackupIsOfStagedRoot
    /\ WipedRootsStayGone
    /\ IssuedBelowCounter
=============================================================================
