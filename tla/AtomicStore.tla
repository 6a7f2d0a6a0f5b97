----------------------------- MODULE AtomicStore -----------------------------
(***************************************************************************)
(* The two-slot record store of the virtual device (AtomicStore in         *)
(* crates/firmware-budget/src/virtual_device.rs), one field write per      *)
(* step, with power loss between any two of them.  A payload stands for    *)
(* its digest.                                                             *)
(***************************************************************************)
EXTENDS Naturals

CONSTANTS Payloads, NoPayload,
          MaxGeneration   \* bound on the u32 generation

ASSUME PayloadAssumption == NoPayload \notin Payloads
ASSUME GenerationAssumption == MaxGeneration \in Nat

VARIABLES slots,       \* slots[i] = [generation, digest, valid]
          commits,     \* completed commits since power-on
          pc,          \* the next write of the commit in progress, or "idle"
          generation,  \* its next_generation
          payload      \* its payload

storeVars == <<slots, commits, pc, generation, payload>>

EmptySlot == [generation |-> 0, digest |-> NoPayload, valid |-> FALSE]

Init ==
    /\ slots = [i \in 0..1 |-> EmptySlot]
    /\ commits = 0
    /\ pc = "idle"
    /\ generation = 0
    /\ payload = NoPayload

\* selected(): the valid slot of the highest generation, the last on a tie.
HasRecord == slots[0].valid \/ slots[1].valid
Selected ==
    IF slots[1].valid
       /\ (~slots[0].valid \/ slots[1].generation >= slots[0].generation)
    THEN 1 ELSE 0

NextGeneration == IF HasRecord THEN slots[Selected].generation + 1 ELSE 1

\* Mutant: both generations go to the same slot.
Target_Fixed == 0
\* (next_generation - 1) & 1
Target == (generation + 1) % 2

-----------------------------------------------------------------------------
(* commit(payload) *)

BeginCommit(p) ==
    /\ pc = "idle"
    /\ NextGeneration <= MaxGeneration
    /\ generation' = NextGeneration
    /\ payload' = p
    /\ pc' = "invalidate"
    /\ UNCHANGED <<slots, commits>>

Write(at, field, val, next) ==
    /\ pc = at
    /\ slots' = [slots EXCEPT ![Target][field] = val]
    /\ pc' = next

\* Mutant: the record stays selectable while it is rewritten.
Invalidate_Skipped ==
    /\ pc = "invalidate"
    /\ pc' = "generation"
    /\ UNCHANGED <<slots, commits, generation, payload>>
Invalidate ==
    /\ Write("invalidate", "valid", FALSE, "generation")
    /\ UNCHANGED <<commits, generation, payload>>

WriteGeneration ==
    /\ Write("generation", "generation", generation, "digest")
    /\ UNCHANGED <<commits, generation, payload>>

WriteDigest ==
    /\ Write("digest", "digest", payload, "publish")
    /\ UNCHANGED <<commits, generation, payload>>

Publish ==
    /\ Write("publish", "valid", TRUE, "idle")
    /\ commits' = commits + 1
    /\ generation' = 0
    /\ payload' = NoPayload

\* The slots survive; the commit in progress and the counter do not.
PowerLoss ==
    /\ pc' = "idle"
    /\ commits' = 0
    /\ generation' = 0
    /\ payload' = NoPayload
    /\ UNCHANGED slots

Next ==
    \/ \E p \in Payloads : BeginCommit(p)
    \/ Invalidate
    \/ WriteGeneration
    \/ WriteDigest
    \/ Publish
    \/ PowerLoss

Spec == Init /\ [][Next]_storeVars

-----------------------------------------------------------------------------
(* Properties *)

\* Each valid slot holds a generation of its own parity and two valid slots
\* hold consecutive ones, so that a commit never rewrites the slot a reader
\* selects, whatever power losses came before.
SlotsInOrder ==
    /\ \A i \in 0..1 :
          slots[i].valid => slots[i].generation % 2 = (i + 1) % 2
    /\ slots[0].valid /\ slots[1].valid =>
          \/ slots[0].generation = slots[1].generation + 1
          \/ slots[1].generation = slots[0].generation + 1

Value == IF HasRecord THEN slots[Selected].digest ELSE NoPayload

Register == INSTANCE AtomicRegister WITH value <- Value, proposed <- payload

\* The store implements an atomic register: a reader finds the last completed
\* commit, and an interrupted one leaves no trace.
ImplementsRegister == Register!Spec

-----------------------------------------------------------------------------
(* What the proofs need in addition *)

Steps == {"idle", "invalidate", "generation", "digest", "publish"}
StoreTypeOK ==
    /\ slots \in [0..1 -> [generation: Nat, digest: Payloads \cup {NoPayload},
                           valid: BOOLEAN]]
    /\ commits \in Nat
    /\ pc \in Steps
    /\ generation \in Nat
    /\ payload \in Payloads \cup {NoPayload}

\* The commit in progress writes the other slot, which is not selectable
\* once it was invalidated.
CommitInOrder ==
    /\ pc = "idle" <=> payload = NoPayload
    /\ pc # "idle" => generation = NextGeneration
    /\ pc \in {"generation", "digest", "publish"} => ~slots[Target].valid
    /\ pc \in {"digest", "publish"} => slots[Target].generation = generation
    /\ pc = "publish" => slots[Target].digest = payload

StoreInv == StoreTypeOK /\ SlotsInOrder /\ CommitInOrder
=============================================================================
