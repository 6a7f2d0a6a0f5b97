-------------------------- MODULE AtomicStoreProofs --------------------------
(***************************************************************************)
(* The record store implements an atomic register, for every set of        *)
(* payloads and any number of commits and power losses.                    *)
(***************************************************************************)
EXTENDS AtomicStore, TLAPS

\* Adding two keeps the parity.
LEMMA Parity ==
    \A n \in Nat : /\ n % 2 \in 0..1
                  /\ ((n + 1) + 1) % 2 = n % 2
                  /\ (n + 1) % 2 = 1 - (n % 2)
  OBVIOUS

SlotType == [generation: Nat, digest: Payloads \cup {NoPayload},
             valid: BOOLEAN]

\* One field write leaves the other slot and the other fields alone.
LEMMA WriteFrame ==
    ASSUME StoreTypeOK, NEW at, NEW field \in {"generation", "digest", "valid"},
           NEW val, NEW next, Write(at, field, val, next),
           field = "generation" => val \in Nat,
           field = "digest" => val \in Payloads \cup {NoPayload},
           field = "valid" => val \in BOOLEAN
    PROVE  /\ Target \in 0..1
           /\ slots' \in [0..1 -> SlotType]
           /\ slots'[1 - Target] = slots[1 - Target]
           /\ slots'[Target] = [slots[Target] EXCEPT ![field] = val]
<1>1. Target \in 0..1
  BY DEF Target, StoreTypeOK
<1>2. slots \in [0..1 -> SlotType]
  BY DEF StoreTypeOK, SlotType
<1>3. [slots[Target] EXCEPT ![field] = val] \in SlotType
  BY <1>1, <1>2 DEF SlotType
<1>4. slots' = [slots EXCEPT ![Target] = [slots[Target] EXCEPT ![field] = val]]
  BY <1>1, <1>2 DEF Write
<1>5. QED
  BY <1>1, <1>2, <1>3, <1>4

\* Before a record is published its slot is not the selected one.
LEMMA TargetNotSelected ==
    ASSUME StoreInv, pc # "idle"
    PROVE  /\ Target \in 0..1
           /\ generation \in Nat /\ generation >= 1
           /\ HasRecord => /\ Selected = 1 - Target
                           /\ slots[1 - Target].valid
                           /\ slots[1 - Target].generation + 1 = generation
           /\ ~HasRecord => generation = 1
           /\ slots[Target].valid => slots[Target].generation < generation
<1>1. generation = NextGeneration
  BY DEF StoreInv, CommitInOrder
<1>2. /\ slots[0].generation \in Nat /\ slots[1].generation \in Nat
      /\ slots[0].valid \in BOOLEAN /\ slots[1].valid \in BOOLEAN
  BY DEF StoreInv, StoreTypeOK
<1>3. /\ slots[0].valid => slots[0].generation % 2 = 1
      /\ slots[1].valid => slots[1].generation % 2 = 0
      /\ slots[0].valid /\ slots[1].valid =>
            \/ slots[0].generation = slots[1].generation + 1
            \/ slots[1].generation = slots[0].generation + 1
  BY DEF StoreInv, SlotsInOrder
<1>4. CASE ~slots[0].valid /\ ~slots[1].valid
  BY <1>1, <1>4 DEF NextGeneration, HasRecord, Target
<1>5. CASE HasRecord /\ Selected = 0
  <2>1. /\ slots[0].valid /\ generation = slots[0].generation + 1
        /\ slots[1].valid => slots[1].generation < slots[0].generation
    BY <1>1, <1>2, <1>3, <1>5 DEF NextGeneration, HasRecord, Selected
  <2>2. Target = 1
    BY <1>2, <1>3, <2>1, Parity DEF Target
  <2>3. QED
    BY <1>2, <1>5, <2>1, <2>2
<1>6. CASE HasRecord /\ Selected = 1
  <2>1. /\ slots[1].valid /\ generation = slots[1].generation + 1
        /\ slots[0].valid => slots[0].generation < slots[1].generation
    BY <1>1, <1>2, <1>3, <1>6 DEF NextGeneration, HasRecord, Selected
  <2>2. Target = 0
    BY <1>2, <1>3, <2>1, Parity DEF Target
  <2>3. QED
    BY <1>2, <1>6, <2>1, <2>2
<1>7. QED
  BY <1>4, <1>5, <1>6 DEF HasRecord, Selected

\* A write to the slot in preparation, not selectable after it, is invisible
\* to readers.
LEMMA WriteInvisible ==
    ASSUME StoreInv, pc # "idle", slots' \in [0..1 -> SlotType],
           slots'[1 - Target] = slots[1 - Target], ~slots'[Target].valid,
           UNCHANGED generation
    PROVE  /\ SlotsInOrder'
           /\ NextGeneration' = generation'
           /\ Value' = Value
           /\ Target' = Target
<1>1. Target' = Target /\ Target \in 0..1
  BY TargetNotSelected DEF Target
<1>2. /\ HasRecord <=> slots[1 - Target].valid
      /\ HasRecord => /\ Selected = 1 - Target
                      /\ slots[1 - Target].generation + 1 = generation
      /\ ~HasRecord => generation = 1
  BY TargetNotSelected DEF HasRecord
<1>3. HasRecord' <=> slots[1 - Target].valid
  BY <1>1 DEF HasRecord
<1>4. HasRecord' => Selected' = 1 - Target
  BY <1>1, <1>3 DEF Selected
<1>5. SlotsInOrder'
  BY <1>1 DEF StoreInv, SlotsInOrder
<1>6. NextGeneration' = generation'
  BY <1>1, <1>2, <1>3, <1>4 DEF NextGeneration
<1>7. Value' = Value
  BY <1>1, <1>2, <1>3, <1>4 DEF Value
<1>8. QED
  BY <1>1, <1>5, <1>6, <1>7

\* A published record is the newest one.
LEMMA PublishSelects ==
    ASSUME StoreInv, Publish
    PROVE  /\ slots' \in [0..1 -> SlotType]
           /\ SlotsInOrder'
           /\ Value' = payload
<1>1. pc = "publish" /\ Write("publish", "valid", TRUE, "idle")
  BY DEF Publish, Write
<1>2. /\ Target \in 0..1 /\ slots' \in [0..1 -> SlotType]
      /\ slots'[1 - Target] = slots[1 - Target]
      /\ slots'[Target] = [slots[Target] EXCEPT !["valid"] = TRUE]
  BY <1>1, WriteFrame DEF StoreInv
<1>3. slots[Target] \in SlotType /\ slots[1 - Target] \in SlotType
  BY <1>2 DEF StoreInv, StoreTypeOK, SlotType
<1>4. /\ slots'[Target].valid
      /\ slots'[Target].generation = generation
      /\ slots'[Target].digest = payload
  BY <1>1, <1>2, <1>3 DEF StoreInv, CommitInOrder, SlotType
<1>5. /\ generation \in Nat
      /\ slots[1 - Target].valid =>
            slots[1 - Target].generation + 1 = generation
  BY <1>1, TargetNotSelected DEF HasRecord
<1>6. HasRecord' /\ Selected' = Target
  BY <1>2, <1>3, <1>4, <1>5 DEF HasRecord, Selected, SlotType
<1>7. generation % 2 = (Target + 1) % 2
  BY <1>5, Parity DEF Target
<1>8. SlotsInOrder'
  BY <1>2, <1>3, <1>4, <1>5, <1>7 DEF StoreInv, SlotsInOrder, SlotType
<1>9. Value' = payload
  BY <1>4, <1>6 DEF Value
<1>10. QED
  BY <1>2, <1>8, <1>9

\* Every step keeps the invariant and is a step of the register or a stutter.
LEMMA StoreStep ==
    ASSUME StoreInv, Next
    PROVE  /\ StoreInv'
           /\ Register!Next \/ UNCHANGED <<Value, payload>>
<1> USE PayloadAssumption
<1>1. ASSUME NEW p \in Payloads, BeginCommit(p)
      PROVE  /\ StoreInv'
             /\ Register!Next \/ UNCHANGED <<Value, payload>>
  <2>1. UNCHANGED <<HasRecord, Selected, NextGeneration, Value>>
    BY <1>1 DEF BeginCommit, HasRecord, Selected, NextGeneration, Value
  <2>2. NextGeneration \in Nat
    BY DEF StoreInv, StoreTypeOK, NextGeneration, Selected
  <2>3. StoreTypeOK' /\ SlotsInOrder' /\ CommitInOrder'
    BY <1>1, <2>1, <2>2
    DEF BeginCommit, StoreInv, StoreTypeOK, SlotsInOrder, CommitInOrder, Steps
  <2>4. Register!Propose
    BY <1>1, <2>1 DEF BeginCommit, Register!Propose, StoreInv, CommitInOrder
  <2>5. QED
    BY <2>3, <2>4 DEF StoreInv, Register!Next
<1>2. CASE Invalidate \/ WriteGeneration \/ WriteDigest
  <2>1. /\ pc \in {"invalidate", "generation", "digest"}
        /\ UNCHANGED <<commits, generation, payload>>
    BY <1>2 DEF Invalidate, WriteGeneration, WriteDigest, Write
  <2>2. /\ slots' \in [0..1 -> SlotType] /\ Target \in 0..1
        /\ slots'[1 - Target] = slots[1 - Target]
        /\ \/ /\ pc = "invalidate" /\ pc' = "generation"
              /\ slots'[Target] = [slots[Target] EXCEPT !["valid"] = FALSE]
           \/ /\ pc = "generation" /\ pc' = "digest"
              /\ slots'[Target] =
                    [slots[Target] EXCEPT !["generation"] = generation]
           \/ /\ pc = "digest" /\ pc' = "publish"
              /\ slots'[Target] = [slots[Target] EXCEPT !["digest"] = payload]
    <3>1. generation \in Nat /\ payload \in Payloads \cup {NoPayload}
          /\ StoreTypeOK
      BY DEF StoreInv, StoreTypeOK
    <3>2. QED
      BY <1>2, <3>1, WriteFrame
      DEF Invalidate, WriteGeneration, WriteDigest, Write
  <2>3. slots[Target] \in SlotType
    BY <2>2 DEF StoreInv, StoreTypeOK, SlotType
  <2>4. ~slots'[Target].valid
    BY <2>1, <2>2, <2>3 DEF StoreInv, CommitInOrder, SlotType
  <2>5. /\ SlotsInOrder' /\ NextGeneration' = generation'
        /\ Value' = Value /\ Target' = Target
    BY <2>1, <2>2, <2>4, WriteInvisible
  <2>6. CommitInOrder'
    BY <2>1, <2>2, <2>3, <2>4, <2>5 DEF StoreInv, CommitInOrder, SlotType
  <2>7. StoreTypeOK'
    BY <2>1, <2>2 DEF StoreInv, StoreTypeOK, SlotType, Steps
  <2>8. QED
    BY <2>1, <2>5, <2>6, <2>7 DEF StoreInv
<1>3. CASE Publish
  <2>1. /\ pc = "publish" /\ pc' = "idle" /\ commits' = commits + 1
        /\ generation' = 0 /\ payload' = NoPayload
    BY <1>3 DEF Publish, Write
  <2>2. StoreInv'
    BY <1>3, <2>1, PublishSelects
    DEF StoreInv, StoreTypeOK, CommitInOrder, SlotType, Steps
  <2>3. Register!Install
    BY <1>3, <2>1, PublishSelects DEF Register!Install, StoreInv, CommitInOrder
  <2>4. QED
    BY <2>2, <2>3 DEF Register!Next
<1>4. CASE PowerLoss
  <2>1. Value' = Value
    BY <1>4 DEF PowerLoss, Value, HasRecord, Selected
  <2>2. StoreInv'
    BY <1>4
    DEF PowerLoss, StoreInv, StoreTypeOK, SlotsInOrder, CommitInOrder, Steps
  <2>3. QED
    BY <1>4, <2>1, <2>2 DEF PowerLoss, Register!Next, Register!Abandon
<1>5. QED
  BY <1>1, <1>2, <1>3, <1>4 DEF Next

LEMMA StoreStart == Init => StoreInv /\ Register!Init
  BY DEF Init, EmptySlot, StoreInv, StoreTypeOK, SlotsInOrder, CommitInOrder,
         Steps, Register!Init, Value, HasRecord

LEMMA StoreInductive == Spec => []StoreInv
<1>1. StoreInv /\ UNCHANGED storeVars => StoreInv'
  BY DEF storeVars, StoreInv, StoreTypeOK, SlotsInOrder, CommitInOrder,
         NextGeneration, HasRecord, Selected, Target
<1>2. QED
  BY <1>1, StoreStart, StoreStep, PTL DEF Spec

\* The slots of AtomicStore are in order after any number of commits and
\* power losses, so commit() never overwrites the record selected() returns.
THEOREM SlotsAreInOrder == Spec => []SlotsInOrder
  BY StoreInductive, PTL DEF StoreInv

\* AtomicStore::commit is atomic: with power loss between any two of its
\* writes, readers see the old record or the new one.
THEOREM StoreIsAtomic == Spec => ImplementsRegister
<1>1. StoreInv /\ [Next]_storeVars => [Register!Next]_<<Value, payload>>
  BY StoreStep DEF storeVars, Value, HasRecord, Selected
<1>2. QED
  BY <1>1, StoreStart, StoreInductive, PTL
  DEF Spec, ImplementsRegister, Register!Spec
=============================================================================
