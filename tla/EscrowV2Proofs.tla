--------------------------- MODULE EscrowV2Proofs ---------------------------
(***************************************************************************)
(* Moving the proxy to EscrowUpgradeableV2, back, and to another owner, at *)
(* any moment, preserves every invariant of V1.  setArbiter is the one     *)
(* function that is new to the storage of the escrows; all other steps are *)
(* steps of Escrow or leave that storage alone.                            *)
(***************************************************************************)
EXTENDS EscrowV2, EscrowProofs

\* Rotating an arbiter changes nobody's money, and the new arbiter is again an
\* account distinct from both parties.
LEMMA SetArbiterSound ==
  ASSUME TypeOK, Sound(CurrentStorage), NEW sender \in Senders, NEW id \in Ids,
         NEW newArbiter \in Addresses, SetArbiter(sender, id, newArbiter)
  PROVE  TypeOK' /\ Sound(CurrentStorage)'
<1>1. /\ newArbiter \in Accounts
      /\ newArbiter \notin {escrows[id].buyer, escrows[id].seller}
      /\ escrows[id].state = "Disputed"
      /\ escrows' = [escrows EXCEPT ![id].arbiter = newArbiter]
      /\ UNCHANGED <<nextEscrowId, pendingWithdrawals, totalPendingWithdrawals,
                     nullifierUsed, balance, evidence, settlement, frames>>
  BY DEF SetArbiter, ValidArbiter, InState, Addresses
<1>2. /\ escrows \in [Ids -> Escrows]
      /\ escrows' \in [Ids -> Escrows]
  BY <1>1 DEF TypeOK, Escrows
<1>3. /\ escrows'[id].arbiter = newArbiter
      /\ \A i \in Ids : i # id => escrows'[i] = escrows[i]
      /\ \A i \in Ids : /\ escrows'[i].buyer = escrows[i].buyer
                        /\ escrows'[i].seller = escrows[i].seller
                        /\ escrows'[i].amount = escrows[i].amount
                        /\ escrows'[i].commitment = escrows[i].commitment
                        /\ escrows'[i].state = escrows[i].state
  BY <1>1, <1>2 DEF Escrows
<1>4. TypeOK'
  BY <1>1, <1>2 DEF TypeOK
<1>5. DistinctRoles(CurrentStorage)'
  BY <1>1, <1>3 DEF Sound, DistinctRoles, CurrentStorage
<1>6. Solvent(CurrentStorage)'
  <2>1. LockedAmounts(CurrentStorage)' = LockedAmounts(CurrentStorage)
    BY <1>3 DEF LockedAmounts, IsLocked, CurrentStorage
  <2> QED BY <1>1, <2>1 DEF Sound, Solvent, CurrentStorage
<1>7. TotalIsRight(CurrentStorage)'
  BY <1>1 DEF Sound, TotalIsRight, CurrentStorage
<1>8. PayeesAreOwed(CurrentStorage)'
  <2>1. \A a \in Accounts :
          UnpaidAmounts(CurrentStorage, a)' = UnpaidAmounts(CurrentStorage, a)
    BY <1>1, <1>3 DEF UnpaidAmounts, IsUnpaid, CurrentStorage
  <2> QED BY <1>1, <2>1 DEF Sound, PayeesAreOwed, CurrentStorage
<1>9. SettlesToParties(CurrentStorage)'
  <2>1. settlement[id] = NotSettled
    BY <1>1 DEF Sound, SettlesToParties, CurrentStorage
  <2>2. newArbiter # ZeroAddress
    BY <1>1, AccountsAssumption
  <2> QED BY <1>1, <1>3, <2>1, <2>2 DEF Sound, SettlesToParties, CurrentStorage, NotSettled
<1>10. SpendsProofsOnce(CurrentStorage)'
  <2>1. \A n \in nullifierUsed : n[2] \in Ids
    BY DEF TypeOK, Nullifiers, Poseidon2
  <2> QED BY <1>1, <1>3, <2>1 DEF Sound, SpendsProofsOnce, CurrentStorage
<1>11. Blank(CurrentStorage)'
  <2>1. escrows[id] # NoEscrow
    BY <1>1 DEF NoEscrow
  <2> QED BY <1>1, <1>3, <2>1 DEF Sound, Blank, CurrentStorage
<1> QED BY <1>4, <1>5, <1>6, <1>7, <1>8, <1>9, <1>10, <1>11 DEF Sound

\* The inductive step under both implementations.
LEMMA StepSoundV2 == Soundness /\ [NextV2]_varsV2 => Soundness'
<1> SUFFICES ASSUME Soundness, [NextV2]_varsV2 PROVE Soundness'
  OBVIOUS
<1>1. CASE [Next]_vars
  BY <1>1, StepSound
<1>2. ASSUME NEW sender \in Senders, NEW id \in Ids, NEW newArbiter \in Addresses,
             SetArbiter(sender, id, newArbiter)
      PROVE  Soundness'
  <2>1. frames' = frames
    BY <1>2 DEF SetArbiter
  <2>2. TypeOK' /\ Sound(CurrentStorage)'
    BY <1>2, SetArbiterSound DEF Soundness
  <2> QED BY <2>1, <2>2 DEF Soundness
<1>3. CASE InheritedStep
  BY <1>1, <1>3 DEF InheritedStep, Next
<1>4. ASSUME NEW sender \in Senders, WithdrawCallV2(sender) PROVE Soundness'
  BY <1>1, <1>4 DEF WithdrawCallV2, Next
<1>5. ASSUME NEW sender \in Senders, OwnerStep(sender) PROVE Soundness'
  <2>1. CASE UNCHANGED vars
    BY <1>1, <2>1
  <2> QED BY <1>2, <1>5, <2>1
       DEF OwnerStep, UpgradeToAndCall, TransferOwnership, RenounceOwnership
<1>6. CASE EndOfCall
  BY <1>1, <1>6 DEF EndOfCall, WithdrawReturnV2, WithdrawRevertV2, Next
<1>7. CASE UNCHANGED varsV2
  BY <1>1, <1>7 DEF varsV2
<1> QED BY <1>3, <1>4, <1>5, <1>6, <1>7 DEF NextV2

\* Whatever the owner does with the proxy, and whenever, the storage of the
\* escrows stays sound, that of a withdrawal in progress included.
THEOREM SoundnessHoldsV2 == SpecV2 => []Soundness
<1>1. InitV2 => Soundness
  BY InitSound DEF InitV2
<1>2. Soundness /\ [NextV2]_varsV2 => Soundness'
  BY StepSoundV2
<1> QED BY <1>1, <1>2, PTL DEF SpecV2

\* Also with rotated arbiters, an escrow is settled to one of its parties and
\* never to the account that is its arbiter by then.
THEOREM SettlementsHoldV2 == SpecV2 => []SettledToAParty
<1>1. Soundness => SettledToAParty
  BY DEF Soundness, Sound, SettledToAParty
<1> QED BY <1>1, SoundnessHoldsV2, PTL

\* The variables of the proxy keep their types when those of Escrow do.
LEMMA TypeStepV2 == TypeOK' /\ TypeOKV2 /\ [NextV2]_varsV2 => TypeOKV2'
<1> SUFFICES ASSUME TypeOK', TypeOKV2, [NextV2]_varsV2 PROVE TypeOKV2'
  OBVIOUS
<1> USE DEF TypeOKV2
<1>1. CASE InheritedStep
  BY <1>1 DEF InheritedStep, proxyVars
<1>2. ASSUME NEW sender \in Senders, WithdrawCallV2(sender) PROVE TypeOKV2'
  BY <1>2 DEF WithdrawCallV2, ProxyStates
<1>3. ASSUME NEW sender \in Senders, OwnerStep(sender) PROVE TypeOKV2'
  <2>1. \A id \in Ids, newArbiter \in Addresses :
          SetArbiter(sender, id, newArbiter) => UNCHANGED proxyVars
    BY DEF SetArbiter
  <2>2. \A new \in Implementations \cup {ZeroAddress} :
          UpgradeToAndCall(sender, new) => /\ implementation' \in Implementations
                                           /\ UNCHANGED <<owner, savedProxy>>
    BY DEF UpgradeToAndCall
  <2>3. \A newOwner \in Addresses :
          TransferOwnership(sender, newOwner) => /\ owner' \in Addresses
                                                 /\ UNCHANGED <<implementation, savedProxy>>
    BY DEF TransferOwnership
  <2>4. RenounceOwnership(sender) => /\ owner' \in Addresses
                                     /\ UNCHANGED <<implementation, savedProxy>>
    BY DEF RenounceOwnership, Addresses
  <2> QED BY <1>3, <2>1, <2>2, <2>3, <2>4 DEF OwnerStep, proxyVars
<1>4. CASE EndOfCall
  BY <1>4 DEF EndOfCall, WithdrawReturnV2, WithdrawRevertV2, ProxyStates
<1>5. CASE UNCHANGED varsV2
  BY <1>5 DEF varsV2, proxyVars
<1> QED BY <1>1, <1>2, <1>3, <1>4, <1>5 DEF NextV2

\* The variables of the escrows and of the proxy keep their types.
THEOREM TypeCorrectV2 == SpecV2 => []TypeOKV2
<1>1. InitV2 => TypeOKV2
  BY InitSound DEF InitV2, TypeOKV2, Soundness, Implementations, Senders, Addresses
<1>2. Soundness => TypeOK
  BY DEF Soundness
<1> QED BY <1>1, <1>2, TypeStepV2, SoundnessHoldsV2, PTL DEF SpecV2

\* Rotating the arbiter of a disputed escrow leaves its evidence as it was, and
\* so does everything else the owner can do.
LEMMA EvidenceStepV2 ==
  Soundness /\ EvidenceInvariant /\ [NextV2]_varsV2 => EvidenceInvariant'
<1> SUFFICES ASSUME Soundness, EvidenceInvariant, [NextV2]_varsV2 PROVE EvidenceInvariant'
  OBVIOUS
<1>1. CASE [Next]_vars
  BY <1>1, EvidenceStep
<1>2. ASSUME NEW sender \in Senders, NEW id \in Ids, NEW newArbiter \in Addresses,
             SetArbiter(sender, id, newArbiter)
      PROVE  EvidenceInvariant'
  <2>1. /\ escrows' = [escrows EXCEPT ![id].arbiter = newArbiter]
        /\ UNCHANGED <<evidence, frames>>
    BY <1>2 DEF SetArbiter
  <2>2. \A i \in Ids : UNCHANGED <<escrows[i].buyer, escrows[i].seller, escrows[i].state>>
    BY <2>1 DEF Soundness, TypeOK, Escrows
  <2> QED BY <2>1, <2>2, EvidenceKept
<1>3. CASE InheritedStep
  BY <1>1, <1>3 DEF InheritedStep, Next
<1>4. ASSUME NEW sender \in Senders, WithdrawCallV2(sender) PROVE EvidenceInvariant'
  BY <1>1, <1>4 DEF WithdrawCallV2, Next
<1>5. ASSUME NEW sender \in Senders, OwnerStep(sender) PROVE EvidenceInvariant'
  BY <1>1, <1>2, <1>5
  DEF OwnerStep, UpgradeToAndCall, TransferOwnership, RenounceOwnership
<1>6. CASE EndOfCall
  BY <1>1, <1>6 DEF EndOfCall, WithdrawReturnV2, WithdrawRevertV2, Next
<1>7. CASE UNCHANGED varsV2
  BY <1>1, <1>7 DEF varsV2
<1> QED BY <1>3, <1>4, <1>5, <1>6, <1>7 DEF NextV2

\* Under either implementation, a ruling has evidence to rest on, put there by
\* the parties, and an escrow that was never disputed has none.
THEOREM EvidenceHoldsV2 == SpecV2 => []EvidenceOnRecord
<1>1. InitV2 => EvidenceInvariant
  BY EvidenceInit DEF InitV2
<1>2. EvidenceInvariant => EvidenceOnRecord
  BY EvidenceNow DEF EvidenceInvariant
<1> QED BY <1>1, <1>2, EvidenceStepV2, SoundnessHoldsV2, PTL DEF SpecV2
=============================================================================
