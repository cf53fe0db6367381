---------------------------- MODULE EscrowProofs ----------------------------
(***************************************************************************)
(* Proofs of the invariants of the escrow contract for any accounts,       *)
(* amounts, secrets and number of escrows.                                 *)
(*                                                                         *)
(* Soundness is the inductive invariant.  The steps fall into five kinds:  *)
(* a new escrow, a deposit, a settlement (Release, Refund and              *)
(* ResolveDispute are the same to the books), a change of evidence or      *)
(* dispute, and the steps of a withdrawal.  Each kind has a lemma.         *)
(***************************************************************************)
EXTENDS EscrowProperties, SumTheorems

\* There are finitely many escrows.
LEMMA IdsFinite == IsFiniteSet(Ids)
BY FS_Interval, MaxEscrowsAssumption DEF Ids

-----------------------------------------------------------------------------
\* A contract without escrows is sound.
LEMMA InitSound == Init => Soundness
<1> SUFFICES ASSUME Init PROVE Soundness
  OBVIOUS
<1> USE DEF Init
<1>1. TypeOK
  BY MaxEscrowsAssumption
  DEF TypeOK, NoEscrow, NotSettled, Escrows, Settlements, Addresses, States,
      Commitments
<1>2. \A i \in Ids : escrows[i] = NoEscrow /\ settlement[i] = NotSettled
  OBVIOUS
<1>3. SumFunction(pendingWithdrawals) = 0
  <2>1. \A a \in Accounts : pendingWithdrawals[a] = 0
    OBVIOUS
  <2>2. pendingWithdrawals \in [Accounts -> Int]
    OBVIOUS
  <2> QED BY <2>1, <2>2, AccountsAssumption, SumZero
<1>4. SumFunction(LockedAmounts(CurrentStorage)) = 0
  <2> DEFINE f == LockedAmounts(CurrentStorage)
  <2>1. \A i \in Ids : f[i] = 0
    BY <1>2 DEF LockedAmounts, IsLocked, CurrentStorage, NoEscrow
  <2>2. f \in [Ids -> Int]
    BY <1>2 DEF LockedAmounts, IsLocked, CurrentStorage, NoEscrow
  <2> HIDE DEF f
  <2>3. SumFunction(f) = 0
    BY <2>1, <2>2, IdsFinite, SumZero
  <2> QED BY <2>3 DEF f
<1>5. ASSUME NEW a \in Accounts
      PROVE  pendingWithdrawals[a] = SumFunction(UnpaidAmounts(CurrentStorage, a))
  <2> DEFINE f == UnpaidAmounts(CurrentStorage, a)
  <2>1. \A i \in Ids : f[i] = 0
    BY <1>2 DEF UnpaidAmounts, IsUnpaid, CurrentStorage, NoEscrow
  <2>2. f \in [Ids -> Int]
    BY <1>2 DEF UnpaidAmounts, IsUnpaid, CurrentStorage, NoEscrow
  <2> HIDE DEF f
  <2>3. SumFunction(f) = 0
    BY <2>1, <2>2, IdsFinite, SumZero
  <2> QED BY <2>3 DEF f
<1>6. Solvent(CurrentStorage) /\ TotalIsRight(CurrentStorage)
  BY <1>3, <1>4 DEF Solvent, TotalIsRight, CurrentStorage
<1>7. PayeesAreOwed(CurrentStorage)
  BY <1>5 DEF PayeesAreOwed, CurrentStorage
<1>8. /\ DistinctRoles(CurrentStorage)
      /\ SettlesToParties(CurrentStorage)
      /\ SpendsProofsOnce(CurrentStorage)
      /\ Blank(CurrentStorage)
  BY <1>2 DEF DistinctRoles, SettlesToParties, SpendsProofsOnce, Blank,
              CurrentStorage, NoEscrow
<1> QED BY <1>1, <1>6, <1>7, <1>8 DEF Soundness, Sound
-----------------------------------------------------------------------------
(***************************************************************************)
(* What the helpers do.                                                    *)
(***************************************************************************)

\* MoveTo changes the state of one escrow and nothing else.
LEMMA MoveToEffect ==
  ASSUME TypeOK, NEW id \in Ids, NEW state \in States, MoveTo(id, state)
  PROVE  /\ escrows' \in [Ids -> Escrows]
         /\ escrows'[id].state = state
         /\ \A i \in Ids : i # id => escrows'[i].state = escrows[i].state
         /\ \A i \in Ids : /\ escrows'[i].buyer = escrows[i].buyer
                           /\ escrows'[i].seller = escrows[i].seller
                           /\ escrows'[i].arbiter = escrows[i].arbiter
                           /\ escrows'[i].amount = escrows[i].amount
                           /\ escrows'[i].commitment = escrows[i].commitment
BY DEF MoveTo, TypeOK, Escrows

\* _credit adds the amount to one payee and to the total.
LEMMA CreditEffect ==
  ASSUME TypeOK, TotalIsRight(CurrentStorage),
         NEW payee \in Accounts, NEW amount \in Nat, Credit(payee, amount)
  PROVE  /\ pendingWithdrawals' \in [Accounts -> Nat]
         /\ totalPendingWithdrawals' \in Nat
         /\ pendingWithdrawals'[payee] = pendingWithdrawals[payee] + amount
         /\ \A a \in Accounts : a # payee =>
               pendingWithdrawals'[a] = pendingWithdrawals[a]
         /\ SumFunction(pendingWithdrawals') = SumFunction(pendingWithdrawals) + amount
         /\ TotalIsRight(CurrentStorage)'
<1>1. /\ pendingWithdrawals \in [Accounts -> Nat]
      /\ totalPendingWithdrawals \in Nat
  BY DEF TypeOK
<1>2. /\ pendingWithdrawals' \in [Accounts -> Nat]
      /\ totalPendingWithdrawals' = totalPendingWithdrawals + amount
      /\ pendingWithdrawals'[payee] = pendingWithdrawals[payee] + amount
      /\ \A a \in Accounts \ {payee} : pendingWithdrawals'[a] = pendingWithdrawals[a]
  BY <1>1 DEF Credit
<1>3. SumFunction(pendingWithdrawals')
        = SumFunction(pendingWithdrawals) + pendingWithdrawals'[payee]
                                          - pendingWithdrawals[payee]
  <2>1. /\ pendingWithdrawals \in [Accounts -> Int]
        /\ pendingWithdrawals' \in [Accounts -> Int]
    BY <1>1, <1>2
  <2> QED BY <1>2, <2>1, AccountsAssumption, SumUpdate
<1>4. SumFunction(pendingWithdrawals) \in Nat
  BY <1>1, AccountsAssumption, SumNat
<1>5. SumFunction(pendingWithdrawals') = SumFunction(pendingWithdrawals) + amount
  BY <1>1, <1>2, <1>3, <1>4
<1>6. totalPendingWithdrawals' = SumFunction(pendingWithdrawals')
  BY <1>2, <1>5 DEF TotalIsRight, CurrentStorage
<1> QED BY <1>1, <1>2, <1>5, <1>6 DEF TotalIsRight, CurrentStorage

\* The claims of the payees follow when settlements and amounts stay.
LEMMA ClaimsUnchanged ==
  ASSUME PayeesAreOwed(CurrentStorage), UNCHANGED pendingWithdrawals,
         \A i \in Ids : \A a \in Accounts :
            UnpaidAmounts(CurrentStorage, a)'[i] = UnpaidAmounts(CurrentStorage, a)[i]
  PROVE  PayeesAreOwed(CurrentStorage)'
<1> SUFFICES ASSUME NEW a \in Accounts
             PROVE  pendingWithdrawals'[a] = SumFunction(UnpaidAmounts(CurrentStorage, a)')
  BY DEF PayeesAreOwed, CurrentStorage
<1>1. UnpaidAmounts(CurrentStorage, a)' = UnpaidAmounts(CurrentStorage, a)
  BY DEF UnpaidAmounts
<1>2. pendingWithdrawals[a] = SumFunction(UnpaidAmounts(CurrentStorage, a))
  BY DEF PayeesAreOwed, CurrentStorage
<1> QED BY <1>1, <1>2

-----------------------------------------------------------------------------
(***************************************************************************)
(* A new escrow.                                                           *)
(***************************************************************************)
\* createEscrow writes where there was no record.
LEMMA CreateSound ==
  ASSUME TypeOK, Sound(CurrentStorage),
         NEW sender \in Senders, NEW seller \in Addresses, NEW arbiter \in Addresses,
         NEW amount \in Amounts, NEW commitment \in Commitments,
         CreateEscrow(sender, seller, arbiter, amount, commitment)
  PROVE  TypeOK' /\ Sound(CurrentStorage)'
<1> DEFINE id == nextEscrowId
           new == [buyer |-> sender, seller |-> seller, arbiter |-> arbiter,
                   amount |-> amount, commitment |-> commitment, state |-> "Created"]
<1>1. /\ id \in Ids
      /\ escrows[id] = NoEscrow
      /\ settlement[id] = NotSettled
  <2>1. id \in Ids
    BY MaxEscrowsAssumption DEF CreateEscrow, TypeOK, Ids
  <2>2. escrows[id] = NoEscrow
    BY <2>1 DEF TypeOK, Sound, Blank, CurrentStorage, Ids
  <2>3. settlement[id] = NotSettled
    BY <2>1, <2>2 DEF Sound, SettlesToParties, CurrentStorage, NoEscrow
  <2> QED BY <2>1, <2>2, <2>3
<1>2. new \in Escrows
  BY AccountsAssumption, AmountsAssumption
  DEF Escrows, Senders, Addresses, States
<1>3. /\ escrows' \in [Ids -> Escrows]
      /\ escrows'[id] = new
      /\ \A i \in Ids : i # id => escrows'[i] = escrows[i]
      /\ nextEscrowId' = nextEscrowId + 1
      /\ UNCHANGED <<pendingWithdrawals, totalPendingWithdrawals, nullifierUsed,
                     balance, evidence, settlement, frames>>
  <2> HIDE DEF new
  <2>1. escrows \in [Ids -> Escrows]
    BY DEF TypeOK
  <2>2. escrows' = [escrows EXCEPT ![id] = new]
    BY DEF CreateEscrow, new
  <2>3. /\ nextEscrowId' = nextEscrowId + 1
        /\ UNCHANGED <<pendingWithdrawals, totalPendingWithdrawals, nullifierUsed,
                       balance, evidence, settlement, frames>>
    BY DEF CreateEscrow
  <2> QED BY <1>1, <1>2, <2>1, <2>2, <2>3
<1>4. TypeOK'
  <2>1. nextEscrowId' \in 0 .. MaxEscrows
    BY <1>3, MaxEscrowsAssumption DEF CreateEscrow, TypeOK
  <2> QED BY <1>3, <2>1 DEF TypeOK
<1>5. Solvent(CurrentStorage)'
  <2>1. LockedAmounts(CurrentStorage)' = LockedAmounts(CurrentStorage)
    BY <1>1, <1>3 DEF LockedAmounts, IsLocked, CurrentStorage, NoEscrow
  <2>2. Solvent(CurrentStorage)
    BY DEF Sound
  <2> QED BY <1>3, <2>1, <2>2 DEF Solvent, CurrentStorage
<1>6. TotalIsRight(CurrentStorage)'
  BY <1>3 DEF Sound, TotalIsRight, CurrentStorage
<1>7. PayeesAreOwed(CurrentStorage)'
  <2>1. \A i \in Ids : \A a \in Accounts :
          UnpaidAmounts(CurrentStorage, a)'[i] = UnpaidAmounts(CurrentStorage, a)[i]
    BY <1>1, <1>3, AccountsAssumption
    DEF UnpaidAmounts, IsUnpaid, CurrentStorage, NotSettled
  <2> QED BY <1>3, <2>1, ClaimsUnchanged DEF Sound
<1>8. DistinctRoles(CurrentStorage)'
  <2>1. /\ {sender, seller, arbiter} \subseteq Accounts
        /\ sender # seller /\ arbiter \notin {sender, seller}
    BY DEF CreateEscrow, Senders, Addresses
  <2> QED BY <1>1, <1>3, <2>1 DEF Sound, DistinctRoles, CurrentStorage
<1>9. SettlesToParties(CurrentStorage)'
  <2>1. ZeroAddress # arbiter
    BY DEF CreateEscrow
  <2>2. settlement'[id].payee = ZeroAddress
    BY <1>1, <1>3 DEF NotSettled
  <2>3. /\ escrows'[id].state = "Created"
        /\ escrows'[id].arbiter = arbiter
        /\ settlement'[id] = NotSettled
    BY <1>1, <1>3
  <2> HIDE DEF id, new
  <2> QED BY <1>1, <1>3, <2>1, <2>2, <2>3
      DEF Sound, SettlesToParties, CurrentStorage
<1>10. SpendsProofsOnce(CurrentStorage)'
  <2>1. \A n \in nullifierUsed : n[2] \in Ids
    BY DEF TypeOK, Nullifiers, Poseidon2
  <2>2. \A n \in nullifierUsed : escrows'[n[2]].state = "Released"
    BY <1>1, <1>3, <2>1 DEF Sound, SpendsProofsOnce, CurrentStorage, NoEscrow
  <2>3. ASSUME NEW i \in Ids, escrows'[i].state = "Released"
        PROVE  i # id /\ escrows'[i] = escrows[i]
    BY <1>3, <2>3
  <2> QED BY <1>3, <2>2, <2>3 DEF Sound, SpendsProofsOnce, CurrentStorage
<1>11. Blank(CurrentStorage)'
  BY <1>1, <1>3 DEF Sound, Blank, CurrentStorage, TypeOK, Ids
<1> QED BY <1>4, <1>5, <1>6, <1>7, <1>8, <1>9, <1>10, <1>11 DEF Sound
-----------------------------------------------------------------------------
(***************************************************************************)
(* Moves of an escrow that settle nothing: it is funded or disputed.       *)
(***************************************************************************)

\* What such a move cannot disturb, whatever it does to the balance.
LEMMA OpenMoveKeeps ==
  ASSUME TypeOK, Sound(CurrentStorage), NEW id \in Ids,
         escrows[id].state \in {"Created", "Funded"},
         NEW state \in {"Funded", "Disputed"}, MoveTo(id, state),
         UNCHANGED <<nextEscrowId, pendingWithdrawals, totalPendingWithdrawals,
                     nullifierUsed, settlement>>
  PROVE  /\ DistinctRoles(CurrentStorage)'
         /\ TotalIsRight(CurrentStorage)'
         /\ PayeesAreOwed(CurrentStorage)'
         /\ SettlesToParties(CurrentStorage)'
         /\ SpendsProofsOnce(CurrentStorage)'
         /\ Blank(CurrentStorage)'
<1>1. /\ escrows' \in [Ids -> Escrows]
      /\ escrows'[id].state = state
      /\ \A i \in Ids : i # id => escrows'[i].state = escrows[i].state
      /\ \A i \in Ids : /\ escrows'[i].buyer = escrows[i].buyer
                        /\ escrows'[i].seller = escrows[i].seller
                        /\ escrows'[i].arbiter = escrows[i].arbiter
                        /\ escrows'[i].amount = escrows[i].amount
                        /\ escrows'[i].commitment = escrows[i].commitment
  BY MoveToEffect DEF States
<1>2. DistinctRoles(CurrentStorage)'
  BY <1>1 DEF Sound, DistinctRoles, CurrentStorage
<1>3. TotalIsRight(CurrentStorage)'
  BY DEF Sound, TotalIsRight, CurrentStorage
<1>4. PayeesAreOwed(CurrentStorage)'
  <2>1. \A i \in Ids : \A a \in Accounts :
          UnpaidAmounts(CurrentStorage, a)'[i] = UnpaidAmounts(CurrentStorage, a)[i]
    BY <1>1 DEF UnpaidAmounts, IsUnpaid, CurrentStorage
  <2> QED BY <2>1, ClaimsUnchanged DEF Sound
<1>5. SettlesToParties(CurrentStorage)'
  BY <1>1 DEF Sound, SettlesToParties, CurrentStorage
<1>6. SpendsProofsOnce(CurrentStorage)'
  <2>1. \A n \in nullifierUsed : n[2] \in Ids
    BY DEF TypeOK, Nullifiers, Poseidon2
  <2>2. \A i \in Ids : escrows'[i].state = "Released" <=> escrows[i].state = "Released"
    BY <1>1
  <2> QED BY <1>1, <2>1, <2>2 DEF Sound, SpendsProofsOnce, CurrentStorage
<1>7. Blank(CurrentStorage)'
  <2>1. escrows[id] # NoEscrow
    BY DEF NoEscrow
  <2>2. \A i \in Ids : i # id => escrows'[i] = escrows[i]
    BY DEF MoveTo, TypeOK
  <2> QED BY <2>1, <2>2 DEF Sound, Blank, CurrentStorage
<1> QED BY <1>2, <1>3, <1>4, <1>5, <1>6, <1>7

\* fund: the deposit is held as it becomes locked.
LEMMA FundSound ==
  ASSUME TypeOK, Sound(CurrentStorage),
         NEW sender \in Senders, NEW id \in Ids, NEW value \in Amounts,
         Fund(sender, id, value)
  PROVE  TypeOK' /\ Sound(CurrentStorage)'
<1>1. /\ escrows[id].state = "Created"
      /\ value = escrows[id].amount
      /\ MoveTo(id, "Funded")
      /\ balance' = balance + value
      /\ UNCHANGED <<nextEscrowId, pendingWithdrawals, totalPendingWithdrawals,
                     nullifierUsed, evidence, settlement, frames>>
  BY DEF Fund, InState
<1>2. /\ escrows' \in [Ids -> Escrows]
      /\ escrows'[id].state = "Funded"
      /\ \A i \in Ids : i # id => escrows'[i].state = escrows[i].state
      /\ \A i \in Ids : escrows'[i].amount = escrows[i].amount
  BY <1>1, MoveToEffect DEF States
<1>3. value \in Nat /\ balance \in Nat
  BY AmountsAssumption DEF TypeOK
<1>4. TypeOK'
  BY <1>1, <1>2, <1>3 DEF TypeOK
<1>5. Solvent(CurrentStorage)'
  <2> DEFINE f == LockedAmounts(CurrentStorage)
             g == LockedAmounts(CurrentStorage)'
  <2>1. /\ f \in [Ids -> Nat]
        /\ g \in [Ids -> Nat]
    <3>1. \A i \in Ids : escrows[i].amount \in Nat /\ escrows'[i].amount \in Nat
      BY <1>4 DEF TypeOK, Escrows
    <3> QED BY <3>1 DEF LockedAmounts, CurrentStorage
  <2>2. f[id] = 0 /\ g[id] = value /\ \A i \in Ids \ {id} : g[i] = f[i]
    BY <1>1, <1>2 DEF LockedAmounts, IsLocked, CurrentStorage
  <2> HIDE DEF f, g
  <2>3. SumFunction(g) = SumFunction(f) + g[id] - f[id]
    <3>1. f \in [Ids -> Int] /\ g \in [Ids -> Int]
      BY <2>1
    <3> QED BY <2>2, <3>1, IdsFinite, SumUpdate
  <2>4. SumFunction(f) \in Nat /\ SumFunction(pendingWithdrawals) \in Nat
    BY <2>1, IdsFinite, AccountsAssumption, SumNat DEF TypeOK
  <2>5. balance = SumFunction(pendingWithdrawals) + SumFunction(f)
    BY DEF Sound, Solvent, CurrentStorage, f
  <2>6. balance' = SumFunction(pendingWithdrawals') + SumFunction(g)
    BY <1>1, <1>3, <2>2, <2>3, <2>4, <2>5
  <2> QED BY <2>6 DEF Solvent, CurrentStorage, g
<1> QED BY <1>1, <1>4, <1>5, OpenMoveKeeps DEF Sound

\* raiseDispute moves no money.
LEMMA RaiseDisputeSound ==
  ASSUME TypeOK, Sound(CurrentStorage),
         NEW sender \in Senders, NEW id \in Ids, NEW text \in Texts,
         RaiseDispute(sender, id, text)
  PROVE  TypeOK' /\ Sound(CurrentStorage)'
<1>1. /\ escrows[id].state = "Funded"
      /\ MoveTo(id, "Disputed")
      /\ evidence' = [evidence EXCEPT ![id] = @ \cup {sender}]
      /\ UNCHANGED <<nextEscrowId, pendingWithdrawals, totalPendingWithdrawals,
                     nullifierUsed, balance, settlement, frames>>
  BY DEF RaiseDispute, InState
<1>2. /\ escrows' \in [Ids -> Escrows]
      /\ escrows'[id].state = "Disputed"
      /\ \A i \in Ids : i # id => escrows'[i].state = escrows[i].state
      /\ \A i \in Ids : escrows'[i].amount = escrows[i].amount
  BY <1>1, MoveToEffect DEF States
<1>3. TypeOK'
  BY <1>1, <1>2 DEF TypeOK, Senders
<1>4. Solvent(CurrentStorage)'
  <2>1. LockedAmounts(CurrentStorage)' = LockedAmounts(CurrentStorage)
    BY <1>1, <1>2 DEF LockedAmounts, IsLocked, CurrentStorage
  <2> QED BY <1>1, <2>1 DEF Sound, Solvent, CurrentStorage
<1> QED BY <1>1, <1>3, <1>4, OpenMoveKeeps DEF Sound

\* submitEvidence changes no escrow.
LEMMA SubmitEvidenceSound ==
  ASSUME TypeOK, Sound(CurrentStorage),
         NEW sender \in Senders, NEW id \in Ids, NEW text \in Texts,
         SubmitEvidence(sender, id, text)
  PROVE  TypeOK' /\ Sound(CurrentStorage)'
<1>1. /\ evidence' = [evidence EXCEPT ![id] = @ \cup {sender}]
      /\ UNCHANGED <<escrows, nextEscrowId, pendingWithdrawals,
                     totalPendingWithdrawals, nullifierUsed, balance, settlement,
                     frames>>
  BY DEF SubmitEvidence
<1>2. TypeOK'
  BY <1>1 DEF TypeOK, Senders
<1>3. Sound(CurrentStorage)'
  BY <1>1 DEF Sound, DistinctRoles, Solvent, TotalIsRight, PayeesAreOwed,
     SettlesToParties, SpendsProofsOnce, Blank, CurrentStorage, LockedAmounts,
     IsLocked, UnpaidAmounts, IsUnpaid
<1> QED BY <1>2, <1>3
-----------------------------------------------------------------------------
(***************************************************************************)
(* Settlements.  Releasing, refunding and ruling do the same to the books: *)
(* the deposit stops being locked and becomes a claim of one party.        *)
(***************************************************************************)
\* A settlement: the deposit stops being locked and becomes a claim.
LEMMA SettlementBooks ==
  ASSUME TypeOK, Sound(CurrentStorage), NEW id \in Ids,
         escrows[id].state \in {"Funded", "Disputed"},
         NEW state \in {"Released", "Refunded", "Resolved"},
         NEW payee \in {escrows[id].buyer, escrows[id].seller},
         MoveTo(id, state), Credit(payee, escrows[id].amount),
         RecordSettlement(id, payee),
         UNCHANGED <<nextEscrowId, balance>>
  PROVE  /\ payee \in Accounts
         /\ escrows' \in [Ids -> Escrows]
         /\ pendingWithdrawals' \in [Accounts -> Nat]
         /\ totalPendingWithdrawals' \in Nat
         /\ settlement' \in [Ids -> Settlements]
         /\ settlement'[id].payee = payee
         /\ \A i \in Ids : i # id => settlement'[i] = settlement[i]
         /\ DistinctRoles(CurrentStorage)'
         /\ Solvent(CurrentStorage)'
         /\ TotalIsRight(CurrentStorage)'
         /\ PayeesAreOwed(CurrentStorage)'
         /\ Blank(CurrentStorage)'
<1> DEFINE amount == escrows[id].amount
<1>1. /\ escrows' \in [Ids -> Escrows]
      /\ escrows'[id].state = state
      /\ \A i \in Ids : i # id => escrows'[i].state = escrows[i].state
      /\ \A i \in Ids : /\ escrows'[i].buyer = escrows[i].buyer
                        /\ escrows'[i].seller = escrows[i].seller
                        /\ escrows'[i].arbiter = escrows[i].arbiter
                        /\ escrows'[i].amount = escrows[i].amount
  BY MoveToEffect DEF States
<1>2. payee \in Accounts /\ payee # ZeroAddress
  BY AccountsAssumption DEF Sound, DistinctRoles, CurrentStorage
<1>3. amount \in Nat /\ \A i \in Ids : escrows[i].amount \in Nat
  BY DEF TypeOK, Escrows
<1>4. /\ pendingWithdrawals' \in [Accounts -> Nat]
      /\ totalPendingWithdrawals' \in Nat
      /\ pendingWithdrawals'[payee] = pendingWithdrawals[payee] + amount
      /\ \A a \in Accounts : a # payee => pendingWithdrawals'[a] = pendingWithdrawals[a]
      /\ SumFunction(pendingWithdrawals') = SumFunction(pendingWithdrawals) + amount
      /\ TotalIsRight(CurrentStorage)'
  BY <1>2, <1>3, CreditEffect DEF Sound
<1>5. settlement[id] = NotSettled
  BY DEF Sound, SettlesToParties, CurrentStorage
<1>6. /\ settlement' \in [Ids -> Settlements]
      /\ settlement'[id] = [payee |-> payee, withdrawn |-> FALSE]
      /\ \A i \in Ids : i # id => settlement'[i] = settlement[i]
  <2>1. settlement \in [Ids -> Settlements] /\ payee \in Addresses
    BY <1>2 DEF TypeOK, Addresses
  <2> DEFINE new == [settlement[id] EXCEPT !.payee = payee]
  <2>2. new = [payee |-> payee, withdrawn |-> FALSE]
    <3>1. new = [NotSettled EXCEPT !.payee = payee]
      BY <1>5, Zenon
    <3> HIDE DEF new
    <3> QED BY <3>1 DEF NotSettled
  <2>4. [payee |-> payee, withdrawn |-> FALSE] \in Settlements
    BY <2>1 DEF Settlements
  <2>3. settlement' = [settlement EXCEPT ![id] = new]
    BY <2>1 DEF RecordSettlement
  <2> HIDE DEF new
  <2> QED BY <2>1, <2>2, <2>3, <2>4
<1>7. DistinctRoles(CurrentStorage)'
  BY <1>1 DEF Sound, DistinctRoles, CurrentStorage
<1>8. Solvent(CurrentStorage)'
  <2> DEFINE f == LockedAmounts(CurrentStorage)
             g == LockedAmounts(CurrentStorage)'
  <2>1. /\ f \in [Ids -> Nat]
        /\ g \in [Ids -> Nat]
    BY <1>1, <1>3 DEF LockedAmounts, CurrentStorage
  <2>2. f[id] = amount /\ g[id] = 0 /\ \A i \in Ids \ {id} : g[i] = f[i]
    BY <1>1 DEF LockedAmounts, IsLocked, CurrentStorage
  <2> HIDE DEF f, g, amount
  <2>3. SumFunction(g) = SumFunction(f) + g[id] - f[id]
    <3>1. f \in [Ids -> Int] /\ g \in [Ids -> Int]
      BY <2>1
    <3> QED BY <2>2, <3>1, IdsFinite, SumUpdate
  <2>4. SumFunction(f) \in Nat /\ SumFunction(pendingWithdrawals) \in Nat
    BY <2>1, IdsFinite, AccountsAssumption, SumNat DEF TypeOK
  <2>5. balance = SumFunction(pendingWithdrawals) + SumFunction(f)
    BY DEF Sound, Solvent, CurrentStorage, f
  <2>6. balance' = SumFunction(pendingWithdrawals') + SumFunction(g)
    BY <1>3, <1>4, <2>2, <2>3, <2>4, <2>5
  <2> QED BY <2>6 DEF Solvent, CurrentStorage, g
<1>9. PayeesAreOwed(CurrentStorage)'
  <2> SUFFICES ASSUME NEW a \in Accounts
               PROVE  pendingWithdrawals'[a] = SumFunction(UnpaidAmounts(CurrentStorage, a)')
    BY DEF PayeesAreOwed, CurrentStorage
  <2> DEFINE f == UnpaidAmounts(CurrentStorage, a)
             g == UnpaidAmounts(CurrentStorage, a)'
  <2>1. f \in [Ids -> Nat] /\ g \in [Ids -> Nat]
    BY <1>1, <1>3 DEF UnpaidAmounts, CurrentStorage
  <2>2. \A i \in Ids \ {id} : g[i] = f[i]
    BY <1>1, <1>6 DEF UnpaidAmounts, IsUnpaid, CurrentStorage
  <2>3. f[id] = 0
    BY <1>5, AccountsAssumption DEF UnpaidAmounts, IsUnpaid, CurrentStorage, NotSettled
  <2>4. g[id] = IF a = payee THEN amount ELSE 0
    BY <1>1, <1>6 DEF UnpaidAmounts, IsUnpaid, CurrentStorage
  <2>5. pendingWithdrawals[a] = SumFunction(f)
    BY DEF Sound, PayeesAreOwed, CurrentStorage
  <2> HIDE DEF f, g, amount
  <2>6. SumFunction(g) = SumFunction(f) + g[id] - f[id]
    <3>1. f \in [Ids -> Int] /\ g \in [Ids -> Int]
      BY <2>1
    <3> QED BY <2>2, <3>1, IdsFinite, SumUpdate
  <2>7. SumFunction(f) \in Nat
    BY <2>1, IdsFinite, SumNat
  <2>8. pendingWithdrawals'[a] = SumFunction(g)
    BY <1>3, <1>4, <2>3, <2>4, <2>5, <2>6, <2>7
  <2> QED BY <2>8 DEF g
<1>10. Blank(CurrentStorage)'
  <2>1. escrows[id] # NoEscrow
    BY DEF NoEscrow
  <2>2. \A i \in Ids : i # id => escrows'[i] = escrows[i]
    BY DEF MoveTo, TypeOK
  <2> QED BY <2>1, <2>2 DEF Sound, Blank, CurrentStorage
<1> QED BY <1>1, <1>2, <1>4, <1>6, <1>7, <1>8, <1>9, <1>10
\* A release also spends a proof, of this escrow and never spent before.
LEMMA ReleaseSound ==
  ASSUME TypeOK, Sound(CurrentStorage), NEW id \in Ids, NEW nullifier \in Nullifiers,
         Release(id, nullifier)
  PROVE  TypeOK' /\ Sound(CurrentStorage)'
<1> DEFINE payee == escrows[id].seller
<1>1. /\ escrows[id].state = "Funded"
      /\ nullifier \notin nullifierUsed
      /\ Delivery(nullifier, escrows[id].commitment, id)
      /\ nullifierUsed' = nullifierUsed \cup {nullifier}
      /\ MoveTo(id, "Released")
      /\ Credit(payee, escrows[id].amount)
      /\ RecordSettlement(id, payee)
      /\ UNCHANGED <<nextEscrowId, balance, evidence, frames>>
  BY DEF Release, InState
<1>2. /\ payee \in Accounts
      /\ escrows' \in [Ids -> Escrows]
      /\ pendingWithdrawals' \in [Accounts -> Nat]
      /\ totalPendingWithdrawals' \in Nat
      /\ settlement' \in [Ids -> Settlements]
      /\ settlement'[id].payee = payee
      /\ \A i \in Ids : i # id => settlement'[i] = settlement[i]
      /\ DistinctRoles(CurrentStorage)'
      /\ Solvent(CurrentStorage)'
      /\ TotalIsRight(CurrentStorage)'
      /\ PayeesAreOwed(CurrentStorage)'
      /\ Blank(CurrentStorage)'
  BY <1>1, SettlementBooks
<1>3. /\ escrows'[id].state = "Released"
      /\ \A i \in Ids : i # id => escrows'[i].state = escrows[i].state
      /\ \A i \in Ids : /\ escrows'[i].buyer = escrows[i].buyer
                        /\ escrows'[i].seller = escrows[i].seller
                        /\ escrows'[i].arbiter = escrows[i].arbiter
                        /\ escrows'[i].commitment = escrows[i].commitment
  BY <1>1, MoveToEffect DEF States
<1>4. TypeOK'
  BY <1>1, <1>2 DEF TypeOK
<1>5. SettlesToParties(CurrentStorage)'
  BY <1>1, <1>2, <1>3 DEF Sound, SettlesToParties, DistinctRoles, CurrentStorage
<1>6. SpendsProofsOnce(CurrentStorage)'
  <2>1. nullifier[2] = id
    BY <1>1 DEF Delivery, Poseidon2
  <2>2. \A n \in nullifierUsed : n[2] \in Ids /\ escrows[n[2]].state = "Released"
    BY DEF TypeOK, Nullifiers, Poseidon2, Sound, SpendsProofsOnce, CurrentStorage
  <2>3. \A n \in nullifierUsed : n[2] # id
    BY <1>1, <2>2
  <2>4. \A n \in nullifierUsed' : escrows'[n[2]].state = "Released"
    BY <1>1, <1>3, <2>1, <2>2
  <2>5. ASSUME NEW i \in Ids, escrows'[i].state = "Released"
        PROVE  \E n \in nullifierUsed' :
                  /\ Delivery(n, escrows'[i].commitment, i)
                  /\ \A m \in nullifierUsed' : m[2] = i => m = n
    <3>1. CASE i = id
      <4>1. Delivery(nullifier, escrows'[i].commitment, i)
        BY <1>1, <1>3, <3>1
      <4>2. \A m \in nullifierUsed' : m[2] = i => m = nullifier
        BY <1>1, <2>3, <3>1
      <4> QED BY <1>1, <4>1, <4>2
    <3>2. CASE i # id
      <4>1. PICK n \in nullifierUsed :
               /\ Delivery(n, escrows[i].commitment, i)
               /\ \A m \in nullifierUsed : m[2] = i => m = n
        BY <1>3, <2>5, <3>2 DEF Sound, SpendsProofsOnce, CurrentStorage
      <4>2. \A m \in nullifierUsed' : m[2] = i => m = n
        BY <1>1, <2>1, <3>2, <4>1
      <4>3. Delivery(n, escrows'[i].commitment, i)
        BY <1>3, <4>1
      <4> QED BY <1>1, <4>2, <4>3
    <3> QED BY <3>1, <3>2
  <2> QED BY <2>4, <2>5 DEF SpendsProofsOnce, CurrentStorage
<1> QED BY <1>2, <1>4, <1>5, <1>6 DEF Sound

\* A settlement that spends no proof.
LEMMA PlainSettlementSound ==
  ASSUME TypeOK, Sound(CurrentStorage), NEW id \in Ids,
         escrows[id].state \in {"Funded", "Disputed"},
         NEW state \in {"Refunded", "Resolved"},
         NEW payee \in {escrows[id].buyer, escrows[id].seller},
         state = "Refunded" => payee = escrows[id].buyer,
         MoveTo(id, state), Credit(payee, escrows[id].amount),
         RecordSettlement(id, payee),
         UNCHANGED <<nextEscrowId, nullifierUsed, balance, evidence, frames>>
  PROVE  TypeOK' /\ Sound(CurrentStorage)'
<1>1. /\ payee \in Accounts
      /\ escrows' \in [Ids -> Escrows]
      /\ pendingWithdrawals' \in [Accounts -> Nat]
      /\ totalPendingWithdrawals' \in Nat
      /\ settlement' \in [Ids -> Settlements]
      /\ settlement'[id].payee = payee
      /\ \A i \in Ids : i # id => settlement'[i] = settlement[i]
      /\ DistinctRoles(CurrentStorage)'
      /\ Solvent(CurrentStorage)'
      /\ TotalIsRight(CurrentStorage)'
      /\ PayeesAreOwed(CurrentStorage)'
      /\ Blank(CurrentStorage)'
  BY SettlementBooks
<1>2. /\ escrows'[id].state = state
      /\ \A i \in Ids : i # id => escrows'[i].state = escrows[i].state
      /\ \A i \in Ids : /\ escrows'[i].buyer = escrows[i].buyer
                        /\ escrows'[i].seller = escrows[i].seller
                        /\ escrows'[i].arbiter = escrows[i].arbiter
                        /\ escrows'[i].commitment = escrows[i].commitment
  BY MoveToEffect DEF States
<1>3. TypeOK'
  BY <1>1 DEF TypeOK
<1>4. SettlesToParties(CurrentStorage)'
  BY <1>1, <1>2 DEF Sound, SettlesToParties, DistinctRoles, CurrentStorage
<1>5. SpendsProofsOnce(CurrentStorage)'
  <2>1. \A n \in nullifierUsed : n[2] \in Ids
    BY DEF TypeOK, Nullifiers, Poseidon2
  <2>2. \A i \in Ids : escrows'[i].state = "Released" <=> escrows[i].state = "Released"
    BY <1>2
  <2> QED BY <1>2, <2>1, <2>2 DEF Sound, SpendsProofsOnce, CurrentStorage
<1> QED BY <1>1, <1>3, <1>4, <1>5 DEF Sound

\* refund settles to the buyer.
LEMMA RefundSound ==
  ASSUME TypeOK, Sound(CurrentStorage), NEW sender \in Senders, NEW id \in Ids,
         Refund(sender, id)
  PROVE  TypeOK' /\ Sound(CurrentStorage)'
BY PlainSettlementSound DEF Refund, InState

\* resolveDispute settles to the side the arbiter names.
LEMMA ResolveDisputeSound ==
  ASSUME TypeOK, Sound(CurrentStorage), NEW sender \in Senders, NEW id \in Ids,
         NEW ruling \in Rulings, NEW text \in Texts,
         ResolveDispute(sender, id, ruling, text)
  PROVE  TypeOK' /\ Sound(CurrentStorage)'
<1>1. Beneficiary(id, ruling) \in {escrows[id].buyer, escrows[id].seller}
  BY DEF Beneficiary
<1> QED BY <1>1, PlainSettlementSound DEF ResolveDispute, InState

(***************************************************************************)
(* Withdrawing takes the whole balance of the sender out of the books, out *)
(* of the vault and out of what is unpaid; and the subtractions are safe:  *)
(* neither the running total nor the vault goes below zero.                *)
(***************************************************************************)
\* withdraw: the claims of the sender, and its balance, go to zero together.
LEMMA WithdrawCallSound ==
  ASSUME TypeOK, Sound(CurrentStorage), NEW sender \in Senders, WithdrawCall(sender)
  PROVE  TypeOK' /\ Sound(CurrentStorage)'
<1> DEFINE owed == pendingWithdrawals[sender]
<1>1. sender \in Accounts /\ sender # ZeroAddress
  BY AccountsAssumption DEF Senders
<1>2. /\ frames' = {[payee |-> sender, saved |-> CurrentStorage]}
      /\ pendingWithdrawals' = [pendingWithdrawals EXCEPT ![sender] = 0]
      /\ totalPendingWithdrawals' = totalPendingWithdrawals - owed
      /\ balance' = balance - owed
      /\ settlement' = PaidOut(sender)
      /\ UNCHANGED <<escrows, nextEscrowId, nullifierUsed, evidence>>
  BY DEF WithdrawCall
<1>3. /\ pendingWithdrawals \in [Accounts -> Nat]
      /\ pendingWithdrawals' \in [Accounts -> Nat]
      /\ pendingWithdrawals'[sender] = 0
      /\ \A a \in Accounts \ {sender} : pendingWithdrawals'[a] = pendingWithdrawals[a]
      /\ owed \in Nat
  BY <1>1, <1>2 DEF TypeOK
<1>4. /\ SumFunction(pendingWithdrawals) \in Nat
      /\ owed <= SumFunction(pendingWithdrawals)
  BY <1>1, <1>3, AccountsAssumption, SumNat, SumBoundsEntry
<1>5. SumFunction(pendingWithdrawals') = SumFunction(pendingWithdrawals) - owed
  <2>1. /\ pendingWithdrawals \in [Accounts -> Int]
        /\ pendingWithdrawals' \in [Accounts -> Int]
    BY <1>3
  <2>2. SumFunction(pendingWithdrawals') =
          SumFunction(pendingWithdrawals) + pendingWithdrawals'[sender] - owed
    BY <1>1, <1>3, <2>1, AccountsAssumption, SumUpdate
  <2> HIDE DEF owed
  <2> QED BY <1>3, <1>4, <2>2
<1>6. /\ settlement \in [Ids -> Settlements]
      /\ settlement' \in [Ids -> Settlements]
      /\ \A i \in Ids : /\ settlement'[i].payee = settlement[i].payee
                        /\ settlement[i].payee = sender => settlement'[i].withdrawn
                        /\ settlement[i].payee # sender => settlement'[i] = settlement[i]
  <2>1. settlement \in [Ids -> Settlements]
    BY DEF TypeOK
  <2>2. \A i \in Ids :
          settlement'[i] = IF settlement[i].payee = sender
                           THEN [settlement[i] EXCEPT !.withdrawn = TRUE]
                           ELSE settlement[i]
    BY <1>2 DEF PaidOut
  <2>3. \A x \in Settlements :
          LET y == [x EXCEPT !.withdrawn = TRUE]
          IN  y \in Settlements /\ y.payee = x.payee /\ y.withdrawn
    BY DEF Settlements
  <2>4. settlement' \in [Ids -> Settlements]
    BY <1>2, <2>1, <2>3 DEF PaidOut
  <2> QED BY <2>1, <2>2, <2>3, <2>4
<1> DEFINE locked == SumFunction(LockedAmounts(CurrentStorage))
<1>7. locked \in Nat /\ balance = SumFunction(pendingWithdrawals) + locked
  <2>1. LockedAmounts(CurrentStorage) \in [Ids -> Nat]
    BY DEF TypeOK, Escrows, LockedAmounts, CurrentStorage
  <2> QED BY <2>1, IdsFinite, SumNat DEF Sound, Solvent, CurrentStorage
<1>8. LockedAmounts(CurrentStorage)' = LockedAmounts(CurrentStorage)
  BY <1>2 DEF LockedAmounts, IsLocked, CurrentStorage
<1>9. totalPendingWithdrawals = SumFunction(pendingWithdrawals)
  BY DEF Sound, TotalIsRight, CurrentStorage
<1>10. balance' \in Nat /\ balance' = SumFunction(pendingWithdrawals') + locked
  <2> HIDE DEF owed, locked
  <2> QED BY <1>2, <1>3, <1>4, <1>5, <1>7
<1>11. totalPendingWithdrawals' \in Nat
       /\ totalPendingWithdrawals' = SumFunction(pendingWithdrawals')
  <2> HIDE DEF owed
  <2> QED BY <1>2, <1>3, <1>4, <1>5, <1>9
<1>12. CurrentStorage \in Storage
  BY DEF TypeOK, CurrentStorage, Storage
<1>13. TypeOK'
  <2>1. frames' \in SUBSET Frames
    BY <1>1, <1>2, <1>12 DEF Frames
  <2> QED BY <1>2, <1>3, <1>6, <1>10, <1>11, <2>1 DEF TypeOK
<1>14. Solvent(CurrentStorage)'
  BY <1>8, <1>10 DEF Solvent, CurrentStorage
<1>15. TotalIsRight(CurrentStorage)'
  BY <1>11 DEF TotalIsRight, CurrentStorage
<1>16. PayeesAreOwed(CurrentStorage)'
  <2> SUFFICES ASSUME NEW a \in Accounts
               PROVE  pendingWithdrawals'[a] = SumFunction(UnpaidAmounts(CurrentStorage, a)')
    BY DEF PayeesAreOwed, CurrentStorage
  <2> DEFINE f == UnpaidAmounts(CurrentStorage, a)
             g == UnpaidAmounts(CurrentStorage, a)'
  <2>1. CASE a = sender
    <3>1. g \in [Ids -> Int] /\ \A i \in Ids : g[i] = 0
      BY <1>6, <2>1 DEF UnpaidAmounts, IsUnpaid, CurrentStorage
    <3> HIDE DEF g
    <3>2. SumFunction(g) = 0
      BY <3>1, IdsFinite, SumZero
    <3> QED BY <1>3, <2>1, <3>2 DEF g
  <2>2. CASE a # sender
    <3>1. g = f
      BY <1>2, <1>6, <2>2 DEF UnpaidAmounts, IsUnpaid, CurrentStorage
    <3>2. pendingWithdrawals[a] = SumFunction(f)
      BY DEF Sound, PayeesAreOwed, CurrentStorage
    <3> QED BY <1>3, <2>2, <3>1, <3>2
  <2> QED BY <2>1, <2>2
<1>17. SettlesToParties(CurrentStorage)'
  <2>1. \A i \in Ids : settlement[i] = NotSettled => settlement'[i] = settlement[i]
    BY <1>1, <1>6 DEF NotSettled
  <2> QED BY <1>2, <1>6, <2>1 DEF Sound, SettlesToParties, CurrentStorage
<1>18. /\ DistinctRoles(CurrentStorage)'
       /\ SpendsProofsOnce(CurrentStorage)'
       /\ Blank(CurrentStorage)'
  BY <1>2 DEF Sound, DistinctRoles, SpendsProofsOnce, Blank, CurrentStorage
<1> QED BY <1>13, <1>14, <1>15, <1>16, <1>17, <1>18 DEF Sound

\* Soundness says something of a storage, whatever step leads to it.
LEMMA SoundStorage ==
  ASSUME NEW s, Sound(s), CurrentStorage' = s
  PROVE  Sound(CurrentStorage)'
<1>1. DistinctRoles(CurrentStorage)' /\ Blank(CurrentStorage)'
  BY DEF Sound, DistinctRoles, Blank
<1>2. Solvent(CurrentStorage)'
  BY DEF Sound, Solvent, LockedAmounts, IsLocked
<1>3. TotalIsRight(CurrentStorage)'
  BY DEF Sound, TotalIsRight
<1>4. PayeesAreOwed(CurrentStorage)'
  BY DEF Sound, PayeesAreOwed, UnpaidAmounts, IsUnpaid
<1>5. SettlesToParties(CurrentStorage)' /\ SpendsProofsOnce(CurrentStorage)'
  BY DEF Sound, SettlesToParties, SpendsProofsOnce
<1> QED BY <1>1, <1>2, <1>3, <1>4, <1>5 DEF Sound

\* The payee returns and the copy is dropped.
LEMMA WithdrawReturnSound ==
  ASSUME TypeOK, Sound(CurrentStorage), NEW frame \in frames, WithdrawReturn(frame)
  PROVE  TypeOK' /\ Sound(CurrentStorage)'
<1>1. frames' = {} /\ CurrentStorage' = CurrentStorage
  BY DEF WithdrawReturn, CurrentStorage
<1>2. TypeOK'
  BY DEF WithdrawReturn, TypeOK
<1> QED BY <1>1, <1>2, SoundStorage

\* The payee fails and the copy, which is sound, is restored.
LEMMA WithdrawRevertSound ==
  ASSUME TypeOK, NEW frame \in frames, Sound(frame.saved), WithdrawRevert(frame)
  PROVE  TypeOK' /\ Sound(CurrentStorage)'
<1>1. frame.saved \in Storage
  BY DEF TypeOK, Frames
<1>2. CurrentStorage' = frame.saved
  BY <1>1 DEF WithdrawRevert, CurrentStorage, Storage
<1>3. TypeOK'
  BY <1>1 DEF WithdrawRevert, TypeOK, Storage
<1> QED BY <1>2, <1>3, SoundStorage

-----------------------------------------------------------------------------
(***************************************************************************)
(* Every step of the contract keeps Soundness.  A step other than those of *)
(* a withdrawal leaves the frames alone, so all there is to show of it is  *)
(* that the storage stays sound.                                           *)
(***************************************************************************)
\* Every step, and the copy that a running withdrawal holds.
LEMMA StepSound == Soundness /\ [Next]_vars => Soundness'
<1> SUFFICES ASSUME Soundness, [Next]_vars PROVE Soundness'
  OBVIOUS
<1> USE DEF Soundness
<1>1. ASSUME frames' = frames, TypeOK' /\ Sound(CurrentStorage)' PROVE Soundness'
  BY <1>1
<1>2. ASSUME frames' = {}, TypeOK' /\ Sound(CurrentStorage)' PROVE Soundness'
  BY <1>2
<1>3. ASSUME NEW sender \in Senders, NEW seller \in Addresses, NEW arbiter \in Addresses,
             NEW amount \in Amounts, NEW commitment \in Commitments,
             CreateEscrow(sender, seller, arbiter, amount, commitment)
      PROVE  Soundness'
  <2>1. frames' = frames
    BY <1>3 DEF CreateEscrow
  <2>2. TypeOK' /\ Sound(CurrentStorage)'
    BY <1>3, CreateSound
  <2> QED BY <1>1, <2>1, <2>2
<1>4. ASSUME NEW sender \in Senders, NEW id \in Ids, PartyStep(sender, id)
      PROVE  Soundness'
  <2>1. ASSUME NEW value \in Amounts, Fund(sender, id, value) PROVE Soundness'
    <3>1. frames' = frames
      BY <2>1 DEF Fund
    <3>2. TypeOK' /\ Sound(CurrentStorage)'
      BY <2>1, FundSound
    <3> QED BY <1>1, <3>1, <3>2
  <2>2. ASSUME Refund(sender, id) PROVE Soundness'
    <3>1. frames' = frames
      BY <2>2 DEF Refund
    <3>2. TypeOK' /\ Sound(CurrentStorage)'
      BY <2>2, RefundSound
    <3> QED BY <1>1, <3>1, <3>2
  <2>3. ASSUME NEW text \in Texts, RaiseDispute(sender, id, text) PROVE Soundness'
    <3>1. frames' = frames
      BY <2>3 DEF RaiseDispute
    <3>2. TypeOK' /\ Sound(CurrentStorage)'
      BY <2>3, RaiseDisputeSound
    <3> QED BY <1>1, <3>1, <3>2
  <2>4. ASSUME NEW text \in Texts, SubmitEvidence(sender, id, text) PROVE Soundness'
    <3>1. frames' = frames
      BY <2>4 DEF SubmitEvidence
    <3>2. TypeOK' /\ Sound(CurrentStorage)'
      BY <2>4, SubmitEvidenceSound
    <3> QED BY <1>1, <3>1, <3>2
  <2>5. ASSUME NEW text \in Texts, NEW ruling \in Rulings,
               ResolveDispute(sender, id, ruling, text)
        PROVE  Soundness'
    <3>1. frames' = frames
      BY <2>5 DEF ResolveDispute
    <3>2. TypeOK' /\ Sound(CurrentStorage)'
      BY <2>5, ResolveDisputeSound
    <3> QED BY <1>1, <3>1, <3>2
  <2> QED BY <1>4, <2>1, <2>2, <2>3, <2>4, <2>5 DEF PartyStep
<1>5. ASSUME NEW id \in Ids, NEW nullifier \in Nullifiers, Release(id, nullifier)
      PROVE  Soundness'
  <2>1. frames' = frames
    BY <1>5 DEF Release
  <2>2. TypeOK' /\ Sound(CurrentStorage)'
    BY <1>5, ReleaseSound
  <2> QED BY <1>1, <2>1, <2>2
<1>6. ASSUME NEW sender \in Senders, WithdrawCall(sender) PROVE Soundness'
  <2>1. \A f \in frames' : f.saved = CurrentStorage
    BY <1>6 DEF WithdrawCall
  <2>2. \A f \in frames' : Sound(f.saved)
    BY <2>1
  <2>3. TypeOK' /\ Sound(CurrentStorage)'
    BY <1>6, WithdrawCallSound
  <2> QED BY <2>2, <2>3
<1>7. ASSUME NEW frame \in frames, WithdrawReturn(frame) PROVE Soundness'
  <2>1. frames' = {}
    BY <1>7 DEF WithdrawReturn
  <2>2. TypeOK' /\ Sound(CurrentStorage)'
    BY <1>7, WithdrawReturnSound
  <2> QED BY <1>2, <2>1, <2>2
<1>8. ASSUME NEW frame \in frames, WithdrawRevert(frame) PROVE Soundness'
  <2>1. frames' = {}
    BY <1>8 DEF WithdrawRevert
  <2>2. TypeOK' /\ Sound(CurrentStorage)'
    BY <1>8, WithdrawRevertSound
  <2> QED BY <1>2, <2>1, <2>2
<1>9. CASE UNCHANGED vars
  <2>1. TypeOK'
    BY <1>9 DEF vars, TypeOK
  <2>2. CurrentStorage' = CurrentStorage /\ frames' = frames
    BY <1>9 DEF vars, CurrentStorage
  <2>3. Sound(CurrentStorage)'
    BY <2>2, SoundStorage
  <2> QED BY <1>1, <2>1, <2>2, <2>3
<1> QED BY <1>3, <1>4, <1>5, <1>6, <1>7, <1>8, <1>9 DEF Next

\* In every reachable state, at every point of every call, the storage of the
\* contract is sound and so is the copy a running withdrawal falls back to.
THEOREM SoundnessHolds == Spec => []Soundness
<1>1. Init => Soundness
  BY InitSound
<1>2. Soundness /\ [Next]_vars => Soundness'
  BY StepSound
<1> QED BY <1>1, <1>2, PTL DEF Spec

\* The variables keep their types.  They are natural numbers, so the checked
\* subtractions of withdraw never revert and no payee is locked out by them.
THEOREM TypeCorrect == Spec => []TypeOK
<1>1. Soundness => TypeOK
  BY DEF Soundness
<1> QED BY <1>1, SoundnessHolds, PTL

\* The ETH the contract holds is what is in escrow plus what is credited.
THEOREM SolvencyHolds == Spec => []Solvency
<1>1. Soundness => Solvency
  BY DEF Soundness, Sound, Solvency
<1> QED BY <1>1, SoundnessHolds, PTL

\* totalPendingWithdrawals is the total of pendingWithdrawals.
THEOREM TotalHolds == Spec => []TotalMatchesCredits
<1>1. Soundness => TotalMatchesCredits
  BY DEF Soundness, Sound, TotalMatchesCredits
<1> QED BY <1>1, SoundnessHolds, PTL

\* A payee can pull exactly the deposits settled to it and not yet pulled.
THEOREM EntitlementsHold == Spec => []EntitlementsKept
<1>1. Soundness => EntitlementsKept
  BY DEF Soundness, Sound, EntitlementsKept
<1> QED BY <1>1, SoundnessHolds, PTL

\* An escrow is settled to one of its own parties and never to its arbiter.
THEOREM SettlementsHold == Spec => []SettledToAParty
<1>1. Soundness => SettledToAParty
  BY DEF Soundness, Sound, SettledToAParty
<1> QED BY <1>1, SoundnessHolds, PTL

\* Every release spends one nullifier, and every spent nullifier was spent on
\* the escrow it was made for.
THEOREM ProofsHold == Spec => []ProofsSpentOnce
<1>1. Soundness => ProofsSpentOnce
  BY DEF Soundness, Sound, ProofsSpentOnce
<1> QED BY <1>1, SoundnessHolds, PTL

\* However many escrows share a commitment, the release of one never spends
\* the proof another needs.
THEOREM ReleasesStayOpen == Spec => []ReleaseStaysOpen
<1>1. ASSUME Soundness PROVE ReleaseStaysOpen
  <2> SUFFICES ASSUME NEW i \in Ids, NEW secret \in Secrets,
                      escrows[i].state = "Funded",
                      escrows[i].commitment = Poseidon1(secret)
               PROVE  \E n \in Nullifiers \ nullifierUsed :
                         Delivery(n, escrows[i].commitment, i)
    BY DEF ReleaseStaysOpen
  <2> DEFINE n == Poseidon2(secret, i)
  <2>1. n \in Nullifiers /\ n[2] = i
    BY DEF Nullifiers, Poseidon2
  <2>2. Delivery(n, escrows[i].commitment, i)
    BY DEF Delivery
  <2>3. n \notin nullifierUsed
    BY <1>1, <2>1 DEF Soundness, Sound, SpendsProofsOnce, CurrentStorage
  <2> HIDE DEF n
  <2> QED BY <2>1, <2>2, <2>3
<1> QED BY <1>1, SoundnessHolds, PTL

-----------------------------------------------------------------------------
(***************************************************************************)
(* Evidence.  It rests on Soundness, which says that an escrow without a   *)
(* record yet is blank; and like Soundness it has to be carried along for  *)
(* the storage that a running withdrawal would fall back to.               *)
(***************************************************************************)
EvidenceRight(s) ==
    \A i \in Ids :
        /\ s.evidence[i] \subseteq {s.escrows[i].buyer, s.escrows[i].seller}
        /\ s.evidence[i] # {} <=> s.escrows[i].state \in {"Disputed", "Resolved"}

EvidenceInvariant ==
    /\ EvidenceRight(CurrentStorage)
    /\ \A f \in frames : EvidenceRight(f.saved)

\* The property, as a statement about any storage.
LEMMA EvidenceNow == EvidenceRight(CurrentStorage) <=> EvidenceOnRecord
BY DEF EvidenceRight, EvidenceOnRecord, CurrentStorage

\* A function that keeps the evidence may only move an escrow as long as it
\* is in dispute, or has been, before and after or neither.
LEMMA EvidenceKept ==
  ASSUME EvidenceInvariant, UNCHANGED <<evidence, frames>>,
         \A i \in Ids :
            /\ evidence[i] # {} => UNCHANGED <<escrows[i].buyer, escrows[i].seller>>
            /\ escrows'[i].state \in {"Disputed", "Resolved"}
                 <=> escrows[i].state \in {"Disputed", "Resolved"}
  PROVE  EvidenceInvariant'
BY DEF EvidenceInvariant, EvidenceRight, CurrentStorage

\* Putting evidence on record leaves the escrow in dispute.
LEMMA EvidenceAdded ==
  ASSUME EvidenceInvariant, TypeOK, NEW id \in Ids, NEW sender \in Senders,
         IsParty(sender, id), UNCHANGED frames,
         evidence' = [evidence EXCEPT ![id] = @ \cup {sender}],
         escrows'[id].state = "Disputed",
         \A i \in Ids : UNCHANGED <<escrows[i].buyer, escrows[i].seller>>,
         \A i \in Ids : i # id => UNCHANGED escrows[i].state
  PROVE  EvidenceInvariant'
<1>1. /\ evidence'[id] = evidence[id] \cup {sender}
      /\ \A i \in Ids : i # id => evidence'[i] = evidence[i]
  BY DEF TypeOK
<1>2. \A i \in Ids : evidence'[i] \subseteq {escrows'[i].buyer, escrows'[i].seller}
  BY <1>1 DEF IsParty, EvidenceInvariant, EvidenceRight, CurrentStorage
<1>3. \A i \in Ids : evidence'[i] # {} <=> escrows'[i].state \in {"Disputed", "Resolved"}
  BY <1>1 DEF EvidenceInvariant, EvidenceRight, CurrentStorage
<1>4. \A f \in frames' : EvidenceRight(f.saved)
  BY DEF EvidenceInvariant
<1> QED BY <1>2, <1>3, <1>4 DEF EvidenceInvariant, EvidenceRight, CurrentStorage

\* The statements on record, in the storage and in the copy of a withdrawal.
LEMMA EvidenceStep == Soundness /\ EvidenceInvariant /\ [Next]_vars => EvidenceInvariant'
<1> SUFFICES ASSUME Soundness, EvidenceInvariant, [Next]_vars PROVE EvidenceInvariant'
  OBVIOUS
<1> USE DEF Soundness
<1>1. ASSUME NEW sender \in Senders, NEW seller \in Addresses, NEW arbiter \in Addresses,
             NEW amount \in Amounts, NEW commitment \in Commitments,
             CreateEscrow(sender, seller, arbiter, amount, commitment)
      PROVE  EvidenceInvariant'
  <2>1. nextEscrowId \in Ids
    BY <1>1, MaxEscrowsAssumption DEF CreateEscrow, TypeOK, Ids
  <2>2. PICK id \in Ids : id = nextEscrowId
    BY <2>1
  <2>3. escrows[id].state = "None"
    BY <2>2 DEF Sound, Blank, CurrentStorage, NoEscrow, TypeOK, Ids
  <2>4. evidence[id] = {}
    BY <2>3 DEF EvidenceInvariant, EvidenceRight, CurrentStorage
  <2>5. /\ escrows'[id].state = "Created"
        /\ \A i \in Ids : i # id => escrows'[i] = escrows[i]
        /\ UNCHANGED <<evidence, frames>>
    BY <1>1, <2>2 DEF CreateEscrow, TypeOK
  <2> QED BY <2>3, <2>4, <2>5, EvidenceKept
<1>2. ASSUME NEW sender \in Senders, NEW id \in Ids, NEW value \in Amounts,
             Fund(sender, id, value)
      PROVE  EvidenceInvariant'
  <2>1. MoveTo(id, "Funded") /\ escrows[id].state = "Created" /\ UNCHANGED <<evidence, frames>>
    BY <1>2 DEF Fund, InState
  <2> QED BY <2>1, MoveToEffect, EvidenceKept DEF States
<1>3. ASSUME NEW sender \in Senders, NEW id \in Ids, Refund(sender, id)
      PROVE  EvidenceInvariant'
  <2>1. MoveTo(id, "Refunded") /\ escrows[id].state = "Funded" /\ UNCHANGED <<evidence, frames>>
    BY <1>3 DEF Refund, InState
  <2> QED BY <2>1, MoveToEffect, EvidenceKept DEF States
<1>4. ASSUME NEW sender \in Senders, NEW id \in Ids, NEW text \in Texts,
             RaiseDispute(sender, id, text)
      PROVE  EvidenceInvariant'
  <2>1. /\ MoveTo(id, "Disputed") /\ IsParty(sender, id)
        /\ evidence' = [evidence EXCEPT ![id] = @ \cup {sender}]
        /\ UNCHANGED frames
    BY <1>4 DEF RaiseDispute
  <2>2. /\ escrows'[id].state = "Disputed"
        /\ \A i \in Ids : UNCHANGED <<escrows[i].buyer, escrows[i].seller>>
        /\ \A i \in Ids : i # id => UNCHANGED escrows[i].state
    BY <2>1, MoveToEffect DEF States
  <2> QED BY <2>1, <2>2, EvidenceAdded
<1>5. ASSUME NEW sender \in Senders, NEW id \in Ids, NEW text \in Texts,
             SubmitEvidence(sender, id, text)
      PROVE  EvidenceInvariant'
  BY <1>5, EvidenceAdded DEF SubmitEvidence, InState
<1>6. ASSUME NEW sender \in Senders, NEW id \in Ids, NEW text \in Texts,
             NEW ruling \in Rulings, ResolveDispute(sender, id, ruling, text)
      PROVE  EvidenceInvariant'
  <2>1. MoveTo(id, "Resolved") /\ escrows[id].state = "Disputed" /\ UNCHANGED <<evidence, frames>>
    BY <1>6 DEF ResolveDispute, InState
  <2> QED BY <2>1, MoveToEffect, EvidenceKept DEF States
<1>7. ASSUME NEW id \in Ids, NEW nullifier \in Nullifiers, Release(id, nullifier)
      PROVE  EvidenceInvariant'
  <2>1. MoveTo(id, "Released") /\ escrows[id].state = "Funded" /\ UNCHANGED <<evidence, frames>>
    BY <1>7 DEF Release, InState
  <2> QED BY <2>1, MoveToEffect, EvidenceKept DEF States
<1>8. ASSUME NEW sender \in Senders, WithdrawCall(sender) PROVE EvidenceInvariant'
  <2>1. /\ \A f \in frames' : f.saved = CurrentStorage
        /\ UNCHANGED <<escrows, evidence>>
    BY <1>8 DEF WithdrawCall
  <2> QED BY <2>1 DEF EvidenceInvariant, EvidenceRight, CurrentStorage
<1>9. ASSUME NEW frame \in frames, WithdrawReturn(frame) PROVE EvidenceInvariant'
  BY <1>9 DEF WithdrawReturn, EvidenceInvariant, EvidenceRight, CurrentStorage
<1>10. ASSUME NEW frame \in frames, WithdrawRevert(frame) PROVE EvidenceInvariant'
  BY <1>10 DEF WithdrawRevert, EvidenceInvariant, EvidenceRight, CurrentStorage
<1>11. CASE UNCHANGED vars
  BY <1>11 DEF vars, EvidenceInvariant, EvidenceRight, CurrentStorage
<1> QED BY <1>1, <1>2, <1>3, <1>4, <1>5, <1>6, <1>7, <1>8, <1>9, <1>10, <1>11
        DEF Next, PartyStep

\* No escrow has any evidence.
LEMMA EvidenceInit == Init => EvidenceInvariant
BY DEF Init, EvidenceInvariant, EvidenceRight, CurrentStorage, NoEscrow

\* A ruling has evidence to rest on, put there by the parties, and an escrow
\* that was never disputed has none.
THEOREM EvidenceHolds == Spec => []EvidenceOnRecord
<1>1. EvidenceInvariant => EvidenceOnRecord
  BY EvidenceNow DEF EvidenceInvariant
<1> QED BY <1>1, EvidenceInit, EvidenceStep, SoundnessHolds, PTL DEF Spec
=============================================================================
