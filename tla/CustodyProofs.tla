--------------------------- MODULE CustodyProofs ---------------------------
(***************************************************************************)
(* The escrow contract, under either implementation, implements Custody    *)
(* and DisputeRecord.                                                      *)
(*                                                                         *)
(* Two things are to be shown of it.  The balances are what the deposits   *)
(* are worth: that follows from Soundness, by counting the credited        *)
(* deposits by escrow and not by payee.  And the storage goes from one     *)
(* committed state to the next by a transaction of Custody: a function     *)
(* called on its own moves one deposit forward, and a withdrawal pays what *)
(* was owed when it began while the functions called from inside it move   *)
(* deposits forward, but pay none.  Pending is the invariant of that.      *)
(*                                                                         *)
(* For DisputeRecord the same: RecordInv says that a withdrawal under way  *)
(* has only added to the disputes of the storage it would fall back to.    *)
(***************************************************************************)
EXTENDS EscrowV2Proofs

-----------------------------------------------------------------------------
(***************************************************************************)
(* The balances.                                                           *)
(***************************************************************************)

\* Custody totals by the same fold as the contract's books.
LEMMA SameTotal == ASSUME NEW f PROVE Promise!SumFunction(f) = SumFunction(f)
BY DEF Promise!SumFunction, Promise!SumFunctionOnSet, Promise!FoldFunctionOnSet,
       Promise!MapThenFoldSet, SumFunction, SumFunctionOnSet, FoldFunctionOnSet,
       MapThenFoldSet

\* A deposit is owed exactly if its settlement has not been pulled.
LEMMA OwedIsUnpaid ==
  ASSUME NEW s \in Storage, Sound(s), NEW i \in Ids, NEW a \in Accounts
  PROVE  i \in Promise!OwedTo(DepositsOf(s), a) <=> IsUnpaid(s, i, a)
<1>1. /\ DepositsOf(s)[i].place = PlaceOf(s, i)
      /\ DepositsOf(s)[i].holder = s.settlement[i].payee
  BY DEF DepositsOf
<1>2. a # ZeroAddress
  BY AccountsAssumption
<1>3. s.settlement[i] \in Settlements /\ s.escrows[i].state \in States
  BY DEF Storage, Escrows
<1>4. s.settlement[i].payee = a => s.escrows[i].state \in {"Released", "Refunded", "Resolved"}
  BY <1>2, <1>3 DEF Sound, SettlesToParties, NotSettled, States
<1>5. s.escrows[i].state \in {"Released", "Refunded", "Resolved"} =>
        PlaceOf(s, i) = IF s.settlement[i].withdrawn THEN "paid" ELSE "owed"
  BY DEF PlaceOf, IsLocked
<1> QED BY <1>1, <1>3, <1>4, <1>5 DEF Promise!OwedTo, IsUnpaid, Settlements

\* The balance of a payee is the sum of the deposits it is owed.
LEMMA ClaimsReconciled ==
  ASSUME NEW s \in Storage, Sound(s)
  PROVE  s.pendingWithdrawals =
           [a \in Accounts |-> Promise!Total(DepositsOf(s), Promise!OwedTo(DepositsOf(s), a))]
<1>1. s.pendingWithdrawals \in [Accounts -> Nat]
  BY DEF Storage
<1>2. ASSUME NEW a \in Accounts
      PROVE  s.pendingWithdrawals[a]
               = Promise!Total(DepositsOf(s), Promise!OwedTo(DepositsOf(s), a))
  <2>1. s.pendingWithdrawals[a] = SumFunction(UnpaidAmounts(s, a))
    BY DEF Sound, PayeesAreOwed
  <2>2. \A i \in Ids : i \in Promise!OwedTo(DepositsOf(s), a) <=> IsUnpaid(s, i, a)
    BY OwedIsUnpaid
  <2>3. \A i \in Ids : DepositsOf(s)[i].amount = s.escrows[i].amount
    BY DEF DepositsOf
  <2>4. UnpaidAmounts(s, a)
          = [i \in Ids |-> IF i \in Promise!OwedTo(DepositsOf(s), a)
                           THEN DepositsOf(s)[i].amount ELSE 0]
    BY <2>2, <2>3 DEF UnpaidAmounts
  <2> QED BY <2>1, <2>4, SameTotal DEF Promise!Total
<1> QED BY <1>1, <1>2

\* The credits of all payees, counted by escrow.
OwedAmounts(s) ==
    [i \in Ids |-> IF PlaceOf(s, i) = "owed" THEN s.escrows[i].amount ELSE 0]

\* All credits together, added up by escrow instead of by payee.
LEMMA CreditsByEscrow ==
  ASSUME NEW s \in Storage, Sound(s)
  PROVE  SumFunction(s.pendingWithdrawals) = SumFunction(OwedAmounts(s))
<1> DEFINE u == [a \in Accounts |-> UnpaidAmounts(s, a)]
<1>1. \A i \in Ids : s.escrows[i].amount \in Nat /\ s.escrows[i].state \in States
                     /\ s.settlement[i] \in Settlements
  BY DEF Storage, Escrows
<1>2. u \in [Accounts -> [Ids -> Int]]
  BY <1>1 DEF UnpaidAmounts
<1>3. s.pendingWithdrawals = [a \in Accounts |-> SumFunction(u[a])]
  <2>1. s.pendingWithdrawals \in [Accounts -> Nat]
    BY DEF Storage
  <2>2. \A a \in Accounts : s.pendingWithdrawals[a] = SumFunction(u[a])
    BY DEF Sound, PayeesAreOwed
  <2> HIDE DEF u
  <2> QED BY <2>1, <2>2
<1>4. \A i \in Ids : SumFunction([a \in Accounts |-> u[a][i]]) = OwedAmounts(s)[i]
  <2> SUFFICES ASSUME NEW i \in Ids
               PROVE  SumFunction([a \in Accounts |-> u[a][i]]) = OwedAmounts(s)[i]
    OBVIOUS
  <2> DEFINE c == [a \in Accounts |-> u[a][i]]
             payee == s.settlement[i].payee
  <2>1. c \in [Accounts -> Int]
    BY <1>2
  <2>2. \A a \in Accounts :
          c[a] = IF IsUnpaid(s, i, a) THEN s.escrows[i].amount ELSE 0
    BY DEF UnpaidAmounts
  <2>3. OwedAmounts(s)[i] = IF PlaceOf(s, i) = "owed" THEN s.escrows[i].amount ELSE 0
    BY DEF OwedAmounts
  <2>4. \A a \in Accounts : IsUnpaid(s, i, a) <=> PlaceOf(s, i) = "owed" /\ payee = a
    <3>1. \A a \in Accounts : i \in Promise!OwedTo(DepositsOf(s), a)
                                <=> PlaceOf(s, i) = "owed" /\ payee = a
      BY DEF Promise!OwedTo, DepositsOf
    <3> QED BY <3>1, OwedIsUnpaid
  <2>5. CASE PlaceOf(s, i) = "owed"
    <3>1. s.escrows[i].state \in {"Released", "Refunded", "Resolved"}
      BY <1>1, <2>5 DEF PlaceOf, IsLocked, States
    <3>2. payee \in Accounts
      BY <3>1 DEF Sound, SettlesToParties, DistinctRoles
    <3> HIDE DEF c, payee
    <3>3. SumFunction(c) = c[payee]
      BY <2>1, <2>2, <2>4, <3>2, SumSingle, AccountsAssumption
    <3> QED BY <2>2, <2>3, <2>4, <2>5, <3>2, <3>3 DEF c
  <2>6. CASE PlaceOf(s, i) # "owed"
    <3> HIDE DEF c, payee
    <3>1. \A a \in Accounts : c[a] = 0
      BY <2>2, <2>4, <2>6
    <3>2. SumFunction(c) = 0
      BY <2>1, <3>1, SumZero, AccountsAssumption
    <3> QED BY <2>3, <2>6, <3>2 DEF c
  <2> QED BY <2>5, <2>6
<1>5. [i \in Ids |-> SumFunction([a \in Accounts |-> u[a][i]])] = OwedAmounts(s)
  <2> HIDE DEF u
  <2> QED BY <1>4 DEF OwedAmounts
<1> HIDE DEF u
<1>6. SumFunction([a \in Accounts |-> SumFunction(u[a])])
        = SumFunction([i \in Ids |-> SumFunction([a \in Accounts |-> u[a][i]])])
  BY <1>2, IdsFinite, AccountsAssumption, SumExchange
<1> QED BY <1>3, <1>5, <1>6

\* The ETH is the sum of the deposits the vault still holds.
LEMMA VaultReconciled ==
  ASSUME NEW s \in Storage, Sound(s)
  PROVE  s.balance = Promise!Total(DepositsOf(s), Promise!Held(DepositsOf(s)))
<1> DEFINE held == [i \in Ids |-> IF i \in Promise!Held(DepositsOf(s))
                                  THEN DepositsOf(s)[i].amount ELSE 0]
<1>1. \A i \in Ids : s.escrows[i].amount \in Nat /\ s.escrows[i].state \in States
  BY DEF Storage, Escrows
<1>2. \A i \in Ids : IsLocked(s, i) <=> PlaceOf(s, i) = "locked"
  BY <1>1 DEF PlaceOf, IsLocked, States
<1>3. \A i \in Ids : /\ DepositsOf(s)[i].place = PlaceOf(s, i)
                     /\ DepositsOf(s)[i].amount = s.escrows[i].amount
  BY DEF DepositsOf
<1>4. /\ held \in [Ids -> Int]
      /\ OwedAmounts(s) \in [Ids -> Int]
      /\ LockedAmounts(s) \in [Ids -> Int]
  BY <1>1, <1>3 DEF OwedAmounts, LockedAmounts
<1>5. \A i \in Ids : held[i] = OwedAmounts(s)[i] + LockedAmounts(s)[i]
  BY <1>1, <1>2, <1>3 DEF OwedAmounts, LockedAmounts, Promise!Held
<1> HIDE DEF held
<1>6. SumFunction(held) = SumFunction(OwedAmounts(s)) + SumFunction(LockedAmounts(s))
  BY <1>4, <1>5, IdsFinite, SumAdd
<1>7. s.balance = SumFunction(s.pendingWithdrawals) + SumFunction(LockedAmounts(s))
  BY DEF Sound, Solvent
<1> QED BY <1>6, <1>7, CreditsByEscrow, SameTotal DEF Promise!Total, held

\* Both books agree with the deposits.
LEMMA StorageReconciled ==
  ASSUME NEW s \in Storage, Sound(s)
  PROVE  Promise!Reconciled(DepositsOf(s), s.pendingWithdrawals, s.balance)
BY ClaimsReconciled, VaultReconciled DEF Promise!Reconciled

\* At every moment of every call, the balances that Custody sees are right.
Reconciliation ==
    Promise!Reconciled(DepositsOf(Committed), Committed.pendingWithdrawals, Committed.balance)

\* In the storage as it is, and in the copy of a running withdrawal.
LEMMA SoundIsReconciled == Soundness => Reconciliation
<1> SUFFICES ASSUME Soundness PROVE Reconciliation
  OBVIOUS
<1>1. Committed \in Storage /\ Sound(Committed)
  <2>1. CASE frames = {}
    BY <2>1 DEF Committed, Soundness, TypeOK, CurrentStorage, Storage
  <2>2. CASE frames # {}
    <3>1. PICK f \in frames : Committed = f.saved
      BY <2>2 DEF Committed
    <3> QED BY <3>1 DEF Soundness, TypeOK, Frames
  <2> QED BY <2>1, <2>2
<1> QED BY <1>1, StorageReconciled DEF Reconciliation

-----------------------------------------------------------------------------
(***************************************************************************)
(* The deposits.                                                           *)
(***************************************************************************)
Deposits == DepositsOf(CurrentStorage)

\* A deposit goes forward, and is not paid.
Forward(d, e) == Promise!Moves(d, e) /\ (e.place = "paid" <=> d.place = "paid")

AllForward == \A i \in Ids : Forward(Deposits[i], Deposits'[i])

Places == {"absent", "agreed", "locked", "owed", "paid"}

\* The order of the places a deposit goes through.
LEMMA RankOfPlace ==
  /\ Promise!Rank["absent"] = 0 /\ Promise!Rank["agreed"] = 1
  /\ Promise!Rank["locked"] = 2 /\ Promise!Rank["owed"] = 3
  /\ Promise!Rank["paid"] = 4
BY DEF Promise!Rank

\* What a deposit shows of its escrow.
Reads(i) ==
    LET d == Deposits[i]
        state == escrows[i].state
    IN  /\ d.buyer = escrows[i].buyer
        /\ d.seller = escrows[i].seller
        /\ d.amount = escrows[i].amount
        /\ d.holder = settlement[i].payee
        /\ d.place \in Places
        /\ d.place = "absent" <=> state = "None"
        /\ d.place = "agreed" <=> state = "Created"
        /\ d.place = "locked" <=> state \in {"Funded", "Disputed"}
        /\ d.place = "owed" <=> /\ state \in {"Released", "Refunded", "Resolved"}
                               /\ ~settlement[i].withdrawn
        /\ d.place = "paid" <=> /\ state \in {"Released", "Refunded", "Resolved"}
                               /\ settlement[i].withdrawn

\* What a deposit is, read off the storage before a step and after it.
LEMMA ReadsNow ==
  ASSUME TypeOK, NEW i \in Ids
  PROVE  Reads(i)
<1>1. escrows[i].state \in States /\ settlement[i].withdrawn \in BOOLEAN
  BY DEF TypeOK, Escrows, Settlements
<1>2. Deposits[i] = [buyer |-> escrows[i].buyer, seller |-> escrows[i].seller,
                     amount |-> escrows[i].amount, place |-> PlaceOf(CurrentStorage, i),
                     holder |-> settlement[i].payee]
  BY DEF Deposits, DepositsOf, CurrentStorage
<1>3. PlaceOf(CurrentStorage, i) =
        CASE escrows[i].state = "None" -> "absent"
          [] escrows[i].state = "Created" -> "agreed"
          [] escrows[i].state \in {"Funded", "Disputed"} -> "locked"
          [] OTHER -> IF settlement[i].withdrawn THEN "paid" ELSE "owed"
  BY DEF PlaceOf, IsLocked, CurrentStorage
<1> QED BY <1>1, <1>2, <1>3 DEF Reads, Places, States

\* And after the step.
LEMMA ReadsNext ==
  ASSUME TypeOK', NEW i \in Ids
  PROVE  Reads(i)'
<1>1. escrows'[i].state \in States /\ settlement'[i].withdrawn \in BOOLEAN
  BY DEF TypeOK, Escrows, Settlements
<1>2. Deposits'[i] = [buyer |-> escrows'[i].buyer, seller |-> escrows'[i].seller,
                      amount |-> escrows'[i].amount, place |-> PlaceOf(CurrentStorage', i),
                      holder |-> settlement'[i].payee]
  BY DEF Deposits, DepositsOf, CurrentStorage, PlaceOf, IsLocked
<1>3. PlaceOf(CurrentStorage', i) =
        CASE escrows'[i].state = "None" -> "absent"
          [] escrows'[i].state = "Created" -> "agreed"
          [] escrows'[i].state \in {"Funded", "Disputed"} -> "locked"
          [] OTHER -> IF settlement'[i].withdrawn THEN "paid" ELSE "owed"
  BY DEF PlaceOf, IsLocked, CurrentStorage
<1> QED BY <1>1, <1>2, <1>3 DEF Reads, Places, States

\* Deposits of escrows that nobody has created are blank.
AbsentAreBlank(ds) == \A i \in Ids : ds[i].place = "absent" => ds[i] = Promise!Absent

\* A deposit that stays where it is moves forward.
LEMMA Stays ==
  ASSUME NEW d, d.place \in Places, d.place = "absent" => d = Promise!Absent
  PROVE  Forward(d, d)
BY RankOfPlace DEF Forward, Promise!Moves, Places

\* The deposit depends on these fields only.
LEMMA SameDeposit ==
  ASSUME NEW i \in Ids, UNCHANGED <<escrows[i].buyer, escrows[i].seller,
         escrows[i].amount, escrows[i].state, settlement[i]>>
  PROVE  Deposits'[i] = Deposits[i]
BY DEF Deposits, DepositsOf, PlaceOf, IsLocked, CurrentStorage

\* To see that all deposits go forward, look at the one that changes.
LEMMA OneGoesForward ==
  ASSUME TypeOK, AbsentAreBlank(Deposits), NEW id \in Ids,
         Forward(Deposits[id], Deposits'[id]),
         \A i \in Ids : i # id => Deposits'[i] = Deposits[i]
  PROVE  AllForward
<1> SUFFICES ASSUME NEW i \in Ids, i # id PROVE Forward(Deposits[i], Deposits'[i])
  BY DEF AllForward
<1>1. Deposits[i].place \in Places
  BY ReadsNow DEF Reads
<1>2. Forward(Deposits[i], Deposits[i])
  BY <1>1, Stays DEF AbsentAreBlank
<1> QED BY <1>2

\* A step that moves no deposit.
LEMMA NoneMoves ==
  ASSUME TypeOK, AbsentAreBlank(Deposits), \A i \in Ids : Deposits'[i] = Deposits[i]
  PROVE  AllForward
<1> SUFFICES ASSUME NEW i \in Ids PROVE Forward(Deposits[i], Deposits'[i])
  BY DEF AllForward
<1>1. Deposits[i].place \in Places
  BY ReadsNow DEF Reads
<1>2. Forward(Deposits[i], Deposits[i])
  BY <1>1, Stays DEF AbsentAreBlank
<1> QED BY <1>2

-----------------------------------------------------------------------------
(***************************************************************************)
(* The functions, one by one.                                              *)
(***************************************************************************)
\* A new escrow turns an absent deposit into an agreed one.
LEMMA CreateForward ==
  ASSUME TypeOK, TypeOK', Sound(CurrentStorage), AbsentAreBlank(Deposits),
         NEW sender \in Senders, NEW seller \in Addresses, NEW arbiter \in Addresses,
         NEW amount \in Amounts, NEW commitment \in Commitments,
         CreateEscrow(sender, seller, arbiter, amount, commitment)
  PROVE  AllForward
<1>1. nextEscrowId \in Ids
  BY MaxEscrowsAssumption DEF CreateEscrow, TypeOK, Ids
<1>2. PICK id \in Ids : id = nextEscrowId
  BY <1>1
<1>3. escrows \in [Ids -> Escrows] /\ settlement' = settlement
  BY DEF CreateEscrow, TypeOK
<1>4. /\ escrows'[id].state = "Created"
      /\ \A i \in Ids : i # id => escrows'[i] = escrows[i]
  BY <1>2, <1>3 DEF CreateEscrow
<1>5. escrows[id].state = "None" /\ settlement[id] = NotSettled
  <2>1. escrows[id] = NoEscrow
    BY <1>2 DEF Sound, Blank, CurrentStorage, TypeOK, Ids
  <2> QED BY <2>1 DEF NoEscrow, Sound, SettlesToParties, CurrentStorage
<1>6. Deposits[id] = Promise!Absent /\ Deposits[id].place = "absent"
  BY <1>5, ReadsNow DEF Reads, AbsentAreBlank
<1>7. Reads(id)'
  BY ReadsNext
<1>8. /\ Deposits'[id].place = "agreed"
      /\ Deposits'[id].holder = Deposits[id].holder
  BY <1>3, <1>4, <1>5, <1>6, <1>7, ReadsNow DEF Reads
<1>9. Forward(Deposits[id], Deposits'[id])
  BY <1>6, <1>8, RankOfPlace DEF Forward, Promise!Moves
<1>10. ASSUME NEW i \in Ids, i # id PROVE Deposits'[i] = Deposits[i]
  BY <1>3, <1>4, <1>10, SameDeposit
<1> QED BY <1>9, <1>10, OneGoesForward

\* What MoveTo leaves of the other deposits, and of the terms of this one.
LEMMA MoveKeeps ==
  ASSUME TypeOK, TypeOK', NEW id \in Ids, NEW state \in States, MoveTo(id, state),
         \A i \in Ids : i # id => settlement'[i] = settlement[i]
  PROVE  /\ escrows'[id].state = state
         /\ Deposits'[id].buyer = Deposits[id].buyer
         /\ Deposits'[id].seller = Deposits[id].seller
         /\ Deposits'[id].amount = Deposits[id].amount
         /\ \A i \in Ids : i # id => Deposits'[i] = Deposits[i]
<1>1. /\ escrows'[id].state = state
      /\ \A i \in Ids : i # id => escrows'[i].state = escrows[i].state
      /\ \A i \in Ids : /\ escrows'[i].buyer = escrows[i].buyer
                        /\ escrows'[i].seller = escrows[i].seller
                        /\ escrows'[i].amount = escrows[i].amount
  BY MoveToEffect
<1>2. ASSUME NEW i \in Ids, i # id PROVE Deposits'[i] = Deposits[i]
  BY <1>1, <1>2, SameDeposit
<1> QED BY <1>1, <1>2, ReadsNow, ReadsNext DEF Reads

\* Fund and RaiseDispute.
LEMMA OpenMoveForward ==
  ASSUME TypeOK, TypeOK', AbsentAreBlank(Deposits), NEW id \in Ids,
         escrows[id].state \in {"Created", "Funded"},
         NEW state \in {"Funded", "Disputed"}, MoveTo(id, state),
         UNCHANGED settlement
  PROVE  AllForward
<1>1. /\ escrows'[id].state = state
      /\ Deposits'[id].buyer = Deposits[id].buyer
      /\ Deposits'[id].seller = Deposits[id].seller
      /\ Deposits'[id].amount = Deposits[id].amount
      /\ \A i \in Ids : i # id => Deposits'[i] = Deposits[i]
  BY MoveKeeps DEF States
<1>2. /\ Deposits[id].place \in {"agreed", "locked"}
      /\ Deposits'[id].place = "locked"
      /\ Deposits'[id].holder = Deposits[id].holder
  BY <1>1, ReadsNow, ReadsNext DEF Reads
<1>3. Forward(Deposits[id], Deposits'[id])
  BY <1>1, <1>2, RankOfPlace DEF Forward, Promise!Moves
<1> QED BY <1>1, <1>3, OneGoesForward

\* Release, Refund and ResolveDispute.
LEMMA SettleForward ==
  ASSUME TypeOK, TypeOK', Sound(CurrentStorage), AbsentAreBlank(Deposits),
         NEW id \in Ids, escrows[id].state \in {"Funded", "Disputed"},
         NEW state \in {"Released", "Refunded", "Resolved"}, MoveTo(id, state),
         NEW payee \in {escrows[id].buyer, escrows[id].seller},
         RecordSettlement(id, payee)
  PROVE  AllForward
<1>1. settlement[id] = NotSettled /\ settlement \in [Ids -> Settlements]
  BY DEF Sound, SettlesToParties, CurrentStorage, TypeOK
<1>2. /\ settlement'[id].payee = payee
      /\ ~settlement'[id].withdrawn
      /\ \A i \in Ids : i # id => settlement'[i] = settlement[i]
  BY <1>1 DEF RecordSettlement, NotSettled, Settlements
<1>3. /\ escrows'[id].state = state
      /\ Deposits'[id].buyer = Deposits[id].buyer
      /\ Deposits'[id].seller = Deposits[id].seller
      /\ Deposits'[id].amount = Deposits[id].amount
      /\ \A i \in Ids : i # id => Deposits'[i] = Deposits[i]
  BY <1>2, MoveKeeps DEF States
<1>4. /\ Deposits[id].place = "locked"
      /\ Deposits'[id].place = "owed"
      /\ Deposits'[id].holder = payee
      /\ payee \in {Deposits'[id].buyer, Deposits'[id].seller}
  BY <1>2, <1>3, ReadsNow, ReadsNext DEF Reads
<1>5. Forward(Deposits[id], Deposits'[id])
  BY <1>3, <1>4, RankOfPlace DEF Forward, Promise!Moves
<1> QED BY <1>3, <1>5, OneGoesForward

\* SubmitEvidence touches no deposit, and neither does SetArbiter.
LEMMA SubmitForward ==
  ASSUME TypeOK, AbsentAreBlank(Deposits), UNCHANGED <<escrows, settlement>>
  PROVE  AllForward
<1>1. \A i \in Ids : Deposits'[i] = Deposits[i]
  BY SameDeposit
<1> QED BY <1>1, NoneMoves

\* The arbiter is no part of the deposit.
LEMMA SetArbiterForward ==
  ASSUME TypeOK, AbsentAreBlank(Deposits), NEW sender \in Senders, NEW id \in Ids,
         NEW newArbiter \in Addresses, SetArbiter(sender, id, newArbiter)
  PROVE  AllForward
<1>1. /\ escrows' = [escrows EXCEPT ![id].arbiter = newArbiter]
      /\ settlement' = settlement
  BY DEF SetArbiter
<1>2. ASSUME NEW i \in Ids PROVE Deposits'[i] = Deposits[i]
  <2>1. UNCHANGED <<escrows[i].buyer, escrows[i].seller, escrows[i].amount, escrows[i].state>>
    BY <1>1 DEF TypeOK, Escrows
  <2> QED BY <1>1, <2>1, SameDeposit
<1> QED BY <1>2, NoneMoves

-----------------------------------------------------------------------------
(***************************************************************************)
(* A withdrawal in progress.  What it will have made of the deposits when  *)
(* it returns is one transaction of Custody from the storage it would fall *)
(* back to: it pays its payee all that was owed then, and nothing else.    *)
(***************************************************************************)
PaidBetween(from, to) == {i \in Ids : from[i].place = "owed" /\ to[i].place = "paid"}

Pending(f) ==
    LET from == DepositsOf(f.saved)
    IN  /\ AbsentAreBlank(from)
        /\ \A i \in Ids : Promise!Moves(from[i], Deposits[i])
        /\ PaidBetween(from, Deposits) = Promise!OwedTo(from, f.payee)

CustodyInv ==
    /\ Soundness
    /\ AbsentAreBlank(Deposits)
    /\ \A f, g \in frames : f = g
    /\ \A f \in frames : Pending(f)

\* Forward moves go on from any move.
LEMMA MovesForward ==
  ASSUME NEW a, NEW b, NEW c, a.place \in Places, b.place \in Places, c.place \in Places,
         Promise!Moves(a, b), Forward(b, c)
  PROVE  Promise!Moves(a, c)
<1>1. CASE c.place = "owed" /\ a.place # "owed"
  BY <1>1, RankOfPlace DEF Forward, Promise!Moves, Places
<1>2. CASE a.place = "owed"
  BY <1>2, RankOfPlace DEF Forward, Promise!Moves, Places
<1>3. CASE c.place # "owed" /\ a.place # "owed"
  BY <1>3, RankOfPlace DEF Forward, Promise!Moves, Places
<1> QED BY <1>1, <1>2, <1>3

\* A saved storage has its deposits in places that exist.
LEMMA SavedPlaces ==
  ASSUME NEW s \in Storage, NEW i \in Ids
  PROVE  DepositsOf(s)[i].place \in Places
<1>1. s.escrows[i].state \in States
  BY DEF Storage, Escrows
<1>2. DepositsOf(s)[i].place = PlaceOf(s, i)
  BY DEF DepositsOf
<1> QED BY <1>1, <1>2 DEF PlaceOf, IsLocked, Places

\* A function that only moves deposits forward, whether called on its own or
\* from inside a withdrawal.
LEMMA ForwardKeeps ==
  ASSUME CustodyInv, Soundness', AllForward, frames' = frames
  PROVE  CustodyInv'
<1>1. \A i \in Ids : Deposits[i].place \in Places /\ Deposits'[i].place \in Places
  BY ReadsNow, ReadsNext DEF Reads, CustodyInv, Soundness
<1>2. AbsentAreBlank(Deposits)'
  BY DEF AllForward, Forward, Promise!Moves, AbsentAreBlank
<1>3. ASSUME NEW f \in frames PROVE Pending(f)'
  <2> DEFINE from == DepositsOf(f.saved)
  <2>1. /\ AbsentAreBlank(from)
        /\ \A i \in Ids : Promise!Moves(from[i], Deposits[i])
        /\ PaidBetween(from, Deposits) = Promise!OwedTo(from, f.payee)
    BY DEF CustodyInv, Pending
  <2>2. \A i \in Ids : from[i].place \in Places
    BY SavedPlaces DEF CustodyInv, Soundness, TypeOK, Frames
  <2> HIDE DEF from
  <2>3. \A i \in Ids : Promise!Moves(from[i], Deposits'[i])
    BY <1>1, <2>1, <2>2, MovesForward DEF AllForward
  <2>4. PaidBetween(from, Deposits') = PaidBetween(from, Deposits)
    BY DEF PaidBetween, AllForward, Forward
  <2>5. /\ AbsentAreBlank(from)
        /\ \A i \in Ids : Promise!Moves(from[i], Deposits'[i])
        /\ PaidBetween(from, Deposits') = Promise!OwedTo(from, f.payee)
    BY <2>1, <2>3, <2>4
  <2> QED BY <2>5 DEF Pending, from
<1> QED BY <1>2, <1>3 DEF CustodyInv

\* A withdrawal pays all that its payee was owed when it began.
LEMMA WithdrawCallPending ==
  ASSUME CustodyInv, Soundness', NEW sender \in Senders, WithdrawCall(sender)
  PROVE  CustodyInv'
<1>1. /\ frames' = {[payee |-> sender, saved |-> CurrentStorage]}
      /\ escrows' = escrows
      /\ settlement' = PaidOut(sender)
  BY DEF WithdrawCall
<1>2. sender # ZeroAddress /\ settlement \in [Ids -> Settlements]
  BY AccountsAssumption DEF Senders, CustodyInv, Soundness, TypeOK
<1>3. ASSUME NEW i \in Ids, settlement[i].payee = sender
      PROVE  /\ Deposits[i].place \in {"owed", "paid"}
             /\ Deposits'[i].place = "paid"
             /\ Promise!Moves(Deposits[i], Deposits'[i])
  <2>1. settlement'[i].withdrawn /\ settlement'[i].payee = sender
    BY <1>1, <1>2, <1>3 DEF PaidOut, Settlements
  <2>2. Reads(i) /\ Reads(i)'
    BY ReadsNow, ReadsNext DEF CustodyInv, Soundness
  <2>3. escrows[i].state \in {"Released", "Refunded", "Resolved"}
    <3>1. escrows[i].state \in States
      BY DEF CustodyInv, Soundness, TypeOK, Escrows
    <3>2. escrows[i].state \in {"None", "Created", "Funded", "Disputed"}
            => settlement[i] = NotSettled
      BY DEF CustodyInv, Soundness, Sound, SettlesToParties, CurrentStorage
    <3>3. settlement[i] # NotSettled
      BY <1>2, <1>3 DEF NotSettled
    <3> QED BY <3>1, <3>2, <3>3 DEF States
  <2>4. Deposits[i].place \in {"owed", "paid"} /\ Deposits'[i].place = "paid"
    BY <1>1, <2>1, <2>2, <2>3 DEF Reads
  <2> QED BY <1>1, <1>3, <2>1, <2>2, <2>4, RankOfPlace DEF Reads, Promise!Moves
<1>4. ASSUME NEW i \in Ids, settlement[i].payee # sender
      PROVE  /\ Deposits'[i] = Deposits[i]
             /\ Promise!Moves(Deposits[i], Deposits'[i])
  <2>1. settlement'[i] = settlement[i]
    BY <1>1, <1>4 DEF PaidOut
  <2>2. Deposits'[i] = Deposits[i]
    BY <1>1, <2>1, SameDeposit
  <2>3. Deposits[i].place \in Places
    BY ReadsNow DEF CustodyInv, Soundness, Reads
  <2>4. Forward(Deposits[i], Deposits[i])
    BY <2>3, Stays DEF AbsentAreBlank, CustodyInv
  <2> QED BY <2>2, <2>4 DEF Forward
<1>5. \A i \in Ids : Promise!Moves(Deposits[i], Deposits'[i])
  BY <1>3, <1>4
<1>6. AbsentAreBlank(Deposits)'
  BY <1>5 DEF Promise!Moves, AbsentAreBlank
<1>7. PaidBetween(Deposits, Deposits') = Promise!OwedTo(Deposits, sender)
  <2>1. \A i \in Ids : Deposits[i].holder = settlement[i].payee
    BY ReadsNow DEF CustodyInv, Soundness, Reads
  <2> QED BY <1>3, <1>4, <2>1 DEF PaidBetween, Promise!OwedTo
<1>8. ASSUME NEW f \in frames' PROVE Pending(f)'
  <2>1. f.payee = sender /\ DepositsOf(f.saved) = Deposits
    BY <1>1, <1>8 DEF Deposits
  <2>2. AbsentAreBlank(Deposits)
    BY DEF CustodyInv
  <2>3. /\ AbsentAreBlank(DepositsOf(f.saved))
        /\ \A i \in Ids : Promise!Moves(DepositsOf(f.saved)[i], Deposits'[i])
        /\ PaidBetween(DepositsOf(f.saved), Deposits') = Promise!OwedTo(DepositsOf(f.saved), f.payee)
    BY <1>5, <1>7, <2>1, <2>2
  <2> QED BY <2>3 DEF Pending
<1> QED BY <1>1, <1>6, <1>8 DEF CustodyInv

\* At the end of a call there is nothing pending any more.
LEMMA WithdrawEnds ==
  ASSUME CustodyInv, Soundness', NEW f \in frames, WithdrawReturn(f) \/ WithdrawRevert(f)
  PROVE  CustodyInv' /\ (CurrentStorage' = CurrentStorage \/ CurrentStorage' = f.saved)
<1>1. frames' = {}
  BY DEF WithdrawReturn, WithdrawRevert
<1>2. CurrentStorage' = CurrentStorage \/ CurrentStorage' = f.saved
  <2>1. CASE WithdrawReturn(f)
    BY <2>1 DEF WithdrawReturn, CurrentStorage
  <2>2. CASE WithdrawRevert(f)
    BY <2>2 DEF WithdrawRevert, CurrentStorage, CustodyInv, Soundness, TypeOK, Frames, Storage
  <2> QED BY <2>1, <2>2
<1>3. Deposits' = Deposits \/ Deposits' = DepositsOf(f.saved)
  BY <1>2 DEF Deposits, DepositsOf, PlaceOf, IsLocked
<1>4. AbsentAreBlank(Deposits)'
  BY <1>3 DEF AbsentAreBlank, CustodyInv, Pending
<1> QED BY <1>1, <1>2, <1>4 DEF CustodyInv

-----------------------------------------------------------------------------
(***************************************************************************)
(* The refinement.                                                         *)
(***************************************************************************)

\* A step that moves deposits forward.
ForwardStep == AllForward /\ frames' = frames

\* The functions of V1 that are no part of a withdrawal.
LEMMA FunctionsForward ==
  ASSUME CustodyInv, Soundness',
         \/ \E sender \in Senders, seller, arbiter \in Addresses,
               amount \in Amounts, commitment \in Commitments :
                 CreateEscrow(sender, seller, arbiter, amount, commitment)
         \/ \E sender \in Senders, id \in Ids : PartyStep(sender, id)
         \/ \E id \in Ids, nullifier \in Nullifiers : Release(id, nullifier)
  PROVE  ForwardStep
<1> USE DEF CustodyInv, Soundness, ForwardStep
<1>1. ASSUME NEW sender \in Senders, NEW seller \in Addresses, NEW arbiter \in Addresses,
             NEW amount \in Amounts, NEW commitment \in Commitments,
             CreateEscrow(sender, seller, arbiter, amount, commitment)
      PROVE  ForwardStep
  <2>1. frames' = frames
    BY <1>1 DEF CreateEscrow
  <2> QED BY <1>1, <2>1, CreateForward
<1>2. ASSUME NEW sender \in Senders, NEW id \in Ids, NEW value \in Amounts,
             Fund(sender, id, value)
      PROVE  ForwardStep
  BY <1>2, OpenMoveForward DEF Fund, InState
<1>3. ASSUME NEW sender \in Senders, NEW id \in Ids, Refund(sender, id)
      PROVE  ForwardStep
  BY <1>3, SettleForward DEF Refund, InState
<1>4. ASSUME NEW sender \in Senders, NEW id \in Ids, NEW text \in Texts,
             RaiseDispute(sender, id, text)
      PROVE  ForwardStep
  BY <1>4, OpenMoveForward DEF RaiseDispute, InState
<1>5. ASSUME NEW sender \in Senders, NEW id \in Ids, NEW text \in Texts,
             SubmitEvidence(sender, id, text)
      PROVE  ForwardStep
  BY <1>5, SubmitForward DEF SubmitEvidence
<1>6. ASSUME NEW sender \in Senders, NEW id \in Ids, NEW text \in Texts,
             NEW ruling \in Rulings, ResolveDispute(sender, id, ruling, text)
      PROVE  ForwardStep
  <2>1. Beneficiary(id, ruling) \in {escrows[id].buyer, escrows[id].seller}
    BY DEF Beneficiary
  <2> QED BY <1>6, <2>1, SettleForward DEF ResolveDispute, InState
<1>7. ASSUME NEW id \in Ids, NEW nullifier \in Nullifiers, Release(id, nullifier)
      PROVE  ForwardStep
  BY <1>7, SettleForward DEF Release, InState
<1> HIDE DEF CustodyInv, Soundness, ForwardStep
<1> QED BY <1>1, <1>2, <1>3, <1>4, <1>5, <1>6, <1>7 DEF PartyStep

\* What Custody makes of a step of the contract.
CustodyStep == [Promise!Transaction]_(Promise!vars)

\* A transaction, or a call from inside a withdrawal, is one of Custody or none.
LEMMA ForwardRefines ==
  ASSUME CustodyInv, Soundness', Reconciliation', ForwardStep
  PROVE  CustodyInv' /\ CustodyStep
<1>1. CustodyInv'
  BY ForwardKeeps DEF ForwardStep
<1>2. CASE frames = {}
  <2>1. /\ DepositsOf(Committed) = Deposits
        /\ DepositsOf(Committed)' = Deposits'
    BY <1>2 DEF Committed, Deposits, ForwardStep, DepositsOf, PlaceOf, IsLocked
  <2>2. \A i \in Ids : Promise!Moves(Deposits[i], Deposits'[i])
    BY DEF ForwardStep, AllForward, Forward
  <2>3. Promise!Pays(Deposits, Deposits')
    BY DEF Promise!Pays, ForwardStep, AllForward, Forward
  <2>4. Promise!Transaction
    BY <2>1, <2>2, <2>3 DEF Promise!Transaction, Promise!Advances, Reconciliation
  <2> QED BY <1>1, <2>4 DEF CustodyStep
<1>3. CASE frames # {}
  <2>1. Committed' = Committed
    BY <1>3 DEF Committed, ForwardStep
  <2> QED BY <1>1, <2>1 DEF CustodyStep, Promise!vars, DepositsOf, PlaceOf, IsLocked
<1> QED BY <1>2, <1>3

\* The beginning of a withdrawal changes nothing that is committed.
LEMMA WithdrawCallRefines ==
  ASSUME CustodyInv, Soundness', NEW sender \in Senders, WithdrawCall(sender)
  PROVE  CustodyInv' /\ CustodyStep
<1>1. CustodyInv'
  BY WithdrawCallPending
<1>2. Committed = CurrentStorage /\ Committed' = CurrentStorage
  <2>1. frames = {} /\ frames' = {[payee |-> sender, saved |-> CurrentStorage]}
    BY DEF WithdrawCall, NotEntered
  <2>2. PICK f \in frames' : Committed' = f.saved
    BY <2>1 DEF Committed
  <2>3. f.saved = CurrentStorage
    BY <2>1
  <2> QED BY <2>1, <2>2, <2>3 DEF Committed
<1>3. Committed' = Committed
  BY <1>2
<1> QED BY <1>1, <1>3 DEF CustodyStep, Promise!vars, DepositsOf, PlaceOf, IsLocked

\* Its end commits everything since then at once, or nothing.
LEMMA WithdrawEndRefines ==
  ASSUME CustodyInv, Soundness', Reconciliation', NEW f \in frames,
         WithdrawReturn(f) \/ WithdrawRevert(f)
  PROVE  CustodyInv' /\ CustodyStep
<1>1. /\ CustodyInv'
      /\ CurrentStorage' = CurrentStorage \/ CurrentStorage' = f.saved
  BY WithdrawEnds
<1>2. Committed = f.saved /\ Committed' = CurrentStorage'
  BY DEF Committed, CustodyInv, WithdrawReturn, WithdrawRevert
<1>3. CASE CurrentStorage' = f.saved
  <2>1. Committed' = Committed
    BY <1>2, <1>3
  <2> QED BY <1>1, <2>1 DEF CustodyStep, Promise!vars, DepositsOf, PlaceOf, IsLocked
<1>4. CASE CurrentStorage' = CurrentStorage
  <2>1. Committed' = CurrentStorage
    BY <1>2, <1>4
  <2>2. /\ DepositsOf(Committed) = DepositsOf(f.saved)
        /\ DepositsOf(Committed)' = Deposits
    BY <1>2, <2>1 DEF Deposits, DepositsOf, PlaceOf, IsLocked
  <2>3. /\ \A i \in Ids : Promise!Moves(DepositsOf(f.saved)[i], Deposits[i])
        /\ PaidBetween(DepositsOf(f.saved), Deposits) = Promise!OwedTo(DepositsOf(f.saved), f.payee)
    BY DEF CustodyInv, Pending
  <2>4. f.payee \in Accounts
    BY DEF CustodyInv, Soundness, TypeOK, Frames
  <2>5. Promise!Pays(DepositsOf(f.saved), Deposits)
    BY <2>3, <2>4 DEF Promise!Pays, PaidBetween
  <2>6. Promise!Transaction
    BY <2>2, <2>3, <2>5 DEF Promise!Transaction, Promise!Advances, Reconciliation
  <2> QED BY <1>1, <2>6 DEF CustodyStep
<1> QED BY <1>1, <1>3, <1>4

\* A step that changes nothing.
LEMMA StutterRefines ==
  ASSUME CustodyInv, UNCHANGED vars
  PROVE  CustodyInv' /\ CustodyStep
<1>1. CurrentStorage' = CurrentStorage /\ frames' = frames
  BY DEF vars, CurrentStorage
<1>2. Committed' = Committed /\ Deposits' = Deposits
  BY <1>1 DEF Committed, Deposits, DepositsOf, PlaceOf, IsLocked
<1>3. Soundness'
  BY StepSound DEF CustodyInv
<1>4. CustodyInv'
  BY <1>1, <1>2, <1>3 DEF CustodyInv, Pending, AbsentAreBlank
<1> QED BY <1>2, <1>4 DEF CustodyStep, Promise!vars, DepositsOf, PlaceOf, IsLocked

\* Every step of the contract is a step of Custody.
LEMMA StepRefines ==
  ASSUME CustodyInv, Reconciliation', [Next]_vars
  PROVE  CustodyInv' /\ CustodyStep
<1>1. Soundness'
  BY StepSound DEF CustodyInv
<1>2. CASE ForwardStep
  BY <1>1, <1>2, ForwardRefines
<1>3. ASSUME NEW sender \in Senders, WithdrawCall(sender)
      PROVE  CustodyInv' /\ CustodyStep
  BY <1>1, <1>3, WithdrawCallRefines
<1>4. ASSUME NEW f \in frames, WithdrawReturn(f) \/ WithdrawRevert(f)
      PROVE  CustodyInv' /\ CustodyStep
  BY <1>1, <1>4, WithdrawEndRefines
<1>5. CASE UNCHANGED vars
  BY <1>5, StutterRefines
<1> QED BY <1>1, <1>2, <1>3, <1>4, <1>5, FunctionsForward DEF Next

\* So is every step of the proxy and its owner.
LEMMA StepRefinesV2 ==
  ASSUME CustodyInv, Reconciliation', [NextV2]_varsV2
  PROVE  CustodyInv' /\ CustodyStep
<1>1. CASE [Next]_vars
  BY <1>1, StepRefines
<1>2. ASSUME NEW sender \in Senders, NEW id \in Ids, NEW newArbiter \in Addresses,
             SetArbiter(sender, id, newArbiter)
      PROVE  CustodyInv' /\ CustodyStep
  <2>1. Soundness'
    BY StepSoundV2 DEF CustodyInv
  <2>2. ForwardStep
    BY <1>2, SetArbiterForward DEF ForwardStep, SetArbiter, CustodyInv, Soundness
  <2> QED BY <2>1, <2>2, ForwardRefines
<1>3. CASE InheritedStep
  BY <1>1, <1>3 DEF InheritedStep, Next
<1>4. ASSUME NEW sender \in Senders, WithdrawCallV2(sender) PROVE CustodyInv' /\ CustodyStep
  BY <1>1, <1>4 DEF WithdrawCallV2, Next
<1>5. ASSUME NEW sender \in Senders, OwnerStep(sender) PROVE CustodyInv' /\ CustodyStep
  BY <1>1, <1>2, <1>5
  DEF OwnerStep, UpgradeToAndCall, TransferOwnership, RenounceOwnership
<1>6. CASE EndOfCall
  BY <1>1, <1>6 DEF EndOfCall, WithdrawReturnV2, WithdrawRevertV2, Next
<1>7. CASE UNCHANGED varsV2
  BY <1>1, <1>7 DEF varsV2
<1> QED BY <1>3, <1>4, <1>5, <1>6, <1>7 DEF NextV2

\* Without escrows, Custody is in its initial state.
LEMMA InitRefines == Init => CustodyInv /\ (Reconciliation => Promise!Init)
<1> SUFFICES ASSUME Init PROVE CustodyInv /\ (Reconciliation => Promise!Init)
  OBVIOUS
<1>1. Deposits = [i \in Ids |-> Promise!Absent]
  <2>1. \A i \in Ids : escrows[i] = NoEscrow /\ settlement[i] = NotSettled
    BY DEF Init
  <2>2. \A i \in Ids : PlaceOf(CurrentStorage, i) = "absent"
    BY <2>1 DEF PlaceOf, IsLocked, CurrentStorage, NoEscrow
  <2>3. \A i \in Ids : Deposits[i] = Promise!Absent
    BY <2>1, <2>2 DEF Deposits, DepositsOf, CurrentStorage, NoEscrow, NotSettled,
                      Promise!Absent
  <2> QED BY <2>3 DEF Deposits, DepositsOf
<1>2. AbsentAreBlank(Deposits)
  BY <1>1 DEF AbsentAreBlank
<1>3. frames = {} /\ DepositsOf(Committed) = Deposits
  BY DEF Init, Committed, Deposits
<1>4. CustodyInv
  BY <1>2, <1>3, InitSound DEF CustodyInv
<1> QED BY <1>1, <1>3, <1>4 DEF Promise!Init, Reconciliation

\* At every moment, the balances Custody sees are what its deposits are worth:
\* the credits, counted by payee in the contract, and the ETH, counted not at
\* all, both come to the same as the escrows added up one by one.
THEOREM ReconciliationHolds == Spec => []Reconciliation
BY SoundnessHolds, SoundIsReconciled, PTL

\* Every behaviour of the contract, re-entered or not, is one of Custody: each
\* transaction moves deposits forward, settles to parties only, pays at most
\* one account, and pays it all it was owed when the transaction began.
THEOREM CustodyImplemented == Spec => ImplementsCustody
<1>1. Init => CustodyInv /\ (Reconciliation => Promise!Init)
  BY InitRefines
<1>2. CustodyInv /\ Reconciliation' /\ [Next]_vars => CustodyInv' /\ CustodyStep
  BY StepRefines
<1> QED BY <1>1, <1>2, ReconciliationHolds, PTL
        DEF Spec, ImplementsCustody, Promise!Spec, CustodyStep

\* So is every behaviour under an owner who moves the proxy between the two
\* implementations and rotates arbiters, in the middle of withdrawals too.
THEOREM CustodyImplementedV2 == SpecV2 => ImplementsCustody
<1>1. InitV2 => CustodyInv /\ (Reconciliation => Promise!Init)
  BY InitRefines DEF InitV2
<1>2. CustodyInv /\ Reconciliation' /\ [NextV2]_varsV2 => CustodyInv' /\ CustodyStep
  BY StepRefinesV2
<1>3. SpecV2 => []Reconciliation
  BY SoundnessHoldsV2, SoundIsReconciled, PTL
<1> QED BY <1>1, <1>2, <1>3, PTL DEF SpecV2, ImplementsCustody, Promise!Spec, CustodyStep

-----------------------------------------------------------------------------
(***************************************************************************)
(* The record of the disputes.                                             *)
(***************************************************************************)
\* The record as the storage has it now.
Cases == CasesOf(CurrentStorage)

\* A sound storage with the right evidence tells a coherent story of each escrow.
LEMMA StorageCoherent ==
  ASSUME NEW s \in Storage, Sound(s), EvidenceRight(s), NEW i \in Ids
  PROVE  Record!Coherent(CasesOf(s)[i])
<1>1. s.escrows[i].state \in States
  BY DEF Storage, Escrows
<1>2. /\ CasesOf(s)[i].stage = StageOf(s, i)
      /\ CasesOf(s)[i].evidence = s.evidence[i]
      /\ CasesOf(s)[i].rulings = SidesRuledFor(s, i)
  BY DEF CasesOf
<1>3. /\ StageOf(s, i) \in {"quiet", "settled", "open", "ruled"}
      /\ StageOf(s, i) = "ruled" <=> s.escrows[i].state = "Resolved"
      /\ StageOf(s, i) = "open" <=> s.escrows[i].state = "Disputed"
  BY <1>1 DEF StageOf, States
<1>4. s.evidence[i] # {} <=> StageOf(s, i) \in {"open", "ruled"}
  BY <1>3 DEF EvidenceRight
<1>5. CASE s.escrows[i].state # "Resolved"
  <2>1. SidesRuledFor(s, i) = {}
    BY <1>5 DEF SidesRuledFor
  <2> QED BY <1>2, <1>3, <1>4, <1>5, <2>1 DEF Record!Coherent
<1>6. CASE s.escrows[i].state = "Resolved"
  <2>1. /\ s.settlement[i].payee \in {s.escrows[i].buyer, s.escrows[i].seller}
        /\ s.escrows[i].buyer # s.escrows[i].seller
    BY <1>6 DEF Sound, SettlesToParties, DistinctRoles
  <2>2. CASE s.settlement[i].payee = s.escrows[i].buyer
    <3>1. SidesRuledFor(s, i) = {"BuyerWins"}
      BY <1>6, <2>1, <2>2 DEF SidesRuledFor, Rulings
    <3> QED BY <1>2, <1>3, <1>4, <1>6, <3>1 DEF Record!Coherent, Record!Sides
  <2>3. CASE s.settlement[i].payee = s.escrows[i].seller
    <3>1. SidesRuledFor(s, i) = {"SellerWins"}
      BY <1>6, <2>1, <2>3 DEF SidesRuledFor, Rulings
    <3> QED BY <1>2, <1>3, <1>4, <1>6, <3>1 DEF Record!Coherent, Record!Sides
  <2> QED BY <2>1, <2>2, <2>3
<1> QED BY <1>5, <1>6

\* So the record is coherent at every moment.
LEMMA RecordCoherent ==
  Soundness /\ EvidenceInvariant => \A j \in Ids : Record!Coherent(Cases[j])
<1> SUFFICES ASSUME Soundness, EvidenceInvariant, NEW j \in Ids
             PROVE  Record!Coherent(Cases[j])
  OBVIOUS
<1>1. CurrentStorage \in Storage
  BY DEF Soundness, TypeOK, CurrentStorage, Storage
<1> QED BY <1>1, StorageCoherent DEF Soundness, EvidenceInvariant, Cases

\* One step after another is as good as one.
LEMMA LeadsOn ==
  ASSUME NEW a, NEW b, NEW c, Record!Leads(a, b), Record!Leads(b, c)
  PROVE  Record!Leads(a, c)
BY DEF Record!Leads

\* Nothing is undone: what a function may do to one escrow.
Onward(i) ==
    /\ evidence[i] \subseteq evidence'[i]
    /\ escrows[i].state \in {"Released", "Refunded", "Resolved"} =>
         UNCHANGED <<escrows[i].state, escrows[i].buyer, escrows[i].seller, evidence[i],
                     settlement[i].payee>>
    /\ escrows[i].state = "Disputed" => escrows'[i].state \in {"Disputed", "Resolved"}

\* The invariant: a running withdrawal has only added to the record it would
\* fall back to.
RecordInv ==
    /\ CustodyInv
    /\ EvidenceInvariant
    /\ \A f \in frames, i \in Ids : Record!Leads(CasesOf(f.saved)[i], Cases[i])

\* And still are after a step that keeps the two invariants.
LEMMA RecordStaysCoherent ==
  (Soundness /\ EvidenceInvariant)' => (\A j \in Ids : Record!Coherent(Cases[j]))'
BY RecordCoherent, PTL

\* Then the record goes on as it may.
LEMMA OnwardLeads ==
  ASSUME Soundness, EvidenceInvariant, Soundness', EvidenceInvariant',
         NEW i \in Ids, Onward(i)
  PROVE  Record!Leads(Cases[i], Cases'[i])
<1>1. escrows[i].state \in States /\ escrows'[i].state \in States
  BY DEF Soundness, TypeOK, Escrows
<1>2. Record!Coherent(Cases'[i])
  BY RecordStaysCoherent
<1>3. /\ Cases[i].stage = StageOf(CurrentStorage, i)
      /\ Cases'[i].stage = StageOf(CurrentStorage, i)'
      /\ Cases[i].evidence = evidence[i] /\ Cases'[i].evidence = evidence'[i]
      /\ Cases[i].rulings = SidesRuledFor(CurrentStorage, i)
      /\ Cases'[i].rulings = SidesRuledFor(CurrentStorage, i)'
  BY DEF Cases, CasesOf, CurrentStorage, StageOf, SidesRuledFor
<1>4. /\ StageOf(CurrentStorage, i) = CASE escrows[i].state \in {"None", "Created", "Funded"} -> "quiet"
           [] escrows[i].state \in {"Released", "Refunded"} -> "settled"
           [] escrows[i].state = "Disputed" -> "open"
           [] escrows[i].state = "Resolved" -> "ruled"
      /\ StageOf(CurrentStorage, i)' = CASE escrows'[i].state \in {"None", "Created", "Funded"} -> "quiet"
           [] escrows'[i].state \in {"Released", "Refunded"} -> "settled"
           [] escrows'[i].state = "Disputed" -> "open"
           [] escrows'[i].state = "Resolved" -> "ruled"
  BY DEF StageOf, CurrentStorage
<1>5. Cases[i].stage = "open" => Cases'[i].stage \in {"open", "ruled"}
  BY <1>1, <1>3, <1>4 DEF Onward, States
<1>6. Cases[i].stage \in {"settled", "ruled"} => Cases'[i] = Cases[i]
  <2> SUFFICES ASSUME Cases[i].stage \in {"settled", "ruled"} PROVE Cases'[i] = Cases[i]
    OBVIOUS
  <2>1. escrows[i].state \in {"Released", "Refunded", "Resolved"}
    BY <1>1, <1>3, <1>4 DEF States
  <2>2. UNCHANGED <<escrows[i].state, escrows[i].buyer, escrows[i].seller, evidence[i],
                    settlement[i].payee>>
    BY <2>1 DEF Onward
  <2>3. Cases'[i].stage = Cases[i].stage /\ Cases'[i].evidence = Cases[i].evidence
    BY <1>3, <1>4, <2>2
  <2>4. SidesRuledFor(CurrentStorage, i)' = SidesRuledFor(CurrentStorage, i)
    BY <2>2 DEF SidesRuledFor, CurrentStorage
  <2>5. /\ Cases[i] = [stage |-> Cases[i].stage, evidence |-> Cases[i].evidence,
                       rulings |-> Cases[i].rulings]
        /\ Cases'[i] = [stage |-> Cases'[i].stage, evidence |-> Cases'[i].evidence,
                        rulings |-> Cases'[i].rulings]
    BY DEF Cases, CasesOf
  <2> QED BY <1>3, <2>3, <2>4, <2>5
<1> QED BY <1>2, <1>3, <1>5, <1>6 DEF Record!Leads, Onward

\* A function that moves one open escrow.
LEMMA MoveOnward ==
  ASSUME TypeOK, NEW id \in Ids, NEW state \in States, MoveTo(id, state),
         \/ escrows[id].state \in {"Created", "Funded"}
         \/ escrows[id].state = "Disputed" /\ state = "Resolved",
         evidence[id] \subseteq evidence'[id],
         \A i \in Ids : i # id => UNCHANGED <<evidence[i], settlement[i].payee>>
  PROVE  \A i \in Ids : Onward(i)
BY MoveToEffect DEF Onward

\* The functions one by one, those of V1 first.
LEMMA FunctionsOnward ==
  ASSUME Soundness,
         \/ \E sender \in Senders, seller, arbiter \in Addresses,
               amount \in Amounts, commitment \in Commitments :
                 CreateEscrow(sender, seller, arbiter, amount, commitment)
         \/ \E sender \in Senders, id \in Ids : PartyStep(sender, id)
         \/ \E id \in Ids, nullifier \in Nullifiers : Release(id, nullifier)
  PROVE  \A i \in Ids : Onward(i)
<1>1. TypeOK
  BY DEF Soundness
<1>2. ASSUME NEW sender \in Senders, NEW seller \in Addresses, NEW arbiter \in Addresses,
             NEW amount \in Amounts, NEW commitment \in Commitments,
             CreateEscrow(sender, seller, arbiter, amount, commitment)
      PROVE  \A i \in Ids : Onward(i)
  <2>1. PICK id \in Ids : id = nextEscrowId
    BY <1>1, <1>2, MaxEscrowsAssumption DEF CreateEscrow, TypeOK, Ids
  <2>2. escrows[id].state = "None"
    BY <1>1, <2>1 DEF Soundness, Sound, Blank, CurrentStorage, NoEscrow, TypeOK, Ids
  <2>3. /\ \A i \in Ids : i # id => escrows'[i] = escrows[i]
        /\ UNCHANGED <<evidence, settlement>>
    BY <1>1, <1>2, <2>1 DEF CreateEscrow, TypeOK
  <2> QED BY <2>2, <2>3 DEF Onward
<1>3. ASSUME NEW sender \in Senders, NEW id \in Ids, NEW value \in Amounts,
             Fund(sender, id, value)
      PROVE  \A i \in Ids : Onward(i)
  BY <1>1, <1>3, MoveOnward DEF Fund, InState, States
<1>4. ASSUME NEW id \in Ids, NEW payee, RecordSettlement(id, payee)
      PROVE  \A i \in Ids : i # id => settlement'[i] = settlement[i]
  BY <1>1, <1>4 DEF RecordSettlement, TypeOK
<1>5. ASSUME NEW sender \in Senders, NEW id \in Ids, Refund(sender, id)
      PROVE  \A i \in Ids : Onward(i)
  BY <1>1, <1>4, <1>5, MoveOnward DEF Refund, InState, States
<1>6. ASSUME NEW sender \in Senders, NEW id \in Ids, NEW text \in Texts,
             RaiseDispute(sender, id, text)
      PROVE  \A i \in Ids : Onward(i)
  <2>1. evidence[id] \subseteq evidence'[id] /\ \A i \in Ids : i # id => UNCHANGED evidence[i]
    BY <1>1, <1>6 DEF RaiseDispute, TypeOK
  <2> QED BY <1>1, <1>6, <2>1, MoveOnward DEF RaiseDispute, InState, States
<1>7. ASSUME NEW sender \in Senders, NEW id \in Ids, NEW text \in Texts,
             SubmitEvidence(sender, id, text)
      PROVE  \A i \in Ids : Onward(i)
  <2>1. evidence[id] \subseteq evidence'[id] /\ \A i \in Ids : i # id => UNCHANGED evidence[i]
    BY <1>1, <1>7 DEF SubmitEvidence, TypeOK
  <2> QED BY <1>1, <1>7, <2>1 DEF SubmitEvidence, InState, Onward
<1>8. ASSUME NEW sender \in Senders, NEW id \in Ids, NEW text \in Texts,
             NEW ruling \in Rulings, ResolveDispute(sender, id, ruling, text)
      PROVE  \A i \in Ids : Onward(i)
  BY <1>1, <1>4, <1>8, MoveOnward DEF ResolveDispute, InState, States
<1>9. ASSUME NEW id \in Ids, NEW nullifier \in Nullifiers, Release(id, nullifier)
      PROVE  \A i \in Ids : Onward(i)
  BY <1>1, <1>4, <1>9, MoveOnward DEF Release, InState, States
<1> QED BY <1>2, <1>3, <1>5, <1>6, <1>7, <1>8, <1>9 DEF PartyStep

\* A rotation leaves the dispute as it is.
LEMMA SetArbiterOnward ==
  ASSUME Soundness, NEW sender \in Senders, NEW id \in Ids, NEW newArbiter \in Addresses,
         SetArbiter(sender, id, newArbiter)
  PROVE  \A i \in Ids : Onward(i)
<1>1. /\ escrows' = [escrows EXCEPT ![id].arbiter = newArbiter]
      /\ UNCHANGED <<evidence, settlement>>
  BY DEF SetArbiter
<1>2. \A i \in Ids : UNCHANGED <<escrows[i].buyer, escrows[i].seller, escrows[i].state>>
  BY <1>1 DEF Soundness, TypeOK, Escrows
<1> QED BY <1>1, <1>2 DEF Onward

\* What a step of the contract makes of the record of the last transaction.
RecordStep == [Record!Transaction]_(CasesOf(Committed))

\* A function is a transaction of its own, or another addition to a pending one.
LEMMA OnwardRefines ==
  ASSUME RecordInv, CustodyInv', EvidenceInvariant', frames' = frames,
         \A i \in Ids : Onward(i)
  PROVE  RecordInv' /\ RecordStep
<1>1. \A i \in Ids : Record!Leads(Cases[i], Cases'[i])
  BY OnwardLeads DEF RecordInv, CustodyInv
<1>2. \A f \in frames', i \in Ids : Record!Leads(CasesOf(f.saved)[i], Cases'[i])
  BY <1>1, LeadsOn DEF RecordInv
<1>3. RecordInv'
  BY <1>2 DEF RecordInv, CasesOf, StageOf, SidesRuledFor
<1>4. CASE frames = {}
  <2>1. CasesOf(Committed) = Cases /\ CasesOf(Committed)' = Cases'
    BY <1>4 DEF Committed, Cases, CasesOf, StageOf, SidesRuledFor
  <2> QED BY <1>1, <1>3, <2>1 DEF RecordStep, Record!Transaction
<1>5. CASE frames # {}
  <2>1. Committed' = Committed
    BY <1>5 DEF Committed
  <2> QED BY <1>3, <2>1 DEF RecordStep, CasesOf, StageOf, SidesRuledFor
<1> QED BY <1>4, <1>5

\* The beginning of a withdrawal is no news.
LEMMA WithdrawCallRecord ==
  ASSUME RecordInv, CustodyInv', EvidenceInvariant',
         NEW sender \in Senders, WithdrawCall(sender)
  PROVE  RecordInv' /\ RecordStep
<1>1. /\ frames = {} /\ frames' = {[payee |-> sender, saved |-> CurrentStorage]}
      /\ UNCHANGED <<escrows, evidence>> /\ settlement' = PaidOut(sender)
  BY DEF WithdrawCall, NotEntered
<1>2. \A i \in Ids : settlement'[i].payee = settlement[i].payee
  BY <1>1 DEF PaidOut, RecordInv, CustodyInv, Soundness, TypeOK, Settlements
<1>3. \A i \in Ids : Record!Leads(Cases[i], Cases'[i])
  <2>1. \A i \in Ids : Onward(i)
    BY <1>1, <1>2 DEF Onward
  <2> QED BY <2>1, OnwardLeads DEF RecordInv, CustodyInv
<1>4. ASSUME NEW f \in frames' PROVE f.saved = CurrentStorage
  BY <1>1
<1>5. \A f \in frames', i \in Ids : Record!Leads(CasesOf(f.saved)[i], Cases'[i])
  BY <1>3, <1>4 DEF Cases
<1>6. RecordInv'
  BY <1>5 DEF RecordInv, CasesOf, StageOf, SidesRuledFor
<1>7. Committed = CurrentStorage /\ Committed' = CurrentStorage
  <2>1. PICK f \in frames' : Committed' = f.saved
    BY <1>1 DEF Committed
  <2> QED BY <1>1, <1>4, <2>1 DEF Committed
<1>8. Committed' = Committed
  BY <1>7
<1> QED BY <1>6, <1>8 DEF RecordStep, CasesOf, StageOf, SidesRuledFor

\* Its end commits what was added to the record since then, or nothing.
LEMMA WithdrawEndRecord ==
  ASSUME RecordInv, CustodyInv', EvidenceInvariant', NEW f \in frames,
         WithdrawReturn(f) \/ WithdrawRevert(f)
  PROVE  RecordInv' /\ RecordStep
<1>1. CurrentStorage' = CurrentStorage \/ CurrentStorage' = f.saved
  BY WithdrawEnds DEF RecordInv, CustodyInv
<1>2. frames' = {}
  BY DEF WithdrawReturn, WithdrawRevert
<1>3. RecordInv'
  BY <1>2 DEF RecordInv
<1>4. Committed = f.saved /\ Committed' = CurrentStorage'
  BY <1>2 DEF Committed, RecordInv, CustodyInv
<1>5. CASE CurrentStorage' = f.saved
  <2>1. Committed' = Committed
    BY <1>4, <1>5
  <2> QED BY <1>3, <2>1 DEF RecordStep, CasesOf, StageOf, SidesRuledFor
<1>6. CASE CurrentStorage' = CurrentStorage
  <2>1. Committed' = CurrentStorage
    BY <1>4, <1>6
  <2>2. CasesOf(Committed) = CasesOf(f.saved) /\ CasesOf(Committed)' = Cases
    BY <1>4, <2>1 DEF Cases, CasesOf, StageOf, SidesRuledFor
  <2>3. \A i \in Ids : Record!Leads(CasesOf(f.saved)[i], Cases[i])
    BY DEF RecordInv
  <2> QED BY <1>3, <2>2, <2>3 DEF RecordStep, Record!Transaction
<1> QED BY <1>1, <1>5, <1>6

\* A step that changes nothing.
LEMMA StutterRecord ==
  ASSUME RecordInv, UNCHANGED vars
  PROVE  RecordInv' /\ RecordStep
<1>1. CurrentStorage' = CurrentStorage /\ frames' = frames
  BY DEF vars, CurrentStorage
<1>2. Committed' = Committed /\ Cases' = Cases
  BY <1>1 DEF Committed, Cases, CasesOf, StageOf, SidesRuledFor
<1>3. CustodyInv' /\ EvidenceInvariant'
  BY StutterRefines, EvidenceStep DEF RecordInv, CustodyInv
<1>4. RecordInv'
  BY <1>1, <1>2, <1>3 DEF RecordInv
<1> QED BY <1>2, <1>4 DEF RecordStep, CasesOf, StageOf, SidesRuledFor

\* Every step of the contract is a step of the record.
LEMMA StepRecord ==
  ASSUME RecordInv, Reconciliation', [Next]_vars
  PROVE  RecordInv' /\ RecordStep
<1>1. CustodyInv' /\ EvidenceInvariant' /\ Soundness
  BY StepRefines, EvidenceStep DEF RecordInv, CustodyInv
<1>2. CASE \/ \E sender \in Senders, seller, arbiter \in Addresses,
                 amount \in Amounts, commitment \in Commitments :
                   CreateEscrow(sender, seller, arbiter, amount, commitment)
           \/ \E sender \in Senders, id \in Ids : PartyStep(sender, id)
           \/ \E id \in Ids, nullifier \in Nullifiers : Release(id, nullifier)
  <2>1. \A i \in Ids : Onward(i)
    BY <1>1, <1>2, FunctionsOnward
  <2>2. frames' = frames
    BY <1>2 DEF CreateEscrow, PartyStep, Fund, Refund, RaiseDispute, SubmitEvidence,
                ResolveDispute, Release
  <2> QED BY <1>1, <2>1, <2>2, OnwardRefines
<1>3. ASSUME NEW sender \in Senders, WithdrawCall(sender)
      PROVE  RecordInv' /\ RecordStep
  BY <1>1, <1>3, WithdrawCallRecord
<1>4. ASSUME NEW f \in frames, WithdrawReturn(f) \/ WithdrawRevert(f)
      PROVE  RecordInv' /\ RecordStep
  BY <1>1, <1>4, WithdrawEndRecord
<1>5. CASE UNCHANGED vars
  BY <1>5, StutterRecord
<1> QED BY <1>2, <1>3, <1>4, <1>5 DEF Next

\* So is every step of the proxy and its owner.
LEMMA StepRecordV2 ==
  ASSUME RecordInv, Reconciliation', [NextV2]_varsV2
  PROVE  RecordInv' /\ RecordStep
<1>1. CASE [Next]_vars
  BY <1>1, StepRecord
<1>2. ASSUME NEW sender \in Senders, NEW id \in Ids, NEW newArbiter \in Addresses,
             SetArbiter(sender, id, newArbiter)
      PROVE  RecordInv' /\ RecordStep
  <2>1. CustodyInv' /\ EvidenceInvariant' /\ Soundness
    BY StepRefinesV2, EvidenceStepV2 DEF RecordInv, CustodyInv
  <2>2. (\A i \in Ids : Onward(i)) /\ frames' = frames
    BY <1>2, <2>1, SetArbiterOnward DEF SetArbiter
  <2> QED BY <2>1, <2>2, OnwardRefines
<1>3. CASE InheritedStep
  BY <1>1, <1>3 DEF InheritedStep, Next
<1>4. ASSUME NEW sender \in Senders, WithdrawCallV2(sender) PROVE RecordInv' /\ RecordStep
  BY <1>1, <1>4 DEF WithdrawCallV2, Next
<1>5. ASSUME NEW sender \in Senders, OwnerStep(sender) PROVE RecordInv' /\ RecordStep
  BY <1>1, <1>2, <1>5
  DEF OwnerStep, UpgradeToAndCall, TransferOwnership, RenounceOwnership
<1>6. CASE EndOfCall
  BY <1>1, <1>6 DEF EndOfCall, WithdrawReturnV2, WithdrawRevertV2, Next
<1>7. CASE UNCHANGED varsV2
  BY <1>1, <1>7 DEF varsV2
<1> QED BY <1>3, <1>4, <1>5, <1>6, <1>7 DEF NextV2

\* There is nothing on record yet.
LEMMA InitRecord == Init => RecordInv /\ Record!Init
<1> SUFFICES ASSUME Init PROVE RecordInv /\ Record!Init
  OBVIOUS
<1>1. frames = {} /\ CustodyInv /\ EvidenceInvariant
  BY InitRefines, EvidenceInit DEF Init
<1>2. \A i \in Ids : Cases[i] = Record!Quiet
  <2> SUFFICES ASSUME NEW i \in Ids PROVE Cases[i] = Record!Quiet
    OBVIOUS
  <2>1. escrows[i].state = "None" /\ evidence[i] = {}
    BY DEF Init, NoEscrow
  <2>2. StageOf(CurrentStorage, i) = "quiet" /\ SidesRuledFor(CurrentStorage, i) = {}
    BY <2>1 DEF StageOf, SidesRuledFor, CurrentStorage
  <2> QED BY <2>1, <2>2 DEF Cases, CasesOf, CurrentStorage, Record!Quiet
<1>3. CasesOf(Committed) = Cases
  BY <1>1 DEF Committed, Cases
<1>4. CasesOf(Committed) = [i \in Ids |-> Record!Quiet]
  BY <1>2, <1>3 DEF Cases, CasesOf
<1> QED BY <1>1, <1>4 DEF RecordInv, Record!Init

\* Every dispute the contract keeps is a dispute as DisputeRecord has it, through
\* re-entered and reverted withdrawals: its evidence is kept, added to only while
\* it is open, and its one ruling, on some of it, is for a party and final.
THEOREM RecordKept == Spec => KeepsTheRecord
<1>1. Init => RecordInv /\ Record!Init
  BY InitRecord
<1>2. RecordInv /\ Reconciliation' /\ [Next]_vars => RecordInv' /\ RecordStep
  BY StepRecord
<1> QED BY <1>1, <1>2, ReconciliationHolds, PTL
        DEF Spec, KeepsTheRecord, Record!Spec, RecordStep

\* The owner's rotations of arbiters and upgrades of the proxy do not reopen one,
\* nor do they lose or change what is on its record.
THEOREM RecordKeptV2 == SpecV2 => KeepsTheRecord
<1>1. InitV2 => RecordInv /\ Record!Init
  BY InitRecord DEF InitV2
<1>2. RecordInv /\ Reconciliation' /\ [NextV2]_varsV2 => RecordInv' /\ RecordStep
  BY StepRecordV2
<1>3. SpecV2 => []Reconciliation
  BY SoundnessHoldsV2, SoundIsReconciled, PTL
<1> QED BY <1>1, <1>2, <1>3, PTL
        DEF SpecV2, KeepsTheRecord, Record!Spec, RecordStep
=============================================================================
