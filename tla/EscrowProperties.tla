-------------------------- MODULE EscrowProperties --------------------------
(***************************************************************************)
(* What must hold of the escrow contract.  The predicates take the storage *)
(* they speak of as a parameter, because a withdrawal in progress keeps a  *)
(* copy to fall back to, and the copy must be as sound as the storage.     *)
(***************************************************************************)
EXTENDS Escrow

TypeOK ==
    /\ escrows \in [Ids -> Escrows]
    /\ nextEscrowId \in 0 .. MaxEscrows
    /\ pendingWithdrawals \in [Accounts -> Nat]
    /\ totalPendingWithdrawals \in Nat
    /\ nullifierUsed \in SUBSET Nullifiers
    /\ balance \in Nat
    /\ evidence \in [Ids -> SUBSET Accounts]
    /\ settlement \in [Ids -> Settlements]
    /\ frames \in SUBSET Frames

-----------------------------------------------------------------------------
(***************************************************************************)
(* The books.                                                              *)
(***************************************************************************)

\* The deposits that are still in escrow.
IsLocked(s, id) == s.escrows[id].state \in {"Funded", "Disputed"}

LockedAmounts(s) ==
    [i \in Ids |-> IF IsLocked(s, i) THEN s.escrows[i].amount ELSE 0]

\* The deposits settled to an account that it has not pulled.
IsUnpaid(s, id, account) ==
    s.settlement[id].payee = account /\ ~s.settlement[id].withdrawn

UnpaidAmounts(s, account) ==
    [i \in Ids |-> IF IsUnpaid(s, i, account) THEN s.escrows[i].amount ELSE 0]

Solvent(s) ==
    s.balance = SumFunction(s.pendingWithdrawals) + SumFunction(LockedAmounts(s))

TotalIsRight(s) ==
    s.totalPendingWithdrawals = SumFunction(s.pendingWithdrawals)

PayeesAreOwed(s) ==
    \A a \in Accounts :
        s.pendingWithdrawals[a] = SumFunction(UnpaidAmounts(s, a))

\* The contract holds exactly the deposits in escrow plus the balances it has
\* credited, at every point of every call, the callback of a withdrawal
\* included (the first invariant of test/Properties.sol).
Solvency == Solvent(CurrentStorage)

\* totalPendingWithdrawals, which the contract maintains on its own, is the
\* total of pendingWithdrawals.
TotalMatchesCredits == TotalIsRight(CurrentStorage)

\* What a payee can pull is, to the wei, the deposits settled to it since it
\* last pulled: no credit is lost to a withdrawal that was running when it was
\* made, none is paid twice, and a failed withdrawal gives all of it back.
EntitlementsKept == PayeesAreOwed(CurrentStorage)

-----------------------------------------------------------------------------
(***************************************************************************)
(* Settlements.                                                            *)
(***************************************************************************)

SettlesToParties(s) ==
    \A i \in Ids :
        LET e == s.escrows[i]
            payee == s.settlement[i].payee
        IN  /\ e.state = "Released" => payee = e.seller
            /\ e.state = "Refunded" => payee = e.buyer
            /\ e.state = "Resolved" => payee \in {e.buyer, e.seller}
            /\ e.state \in {"None", "Created", "Funded", "Disputed"}
                 => s.settlement[i] = NotSettled
            /\ e.state # "None" => payee # e.arbiter

\* An escrow is settled to one of its own parties: the seller if it was
\* released, the buyer if it was refunded, either one if the arbiter ruled,
\* and never to its arbiter, whoever that is by then.
SettledToAParty == SettlesToParties(CurrentStorage)

SpendsProofsOnce(s) ==
    /\ \A n \in s.nullifierUsed : s.escrows[n[2]].state = "Released"
    /\ \A i \in Ids : s.escrows[i].state = "Released" =>
         \E n \in s.nullifierUsed :
            /\ Delivery(n, s.escrows[i].commitment, i)
            /\ \A m \in s.nullifierUsed : m[2] = i => m = n

\* Spent proofs and released escrows are the same thing: each release has
\* spent exactly one nullifier, every spent nullifier was spent on the escrow
\* it was made for, and what a failed withdrawal undoes it also unspends.
ProofsSpentOnce == SpendsProofsOnce(CurrentStorage)

\* Releasing one escrow never uses up the proof of another, even when the two
\* were created with the same commitment: while an escrow is funded and its
\* commitment has a secret, there is an unspent proof that releases it.
ReleaseStaysOpen ==
    \A i \in Ids, secret \in Secrets :
        /\ escrows[i].state = "Funded"
        /\ escrows[i].commitment = Poseidon1(secret)
        => \E n \in Nullifiers \ nullifierUsed :
              Delivery(n, escrows[i].commitment, i)

\* A ruling has evidence to rest on, put there by the parties, and an escrow
\* that was never disputed has none.
EvidenceOnRecord ==
    \A i \in Ids :
        /\ evidence[i] \subseteq {escrows[i].buyer, escrows[i].seller}
        /\ evidence[i] # {} <=> escrows[i].state \in {"Disputed", "Resolved"}

-----------------------------------------------------------------------------
(***************************************************************************)
(* The invariant the proofs work with: the storage is sound, and so is the *)
(* copy a running withdrawal would fall back to.  Ids not handed out yet   *)
(* are blank, and escrows not settled yet have settled nothing.            *)
(***************************************************************************)
Blank(s) == \A i \in Ids : i >= s.nextEscrowId => s.escrows[i] = NoEscrow

\* The three roles of an escrow are three real accounts.
DistinctRoles(s) ==
    \A i \in Ids :
        LET e == s.escrows[i]
        IN  e.state # "None" => /\ {e.buyer, e.seller, e.arbiter} \subseteq Accounts
                                /\ e.buyer # e.seller
                                /\ e.arbiter \notin {e.buyer, e.seller}

Sound(s) ==
    /\ DistinctRoles(s)
    /\ Solvent(s)
    /\ TotalIsRight(s)
    /\ PayeesAreOwed(s)
    /\ SettlesToParties(s)
    /\ SpendsProofsOnce(s)
    /\ Blank(s)

\* No step of the contract leaves unsound books behind, and neither does
\* falling back to the storage of an earlier moment.
Soundness ==
    /\ TypeOK
    /\ Sound(CurrentStorage)
    /\ \A f \in frames : Sound(f.saved)

-----------------------------------------------------------------------------
(***************************************************************************)
(* The contract implements Custody.  Custody sees the storage as of the    *)
(* last transaction that ended: while a withdrawal is running, that is the *)
(* storage it would fall back to.                                          *)
(***************************************************************************)
Committed ==
    IF frames = {} THEN CurrentStorage ELSE (CHOOSE f \in frames : TRUE).saved

PlaceOf(s, id) ==
    CASE s.escrows[id].state = "None" -> "absent"
      [] s.escrows[id].state = "Created" -> "agreed"
      [] IsLocked(s, id) -> "locked"
      [] OTHER -> IF s.settlement[id].withdrawn THEN "paid" ELSE "owed"

DepositsOf(s) ==
    [i \in Ids |-> [buyer |-> s.escrows[i].buyer, seller |-> s.escrows[i].seller,
                    amount |-> s.escrows[i].amount, place |-> PlaceOf(s, i),
                    holder |-> s.settlement[i].payee]]

Promise == INSTANCE Custody WITH
    NoAccount <- ZeroAddress,
    deposits <- DepositsOf(Committed),
    owed <- Committed.pendingWithdrawals,
    vault <- Committed.balance

\* Seen from outside, every behaviour of the contract is one of Custody:
\* re-entering it in the middle of a withdrawal achieves nothing that one
\* atomic transaction could not.
ImplementsCustody == Promise!Spec

-----------------------------------------------------------------------------
(***************************************************************************)
(* It implements DisputeRecord as well, again as of the last transaction   *)
(* that ended.                                                             *)
(***************************************************************************)
StageOf(s, id) ==
    CASE s.escrows[id].state \in {"None", "Created", "Funded"} -> "quiet"
      [] s.escrows[id].state \in {"Released", "Refunded"} -> "settled"
      [] s.escrows[id].state = "Disputed" -> "open"
      [] s.escrows[id].state = "Resolved" -> "ruled"

\* The side of the dispute whose address DisputeResolved names.
SidesRuledFor(s, id) ==
    {side \in Rulings :
       /\ s.escrows[id].state = "Resolved"
       /\ s.settlement[id].payee = IF side = "BuyerWins" THEN s.escrows[id].buyer
                                                         ELSE s.escrows[id].seller}

CasesOf(s) ==
    [i \in Ids |-> [stage |-> StageOf(s, i), evidence |-> s.evidence[i],
                    rulings |-> SidesRuledFor(s, i)]]

Record == INSTANCE DisputeRecord WITH Cases <- Ids, record <- CasesOf(Committed)

\* The record of a dispute is what its readers take it for: evidence and
\* rulings are never taken back, closed or reopened by anything the parties,
\* the arbiter or the owner of the proxy do, in whatever calls inside calls.
KeepsTheRecord == Record!Spec
=============================================================================
