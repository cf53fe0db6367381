------------------------------- MODULE Escrow -------------------------------
(***************************************************************************)
(* The escrow contract of src/EscrowUpgradeable.sol as its proxy runs it:  *)
(* many buyer/seller/arbiter agreements in one contract that holds the ETH *)
(* of all of them, credits payees instead of paying them, and lets them    *)
(* pull.                                                                   *)
(*                                                                         *)
(* A transaction is one step, with one exception.  withdraw hands control  *)
(* to the payee in the middle, and the payee may call the contract again   *)
(* before it returns: every function but withdraw itself is open to that.  *)
(* So withdraw is two steps, the call (WithdrawCall) and either a return   *)
(* (WithdrawReturn) or a failure (WithdrawRevert) that undoes everything   *)
(* since the call, and between them any other function may run.  The       *)
(* activation on the call stack is kept in frames, with the storage to     *)
(* fall back to.  A call that reverts before it reaches an external call   *)
(* changes nothing and is no step at all.                                  *)
(*                                                                         *)
(* Proofs and hashes are free terms: Poseidon hashes are injective and a   *)
(* proof exists exactly for the statements of circuits/delivery.circom     *)
(* that are true.  Two history variables, evidence and settlement, record  *)
(* what the events DisputeRaised, EscrowReleased, EscrowRefunded,          *)
(* DisputeResolved and Withdrawn tell an observer.                         *)
(***************************************************************************)
EXTENDS Integers, FiniteSets, Functions

CONSTANTS
    Accounts,     \* the addresses there are, contracts included
    Keyless,      \* those of them nobody can send a transaction from
    ZeroAddress,  \* address(0)
    Amounts,      \* amounts of wei a caller may name or send, zero among them
    Secrets,      \* delivery secrets
    ZeroWord,     \* the commitment 0: no secret is known to hash to it
    MaxEscrows    \* bound: how many escrows are ever created

ASSUME AccountsAssumption ==
    /\ IsFiniteSet(Accounts)
    /\ Keyless \subseteq Accounts
    /\ ZeroAddress \notin Accounts
ASSUME AmountsAssumption == Amounts \subseteq Nat
ASSUME MaxEscrowsAssumption == MaxEscrows \in Nat

VARIABLES
    escrows,                 \* _escrows: escrow id -> its record
    nextEscrowId,            \* the id the next createEscrow hands out
    pendingWithdrawals,      \* payee -> wei credited and not yet pulled
    totalPendingWithdrawals, \* the contract's own total of pendingWithdrawals
    nullifierUsed,           \* the nullifiers of the proofs already spent
    balance,                 \* address(this).balance
    evidence,                \* history: escrow id -> who has put evidence on record
    settlement,              \* history: escrow id -> who it was settled to, and
                             \* whether that money has been pulled
    frames                   \* activations of withdraw waiting for the payee

vars == <<escrows, nextEscrowId, pendingWithdrawals, totalPendingWithdrawals,
          nullifierUsed, balance, evidence, settlement, frames>>

-----------------------------------------------------------------------------
(***************************************************************************)
(* Data.                                                                   *)
(***************************************************************************)
Ids == 0 .. (MaxEscrows - 1)
Addresses == Accounts \cup {ZeroAddress}
Senders == Accounts \ Keyless

States == {"None", "Created", "Funded", "Released", "Refunded", "Disputed", "Resolved"}
Rulings == {"BuyerWins", "SellerWins"}

\* Evidence and rationales are free text of which the contract asks one thing.
Texts == {"empty", "statement"}

\* Mutant of Poseidon2: the nullifier is not bound to the escrow.
Poseidon2Unbound(secret, id) == <<secret, 0>>

\* The two hashes of the delivery circuit.
Poseidon1(secret) == <<secret>>
Poseidon2(secret, id) == <<secret, id>>

Commitments == {Poseidon1(s) : s \in Secrets} \cup {ZeroWord}
Nullifiers == {Poseidon2(s, i) : s \in Secrets, i \in Ids}

\* Mutant of Delivery: the circuit leaves its nullifier output unconstrained.
DeliveryAnyNullifier(nullifier, commitment, id) ==
    \E secret \in Secrets : commitment = Poseidon1(secret)

\* What a proof proves: its maker knows the secret behind the commitment, and
\* the nullifier is that secret's for this escrow.  Such a proof exists exactly
\* when the statement is true.
Delivery(nullifier, commitment, id) ==
    \E secret \in Secrets : /\ commitment = Poseidon1(secret)
                            /\ nullifier = Poseidon2(secret, id)

Escrows == [buyer: Addresses, seller: Addresses, arbiter: Addresses,
            amount: Nat, commitment: Commitments, state: States]

\* Storage that was never written reads as zeros.
NoEscrow == [buyer |-> ZeroAddress, seller |-> ZeroAddress, arbiter |-> ZeroAddress,
             amount |-> 0, commitment |-> ZeroWord, state |-> "None"]

Settlements == [payee: Addresses, withdrawn: BOOLEAN]
NotSettled == [payee |-> ZeroAddress, withdrawn |-> FALSE]

\* Everything a failed call puts back.
Storage == [escrows: [Ids -> Escrows], nextEscrowId: 0 .. MaxEscrows,
            pendingWithdrawals: [Accounts -> Nat], totalPendingWithdrawals: Nat,
            nullifierUsed: SUBSET Nullifiers, balance: Nat,
            evidence: [Ids -> SUBSET Accounts], settlement: [Ids -> Settlements]]

CurrentStorage ==
    [escrows |-> escrows, nextEscrowId |-> nextEscrowId,
     pendingWithdrawals |-> pendingWithdrawals,
     totalPendingWithdrawals |-> totalPendingWithdrawals,
     nullifierUsed |-> nullifierUsed, balance |-> balance,
     evidence |-> evidence, settlement |-> settlement]

Frames == [payee: Accounts, saved: Storage]

Init ==
    /\ escrows = [i \in Ids |-> NoEscrow]
    /\ nextEscrowId = 0
    /\ pendingWithdrawals = [a \in Accounts |-> 0]
    /\ totalPendingWithdrawals = 0
    /\ nullifierUsed = {}
    /\ balance = 0
    /\ evidence = [i \in Ids |-> {}]
    /\ settlement = [i \in Ids |-> NotSettled]
    /\ frames = {}

-----------------------------------------------------------------------------
(***************************************************************************)
(* The state machine of one escrow.                                        *)
(***************************************************************************)

\* Mutant of InState: the escrow exists, in whatever state.
InStateExists(id, state) == escrows[id].state # "None"

\* _requireEscrow and _requireState: the escrow exists and is where the caller
\* needs it to be.
InState(id, state) == escrows[id].state = state

\* Mutant of IsParty: the arbiter may put evidence on record as well.
IsPartyOrArbiter(sender, id) ==
    sender \in {escrows[id].buyer, escrows[id].seller, escrows[id].arbiter}

\* The two parties to the deal; the arbiter is not one of them.
IsParty(sender, id) == sender \in {escrows[id].buyer, escrows[id].seller}

MoveTo(id, state) == escrows' = [escrows EXCEPT ![id].state = state]

\* Mutants of Credit: the total is forgotten; the old balance is overwritten.
CreditForgetsTotal(payee, amount) ==
    /\ pendingWithdrawals' = [pendingWithdrawals EXCEPT ![payee] = @ + amount]
    /\ UNCHANGED totalPendingWithdrawals

CreditOverwrites(payee, amount) ==
    /\ pendingWithdrawals' = [pendingWithdrawals EXCEPT ![payee] = amount]
    /\ totalPendingWithdrawals' = totalPendingWithdrawals + amount

\* _credit: the only way any balance of the contract's books goes up.
Credit(payee, amount) ==
    /\ pendingWithdrawals' = [pendingWithdrawals EXCEPT ![payee] = @ + amount]
    /\ totalPendingWithdrawals' = totalPendingWithdrawals + amount

\* The settlement event of an escrow names who was credited.
RecordSettlement(id, payee) ==
    settlement' = [settlement EXCEPT ![id].payee = payee]

CreateEscrow(sender, seller, arbiter, amount, commitment) ==
    /\ ZeroAddress \notin {seller, arbiter}
    /\ seller # sender /\ arbiter # sender /\ arbiter # seller
    /\ amount # 0
    /\ nextEscrowId < MaxEscrows
    /\ nextEscrowId' = nextEscrowId + 1
    /\ escrows' = [escrows EXCEPT ![nextEscrowId] =
                     [buyer |-> sender, seller |-> seller, arbiter |-> arbiter,
                      amount |-> amount, commitment |-> commitment,
                      state |-> "Created"]]
    /\ UNCHANGED <<pendingWithdrawals, totalPendingWithdrawals, nullifierUsed,
                   balance, evidence, settlement, frames>>

Fund(sender, id, value) ==
    /\ InState(id, "Created")
    /\ sender = escrows[id].buyer
    /\ value = escrows[id].amount
    /\ MoveTo(id, "Funded")
    /\ balance' = balance + value
    /\ UNCHANGED <<nextEscrowId, pendingWithdrawals, totalPendingWithdrawals,
                   nullifierUsed, evidence, settlement, frames>>

\* Whoever holds a proof may present it: the sender plays no part.
Release(id, nullifier) ==
    /\ InState(id, "Funded")
    /\ nullifier \notin nullifierUsed
    /\ Delivery(nullifier, escrows[id].commitment, id)
    /\ nullifierUsed' = nullifierUsed \cup {nullifier}
    /\ MoveTo(id, "Released")
    /\ Credit(escrows[id].seller, escrows[id].amount)
    /\ RecordSettlement(id, escrows[id].seller)
    /\ UNCHANGED <<nextEscrowId, balance, evidence, frames>>

Refund(sender, id) ==
    /\ InState(id, "Funded")
    /\ sender = escrows[id].seller
    /\ MoveTo(id, "Refunded")
    /\ Credit(escrows[id].buyer, escrows[id].amount)
    /\ RecordSettlement(id, escrows[id].buyer)
    /\ UNCHANGED <<nextEscrowId, nullifierUsed, balance, evidence, frames>>

RaiseDispute(sender, id, text) ==
    /\ InState(id, "Funded")
    /\ IsParty(sender, id)
    /\ text # "empty"
    /\ MoveTo(id, "Disputed")
    /\ evidence' = [evidence EXCEPT ![id] = @ \cup {sender}]
    /\ UNCHANGED <<nextEscrowId, pendingWithdrawals, totalPendingWithdrawals,
                   nullifierUsed, balance, settlement, frames>>

SubmitEvidence(sender, id, text) ==
    /\ InState(id, "Disputed")
    /\ IsParty(sender, id)
    /\ text # "empty"
    /\ evidence' = [evidence EXCEPT ![id] = @ \cup {sender}]
    /\ UNCHANGED <<escrows, nextEscrowId, pendingWithdrawals,
                   totalPendingWithdrawals, nullifierUsed, balance, settlement,
                   frames>>

\* Mutant of Beneficiary: the arbiter keeps the deposit instead of the seller.
BeneficiaryArbiter(id, ruling) ==
    IF ruling = "BuyerWins" THEN escrows[id].buyer ELSE escrows[id].arbiter

\* A ruling picks a side, never an address.
Beneficiary(id, ruling) ==
    IF ruling = "BuyerWins" THEN escrows[id].buyer ELSE escrows[id].seller

ResolveDispute(sender, id, ruling, text) ==
    /\ InState(id, "Disputed")
    /\ sender = escrows[id].arbiter
    /\ text # "empty"
    /\ MoveTo(id, "Resolved")
    /\ Credit(Beneficiary(id, ruling), escrows[id].amount)
    /\ RecordSettlement(id, Beneficiary(id, ruling))
    /\ UNCHANGED <<nextEscrowId, nullifierUsed, balance, evidence, frames>>

-----------------------------------------------------------------------------
(***************************************************************************)
(* Pull payments.                                                          *)
(***************************************************************************)

\* nonReentrant: withdraw may not be entered while it is running.
NotEntered == frames = {}

\* The Withdrawn event pays everything the payee was owed so far.
PaidOut(payee) ==
    [i \in Ids |-> IF settlement[i].payee = payee
                   THEN [settlement[i] EXCEPT !.withdrawn = TRUE]
                   ELSE settlement[i]]

\* withdraw up to the moment the payee receives the ETH and takes control.
WithdrawCall(sender) ==
    /\ NotEntered
    /\ pendingWithdrawals[sender] # 0
    /\ frames' = {[payee |-> sender, saved |-> CurrentStorage]}
    /\ pendingWithdrawals' = [pendingWithdrawals EXCEPT ![sender] = 0]
    /\ totalPendingWithdrawals' = totalPendingWithdrawals - pendingWithdrawals[sender]
    /\ balance' = balance - pendingWithdrawals[sender]
    /\ settlement' = PaidOut(sender)
    /\ UNCHANGED <<escrows, nextEscrowId, nullifierUsed, evidence>>

\* Mutant of WithdrawReturn: the balance is cleared once more after the call,
\* as if the effects came after the interaction.
WithdrawReturnClears(frame) ==
    /\ frame \in frames
    /\ frames' = {}
    /\ pendingWithdrawals' = [pendingWithdrawals EXCEPT ![frame.payee] = 0]
    /\ UNCHANGED <<escrows, nextEscrowId, totalPendingWithdrawals, nullifierUsed,
                   balance, evidence, settlement>>

\* The payee took the money and returned.
WithdrawReturn(frame) ==
    /\ frame \in frames
    /\ frames' = {}
    /\ UNCHANGED <<escrows, nextEscrowId, pendingWithdrawals,
                   totalPendingWithdrawals, nullifierUsed, balance, evidence,
                   settlement>>

\* The payee refused the money: TransferFailed undoes the whole transaction,
\* with all that was called from inside it.
WithdrawRevert(frame) ==
    /\ frame \in frames
    /\ frames' = {}
    /\ escrows' = frame.saved.escrows
    /\ nextEscrowId' = frame.saved.nextEscrowId
    /\ pendingWithdrawals' = frame.saved.pendingWithdrawals
    /\ totalPendingWithdrawals' = frame.saved.totalPendingWithdrawals
    /\ nullifierUsed' = frame.saved.nullifierUsed
    /\ balance' = frame.saved.balance
    /\ evidence' = frame.saved.evidence
    /\ settlement' = frame.saved.settlement

-----------------------------------------------------------------------------
\* What the parties to an escrow may do with it.
PartyStep(sender, id) ==
    \/ \E value \in Amounts : Fund(sender, id, value)
    \/ Refund(sender, id)
    \/ \E text \in Texts : \/ RaiseDispute(sender, id, text)
                           \/ SubmitEvidence(sender, id, text)
                           \/ \E ruling \in Rulings :
                                ResolveDispute(sender, id, ruling, text)

Next ==
    \/ \E sender \in Senders, seller, arbiter \in Addresses,
          amount \in Amounts, commitment \in Commitments :
            CreateEscrow(sender, seller, arbiter, amount, commitment)
    \/ \E sender \in Senders, id \in Ids : PartyStep(sender, id)
    \/ \E id \in Ids, nullifier \in Nullifiers : Release(id, nullifier)
    \/ \E sender \in Senders : WithdrawCall(sender)
    \/ \E frame \in frames : WithdrawReturn(frame) \/ WithdrawRevert(frame)

Spec == Init /\ [][Next]_vars
=============================================================================
