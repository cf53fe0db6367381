------------------------------ MODULE Custody ------------------------------
(***************************************************************************)
(* What the escrow contract promises, said without any of its books.       *)
(*                                                                         *)
(* Every agreement is one indivisible deposit.  It is absent, agreed on,   *)
(* locked in the vault, owed to one account, or paid to that account, and  *)
(* it only ever moves forward in that order.  It can be owed only to the   *)
(* buyer or the seller it was agreed with.  One transaction may move many  *)
(* deposits, but it pays at most one account, pays that account everything *)
(* it was owed when the transaction began, and pays nothing that was not   *)
(* owed by then.  The ETH in the vault is the deposits locked or owed, and *)
(* what an account can claim is the deposits owed to it, to the wei.       *)
(*                                                                         *)
(* There are no calls inside calls here: a transaction is one step.  That  *)
(* Escrow implements this specification says that nothing a payee does in  *)
(* the middle of a withdrawal can be told from outside from a transaction  *)
(* that did the same things at once.                                       *)
(***************************************************************************)
EXTENDS Integers, Functions

CONSTANTS Ids, Accounts, NoAccount

VARIABLES
    deposits,  \* agreement -> its terms, where its money is and who holds it
    owed,      \* account -> what it can claim
    vault      \* the ETH held

vars == <<deposits, owed, vault>>

\* The places of a deposit in the order it goes through them.
Rank == [absent |-> 0, agreed |-> 1, locked |-> 2, owed |-> 3, paid |-> 4]

Absent == [buyer |-> NoAccount, seller |-> NoAccount, amount |-> 0,
           place |-> "absent", holder |-> NoAccount]

Total(ds, S) == SumFunction([i \in Ids |-> IF i \in S THEN ds[i].amount ELSE 0])

OwedTo(ds, account) == {i \in Ids : ds[i].place = "owed" /\ ds[i].holder = account}

Held(ds) == {i \in Ids : ds[i].place \in {"locked", "owed"}}

\* The two balances are what the deposits are worth.
Reconciled(ds, claims, held) ==
    /\ claims = [a \in Accounts |-> Total(ds, OwedTo(ds, a))]
    /\ held = Total(ds, Held(ds))

Init ==
    /\ deposits = [i \in Ids |-> Absent]
    /\ Reconciled(deposits, owed, vault)

\* What one transaction may make of one deposit.
Moves(from, to) ==
    /\ Rank[to.place] >= Rank[from.place]
    /\ to.place = "paid" => from.place \in {"owed", "paid"}
    /\ to.place = "absent" => to = Absent
    /\ from.place # "absent" => /\ to.buyer = from.buyer
                                /\ to.seller = from.seller
                                /\ to.amount = from.amount
    /\ IF to.place = "owed" /\ from.place # "owed"
       THEN to.holder \in {to.buyer, to.seller}
       ELSE to.holder = from.holder

\* The deposits a transaction pays: all that one account was owed, or none.
Pays(from, to) ==
    LET paid == {i \in Ids : from[i].place = "owed" /\ to[i].place = "paid"}
    IN  paid = {} \/ \E a \in Accounts : paid = OwedTo(from, a)

Advances(from, to) ==
    /\ \A i \in Ids : Moves(from[i], to[i])
    /\ Pays(from, to)

Transaction ==
    /\ Advances(deposits, deposits')
    /\ Reconciled(deposits', owed', vault')

Spec == Init /\ [][Transaction]_vars
=============================================================================
