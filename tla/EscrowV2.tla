------------------------------ MODULE EscrowV2 ------------------------------
(***************************************************************************)
(* The proxy around the escrow contract, and the recovery implementation   *)
(* of src/EscrowUpgradeableV2.sol.  The owner of the proxy may point it at *)
(* another implementation; V2 adds one function, with which the owner      *)
(* gives a disputed escrow another arbiter.  It exists because an arbiter  *)
(* may be an address without a key, and then nobody can rule.              *)
(*                                                                         *)
(* As the contract inherits from EscrowUpgradeable, the module extends     *)
(* Escrow: every function of V1 stays available under both                 *)
(* implementations, also from inside a payee's callback, and a withdrawal  *)
(* that fails now also undoes what was done to the proxy meanwhile.        *)
(***************************************************************************)
EXTENDS EscrowProperties

VARIABLES
    owner,           \* who may upgrade the proxy and rotate arbiters
    implementation,  \* the implementation the proxy delegates to
    savedProxy       \* owner and implementation to fall back to, for each frame

proxyVars == <<owner, implementation, savedProxy>>
varsV2 == <<vars, proxyVars>>

Implementations == {"V1", "V2"}
ProxyStates == [owner: Addresses, implementation: Implementations]

InitV2 ==
    /\ Init
    /\ owner \in Senders
    /\ implementation = "V1"
    /\ savedProxy = {}

IsOwner(sender) == sender = owner

\* Mutant of ValidArbiter: any address but zero.
ValidArbiterNotZero(id, newArbiter) == newArbiter # ZeroAddress

\* Mutant of ValidArbiter: an arbiter has to be as before, distinct from all
\* three, and yet the escrow must not be in dispute.
ValidArbiterUndisputed(id, newArbiter) ==
    /\ newArbiter \notin {ZeroAddress, escrows[id].buyer, escrows[id].seller}
    /\ InState(id, "Funded")

\* The checks of setArbiter on its arguments.
ValidArbiter(id, newArbiter) ==
    /\ newArbiter \notin {ZeroAddress, escrows[id].buyer, escrows[id].seller}
    /\ InState(id, "Disputed")

\* Mutant of SetArbiter: the rotated escrow starts over as one just created.
SetArbiterReopens(sender, id, newArbiter) ==
    /\ implementation = "V2"
    /\ IsOwner(sender)
    /\ ValidArbiter(id, newArbiter)
    /\ escrows' = [escrows EXCEPT ![id].arbiter = newArbiter, ![id].state = "Created"]
    /\ UNCHANGED <<nextEscrowId, pendingWithdrawals, totalPendingWithdrawals,
                   nullifierUsed, balance, evidence, settlement, frames>>
    /\ UNCHANGED proxyVars

SetArbiter(sender, id, newArbiter) ==
    /\ implementation = "V2"
    /\ IsOwner(sender)
    /\ ValidArbiter(id, newArbiter)
    /\ escrows' = [escrows EXCEPT ![id].arbiter = newArbiter]
    /\ UNCHANGED <<nextEscrowId, pendingWithdrawals, totalPendingWithdrawals,
                   nullifierUsed, balance, evidence, settlement, frames>>
    /\ UNCHANGED proxyVars

\* upgradeToAndCall with _authorizeUpgrade.  The new implementation only has to
\* be one, so the proxy can be moved back from V2 to V1.
UpgradeToAndCall(sender, newImplementation) ==
    /\ IsOwner(sender)
    /\ newImplementation # ZeroAddress
    /\ implementation' = newImplementation
    /\ UNCHANGED <<vars, owner, savedProxy>>

TransferOwnership(sender, newOwner) ==
    /\ IsOwner(sender)
    /\ newOwner # ZeroAddress
    /\ owner' = newOwner
    /\ UNCHANGED <<vars, implementation, savedProxy>>

RenounceOwnership(sender) ==
    /\ IsOwner(sender)
    /\ owner' = ZeroAddress
    /\ UNCHANGED <<vars, implementation, savedProxy>>

-----------------------------------------------------------------------------
(***************************************************************************)
(* The functions inherited from V1.                                        *)
(***************************************************************************)
InheritedStep ==
    /\ \/ \E sender \in Senders, seller, arbiter \in Addresses,
             amount \in Amounts, commitment \in Commitments :
               CreateEscrow(sender, seller, arbiter, amount, commitment)
       \/ \E sender \in Senders, id \in Ids : PartyStep(sender, id)
       \/ \E id \in Ids, nullifier \in Nullifiers : Release(id, nullifier)
    /\ UNCHANGED proxyVars

WithdrawCallV2(sender) ==
    /\ WithdrawCall(sender)
    /\ savedProxy' = {[owner |-> owner, implementation |-> implementation]}
    /\ UNCHANGED <<owner, implementation>>

WithdrawReturnV2(frame) ==
    /\ WithdrawReturn(frame)
    /\ savedProxy' = {}
    /\ UNCHANGED <<owner, implementation>>

WithdrawRevertV2(frame) ==
    /\ WithdrawRevert(frame)
    /\ savedProxy' = {}
    /\ \E saved \in savedProxy : /\ owner' = saved.owner
                                 /\ implementation' = saved.implementation

EndOfCall == \E frame \in frames : WithdrawReturnV2(frame) \/ WithdrawRevertV2(frame)

OwnerStep(sender) ==
    \/ \E id \in Ids, newArbiter \in Addresses : SetArbiter(sender, id, newArbiter)
    \/ \E new \in Implementations \cup {ZeroAddress} : UpgradeToAndCall(sender, new)
    \/ \E newOwner \in Addresses : TransferOwnership(sender, newOwner)
    \/ RenounceOwnership(sender)

NextV2 ==
    \/ InheritedStep
    \/ \E sender \in Senders : WithdrawCallV2(sender) \/ OwnerStep(sender)
    \/ EndOfCall

SpecV2 == InitV2 /\ [][NextV2]_varsV2

-----------------------------------------------------------------------------
(***************************************************************************)
(* Recovery.  Whoever owns the proxy, as in script/RecoveryDrill, sees a   *)
(* stranded dispute through: in transactions of its own it moves the proxy *)
(* to V2 and rotates the arbiter to somebody with a key, and an arbiter    *)
(* with a key rules in the end.  Strong fairness, because others (and the  *)
(* owner itself) may undo a step before the next one is taken.  A call     *)
(* ends, if only because it runs out of gas.                               *)
(***************************************************************************)
UpgradeToV2 ==
    NotEntered /\ \E sender \in Senders : UpgradeToAndCall(sender, "V2")

RotateToKeyed(id) ==
    /\ NotEntered
    /\ \E sender, newArbiter \in Senders : SetArbiter(sender, id, newArbiter)

Rule(id) ==
    /\ NotEntered
    /\ \E sender \in Senders, ruling \in Rulings, text \in Texts :
          ResolveDispute(sender, id, ruling, text)
    /\ UNCHANGED proxyVars

SpecRecovery ==
    /\ InitV2
    /\ [][NextV2]_varsV2
    /\ WF_varsV2(EndOfCall)
    /\ SF_varsV2(UpgradeToV2)
    /\ \A id \in Ids : SF_varsV2(RotateToKeyed(id)) /\ SF_varsV2(Rule(id))

-----------------------------------------------------------------------------
(***************************************************************************)
(* Properties.                                                             *)
(***************************************************************************)
TypeOKV2 ==
    /\ TypeOK
    /\ owner \in Addresses
    /\ implementation \in Implementations
    /\ savedProxy \in SUBSET ProxyStates

\* A dispute is settled in the end, even one whose arbiter has no key, as long
\* as the proxy stays in the hands of owners with a key and they see the recovery
\* through.  It counts only once no failing call can take the ruling back.
DisputesAreSettled ==
    <>[](owner \in Senders) =>
        \A id \in Ids : Committed.escrows[id].state = "Disputed"
                          ~> Committed.escrows[id].state = "Resolved"
=============================================================================
