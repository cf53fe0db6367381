---------------------------- MODULE DisputeChain ----------------------------
(***************************************************************************)
(* The chain as the arbiter agent sees it: a sequence of blocks that grows *)
(* at one end and may be reorganised there, with the transactions of the   *)
(* escrow contract that make or end a dispute.  An escrow is funded before *)
(* the chain begins, and its state is whatever the transactions on the     *)
(* chain make of it; Escrow.tla has the contract in full.                  *)
(*                                                                         *)
(* A block holds one such transaction or none.                             *)
(*                                                                         *)
(* An endpoint may be several nodes, and each answer come from another of  *)
(* them; a node knows the chain up to some height, its view.               *)
(***************************************************************************)
EXTENDS Integers, Sequences, FiniteSets, FiniteSetsExt

CONSTANTS
    Ids,         \* escrows, all of them funded
    Assigned,    \* those whose arbiter is the agent from the start
    Parties,     \* buyer and seller
    MaxBlocks,   \* bound: the length of the chain
    UserBlocks,  \* bound: the parties and the owner act up to this height
    ReorgDepth,  \* no reorganisation goes deeper than this
    MaxLag,      \* no node is further behind the chain than this
    MaxFaults    \* bound: failures of the network and of processes

ASSUME ChainAssumption ==
    /\ IsFiniteSet(Ids)
    /\ Assigned \subseteq Ids
    /\ {MaxBlocks, UserBlocks, ReorgDepth, MaxLag, MaxFaults} \subseteq Nat

VARIABLES
    chain,    \* the canonical chain, block 1 first
    final,    \* the blocks up to this height never change again
    mempool,  \* rulings the agent has broadcast and that are not yet mined
    faults    \* failures so far

chainVars == <<chain, final, mempool, faults>>

\* How a decision of a model becomes the arguments of a transaction.
Model == INSTANCE ModelClient WITH MaxParts <- 1

\* Rulings as they are broadcast.
Transactions == {Model!Args(id, d) : id \in Ids, d \in Model!Decisions}

NoLog == [kind |-> "none"]
Blocks == {NoLog} \cup [kind: {"raise", "submit"}, id: Ids, by: Parties]
          \cup [kind: {"rotate"}, id: Ids, toAgent: BOOLEAN]
          \cup {[kind |-> "ruling", id |-> tx.id, tx |-> tx] : tx \in Transactions}

InitChain ==
    /\ chain = <<>>
    /\ final = 0
    /\ mempool = {}
    /\ faults = 0

Fault == faults < MaxFaults /\ faults' = faults + 1

-----------------------------------------------------------------------------
Views == Max({0, Len(chain) - MaxLag}) .. Len(chain)

OnChain(kind, id, view) ==
    \E h \in 1 .. view : chain[h].kind = kind /\ chain[h].id = id

\* enum State, counted from 0.
StateEnum == <<"None", "Created", "Funded", "Released", "Refunded", "Disputed", "Resolved">>

StateAt(id, view) == CASE OnChain("ruling", id, view) -> "Resolved"
                       [] ~OnChain("ruling", id, view) /\ OnChain("raise", id, view) -> "Disputed"
                       [] OTHER -> "Funded"

StateOf(id) == StateAt(id, Len(chain))

\* What getState returns: a number.
GetState(id, view) == CHOOSE n \in 0 .. 6 : StateEnum[n + 1] = StateAt(id, view)

\* The agent is the arbiter of an escrow from the start or by the last rotation.
AgentIsArbiterAt(id, view) ==
    \/ id \in Assigned /\ ~OnChain("rotate", id, view)
    \/ LET rotations == {h \in 1 .. view : chain[h].kind = "rotate" /\ chain[h].id = id}
       IN  \E h \in rotations : chain[h].toAgent /\ \A g \in rotations : g <= h

AgentIsArbiter(id) == AgentIsArbiterAt(id, Len(chain))

\* The ruling in a block is the agent's if it was the arbiter at that point.
RuledByAgent(h) == chain[h].kind = "ruling" /\ AgentIsArbiterAt(chain[h].id, h - 1)

\* It has been the arbiter all along.
Entrusted(id) == id \in Assigned /\ ~OnChain("rotate", id, Len(chain))

\* Both raiseDispute and submitEvidence emit DisputeRaised.
IsDisputeRaised(block) == block.kind \in {"raise", "submit"}

\* Mutant of Accepts: the state of the escrow is not looked at.
AcceptsTwice(tx, view) == AgentIsArbiterAt(tx.id, view) /\ Model!WellFormed(tx)

\* resolveDispute goes through.
Accepts(tx, view) ==
    /\ StateAt(tx.id, view) = "Disputed"
    /\ AgentIsArbiterAt(tx.id, view)
    /\ Model!WellFormed(tx)

Mine(block) ==
    /\ chain' = Append(chain, block)
    /\ final' = Max({final, Len(chain) + 1 - ReorgDepth})

\* A block the agent has no use for.  Room is left for the rulings.
MineOther ==
    /\ Len(chain) + Cardinality(Ids) < MaxBlocks
    /\ Mine(NoLog)
    /\ UNCHANGED <<mempool, faults>>

RaiseDispute(id, by) ==
    /\ Len(chain) < UserBlocks
    /\ StateOf(id) = "Funded"
    /\ Mine([kind |-> "raise", id |-> id, by |-> by])
    /\ UNCHANGED <<mempool, faults>>

\* Mutant of SubmitEvidence: evidence is taken before there is a dispute.
SubmitEvidenceEarly(id, by) ==
    /\ Len(chain) < UserBlocks
    /\ StateOf(id) \in {"Funded", "Disputed"}
    /\ Mine([kind |-> "submit", id |-> id, by |-> by])
    /\ UNCHANGED <<mempool, faults>>

SubmitEvidence(id, by) ==
    /\ Len(chain) < UserBlocks
    /\ StateOf(id) = "Disputed"
    /\ Mine([kind |-> "submit", id |-> id, by |-> by])
    /\ UNCHANGED <<mempool, faults>>

\* setArbiter gives the escrow to the agent or takes it away; the rotation emits
\* no DisputeRaised.  One between two other arbiters is a MineOther.
Rotate(id) ==
    /\ Len(chain) < UserBlocks
    /\ StateOf(id) = "Disputed"
    /\ Mine([kind |-> "rotate", id |-> id, toAgent |-> ~AgentIsArbiter(id)])
    /\ UNCHANGED <<mempool, faults>>

\* Another arbiter of record rules.
RuleOther(id) ==
    /\ Len(chain) < UserBlocks
    /\ StateOf(id) = "Disputed"
    /\ ~AgentIsArbiter(id)
    /\ \E decision \in Model!Decisions :
         LET tx == Model!Args(id, decision)
         IN  Mine([kind |-> "ruling", id |-> id, tx |-> tx])
    /\ UNCHANGED <<mempool, faults>>

\* A broadcast ruling is executed.  If it reverts it leaves no log.
MineRuling(tx) ==
    /\ tx \in mempool
    /\ mempool' = mempool \ {tx}
    /\ IF Accepts(tx, Len(chain))
       THEN /\ Len(chain) < MaxBlocks
            /\ Mine([kind |-> "ruling", id |-> tx.id, tx |-> tx])
       ELSE UNCHANGED <<chain, final>>
    /\ UNCHANGED faults

\* The newest blocks are replaced.  What the others sent in them is gone
\* unless they send it again; the rulings of the agent in them may or may not
\* be pending once more.
Reorg(height) ==
    LET dropped == (height + 1) .. Len(chain)
        rulings == {chain[h].tx : h \in {g \in dropped : RuledByAgent(g)}}
    IN  /\ height \in final .. (Len(chain) - 1)
        /\ Fault
        /\ chain' = SubSeq(chain, 1, height)
        /\ \E kept \in SUBSET rulings : mempool' = mempool \cup kept
        /\ UNCHANGED final

UserStep ==
    \E id \in Ids : \/ Rotate(id) \/ RuleOther(id)
                    \/ \E by \in Parties : RaiseDispute(id, by) \/ SubmitEvidence(id, by)
=============================================================================
