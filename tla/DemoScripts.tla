---------------------------- MODULE DemoScripts -----------------------------
(***************************************************************************)
(* The walkthroughs scripts/demo-happy-path.sh and scripts/demo-dispute.sh *)
(* as clients of the contract.  All runs act as the same three DEMO_*      *)
(* roles; a run sends one transaction after the other, reads the id of its *)
(* escrow before it creates it, and ends at the first command that fails   *)
(* (set -e).  Other runs, a visitor who creates, funds and disputes        *)
(* escrows of its own, and the arbiter agent use the contract meanwhile.   *)
(*                                                                         *)
(* A cast send is two steps.  It estimates the transaction on the state    *)
(* there is, and fails if that reverts; then the transaction waits for its *)
(* block, and others come first.  If it reverts there it has no effect,    *)
(* and cast prints a receipt that says so and succeeds: the scripts send   *)
(* the receipt to /dev/null.                                               *)
(*                                                                         *)
(* All of them are plain accounts: nothing runs while one is paid.         *)
(***************************************************************************)
EXTENDS Escrow, Sequences

CONSTANTS
    Runs,                            \* processes
    Buyer, Seller, Arbiter, Visitor, \* accounts
    Amount,                          \* AMOUNT_WEI
    Secret                           \* SECRET

ASSUME RolesAssumption ==
    /\ {Buyer, Seller, Arbiter, Visitor} \subseteq Senders
    /\ Visitor \notin {Buyer, Seller, Arbiter}
    /\ Amount \in Amounts \ {0}
    /\ Secret \in Secrets

VARIABLES
    script,  \* which of the two a run is
    done,    \* how many of its commands have succeeded
    died,    \* the runs that have ended early
    sent,    \* the runs whose transaction is on its way into a block
    nextId   \* NEXT_ID, later ESCROW_ID

scriptVars == <<script, done, died, sent, nextId>>

Scripts == {"happy-path", "dispute"}
Commands(name) ==
    IF name = "happy-path" THEN <<"read", "create", "fund", "release", "withdraw">>
                           ELSE <<"read", "create", "fund", "raise", "submit">>

Finished(run) == done[run] = Len(Commands(script[run]))
Running(run) == run \notin died \cup sent /\ ~Finished(run) /\ NotEntered
Command(run) == Commands(script[run])[done[run] + 1]

\* Act II's commitment is the hash of something that is no secret.
CommitmentOf(run) == IF script[run] = "happy-path" THEN Poseidon1(Secret) ELSE ZeroWord

InitDemo ==
    /\ Init
    /\ script \in [Runs -> Scripts]
    /\ done = [run \in Runs |-> 0]
    /\ died = {}
    /\ sent = {}
    /\ nextId = [run \in Runs |-> 0]

Read(run) ==
    /\ Running(run)
    /\ Command(run) = "read"
    /\ nextId' = [nextId EXCEPT ![run] = nextEscrowId]
    /\ done' = [done EXCEPT ![run] = @ + 1]
    /\ UNCHANGED <<vars, script, died, sent>>

\* Whether the transaction of a run would go through, were it executed now.
\* createEscrow asks nothing of the state.
Succeeds(run) ==
    LET id == nextId[run]
    IN  \/ Command(run) = "create"
        \/ /\ Command(run) = "fund"
           /\ InState(id, "Created")
           /\ Buyer = escrows[id].buyer
           /\ Amount = escrows[id].amount
        \/ /\ Command(run) = "release"
           /\ InState(id, "Funded")
           /\ Poseidon2(Secret, id) \notin nullifierUsed
           /\ Delivery(Poseidon2(Secret, id), escrows[id].commitment, id)
        \/ Command(run) = "withdraw" /\ pendingWithdrawals[Seller] # 0
        \/ Command(run) = "raise"    /\ InState(id, "Funded") /\ IsParty(Buyer, id)
        \/ Command(run) = "submit"   /\ InState(id, "Disputed") /\ IsParty(Seller, id)

\* What it does to the escrow the run believes to have created.
Effect(run) ==
    LET id == nextId[run]
    IN  \/ /\ Command(run) = "create"
           /\ CreateEscrow(Buyer, Seller, Arbiter, Amount, CommitmentOf(run))
        \/ Command(run) = "fund"     /\ Fund(Buyer, id, Amount)
        \/ Command(run) = "release"  /\ Release(id, Poseidon2(Secret, id))
        \/ Command(run) = "withdraw" /\ WithdrawCall(Seller)
        \/ Command(run) = "raise"    /\ RaiseDispute(Buyer, id, "statement")
        \/ Command(run) = "submit"   /\ SubmitEvidence(Seller, id, "statement")

\* cast estimates the transaction and broadcasts it.
Send(run) ==
    /\ Running(run)
    /\ Command(run) # "read"
    /\ Succeeds(run)
    /\ sent' = sent \cup {run}
    /\ UNCHANGED <<vars, script, done, died, nextId>>

\* It is in a block.  A script that has not ended takes the receipt for success,
\* whatever its status.
Mined(run) ==
    /\ run \in sent
    /\ NotEntered
    /\ \/ Effect(run)
       \/ ~Succeeds(run) /\ UNCHANGED vars
    /\ sent' = sent \ {run}
    /\ done' = IF run \in died THEN done ELSE [done EXCEPT ![run] = @ + 1]
    /\ UNCHANGED <<script, died, nextId>>

\* Mutant of Dies: without set -e.
DiesNot(run) ==
    /\ Running(run)
    /\ done' = [done EXCEPT ![run] = @ + 1]
    /\ UNCHANGED <<vars, script, died, sent, nextId>>

\* A command fails: its estimate reverts, the node does not answer, or the
\* operator interrupts it.  What was broadcast may be mined all the same.
Dies(run) ==
    /\ run \notin died
    /\ ~Finished(run)
    /\ died' = died \cup {run}
    /\ UNCHANGED <<vars, script, done, sent, nextId>>

Paid == (\E frame \in frames : WithdrawReturn(frame)) /\ UNCHANGED scriptVars

Others ==
    /\ NotEntered
    /\ \/ \E commitment \in Commitments :
            CreateEscrow(Visitor, Seller, Arbiter, Amount, commitment)
       \/ \E id \in Ids : Fund(Visitor, id, Amount) \/ RaiseDispute(Visitor, id, "statement")
       \/ \E id \in Ids, ruling \in Rulings :
            ResolveDispute(Arbiter, id, ruling, "statement")
    /\ UNCHANGED scriptVars

NextDemo ==
    \/ \E run \in Runs : Read(run) \/ Send(run) \/ Mined(run) \/ Dies(run)
    \/ Paid \/ Others

SpecDemo == InitDemo /\ [][NextDemo]_<<vars, scriptVars>>

-----------------------------------------------------------------------------
(***************************************************************************)
(* Properties.                                                             *)
(***************************************************************************)

\* "ACT I complete -- escrow #N settled on a zero-knowledge proof": whatever
\* happened between its commands, and between the estimates of its transactions
\* and their blocks, a run that says so has had the deposit of the escrow it names
\* released by its own proof and pulled by the seller, also if it is not the
\* escrow it created.  Only a run of Act II that names the same escrow can have
\* disputed it first.
SettledOnProof(id) ==
    /\ escrows[id].state = "Released"
    /\ Poseidon2(Secret, id) \in nullifierUsed
    /\ settlement[id] = [payee |-> Seller, withdrawn |-> TRUE]

ActOneSettles ==
    \A run \in Runs : script[run] = "happy-path" /\ Finished(run) =>
        \/ SettledOnProof(nextId[run])
        \/ /\ escrows[nextId[run]].state \in {"Disputed", "Resolved"}
           /\ \E other \in Runs : script[other] = "dispute" /\ nextId[other] = nextId[run]

\* A run of Act II that reaches its end has a dispute with the buyer's statement
\* before the demo's arbiter, and with the seller's, unless the arbiter has ruled:
\* that is the only way to the end without evidence from both sides.
StageUnlessRuled ==
    \A run \in Runs : script[run] = "dispute" /\ Finished(run) =>
        /\ escrows[nextId[run]].state \in {"Disputed", "Resolved"}
        /\ escrows[nextId[run]].arbiter = Arbiter
        /\ Buyer \in evidence[nextId[run]]
        /\ evidence[nextId[run]] = {Buyer, Seller} \/ escrows[nextId[run]].state = "Resolved"

\* scripts/demo-dispute.sh: "The stage is set.  Escrow #N is Disputed, with
\* evidence from both sides."
StageIsSet ==
    \A run \in Runs : script[run] = "dispute" /\ Finished(run) =>
        evidence[nextId[run]] = {Buyer, Seller}
=============================================================================
