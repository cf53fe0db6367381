# zk-escrow in TLA+

TLA+ models of the escrow contract, its recovery upgrade, its arbiter agent and
the scripts that drive them; the TLC runs that check them on small instances;
and TLAPS proofs of their safety for instances of any size. `PROJECT.json` lists
the components, the runs, the mutants that show each property can fail, which
definition stands for which lines, the findings, the hazards and the theorems.

## 1. The system

| Part | State it keeps | Operations | Talks to |
| --- | --- | --- | --- |
| Escrow contract, `src/EscrowUpgradeable.sol` | escrow records, credited balances and their total, spent nullifiers, the ETH | create, fund, release, refund, raiseDispute, submitEvidence, resolveDispute, withdraw | the verifier (a view call), the payee of a withdrawal (a call that may call back) |
| Recovery contract, `src/EscrowUpgradeableV2.sol`, and the proxy | owner, implementation | setArbiter, upgradeToAndCall, transferOwnership, renounceOwnership | runs on the contract's storage |
| Delivery circuit and verifier, `circuits/`, `src/Verifier.sol` | none | proves (nullifier, commitment, escrowId) | called by release |
| Agent: poll loop, `agent/internal/{arbiter,chain,executor}` | a cursor in memory, nothing on disk | poll the chain, judge, broadcast a ruling with `cast`, stop on a signal | node, model client, contract |
| Agent: model clients, `agent/internal/ai` | none | complete, parse a decision | the vendor's HTTP interface |
| Agent: start, `agent/main.go`, `agent/internal/{app,config}` | the configuration | load, dial, choose a client, exit | the operator's environment |
| Walkthroughs, `scripts/demo-*.sh` | an escrow id, read before the escrow exists | create, fund, release, withdraw, raise, submit | contract, other users of it |
| Operation, `scripts/run-arbiter.sh`, `script/*.s.sol` | none | start the agent, upgrade, recovery drill | agent, proxy |

What is hard in it, and what has to hold:

* **Contract.** One pot of ETH and one balance per payee serve all escrows, and
  an account may be buyer of one, seller of another and arbiter of a third.
  `withdraw` gives control to the payee in the middle of a transaction; the
  payee may call everything but `withdraw`, and may then fail and undo it all.
  Right means: solvent to the wei at every such point, no credit lost or paid
  twice, settlements only to parties, one proof for one release.
* **Recovery.** The owner changes code and arbiters under live disputes, at any
  moment, possibly from inside a callback. Right means: every invariant of V1
  survives, and a dispute whose arbiter has no key can be settled after all.
* **Agent.** It reads a chain that may be reorganised, from nodes that may lag,
  with calls that fail, in windows of bounded size, and forgets everything when
  it restarts; a ruling may be pending while it, or its successor, decides again;
  a signal may arrive in the middle of a poll. Right means: it rules only on logs
  that stay, skips no block, all disputes are ruled in the end, and it stops.
* **From an answer to a credit.** A ruling is free text in an envelope of the
  vendor's, then a Go struct, then a number on `cast`'s command line, then an
  enum of the contract. Right means: the side the model names is the side
  credited, and nothing is sent that the contract reverts on.
* **Start.** Two vendors, two keys, defaults. Right means: a process that starts
  has what it needs, and one that does not says why.
* **Walkthroughs.** They read `nextEscrowId` and act on it several transactions
  later, while others create escrows, and they take every receipt for success.
  Right means: what a run reports at its end is true of the escrow it names.

## 2. The modules

```
Custody            what the contract promises, without books or callbacks
DisputeRecord      what a dispute promises to whoever reads it off the chain
Escrow             the contract V1
EscrowProperties   its properties; ImplementsCustody and KeepsTheRecord are
                   Escrow => Custody and Escrow => DisputeRecord
EscrowV2           V1 behind its proxy, with the owner and V2
DemoScripts        EXTENDS Escrow: the walkthroughs as its concurrent clients
ModelClient        both model clients, the parser, the numbers of a ruling
Judgement          EXTENDS ModelClient: one dispute from the answer to the credit
DisputeChain       the chain with the disputes of the contract, as the agent sees
                   it through lagging nodes; uses ModelClient
ArbiterAgent       EXTENDS DisputeChain: the agent, and its properties;
                   FinalRecordStands is ArbiterAgent => DisputeRecord
AgentStartup       how the agent's process begins and ends
MC*                instances for TLC

SumTheorems        facts about totals of functions
EscrowProofs       theorems about Escrow;   EscrowV2Proofs  about EscrowV2
CustodyProofs      the refinements of Custody and DisputeRecord, for V1 and V2
AgentProofs, JudgementProofs, StartupProofs, DemoProofs   of the others
```

**Escrow.** The variables have the names of the storage slots. A transaction is
one step and a call that reverts is none, except that `withdraw` is a call step
and then a return or a revert step. Between the two, any action of the
contract but another `WithdrawCall` may happen: that is what the payee, or a
contract it calls, can do (`nonReentrant` guards `withdraw` alone). `frames`
holds the activation and the storage it falls back to. Senders other than the
payee may act in the middle too, since whoever the payee calls is a sender.
Proofs and hashes are free terms: `Delivery` is the statement of the circuit,
and a proof exists exactly if it is true. `evidence` and `settlement` are
history variables filled from what the events say.

**Custody.** Each agreement is one deposit that moves from absent to agreed,
locked, owed and paid, never back, is owed only to a party, and is paid only
together with all else its holder was owed before. One transaction may move many
deposits; there are no calls within calls. The refinement maps the *committed*
storage (while a withdrawal runs, the storage it would fall back to), so it says
that no callback achieves anything that could be told from an atomic transaction.

**DisputeRecord.** A case is quiet, then perhaps settled without a dispute, or
open with evidence and in the end ruled on; evidence is only added, one ruling
for one side closes the record. Two models implement it. The contract does as of
its last committed transaction (`CasesOf(Committed)`): evidence from
`DisputeRaised`, the side ruled for from the beneficiary in `DisputeResolved`,
whom it compares with the parties as they are *now*. The chain of the agent does
up to its final height (`CaseAt(id, final)`), from the logs and rulings in its
blocks. So the agent's model, which leaves out deposits, parties and books, is
tied to the contract's by what both of them promise about disputes.

**EscrowV2.** V1 stays callable under both implementations. `UpgradeToAndCall`
has both directions, since nothing in `_authorizeUpgrade` forbids going back;
`TransferOwnership` and `RenounceOwnership` come from the OpenZeppelin base
contract, which is not in the repository, and are modelled from its interface.

**DemoScripts.** A run is a sequence of commands; `Read` keeps `nextEscrowId` as
it is at that moment, and all later commands act on the number read. A `cast send`
is two steps. `Send` estimates the transaction on the state there is (`Succeeds`)
and broadcasts it; `Mined` executes it (`Effect`) on the state its block finds,
which may be another one by then. If it reverts there it has no effect, `cast`
prints a receipt of status 0 to `/dev/null` and exits 0, and the script goes on. A
run ends at the first command that fails (`set -e`, `Dies`): the estimate
reverts, the node does not answer, or the run is interrupted; a transaction that
was broadcast is mined all the same. `Others` are a visitor, who creates, funds
and disputes escrows of its own with the same seller and arbiter, and the arbiter
agent, who may rule on any dispute at any moment.

**DisputeChain, ArbiterAgent.** The chain is a sequence of blocks with at most
one transaction of interest each; the state of an escrow is what the
transactions on the chain make of it, and so is its arbiter: `Rotate` gives it to
the agent or takes it away, and one that was the agent's and never rotated is
`Entrusted`. While an escrow is not the agent's, the arbiter of record may rule on
it (`RuleOther`).
A `view` is how much of the chain the node
that answers a call has seen; each call may be answered by another one. `Poll` is
split at every call it makes, because the chain moves on in between: choosing the
window (`StartPoll`), the log query (`Fetch`, `FetchFails`), and per dispute
`Skip` or `CheckState`, `Judge`, `Send`, `Receipt` or `SettleFails`; `EndPoll`
moves the cursor. `todo` is the set of disputes of the window not dealt with;
`Current` picks them in the order in which their logs appear, as the slice of
`Disputes` does. `Start`, `Crash`, `Signal` and `Exit` are the life of the
process: after a signal every call fails (`exec.CommandContext`, the context of
the HTTP and RPC calls), and `Run` looks at `ctx.Done` only between two polls.
The agent needs of the contract only when a dispute opens, is handed over and
ends; what the two models have to agree on is `DisputeRecord`.

**ModelClient, Judgement.** An answer is what went wrong on the way, or a sequence
of parts; a text is a form (object, object in white space, prose, blank, empty)
with a ruling and a rationale. Anthropic's client goes by the type of a block,
OpenAI's by whether a choice has a text, which is finding `vendors`. `ArbiterAgent` judges with the same
`Decisions` and sends the same `Args`, so the numbers of the enums are modelled
once and used in both.

**AgentStartup.** An environment gives each variable a class of texts: unset,
malformed, or one that means something. `Load` is the list of its checks in
their order and the first that fails.

## 3. The runs

| Run | Instance | Shows | Distinct states |
| --- | --- | --- | --- |
| `escrow` | 3 accounts in any roles, 2 escrows, amounts 0 to 2, one secret | all invariants of V1, the inductive invariant, refinement of Custody and DisputeRecord | 123,471 |
| `upgrade` | 4 accounts, one without a key, 1 escrow, amounts 0 and 1, V1 and V2 | types, soundness of the storage and of the copy a withdrawal falls back to, settlements only to the parties, Custody and DisputeRecord implemented, whatever the owner does; under the fairness of section 4 a stranded dispute is settled | 11,830 |
| `agent` | 2 escrows (either may be rotated to the agent or away from it), 1 party, 7 blocks, confirmations 2 as in the code, reorganisations of depth 1 and lag 1, 2 failures | rules only on stable logs, cursor leaves no gap, rulings stand | 2,250,486 |
| `agent_fair` | 2 escrows, 8 blocks, lag 2, no failures, fair | disputes are ruled, and before the cursor passes them; the final part of the chain implements DisputeRecord | 231,773 |
| `agent_operated` | 1 escrow rotated to the agent and back, 6 blocks, reorganisations of depth 2, 2 failures, lookback 1 or, set by the operator, 6, fair | disputes are ruled all the same; a process told to stop does, each step bringing it nearer; DisputeRecord implemented | 280,254 |
| `model` | all answers of up to 2 parts, both vendors | no ruling is refused on chain, the side named is credited, good answers count | 20,642 |
| `startup` | all 3,600 environments | no request without its key, the other key is irrelevant, exit codes name the cause | 7,920 |
| `demo` | 2 runs of either script, 3 escrows, a visitor and the arbiter | Act I ends paid on its proof; Act II with a dispute, and short of the seller's evidence only if the arbiter has ruled | 1,511,980 |
| `agent_drops`, `agent_evidence`, `vendors`, `demo_stage` | smallest that shows it (`vendors`: as `model`) | findings, section 6 | |

Why the bounds are enough. Two escrows are what it takes for one to interfere
with another through shared balances, shared commitments or shared accounts, and
three accounts are what one escrow needs; with three, every combination of roles
across two escrows occurs. Amount 0 is there for the zero checks, 1 and 2 to tell
two deposits apart. The nullifier set, the books and a running withdrawal all
interact within two escrows. `upgrade` adds an account that can sign nothing, and so has four, the fewest with
which an arbiter can be replaced by another; a rotation inside the withdrawal of
another escrow would take two escrows with them, which is more than TLC gets
through and is left to the theorems `SoundnessHoldsV2`,
`CustodyImplementedV2` and `RecordKeptV2`.
One running withdrawal is the maximum the reentrancy guard admits. In
the agent's runs the confirmations are the real 2 where reorganisations or lag
matter; `agent` divides them between a reorganisation and a lagging node,
`agent_fair` gives them all to the lag and `agent_operated` all to the
reorganisations. The window (500 in the code) is 2 blocks so that logs fall on
both sides of its end; the lookback (5000) is 1 or 2 where a cold start must cut
the chain and 6 where it must reach back to the beginning. `MaxFaults` 2 lets a
failure meet a reorganisation, a crash or a signal. Rulings always find room on
the bounded chain (`AgentAssumption`). Two parts of an answer are what it takes
for the first to differ from the one that is used. Two walkthroughs and a visitor
can each take the id another has read; three escrows leave one for each. The
theorems of section 5 hold without any of these bounds.

`CHECK_DEADLOCK FALSE` is in every configuration because every instance ends:
when all escrows of the bound are settled and paid, the chain has its full
length, or the process or the script is done.

Symmetry: the accounts of `escrow`, and the runs of the walkthroughs, are
interchangeable. The other runs do without it, those with liveness properties
because it would not be sound there.

## 4. Fairness

* `SpecRecovery`: a call ends (weak; gas is finite). Whoever owns the proxy, in
  transactions of its own, upgrades to V2 and rotates to an arbiter with a key,
  and an arbiter with a key rules (strong, because the proxy may be moved back or
  the arbiter changed meanwhile). These are assumptions about people: they are the
  steps `script/RecoveryDrill.s.sol` takes, not something the contract enforces.
  The safety properties of the run do not need them, and the owner may still hand
  the proxy to anybody or renounce it: `DisputesAreSettled` speaks of the behaviours
  in which the owner is, from some point on, always an account with a key.
* `ArbiterAgent!Fairness`: weak fairness of starting a process that is down, of
  the agent's own steps (the ticker of `Run` fires every 15 s and each call
  returns: the model clients have timeouts, `cast` and the node answer), of a call
  failing once the context is cancelled, of blocks being produced, and of a
  broadcast transaction being mined. `OperatedSpec` adds an operator who stops
  the agent when it has left a dispute behind (weak) and, again and again, starts
  it with a lookback that is set (strong), as the README of the repository tells
  the operator to. Failures are finitely many.

## 5. The proofs

**The contract.** `EscrowProofs` proves, for all accounts, amounts, secrets and
numbers of escrows, that the contract keeps `TypeOK`, `Solvency`,
`TotalMatchesCredits`, `EntitlementsKept`, `SettledToAParty`, `ProofsSpentOnce`,
`ReleaseStaysOpen` and `EvidenceOnRecord`. They are proved together, as none is
inductive by itself:

* the inductive invariant is `Soundness`: types, `Sound(CurrentStorage)`, and
  `Sound(f.saved)` for the copy of a running withdrawal. Without the last part
  `WithdrawRevert` could restore anything. `EvidenceInvariant` does the same for
  the statements on record.
* `Sound` adds `Blank` (ids not handed out have no record, so that creating one
  overwrites nothing) and `DistinctRoles` (parties are real accounts, so that a
  credit lands in the books; the arbiter is neither of them).
* `SettlesToParties` includes that an unsettled escrow has settled nothing,
  without which a settlement could add to what another had left unpaid.

The step cases are lemmas of a few kinds: a new escrow (`CreateSound`), moves that
settle nothing (`OpenMoveKeeps`, used for fund and raise), settlements
(`SettlementBooks`, used for release, refund and resolve: a deposit stops being
locked and becomes a claim), and the steps of a withdrawal
(`WithdrawCallSound`, where the balances turn out never to be subtracted below
zero). `EscrowV2Proofs` adds `setArbiter` and concludes the same for V1 and V2
with any conduct of the owner.

**The refinement.** `CustodyProofs` proves that V1 and V2 implement Custody.
First `Reconciliation`: the credits by payee are the deposits by holder and the
ETH is the deposits not yet paid, which `SumExchange` gets from `Sound` by adding
up the same deposits by escrow instead of by payee. Then every function moves
deposits forward only (`AllForward`), and while a withdrawal runs `Pending(f)`
says that what has happened since it began is one transaction of Custody that pays
exactly what its payee was owed then. Its end commits all of that, or nothing.

It proves the same of DisputeRecord. A sound storage with `EvidenceRight` tells a
coherent story of every dispute (`StorageCoherent`): exactly one side has won a
resolved one, because the payee is a party and the two parties differ, which is
also why no rotation can change the winner afterwards. Each function only takes
disputes onward (`Onward`); `Leads` is transitive (`LeadsOn`), so all that happens
in the course of a withdrawal adds up to one transaction of DisputeRecord, and
`RecordInv` keeps that sum for the withdrawal's end, or its undoing.

**The agent.** `AgentProofs` proves `NeverRulesOnReorgedLog`,
`CursorMissesNothing` and `RulingsStand` for any number of escrows and blocks, any
confirmations, window and lookbacks, as long as reorganisations and lag stay
within the confirmations together. The inductive invariant is about one height,
`final`, up to which the chain never changes: windows, evidence and cursor are
below it (`StaysBelowFinal`, `EvidenceStays`), a window that is being settled was
read in full (`WindowSeen`), and pending rulings are ones a model has made
(`RulingsJustified`), also those of processes that are gone. A ruling that was the
agent's to make is told from another arbiter's by who was the arbiter below it
(`RuledByAgent`), which neither new blocks nor reorganisations above it change. It
also holds with the operator of `OperatedSpec`.

A second invariant, `ProgressInvariant`, is inductive together with the first:

* `LegalChain`: every transaction on the chain is one the contract accepted after
  those below it; reorganisations keep that, since a prefix of a legal chain is
  legal. From it follows that any prefix tells a coherent story of each dispute
  (`CaseCoherent`) and that a longer prefix goes on from a shorter one
  (`ViewsLead`). Hence `FinalRecordStands` (a step of the chain moves `final` up
  and leaves what is below), and `ReplicasAgree`: what a lagging node answers is
  old, but never at odds with the chain.
* `TodoGrouped`: the disputes of a poll are finitely many and share no log, so
  one of them is `Current` and no other is settled by mistake.
* `DealsWithAll`: without failures every dispute in the window is resolved or still
  on the list, and the ruling that `cast` waits for is pending or executed. The
  hard cases are a lagging node's state and gas estimate (`FoundIsDisputed`: the
  logs of the window are below every view, so each node knows the dispute, and
  what it says is resolved is) and a receipt (`PendingStays`: a pending ruling
  leaves the mempool only by being executed, or after another was).
* `NothingLeftBehind` then follows at `EndPoll`. It excludes escrows that were
  rotated: behind the cursor an appointment leaves no log, which is what
  `RestartsRecover` is for. Failures do leave disputes behind: that is
  finding `agent_drops`, and why the statement says `faults = 0`.

`ShutdownHolds` and `ShutdownBounded` are the part of `StopsWhenAsked` that needs
no fairness: `StepsLeft` is a natural number that every step of a cancelled process
lowers.

**The rest.** `JudgementProofs`: each stage of `settle` is what the clients and the
parser make of the stage before (`Settled`), for answers of any number of parts.
`StartupProofs`: the seven ordered checks of `Load` amount to `Usable`, which knows
neither order nor errors.

**The walkthroughs.** `DemoProofs` is about any number of runs and escrows. No step
of anybody takes back what a run has achieved (`Steady`), and `Achieved` says what
that is after each command, also if the transaction had no effect: a `release` that
reverts when mined found its escrow released, by a proof with the same
nullifier, or disputed; a `submitEvidence` that does found it ruled on. `Launched`
is what the estimate found and is still so in the block, `World` what all escrows
have in common because all who create them are known, and `Disputants` that
only a run of Act II can have disputed an escrow of the demo's buyer. A `withdraw`
that reverts when mined found nothing to withdraw, so the credit of the run's
escrow has been pulled before (`NothingToWithdraw`, from `EntitlementsKept`).

`SumTheorems` proves what is needed of `SumFunction`: it is additive, follows the
change of one entry, is zero for zeros, bounds every entry, and a double sum may
be exchanged. It shows that the fold is a measure on the subsets of the domain, by
minimal counterexample, since induction theorems with operator parameters are out
of the provers' reach.

Assumptions: `AccountsAssumption` (finitely many accounts, zero is none of them),
`AmountsAssumption`, `MaxEscrowsAssumption`; `ChainAssumption` and
`AgentAssumption` (types and bounds, and `ReorgDepth + MaxLag <=
BlockConfirmations`: the confirmations are chosen deep enough);
`RolesAssumption`; `LookbackAssumption` and `TextsAssumption` (classes of texts
are distinct); `MaxPartsAssumption`. Each is evaluated in the runs.

Every safety property, action property and refinement is proved. Model-checked
only: the liveness properties `DisputesAreSettled`, `DisputesGetRuled`, `RestartsRecover`
and `StopsWhenAsked`, since fairness and ENABLED are beyond tlapm.

## 6. Findings

* `agent_drops`: `Poll` does not settle "every dispute it finds"
  (`arbiter.go:99`): after one failed call the cursor passes the dispute by, and
  only new evidence or a restart brings it back.
* `agent_evidence`: the agent does not gather "every submission for the escrow"
  (`README.md:290`): it rules on the submissions of one window, even if
  further ones are already confirmed in the next.
* `vendors`: a ruling does depend on the vendor (`constants.go:129-131`,
  `README.md:315-317`). Anthropic's client takes the first text block even if it is
  empty, and the dispute is dropped with `ErrEmptyDecision` (`ai.go:168-173`);
  OpenAI's passes over empty choices (`openai.go:115-120`). `VendorsAgree` asks only
  for the same texts to lead to the same ruling or to none.
* `demo_stage`: "evidence from both sides" (`demo-dispute.sh:110`) may be announced
  with the buyer's alone on record. The arbiter's ruling is mined between the
  estimate and the block of the seller's `submitEvidence`, which reverts; nothing in
  the script looks at the receipt, the state or the evidence. `StageUnlessRuled` is
  what holds, and says that there is no other way to get there.

Observations no run is needed for. The comments at `EscrowUpgradeable.sol:208` and
`:440` equate the credited balances with the contract's ETH, which leaves out the
deposits still in escrow; `Solvency` is what holds. `DefaultEscrowAddress`
(`constants.go:49-51`) is described as the deployed proxy and is the zero address;
an agent started without `ESCROW_ADDRESS` polls it without an error
(`run-arbiter.sh` refuses to). And `demo-happy-path.sh:60-79` may announce, fund
and release an escrow that somebody else created in between; the `demo` run and
`ActOneHolds` say what is true all the same. If that is a run of Act II with the
same number, its dispute may come between the estimate and the block of `release`,
and Act I completes without having settled anything; `ActOneSettles` allows
exactly this.

## 7. Not modelled, and why

* Events beyond what `evidence` and `settlement` record, error arguments, wording,
  logging, HTTP headers and JSON syntax: no property is about them.
* ETH forced into the contract: no code reads the balance, so nothing depends on
  it; `Solvency` would become an inequality.
* uint256 overflow: every credit is backed by ETH paid in, so no sum gets near it.
* The Groth16 pairing and the trusted setup: cryptography. The range checks of
  public signals (`Verifier.sol:70`): an escrow leaves Funded once, so an aliased
  nullifier releases nothing more.
* A deadline for a funded escrow: the contract has none, so a deposit whose
  parties do nothing stays where it is.
* A window that the node refuses for good, and calls that never return: the code
  does nothing about them, and fairness assumes them away. Only
  `StopsWhenAsked` covers the way out.
* In `DisputeChain`, a rotation between two arbiters neither of which is the agent
  (a block like any other), and transactions of others that are sent again after a
  reorganisation other than as new ones. A second transaction of interest in one
  block; two agents at the same time,
  other than an old one's pending rulings.
* `deploy.sh` (a deployment that happens once) and the gas the walkthroughs send to
  the seller.
* Building, recorded deployments, audit logs, test harnesses; the invariants of
  `test/Properties.sol` are among those of `EscrowProperties`.
