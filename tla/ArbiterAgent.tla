---------------------------- MODULE ArbiterAgent ----------------------------
(***************************************************************************)
(* The arbiter agent of agent/: a process that polls the chain for         *)
(* DisputeRaised logs, has a model rule on them and broadcasts the ruling. *)
(* It keeps nothing on disk; its only memory is the cursor nextBlock.      *)
(*                                                                         *)
(* Poll is many steps, one for each call it makes to the node, to the      *)
(* model and to cast, for the chain goes on between any two of them, and   *)
(* each answer of the node may come from another replica.  Each of these   *)
(* calls may fail, and the process may crash or be told to stop at any     *)
(* moment; every failure and every signal takes one of MaxFaults.  After a *)
(* signal every call fails.  A head query that fails changes nothing and   *)
(* is no step.                                                             *)
(***************************************************************************)
EXTENDS DisputeChain

CONSTANTS
    BlockConfirmations,   \* how far behind head the agent stops scanning
    BlockRangeChunkSize,  \* how many blocks one poll scans at most
    StartBlockLookback,   \* how far behind that a cold start begins
    Lookbacks             \* what the operator may set instead

\* The last two conjuncts are about the bounds: reorganisations and lagging
\* replicas stay within the confirmations, and the parties stop early enough
\* for their logs to become stable and be ruled on.
ASSUME AgentAssumption ==
    /\ {BlockConfirmations, BlockRangeChunkSize, StartBlockLookback} \subseteq Nat \ {0}
    /\ Lookbacks \subseteq Nat \ {0}
    /\ ReorgDepth + MaxLag <= BlockConfirmations
    /\ UserBlocks + BlockConfirmations + Cardinality(Ids) <= MaxBlocks

VARIABLES
    lookback,   \* what the process was started with, 0 if nothing was set
    cancelled,  \* it has been told to stop
    nextBlock,  \* first block of the next window, 0 if not chosen yet
    phase,      \* where Poll is; "down" if there is no process
    window,     \* the blocks it scans, and the last stable one when it began
    todo,       \* disputes found and not yet dealt with
    decision,   \* the model's ruling on the current one
    seen,       \* history: the logs this process has been given, and its start
    rulings     \* history: what was broadcast, and on which evidence

processVars == <<lookback, cancelled>>
agentVars == <<processVars, nextBlock, phase, window, todo, decision, seen, rulings>>
vars == <<chainVars, agentVars>>

Submissions == [id: Ids, by: Parties, block: 1 .. MaxBlocks]
Disputes == [id: Ids, submissions: SUBSET Submissions]
Heights == 0 .. MaxBlocks
NoWindow == [from |-> 1, to |-> 0, safe |-> 0]
NothingSeen == [from |-> 0, logs |-> {}]
NoDecision == Model!NoDecision("none")

\* Mutant of StateDisputed: the states are counted from one too early.
StateDisputedOff == 4

\* config.StateDisputed.
StateDisputed == 5

Init ==
    /\ InitChain
    /\ lookback = 0
    /\ cancelled = FALSE
    /\ nextBlock = 0
    /\ phase = "down"
    /\ window = NoWindow
    /\ todo = {}
    /\ decision = NoDecision
    /\ seen = NothingSeen
    /\ rulings = {}

\* A call of the agent goes through.
Running(where) == phase = where /\ ~cancelled
\* Or it fails, as any call does once the process is to stop.
Failing == IF cancelled THEN UNCHANGED faults ELSE Fault

-----------------------------------------------------------------------------
(***************************************************************************)
(* Poll.                                                                   *)
(***************************************************************************)

\* Mutant of SafeBlock: the newest block counts as stable.
SafeBlockHead(head) == head

\* Logs above this block may still be reorganised away.
SafeBlock(head) == head - BlockConfirmations

\* Mutants of ColdStart: a fresh agent begins with what happens from now on;
\* the subtraction runs below the first block.
ColdStartNow(safe) == safe
ColdStartBelow(safe) == safe - StartBlockLookback

ColdStart(safe) ==
    LET back == IF lookback = 0 THEN StartBlockLookback ELSE lookback
    IN  IF safe > back THEN safe - back ELSE 1

WindowEnd(from, safe) == Min({from + BlockRangeChunkSize - 1, safe})

\* A tick: choose the window.  Nothing happens if no block is new and stable.
StartPoll(head) ==
    LET safe == SafeBlock(head)
        from == IF nextBlock = 0 THEN ColdStart(safe) ELSE nextBlock
    IN  /\ Running("idle")
        /\ safe > 0
        /\ from <= safe
        /\ nextBlock' = from
        /\ seen' = IF nextBlock = 0 THEN [from |-> from, logs |-> {}] ELSE seen
        /\ window' = [from |-> from, to |-> WindowEnd(from, safe), safe |-> safe]
        /\ phase' = "fetch"
        /\ UNCHANGED <<chainVars, processVars, todo, decision, rulings>>

LogsIn(from, to) ==
    {h \in from .. to : h \in DOMAIN chain /\ IsDisputeRaised(chain[h])}

SubmissionAt(h) == [id |-> chain[h].id, by |-> chain[h].by, block |-> h]

SubmissionsFor(id, from, to) ==
    {SubmissionAt(h) : h \in {g \in LogsIn(from, to) : chain[g].id = id}}

\* The logs of a window grouped by escrow.
DisputesIn(from, to) ==
    {[id |-> id, submissions |-> SubmissionsFor(id, from, to)] :
       id \in {chain[h].id : h \in LogsIn(from, to)}}

\* A replica that has not seen the end of the window yet serves the part of it
\* that it has.
Fetch(view) ==
    LET to == Min({window.to, view})
    IN  /\ Running("fetch")
        /\ todo' = DisputesIn(window.from, to)
        /\ seen' = [seen EXCEPT !.logs =
                      @ \cup {SubmissionAt(h) : h \in LogsIn(window.from, to)}]
        /\ phase' = "settle"
        /\ UNCHANGED <<chainVars, processVars, nextBlock, window, decision, rulings>>

\* Mutant of FetchFails: the cursor moves on as after a success.
FetchFailsForward ==
    /\ phase = "fetch"
    /\ Failing
    /\ phase' = "settle"
    /\ UNCHANGED <<chain, final, mempool, processVars, nextBlock, window, todo,
                   decision, seen, rulings>>

\* The next poll will scan from the same block.
FetchFails ==
    /\ phase = "fetch"
    /\ Failing
    /\ phase' = "idle"
    /\ window' = NoWindow
    /\ UNCHANGED <<chain, final, mempool, processVars, nextBlock, todo, decision,
                   seen, rulings>>

\* Mutant of EndPoll: the next window leaves out a block.
EndPollSkips ==
    /\ phase = "settle"
    /\ todo = {}
    /\ nextBlock' = window.to + 2
    /\ phase' = "idle"
    /\ window' = NoWindow
    /\ UNCHANGED <<chainVars, processVars, todo, decision, seen, rulings>>

EndPoll ==
    /\ phase = "settle"
    /\ todo = {}
    /\ nextBlock' = window.to + 1
    /\ phase' = "idle"
    /\ window' = NoWindow
    /\ UNCHANGED <<chainVars, processVars, todo, decision, seen, rulings>>

-----------------------------------------------------------------------------
(***************************************************************************)
(* settle, for each dispute of the window.  However it ends, it is not     *)
(* tried again: the cursor moves past the window in any case.              *)
(***************************************************************************)

\* They are settled in the order in which the escrows first appear.
FirstBlock(dispute) == Min({s.block : s \in dispute.submissions})
Current(dispute) ==
    /\ dispute \in todo
    /\ \A other \in todo : FirstBlock(dispute) <= FirstBlock(other)

Tx(dispute) == Model!Args(dispute.id, decision)

NextDispute(dispute) ==
    todo' = todo \ {dispute} /\ phase' = "settle" /\ decision' = NoDecision

Skip(dispute, view) ==
    /\ Running("settle")
    /\ Current(dispute)
    /\ GetState(dispute.id, view) # StateDisputed
    /\ NextDispute(dispute)
    /\ UNCHANGED <<chainVars, processVars, nextBlock, window, seen, rulings>>

CheckState(dispute, view) ==
    /\ Running("settle")
    /\ Current(dispute)
    /\ GetState(dispute.id, view) = StateDisputed
    /\ phase' = "judge"
    /\ UNCHANGED <<chainVars, processVars, nextBlock, window, todo, decision, seen, rulings>>

\* The model answers with something that ParseDecision accepts.
Judge(answer) ==
    /\ Running("judge")
    /\ decision' = answer
    /\ phase' = "send"
    /\ UNCHANGED <<chainVars, processVars, nextBlock, window, todo, seen, rulings>>

\* cast send broadcasts the ruling, unless the node tells it up front that
\* the transaction would revert.
Send(dispute, view) ==
    /\ Running("send")
    /\ Current(dispute)
    /\ IF Accepts(Tx(dispute), view)
       THEN /\ mempool' = mempool \cup {Tx(dispute)}
            /\ rulings' = rulings \cup
                 {[id |-> dispute.id, ruling |-> decision.name,
                   submissions |-> dispute.submissions, safe |-> window.safe]}
            /\ phase' = "await"
            /\ UNCHANGED <<todo, decision>>
       ELSE NextDispute(dispute) /\ UNCHANGED <<mempool, rulings>>
    /\ UNCHANGED <<chain, final, faults, processVars, nextBlock, window, seen>>

\* cast has the receipt.
Receipt(dispute) ==
    /\ Running("await")
    /\ Current(dispute)
    /\ Tx(dispute) \notin mempool
    /\ NextDispute(dispute)
    /\ UNCHANGED <<chainVars, processVars, nextBlock, window, seen, rulings>>

\* Mutant of SettleFails: the dispute is tried again at once.
SettleFailsRetries(dispute) ==
    /\ phase \in {"settle", "judge", "send", "await"}
    /\ Current(dispute)
    /\ Failing
    /\ phase' = "settle"
    /\ decision' = NoDecision
    /\ UNCHANGED <<chain, final, mempool, processVars, nextBlock, window, todo, seen, rulings>>

\* getState, the model, its answer or cast fails; or cast gives up waiting for
\* a transaction that is broadcast and may still be mined, or is killed.
SettleFails(dispute) ==
    /\ phase \in {"settle", "judge", "send", "await"}
    /\ Current(dispute)
    /\ Failing
    /\ NextDispute(dispute)
    /\ UNCHANGED <<chain, final, mempool, processVars, nextBlock, window, seen, rulings>>

-----------------------------------------------------------------------------
(***************************************************************************)
(* The process.  It is started with a lookback or without one; SIGINT and  *)
(* SIGTERM cancel the context of every call, and the loop ends between two *)
(* polls.                                                                  *)
(***************************************************************************)
Start(back) ==
    /\ phase = "down"
    /\ phase' = "idle"
    /\ lookback' = back
    /\ UNCHANGED <<chainVars, cancelled, nextBlock, window, todo, decision, seen, rulings>>

\* What the process knew is gone.  Whatever it has broadcast stays broadcast.
Gone ==
    /\ phase' = "down"
    /\ lookback' = 0
    /\ cancelled' = FALSE
    /\ nextBlock' = 0
    /\ window' = NoWindow
    /\ todo' = {}
    /\ decision' = NoDecision
    /\ seen' = NothingSeen
    /\ UNCHANGED rulings

Crash ==
    /\ phase # "down"
    /\ Fault
    /\ Gone
    /\ UNCHANGED <<chain, final, mempool>>

Cancel ==
    /\ phase # "down"
    /\ ~cancelled
    /\ cancelled' = TRUE
    /\ UNCHANGED <<chain, final, mempool, lookback, nextBlock, phase, window, todo,
                   decision, seen, rulings>>

Signal == Fault /\ Cancel

Exit ==
    /\ phase = "idle"
    /\ cancelled
    /\ Gone
    /\ UNCHANGED chainVars

AgentStep ==
    \/ \E view \in Views : StartPoll(view) \/ Fetch(view)
    \/ \E dispute \in todo, view \in Views :
          Skip(dispute, view) \/ CheckState(dispute, view) \/ Send(dispute, view)
    \/ \E answer \in Model!Decisions : Judge(answer)
    \/ \E dispute \in todo : Receipt(dispute)
    \/ EndPoll \/ Exit

CallFails == FetchFails \/ \E dispute \in todo : SettleFails(dispute)

ChainStep ==
    /\ \/ MineOther
       \/ UserStep
       \/ \E tx \in mempool : MineRuling(tx)
       \/ \E height \in Heights : Reorg(height)
    /\ UNCHANGED agentVars

Next ==
    \/ \E back \in {0} \cup Lookbacks : Start(back)
    \/ AgentStep \/ CallFails
    \/ Signal \/ Crash
    \/ ChainStep

Spec == Init /\ [][Next]_vars

-----------------------------------------------------------------------------
(***************************************************************************)
(* Fairness.  The process is started, the ticker ticks, the calls Poll     *)
(* makes return in the end, a block follows the last and takes up what was *)
(* broadcast.                                                              *)
(***************************************************************************)
Fairness ==
    /\ WF_vars(\E back \in {0} \cup Lookbacks : Start(back))
    /\ WF_vars(AgentStep)
    /\ WF_vars(cancelled /\ CallFails)
    /\ WF_vars(MineOther /\ UNCHANGED agentVars)
    /\ WF_vars((\E tx \in mempool : MineRuling(tx)) /\ UNCHANGED agentVars)

FairSpec == Spec /\ Fairness

\* A dispute the agent should have dealt with: the cursor is past its logs.
Stranded(id) ==
    /\ StateOf(id) = "Disputed"
    /\ AgentIsArbiter(id)
    /\ \A h \in DOMAIN chain :
         IsDisputeRaised(chain[h]) /\ chain[h].id = id => h < nextBlock

\* The operator stops the agent when it has left a dispute behind.
Recall ==
    /\ phase = "idle"
    /\ mempool = {}
    /\ \E id \in Ids : Stranded(id)
    /\ Cancel
    /\ UNCHANGED faults

\* And, sooner or later, starts it with a lookback that is set.
OperatedSpec ==
    /\ Init /\ [][Next \/ Recall]_vars
    /\ Fairness
    /\ WF_vars(Recall)
    /\ SF_vars(\E back \in Lookbacks : Start(back))

-----------------------------------------------------------------------------
(***************************************************************************)
(* Properties.                                                             *)
(***************************************************************************)
TypeOK ==
    /\ chain \in Seq(Blocks) /\ Len(chain) <= MaxBlocks
    /\ final \in Heights
    /\ mempool \in SUBSET Transactions
    /\ faults \in 0 .. MaxFaults
    /\ nextBlock \in 0 .. (MaxBlocks + 1)
    /\ lookback \in {0} \cup Lookbacks
    /\ cancelled \in BOOLEAN
    /\ phase \in {"down", "idle", "fetch", "settle", "judge", "send", "await"}
    /\ window \in [from: 1 .. MaxBlocks, to: Heights, safe: Heights]
    /\ todo \in SUBSET Disputes
    /\ decision \in {NoDecision} \cup Model!Decisions
    /\ seen \in [from: Heights, logs: SUBSET Submissions]
    /\ rulings \in SUBSET [id: Ids, ruling: {"BuyerWins", "SellerWins"},
                           submissions: SUBSET Submissions, safe: Heights]

OnRecord(submission) ==
    /\ submission.block \in DOMAIN chain
    /\ IsDisputeRaised(chain[submission.block])
    /\ SubmissionAt(submission.block) = submission

\* No ruling was ever broadcast on evidence that the chain has since dropped,
\* in spite of reorganisations and answers of lagging replicas between any two
\* calls of the agent, and of restarts ("so it never rules on a reorged log").
NeverRulesOnReorgedLog ==
    \A r \in rulings : r.submissions # {} /\ \A s \in r.submissions : OnRecord(s)

\* Every log between the block the process began at and its cursor was given
\* to it: windows leave no gap, no log appears behind the cursor later, and no
\* replica that lags by less than the confirmations makes a window come short.
CursorMissesNothing ==
    nextBlock # 0 =>
      \A h \in LogsIn(seen.from, nextBlock - 1) : SubmissionAt(h) \in seen.logs

\* As long as nothing has failed, and nobody has killed or signalled the process,
\* every dispute of an escrow it is the arbiter of all along that it has moved past
\* is ruled on: no answer of a lagging replica makes it skip one or take a ruling
\* that is still pending for executed.
NothingLeftBehind ==
    faults = 0 =>
      \A h \in LogsIn(seen.from, nextBlock - 1) :
        Entrusted(chain[h].id) => StateOf(chain[h].id) = "Resolved"

\* A ruling on the chain is the only one of its escrow, whoever made it, and if
\* it was the agent's to make, the side the contract credits was named by a model
\* that had been given logs which precede it there, also if several processes
\* sent different rulings.
RulingsStand ==
    \A h \in DOMAIN chain : chain[h].kind = "ruling" =>
        /\ \A g \in DOMAIN chain :
             chain[g].kind = "ruling" /\ chain[g].id = chain[h].id => g = h
        /\ RuledByAgent(h) =>
             \E r \in rulings : /\ r.id = chain[h].id
                                /\ r.ruling = Model!SideOf(chain[h].tx.ruling)
                                /\ \A s \in r.submissions : s.block < h

-----------------------------------------------------------------------------
(***************************************************************************)
(* What makes these hold, step for step: the inductive invariant.          *)
(***************************************************************************)
Settling == phase \in {"settle", "judge", "send", "await"}
Scanning == phase = "fetch" \/ Settling

\* What the agent reads is below the blocks that may be reorganised, by as
\* much as a replica may lag.
StaysBelowFinal ==
    /\ final <= Len(chain) /\ Len(chain) <= final + ReorgDepth
    /\ nextBlock - 1 <= final
    /\ Scanning => /\ window.from = nextBlock
                   /\ window.to <= window.safe
                   /\ window.safe + MaxLag <= final

StaysOnRecord(submissions) ==
    submissions # {} /\ \A s \in submissions : OnRecord(s) /\ s.block <= final

EvidenceStays ==
    /\ \A d \in todo : StaysOnRecord(d.submissions)
    /\ \A r \in rulings : StaysOnRecord(r.submissions)

WindowSeen ==
    Settling => \A h \in LogsIn(window.from, window.to) : SubmissionAt(h) \in seen.logs

\* A pending ruling is one that a model has made.
Justified(tx) == \E r \in rulings : r.id = tx.id /\ r.ruling = Model!SideOf(tx.ruling)

RulingsJustified ==
    /\ phase \in {"send", "await"} => decision \in Model!Decisions
    /\ \A tx \in mempool : Justified(tx)

\* At every moment of a poll and between polls, for every pending ruling and
\* every dispute still to be settled.
AgentInvariant ==
    /\ TypeOK
    /\ StaysBelowFinal
    /\ EvidenceStays
    /\ WindowSeen
    /\ CursorMissesNothing
    /\ RulingsJustified
    /\ RulingsStand

\* The transaction in a block was one the contract accepted there.
Legal(block, view) ==
    CASE block.kind = "raise" -> StateAt(block.id, view) = "Funded"
      [] block.kind \in {"submit", "rotate", "ruling"} -> StateAt(block.id, view) = "Disputed"
      [] OTHER -> TRUE

LegalChain == \A h \in DOMAIN chain : Legal(chain[h], h - 1)

\* The disputes of a poll are finitely many, no two share a log, and all their
\* logs are from its window.
TodoGrouped ==
    /\ IsFiniteSet(todo)
    /\ todo # {} => Settling
    /\ \A d \in todo : \A s \in d.submissions : s.id = d.id /\ s.block <= window.to
    /\ \A d, e \in todo : d.id = e.id => d = e

Pending(dispute) == Tx(dispute) \in mempool \/ StateOf(dispute.id) = "Resolved"

\* As long as nothing fails, what Poll has found is dealt with or still to be,
\* and the ruling it waits for is on its way or executed.
DealsWithAll ==
    faults = 0 =>
      /\ cancelled => phase = "idle"
      /\ Settling =>
           \A h \in LogsIn(window.from, window.to) : Entrusted(chain[h].id) =>
             StateOf(chain[h].id) = "Resolved" \/ \E d \in todo : d.id = chain[h].id
      /\ phase = "await" =>
           \A d \in todo : Current(d) /\ Entrusted(d.id) => Pending(d)

\* What it takes, besides AgentInvariant, to rule on everything it finds and to
\* stop when it is told to.
ProgressInvariant ==
    /\ LegalChain
    /\ TodoGrouped
    /\ cancelled => phase # "down"
    /\ DealsWithAll
    /\ NothingLeftBehind

-----------------------------------------------------------------------------
(***************************************************************************)
(* What the chain tells of the disputes, up to a height.  Up to final it   *)
(* implements DisputeRecord, as the contract does whose transactions it    *)
(* carries.                                                                *)
(***************************************************************************)
StageAt(id, view) ==
    [Funded |-> "quiet", Disputed |-> "open", Resolved |-> "ruled"][StateAt(id, view)]

OfEscrow(id, view) == {h \in 1 .. view : chain[h].kind # "none" /\ chain[h].id = id}

CaseAt(id, view) ==
    [stage |-> StageAt(id, view),
     evidence |-> {chain[h].by : h \in {g \in OfEscrow(id, view) : IsDisputeRaised(chain[g])}},
     rulings |-> {Model!SideOf(chain[h].tx.ruling) :
                    h \in {g \in OfEscrow(id, view) : chain[g].kind = "ruling"}}]

Record == INSTANCE DisputeRecord WITH
    Cases <- Ids,
    record <- [id \in Ids |-> CaseAt(id, final)]

\* What has become final of a dispute is never taken back, reopened or ruled on
\* a second time, whatever reorganisations bring back rulings that were mined
\* and however often the agent, restarted, sends another.
FinalRecordStands == Record!Spec

\* After a signal the process sends no more rulings, and every step it takes
\* brings its end nearer: it cannot go around in a poll, whatever fails.
StepsLeft == CASE phase = "idle" -> 1
               [] phase = "fetch" -> 2
               [] OTHER -> 2 + Cardinality(todo)

ShutdownAdvances ==
    [][cancelled => /\ rulings' = rulings
                    /\ \/ UNCHANGED agentVars
                       \/ phase' = "down"
                       \/ StepsLeft' < StepsLeft]_vars

-----------------------------------------------------------------------------
\* If nothing fails, a dispute the agent arbitrates is resolved, unless the
\* owner gives it to another arbiter.
DisputesGetRuled ==
    \A id \in Ids :
      StateOf(id) = "Disputed" /\ Entrusted(id)
        ~> StateOf(id) = "Resolved" \/ ~Entrusted(id)

\* Whatever fails, and also if the dispute was handed to the agent after it
\* had passed it by: restarted with a lookback that is deep enough, the agent
\* leaves none open in the end that it is the arbiter of.
RestartsRecover ==
    \A id \in Ids : <>[]~(StateOf(id) = "Disputed" /\ AgentIsArbiter(id))

\* A process that is told to stop does stop, wherever in a poll it is: no call
\* and no loop over the disputes it still has holds it up.
StopsWhenAsked == cancelled ~> phase = "down"

\* agent/internal/arbiter/arbiter.go: Poll "settles every dispute it finds".
PollSettlesWhatItFinds ==
    phase = "idle" =>
      \A s \in seen.logs : s.block < nextBlock /\ AgentIsArbiter(s.id)
                             => StateOf(s.id) # "Disputed"

\* README: the agent "gathers every submission for the escrow".  A ruling
\* rests on all the evidence that was stable when its poll began.
EverySubmissionGathered ==
    \A r \in rulings : \A h \in LogsIn(1, r.safe) :
        chain[h].id = r.id => SubmissionAt(h) \in r.submissions
=============================================================================
