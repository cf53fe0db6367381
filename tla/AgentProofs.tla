---------------------------- MODULE AgentProofs -----------------------------
(***************************************************************************)
(* The safety of the arbiter agent, for any escrows and parties, any       *)
(* number of blocks, and any confirmations, window size, lookback and      *)
(* number of failures: as long as reorganisations and lagging replicas     *)
(* together stay within the confirmations (AgentAssumption).               *)
(*                                                                         *)
(* The argument is about one height, final: the chain never changes up to  *)
(* it, and everything the agent has read, has concluded from or has moved  *)
(* its cursor past is at or below it.                                      *)
(*                                                                         *)
(* Two more arguments rest on that.  The chain is legal: each of its       *)
(* blocks is one the contract accepts after those before it, so up to any  *)
(* height it tells a coherent story of each dispute, and up to final one   *)
(* that only goes on.  And in a run without a failure a dispute the agent  *)
(* has read stays on its list until it is ruled on.                        *)
(***************************************************************************)
EXTENDS ArbiterAgent, FiniteSetTheorems, TLAPS

-----------------------------------------------------------------------------
(***************************************************************************)
(* Operators.                                                              *)
(***************************************************************************)
\* Max and Min of two numbers, as the solver wants them.
LEMMA MaxOfTwo ==
  ASSUME NEW a \in Int, NEW b \in Int
  PROVE  Max({a, b}) = IF a >= b THEN a ELSE b
BY DEF Max

\* Likewise the lesser of the two.
LEMMA MinOfTwo ==
  ASSUME NEW a \in Int, NEW b \in Int
  PROVE  Min({a, b}) = IF a <= b THEN a ELSE b
BY DEF Min

\* What the assumptions say of the constants.
LEMMA ConstantTypes ==
  /\ MaxBlocks \in Nat /\ UserBlocks \in Nat /\ ReorgDepth \in Nat
  /\ MaxLag \in Nat /\ MaxFaults \in Nat
  /\ BlockConfirmations \in Nat \ {0} /\ BlockRangeChunkSize \in Nat \ {0}
  /\ StartBlockLookback \in Nat \ {0}
  /\ Cardinality(Ids) \in Nat
  /\ UserBlocks < MaxBlocks
<1>1. Cardinality(Ids) \in Nat
  BY ChainAssumption, FS_CardinalityType DEF ChainAssumption
<1> QED BY <1>1, ChainAssumption, AgentAssumption DEF ChainAssumption, AgentAssumption

\* A ruling has the number of the side it names.
LEMMA DecisionNumber ==
  ASSUME NEW d \in Model!Decisions
  PROVE  /\ d.name \in {"BuyerWins", "SellerWins"}
         /\ Model!SideOf(d.ruling) = d.name
<1>1. PICK text \in Model!Texts : d = Model!ParseDecision(text) /\ d.error = "none"
  BY DEF Model!Decisions
<1>2. Model!ParseError(text) = "none"
  BY <1>1 DEF Model!ParseDecision, Model!NoDecision
<1>3. text.ruling \in {"BuyerWins", "SellerWins"}
  BY <1>2 DEF Model!ParseError
<1>4. d.name = text.ruling /\ d.ruling = Model!RulingNumber(text.ruling)
  BY <1>1, <1>2 DEF Model!ParseDecision
<1> QED BY <1>3, <1>4 DEF Model!RulingNumber, Model!SideOf, Model!RulingEnum

\* The fields a block has.
LEMMA BlockParts ==
  ASSUME NEW b \in Blocks
  PROVE  /\ b.kind = "ruling" => b.tx \in Transactions /\ b.id = b.tx.id
         /\ IsDisputeRaised(b) => b.id \in Ids /\ b.by \in Parties
<1>1. CASE b = NoLog
  BY <1>1 DEF NoLog, IsDisputeRaised
<1>2. CASE b \in [kind: {"raise", "submit"}, id: Ids, by: Parties]
  BY <1>2 DEF IsDisputeRaised
<1>3. CASE b \in [kind: {"rotate"}, id: Ids, toAgent: BOOLEAN]
  BY <1>3 DEF IsDisputeRaised
<1>4. CASE b \in {[kind |-> "ruling", id |-> tx.id, tx |-> tx] : tx \in Transactions}
  BY <1>4 DEF IsDisputeRaised
<1> QED BY <1>1, <1>2, <1>3, <1>4 DEF Blocks

\* A log lies in its window and names an escrow and a party.
LEMMA LogTypes ==
  ASSUME TypeOK, NEW from, NEW to, NEW h \in LogsIn(from, to)
  PROVE  /\ h \in 1 .. Len(chain) /\ h \in from .. to
         /\ SubmissionAt(h) \in Submissions
         /\ SubmissionAt(h).block = h /\ SubmissionAt(h).id = chain[h].id
<1>1. h \in 1 .. Len(chain) /\ chain[h] \in Blocks /\ IsDisputeRaised(chain[h])
  BY DEF LogsIn, TypeOK
<1>2. chain[h].id \in Ids /\ chain[h].by \in Parties
  BY <1>1, BlockParts
<1>3. h \in 1 .. MaxBlocks
  BY <1>1, ConstantTypes DEF TypeOK
<1> QED BY <1>1, <1>2, <1>3 DEF SubmissionAt, Submissions, LogsIn

\* A dispute is open only as long as no ruling is on the chain.
LEMMA DisputedIsUnruled ==
  ASSUME NEW id, NEW view, StateAt(id, view) = "Disputed"
  PROVE  ~OnChain("ruling", id, view)
BY DEF StateAt

\* A set of natural numbers has a least member, which Min picks.
LEMMA LeastMember ==
  ASSUME NEW S, S \subseteq Nat, S # {}
  PROVE  Min(S) \in S /\ \A x \in S : Min(S) <= x
<1> DEFINE R == OpToRel(<, Nat)
<1>1. IsWellFoundedOn(R, Nat)
  BY NatLessThanWellFounded
<1>2. \A x, y \in Nat : x < y => <<x, y>> \in R
  BY DEF OpToRel
<1> HIDE DEF R
<1>3. PICK x \in S : \A y \in S : ~(<<y, x>> \in R)
  BY <1>1, WFMin
<1>4. ASSUME NEW y \in S PROVE x <= y
  <2>1. x \in Nat /\ y \in Nat
    OBVIOUS
  <2>2. ~(y < x)
    BY <1>2, <1>3, <2>1
  <2> QED BY <2>1, <2>2
<1> QED BY <1>4 DEF Min

-----------------------------------------------------------------------------
(***************************************************************************)
(* The chain.                                                              *)
(***************************************************************************)

\* What does not change below final.
Kept ==
    /\ final' \in Nat /\ final <= final' /\ final' <= Len(chain')
    /\ \A h \in 1 .. final : h \in DOMAIN chain' /\ chain'[h] = chain[h]

\* A new block leaves the older ones alone.
LEMMA MineKeeps ==
  ASSUME TypeOK, StaysBelowFinal, NEW b \in Blocks, Len(chain) < MaxBlocks, Mine(b)
  PROVE  /\ chain' \in Seq(Blocks) /\ Len(chain') = Len(chain) + 1
         /\ final' \in Heights /\ Len(chain') <= final' + ReorgDepth
         /\ \A h \in 1 .. Len(chain) : chain'[h] = chain[h]
         /\ chain'[Len(chain) + 1] = b
         /\ Kept
<1>1. /\ chain' \in Seq(Blocks) /\ Len(chain') = Len(chain) + 1
      /\ \A h \in 1 .. Len(chain) : chain'[h] = chain[h]
      /\ chain'[Len(chain) + 1] = b
  BY DEF Mine, TypeOK
<1>2. /\ final \in Nat /\ Len(chain) \in Nat
      /\ final <= Len(chain) /\ Len(chain) <= final + ReorgDepth
  BY DEF TypeOK, Heights, StaysBelowFinal
<1>3. final' = IF final >= Len(chain) + 1 - ReorgDepth THEN final
                                                     ELSE Len(chain) + 1 - ReorgDepth
  BY <1>2, MaxOfTwo, ConstantTypes DEF Mine
<1>4. /\ final' \in Nat /\ final <= final' /\ final' <= Len(chain')
      /\ Len(chain') <= final' + ReorgDepth
  BY <1>1, <1>2, <1>3, ConstantTypes
<1>5. final' \in Heights
  BY <1>1, <1>2, <1>4, ConstantTypes DEF Heights
<1>6. \A h \in 1 .. final : h \in DOMAIN chain' /\ chain'[h] = chain[h]
  BY <1>1, <1>2
<1> QED BY <1>1, <1>4, <1>5, <1>6 DEF Kept

\* A reorganisation shortens the chain, though not below final.
LEMMA ReorgKeeps ==
  ASSUME TypeOK, StaysBelowFinal, NEW height \in Heights, Reorg(height)
  PROVE  /\ chain' \in Seq(Blocks) /\ Len(chain') < Len(chain)
         /\ Len(chain') <= final' + ReorgDepth
         /\ \A h \in 1 .. Len(chain') : h \in 1 .. Len(chain) /\ chain'[h] = chain[h]
         /\ mempool' \subseteq Transactions
         /\ Kept
<1>1. height \in final .. (Len(chain) - 1) /\ chain' = SubSeq(chain, 1, height)
      /\ final' = final
  BY DEF Reorg
<1>2. /\ final \in Nat /\ Len(chain) \in Nat
      /\ final <= Len(chain) /\ Len(chain) <= final + ReorgDepth
  BY DEF TypeOK, Heights, StaysBelowFinal
<1>3. /\ chain' \in Seq(Blocks) /\ Len(chain') = height
      /\ \A h \in 1 .. height : chain'[h] = chain[h]
  BY <1>1, <1>2 DEF TypeOK
<1>4. mempool' \subseteq Transactions
  <2>1. \A h \in (height + 1) .. Len(chain) : chain[h] \in Blocks
    BY <1>1, <1>2 DEF TypeOK
  <2>2. \A h \in (height + 1) .. Len(chain) :
          chain[h].kind = "ruling" => chain[h].tx \in Transactions
    BY <2>1, BlockParts
  <2> DEFINE undone == {chain[h].tx :
                           h \in {g \in (height + 1) .. Len(chain) : RuledByAgent(g)}}
  <2>3. undone \subseteq Transactions
    BY <2>2 DEF RuledByAgent
  <2>4. PICK kept \in SUBSET undone : mempool' = mempool \cup kept
    BY DEF Reorg
  <2> QED BY <2>3, <2>4 DEF TypeOK
<1> QED BY <1>1, <1>2, <1>3, <1>4, ConstantTypes DEF Kept

\* Blocks come and go above final; what the agent reads is below it before and
\* after.
LEMMA BelowFinalKept ==
  ASSUME TypeOK, StaysBelowFinal, UNCHANGED agentVars,
         final' \in Nat, Len(chain') \in Nat,
         final <= final', final' <= Len(chain'), Len(chain') <= final' + ReorgDepth
  PROVE  StaysBelowFinal'
<1>1. UNCHANGED <<nextBlock, phase, window>>
  BY DEF agentVars
<1>2. /\ final \in Nat /\ nextBlock \in Nat /\ window.safe \in Nat
      /\ ReorgDepth \in Nat /\ MaxLag \in Nat
  BY ConstantTypes DEF TypeOK, Heights
<1>3. nextBlock' - 1 <= final'
  BY <1>1, <1>2 DEF StaysBelowFinal
<1>4. ASSUME Scanning'
      PROVE  /\ window'.from = nextBlock'
             /\ window'.to <= window'.safe
             /\ window'.safe + MaxLag <= final'
  <2>1. Scanning
    BY <1>1, <1>4 DEF Scanning, Settling
  <2>2. /\ window.from = nextBlock /\ window.to <= window.safe
        /\ window.safe + MaxLag <= final
    BY <2>1 DEF StaysBelowFinal
  <2> QED BY <1>1, <1>2, <2>2
<1> QED BY <1>3, <1>4 DEF StaysBelowFinal

\* What others rule.
LEMMA OtherRulingBlock ==
  ASSUME NEW id \in Ids, RuleOther(id)
  PROVE  \E tx \in Transactions :
           tx.id = id /\ Mine([kind |-> "ruling", id |-> tx.id, tx |-> tx])
<1>1. PICK d \in Model!Decisions :
        Mine([kind |-> "ruling", id |-> id, tx |-> Model!Args(id, d)])
  BY DEF RuleOther
<1>2. Model!Args(id, d) \in Transactions /\ Model!Args(id, d).id = id
  BY DEF Transactions, Model!Args
<1> QED BY <1>1, <1>2

\* Whatever the chain does between two calls of the agent.
LEMMA ChainStepKeeps ==
  ASSUME TypeOK, StaysBelowFinal, ChainStep
  PROVE  TypeOK' /\ StaysBelowFinal' /\ Kept
<1>1. final \in Nat /\ Len(chain) \in Nat /\ Len(chain) <= MaxBlocks
  BY DEF TypeOK, Heights
<1>2. ASSUME NEW b \in Blocks, Len(chain) < MaxBlocks, Mine(b),
             mempool' \subseteq Transactions, faults' = faults
      PROVE  TypeOK' /\ StaysBelowFinal' /\ Kept
  <2>1. /\ chain' \in Seq(Blocks) /\ Len(chain') = Len(chain) + 1
        /\ final' \in Heights /\ Len(chain') <= final' + ReorgDepth
        /\ Kept
    BY <1>2, MineKeeps
  <2>2. TypeOK'
    BY <1>1, <1>2, <2>1, ConstantTypes DEF TypeOK, ChainStep, agentVars, processVars
  <2>3. StaysBelowFinal'
    BY <2>1, BelowFinalKept DEF ChainStep, Kept
  <2> QED BY <2>1, <2>2, <2>3
<1>3. CASE MineOther
  <2>1. Len(chain) < MaxBlocks
    BY <1>1, <1>3, ConstantTypes DEF MineOther
  <2> QED BY <1>2, <1>3, <2>1 DEF MineOther, Blocks, TypeOK
<1>4. CASE UserStep
  <2>1. PICK id \in Ids : \/ Rotate(id) \/ RuleOther(id)
                         \/ \E by \in Parties : RaiseDispute(id, by) \/ SubmitEvidence(id, by)
    BY <1>4 DEF UserStep
  <2>2. CASE Rotate(id)
    <3>1. [kind |-> "rotate", id |-> id, toAgent |-> ~AgentIsArbiter(id)] \in Blocks
      BY DEF Blocks
    <3> QED BY <1>1, <1>2, <2>2, <3>1, ConstantTypes DEF Rotate, TypeOK
  <2>3. ASSUME NEW by \in Parties, RaiseDispute(id, by) \/ SubmitEvidence(id, by)
        PROVE  TypeOK' /\ StaysBelowFinal' /\ Kept
    <3>1. /\ [kind |-> "raise", id |-> id, by |-> by] \in Blocks
          /\ [kind |-> "submit", id |-> id, by |-> by] \in Blocks
      BY DEF Blocks
    <3> QED BY <1>1, <1>2, <2>3, <3>1, ConstantTypes DEF RaiseDispute, SubmitEvidence, TypeOK
  <2>4. CASE RuleOther(id)
    <3>1. PICK tx \in Transactions : Mine([kind |-> "ruling", id |-> tx.id, tx |-> tx])
      BY <2>4, OtherRulingBlock
    <3>2. [kind |-> "ruling", id |-> tx.id, tx |-> tx] \in Blocks
      BY DEF Blocks
    <3> QED BY <1>1, <1>2, <2>4, <3>1, <3>2, ConstantTypes DEF RuleOther, TypeOK
  <2> QED BY <2>1, <2>2, <2>3, <2>4
<1>5. ASSUME NEW tx \in mempool, MineRuling(tx)
      PROVE  TypeOK' /\ StaysBelowFinal' /\ Kept
  <2>1. tx \in Transactions /\ mempool' \subseteq Transactions
    BY <1>5 DEF MineRuling, TypeOK
  <2>2. CASE Accepts(tx, Len(chain))
    <3>1. [kind |-> "ruling", id |-> tx.id, tx |-> tx] \in Blocks
      BY <2>1 DEF Blocks
    <3> QED BY <1>2, <1>5, <2>1, <2>2, <3>1 DEF MineRuling
  <2>3. CASE ~Accepts(tx, Len(chain))
    <3>1. UNCHANGED <<chain, final, faults>>
      BY <1>5, <2>3 DEF MineRuling
    <3>2. TypeOK'
      BY <2>1, <3>1 DEF TypeOK, ChainStep, agentVars, processVars
    <3>3. StaysBelowFinal' /\ Kept
      BY <1>1, <3>1
      DEF StaysBelowFinal, ChainStep, agentVars, processVars, Kept, Scanning, Settling
    <3> QED BY <3>2, <3>3
  <2> QED BY <2>2, <2>3
<1>6. ASSUME NEW height \in Heights, Reorg(height)
      PROVE  TypeOK' /\ StaysBelowFinal' /\ Kept
  <2>1. /\ chain' \in Seq(Blocks) /\ Len(chain') < Len(chain)
        /\ Len(chain') <= final' + ReorgDepth
        /\ mempool' \subseteq Transactions
        /\ Kept
    BY <1>6, ReorgKeeps
  <2>2. final' = final /\ faults' \in 0 .. MaxFaults
    BY <1>6, ConstantTypes DEF Reorg, Fault, TypeOK
  <2>3. Len(chain') <= MaxBlocks
    BY <1>1, <2>1, ConstantTypes
  <2>4. TypeOK'
    BY <2>1, <2>2, <2>3 DEF TypeOK, ChainStep, agentVars, processVars
  <2>5. StaysBelowFinal'
    BY <2>1, BelowFinalKept DEF ChainStep, Kept
  <2> QED BY <2>1, <2>4, <2>5
<1> QED BY <1>3, <1>4, <1>5, <1>6 DEF ChainStep

-----------------------------------------------------------------------------
(***************************************************************************)
(* A step of the chain disturbs nothing of what the agent holds.           *)
(***************************************************************************)
\* What the agent has found, and what it has ruled on, stays on record.
LEMMA EvidenceKept ==
  ASSUME TypeOK, EvidenceStays, Kept, UNCHANGED <<todo, rulings>>
  PROVE  EvidenceStays'
<1>1. ASSUME NEW S, StaysOnRecord(S), \A s \in S : s \in Submissions
      PROVE  S # {} /\ \A s \in S : OnRecord(s)' /\ s.block <= final'
  <2> SUFFICES ASSUME NEW s \in S PROVE OnRecord(s)' /\ s.block <= final'
    BY <1>1 DEF StaysOnRecord
  <2>1. s.block \in 1 .. final /\ OnRecord(s)
    BY <1>1 DEF StaysOnRecord, Submissions, TypeOK, Heights
  <2>2. s.block \in DOMAIN chain' /\ chain'[s.block] = chain[s.block]
    BY <2>1 DEF Kept
  <2>3. s.block <= final'
    BY <2>1 DEF Kept, TypeOK, Heights
  <2> QED BY <2>1, <2>2, <2>3 DEF OnRecord, IsDisputeRaised, SubmissionAt
<1>2. \A d \in todo : \A s \in d.submissions : s \in Submissions
  BY DEF TypeOK, Disputes
<1>3. \A r \in rulings : \A s \in r.submissions : s \in Submissions
  BY DEF TypeOK
<1>4. \A d \in todo : d.submissions # {}
        /\ \A s \in d.submissions : OnRecord(s)' /\ s.block <= final'
  BY <1>1, <1>2 DEF EvidenceStays
<1>5. \A r \in rulings : r.submissions # {}
        /\ \A s \in r.submissions : OnRecord(s)' /\ s.block <= final'
  BY <1>1, <1>3 DEF EvidenceStays
<1> QED BY <1>4, <1>5 DEF EvidenceStays, StaysOnRecord

\* What the agent has been given remains all there is up to its cursor.
LEMMA SeenKept ==
  ASSUME TypeOK, StaysBelowFinal, WindowSeen, CursorMissesNothing, Kept,
         UNCHANGED agentVars
  PROVE  WindowSeen' /\ CursorMissesNothing'
<1>1. /\ UNCHANGED <<nextBlock, phase, window, seen>>
  BY DEF agentVars
<1>2. \A h \in 1 .. final : h \in DOMAIN chain' /\ h \in DOMAIN chain /\ chain'[h] = chain[h]
  BY DEF Kept, TypeOK, Heights, StaysBelowFinal
<1>3. WindowSeen'
  <2> SUFFICES ASSUME Settling, NEW h \in window.from .. window.to,
                      h \in DOMAIN chain', IsDisputeRaised(chain'[h])
               PROVE  [id |-> chain'[h].id, by |-> chain'[h].by, block |-> h] \in seen.logs
    BY <1>1 DEF WindowSeen, Settling, LogsIn, SubmissionAt
  <2>1. h \in 1 .. final
    BY ConstantTypes DEF Settling, Scanning, StaysBelowFinal, TypeOK, Heights
  <2>2. h \in LogsIn(window.from, window.to)
    BY <1>2, <2>1 DEF LogsIn
  <2> QED BY <1>2, <2>1, <2>2 DEF WindowSeen, SubmissionAt
<1>4. CursorMissesNothing'
  <2> SUFFICES ASSUME nextBlock # 0, NEW h \in seen.from .. (nextBlock - 1),
                      h \in DOMAIN chain', IsDisputeRaised(chain'[h])
               PROVE  [id |-> chain'[h].id, by |-> chain'[h].by, block |-> h] \in seen.logs
    BY <1>1 DEF CursorMissesNothing, LogsIn, SubmissionAt
  <2>1. h \in 1 .. final
    <3>1. h \in Nat /\ h # 0
      BY DEF Kept, TypeOK, Heights
    <3> QED BY <3>1 DEF StaysBelowFinal, TypeOK, Heights
  <2>2. h \in LogsIn(seen.from, nextBlock - 1)
    BY <1>2, <2>1 DEF LogsIn
  <2> QED BY <1>2, <2>1, <2>2 DEF CursorMissesNothing, SubmissionAt
<1> QED BY <1>3, <1>4

\* The state of an escrow depends on the blocks up to the view.
LEMMA StateSame ==
  ASSUME NEW view, \A g \in 1 .. view : chain'[g] = chain[g], NEW id
  PROVE  /\ StateAt(id, view)' = StateAt(id, view)
         /\ AgentIsArbiterAt(id, view)' = AgentIsArbiterAt(id, view)
<1>1. \A kind : OnChain(kind, id, view)' = OnChain(kind, id, view)
  BY DEF OnChain
<1> QED BY <1>1 DEF StateAt, AgentIsArbiterAt

\* So it does on whose ruling a block holds.
LEMMA SameRuler ==
  ASSUME TypeOK, NEW h \in DOMAIN chain, \A g \in 1 .. h : chain'[g] = chain[g]
  PROVE  RuledByAgent(h)' = RuledByAgent(h)
<1>1. h \in Nat \ {0} /\ h \in 1 .. h /\ \A g \in 1 .. (h - 1) : g \in 1 .. h
  BY DEF TypeOK
<1>2. \A g \in 1 .. (h - 1) : chain'[g] = chain[g]
  BY <1>1
<1>3. ASSUME NEW id PROVE AgentIsArbiterAt(id, h - 1)' = AgentIsArbiterAt(id, h - 1)
  BY <1>2, StateSame
<1>4. chain'[h] = chain[h]
  BY <1>1
<1>5. PICK id : id = chain[h].id
  OBVIOUS
<1>6. AgentIsArbiterAt(id, h - 1)' = AgentIsArbiterAt(id, h - 1)
  BY <1>3
<1> QED BY <1>4, <1>5, <1>6 DEF RuledByAgent, AgentIsArbiterAt, OnChain

\* A chain that stands still keeps its rulings.
LEMMA SameChainRulings ==
  ASSUME RulingsStand, chain' = chain, rulings \subseteq rulings'
  PROVE  RulingsStand'
<1>1. \A h \in DOMAIN chain : RuledByAgent(h)' = RuledByAgent(h)
  BY DEF RuledByAgent, AgentIsArbiterAt, OnChain
<1> QED BY <1>1 DEF RulingsStand

\* A block that is no ruling.
LEMMA OtherBlockKeepsRulings ==
  ASSUME TypeOK, StaysBelowFinal, RulingsStand, NEW b \in Blocks, b.kind # "ruling",
         Len(chain) < MaxBlocks, Mine(b), rulings' = rulings
  PROVE  RulingsStand'
<1>1. /\ chain' \in Seq(Blocks) /\ Len(chain') = Len(chain) + 1
      /\ \A h \in 1 .. Len(chain) : chain'[h] = chain[h]
      /\ chain'[Len(chain) + 1] = b
  BY MineKeeps
<1>2. \A h \in DOMAIN chain' : chain'[h].kind = "ruling" =>
         h \in DOMAIN chain /\ chain'[h] = chain[h]
  BY <1>1 DEF TypeOK
<1>3. \A h \in DOMAIN chain : RuledByAgent(h)' = RuledByAgent(h)
  BY <1>1, SameRuler DEF TypeOK
<1> QED BY <1>2, <1>3 DEF RulingsStand

\* A ruling is mined only while the escrow is disputed, so it is the first; and
\* if it is the agent's, all its evidence is in earlier blocks.
LEMMA NewRulingStands ==
  ASSUME TypeOK, StaysBelowFinal, EvidenceStays, RulingsStand, rulings' = rulings,
         NEW tx \in Transactions, StateOf(tx.id) = "Disputed",
         AgentIsArbiter(tx.id) => Justified(tx),
         Len(chain) < MaxBlocks, Mine([kind |-> "ruling", id |-> tx.id, tx |-> tx])
  PROVE  RulingsStand'
<1> DEFINE b == [kind |-> "ruling", id |-> tx.id, tx |-> tx]
<1>0. PICK n \in Nat : n = Len(chain) + 1 /\ Len(chain) \in Nat
  BY DEF TypeOK
<1>1. b \in Blocks /\ Mine(b)
  BY DEF Blocks
<1>2. /\ chain' \in Seq(Blocks) /\ Len(chain') = n
      /\ \A h \in 1 .. Len(chain) : chain'[h] = chain[h]
      /\ chain'[n] = b
  BY <1>0, <1>1, MineKeeps
<1>3. \A h \in 1 .. Len(chain) : ~(chain[h].kind = "ruling" /\ chain[h].id = tx.id)
  BY DisputedIsUnruled DEF OnChain, StateOf
<1>4. /\ b.kind = "ruling" /\ b.id = tx.id /\ b.tx = tx
      /\ DOMAIN chain' = 1 .. n /\ DOMAIN chain = 1 .. Len(chain) /\ Len(chain) \in Nat
  BY <1>0, <1>2 DEF TypeOK
<1> HIDE DEF b
<1>5. RuledByAgent(n)' =>
        \E r \in rulings : /\ r.id = tx.id /\ r.ruling = Model!SideOf(tx.ruling)
                           /\ \A s \in r.submissions : s.block < n
  <2> SUFFICES ASSUME RuledByAgent(n)'
               PROVE  \E r \in rulings : /\ r.id = tx.id /\ r.ruling = Model!SideOf(tx.ruling)
                                         /\ \A s \in r.submissions : s.block < n
    OBVIOUS
  <2>1. PICK view \in Nat : view = Len(chain) /\ n - 1 = view
    BY <1>0
  <2>2. AgentIsArbiterAt(tx.id, view)' = AgentIsArbiterAt(tx.id, view)
    BY <1>2, <2>1, StateSame
  <2>3. AgentIsArbiter(tx.id)
    <3>1. chain'[n].id = tx.id
      BY <1>2, <1>4
    <3>2. AgentIsArbiterAt(tx.id, view)'
      BY <2>1, <3>1 DEF RuledByAgent, AgentIsArbiterAt, OnChain
    <3> QED BY <2>1, <2>2, <3>2 DEF AgentIsArbiter
  <2>4. PICK r \in rulings : r.id = tx.id /\ r.ruling = Model!SideOf(tx.ruling)
    BY <2>3 DEF Justified
  <2>5. ASSUME NEW s \in r.submissions PROVE s.block < n
    <3>1. s \in Submissions /\ s.block \in DOMAIN chain
      BY <2>5 DEF EvidenceStays, StaysOnRecord, OnRecord, TypeOK
    <3> QED BY <1>0, <3>1 DEF TypeOK
  <2> QED BY <2>4, <2>5
<1>6. \A h \in DOMAIN chain : RuledByAgent(h)' = RuledByAgent(h)
  BY <1>2, <1>4, SameRuler
<1>7. ASSUME NEW h \in DOMAIN chain', chain'[h].kind = "ruling"
      PROVE  /\ \A g \in DOMAIN chain' :
                   chain'[g].kind = "ruling" /\ chain'[g].id = chain'[h].id => g = h
             /\ RuledByAgent(h)' =>
                   \E r \in rulings : /\ r.id = chain'[h].id
                                      /\ r.ruling = Model!SideOf(chain'[h].tx.ruling)
                                      /\ \A s \in r.submissions : s.block < h
  <2>1. CASE h = n
    <3>1. \A g \in DOMAIN chain' :
            chain'[g].kind = "ruling" /\ chain'[g].id = chain'[h].id => g = h
      BY <1>0, <1>2, <1>3, <1>4, <2>1
    <3> QED BY <1>2, <1>4, <1>5, <2>1, <3>1
  <2>2. CASE h \in DOMAIN chain
    <3>1. chain'[h] = chain[h]
      BY <1>2, <1>4, <2>2
    <3>2. \A g \in DOMAIN chain' :
            chain'[g].kind = "ruling" /\ chain'[g].id = chain'[h].id => g = h
      <4> SUFFICES ASSUME NEW g \in DOMAIN chain',
                          chain'[g].kind = "ruling", chain'[g].id = chain'[h].id
                   PROVE  g = h
        OBVIOUS
      <4>1. g # n
        BY <1>0, <1>2, <1>3, <1>4, <1>7, <2>2, <3>1
      <4>2. g \in DOMAIN chain /\ chain'[g] = chain[g]
        BY <1>0, <1>2, <1>4, <4>1
      <4> QED BY <1>7, <2>2, <3>1, <4>2 DEF RulingsStand
    <3> QED BY <1>6, <1>7, <2>2, <3>1, <3>2 DEF RulingsStand
  <2> QED BY <1>0, <1>4, <2>1, <2>2
<1> QED BY <1>7 DEF RulingsStand

LEMMA MinedRulingStands ==
  ASSUME TypeOK, StaysBelowFinal, EvidenceStays, RulingsJustified, RulingsStand,
         NEW tx \in mempool, MineRuling(tx), rulings' = rulings
  PROVE  RulingsStand'
<1>1. CASE ~Accepts(tx, Len(chain))
  BY <1>1, SameChainRulings DEF MineRuling
<1>2. CASE Accepts(tx, Len(chain))
  <2>1. tx \in Transactions /\ Justified(tx) /\ StateOf(tx.id) = "Disputed"
    BY <1>2 DEF RulingsJustified, TypeOK, Accepts, StateOf
  <2>2. Len(chain) < MaxBlocks /\ Mine([kind |-> "ruling", id |-> tx.id, tx |-> tx])
    BY <1>2 DEF MineRuling
  <2> QED BY <2>1, <2>2, NewRulingStands
<1> QED BY <1>1, <1>2

\* What a reorganisation makes pending again was justified when it was mined.
LEMMA ReorgKeepsRulings ==
  ASSUME TypeOK, StaysBelowFinal, RulingsJustified, RulingsStand,
         NEW height \in Heights, Reorg(height), rulings' = rulings
  PROVE  RulingsStand' /\ \A tx \in mempool' : Justified(tx)'
<1>1. /\ chain' \in Seq(Blocks)
      /\ \A h \in 1 .. Len(chain') : h \in 1 .. Len(chain) /\ chain'[h] = chain[h]
  BY ReorgKeeps
<1>2. DOMAIN chain' = 1 .. Len(chain') /\ DOMAIN chain = 1 .. Len(chain)
  BY <1>1 DEF TypeOK
<1>3. \A h \in DOMAIN chain' : h \in DOMAIN chain /\ chain'[h] = chain[h]
  BY <1>1, <1>2
<1>4. RulingsStand'
  <2>1. \A h \in DOMAIN chain' : \A g \in 1 .. h : chain'[g] = chain[g]
    BY <1>1, <1>2
  <2>2. \A h \in DOMAIN chain' : RuledByAgent(h)' = RuledByAgent(h)
    BY <1>3, <2>1, SameRuler
  <2> QED BY <1>3, <2>2 DEF RulingsStand
<1>5. ASSUME NEW tx \in mempool' PROVE Justified(tx)'
  <2>1. CASE tx \in mempool
    BY <2>1 DEF RulingsJustified, Justified
  <2>2. CASE tx \notin mempool
    <3>1. PICK h \in (height + 1) .. Len(chain) :
             RuledByAgent(h) /\ chain[h].kind = "ruling" /\ tx = chain[h].tx
      BY <2>2 DEF Reorg, RuledByAgent
    <3>2. h \in DOMAIN chain /\ chain[h] \in Blocks
      BY <3>1 DEF Heights, TypeOK
    <3>3. chain[h].id = tx.id
      BY <3>1, <3>2, BlockParts
    <3> QED BY <3>1, <3>2, <3>3 DEF RulingsStand, Justified
  <2> QED BY <2>1, <2>2
<1> QED BY <1>4, <1>5

\* The chain goes on between two calls of the agent.
LEMMA ChainStepInvariant ==
  ASSUME AgentInvariant, ChainStep
  PROVE  AgentInvariant'
<1> USE DEF AgentInvariant
<1>1. TypeOK' /\ StaysBelowFinal' /\ Kept
  BY ChainStepKeeps
<1>2. UNCHANGED agentVars /\ UNCHANGED <<phase, todo, decision, rulings>>
  BY DEF ChainStep, agentVars
<1>3. EvidenceStays'
  BY <1>1, <1>2, EvidenceKept
<1>4. WindowSeen' /\ CursorMissesNothing'
  BY <1>1, <1>2, SeenKept
<1>5. RulingsJustified' /\ RulingsStand'
  <2>1. ASSUME NEW b \in Blocks, b.kind # "ruling", Len(chain) < MaxBlocks, Mine(b),
               mempool' = mempool
        PROVE  RulingsJustified' /\ RulingsStand'
    <3>1. RulingsStand'
      BY <1>2, <2>1, OtherBlockKeepsRulings
    <3> QED BY <1>2, <2>1, <3>1 DEF RulingsJustified, Justified
  <2>2. CASE MineOther
    <3>1. Len(chain) < MaxBlocks
      BY <2>2, ConstantTypes DEF MineOther, TypeOK
    <3> QED BY <2>1, <2>2, <3>1 DEF MineOther, Blocks, NoLog
  <2>3. CASE UserStep
    <3>1. PICK id \in Ids : \/ Rotate(id) \/ RuleOther(id)
                           \/ \E by \in Parties : RaiseDispute(id, by) \/ SubmitEvidence(id, by)
      BY <2>3 DEF UserStep
    <3>2. CASE Rotate(id)
      <4>1. [kind |-> "rotate", id |-> id, toAgent |-> ~AgentIsArbiter(id)] \in Blocks
        BY DEF Blocks
      <4> QED BY <2>1, <3>2, <4>1, ConstantTypes DEF Rotate, TypeOK
    <3>3. ASSUME NEW by \in Parties, RaiseDispute(id, by) \/ SubmitEvidence(id, by)
          PROVE  RulingsJustified' /\ RulingsStand'
      <4>1. /\ [kind |-> "raise", id |-> id, by |-> by] \in Blocks
            /\ [kind |-> "submit", id |-> id, by |-> by] \in Blocks
        BY DEF Blocks
      <4> QED BY <2>1, <3>3, <4>1, ConstantTypes DEF RaiseDispute, SubmitEvidence, TypeOK
    <3>4. CASE RuleOther(id)
      <4>1. PICK tx \in Transactions :
               tx.id = id /\ Mine([kind |-> "ruling", id |-> tx.id, tx |-> tx])
        BY <3>4, OtherRulingBlock
      <4>2. /\ Len(chain) < MaxBlocks /\ StateOf(tx.id) = "Disputed"
            /\ ~AgentIsArbiter(tx.id) /\ mempool' = mempool
        BY <3>4, <4>1, ConstantTypes DEF RuleOther, TypeOK
      <4>3. RulingsStand'
        BY <1>2, <4>1, <4>2, NewRulingStands
      <4> QED BY <1>2, <4>2, <4>3 DEF RulingsJustified, Justified
    <3> QED BY <3>1, <3>2, <3>3, <3>4
  <2>4. ASSUME NEW tx \in mempool, MineRuling(tx)
        PROVE  RulingsJustified' /\ RulingsStand'
    <3>1. RulingsStand'
      BY <1>2, <2>4, MinedRulingStands
    <3>2. mempool' \subseteq mempool
      BY <2>4 DEF MineRuling
    <3> QED BY <1>2, <3>1, <3>2 DEF RulingsJustified, Justified
  <2>5. ASSUME NEW height \in Heights, Reorg(height)
        PROVE  RulingsJustified' /\ RulingsStand'
    BY <1>2, <2>5, ReorgKeepsRulings DEF RulingsJustified
  <2> QED BY <2>2, <2>3, <2>4, <2>5 DEF ChainStep
<1> QED BY <1>1, <1>3, <1>4, <1>5

-----------------------------------------------------------------------------
(***************************************************************************)
(* The steps of the agent.  The chain stands still in them.                *)
(***************************************************************************)
\* The parts of the invariant that only a step of the chain could break.
LEMMA StillChain ==
  ASSUME AgentInvariant, UNCHANGED <<chain, final>>
  PROVE  /\ todo' \subseteq todo /\ rulings' = rulings => EvidenceStays'
         /\ rulings' = rulings => RulingsStand'
         /\ mempool' = mempool /\ rulings' = rulings =>
              \A tx \in mempool' : Justified(tx)'
<1>1. ASSUME NEW S, StaysOnRecord(S)
      PROVE  S # {} /\ \A s \in S : OnRecord(s)' /\ s.block <= final'
  BY <1>1 DEF StaysOnRecord, OnRecord, IsDisputeRaised, SubmissionAt
<1>2. todo' \subseteq todo /\ rulings' = rulings => EvidenceStays'
  BY <1>1 DEF AgentInvariant, EvidenceStays, StaysOnRecord
<1>3. rulings' = rulings => RulingsStand'
  BY SameChainRulings DEF AgentInvariant
<1>4. mempool' = mempool /\ rulings' = rulings => \A tx \in mempool' : Justified(tx)'
  BY DEF AgentInvariant, RulingsJustified, Justified
<1> QED BY <1>2, <1>3, <1>4

\* A step that reads nothing, broadcasts nothing and moves no cursor.
LEMMA QuietStep ==
  ASSUME AgentInvariant, TypeOK',
         UNCHANGED <<chain, final, mempool, nextBlock, window, seen, rulings>>,
         todo' \subseteq todo,
         Scanning' => Scanning,
         Settling' => Settling,
         phase' \in {"send", "await"} => decision' \in Model!Decisions
  PROVE  AgentInvariant'
<1>1. EvidenceStays' /\ RulingsStand' /\ \A tx \in mempool' : Justified(tx)'
  BY StillChain
<1>2. StaysBelowFinal'
  BY DEF AgentInvariant, StaysBelowFinal
<1>3. WindowSeen'
  BY DEF AgentInvariant, WindowSeen, LogsIn, SubmissionAt, IsDisputeRaised
<1>4. CursorMissesNothing'
  BY DEF AgentInvariant, CursorMissesNothing, LogsIn, SubmissionAt, IsDisputeRaised
<1>5. RulingsJustified'
  BY <1>1 DEF RulingsJustified
<1> QED BY <1>1, <1>2, <1>3, <1>4, <1>5 DEF AgentInvariant

\* A cold start begins at a block there is.
LEMMA ColdStartInRange ==
  ASSUME TypeOK, NEW safe \in Nat, safe > 0
  PROVE  ColdStart(safe) \in 1 .. safe
<1>1. lookback \in Nat /\ StartBlockLookback \in Nat \ {0}
      /\ (lookback # 0 => lookback \in Nat \ {0})
  BY AgentAssumption DEF TypeOK, AgentAssumption
<1> QED BY <1>1 DEF ColdStart

\* The window ends below final by as much as a replica may lag.
LEMMA StartPollInvariant ==
  ASSUME AgentInvariant, NEW head \in Views, StartPoll(head)
  PROVE  AgentInvariant'
<1> DEFINE safe == SafeBlock(head)
           from == IF nextBlock = 0 THEN ColdStart(safe) ELSE nextBlock
           to == WindowEnd(from, safe)
<1>1. /\ TypeOK /\ StaysBelowFinal
      /\ final \in Nat /\ Len(chain) \in Nat /\ Len(chain) <= MaxBlocks
      /\ nextBlock \in Nat
  BY DEF AgentInvariant, TypeOK, Heights
<1>2. head \in Nat /\ head <= Len(chain)
  BY <1>1, MaxOfTwo, ConstantTypes DEF Views
<1>3. safe \in Nat /\ safe > 0 /\ safe + MaxLag <= final /\ safe <= MaxBlocks
  BY <1>1, <1>2, ConstantTypes, AgentAssumption
  DEF StartPoll, SafeBlock, StaysBelowFinal, AgentAssumption
<1>4. from \in 1 .. safe
  BY <1>1, <1>3, ColdStartInRange DEF StartPoll
<1>5. to \in Nat /\ to <= safe
  BY <1>3, <1>4, MinOfTwo, ConstantTypes DEF WindowEnd
<1>6. /\ UNCHANGED <<chainVars, processVars, todo, decision, rulings>>
      /\ nextBlock' = from
      /\ seen' = IF nextBlock = 0 THEN [from |-> from, logs |-> {}] ELSE seen
      /\ window' = [from |-> from, to |-> to, safe |-> safe]
      /\ phase' = "fetch"
  BY DEF StartPoll
<1> HIDE DEF safe, from, to
<1>7. /\ UNCHANGED <<chain, final, mempool, faults, lookback, cancelled>>
      /\ UNCHANGED <<todo, decision, rulings>>
  BY <1>6 DEF chainVars, processVars
<1>8. TypeOK'
  <2>1. from \in 1 .. MaxBlocks /\ from \in 0 .. (MaxBlocks + 1) /\ from \in Heights
        /\ to \in Heights /\ safe \in Heights
    BY <1>3, <1>4, <1>5, ConstantTypes DEF Heights
  <2>2. window' \in [from: 1 .. MaxBlocks, to: Heights, safe: Heights]
    BY <1>6, <2>1
  <2>3. seen' \in [from: Heights, logs: SUBSET Submissions]
    BY <1>1, <1>6, <2>1 DEF TypeOK
  <2> QED BY <1>1, <1>6, <1>7, <2>1, <2>2, <2>3 DEF TypeOK
<1>9. StaysBelowFinal'
  <2>1. window'.from = nextBlock' /\ window'.to <= window'.safe
        /\ window'.safe + MaxLag <= final'
    BY <1>3, <1>5, <1>6, <1>7
  <2>2. nextBlock' - 1 <= final'
    BY <1>1, <1>3, <1>4, <1>6, <1>7, ConstantTypes
  <2> QED BY <1>1, <1>7, <2>1, <2>2 DEF StaysBelowFinal
<1>10. EvidenceStays' /\ RulingsStand' /\ \A tx \in mempool' : Justified(tx)'
  BY <1>7, StillChain
<1>11. WindowSeen' /\ RulingsJustified'
  BY <1>6, <1>10 DEF WindowSeen, Settling, RulingsJustified
<1>12. CursorMissesNothing'
  <2>1. CASE nextBlock = 0
    <3>1. seen'.from = from /\ nextBlock' = from
      BY <1>6, <2>1
    <3>2. seen'.from .. (nextBlock' - 1) = {}
      BY <1>3, <1>4, <3>1
    <3> QED BY <3>2 DEF CursorMissesNothing, LogsIn
  <2>2. CASE nextBlock # 0
    <3>1. nextBlock' = nextBlock /\ seen' = seen
      BY <1>6, <2>2 DEF from
    <3> QED BY <1>7, <3>1
        DEF AgentInvariant, CursorMissesNothing, LogsIn, SubmissionAt, IsDisputeRaised
  <2> QED BY <2>1, <2>2
<1> QED BY <1>8, <1>9, <1>10, <1>11, <1>12 DEF AgentInvariant

\* Even the replica that lags most has the whole window.
LEMMA FetchInvariant ==
  ASSUME AgentInvariant, NEW view \in Views, Fetch(view)
  PROVE  AgentInvariant'
<1>1. /\ TypeOK /\ StaysBelowFinal
      /\ final \in Nat /\ Len(chain) \in Nat /\ final <= Len(chain)
      /\ window.to \in Nat /\ window.from \in Nat \ {0} /\ window.safe \in Nat
  BY DEF AgentInvariant, TypeOK, Heights, StaysBelowFinal
<1>2. phase = "fetch" /\ window.to <= window.safe /\ window.safe + MaxLag <= final
  BY <1>1 DEF Fetch, Running, StaysBelowFinal, Scanning
<1>3. view \in Int /\ view >= Len(chain) - MaxLag
  BY <1>1, MaxOfTwo, ConstantTypes DEF Views
<1>4. Min({window.to, view}) = window.to /\ window.to <= final
  <2>1. window.to <= final /\ window.to <= view
    BY <1>1, <1>2, <1>3, ConstantTypes
  <2>2. Min({window.to, view}) = IF window.to <= view THEN window.to ELSE view
    BY <1>1, <1>3, MinOfTwo
  <2> QED BY <2>1, <2>2
<1>5. /\ todo' = DisputesIn(window.from, window.to)
      /\ seen' = [seen EXCEPT !.logs =
            @ \cup {SubmissionAt(h) : h \in LogsIn(window.from, window.to)}]
      /\ phase' = "settle"
      /\ UNCHANGED <<chain, final, mempool, faults, lookback, cancelled, nextBlock,
                     window, decision, rulings>>
  BY <1>4 DEF Fetch, chainVars, processVars
<1>6. \A h \in LogsIn(window.from, window.to) :
         /\ SubmissionAt(h) \in Submissions /\ chain[h].id \in Ids
         /\ OnRecord(SubmissionAt(h)) /\ SubmissionAt(h).block <= final
  <2> SUFFICES ASSUME NEW h \in LogsIn(window.from, window.to)
               PROVE  /\ SubmissionAt(h) \in Submissions /\ chain[h].id \in Ids
                      /\ OnRecord(SubmissionAt(h)) /\ SubmissionAt(h).block <= final
    OBVIOUS
  <2>1. /\ h \in 1 .. Len(chain) /\ h \in window.from .. window.to
        /\ SubmissionAt(h) \in Submissions
        /\ SubmissionAt(h).block = h /\ SubmissionAt(h).id = chain[h].id
    BY <1>1, LogTypes
  <2>2. IsDisputeRaised(chain[h]) /\ h \in DOMAIN chain
    BY DEF LogsIn
  <2> QED BY <1>1, <1>4, <2>1, <2>2 DEF OnRecord, Submissions
<1>7. \A d \in todo' : d \in Disputes /\ StaysOnRecord(d.submissions)
  <2> SUFFICES ASSUME NEW g \in LogsIn(window.from, window.to), NEW d,
                      d = [id |-> chain[g].id,
                           submissions |-> SubmissionsFor(chain[g].id, window.from, window.to)]
               PROVE  d \in Disputes /\ StaysOnRecord(d.submissions)
    BY <1>5 DEF DisputesIn
  <2>1. d.submissions = {SubmissionAt(h) : h \in {k \in LogsIn(window.from, window.to) :
                                                    chain[k].id = chain[g].id}}
    BY DEF SubmissionsFor
  <2>2. SubmissionAt(g) \in d.submissions
    BY <2>1
  <2>3. \A s \in d.submissions : s \in Submissions /\ OnRecord(s) /\ s.block <= final
    BY <1>6, <2>1
  <2>4. chain[g].id \in Ids /\ d.submissions \in SUBSET Submissions
    BY <1>6, <2>3
  <2>5. d \in Disputes
    BY <2>4 DEF Disputes
  <2> QED BY <2>2, <2>3, <2>5 DEF StaysOnRecord
<1>8. TypeOK'
  <2>1. seen' \in [from: Heights, logs: SUBSET Submissions]
    BY <1>1, <1>5, <1>6 DEF TypeOK
  <2> QED BY <1>1, <1>5, <1>7, <2>1 DEF TypeOK
<1>9. StaysBelowFinal'
  BY <1>1, <1>2, <1>5 DEF StaysBelowFinal, Scanning
<1>10. EvidenceStays'
  BY <1>5, <1>7 DEF AgentInvariant, EvidenceStays, StaysOnRecord, OnRecord,
                    IsDisputeRaised, SubmissionAt
<1>11. WindowSeen'
  BY <1>1, <1>5 DEF WindowSeen, LogsIn, SubmissionAt, IsDisputeRaised, TypeOK
<1>12. CursorMissesNothing'
  <2>1. seen'.from = seen.from /\ seen.logs \subseteq seen'.logs
    BY <1>1, <1>5 DEF TypeOK
  <2> QED BY <1>5, <2>1
      DEF AgentInvariant, CursorMissesNothing, LogsIn, SubmissionAt, IsDisputeRaised
<1>13. RulingsStand' /\ RulingsJustified'
  BY <1>5, StillChain DEF RulingsJustified
<1> QED BY <1>8, <1>9, <1>10, <1>11, <1>12, <1>13 DEF AgentInvariant

\* The cursor moves to the end of a window that has been seen.
LEMMA EndPollInvariant ==
  ASSUME AgentInvariant, EndPoll
  PROVE  AgentInvariant'
<1>1. /\ TypeOK /\ StaysBelowFinal /\ Settling
      /\ final \in Nat /\ window.to \in Nat /\ window.from \in Nat \ {0}
      /\ window.safe \in Nat /\ window.to <= MaxBlocks
  BY DEF AgentInvariant, EndPoll, Settling, TypeOK, Heights
<1>2. /\ nextBlock' = window.to + 1 /\ phase' = "idle" /\ window' = NoWindow
      /\ UNCHANGED <<chain, final, mempool, faults, lookback, cancelled, todo,
                     decision, seen, rulings>>
  BY DEF EndPoll, chainVars, processVars
<1>3. window.from = nextBlock /\ window.to <= final
  BY <1>1, ConstantTypes DEF StaysBelowFinal, Scanning
<1>4. TypeOK'
  <2>1. NoWindow \in [from: 1 .. MaxBlocks, to: Heights, safe: Heights]
    BY ConstantTypes DEF NoWindow, Heights
  <2>2. nextBlock' \in 0 .. (MaxBlocks + 1)
    BY <1>1, <1>2, ConstantTypes
  <2> QED BY <1>1, <1>2, <2>1, <2>2 DEF TypeOK
<1>5. StaysBelowFinal'
  BY <1>1, <1>2, <1>3 DEF StaysBelowFinal, Scanning, Settling
<1>6. EvidenceStays' /\ RulingsStand' /\ \A tx \in mempool' : Justified(tx)'
  BY <1>2, StillChain
<1>7. WindowSeen' /\ RulingsJustified'
  BY <1>2, <1>6 DEF WindowSeen, Settling, RulingsJustified
<1>8. CursorMissesNothing'
  <2> SUFFICES ASSUME NEW h \in seen.from .. window.to,
                      h \in DOMAIN chain, IsDisputeRaised(chain[h])
               PROVE  SubmissionAt(h) \in seen.logs
    BY <1>1, <1>2 DEF CursorMissesNothing, LogsIn, SubmissionAt, IsDisputeRaised
  <2>1. CASE h < window.from
    <3>1. nextBlock # 0 /\ h \in seen.from .. (nextBlock - 1)
      BY <1>1, <1>3, <2>1 DEF TypeOK, Heights
    <3> QED BY <3>1 DEF AgentInvariant, CursorMissesNothing, LogsIn
  <2>2. CASE h >= window.from
    <3>1. h \in window.from .. window.to
      BY <1>1, <2>2 DEF TypeOK, Heights
    <3> QED BY <1>1, <3>1 DEF AgentInvariant, WindowSeen, LogsIn
  <2> QED BY <1>1, <2>1, <2>2 DEF TypeOK, Heights
<1> QED BY <1>4, <1>5, <1>6, <1>7, <1>8 DEF AgentInvariant

\* A ruling is broadcast with the evidence it rests on.
LEMMA SendInvariant ==
  ASSUME AgentInvariant, NEW dispute \in todo, NEW view \in Views, Send(dispute, view)
  PROVE  AgentInvariant'
<1>1. TypeOK /\ phase = "send" /\ Settling /\ Scanning
  BY DEF AgentInvariant, Send, Running, Settling, Scanning
<1>2. UNCHANGED <<chain, final, faults, lookback, cancelled, nextBlock, window, seen>>
  BY DEF Send, processVars
<1>3. CASE ~Accepts(Tx(dispute), view)
  <2>1. /\ UNCHANGED <<mempool, rulings>> /\ todo' \subseteq todo
        /\ phase' = "settle" /\ decision' = NoDecision
    BY <1>3 DEF Send, NextDispute
  <2>2. TypeOK'
    BY <1>1, <1>2, <2>1 DEF TypeOK
  <2> QED BY <1>1, <1>2, <2>1, <2>2, QuietStep
<1>4. CASE Accepts(Tx(dispute), view)
  <2> DEFINE r == [id |-> dispute.id, ruling |-> decision.name,
                   submissions |-> dispute.submissions, safe |-> window.safe]
  <2>1. /\ mempool' = mempool \cup {Tx(dispute)}
        /\ rulings' = rulings \cup {r}
        /\ phase' = "await"
        /\ UNCHANGED <<todo, decision>>
    BY <1>4 DEF Send
  <2>2. /\ decision \in Model!Decisions
        /\ decision.name \in {"BuyerWins", "SellerWins"}
        /\ Model!SideOf(decision.ruling) = decision.name
    BY <1>1, DecisionNumber DEF AgentInvariant, RulingsJustified
  <2>3. /\ dispute.id \in Ids /\ dispute.submissions \in SUBSET Submissions
        /\ window.safe \in Heights
    BY <1>1 DEF TypeOK, Disputes
  <2>4. r \in [id: Ids, ruling: {"BuyerWins", "SellerWins"},
              submissions: SUBSET Submissions, safe: Heights]
    BY <2>2, <2>3
  <2>5. Tx(dispute) \in Transactions /\ Tx(dispute).id = dispute.id
        /\ Tx(dispute).ruling = decision.ruling
    BY <2>2, <2>3 DEF Tx, Transactions, Model!Args
  <2>6. /\ r.id = dispute.id /\ r.ruling = decision.name
        /\ r.submissions = dispute.submissions
    OBVIOUS
  <2> HIDE DEF r
  <2>7. TypeOK'
    BY <1>1, <1>2, <2>1, <2>4, <2>5 DEF TypeOK
  <2>8. StaysBelowFinal'
    BY <1>1, <1>2 DEF AgentInvariant, StaysBelowFinal
  <2>9. EvidenceStays'
    <3>1. StaysOnRecord(r.submissions)
      BY <2>6 DEF AgentInvariant, EvidenceStays
    <3> QED BY <1>2, <2>1, <3>1
        DEF AgentInvariant, EvidenceStays, StaysOnRecord, OnRecord, IsDisputeRaised, SubmissionAt
  <2>10. WindowSeen' /\ CursorMissesNothing'
    BY <1>1, <1>2 DEF AgentInvariant, WindowSeen, CursorMissesNothing, LogsIn,
                      SubmissionAt, IsDisputeRaised
  <2>11. RulingsJustified'
    <3>1. \A tx \in mempool' : \E q \in rulings' :
             q.id = tx.id /\ q.ruling = Model!SideOf(tx.ruling)
      BY <2>1, <2>2, <2>5, <2>6 DEF AgentInvariant, RulingsJustified, Justified
    <3> QED BY <2>1, <2>2, <3>1 DEF RulingsJustified, Justified
  <2>12. RulingsStand'
    BY <1>2, <2>1, SameChainRulings DEF AgentInvariant
  <2> QED BY <2>7, <2>8, <2>9, <2>10, <2>11, <2>12 DEF AgentInvariant
<1> QED BY <1>3, <1>4

\* A process that has ended has left its rulings behind and nothing else.
LEMMA GoneInvariant ==
  ASSUME AgentInvariant, Gone, UNCHANGED <<chain, final, mempool>>, faults' \in 0 .. MaxFaults
  PROVE  AgentInvariant'
<1>1. /\ phase' = "down" /\ lookback' = 0 /\ cancelled' = FALSE /\ nextBlock' = 0
      /\ window' = NoWindow /\ todo' = {} /\ decision' = NoDecision
      /\ seen' = NothingSeen /\ rulings' = rulings
  BY DEF Gone
<1>2. TypeOK'
  <2>1. NoWindow \in [from: 1 .. MaxBlocks, to: Heights, safe: Heights]
    BY ConstantTypes DEF NoWindow, Heights
  <2>2. NothingSeen \in [from: Heights, logs: SUBSET Submissions]
    BY ConstantTypes DEF NothingSeen, Heights
  <2>3. 0 \in 0 .. (MaxBlocks + 1)
    BY ConstantTypes
  <2> QED BY <1>1, <2>1, <2>2, <2>3 DEF AgentInvariant, TypeOK
<1>3. StaysBelowFinal'
  BY <1>1 DEF AgentInvariant, StaysBelowFinal, Scanning, Settling, TypeOK, Heights
<1>4. EvidenceStays' /\ RulingsStand' /\ \A tx \in mempool' : Justified(tx)'
  BY <1>1, StillChain
<1>5. WindowSeen' /\ RulingsJustified' /\ CursorMissesNothing'
  BY <1>1, <1>4 DEF WindowSeen, Settling, RulingsJustified, CursorMissesNothing
<1> QED BY <1>2, <1>3, <1>4, <1>5 DEF AgentInvariant

\* A failure is counted or, after a signal, is none.
LEMMA FailureTypes ==
  ASSUME TypeOK, Fault \/ UNCHANGED faults
  PROVE  faults' \in 0 .. MaxFaults
BY ConstantTypes DEF TypeOK, Fault

\* The process is told to stop.
LEMMA CancelInvariant ==
  ASSUME AgentInvariant, Cancel, Fault \/ UNCHANGED faults
  PROVE  AgentInvariant'
<1>1. /\ UNCHANGED <<chain, final, mempool, lookback, nextBlock, phase, window, todo,
                     decision, seen, rulings>>
      /\ cancelled' = TRUE /\ faults' \in 0 .. MaxFaults
  BY FailureTypes DEF Cancel, AgentInvariant
<1>2. TypeOK'
  BY <1>1 DEF AgentInvariant, TypeOK
<1> QED BY <1>1, <1>2, QuietStep DEF Scanning, Settling, AgentInvariant, RulingsJustified

\* The calls of Poll that go through, and the end of the process.
LEMMA AgentStepInvariant ==
  ASSUME AgentInvariant, AgentStep
  PROVE  AgentInvariant'
<1>1. TypeOK
  BY DEF AgentInvariant
<1>2. ASSUME NEW dispute \in todo, NEW view \in Views, Skip(dispute, view)
      PROVE  AgentInvariant'
  <2>1. /\ UNCHANGED <<chain, final, mempool, faults, lookback, cancelled, nextBlock,
                       window, seen, rulings>>
        /\ todo' \subseteq todo /\ phase' = "settle" /\ decision' = NoDecision
        /\ Settling
    BY <1>2 DEF Skip, NextDispute, chainVars, processVars, Running, Settling
  <2>2. TypeOK'
    BY <1>1, <2>1 DEF TypeOK
  <2> QED BY <2>1, <2>2, QuietStep DEF Scanning
<1>3. ASSUME NEW dispute \in todo, NEW view \in Views, CheckState(dispute, view)
      PROVE  AgentInvariant'
  <2>1. /\ UNCHANGED <<chain, final, mempool, faults, lookback, cancelled, nextBlock,
                       window, todo, decision, seen, rulings>>
        /\ phase' = "judge" /\ Settling
    BY <1>3 DEF CheckState, chainVars, processVars, Running, Settling
  <2>2. TypeOK'
    BY <1>1, <2>1 DEF TypeOK
  <2> QED BY <2>1, <2>2, QuietStep DEF Scanning
<1>4. ASSUME NEW answer \in Model!Decisions, Judge(answer)
      PROVE  AgentInvariant'
  <2>1. /\ UNCHANGED <<chain, final, mempool, faults, lookback, cancelled, nextBlock,
                       window, todo, seen, rulings>>
        /\ phase' = "send" /\ decision' = answer /\ Settling
    BY <1>4 DEF Judge, chainVars, processVars, Running, Settling
  <2>2. TypeOK'
    BY <1>1, <2>1 DEF TypeOK
  <2> QED BY <2>1, <2>2, QuietStep DEF Scanning
<1>5. ASSUME NEW dispute \in todo, Receipt(dispute)
      PROVE  AgentInvariant'
  <2>1. /\ UNCHANGED <<chain, final, mempool, faults, lookback, cancelled, nextBlock,
                       window, seen, rulings>>
        /\ todo' \subseteq todo /\ phase' = "settle" /\ decision' = NoDecision
        /\ Settling
    BY <1>5 DEF Receipt, NextDispute, chainVars, processVars, Running, Settling
  <2>2. TypeOK'
    BY <1>1, <2>1 DEF TypeOK
  <2> QED BY <2>1, <2>2, QuietStep DEF Scanning
<1>6. CASE Exit
  <2>1. Gone /\ UNCHANGED <<chain, final, mempool>> /\ faults' \in 0 .. MaxFaults
    BY <1>1, <1>6 DEF Exit, chainVars, TypeOK
  <2> QED BY <2>1, GoneInvariant
<1> QED BY <1>2, <1>3, <1>4, <1>5, <1>6, StartPollInvariant, FetchInvariant,
           SendInvariant, EndPollInvariant DEF AgentStep

\* The calls of Poll that fail.
LEMMA CallFailsInvariant ==
  ASSUME AgentInvariant, CallFails
  PROVE  AgentInvariant'
<1>1. TypeOK
  BY DEF AgentInvariant
<1>2. CASE FetchFails
  <2>1. /\ UNCHANGED <<chain, final, mempool, lookback, cancelled, nextBlock, todo,
                       decision, seen, rulings>>
        /\ phase' = "idle" /\ window' = NoWindow /\ faults' \in 0 .. MaxFaults
    BY <1>1, <1>2, FailureTypes DEF FetchFails, Failing, processVars
  <2>2. TypeOK'
    <3>1. NoWindow \in [from: 1 .. MaxBlocks, to: Heights, safe: Heights]
      BY ConstantTypes DEF NoWindow, Heights
    <3> QED BY <1>1, <2>1, <3>1 DEF TypeOK
  <2>3. StaysBelowFinal'
    BY <2>1 DEF AgentInvariant, StaysBelowFinal, Scanning, Settling
  <2>4. EvidenceStays' /\ RulingsStand' /\ \A tx \in mempool' : Justified(tx)'
    BY <2>1, StillChain
  <2>5. WindowSeen' /\ RulingsJustified'
    BY <2>1, <2>4 DEF WindowSeen, Settling, RulingsJustified
  <2>6. CursorMissesNothing'
    BY <2>1 DEF AgentInvariant, CursorMissesNothing, LogsIn, SubmissionAt, IsDisputeRaised
  <2> QED BY <2>2, <2>3, <2>4, <2>5, <2>6 DEF AgentInvariant
<1>3. ASSUME NEW dispute \in todo, SettleFails(dispute)
      PROVE  AgentInvariant'
  <2>1. /\ UNCHANGED <<chain, final, mempool, lookback, cancelled, nextBlock, window,
                       seen, rulings>>
        /\ todo' \subseteq todo /\ phase' = "settle" /\ decision' = NoDecision
        /\ Settling /\ faults' \in 0 .. MaxFaults
    BY <1>1, <1>3, FailureTypes
    DEF SettleFails, NextDispute, Failing, processVars, Settling
  <2>2. TypeOK'
    BY <1>1, <2>1 DEF TypeOK
  <2> QED BY <2>1, <2>2, QuietStep DEF Scanning
<1> QED BY <1>2, <1>3 DEF CallFails

\* Every step of the system, the operator's included.
LEMMA StepInvariant == AgentInvariant /\ [Next \/ Recall]_vars => AgentInvariant'
<1> SUFFICES ASSUME AgentInvariant, [Next \/ Recall]_vars PROVE AgentInvariant'
  OBVIOUS
<1>1. TypeOK
  BY DEF AgentInvariant
<1>2. ASSUME NEW back \in {0} \cup Lookbacks, Start(back)
      PROVE  AgentInvariant'
  <2>1. /\ UNCHANGED <<chain, final, mempool, faults, cancelled, nextBlock, window,
                       todo, decision, seen, rulings>>
        /\ phase' = "idle" /\ lookback' = back
    BY <1>2 DEF Start, chainVars
  <2>2. TypeOK'
    BY <1>1, <2>1 DEF TypeOK
  <2> QED BY <2>1, <2>2, QuietStep DEF Scanning, Settling
<1>3. CASE Signal
  BY <1>3, CancelInvariant DEF Signal
<1>4. CASE Crash
  BY <1>1, <1>4, FailureTypes, GoneInvariant DEF Crash
<1>5. CASE Recall
  BY <1>5, CancelInvariant DEF Recall
<1>6. CASE UNCHANGED vars
  <2>1. UNCHANGED <<chain, final, mempool, faults, lookback, cancelled, nextBlock,
                    phase, window, todo, decision, seen, rulings>>
    BY <1>6 DEF vars, chainVars, agentVars, processVars
  <2>2. TypeOK'
    BY <1>1, <2>1 DEF TypeOK
  <2> QED BY <2>1, <2>2, QuietStep DEF Scanning, Settling, AgentInvariant, RulingsJustified
<1> QED BY <1>2, <1>3, <1>4, <1>5, <1>6, AgentStepInvariant, CallFailsInvariant,
           ChainStepInvariant DEF Next

\* Nothing is on the chain and nothing has been read.
LEMMA InitInvariant == Init => AgentInvariant
<1> SUFFICES ASSUME Init PROVE AgentInvariant
  OBVIOUS
<1>1. /\ chain = <<>> /\ final = 0 /\ mempool = {} /\ faults = 0
      /\ lookback = 0 /\ cancelled = FALSE /\ nextBlock = 0 /\ phase = "down"
      /\ window = NoWindow /\ todo = {} /\ decision = NoDecision
      /\ seen = NothingSeen /\ rulings = {}
  BY DEF Init, InitChain
<1>2. TypeOK
  <2>1. NoWindow \in [from: 1 .. MaxBlocks, to: Heights, safe: Heights]
    BY ConstantTypes DEF NoWindow, Heights
  <2>2. NothingSeen \in [from: Heights, logs: SUBSET Submissions]
    BY ConstantTypes DEF NothingSeen, Heights
  <2>3. 0 \in 0 .. (MaxBlocks + 1) /\ 0 \in Heights /\ 0 \in 0 .. MaxFaults
        /\ 0 <= MaxBlocks
    BY ConstantTypes DEF Heights
  <2>4. chain \in Seq(Blocks) /\ Len(chain) = 0
    BY <1>1
  <2> QED BY <1>1, <2>1, <2>2, <2>3, <2>4 DEF TypeOK
<1>3. StaysBelowFinal
  BY <1>1, ConstantTypes DEF StaysBelowFinal, Scanning, Settling
<1>4. EvidenceStays /\ WindowSeen /\ CursorMissesNothing /\ RulingsJustified /\ RulingsStand
  BY <1>1 DEF EvidenceStays, WindowSeen, Settling, CursorMissesNothing,
              RulingsJustified, RulingsStand
<1> QED BY <1>2, <1>3, <1>4 DEF AgentInvariant

-----------------------------------------------------------------------------
(***************************************************************************)
(* The blocks of the chain follow from one another.                        *)
(***************************************************************************)

\* So does what is legal there.
LEMMA LegalSame ==
  ASSUME NEW view, \A g \in 1 .. view : chain'[g] = chain[g], NEW b, Legal(b, view)
  PROVE  Legal(b, view)'
<1>1. \A id : StateAt(id, view)' = StateAt(id, view)
  BY StateSame
<1> QED BY <1>1 DEF Legal

\* A legal block may be added.
LEMMA MineLegal ==
  ASSUME TypeOK, TypeOK', StaysBelowFinal, LegalChain, Len(chain) < MaxBlocks,
         NEW b \in Blocks, Legal(b, Len(chain)), Mine(b)
  PROVE  LegalChain'
<1>1. /\ chain' \in Seq(Blocks) /\ Len(chain') = Len(chain) + 1
      /\ \A h \in 1 .. Len(chain) : chain'[h] = chain[h]
      /\ chain'[Len(chain) + 1] = b
      /\ Len(chain) \in Nat /\ DOMAIN chain = 1 .. Len(chain)
  BY MineKeeps DEF TypeOK
<1>2. ASSUME NEW h \in 1 .. Len(chain'), NEW c, c = chain'[h]
      PROVE  Legal(c, h - 1)'
  <2>1. \A g \in 1 .. (h - 1) : chain'[g] = chain[g]
    BY <1>1
  <2>2. Legal(c, h - 1)
    <3>1. CASE h = Len(chain) + 1
      BY <1>1, <1>2, <3>1
    <3>2. CASE h # Len(chain) + 1
      <4>1. h \in DOMAIN chain /\ c = chain[h]
        BY <1>1, <1>2, <3>2
      <4> QED BY <4>1 DEF LegalChain
    <3> QED BY <3>1, <3>2
  <2> QED BY <2>1, <2>2, LegalSame
<1>3. DOMAIN chain' = 1 .. Len(chain')
  BY <1>1
<1> QED BY <1>2, <1>3 DEF LegalChain

\* And the newest blocks may go.
LEMMA ReorgLegal ==
  ASSUME TypeOK, StaysBelowFinal, LegalChain, NEW height \in Heights, Reorg(height)
  PROVE  LegalChain'
<1>1. /\ chain' \in Seq(Blocks)
      /\ \A h \in 1 .. Len(chain') : h \in 1 .. Len(chain) /\ chain'[h] = chain[h]
  BY ReorgKeeps
<1>2. /\ DOMAIN chain' = 1 .. Len(chain') /\ Len(chain') \in Nat
      /\ DOMAIN chain = 1 .. Len(chain)
  BY <1>1 DEF TypeOK
<1>3. ASSUME NEW h \in DOMAIN chain', NEW c, c = chain'[h]
      PROVE  Legal(c, h - 1)'
  <2>1. h \in DOMAIN chain /\ c = chain[h]
    BY <1>1, <1>2, <1>3
  <2>2. \A g \in 1 .. (h - 1) : chain'[g] = chain[g]
    BY <1>1, <1>2
  <2>3. Legal(c, h - 1)
    BY <2>1 DEF LegalChain
  <2> QED BY <2>2, <2>3, LegalSame
<1> QED BY <1>3 DEF LegalChain

\* Whatever the chain does, it was legal where it was done.
LEMMA ChainStepLegal ==
  ASSUME TypeOK, StaysBelowFinal, LegalChain, ChainStep
  PROVE  LegalChain'
<1>1. TypeOK' /\ Len(chain) \in Nat
  BY ChainStepKeeps DEF TypeOK
<1>2. CASE MineOther
  <2>1. NoLog \in Blocks /\ Legal(NoLog, Len(chain)) /\ Len(chain) < MaxBlocks
    BY <1>1, <1>2, ConstantTypes DEF Blocks, Legal, NoLog, MineOther
  <2> QED BY <1>1, <1>2, <2>1, MineLegal DEF MineOther
<1>3. ASSUME NEW id \in Ids, Rotate(id)
      PROVE  LegalChain'
  <2> DEFINE b == [kind |-> "rotate", id |-> id, toAgent |-> ~AgentIsArbiter(id)]
  <2>1. b \in Blocks /\ Legal(b, Len(chain)) /\ Len(chain) < MaxBlocks
    BY <1>1, <1>3, ConstantTypes DEF Blocks, Legal, Rotate, StateOf
  <2> QED BY <1>1, <1>3, <2>1, MineLegal DEF Rotate
<1>4. ASSUME NEW id \in Ids, NEW by \in Parties, RaiseDispute(id, by)
      PROVE  LegalChain'
  <2> DEFINE b == [kind |-> "raise", id |-> id, by |-> by]
  <2>1. b \in Blocks /\ Legal(b, Len(chain)) /\ Len(chain) < MaxBlocks
    BY <1>1, <1>4, ConstantTypes DEF Blocks, Legal, RaiseDispute, StateOf
  <2> QED BY <1>1, <1>4, <2>1, MineLegal DEF RaiseDispute
<1>5. ASSUME NEW id \in Ids, NEW by \in Parties, SubmitEvidence(id, by)
      PROVE  LegalChain'
  <2> DEFINE b == [kind |-> "submit", id |-> id, by |-> by]
  <2>1. b \in Blocks /\ Legal(b, Len(chain)) /\ Len(chain) < MaxBlocks
    BY <1>1, <1>5, ConstantTypes DEF Blocks, Legal, SubmitEvidence, StateOf
  <2> QED BY <1>1, <1>5, <2>1, MineLegal DEF SubmitEvidence
<1>6. ASSUME NEW tx \in mempool, MineRuling(tx)
      PROVE  LegalChain'
  <2> DEFINE b == [kind |-> "ruling", id |-> tx.id, tx |-> tx]
  <2>1. CASE Accepts(tx, Len(chain))
    <3>1. b \in Blocks /\ Legal(b, Len(chain))
      BY <2>1 DEF Blocks, Legal, TypeOK, Accepts
    <3> QED BY <1>1, <1>6, <2>1, <3>1, MineLegal DEF MineRuling
  <2>2. CASE ~Accepts(tx, Len(chain))
    <3>1. chain' = chain
      BY <1>6, <2>2 DEF MineRuling
    <3> QED BY <3>1 DEF LegalChain, Legal, StateAt, OnChain
  <2> QED BY <2>1, <2>2
<1>7. ASSUME NEW height \in Heights, Reorg(height)
      PROVE  LegalChain'
  BY <1>7, ReorgLegal
<1>8. ASSUME NEW id \in Ids, RuleOther(id)
      PROVE  LegalChain'
  <2>1. PICK tx \in Transactions :
           tx.id = id /\ Mine([kind |-> "ruling", id |-> tx.id, tx |-> tx])
    BY <1>8, OtherRulingBlock
  <2> DEFINE b == [kind |-> "ruling", id |-> tx.id, tx |-> tx]
  <2>2. b \in Blocks /\ Legal(b, Len(chain)) /\ Len(chain) < MaxBlocks
    BY <1>1, <1>8, <2>1, ConstantTypes DEF Blocks, Legal, RuleOther, StateOf
  <2> QED BY <1>1, <2>1, <2>2, MineLegal
<1> QED BY <1>2, <1>3, <1>4, <1>5, <1>6, <1>7, <1>8 DEF ChainStep, UserStep

-----------------------------------------------------------------------------
(***************************************************************************)
(* The record of a dispute, at any height.                                 *)
(***************************************************************************)
\* Behind every log and every ruling there is the block that raised the dispute.
LEMMA RaisedFirst ==
  ASSUME TypeOK, LegalChain, NEW h \in DOMAIN chain,
         chain[h].kind \in {"raise", "submit", "ruling"}
  PROVE  \E g \in 1 .. h : chain[g].kind = "raise" /\ chain[g].id = chain[h].id
<1>1. h \in Nat \ {0} /\ chain[h] \in Blocks /\ Legal(chain[h], h - 1)
  BY DEF LegalChain, TypeOK
<1>2. CASE chain[h].kind = "raise"
  BY <1>1, <1>2
<1>3. CASE chain[h].kind \in {"submit", "ruling"}
  <2>1. StateAt(chain[h].id, h - 1) = "Disputed"
    BY <1>1, <1>3, BlockParts DEF Legal
  <2>2. OnChain("raise", chain[h].id, h - 1)
    BY <2>1 DEF StateAt
  <2> QED BY <1>1, <2>2 DEF OnChain
<1> QED BY <1>2, <1>3

\* After a ruling nothing more happens to an escrow.
LEMMA RulingIsLast ==
  ASSUME TypeOK, LegalChain, NEW g \in DOMAIN chain, NEW h \in DOMAIN chain,
         chain[g].kind = "ruling", chain[h].id = chain[g].id, chain[h].kind # "none"
  PROVE  h <= g
<1> SUFFICES ASSUME g < h PROVE FALSE
  BY DEF TypeOK
<1>1. g \in Nat \ {0} /\ h \in Nat /\ chain[h] \in Blocks /\ Legal(chain[h], h - 1)
  BY DEF LegalChain, TypeOK
<1>2. OnChain("ruling", chain[h].id, h - 1)
  BY <1>1 DEF OnChain
<1>3. StateAt(chain[h].id, h - 1) = "Resolved"
  BY <1>2 DEF StateAt
<1>4. chain[h].kind \in {"raise", "submit", "rotate", "ruling"}
  BY <1>1 DEF Blocks, NoLog
<1> QED BY <1>1, <1>3, <1>4, BlockParts DEF Legal

\* What an escrow has been through is what its stage says.
LEMMA StageTells ==
  ASSUME TypeOK, LegalChain, NEW id \in Ids, NEW view \in 0 .. Len(chain)
  PROVE  /\ StageAt(id, view) = CASE OnChain("ruling", id, view) -> "ruled"
                                  [] ~OnChain("ruling", id, view) /\ OnChain("raise", id, view) -> "open"
                                  [] OTHER -> "quiet"
         /\ (\E h \in OfEscrow(id, view) : IsDisputeRaised(chain[h]) \/ chain[h].kind = "ruling")
              <=> OnChain("raise", id, view)
         /\ (\E h \in OfEscrow(id, view) : IsDisputeRaised(chain[h])) <=> OnChain("raise", id, view)
<1>1. StageAt(id, view) = CASE OnChain("ruling", id, view) -> "ruled"
                            [] ~OnChain("ruling", id, view) /\ OnChain("raise", id, view) -> "open"
                            [] OTHER -> "quiet"
  BY DEF StageAt, StateAt
<1>2. /\ view \in Nat /\ view <= Len(chain) /\ DOMAIN chain = 1 .. Len(chain)
      /\ Len(chain) \in Nat
  BY DEF TypeOK
<1>3. ASSUME NEW h \in OfEscrow(id, view), chain[h].kind \in {"raise", "submit", "ruling"}
      PROVE  OnChain("raise", id, view)
  <2>1. h \in 1 .. view /\ chain[h].id = id /\ h \in DOMAIN chain
    BY <1>2 DEF OfEscrow
  <2>2. PICK g \in 1 .. h : chain[g].kind = "raise" /\ chain[g].id = id
    BY <1>3, <2>1, RaisedFirst
  <2>3. g \in 1 .. view
    BY <2>1
  <2> QED BY <2>2, <2>3 DEF OnChain
<1>4. ASSUME OnChain("raise", id, view)
      PROVE  \E h \in OfEscrow(id, view) : IsDisputeRaised(chain[h])
  BY <1>4 DEF OnChain, OfEscrow, IsDisputeRaised
<1> QED BY <1>1, <1>3, <1>4 DEF IsDisputeRaised

\* At any height the record is coherent.
LEMMA CaseCoherent ==
  ASSUME TypeOK, LegalChain, NEW id \in Ids, NEW view \in 0 .. Len(chain)
  PROVE  Record!Coherent(CaseAt(id, view))
<1> DEFINE heard == {h \in OfEscrow(id, view) : IsDisputeRaised(chain[h])}
           ruled == {h \in OfEscrow(id, view) : chain[h].kind = "ruling"}
           case == CaseAt(id, view)
<1>1. /\ case.stage = StageAt(id, view)
      /\ case.evidence = {chain[h].by : h \in heard}
      /\ case.rulings = {Model!SideOf(chain[h].tx.ruling) : h \in ruled}
  BY DEF CaseAt
<1>2. \A h \in OfEscrow(id, view) : h \in DOMAIN chain /\ h \in 1 .. view /\ chain[h].id = id
  BY DEF OfEscrow, TypeOK
<1>3. heard # {} <=> OnChain("raise", id, view)
  BY StageTells
<1>4. ruled # {} <=> OnChain("ruling", id, view)
  BY DEF OnChain, OfEscrow
<1>5. ruled # {} => heard # {}
  BY StageTells
<1>6. StageAt(id, view) = CASE ruled # {} -> "ruled"
                            [] ruled = {} /\ heard # {} -> "open"
                            [] OTHER -> "quiet"
  BY <1>3, <1>4, StageTells
<1>7. \A g, h \in ruled : g = h
  <2> SUFFICES ASSUME NEW g \in ruled, NEW h \in ruled PROVE g = h
    OBVIOUS
  <2>1. /\ g \in DOMAIN chain /\ h \in DOMAIN chain /\ g \in Nat /\ h \in Nat
        /\ chain[g].id = id /\ chain[h].id = id
        /\ chain[g].kind = "ruling" /\ chain[h].kind = "ruling"
    BY <1>2 DEF TypeOK
  <2>2. g <= h /\ h <= g
    BY <2>1, RulingIsLast
  <2> QED BY <2>1, <2>2
<1>8. \A h \in ruled : Model!SideOf(chain[h].tx.ruling) \in Record!Sides
  <2> SUFFICES ASSUME NEW h \in ruled PROVE Model!SideOf(chain[h].tx.ruling) \in Record!Sides
    OBVIOUS
  <2>1. chain[h] \in Blocks /\ chain[h].kind = "ruling"
    BY <1>2 DEF TypeOK
  <2>2. chain[h].tx \in Transactions
    BY <2>1, BlockParts
  <2>3. PICK d \in Model!Decisions : chain[h].tx.ruling = d.ruling
    BY <2>2 DEF Transactions, Model!Args
  <2> QED BY <2>3, DecisionNumber DEF Record!Sides
<1> HIDE DEF heard, ruled, case
<1>9. case.evidence # {} <=> heard # {}
  BY <1>1
<1>10. CASE ruled = {}
  <2>1. case.rulings = {} /\ case.stage # "ruled"
    BY <1>1, <1>6, <1>10
  <2> QED BY <1>1, <1>6, <1>9, <1>10, <2>1 DEF Record!Coherent, case
<1>11. CASE ruled # {}
  <2>1. PICK h \in ruled : ruled = {h}
    BY <1>7, <1>11
  <2>2. case.rulings = {Model!SideOf(chain[h].tx.ruling)}
    BY <1>1, <2>1
  <2>3. case.stage = "ruled" /\ heard # {}
    BY <1>1, <1>5, <1>6, <1>11
  <2> QED BY <1>8, <1>9, <2>2, <2>3 DEF Record!Coherent, case
<1> QED BY <1>10, <1>11

\* From any height to a later one the record goes on as it may.
LEMMA ViewsLead ==
  TypeOK /\ LegalChain =>
    \A id \in Ids, from, to \in 0 .. Len(chain) :
      from <= to => Record!Leads(CaseAt(id, from), CaseAt(id, to))
<1> SUFFICES ASSUME TypeOK, LegalChain, NEW id \in Ids,
                    NEW from \in 0 .. Len(chain), NEW to \in 0 .. Len(chain), from <= to
             PROVE  Record!Leads(CaseAt(id, from), CaseAt(id, to))
  OBVIOUS
<1>1. Len(chain) \in Nat /\ DOMAIN chain = 1 .. Len(chain)
  BY DEF TypeOK
<1>2. Record!Coherent(CaseAt(id, to)) /\ Record!Coherent(CaseAt(id, from))
  BY CaseCoherent
<1>3. OfEscrow(id, from) \subseteq OfEscrow(id, to)
  BY <1>1 DEF OfEscrow
<1>4. CaseAt(id, from).evidence \subseteq CaseAt(id, to).evidence
  BY <1>3 DEF CaseAt
<1>5. ASSUME OnChain("ruling", id, from)
      PROVE  CaseAt(id, to) = CaseAt(id, from)
  <2>1. PICK g \in 1 .. from : chain[g].kind = "ruling" /\ chain[g].id = id
    BY <1>5 DEF OnChain
  <2>2. g \in DOMAIN chain
    BY <1>1, <2>1
  <2>3. ASSUME NEW h \in OfEscrow(id, to) PROVE h \in OfEscrow(id, from)
    <3>1. h \in 1 .. to /\ h \in DOMAIN chain /\ chain[h].kind # "none" /\ chain[h].id = id
      BY <1>1 DEF OfEscrow
    <3>2. h <= g
      BY <2>1, <2>2, <3>1, RulingIsLast
    <3> QED BY <2>1, <3>1, <3>2 DEF OfEscrow
  <2>4. OfEscrow(id, to) = OfEscrow(id, from)
    BY <1>3, <2>3
  <2>5. OnChain("ruling", id, to)
    BY <1>1, <2>1 DEF OnChain
  <2>6. StageAt(id, to) = "ruled" /\ StageAt(id, from) = "ruled"
    BY <1>5, <2>5, StageTells
  <2> QED BY <2>4, <2>6 DEF CaseAt
<1>6. CaseAt(id, from).stage = StageAt(id, from) /\ CaseAt(id, to).stage = StageAt(id, to)
  BY DEF CaseAt
<1>7. CaseAt(id, from).stage \in {"settled", "ruled"} => CaseAt(id, to) = CaseAt(id, from)
  BY <1>5, <1>6, StageTells
<1>8. CaseAt(id, from).stage = "open" => CaseAt(id, to).stage \in {"open", "ruled"}
  <2>1. OnChain("raise", id, from) => OnChain("raise", id, to)
    BY <1>1 DEF OnChain
  <2> QED BY <1>6, <2>1, StageTells
<1> QED BY <1>2, <1>4, <1>7, <1>8 DEF Record!Leads

\* A step of the chain is a step of the record up to final.
LEMMA ChainStepRefines ==
  ASSUME TypeOK, TypeOK', LegalChain, LegalChain', StaysBelowFinal, Kept
  PROVE  Record!Transaction
<1>1. \A id \in Ids, from, to \in 0 .. Len(chain') :
        from <= to => Record!Leads(CaseAt(id, from)', CaseAt(id, to)')
  <2>1. (TypeOK /\ LegalChain)' =>
          (\A id \in Ids, from, to \in 0 .. Len(chain) :
             from <= to => Record!Leads(CaseAt(id, from), CaseAt(id, to)))'
    BY ViewsLead, PTL
  <2> QED BY <2>1
<1>2. final \in Nat /\ final' \in Nat /\ final <= final' /\ final' <= Len(chain')
      /\ Len(chain') \in Nat
  BY DEF Kept, TypeOK, Heights
<1>3. ASSUME NEW id \in Ids
      PROVE  Record!Leads(CaseAt(id, final), CaseAt(id, final)')
  <2>1. PICK from, to \in 0 .. Len(chain') : from = final /\ to = final'
    BY <1>2
  <2>2. CaseAt(id, final)' = CaseAt(id, to)'
    BY <2>1 DEF CaseAt, StageAt, StateAt, OnChain, OfEscrow
  <2>3. CaseAt(id, final) = CaseAt(id, from)'
    <3>1. \A g \in 1 .. from : chain'[g] = chain[g]
      BY <2>1 DEF Kept
    <3>2. StateAt(id, from)' = StateAt(id, from)
      BY <3>1, StateSame
    <3>3. OfEscrow(id, from)' = OfEscrow(id, from)
      BY <3>1 DEF OfEscrow
    <3>4. \A g \in OfEscrow(id, from) : g \in 1 .. from
      BY DEF OfEscrow
    <3> QED BY <2>1, <3>1, <3>2, <3>3, <3>4 DEF CaseAt, StageAt, IsDisputeRaised
  <2> QED BY <1>1, <1>2, <2>1, <2>2, <2>3
<1> QED BY <1>3 DEF Record!Transaction

-----------------------------------------------------------------------------
(***************************************************************************)
(* The disputes of a poll.                                                 *)
(***************************************************************************)
\* Two disputes that come first are one.
LEMMA CurrentIsUnique ==
  ASSUME TypeOK, EvidenceStays, TodoGrouped,
         NEW d \in todo, NEW e \in todo, Current(d), Current(e)
  PROVE  d = e
<1>1. ASSUME NEW f \in todo
      PROVE  \E s \in f.submissions : s.block = FirstBlock(f) /\ s.block \in Nat /\ OnRecord(s)
  <2> DEFINE B == {s.block : s \in f.submissions}
  <2>1. f.submissions # {} /\ \A s \in f.submissions : OnRecord(s) /\ s.block \in Nat
    BY DEF EvidenceStays, StaysOnRecord, TypeOK, Disputes, Submissions
  <2>2. B \subseteq Nat /\ B # {}
    BY <2>1
  <2>3. Min(B) \in B
    BY <2>2, LeastMember
  <2> QED BY <2>1, <2>3 DEF FirstBlock
<1>2. PICK s \in d.submissions : s.block = FirstBlock(d) /\ s.block \in Nat /\ OnRecord(s)
  BY <1>1
<1>3. PICK t \in e.submissions : t.block = FirstBlock(e) /\ t.block \in Nat /\ OnRecord(t)
  BY <1>1
<1>4. FirstBlock(d) <= FirstBlock(e) /\ FirstBlock(e) <= FirstBlock(d)
  BY DEF Current
<1>5. s.block = t.block
  BY <1>2, <1>3, <1>4
<1>6. s = t
  BY <1>2, <1>3, <1>5 DEF OnRecord
<1>7. d.id = e.id
  BY <1>6 DEF TodoGrouped
<1> QED BY <1>7 DEF TodoGrouped

\* At every view the agent may be shown, a dispute it has found is there.
LEMMA FoundIsDisputed ==
  ASSUME AgentInvariant, LegalChain, TodoGrouped, NEW d \in todo, NEW view \in Views
  PROVE  /\ view \in 0 .. Len(chain)
         /\ StateAt(d.id, view) \in {"Disputed", "Resolved"}
<1>1. /\ TypeOK /\ final \in Nat /\ Len(chain) \in Nat /\ final <= Len(chain)
      /\ window.to \in Nat /\ window.safe \in Nat /\ DOMAIN chain = 1 .. Len(chain)
  BY DEF AgentInvariant, TypeOK, StaysBelowFinal, Heights
<1>2. window.to <= window.safe /\ window.safe + MaxLag <= final
  BY DEF AgentInvariant, StaysBelowFinal, TodoGrouped, Scanning
<1>3. view \in Int /\ view >= Len(chain) - MaxLag /\ view >= 0 /\ view <= Len(chain)
  BY <1>1, MaxOfTwo, ConstantTypes DEF Views
<1>4. PICK s \in d.submissions : OnRecord(s) /\ s.id = d.id /\ s.block <= window.to
  BY DEF AgentInvariant, EvidenceStays, StaysOnRecord, TodoGrouped
<1>5. PICK h \in 1 .. Len(chain) : h = s.block
  BY <1>1, <1>4 DEF OnRecord
<1>6. IsDisputeRaised(chain[h]) /\ chain[h].id = d.id /\ h <= view
  <2>1. IsDisputeRaised(chain[h]) /\ SubmissionAt(h) = s
    BY <1>4, <1>5 DEF OnRecord
  <2>2. SubmissionAt(h).id = chain[h].id
    BY DEF SubmissionAt
  <2>3. h <= view
    BY <1>1, <1>2, <1>3, <1>4, <1>5, ConstantTypes
  <2> QED BY <1>4, <2>1, <2>2, <2>3
<1>7. PICK g \in 1 .. h : chain[g].kind = "raise" /\ chain[g].id = d.id
  BY <1>1, <1>6, RaisedFirst DEF IsDisputeRaised
<1>8. OnChain("raise", d.id, view)
  BY <1>3, <1>6, <1>7 DEF OnChain
<1> QED BY <1>3, <1>8 DEF StateAt

\* What a replica knows to be resolved is resolved.
LEMMA ResolvedBelow ==
  ASSUME TypeOK, NEW view \in 0 .. Len(chain), NEW id, StateAt(id, view) = "Resolved"
  PROVE  StateOf(id) = "Resolved"
<1>1. PICK h \in 1 .. view : chain[h].kind = "ruling" /\ chain[h].id = id
  BY DEF StateAt, OnChain
<1>2. h \in 1 .. Len(chain)
  BY DEF TypeOK
<1> QED BY <1>1, <1>2 DEF StateOf, StateAt, OnChain

\* The chain grows and keeps what it has.
Grows ==
    /\ Len(chain) <= Len(chain')
    /\ \A h \in 1 .. Len(chain) : chain'[h] = chain[h]

\* Then what is resolved stays resolved.
LEMMA ResolvedStays ==
  ASSUME TypeOK, TypeOK', Grows, NEW id, StateOf(id) = "Resolved"
  PROVE  StateOf(id)' = "Resolved"
<1>1. PICK h \in 1 .. Len(chain) : chain[h].kind = "ruling" /\ chain[h].id = id
  BY DEF StateOf, StateAt, OnChain
<1>2. h \in 1 .. Len(chain') /\ chain'[h].kind = "ruling" /\ chain'[h].id = id
  BY <1>1 DEF Grows, TypeOK
<1> QED BY <1>2 DEF StateOf, StateAt, OnChain

\* The agent stays the arbiter of what it has been entrusted with all along.
LEMMA EntrustedArbiter ==
  ASSUME Len(chain) \in Nat, NEW id, Entrusted(id), NEW view \in 0 .. Len(chain)
  PROVE  AgentIsArbiterAt(id, view)
BY DEF Entrusted, AgentIsArbiterAt, OnChain

\* What it is entrusted with after the chain has grown it was before.
LEMMA EntrustedBefore ==
  ASSUME Len(chain) \in Nat, Grows, NEW id, Entrusted(id)'
  PROVE  Entrusted(id)
BY DEF Grows, Entrusted, OnChain

\* config.StateDisputed is the number that the contract gives to that state.
LEMMA StateNumber ==
  ASSUME NEW id, NEW view
  PROVE  GetState(id, view) = StateDisputed <=> StateAt(id, view) = "Disputed"
<1>1. /\ StateEnum[1] = "None" /\ StateEnum[2] = "Created" /\ StateEnum[3] = "Funded"
      /\ StateEnum[4] = "Released" /\ StateEnum[5] = "Refunded"
      /\ StateEnum[6] = "Disputed" /\ StateEnum[7] = "Resolved"
  BY DEF StateEnum
<1>2. StateAt(id, view) \in {"Funded", "Disputed", "Resolved"}
  BY DEF StateAt
<1>3. \E n \in 0 .. 6 : StateEnum[n + 1] = StateAt(id, view)
  <2>1. 2 \in 0 .. 6 /\ 5 \in 0 .. 6 /\ 6 \in 0 .. 6 /\ 2 + 1 = 3 /\ 5 + 1 = 6 /\ 6 + 1 = 7
    OBVIOUS
  <2> QED BY <1>1, <1>2, <2>1
<1>4. GetState(id, view) \in 0 .. 6 /\ StateEnum[GetState(id, view) + 1] = StateAt(id, view)
  BY <1>3 DEF GetState
<1>5. \A n \in 0 .. 6 : StateEnum[n + 1] = "Disputed" <=> n = 5
  BY <1>1
<1> QED BY <1>4, <1>5 DEF StateDisputed

-----------------------------------------------------------------------------
(***************************************************************************)
(* Nothing is left behind.                                                 *)
(***************************************************************************)
\* A step in which the agent drops only disputes that are resolved.
LEMMA QuietProgress ==
  ASSUME AgentInvariant, ProgressInvariant, TypeOK',
         UNCHANGED <<chain, final, nextBlock, window, seen>>,
         todo' \subseteq todo,
         todo' # {} => Settling',
         cancelled' => phase' # "down",
         faults' = 0 => faults = 0,
         faults' = 0 /\ cancelled' => phase' = "idle",
         faults' = 0 /\ Settling' =>
           /\ Settling
           /\ \A d \in todo : d \notin todo' /\ Entrusted(d.id) => StateOf(d.id) = "Resolved",
         faults' = 0 /\ phase' = "await" =>
           \A d \in todo' : Current(d)' /\ Entrusted(d.id)' => Pending(d)'
  PROVE  ProgressInvariant'
<1>1. LegalChain'
  BY DEF ProgressInvariant, LegalChain, Legal, Accepts, StateAt, OnChain, AgentIsArbiterAt
<1>2. TodoGrouped'
  <2>1. IsFiniteSet(todo')
    BY FS_Subset DEF ProgressInvariant, TodoGrouped
  <2> QED BY <2>1 DEF ProgressInvariant, TodoGrouped
<1>3. \A id : StateOf(id)' = StateOf(id) /\ Entrusted(id)' = Entrusted(id)
  BY DEF StateOf, StateAt, OnChain, Entrusted
<1>4. \A from, to : LogsIn(from, to)' = LogsIn(from, to)
  BY DEF LogsIn, IsDisputeRaised
<1>5. DealsWithAll'
  <2> SUFFICES ASSUME faults' = 0, Settling', NEW h \in LogsIn(window.from, window.to)',
                      Entrusted(chain[h].id)'
               PROVE  StateOf(chain[h].id)' = "Resolved" \/ \E d \in todo' : d.id = chain[h].id
    BY DEF DealsWithAll
  <2>1. h \in LogsIn(window.from, window.to)
    BY <1>4
  <2>2. PICK id : id = chain[h].id
    OBVIOUS
  <2>3. StateOf(id) = "Resolved" \/ \E d \in todo : d.id = id
    BY <1>3, <2>1, <2>2 DEF ProgressInvariant, DealsWithAll
  <2>4. StateOf(id) = "Resolved" \/ \E d \in todo' : d.id = id
    BY <1>3, <2>2, <2>3
  <2> QED BY <1>3, <2>2, <2>4
<1>6. NothingLeftBehind'
  BY <1>3, <1>4 DEF ProgressInvariant, NothingLeftBehind
<1> QED BY <1>1, <1>2, <1>5, <1>6 DEF ProgressInvariant

\* A decision's number is one of the contract's, and it has a reason.
LEMMA DecisionTaken ==
  ASSUME NEW d \in Model!Decisions
  PROVE  d.ruling < Len(Model!RulingEnum) /\ d.rationale # ""
<1>1. PICK t \in Model!Texts : d = Model!ParseDecision(t) /\ d.error = "none"
  BY DEF Model!Decisions
<1>2. Model!ParseError(t) = "none"
  BY <1>1 DEF Model!ParseDecision, Model!NoDecision
<1>3. t.ruling \in {"BuyerWins", "SellerWins"} /\ Model!ParseRationale(t) = "none"
  BY <1>2 DEF Model!ParseError
<1>4. Model!Trimmed(t.rationale) # ""
  BY <1>3 DEF Model!ParseRationale
<1>5. d.ruling = Model!RulingNumber(t.ruling) /\ d.rationale = Model!Trimmed(t.rationale)
  BY <1>1, <1>2 DEF Model!ParseDecision
<1>6. Model!RulingNumber(t.ruling) \in {0, 1} /\ Len(Model!RulingEnum) = 2
  BY DEF Model!RulingNumber, Model!RulingEnum
<1>7. d.ruling \in {0, 1} /\ d.rationale # ""
  BY <1>4, <1>5, <1>6
<1>8. \A n \in {0, 1} : n < 2
  OBVIOUS
<1> QED BY <1>6, <1>7, <1>8

\* A ruling the agent has made is one the contract takes, in the right state.
LEMMA RulingIsTaken ==
  ASSUME NEW d, decision \in Model!Decisions, Len(chain) \in Nat, Entrusted(d.id),
         NEW view \in 0 .. Len(chain), StateAt(d.id, view) = "Disputed"
  PROVE  Accepts(Tx(d), view)
<1>1. /\ Tx(d).id = d.id /\ Tx(d).ruling = decision.ruling
      /\ Tx(d).rationale = decision.rationale
  BY DEF Tx, Model!Args
<1>2. Model!WellFormed(Tx(d))
  BY <1>1, DecisionTaken DEF Model!WellFormed
<1> QED BY <1>1, <1>2, EntrustedArbiter DEF Accepts

\* Between two calls of the agent the chain grows, or it reorganises and that is
\* a failure.
LEMMA ChainStepGrows ==
  ASSUME TypeOK, StaysBelowFinal, ChainStep, faults' = 0
  PROVE  faults = 0 /\ Grows
<1>1. faults \in Nat /\ Len(chain) \in Nat /\ Len(chain) <= MaxBlocks
  BY DEF TypeOK
<1>2. ASSUME NEW b \in Blocks, Len(chain) < MaxBlocks, Mine(b)
      PROVE  Grows
  <2>1. Len(chain') = Len(chain) + 1 /\ \A h \in 1 .. Len(chain) : chain'[h] = chain[h]
    BY <1>2, MineKeeps
  <2> QED BY <1>1, <2>1 DEF Grows
<1>3. CASE MineOther
  BY <1>1, <1>2, <1>3, ConstantTypes DEF MineOther, Blocks
<1>4. CASE UserStep
  <2>1. PICK id \in Ids : \/ Rotate(id) \/ RuleOther(id)
                         \/ \E by \in Parties : RaiseDispute(id, by) \/ SubmitEvidence(id, by)
    BY <1>4 DEF UserStep
  <2>2. CASE Rotate(id)
    <3>1. [kind |-> "rotate", id |-> id, toAgent |-> ~AgentIsArbiter(id)] \in Blocks
      BY DEF Blocks
    <3> QED BY <1>1, <1>2, <2>2, <3>1, ConstantTypes DEF Rotate
  <2>3. ASSUME NEW by \in Parties, RaiseDispute(id, by) \/ SubmitEvidence(id, by)
        PROVE  faults = 0 /\ Grows
    <3>1. /\ [kind |-> "raise", id |-> id, by |-> by] \in Blocks
          /\ [kind |-> "submit", id |-> id, by |-> by] \in Blocks
      BY DEF Blocks
    <3> QED BY <1>1, <1>2, <2>3, <3>1, ConstantTypes DEF RaiseDispute, SubmitEvidence
  <2>4. CASE RuleOther(id)
    <3>1. PICK tx \in Transactions : Mine([kind |-> "ruling", id |-> tx.id, tx |-> tx])
      BY <2>4, OtherRulingBlock
    <3>2. [kind |-> "ruling", id |-> tx.id, tx |-> tx] \in Blocks
      BY DEF Blocks
    <3> QED BY <1>1, <1>2, <2>4, <3>1, <3>2, ConstantTypes DEF RuleOther
  <2> QED BY <2>1, <2>2, <2>3, <2>4
<1>5. ASSUME NEW tx \in mempool, MineRuling(tx)
      PROVE  faults = 0 /\ Grows
  <2>1. faults' = faults /\ tx \in Transactions
    BY <1>5 DEF MineRuling, TypeOK
  <2>2. CASE Accepts(tx, Len(chain))
    <3>1. [kind |-> "ruling", id |-> tx.id, tx |-> tx] \in Blocks
      BY <2>1 DEF Blocks
    <3> QED BY <1>2, <1>5, <2>1, <2>2, <3>1 DEF MineRuling
  <2>3. CASE ~Accepts(tx, Len(chain))
    BY <1>1, <1>5, <2>1, <2>3 DEF MineRuling, Grows
  <2> QED BY <2>2, <2>3
<1>6. ASSUME NEW height \in Heights, Reorg(height)
      PROVE  FALSE
  BY <1>1, <1>6 DEF Reorg, Fault
<1> QED BY <1>3, <1>4, <1>5, <1>6 DEF ChainStep

\* The ruling the agent waits for stays pending until it is executed, or
\* somebody else's is.
LEMMA PendingStays ==
  ASSUME AgentInvariant, AgentInvariant', ProgressInvariant, ChainStep, Grows,
         NEW d \in todo, decision \in Model!Decisions, Entrusted(d.id), Pending(d)
  PROVE  Pending(d)'
<1>1. TypeOK /\ TypeOK' /\ StaysBelowFinal /\ Len(chain) \in Nat
  BY DEF AgentInvariant, TypeOK
<1>2. UNCHANGED <<todo, decision>>
  BY DEF ChainStep, agentVars
<1>3. Tx(d)' = Tx(d)
  BY <1>2 DEF Tx
<1>4. CASE StateOf(d.id) = "Resolved"
  BY <1>1, <1>4, ResolvedStays DEF Pending
<1>5. CASE Tx(d) \in mempool'
  BY <1>3, <1>5 DEF Pending
<1>6. CASE StateOf(d.id) # "Resolved" /\ Tx(d) \notin mempool'
  <2>1. Tx(d) \in mempool
    BY <1>6 DEF Pending
  <2>2. MineRuling(Tx(d))
    <3>1. ~MineOther /\ ~UserStep
      BY <1>6, <2>1 DEF MineOther, UserStep, Rotate, RaiseDispute, SubmitEvidence, RuleOther
    <3>2. \A height \in Heights : ~Reorg(height)
      BY <1>6, <2>1 DEF Reorg
    <3>3. PICK tx \in mempool : MineRuling(tx)
      BY <3>1, <3>2 DEF ChainStep
    <3>4. tx = Tx(d)
      BY <1>6, <2>1, <3>3 DEF MineRuling
    <3> QED BY <3>3, <3>4
  <2>3. Len(chain) \in Views
    BY <1>1, MaxOfTwo, ConstantTypes DEF Views
  <2>4. StateAt(d.id, Len(chain)) = "Disputed"
    BY <1>6, <2>3, FoundIsDisputed DEF ProgressInvariant, StateOf
  <2>5. Accepts(Tx(d), Len(chain))
    BY <1>1, <2>4, RulingIsTaken
  <2> DEFINE b == [kind |-> "ruling", id |-> Tx(d).id, tx |-> Tx(d)]
  <2>6. b \in Blocks /\ Len(chain) < MaxBlocks /\ Mine(b)
    BY <1>1, <2>1, <2>2, <2>5 DEF MineRuling, Blocks, TypeOK
  <2>7. Len(chain') = Len(chain) + 1 /\ chain'[Len(chain) + 1] = b
    BY <1>1, <2>6, MineKeeps
  <2>8. b.kind = "ruling" /\ b.id = d.id
    BY DEF Tx, Model!Args
  <2>9. OnChain("ruling", d.id, Len(chain))'
    BY <1>1, <2>7, <2>8 DEF OnChain
  <2> QED BY <2>9 DEF Pending, StateOf, StateAt
<1> QED BY <1>4, <1>5, <1>6

\* The chain goes on between two calls of the agent.
LEMMA ChainStepProgress ==
  ASSUME AgentInvariant, AgentInvariant', ProgressInvariant, ChainStep
  PROVE  ProgressInvariant'
<1>1. /\ TypeOK /\ TypeOK' /\ StaysBelowFinal /\ LegalChain /\ TodoGrouped
      /\ final \in Nat /\ Len(chain) \in Nat /\ final <= Len(chain)
      /\ DOMAIN chain = 1 .. Len(chain)
  <2>1. TypeOK /\ TypeOK' /\ StaysBelowFinal /\ LegalChain /\ TodoGrouped
    BY DEF AgentInvariant, ProgressInvariant
  <2>2. final \in Nat /\ Len(chain) \in Nat /\ DOMAIN chain = 1 .. Len(chain)
    BY <2>1 DEF TypeOK, Heights
  <2> QED BY <2>1, <2>2 DEF StaysBelowFinal
<1>2. UNCHANGED <<cancelled, nextBlock, phase, window, todo, decision, seen>>
  BY DEF ChainStep, agentVars, processVars
<1>3. LegalChain'
  BY <1>1, ChainStepLegal
<1>4. TodoGrouped' /\ (cancelled' => phase' # "down")
  BY <1>2 DEF ProgressInvariant, TodoGrouped, Settling
<1>5. ASSUME faults' = 0, NEW from \in Nat, NEW to \in Int, to <= final,
             NEW h \in LogsIn(from, to)', NEW id, id = chain'[h].id
      PROVE  /\ faults = 0 /\ h \in LogsIn(from, to) /\ id = chain[h].id
             /\ Entrusted(id)' => Entrusted(id)
             /\ StateOf(id) = "Resolved" => StateOf(id)' = "Resolved"
  <2>1. faults = 0 /\ Grows
    BY <1>1, <1>5, ChainStepGrows
  <2>2. h \in from .. to /\ h \in DOMAIN chain' /\ IsDisputeRaised(chain'[h])
    BY <1>5 DEF LogsIn, IsDisputeRaised
  <2>3. h \in 1 .. Len(chain)
    BY <1>1, <1>5, <2>2 DEF TypeOK
  <2>4. chain'[h] = chain[h] /\ h \in DOMAIN chain
    BY <1>1, <2>1, <2>3 DEF Grows
  <2> QED BY <1>1, <1>5, <2>1, <2>2, <2>4, ResolvedStays, EntrustedBefore DEF LogsIn
<1>6. NothingLeftBehind'
  <2> SUFFICES ASSUME faults' = 0, NEW h \in LogsIn(seen.from, nextBlock - 1)',
                      NEW id, id = chain'[h].id, Entrusted(id)'
               PROVE  StateOf(id)' = "Resolved"
    BY DEF NothingLeftBehind
  <2>1. seen.from \in Nat /\ nextBlock - 1 \in Int /\ nextBlock - 1 <= final
    BY <1>1 DEF TypeOK, Heights, StaysBelowFinal
  <2>3. PICK from \in Nat, to \in Int :
          from = seen.from /\ to = nextBlock - 1 /\ from = seen.from' /\ to = nextBlock' - 1
    BY <1>2, <2>1
  <2>4. h \in LogsIn(from, to)'
    BY <2>3 DEF LogsIn
  <2>5. h \in LogsIn(seen.from, nextBlock - 1)
    BY <1>5, <2>1, <2>3, <2>4 DEF LogsIn
  <2> QED BY <1>5, <2>1, <2>3, <2>4, <2>5 DEF ProgressInvariant, NothingLeftBehind
<1>7. DealsWithAll'
  <2> SUFFICES ASSUME faults' = 0 PROVE DealsWithAll'
    BY DEF DealsWithAll
  <2>1. faults = 0 /\ Grows
    BY <1>1, ChainStepGrows
  <2>2. cancelled' => phase' = "idle"
    BY <1>2, <2>1 DEF ProgressInvariant, DealsWithAll
  <2>3. ASSUME Settling', NEW h \in LogsIn(window.from, window.to)',
               NEW id, id = chain'[h].id, Entrusted(id)'
        PROVE  StateOf(id)' = "Resolved" \/ \E d \in todo' : d.id = id
    <3>1. Settling /\ window.from \in Nat /\ window.to \in Int /\ window.to <= final
      <4>1. Settling
        BY <1>2, <2>3 DEF Settling
      <4>2. window.from \in Nat /\ window.to \in Nat /\ window.safe \in Nat
        <5>1. window \in [from : 1 .. MaxBlocks, to : Heights, safe : Heights]
          BY <1>1 DEF TypeOK
        <5>2. Heights \subseteq Nat /\ 1 .. MaxBlocks \subseteq Nat
          BY ConstantTypes DEF Heights
        <5> QED BY <5>1, <5>2
      <4>3. window.to <= window.safe /\ window.safe + MaxLag <= final
        BY <1>1, <4>1 DEF Scanning, StaysBelowFinal
      <4> QED BY <1>1, <4>1, <4>2, <4>3, ConstantTypes
    <3>2. PICK from \in Nat, to \in Int :
            from = window.from /\ to = window.to /\ from = window'.from /\ to = window'.to
      BY <1>2, <3>1
    <3>3. h \in LogsIn(from, to)'
      BY <2>3, <3>2 DEF LogsIn
    <3>4. h \in LogsIn(window.from, window.to) /\ id = chain[h].id
      BY <1>5, <2>3, <3>1, <3>2, <3>3 DEF LogsIn
    <3>5. StateOf(id) = "Resolved" \/ \E d \in todo : d.id = id
      BY <1>1, <2>1, <2>3, <3>1, <3>4, EntrustedBefore DEF ProgressInvariant, DealsWithAll
    <3> QED BY <1>2, <1>5, <2>3, <3>1, <3>2, <3>3, <3>5
  <2>4. ASSUME phase' = "await", NEW d \in todo', Current(d)', Entrusted(d.id)'
        PROVE  Pending(d)'
    <3>1. phase = "await" /\ d \in todo /\ Current(d)
      BY <1>2, <2>4 DEF Current, FirstBlock
    <3> Entrusted(d.id)
      BY <1>1, <2>1, <2>4, EntrustedBefore
    <3>2. Pending(d) /\ decision \in Model!Decisions
      BY <2>1, <2>4, <3>1
      DEF ProgressInvariant, DealsWithAll, AgentInvariant, RulingsJustified
    <3> QED BY <2>1, <2>4, <3>1, <3>2, PendingStays
  <2> QED BY <2>2, <2>3, <2>4 DEF DealsWithAll
<1> QED BY <1>3, <1>4, <1>6, <1>7 DEF ProgressInvariant

-----------------------------------------------------------------------------
(***************************************************************************)
(* The steps of the agent, in a run without a failure.                     *)
(***************************************************************************)
\* The chain as it was tells what it told.
LEMMA StillTells ==
  ASSUME UNCHANGED chain
  PROVE  /\ \A id : StateOf(id)' = StateOf(id) /\ Entrusted(id)' = Entrusted(id)
         /\ \A from, to : LogsIn(from, to)' = LogsIn(from, to)
         /\ LegalChain => LegalChain'
<1>1. \A id : StateOf(id)' = StateOf(id) /\ Entrusted(id)' = Entrusted(id)
  BY DEF StateOf, StateAt, OnChain, Entrusted
<1>2. \A from, to : LogsIn(from, to)' = LogsIn(from, to)
  BY DEF LogsIn, IsDisputeRaised
<1>3. LegalChain => LegalChain'
  BY DEF LegalChain, Legal, Accepts, StateAt, OnChain, AgentIsArbiterAt
<1> QED BY <1>1, <1>2, <1>3

\* A step between two polls, or to the end of the process.
LEMMA BetweenPolls ==
  ASSUME ProgressInvariant, UNCHANGED chain,
         todo' = {}, phase' \in {"down", "idle", "fetch"},
         cancelled' => phase' # "down",
         faults' = 0 => faults = 0,
         faults' = 0 /\ cancelled' => phase' = "idle",
         \/ nextBlock' = nextBlock /\ seen'.from = seen.from
         \/ seen'.from \in Nat /\ nextBlock' \in Nat /\ nextBlock' <= seen'.from
  PROVE  ProgressInvariant'
<1>1. LegalChain'
  BY StillTells DEF ProgressInvariant
<1>2. TodoGrouped'
  BY FS_EmptySet DEF TodoGrouped
<1>3. DealsWithAll'
  BY DEF DealsWithAll, Settling
<1>4. NothingLeftBehind'
  <2>1. CASE nextBlock' = nextBlock /\ seen'.from = seen.from
    BY <2>1, StillTells DEF ProgressInvariant, NothingLeftBehind
  <2>2. CASE seen'.from \in Nat /\ nextBlock' \in Nat /\ nextBlock' <= seen'.from
    <3>1. seen'.from .. (nextBlock' - 1) = {}
      BY <2>2
    <3> QED BY <3>1 DEF NothingLeftBehind, LogsIn
  <2> QED BY <2>1, <2>2
<1> QED BY <1>1, <1>2, <1>3, <1>4 DEF ProgressInvariant

\* What has ended has nothing left to do.
LEMMA GoneProgress ==
  ASSUME ProgressInvariant, Gone, UNCHANGED chain, faults' = 0 => faults = 0
  PROVE  ProgressInvariant'
<1>1. /\ phase' = "down" /\ cancelled' = FALSE /\ nextBlock' = 0 /\ todo' = {}
      /\ seen'.from = 0
  BY DEF Gone, NothingSeen
<1> QED BY <1>1, BetweenPolls

\* A poll begins where the last one ended.
LEMMA StartPollProgress ==
  ASSUME AgentInvariant, ProgressInvariant, NEW head \in Views, StartPoll(head)
  PROVE  ProgressInvariant'
<1> DEFINE safe == SafeBlock(head)
           from == IF nextBlock = 0 THEN ColdStart(safe) ELSE nextBlock
<1>1. /\ UNCHANGED <<chain, faults, cancelled, todo>> /\ phase' = "fetch"
      /\ phase = "idle" /\ ~cancelled /\ nextBlock' = from
      /\ seen' = IF nextBlock = 0 THEN [from |-> from, logs |-> {}] ELSE seen
  BY DEF StartPoll, Running, chainVars, processVars
<1>2. todo' = {}
  BY <1>1 DEF ProgressInvariant, TodoGrouped, Settling
<1>3. TypeOK'
  BY StartPollInvariant DEF AgentInvariant
<1> HIDE DEF safe
<1>4. CASE nextBlock = 0
  <2>1. nextBlock' = from /\ seen'.from = from /\ from \in Nat
    BY <1>1, <1>3, <1>4 DEF TypeOK
  <2> QED BY <1>1, <1>2, <2>1, BetweenPolls
<1>5. CASE nextBlock # 0
  <2>1. nextBlock' = nextBlock /\ seen' = seen
    BY <1>1, <1>5
  <2> QED BY <1>1, <1>2, <2>1, BetweenPolls
<1> QED BY <1>4, <1>5

\* The window a replica serves is all of it.
LEMMA WindowServed ==
  ASSUME AgentInvariant, phase = "fetch", NEW view \in Views
  PROVE  Min({window.to, view}) = window.to /\ window.to \in Nat /\ window.to <= final
<1>1. /\ TypeOK /\ StaysBelowFinal
      /\ final \in Nat /\ Len(chain) \in Nat /\ final <= Len(chain)
      /\ window.to \in Nat /\ window.safe \in Nat
  BY DEF AgentInvariant, TypeOK, Heights, StaysBelowFinal
<1>2. window.to <= window.safe /\ window.safe + MaxLag <= final
  BY <1>1 DEF StaysBelowFinal, Scanning
<1>3. view \in Int /\ view >= Len(chain) - MaxLag
  BY <1>1, MaxOfTwo, ConstantTypes DEF Views
<1>4. window.to <= final /\ window.to <= view
  BY <1>1, <1>2, <1>3, ConstantTypes
<1>5. Min({window.to, view}) = IF window.to <= view THEN window.to ELSE view
  BY <1>1, <1>3, MinOfTwo
<1> QED BY <1>1, <1>4, <1>5

\* The logs of a window make finitely many disputes, each with its own logs.
LEMMA GroupedLogs ==
  ASSUME NEW from \in Nat, NEW to \in Nat
  PROVE  /\ IsFiniteSet(DisputesIn(from, to))
         /\ \A d \in DisputesIn(from, to) : \A s \in d.submissions :
              s.id = d.id /\ s.block <= to
         /\ \A d, e \in DisputesIn(from, to) : d.id = e.id => d = e
         /\ \A h \in LogsIn(from, to) : \E d \in DisputesIn(from, to) : d.id = chain[h].id
<1> DEFINE Group(id) == [id |-> id, submissions |-> SubmissionsFor(id, from, to)]
           L == LogsIn(from, to)
<1>1. DisputesIn(from, to) = {Group(chain[h].id) : h \in L}
  <2>1. DisputesIn(from, to) = {Group(id) : id \in {chain[h].id : h \in L}}
    BY DEF DisputesIn
  <2> QED BY <2>1
<1>2. \A id : Group(id).id = id /\ Group(id).submissions = SubmissionsFor(id, from, to)
  OBVIOUS
<1>3. \A id : \A s \in SubmissionsFor(id, from, to) : s.id = id /\ s.block <= to
  BY DEF SubmissionsFor, SubmissionAt, LogsIn
<1>4. IsFiniteSet(DisputesIn(from, to))
  <2>1. IsFiniteSet(L)
    <3>1. IsFiniteSet(from .. to)
      BY FS_Interval
    <3>2. L \subseteq from .. to
      BY DEF LogsIn
    <3> QED BY <3>1, <3>2, FS_Subset
  <2> DEFINE f == [h \in L |-> Group(chain[h].id)]
  <2>2. f \in Surjection(L, DisputesIn(from, to))
    BY <1>1 DEF Surjection
  <2> QED BY <2>1, <2>2, FS_Surjection
<1> HIDE DEF Group, L
<1>5. \A d \in DisputesIn(from, to) : \E h \in L : d = Group(chain[h].id)
  BY <1>1
<1>6. \A d \in DisputesIn(from, to) : d = Group(d.id)
  BY <1>2, <1>5
<1>7. \A h \in L : Group(chain[h].id) \in DisputesIn(from, to)
  BY <1>1
<1>8. \A d \in DisputesIn(from, to) : \A s \in d.submissions : s.id = d.id /\ s.block <= to
  BY <1>2, <1>3, <1>6
<1>9. \A d, e \in DisputesIn(from, to) : d.id = e.id => d = e
  BY <1>6
<1>10. \A h \in LogsIn(from, to) : \E d \in DisputesIn(from, to) : d.id = chain[h].id
  BY <1>2, <1>7 DEF L
<1> QED BY <1>4, <1>8, <1>9, <1>10

\* A poll takes up every dispute of its window.
LEMMA FetchProgress ==
  ASSUME AgentInvariant, ProgressInvariant, NEW view \in Views, Fetch(view)
  PROVE  ProgressInvariant'
<1>1. TypeOK /\ phase = "fetch" /\ ~cancelled
      /\ window.from \in Nat /\ window.to \in Nat
  BY DEF AgentInvariant, Fetch, Running, TypeOK, Heights
<1>2. Min({window.to, view}) = window.to
  BY <1>1, WindowServed
<1>3. /\ todo' = DisputesIn(window.from, window.to)
      /\ seen' = [seen EXCEPT !.logs =
            @ \cup {SubmissionAt(h) : h \in LogsIn(window.from, window.to)}]
      /\ phase' = "settle"
      /\ UNCHANGED <<chain, faults, cancelled, nextBlock, window>>
  BY <1>2 DEF Fetch, chainVars, processVars
<1>4. seen'.from = seen.from
  BY <1>1, <1>3 DEF TypeOK
<1>5. LegalChain'
  BY <1>3, StillTells DEF ProgressInvariant
<1>6. TodoGrouped'
  BY <1>1, <1>3, GroupedLogs DEF TodoGrouped, Settling
<1>7. DealsWithAll'
  <2>1. \A h \in LogsIn(window.from, window.to)' : \E d \in todo' : d.id = chain'[h].id
    BY <1>1, <1>3, StillTells, GroupedLogs
  <2> QED BY <1>1, <1>3, <2>1 DEF DealsWithAll
<1>8. NothingLeftBehind'
  BY <1>3, <1>4, StillTells DEF ProgressInvariant, NothingLeftBehind
<1> QED BY <1>1, <1>3, <1>5, <1>6, <1>7, <1>8 DEF ProgressInvariant

\* A poll ends when everything in its window has been dealt with.
LEMMA EndPollProgress ==
  ASSUME AgentInvariant, ProgressInvariant, EndPoll
  PROVE  ProgressInvariant'
<1>1. /\ TypeOK /\ StaysBelowFinal /\ Settling /\ todo = {} /\ phase = "settle"
      /\ window.to \in Nat /\ window.from \in Nat /\ seen.from \in Nat
  BY DEF AgentInvariant, EndPoll, Settling, TypeOK, Heights
<1>2. /\ nextBlock' = window.to + 1 /\ phase' = "idle"
      /\ UNCHANGED <<chain, faults, cancelled, todo, seen>>
  BY DEF EndPoll, chainVars, processVars
<1>3. window.from = nextBlock
  BY <1>1 DEF StaysBelowFinal, Scanning
<1>4. LegalChain'
  BY <1>2, StillTells DEF ProgressInvariant
<1>5. TodoGrouped' /\ DealsWithAll'
  BY <1>1, <1>2, FS_EmptySet DEF TodoGrouped, DealsWithAll, Settling
<1>6. NothingLeftBehind'
  <2> SUFFICES ASSUME faults = 0, NEW h \in LogsIn(seen.from, window.to),
                      Entrusted(chain[h].id)
               PROVE  StateOf(chain[h].id) = "Resolved"
    <3>1. nextBlock' - 1 = window.to
      BY <1>1, <1>2
    <3> QED BY <1>2, <3>1, StillTells DEF NothingLeftBehind
  <2>1. h \in seen.from .. window.to /\ h \in DOMAIN chain /\ IsDisputeRaised(chain[h])
    BY DEF LogsIn
  <2>2. CASE h < window.from
    <3>1. h \in LogsIn(seen.from, nextBlock - 1)
      BY <1>1, <1>3, <2>1, <2>2 DEF LogsIn
    <3> QED BY <3>1 DEF ProgressInvariant, NothingLeftBehind
  <2>3. CASE h >= window.from
    <3>1. h \in LogsIn(window.from, window.to)
      BY <1>1, <2>1, <2>3 DEF LogsIn
    <3> QED BY <1>1, <3>1 DEF ProgressInvariant, DealsWithAll
  <2> QED BY <1>1, <2>1, <2>2, <2>3
<1> QED BY <1>2, <1>4, <1>5, <1>6 DEF ProgressInvariant

\* The ruling the agent sends is the one it will wait for; if the node refuses
\* it, another has come first.
LEMMA SendProgress ==
  ASSUME AgentInvariant, ProgressInvariant, TypeOK',
         NEW dispute \in todo, NEW view \in Views, Send(dispute, view)
  PROVE  ProgressInvariant'
<1>1. /\ Settling /\ ~cancelled /\ Current(dispute) /\ decision \in Model!Decisions
      /\ TodoGrouped /\ LegalChain /\ TypeOK /\ EvidenceStays
  BY DEF Send, Running, Settling, AgentInvariant, RulingsJustified, ProgressInvariant
<1>2. UNCHANGED <<chain, final, faults, cancelled, nextBlock, window, seen>>
  BY DEF Send, processVars
<1>3. CASE Accepts(Tx(dispute), view)
  <2>1. /\ Tx(dispute) \in mempool' /\ phase' = "await"
        /\ UNCHANGED <<todo, decision>>
    BY <1>3 DEF Send
  <2>2. ASSUME NEW d \in todo', Current(d)'
        PROVE  Pending(d)'
    <3>1. d \in todo /\ Current(d)
      BY <2>1, <2>2 DEF Current, FirstBlock
    <3>2. d = dispute
      BY <1>1, <3>1, CurrentIsUnique
    <3>3. Tx(d)' = Tx(dispute)
      BY <2>1, <3>2 DEF Tx
    <3> QED BY <2>1, <3>3 DEF Pending
  <2> QED BY <1>1, <1>2, <2>1, <2>2, QuietProgress DEF Settling
<1>4. CASE ~Accepts(Tx(dispute), view)
  <2>1. todo' = todo \ {dispute} /\ phase' = "settle"
    BY <1>4 DEF Send, NextDispute
  <2>2. Entrusted(dispute.id) => StateOf(dispute.id) = "Resolved"
    <3> SUFFICES ASSUME Entrusted(dispute.id) PROVE StateOf(dispute.id) = "Resolved"
      OBVIOUS
    <3>1. /\ view \in 0 .. Len(chain)
          /\ StateAt(dispute.id, view) \in {"Disputed", "Resolved"}
      BY <1>1, FoundIsDisputed
    <3>2. StateAt(dispute.id, view) # "Disputed"
      BY <1>1, <1>4, <3>1, RulingIsTaken DEF TypeOK
    <3> QED BY <1>1, <3>1, <3>2, ResolvedBelow
  <2> QED BY <1>1, <1>2, <2>1, <2>2, QuietProgress DEF Settling
<1> QED BY <1>3, <1>4

\* The calls that go through.
LEMMA AgentStepProgress ==
  ASSUME AgentInvariant, ProgressInvariant, TypeOK', AgentStep
  PROVE  ProgressInvariant'
<1>1. LegalChain /\ TodoGrouped /\ TypeOK
  BY DEF ProgressInvariant, AgentInvariant
<1>2. ASSUME NEW dispute \in todo, NEW view \in Views, Skip(dispute, view)
      PROVE  ProgressInvariant'
  <2>1. /\ UNCHANGED <<chain, final, faults, cancelled, nextBlock, window, seen>>
        /\ todo' = todo \ {dispute} /\ phase' = "settle" /\ ~cancelled /\ Settling
    BY <1>2 DEF Skip, NextDispute, chainVars, processVars, Running, Settling
  <2>2. StateOf(dispute.id) = "Resolved"
    <3>1. /\ view \in 0 .. Len(chain)
          /\ StateAt(dispute.id, view) \in {"Disputed", "Resolved"}
      BY <1>1, FoundIsDisputed
    <3>2. StateAt(dispute.id, view) # "Disputed"
      BY <1>2, StateNumber DEF Skip
    <3> QED BY <1>1, <3>1, <3>2, ResolvedBelow
  <2> QED BY <2>1, <2>2, QuietProgress DEF Settling
<1>3. ASSUME NEW dispute \in todo, NEW view \in Views, CheckState(dispute, view)
      PROVE  ProgressInvariant'
  <2>1. /\ UNCHANGED <<chain, final, faults, cancelled, nextBlock, window, seen, todo>>
        /\ phase' = "judge" /\ ~cancelled /\ Settling
    BY <1>3 DEF CheckState, chainVars, processVars, Running, Settling
  <2> QED BY <2>1, QuietProgress DEF Settling
<1>4. ASSUME NEW answer \in Model!Decisions, Judge(answer)
      PROVE  ProgressInvariant'
  <2>1. /\ UNCHANGED <<chain, final, faults, cancelled, nextBlock, window, seen, todo>>
        /\ phase' = "send" /\ ~cancelled /\ Settling
    BY <1>4 DEF Judge, chainVars, processVars, Running, Settling
  <2> QED BY <2>1, QuietProgress DEF Settling
<1>5. ASSUME NEW dispute \in todo, Receipt(dispute)
      PROVE  ProgressInvariant'
  <2>1. /\ UNCHANGED <<chain, final, faults, cancelled, nextBlock, window, seen>>
        /\ todo' = todo \ {dispute} /\ phase' = "settle" /\ ~cancelled /\ Settling
        /\ phase = "await" /\ Current(dispute) /\ Tx(dispute) \notin mempool
    BY <1>5 DEF Receipt, NextDispute, chainVars, processVars, Running, Settling
  <2>2. faults = 0 /\ Entrusted(dispute.id) => StateOf(dispute.id) = "Resolved"
    BY <2>1 DEF ProgressInvariant, DealsWithAll, Pending
  <2> QED BY <2>1, <2>2, QuietProgress DEF Settling
<1>6. CASE Exit
  BY <1>6, GoneProgress DEF Exit, chainVars
<1> QED BY <1>2, <1>3, <1>4, <1>5, <1>6, StartPollProgress, FetchProgress,
           SendProgress, EndPollProgress DEF AgentStep

\* The calls that fail: then something has failed.
LEMMA CallFailsProgress ==
  ASSUME AgentInvariant, ProgressInvariant, TypeOK', CallFails
  PROVE  ProgressInvariant'
<1>1. faults \in Nat
  BY DEF AgentInvariant, TypeOK
<1>2. Failing /\ phase # "idle" => faults' # 0
  BY <1>1 DEF Failing, Fault, ProgressInvariant, DealsWithAll
<1>3. CASE FetchFails
  <2>1. /\ UNCHANGED <<chain, cancelled, nextBlock, todo, seen>>
        /\ phase' = "idle" /\ phase = "fetch" /\ Failing
    BY <1>3 DEF FetchFails, processVars
  <2>2. todo' = {}
    BY <2>1 DEF ProgressInvariant, TodoGrouped, Settling
  <2> QED BY <1>2, <2>1, <2>2, BetweenPolls
<1>4. ASSUME NEW dispute \in todo, SettleFails(dispute)
      PROVE  ProgressInvariant'
  <2>1. /\ UNCHANGED <<chain, final, cancelled, nextBlock, window, seen>>
        /\ todo' \subseteq todo /\ phase' = "settle" /\ phase # "idle" /\ Failing
    BY <1>4 DEF SettleFails, NextDispute, processVars
  <2> QED BY <1>2, <2>1, QuietProgress DEF Settling
<1> QED BY <1>3, <1>4 DEF CallFails

\* Every step of the system, the operator's included.
LEMMA StepProgress ==
  AgentInvariant /\ ProgressInvariant /\ [Next \/ Recall]_vars => ProgressInvariant'
<1> SUFFICES ASSUME AgentInvariant, ProgressInvariant, [Next \/ Recall]_vars
             PROVE  ProgressInvariant'
  OBVIOUS
<1>1. AgentInvariant' /\ TypeOK'
  BY StepInvariant DEF AgentInvariant
<1>2. faults \in Nat
  BY DEF AgentInvariant, TypeOK
<1>3. ASSUME NEW back \in {0} \cup Lookbacks, Start(back)
      PROVE  ProgressInvariant'
  <2>1. /\ UNCHANGED <<chain, faults, cancelled, nextBlock, todo, seen>>
        /\ phase' = "idle" /\ phase = "down"
    BY <1>3 DEF Start, chainVars
  <2>2. todo' = {}
    BY <2>1 DEF ProgressInvariant, TodoGrouped, Settling
  <2> QED BY <2>1, <2>2, BetweenPolls
<1>4. ASSUME Cancel, faults' = 0 => phase = "idle" /\ faults = 0
      PROVE  ProgressInvariant'
  <2>1. /\ UNCHANGED <<chain, final, mempool, nextBlock, phase, window, todo, decision, seen>>
        /\ phase # "down"
    BY <1>4 DEF Cancel
  <2>2. todo' # {} => Settling'
    BY <2>1 DEF ProgressInvariant, TodoGrouped, Settling
  <2> QED BY <1>1, <1>4, <2>1, <2>2, QuietProgress DEF Settling
<1>5. CASE Signal
  <2>1. Cancel /\ ~(faults' = 0)
    BY <1>2, <1>5 DEF Signal, Fault
  <2> QED BY <1>4, <2>1
<1>6. CASE Recall
  BY <1>4, <1>6 DEF Recall
<1>7. CASE Crash
  BY <1>2, <1>7, GoneProgress DEF Crash, Fault
<1>8. CASE UNCHANGED vars
  <2>1. UNCHANGED <<chain, final, mempool, faults, cancelled, nextBlock,
                    phase, window, todo, decision, seen>>
    BY <1>8 DEF vars, chainVars, agentVars, processVars
  <2>2. (todo' # {} => Settling') /\ (cancelled' => phase' # "down")
    BY <2>1 DEF ProgressInvariant, TodoGrouped, Settling
  <2>3. faults' = 0 /\ cancelled' => phase' = "idle"
    BY <2>1 DEF ProgressInvariant, DealsWithAll
  <2>4. ASSUME faults' = 0, phase' = "await", NEW d \in todo', Current(d)', Entrusted(d.id)'
        PROVE  Pending(d)'
    <3> Entrusted(d.id)
      BY <2>1, <2>4, StillTells
    <3>1. Pending(d)
      BY <2>1, <2>4 DEF ProgressInvariant, DealsWithAll, Current, FirstBlock
    <3> QED BY <2>1, <3>1 DEF Pending, Tx, StateOf, StateAt, OnChain
  <2> QED BY <1>1, <2>1, <2>2, <2>3, <2>4, QuietProgress DEF Settling
<1> QED BY <1>1, <1>3, <1>5, <1>6, <1>7, <1>8, AgentStepProgress, CallFailsProgress,
           ChainStepProgress DEF Next

\* There is nothing to deal with yet.
LEMMA InitProgress == Init => ProgressInvariant
<1> SUFFICES ASSUME Init PROVE ProgressInvariant
  OBVIOUS
<1>1. /\ chain = <<>> /\ cancelled = FALSE /\ phase = "down" /\ todo = {}
  BY DEF Init, InitChain
<1>2. LegalChain /\ TodoGrouped /\ DealsWithAll
  BY <1>1, FS_EmptySet DEF LegalChain, TodoGrouped, DealsWithAll, Settling
<1>3. NothingLeftBehind
  BY <1>1 DEF NothingLeftBehind, LogsIn
<1> QED BY <1>1, <1>2, <1>3 DEF ProgressInvariant

-----------------------------------------------------------------------------
(***************************************************************************)
(* The record and the shut-down, step by step.                             *)
(***************************************************************************)
\* A step of the agent leaves the record as it is; the chain's steps are
\* transactions or nothing.
LEMMA StepRefinesRecord ==
  AgentInvariant /\ ProgressInvariant /\ [Next \/ Recall]_vars =>
    [Record!Transaction]_([id \in Ids |-> CaseAt(id, final)])
<1> SUFFICES ASSUME AgentInvariant, ProgressInvariant, [Next \/ Recall]_vars
             PROVE  \/ Record!Transaction
                    \/ \A id \in Ids : CaseAt(id, final)' = CaseAt(id, final)
  OBVIOUS
<1>1. AgentInvariant' /\ TypeOK /\ TypeOK' /\ StaysBelowFinal /\ LegalChain
  BY StepInvariant DEF AgentInvariant, ProgressInvariant
<1>2. CASE ChainStep
  BY <1>1, <1>2, ChainStepLegal, ChainStepKeeps, ChainStepRefines
<1>3. CASE UNCHANGED <<chain, final>>
  BY <1>3 DEF CaseAt, StageAt, StateAt, OnChain, OfEscrow, IsDisputeRaised
<1>4. ChainStep \/ UNCHANGED <<chain, final>>
  <2>1. AgentStep => UNCHANGED <<chain, final>>
    BY DEF AgentStep, StartPoll, Fetch, Skip, CheckState, Send, Judge, Receipt, EndPoll,
           Exit, chainVars
  <2>2. CallFails => UNCHANGED <<chain, final>>
    BY DEF CallFails, FetchFails, SettleFails
  <2>3. Signal \/ Crash \/ Recall => UNCHANGED <<chain, final>>
    BY DEF Signal, Crash, Recall, Cancel
  <2>4. ASSUME NEW back, Start(back) PROVE UNCHANGED <<chain, final>>
    BY <2>4 DEF Start, chainVars
  <2>5. UNCHANGED vars => UNCHANGED <<chain, final>>
    BY DEF vars, chainVars
  <2> QED BY <2>1, <2>2, <2>3, <2>4, <2>5 DEF Next
<1> QED BY <1>2, <1>3, <1>4

\* Nothing is final of any dispute, and it is quiet.
LEMMA InitRecord == Init => Record!Init
<1> SUFFICES ASSUME Init, NEW id \in Ids PROVE CaseAt(id, final) = Record!Quiet
  BY DEF Record!Init
<1>1. final = 0 /\ 1 .. 0 = {}
  BY DEF Init, InitChain
<1>2. StateAt(id, final) = "Funded" /\ OfEscrow(id, final) = {}
  BY <1>1 DEF StateAt, OnChain, OfEscrow
<1>3. StageAt(id, final) = "quiet"
  BY <1>2 DEF StageAt
<1> QED BY <1>2, <1>3 DEF CaseAt, Record!Quiet

\* What is left of a shut-down gets less.
LEMMA StepAdvances ==
  AgentInvariant /\ ProgressInvariant /\ [Next \/ Recall]_vars =>
    [cancelled => /\ rulings' = rulings
                  /\ \/ UNCHANGED agentVars
                     \/ phase' = "down"
                     \/ StepsLeft' < StepsLeft]_vars
<1> SUFFICES ASSUME ProgressInvariant, Next \/ Recall, cancelled
             PROVE  /\ rulings' = rulings
                    /\ \/ UNCHANGED agentVars
                       \/ phase' = "down"
                       \/ StepsLeft' < StepsLeft
  BY DEF vars
<1>1. IsFiniteSet(todo) /\ phase # "down"
  BY DEF ProgressInvariant, TodoGrouped
<1>2. Cardinality(todo) \in Nat
  BY <1>1, FS_CardinalityType
<1>3. CASE ChainStep
  BY <1>3 DEF ChainStep, agentVars
<1>4. CASE FetchFails
  BY <1>4 DEF FetchFails, StepsLeft
<1>5. ASSUME NEW dispute \in todo, SettleFails(dispute)
      PROVE  rulings' = rulings /\ StepsLeft' < StepsLeft
  <2>1. /\ phase \in {"settle", "judge", "send", "await"} /\ phase' = "settle"
        /\ todo' = todo \ {dispute} /\ rulings' = rulings
    BY <1>5 DEF SettleFails, NextDispute
  <2>2. Cardinality(todo') = Cardinality(todo) - 1
    BY <1>1, <2>1, FS_RemoveElement
  <2> QED BY <1>2, <2>1, <2>2 DEF StepsLeft
<1>6. CASE EndPoll
  <2>1. phase = "settle" /\ phase' = "idle" /\ rulings' = rulings
    BY <1>6 DEF EndPoll
  <2> QED BY <1>2, <2>1 DEF StepsLeft
<1>7. CASE Crash \/ Exit
  BY <1>7 DEF Crash, Exit, Gone
<1>8. AgentStep => EndPoll \/ Exit
  BY DEF AgentStep, StartPoll, Fetch, Skip, CheckState, Send, Judge, Receipt, Running
<1>9. ~Signal /\ ~Recall /\ \A back : ~Start(back)
  BY <1>1 DEF Signal, Recall, Cancel, Start
<1> QED BY <1>3, <1>4, <1>5, <1>6, <1>7, <1>8, <1>9 DEF Next, CallFails

-----------------------------------------------------------------------------
(***************************************************************************)
(* The theorems.                                                           *)
(***************************************************************************)

\* The inductive invariant, at every moment of any run of the agent.
THEOREM AgentInvariantHolds == Spec => []AgentInvariant
<1>1. Init => AgentInvariant
  BY InitInvariant
<1>2. AgentInvariant /\ [Next]_vars => AgentInvariant'
  BY StepInvariant
<1> QED BY <1>1, <1>2, PTL DEF Spec

\* It also holds with an operator who stops and restarts the agent.
THEOREM OperatedInvariantHolds == OperatedSpec => []AgentInvariant
<1>1. Init => AgentInvariant
  BY InitInvariant
<1>2. AgentInvariant /\ [Next \/ Recall]_vars => AgentInvariant'
  BY StepInvariant
<1> QED BY <1>1, <1>2, PTL DEF OperatedSpec

\* Every variable of the agent keeps its type: no cursor and no window ever
\* reaches past the chain the agent has been shown.
THEOREM AgentTypeCorrect == Spec => []TypeOK
<1>1. AgentInvariant => TypeOK
  BY DEF AgentInvariant
<1> QED BY <1>1, AgentInvariantHolds, PTL

\* Evidence that a ruling rests on is never reorganised away: Poll reads logs
\* only below the confirmations.
THEOREM NoReorgedRulings == Spec => []NeverRulesOnReorgedLog
<1>1. AgentInvariant => NeverRulesOnReorgedLog
  BY DEF AgentInvariant, EvidenceStays, StaysOnRecord, NeverRulesOnReorgedLog
<1> QED BY <1>1, AgentInvariantHolds, PTL

\* The windows of Poll cover every log behind its cursor, through reorganisations,
\* failing queries and lagging replicas.
THEOREM NoGapBehindCursor == Spec => []CursorMissesNothing
<1>1. AgentInvariant => CursorMissesNothing
  BY DEF AgentInvariant
<1> QED BY <1>1, AgentInvariantHolds, PTL

\* However many processes rule on an escrow, one ruling is executed; a model
\* made it, on evidence that precedes it on the chain, and the side the contract
\* credits is the one the model named.
THEOREM OneRulingEach == Spec => []RulingsStand
<1>1. AgentInvariant => RulingsStand
  BY DEF AgentInvariant
<1> QED BY <1>1, AgentInvariantHolds, PTL

\* Every dispute of the window a poll settles is on its list until it is ruled on,
\* and the ruling it waits for is pending or executed, at every moment of any run
\* without a failure; the blocks of the chain follow from one another in any run.
THEOREM ProgressInvariantHolds == Spec => [](AgentInvariant /\ ProgressInvariant)
<1>1. Init => AgentInvariant /\ ProgressInvariant
  BY InitInvariant, InitProgress
<1>2. AgentInvariant /\ ProgressInvariant /\ [Next]_vars =>
        AgentInvariant' /\ ProgressInvariant'
  BY StepInvariant, StepProgress
<1> QED BY <1>1, <1>2, PTL DEF Spec

\* With an operator who stops and restarts the agent as well.
THEOREM OperatedProgressHolds == OperatedSpec => [](AgentInvariant /\ ProgressInvariant)
<1>1. Init => AgentInvariant /\ ProgressInvariant
  BY InitInvariant, InitProgress
<1>2. AgentInvariant /\ ProgressInvariant /\ [Next \/ Recall]_vars =>
        AgentInvariant' /\ ProgressInvariant'
  BY StepInvariant, StepProgress
<1> QED BY <1>1, <1>2, PTL DEF OperatedSpec

\* As long as nothing has failed, every assigned dispute whose log is behind the
\* cursor is resolved: Poll leaves none of a window unsettled when it moves on.
THEOREM NoDisputeLeftBehind == Spec => []NothingLeftBehind
<1>1. ProgressInvariant => NothingLeftBehind
  BY DEF ProgressInvariant
<1> QED BY <1>1, ProgressInvariantHolds, PTL

\* What is final of a dispute, at the depth the agent reads it, only grows as a
\* dispute may: evidence is added to it while it is open, one ruling on one of its
\* pieces of evidence ends it, and nothing follows. No reorganisation undoes it.
THEOREM FinalRecordHolds == Spec => FinalRecordStands
<1>1. Init => Record!Init
  BY InitRecord
<1>2. AgentInvariant /\ ProgressInvariant /\ [Next]_vars =>
        [Record!Transaction]_([id \in Ids |-> CaseAt(id, final)])
  BY StepRefinesRecord
<1> QED BY <1>1, <1>2, ProgressInvariantHolds, PTL DEF Spec, FinalRecordStands, Record!Spec

\* Nor does an operator who stops and restarts the agent.
THEOREM OperatedRecordHolds == OperatedSpec => FinalRecordStands
<1>1. Init => Record!Init
  BY InitRecord
<1>2. AgentInvariant /\ ProgressInvariant /\ [Next \/ Recall]_vars =>
        [Record!Transaction]_([id \in Ids |-> CaseAt(id, final)])
  BY StepRefinesRecord
<1> QED BY <1>1, <1>2, OperatedProgressHolds, PTL
    DEF OperatedSpec, FinalRecordStands, Record!Spec

\* A shut-down asked for is not put off: every step of the agent from then on
\* brings its end nearer, and it makes no further ruling.
THEOREM ShutdownHolds == OperatedSpec => ShutdownAdvances
<1>1. AgentInvariant /\ ProgressInvariant /\ [Next \/ Recall]_vars =>
        [cancelled => /\ rulings' = rulings
                      /\ \/ UNCHANGED agentVars
                         \/ phase' = "down"
                         \/ StepsLeft' < StepsLeft]_vars
  BY StepAdvances
<1> QED BY <1>1, OperatedProgressHolds, PTL DEF OperatedSpec, ShutdownAdvances

\* And it is never more than finitely many steps away.
THEOREM ShutdownBounded == OperatedSpec => [](StepsLeft \in Nat)
<1>1. ProgressInvariant => StepsLeft \in Nat
  <2> SUFFICES ASSUME ProgressInvariant PROVE StepsLeft \in Nat
    OBVIOUS
  <2>1. Cardinality(todo) \in Nat
    BY FS_CardinalityType DEF ProgressInvariant, TodoGrouped
  <2> QED BY <2>1 DEF StepsLeft
<1> QED BY <1>1, OperatedProgressHolds, PTL

\* However far behind the replica that answers a call is, the record it shows of a
\* dispute is one from which the chain has gone on as a dispute may: the agent can
\* be told old news of an escrow, never false news.
THEOREM ReplicasAgree ==
  Spec => [](\A id \in Ids, view \in Views :
               Record!Leads(CaseAt(id, view), CaseAt(id, Len(chain))))
<1>1. AgentInvariant /\ ProgressInvariant =>
        \A id \in Ids, view \in Views : Record!Leads(CaseAt(id, view), CaseAt(id, Len(chain)))
  <2> SUFFICES ASSUME AgentInvariant, ProgressInvariant, NEW id \in Ids, NEW view \in Views
               PROVE  Record!Leads(CaseAt(id, view), CaseAt(id, Len(chain)))
    OBVIOUS
  <2>1. TypeOK /\ LegalChain /\ Len(chain) \in Nat
    BY DEF AgentInvariant, ProgressInvariant, TypeOK
  <2>2. view \in 0 .. Len(chain) /\ Len(chain) \in 0 .. Len(chain) /\ view <= Len(chain)
    BY <2>1, MaxOfTwo, ConstantTypes DEF Views
  <2> QED BY <2>1, <2>2, ViewsLead
<1> QED BY <1>1, ProgressInvariantHolds, PTL
=============================================================================
