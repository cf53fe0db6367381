-------------------------- MODULE JudgementProofs ---------------------------
(***************************************************************************)
(* Proofs about one dispute on its way through the agent, for answers of   *)
(* any number of parts.  Settled says how each stage follows from the one  *)
(* before it: what is being parsed is what the client returned, what is    *)
(* sent is what the parser accepted, and a failure has a cause.            *)
(***************************************************************************)
EXTENDS Judgement, SequenceTheorems, TLAPS

\* The only decisions the parser accepts.
LEMMA AcceptedDecision ==
  ASSUME NEW t, ParseDecision(t).error = "none"
  PROVE  /\ t.ruling \in {"BuyerWins", "SellerWins"}
         /\ ParseDecision(t).ruling = RulingNumber(t.ruling)
         /\ ParseDecision(t).rationale # ""
<1>1. ParseError(t) = "none"
  BY DEF ParseDecision, NoDecision
<1>2. t.ruling \in {"BuyerWins", "SellerWins"} /\ ParseRationale(t) = "none"
  BY <1>1 DEF ParseError
<1>3. Trimmed(t.rationale) # ""
  BY <1>2 DEF ParseRationale
<1> QED BY <1>1, <1>2, <1>3 DEF ParseDecision

\* The number an accepted ruling is sent as is the contract's for that side.
LEMMA SideOfNumber ==
  ASSUME NEW name \in {"BuyerWins", "SellerWins"}
  PROVE  RulingNumber(name) < Len(RulingEnum) /\ SideOf(RulingNumber(name)) = name
BY DEF RulingNumber, RulingEnum, SideOf

Settled ==
    /\ vendor \in Vendors
    /\ answer \in Answers \cup {NoAnswer}
    /\ stage \in {"parsing", "resolving", "resolved"} =>
         Complete(vendor, answer) = [error |-> "none", text |-> text]
    /\ stage \in {"resolving", "resolved"} =>
         decision = ParseDecision(text) /\ decision.error = "none"
    /\ stage = "resolved" => credited = text.ruling
    /\ stage = "failed" => Decide(vendor, answer).error # "none"
    /\ stage # "reverted"

\* Nothing has been asked.
LEMMA InitSettled == Init => Settled
BY DEF Init, Settled

\* A completion without an error is its text.
LEMMA CompletionIsText ==
  ASSUME NEW v, NEW a, Complete(v, a).error = "none"
  PROVE  Complete(v, a) = [error |-> "none", text |-> Complete(v, a).text]
<1>1. ASSUME NEW found, FirstText(a, found).error = "none"
      PROVE  FirstText(a, found) = [error |-> "none", text |-> FirstText(a, found).text]
  <2>1. RoundTripError(a) = "none"
    BY <1>1 DEF FirstText, Failure
  <2>2. found # {}
    BY <1>1, <2>1 DEF FirstText, Failure
  <2> QED BY <2>1, <2>2 DEF FirstText
<1> QED BY <1>1 DEF Complete, CompleteAnthropic, CompleteOpenAI

\* From stage to stage, each result is that of the stage before.
LEMMA StepSettled == Settled /\ [Next]_vars => Settled'
<1> SUFFICES ASSUME Settled, [Next]_vars PROVE Settled'
  OBVIOUS
<1>1. ASSUME NEW a \in Answers, Answer(a) PROVE Settled'
  <2>1. CASE Complete(vendor, a).error = "none"
    <3>1. /\ stage' = "parsing" /\ text' = Complete(vendor, a).text
          /\ answer' = a /\ vendor' = vendor
      BY <1>1, <2>1 DEF Answer
    <3>2. Complete(vendor, a) = [error |-> "none", text |-> text']
      BY <2>1, <3>1, CompletionIsText
    <3> QED BY <3>1, <3>2 DEF Settled
  <2>2. CASE Complete(vendor, a).error # "none"
    <3>1. stage' = "failed" /\ answer' = a /\ vendor' = vendor
      BY <1>1, <2>2 DEF Answer
    <3>2. Decide(vendor, a).error # "none"
      BY <2>2 DEF Decide, NoDecision
    <3> QED BY <3>1, <3>2 DEF Settled
  <2> QED BY <2>1, <2>2
<1>2. CASE Parse
  <2>1. /\ decision' = ParseDecision(text)
        /\ UNCHANGED <<vendor, answer, text, credited>>
        /\ Complete(vendor, answer) = [error |-> "none", text |-> text]
    BY <1>2 DEF Parse, Settled
  <2>2. Decide(vendor, answer) = ParseDecision(text)
    BY <2>1 DEF Decide
  <2>3. CASE decision'.error = "none"
    <3>1. stage' = "resolving"
      BY <1>2, <2>3 DEF Parse
    <3> QED BY <2>1, <2>3, <3>1 DEF Settled
  <2>4. CASE decision'.error # "none"
    <3>1. stage' = "failed"
      BY <1>2, <2>4 DEF Parse
    <3> QED BY <2>1, <2>2, <2>4, <3>1 DEF Settled
  <2> QED BY <2>3, <2>4
<1>3. CASE Resolve
  <2> DEFINE tx == Args(Escrow, decision)
  <2>1. /\ UNCHANGED <<vendor, answer, text, decision>>
        /\ decision = ParseDecision(text) /\ decision.error = "none"
        /\ Complete(vendor, answer) = [error |-> "none", text |-> text]
    BY <1>3 DEF Resolve, Settled
  <2>2. /\ text.ruling \in {"BuyerWins", "SellerWins"}
        /\ tx.ruling = RulingNumber(text.ruling) /\ tx.rationale # ""
    BY <2>1, AcceptedDecision DEF Args
  <2>3. WellFormed(tx) /\ SideOf(tx.ruling) = text.ruling
    BY <2>2, SideOfNumber DEF WellFormed
  <2>4. stage' = "resolved" /\ credited' = text.ruling
    BY <1>3, <2>3 DEF Resolve
  <2> QED BY <2>1, <2>4 DEF Settled
<1>4. CASE UNCHANGED vars
  BY <1>4 DEF vars, Settled
<1> QED BY <1>1, <1>2, <1>3, <1>4 DEF Next

\* At every stage of settle, what it holds is what the client and the parser have
\* made of the answer, and no transaction has been refused.
THEOREM SettledHolds == Spec => []Settled
BY InitSettled, StepSettled, PTL DEF Spec

\* Whatever a model answers, in however many parts, the transaction the agent
\* makes of it is none that the contract refuses for its arguments.
THEOREM ContractTakesRulings == Spec => []NothingRefusedOnChain
<1>1. Settled => NothingRefusedOnChain
  BY DEF Settled, NothingRefusedOnChain
<1> QED BY <1>1, SettledHolds, PTL

\* The side that is credited is the side the model named.
THEOREM SideNamedIsCredited == Spec => []CreditsTheSideNamed
<1>1. Settled => CreditsTheSideNamed
  BY DEF Settled, CreditsTheSideNamed
<1> QED BY <1>1, SettledHolds, PTL

-----------------------------------------------------------------------------
(***************************************************************************)
(* What the clients find in an answer.                                     *)
(***************************************************************************)
\* An answer is a sequence of parts, of any length.
LEMMA AnswerParts ==
  ASSUME NEW a \in Answers \cup {NoAnswer}
  PROVE  a.parts \in Seq(Parts)
<1>1. CASE a.parts = <<>>
  BY <1>1
<1>2. CASE a.parts # <<>>
  <2>1. PICK n \in 0 .. MaxParts : a.parts \in [1 .. n -> Parts]
    BY <1>2 DEF Answers, NoAnswer
  <2>2. n \in Nat
    BY <2>1, MaxPartsAssumption
  <2> QED BY <2>1, <2>2, SeqDef
<1> QED BY <1>1, <1>2

\* An answer that keeps to the prompt decides the dispute, from either vendor.
LEMMA PromptFollowedDecides ==
  ASSUME NEW v \in Vendors, NEW a \in Answers \cup {NoAnswer}, FollowsPrompt(a)
  PROVE  Decide(v, a).error = "none"
<1> DEFINE t == a.parts[1].text
<1>1. /\ a.parts \in Seq(Parts) /\ Len(a.parts) = 1
      /\ a.fault = "none" /\ a.parts[1].type = "text"
      /\ t.form \in {"object", " object "}
      /\ t.ruling \in {"BuyerWins", "SellerWins"}
      /\ t.rationale \in {"reason", " reason"}
  BY AnswerParts DEF FollowsPrompt
<1>2. DOMAIN a.parts = {1}
  <2>1. DOMAIN a.parts = 1 .. 1
    BY <1>1, LenProperties
  <2> QED BY <2>1
<1>3. TextBlocks(a.parts) = {1} /\ TextChoices(a.parts) = {1}
  <2>1. a.parts[1].text # EmptyText
    <3>1. EmptyText.form = "empty"
      BY DEF EmptyText
    <3>2. a.parts[1].text.form # "empty"
      BY <1>1
    <3> QED BY <3>1, <3>2
  <2>2. TextBlocks(a.parts) = {1}
    BY <1>1, <1>2 DEF TextBlocks
  <2>3. TextChoices(a.parts) = {1}
    BY <1>2, <2>1 DEF TextChoices
  <2> QED BY <2>2, <2>3
<1>4. Min({1}) = 1
  BY DEF Min
<1>5. Complete(v, a) = [error |-> "none", text |-> t]
  BY <1>1, <1>3, <1>4
  DEF Complete, CompleteAnthropic, CompleteOpenAI, FirstText, RoundTripError
<1>6. ParseError(t) = "none"
  BY <1>1 DEF ParseError, ParseRationale, Trimmed
<1> QED BY <1>5, <1>6 DEF Decide, ParseDecision

\* No answer that keeps to the prompt is thrown away.
THEOREM PromptFollowedCounts == Spec => []GoodAnswersCount
<1>1. Settled => GoodAnswersCount
  BY PromptFollowedDecides DEF Settled, GoodAnswersCount
<1> QED BY <1>1, SettledHolds, PTL
=============================================================================
