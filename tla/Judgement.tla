----------------------------- MODULE Judgement ------------------------------
(***************************************************************************)
(* One dispute on its way from the model's answer to the contract: settle  *)
(* of agent/internal/arbiter from Complete to Resolve, with the effect of  *)
(* resolveDispute at the end of it.  The dispute stays open meanwhile; what*)
(* happens if it does not is in ArbiterAgent.                              *)
(***************************************************************************)
EXTENDS ModelClient

CONSTANT Escrow  \* the disputed escrow

VARIABLES
    vendor,    \* whom the agent asks
    stage,     \* how far settle has come
    answer,    \* what the vendor says
    text,      \* what the client returns of it
    decision,  \* what the parser makes of that
    credited   \* the side resolveDispute credits

vars == <<vendor, stage, answer, text, decision, credited>>

NoAnswer == [fault |-> "none", parts |-> <<>>]

Init ==
    /\ vendor \in Vendors
    /\ stage = "asking"
    /\ answer = NoAnswer
    /\ text = EmptyText
    /\ decision = NoDecision("none")
    /\ credited = "nobody"

Answer(a) ==
    /\ stage = "asking"
    /\ answer' = a
    /\ IF Complete(vendor, a).error = "none"
       THEN stage' = "parsing" /\ text' = Complete(vendor, a).text
       ELSE stage' = "failed" /\ UNCHANGED text
    /\ UNCHANGED <<vendor, decision, credited>>

Parse ==
    /\ stage = "parsing"
    /\ decision' = ParseDecision(text)
    /\ stage' = IF decision'.error = "none" THEN "resolving" ELSE "failed"
    /\ UNCHANGED <<vendor, answer, text, credited>>

Resolve ==
    LET tx == Args(Escrow, decision)
    IN  /\ stage = "resolving"
        /\ IF WellFormed(tx)
           THEN stage' = "resolved" /\ credited' = SideOf(tx.ruling)
           ELSE stage' = "reverted" /\ UNCHANGED credited
        /\ UNCHANGED <<vendor, answer, text, decision>>

Next == (\E a \in Answers : Answer(a)) \/ Parse \/ Resolve

Spec == Init /\ [][Next]_vars

-----------------------------------------------------------------------------
(***************************************************************************)
(* Properties.                                                             *)
(***************************************************************************)

\* ParseDecision rejects "anything that resolveDispute would refuse on chain":
\* no answer of a model, however odd, makes the transaction revert.
NothingRefusedOnChain == stage # "reverted"

\* The contract credits the side the model named, although the name goes
\* through a number of the agent and an enum of the contract on its way.
CreditsTheSideNamed == stage = "resolved" => credited = text.ruling

\* An answer that keeps to the system prompt is never thrown away: one text
\* block with one object that names a side and gives a reason, with white space
\* around what may have some.
FollowsPrompt(a) ==
    /\ a.fault = "none"
    /\ Len(a.parts) = 1
    /\ a.parts[1].type = "text"
    /\ a.parts[1].text.form \in {"object", " object "}
    /\ a.parts[1].text.ruling \in {"BuyerWins", "SellerWins"}
    /\ a.parts[1].text.rationale \in {"reason", " reason"}

GoodAnswersCount == stage = "failed" => ~FollowsPrompt(answer)

\* "A ruling does not depend on the vendor": the same texts in the same order are
\* given the same ruling, or none, in whichever envelope they come.
VendorsAgree ==
    (\A k \in DOMAIN answer.parts : answer.parts[k].type = "text")
      => \A v \in Vendors : Decide(v, answer).name = Decide(vendor, answer).name
=============================================================================
