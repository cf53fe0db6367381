---------------------------- MODULE ModelClient -----------------------------
(***************************************************************************)
(* How the agent gets a ruling from a language model: the two HTTP clients *)
(* of agent/internal/ai, which differ in the envelope of the answer, the   *)
(* parser they share, and the numbers a ruling is sent to the contract as. *)
(* The vendor may answer anything; a text is a JSON object with a ruling   *)
(* and a rationale, prose, or nothing.                                     *)
(***************************************************************************)
EXTENDS Naturals, Sequences, FiniteSetsExt

CONSTANT MaxParts  \* bound: the parts of one answer

ASSUME MaxPartsAssumption == MaxParts \in Nat

Vendors == {"anthropic", "openai"}

\* What a ruling or a rationale in an answer may look like.
RulingTexts == {"BuyerWins", "SellerWins", "buyerwins", ""}
RationaleTexts == {"reason", " reason", " ", ""}

\* "blank" is white space; an object may have some around it.
Texts == [form: {"object", " object "}, ruling: RulingTexts, rationale: RationaleTexts]
         \cup [form: {"empty", "blank", "prose"}, ruling: {""}, rationale: {""}]

EmptyText == [form |-> "empty", ruling |-> "", rationale |-> ""]

\* The parts of an answer: Anthropic's content blocks, which have a type, or
\* the choices of OpenAI, which have none.
Parts == [type: {"text", "thinking"}, text: Texts]

\* The answer of a vendor: what went wrong on the way, if anything, and the
\* parts its envelope holds.
Faults == {"none", "no round trip", "unreadable", "status", "not JSON"}
Answers == [fault: Faults \ {"none"}, parts: {<<>>}]
           \cup [fault: {"none"}, parts: UNION {[1 .. n -> Parts] : n \in 0 .. MaxParts}]

Trimmed(text) == IF text = " reason" THEN "reason" ELSE IF text = " " THEN "" ELSE text

Failure(error) == [error |-> error, text |-> EmptyText]

\* Where a client may find its text: Anthropic's goes by the type of a block,
\* OpenAI's by whether a choice has any text.  So a block of text that is empty ends
\* the search of the one and not of the other.
TextBlocks(parts) == {k \in DOMAIN parts : parts[k].type = "text"}
TextChoices(parts) == {k \in DOMAIN parts : parts[k].text # EmptyText}

\* What can go wrong before there is an envelope to look into.
RoundTripError(answer) ==
    CASE answer.fault = "no round trip" -> "ErrRequestFailed"
      [] answer.fault = "unreadable"    -> "ErrReadBody"
      [] answer.fault = "status"        -> "ErrUnexpectedStatus"
      [] answer.fault = "not JSON"      -> "ErrDecodeResponse"
      [] OTHER                          -> "none"

\* The first of the texts found, or the error.
FirstText(answer, found) ==
    CASE RoundTripError(answer) # "none" -> Failure(RoundTripError(answer))
      [] RoundTripError(answer) = "none" /\ found = {} -> Failure("ErrNoTextContent")
      [] OTHER -> [error |-> "none", text |-> answer.parts[Min(found)].text]

CompleteAnthropic(answer) == FirstText(answer, TextBlocks(answer.parts))
CompleteOpenAI(answer) == FirstText(answer, TextChoices(answer.parts))

\* Client.Complete of the client that newModelClient chose.
Complete(vendor, answer) ==
    IF vendor = "openai" THEN CompleteOpenAI(answer) ELSE CompleteAnthropic(answer)

\* Mutant of RulingNumber: the sides are swapped.
RulingNumberSwapped(name) == IF name = "BuyerWins" THEN 1 ELSE 0

\* config.RulingBuyerWins and config.RulingSellerWins.
RulingNumber(name) == IF name = "BuyerWins" THEN 0 ELSE 1

NoDecision(error) == [error |-> error, ruling |-> 0, name |-> "", rationale |-> ""]

\* Mutant of ParseRationale: white space is good enough a reason.
ParseRationaleVerbatim(text) ==
    IF text.rationale = "" THEN "ErrEmptyRationale" ELSE "none"

ParseRationale(text) ==
    IF Trimmed(text.rationale) = "" THEN "ErrEmptyRationale" ELSE "none"

\* Mutant of ParseError: the text is parsed as it came.
ParseErrorVerbatim(text) ==
    CASE text.form = "empty" -> "ErrEmptyDecision"
      [] text.form \in {"blank", "prose", " object "} -> "ErrMalformedDecision"
      [] OTHER -> IF text.ruling \in {"BuyerWins", "SellerWins"}
                  THEN ParseRationale(text) ELSE "ErrUnknownRuling"

\* The first thing that makes a text no decision.
ParseError(text) ==
    CASE text.form \in {"empty", "blank"} -> "ErrEmptyDecision"
      [] text.form = "prose" -> "ErrMalformedDecision"
      [] OTHER -> IF text.ruling \in {"BuyerWins", "SellerWins"}
                  THEN ParseRationale(text) ELSE "ErrUnknownRuling"

ParseDecision(text) ==
    IF ParseError(text) # "none"
    THEN NoDecision(ParseError(text))
    ELSE [error |-> "none", ruling |-> RulingNumber(text.ruling),
          name |-> text.ruling, rationale |-> Trimmed(text.rationale)]

\* What settle makes of an answer.
Decide(vendor, answer) ==
    LET completion == Complete(vendor, answer)
    IN  IF completion.error # "none" THEN NoDecision(completion.error)
                                     ELSE ParseDecision(completion.text)

\* The decisions it may lead to.
Decisions == {d \in {ParseDecision(text) : text \in Texts} : d.error = "none"}

\* Executor.Args: what cast encodes, in the order of resolveDispute's parameters.
Args(id, decision) ==
    [id |-> id, ruling |-> decision.ruling, rationale |-> decision.rationale]

-----------------------------------------------------------------------------
(***************************************************************************)
(* The contract's side.                                                    *)
(***************************************************************************)

\* enum Ruling, counted from 0.
RulingEnum == <<"BuyerWins", "SellerWins">>
SideOf(number) == RulingEnum[number + 1]

\* The arguments are none that resolveDispute reverts on.
WellFormed(tx) == tx.ruling < Len(RulingEnum) /\ tx.rationale # ""
=============================================================================
