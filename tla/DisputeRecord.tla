--------------------------- MODULE DisputeRecord ---------------------------
(***************************************************************************)
(* What a dispute on the escrow contract promises to whoever reads it off  *)
(* the chain: the parties, the arbiter, an agent.                          *)
(*                                                                         *)
(* A case is quiet until a party disputes it, and may be settled before    *)
(* that ever happens.  Once open it can only be ruled on.  It is open with *)
(* evidence and never without, what is on record stays on record, and the  *)
(* record closes with the ruling: there is one, for one side, and after it *)
(* neither ruling nor evidence changes.  One transaction may take a case   *)
(* through several of these stages, and several cases at once.             *)
(*                                                                         *)
(* Two models implement this: the contract (EscrowProperties), which says  *)
(* how it keeps the record, and the chain the arbiter agent reads          *)
(* (ArbiterAgent), which relies on it and knows nothing of deposits.       *)
(***************************************************************************)
CONSTANT Cases

VARIABLE record  \* case -> its stage, whose evidence there is, the sides ruled for

Sides == {"BuyerWins", "SellerWins"}

Quiet == [stage |-> "quiet", evidence |-> {}, rulings |-> {}]

\* There is evidence exactly of disputes, and a ruling exactly of ruled ones.
Coherent(case) ==
    /\ case.stage \in {"quiet", "settled", "open", "ruled"}
    /\ case.evidence # {} <=> case.stage \in {"open", "ruled"}
    /\ IF case.stage = "ruled" THEN \E side \in Sides : case.rulings = {side}
                               ELSE case.rulings = {}

\* What one transaction may make of one case.
Leads(from, to) ==
    /\ Coherent(to)
    /\ from.evidence \subseteq to.evidence
    /\ from.stage \in {"settled", "ruled"} => to = from
    /\ from.stage = "open" => to.stage \in {"open", "ruled"}

Init == record = [c \in Cases |-> Quiet]

Transaction == \A c \in Cases : Leads(record[c], record'[c])

Spec == Init /\ [][Transaction]_record
=============================================================================
