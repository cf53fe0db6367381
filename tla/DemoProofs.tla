----------------------------- MODULE DemoProofs -----------------------------
(***************************************************************************)
(* Proofs about the walkthroughs, for any number of runs at the same time  *)
(* and any number of escrows.                                              *)
(*                                                                         *)
(* What a run has achieved with the escrow it names must survive whatever  *)
(* the others do with the contract before it ends, and what the estimate   *)
(* of a transaction has found must leave only so much to go wrong until    *)
(* its block.  Steady says what every step of everybody leaves alone,      *)
(* Achieved what a run has after each of its commands, Launched what is    *)
(* still so when its transaction is mined.                                 *)
(***************************************************************************)
EXTENDS DemoScripts, EscrowProofs

SpentOn(id) ==
    escrows[id].state = "Released" /\ Poseidon2(Secret, id) \in nullifierUsed

Pulled(id) == settlement[id] = [payee |-> Seller, withdrawn |-> TRUE]

InDispute(id) == escrows[id].state \in {"Disputed", "Resolved"}

Begun(id) == escrows[id].state \notin {"None", "Created"}

\* The only seller and the only arbiter there is; nobody refunds; it is the buyer
\* who disputes.
World ==
    \A i \in Ids : escrows[i].state # "None" =>
        /\ escrows[i].seller = Seller
        /\ escrows[i].arbiter = Arbiter
        /\ escrows[i].amount # 0
        /\ escrows[i].state # "Refunded"
        /\ InDispute(i) => escrows[i].buyer \in evidence[i]

\* The disputes that only a run of Act II can have raised.
Disputes == {i \in Ids : InDispute(i) /\ escrows[i].buyer = Buyer}

Disputants ==
    \A i \in Disputes : \E run \in Runs : /\ script[run] = "dispute"
                                          /\ done[run] >= 1
                                          /\ nextId[run] = i

\* What the n-th command of a run has brought about, mined with or without effect.
Achieved(run, n) ==
    LET id == nextId[run]
    IN  /\ n = 1 => id <= nextEscrowId
        /\ n = 2 => id \in Ids /\ Buyer # Seller
        /\ n = 3 => escrows[id].state # "None" /\ escrows[id].buyer = Buyer
        /\ n = 4 /\ script[run] = "happy-path" => SpentOn(id) \/ InDispute(id)
        /\ n = 5 /\ script[run] = "happy-path"
             => (SpentOn(id) /\ Pulled(id)) \/ InDispute(id)
        /\ n = 5 /\ script[run] = "dispute"
             => InDispute(id) /\ (Seller \in evidence[id] \/ escrows[id].state = "Resolved")

RunRight(run) == \A n \in 1 .. done[run] : Achieved(run, n)

\* What the estimate of a transaction found and nobody can undo before its block.
Launched(run) ==
    LET id == nextId[run]
    IN  /\ done[run] \in 1 .. 4
        /\ done[run] = 2 => escrows[id].state # "None" /\ escrows[id].buyer = Buyer
        /\ done[run] = 3 => Begun(id)
        /\ done[run] = 3 /\ script[run] = "happy-path"
             => escrows[id].commitment = Poseidon1(Secret)
        /\ done[run] = 4 /\ script[run] = "dispute" => InDispute(id)

DemoType ==
    /\ script \in [Runs -> Scripts]
    /\ done \in [Runs -> 0 .. 5]
    /\ nextId \in [Runs -> Nat]

DemoInvariant ==
    /\ Soundness
    /\ EvidenceInvariant
    /\ World
    /\ DemoType
    /\ Disputants
    /\ \A run \in Runs : RunRight(run)
    /\ \A run \in Runs : run \in sent => Launched(run)

-----------------------------------------------------------------------------
(***************************************************************************)
(* What no step takes back.                                                *)
(***************************************************************************)
Steady ==
    /\ nextEscrowId' >= nextEscrowId
    /\ nullifierUsed \subseteq nullifierUsed'
    /\ \A i \in Ids :
          /\ escrows[i].state # "None" => /\ escrows'[i].state # "None"
                                          /\ escrows'[i].buyer = escrows[i].buyer
                                          /\ escrows'[i].commitment = escrows[i].commitment
          /\ Begun(i) => Begun(i)'
          /\ InDispute(i) => InDispute(i)'
          /\ escrows[i].state = "Resolved" => escrows'[i].state = "Resolved"
          /\ escrows[i].state = "Released" => escrows'[i].state = "Released"
          /\ evidence[i] \subseteq evidence'[i]
          /\ Pulled(i) => Pulled(i)'
    /\ World'

\* A new escrow takes nothing from those there are.
LEMMA CreateSteady ==
  ASSUME Soundness, World, NEW sender \in Senders, NEW amount \in Amounts,
         NEW commitment \in Commitments,
         CreateEscrow(sender, Seller, Arbiter, amount, commitment)
  PROVE  Steady /\ Disputes' \subseteq Disputes
<1>1. nextEscrowId \in Ids
  BY MaxEscrowsAssumption DEF CreateEscrow, Soundness, TypeOK, Ids
<1>2. PICK id \in Ids : id = nextEscrowId
  BY <1>1
<1>3. escrows[id].state = "None"
  BY <1>2 DEF Soundness, Sound, Blank, CurrentStorage, NoEscrow, TypeOK, Ids
<1>4. /\ escrows'[id].seller = Seller /\ escrows'[id].arbiter = Arbiter
      /\ escrows'[id].amount # 0 /\ escrows'[id].state = "Created"
      /\ \A i \in Ids : i # id => escrows'[i] = escrows[i]
      /\ UNCHANGED <<nullifierUsed, evidence, settlement>>
  BY <1>2 DEF CreateEscrow, Soundness, TypeOK
<1>5. nextEscrowId' >= nextEscrowId
  BY DEF CreateEscrow, Soundness, TypeOK
<1>6. World'
  BY <1>4 DEF World, InDispute
<1>7. ASSUME NEW i \in Ids, i # id
      PROVE  /\ escrows'[i] = escrows[i]
             /\ Begun(i) => Begun(i)'
             /\ InDispute(i)' <=> InDispute(i)
             /\ Pulled(i) => Pulled(i)'
  BY <1>4, <1>7 DEF Begun, InDispute, Pulled
<1>8. ~Begun(id) /\ ~InDispute(id) /\ ~InDispute(id)' /\ (Pulled(id) => Pulled(id)')
  BY <1>3, <1>4 DEF Begun, InDispute, Pulled
<1>9. Disputes' \subseteq Disputes
  BY <1>7, <1>8 DEF Disputes
<1> QED BY <1>3, <1>4, <1>5, <1>6, <1>7, <1>8, <1>9 DEF Steady

\* The functions that move one escrow and do not touch what it has settled.
LEMMA MoveSteady ==
  ASSUME Soundness, World, NEW id \in Ids, NEW state \in States, MoveTo(id, state),
         escrows[id].state \notin {"None", "Released", "Resolved"},
         state \notin {"None", "Created", "Refunded"},
         InDispute(id) => state \in {"Disputed", "Resolved"},
         state \in {"Disputed", "Resolved"} => escrows[id].buyer \in evidence'[id],
         UNCHANGED nextEscrowId, nullifierUsed \subseteq nullifierUsed',
         \A i \in Ids : evidence[i] \subseteq evidence'[i],
         \A i \in Ids : i # id => settlement'[i] = settlement[i],
         settlement'[id] = settlement[id] \/ ~Pulled(id)
  PROVE  /\ Steady
         /\ state \in {"Disputed", "Resolved"} => Disputes' \subseteq Disputes \cup {id}
         /\ InDispute(id) \/ state \notin {"Disputed", "Resolved"}
              => Disputes' \subseteq Disputes
<1>1. /\ escrows'[id].state = state
      /\ \A i \in Ids : i # id => escrows'[i].state = escrows[i].state
      /\ \A i \in Ids : /\ escrows'[i].buyer = escrows[i].buyer
                        /\ escrows'[i].seller = escrows[i].seller
                        /\ escrows'[i].arbiter = escrows[i].arbiter
                        /\ escrows'[i].amount = escrows[i].amount
                        /\ escrows'[i].commitment = escrows[i].commitment
  BY MoveToEffect DEF Soundness
<1>2. World'
  BY <1>1 DEF World, InDispute
<1>3. nextEscrowId' >= nextEscrowId
  BY DEF Soundness, TypeOK
<1>4. \A i \in Ids : /\ Begun(i) => Begun(i)'
                     /\ InDispute(i) => InDispute(i)'
                     /\ Pulled(i) => Pulled(i)'
  BY <1>1 DEF Begun, InDispute, Pulled
<1>5. Steady
  BY <1>1, <1>2, <1>3, <1>4 DEF Steady
<1>6. \A i \in Ids : InDispute(i)' => i = id \/ InDispute(i)
  BY <1>1 DEF InDispute
<1>7. state \notin {"Disputed", "Resolved"} => ~InDispute(id)'
  BY <1>1 DEF InDispute
<1> QED BY <1>1, <1>5, <1>6, <1>7 DEF Disputes

\* Neither does a deposit.
LEMMA FundSteady ==
  ASSUME Soundness, World, NEW sender \in Senders, NEW id \in Ids, NEW value \in Amounts,
         Fund(sender, id, value)
  PROVE  Steady /\ Disputes' \subseteq Disputes
<1>1. /\ MoveTo(id, "Funded") /\ escrows[id].state = "Created"
      /\ UNCHANGED <<nextEscrowId, nullifierUsed, evidence, settlement>>
  BY DEF Fund, InState
<1> QED BY <1>1, MoveSteady DEF States, InDispute

\* An escrow that is locked has not been settled.
LEMMA LockedNotPulled ==
  ASSUME Soundness, NEW id \in Ids, escrows[id].state \in {"Funded", "Disputed"}
  PROVE  ~Pulled(id)
BY DEF Soundness, Sound, SettlesToParties, CurrentStorage, NotSettled, Pulled

\* A settlement is final.
LEMMA SettleSteady ==
  ASSUME Soundness, World, NEW id \in Ids, NEW state, MoveTo(id, state),
         \/ escrows[id].state = "Funded" /\ state = "Released"
         \/ escrows[id].state = "Disputed" /\ state = "Resolved",
         NEW payee \in Addresses, RecordSettlement(id, payee),
         UNCHANGED <<nextEscrowId, evidence>>, nullifierUsed \subseteq nullifierUsed'
  PROVE  Steady /\ Disputes' \subseteq Disputes
<1>1. \A i \in Ids : i # id => settlement'[i] = settlement[i]
  BY DEF RecordSettlement, Soundness, TypeOK
<1>2. ~Pulled(id)
  BY LockedNotPulled
<1>3. state = "Resolved" => InDispute(id) /\ escrows[id].buyer \in evidence'[id]
  BY DEF World, InDispute
<1> QED BY <1>1, <1>2, <1>3, MoveSteady DEF States, InDispute

\* A dispute that the buyer raises is open, with a first statement.
LEMMA RaiseSteady ==
  ASSUME Soundness, World, NEW id \in Ids, NEW text \in Texts,
         RaiseDispute(escrows[id].buyer, id, text)
  PROVE  /\ Steady
         /\ Disputes' \subseteq Disputes \cup {id}
         /\ escrows[id].buyer # Buyer => Disputes' \subseteq Disputes
<1>1. /\ MoveTo(id, "Disputed") /\ escrows[id].state = "Funded"
      /\ evidence' = [evidence EXCEPT ![id] = @ \cup {escrows[id].buyer}]
      /\ UNCHANGED <<nextEscrowId, nullifierUsed, settlement>>
  BY DEF RaiseDispute, InState
<1>2. /\ \A i \in Ids : evidence[i] \subseteq evidence'[i]
      /\ escrows[id].buyer \in evidence'[id]
  BY <1>1 DEF Soundness, TypeOK
<1>3. Steady /\ Disputes' \subseteq Disputes \cup {id}
  BY <1>1, <1>2, MoveSteady DEF States, InDispute
<1>4. escrows[id].buyer # Buyer => id \notin Disputes'
  BY <1>1, <1>3 DEF Disputes, Steady
<1> QED BY <1>3, <1>4

\* A statement is added to those on record.
LEMMA SubmitSteady ==
  ASSUME Soundness, World, NEW sender \in Senders, NEW id \in Ids, NEW text \in Texts,
         SubmitEvidence(sender, id, text)
  PROVE  Steady /\ sender \in evidence'[id] /\ Disputes' \subseteq Disputes
<1>1. /\ evidence' = [evidence EXCEPT ![id] = @ \cup {sender}]
      /\ UNCHANGED <<escrows, nextEscrowId, nullifierUsed, settlement>>
  BY DEF SubmitEvidence
<1>2. /\ \A i \in Ids : evidence[i] \subseteq evidence'[i]
      /\ sender \in evidence'[id]
  BY <1>1 DEF Soundness, TypeOK
<1>3. nextEscrowId' >= nextEscrowId
  BY <1>1 DEF Soundness, TypeOK
<1>4. World'
  BY <1>1, <1>2 DEF World, InDispute
<1> QED BY <1>1, <1>2, <1>3, <1>4 DEF Steady, Begun, InDispute, Pulled, Disputes

\* A withdrawal pays every settlement of its payee.
LEMMA WithdrawSteady ==
  ASSUME Soundness, World, NEW sender \in Senders, WithdrawCall(sender)
  PROVE  /\ Steady
         /\ Disputes' \subseteq Disputes
         /\ \A i \in Ids : settlement[i].payee = sender
              => settlement'[i] = [payee |-> sender, withdrawn |-> TRUE]
<1>1. /\ UNCHANGED <<escrows, nextEscrowId, nullifierUsed, evidence>>
      /\ settlement' = PaidOut(sender)
  BY DEF WithdrawCall
<1>2. settlement \in [Ids -> Settlements]
  BY DEF Soundness, TypeOK
<1>3. \A i \in Ids : settlement[i].payee = sender
        => settlement'[i] = [payee |-> sender, withdrawn |-> TRUE]
  BY <1>1, <1>2 DEF PaidOut, Settlements
<1>4. \A i \in Ids : Pulled(i) => Pulled(i)'
  BY <1>1, <1>3 DEF Pulled, PaidOut
<1>5. nextEscrowId' >= nextEscrowId
  BY <1>1 DEF Soundness, TypeOK
<1> QED BY <1>1, <1>3, <1>4, <1>5 DEF Steady, World, Begun, InDispute, Disputes

\* The end of a withdrawal changes no escrow, and a reverted transaction nothing.
LEMMA StillSteady ==
  ASSUME Soundness, World,
         UNCHANGED <<escrows, nextEscrowId, nullifierUsed, evidence, settlement>>
  PROVE  Steady /\ Disputes' \subseteq Disputes
BY DEF Steady, World, Begun, InDispute, Pulled, Disputes, Soundness, TypeOK

\* A seller with nothing to withdraw has been paid for what was released to it.
LEMMA NothingToWithdraw ==
  ASSUME Soundness, World, NEW id \in Ids, escrows[id].state = "Released",
         pendingWithdrawals[Seller] = 0
  PROVE  Pulled(id)
<1> DEFINE f == UnpaidAmounts(CurrentStorage, Seller)
<1>1. /\ settlement[id].payee = Seller
      /\ settlement[id] \in Settlements
      /\ escrows[id].amount \in Nat /\ escrows[id].amount # 0
  BY DEF World, Soundness, Sound, SettlesToParties, CurrentStorage, TypeOK, Escrows
<1>2. f \in [Ids -> Nat]
  <2>1. \A i \in Ids : escrows[i].amount \in Nat
    BY DEF Soundness, TypeOK, Escrows
  <2> QED BY <2>1 DEF UnpaidAmounts, CurrentStorage
<1>3. ~settlement[id].withdrawn => f[id] = escrows[id].amount
  BY <1>1 DEF UnpaidAmounts, IsUnpaid, CurrentStorage
<1>4. SumFunction(f) = 0
  <2>1. Seller \in Accounts
    BY RolesAssumption DEF Senders
  <2> QED BY <2>1 DEF Soundness, Sound, PayeesAreOwed, CurrentStorage
<1> HIDE DEF f
<1>5. f[id] <= SumFunction(f) /\ f[id] \in Nat
  BY <1>2, IdsFinite, SumBoundsEntry
<1>6. settlement[id].withdrawn = TRUE
  BY <1>1, <1>3, <1>4, <1>5 DEF Settlements
<1> QED BY <1>1, <1>6 DEF Pulled, Settlements

\* A release that is no longer possible has happened, on the same proof, or has
\* been overtaken by a dispute.
LEMMA ReleasedOrDisputed ==
  ASSUME Soundness, World, NEW id \in Ids, Begun(id),
         escrows[id].commitment = Poseidon1(Secret),
         escrows[id].state # "Funded" \/ Poseidon2(Secret, id) \in nullifierUsed
  PROVE  SpentOn(id) \/ InDispute(id)
<1>1. escrows[id].state \in States \ {"None", "Created", "Refunded"}
  BY DEF Soundness, TypeOK, Escrows, World, Begun
<1>2. CASE Poseidon2(Secret, id) \in nullifierUsed
  <2>1. Poseidon2(Secret, id)[2] = id
    BY DEF Poseidon2
  <2> QED BY <1>2, <2>1 DEF SpentOn, Soundness, Sound, SpendsProofsOnce, CurrentStorage
<1>3. CASE escrows[id].state = "Released"
  <2>1. PICK n \in nullifierUsed : Delivery(n, escrows[id].commitment, id)
    BY <1>3 DEF Soundness, Sound, SpendsProofsOnce, CurrentStorage
  <2>2. PICK secret \in Secrets : /\ Poseidon1(Secret) = Poseidon1(secret)
                                  /\ n = Poseidon2(secret, id)
    BY <2>1 DEF Delivery
  <2>3. secret = Secret
    BY <2>2 DEF Poseidon1
  <2> QED BY <1>3, <2>1, <2>2, <2>3 DEF SpentOn
<1> QED BY <1>1, <1>2, <1>3 DEF States, InDispute

-----------------------------------------------------------------------------
(***************************************************************************)
(* A run through its commands.                                             *)
(***************************************************************************)
\* Which command comes after how many.
LEMMA CommandAt ==
  ASSUME DemoType, NEW run \in Runs, done[run] \in 0 .. 4
  PROVE  /\ Command(run) = "read" <=> done[run] = 0
         /\ Command(run) = "create" <=> done[run] = 1
         /\ Command(run) = "fund" <=> done[run] = 2
         /\ Command(run) = "release" <=> done[run] = 3 /\ script[run] = "happy-path"
         /\ Command(run) = "withdraw" <=> done[run] = 4 /\ script[run] = "happy-path"
         /\ Command(run) = "raise" <=> done[run] = 3 /\ script[run] = "dispute"
         /\ Command(run) = "submit" <=> done[run] = 4 /\ script[run] = "dispute"
<1>1. script[run] \in Scripts
  BY DEF DemoType
<1>2. CASE script[run] = "happy-path"
  <2>1. Command(run) = <<"read", "create", "fund", "release", "withdraw">>[done[run] + 1]
    BY <1>2 DEF Command, Commands
  <2>2. done[run] = 0 => Command(run) = "read"
    BY <2>1
  <2>3. done[run] = 1 => Command(run) = "create"
    BY <2>1
  <2>4. done[run] = 2 => Command(run) = "fund"
    BY <2>1
  <2>5. done[run] = 3 => Command(run) = "release"
    BY <2>1
  <2>6. done[run] = 4 => Command(run) = "withdraw"
    BY <2>1
  <2> QED BY <1>2, <2>2, <2>3, <2>4, <2>5, <2>6
<1>3. CASE script[run] = "dispute"
  <2>1. Command(run) = <<"read", "create", "fund", "raise", "submit">>[done[run] + 1]
    BY <1>3 DEF Command, Commands
  <2>2. done[run] = 0 => Command(run) = "read"
    BY <2>1
  <2>3. done[run] = 1 => Command(run) = "create"
    BY <2>1
  <2>4. done[run] = 2 => Command(run) = "fund"
    BY <2>1
  <2>5. done[run] = 3 => Command(run) = "raise"
    BY <2>1
  <2>6. done[run] = 4 => Command(run) = "submit"
    BY <2>1
  <2> QED BY <1>3, <2>2, <2>3, <2>4, <2>5, <2>6
<1> QED BY <1>1, <1>2, <1>3 DEF Scripts

\* A run that has not ended has at most four commands behind it.
LEMMA NotFinished ==
  ASSUME DemoType, NEW run \in Runs, ~Finished(run)
  PROVE  done[run] \in 0 .. 4
<1>1. script[run] \in Scripts /\ done[run] \in 0 .. 5
  BY DEF DemoType
<1>2. Len(Commands(script[run])) = 5
  BY <1>1 DEF Scripts, Commands
<1> QED BY <1>1, <1>2 DEF Finished

\* A run that has created an escrow names one, and has reached each command by
\* the ones before it.
LEMMA Names ==
  ASSUME DemoInvariant, NEW run \in Runs, done[run] >= 2
  PROVE  nextId[run] \in Ids /\ Buyer # Seller
<1>1. 2 \in 1 .. done[run]
  BY DEF DemoInvariant, DemoType
<1> QED BY <1>1 DEF DemoInvariant, RunRight, Achieved

\* What a command has achieved stands while others, or the run, go on.
LEMMA AchievedStays ==
  ASSUME DemoInvariant, Soundness', Steady, NEW run \in Runs, NEW n \in 1 .. done[run],
         script'[run] = script[run], nextId'[run] = nextId[run]
  PROVE  Achieved(run, n)'
<1>1. Achieved(run, n) /\ done[run] \in 0 .. 5 /\ n \in 1 .. 5
  BY DEF DemoInvariant, RunRight, DemoType
<1>2. CASE n = 1
  <2>1. /\ nextId[run] \in Nat /\ nextEscrowId \in Nat /\ nextEscrowId' \in Nat
        /\ nextEscrowId' >= nextEscrowId
    BY MaxEscrowsAssumption DEF DemoInvariant, DemoType, Soundness, TypeOK, Steady
  <2> QED BY <1>1, <1>2, <2>1 DEF Achieved
<1>3. CASE n \in 2 .. 5
  <2>1. PICK id \in Ids : id = nextId[run]
    BY <1>1, <1>3, Names
  <2>2. SpentOn(id) => SpentOn(id)'
    BY DEF Steady, SpentOn
  <2>3. /\ InDispute(id) => InDispute(id)'
        /\ Pulled(id) => Pulled(id)'
        /\ Seller \in evidence[id] => Seller \in evidence'[id]
        /\ escrows[id].state = "Resolved" => escrows'[id].state = "Resolved"
        /\ escrows[id].state # "None" => /\ escrows'[id].state # "None"
                                         /\ escrows'[id].buyer = escrows[id].buyer
    BY DEF Steady
  <2> QED BY <1>1, <1>3, <2>1, <2>2, <2>3 DEF Achieved, SpentOn, Pulled, InDispute
<1> QED BY <1>1, <1>2, <1>3

\* Neither is anything undone that an estimate relied on.
LEMMA LaunchedStays ==
  ASSUME DemoInvariant, Steady, NEW run \in Runs, Launched(run),
         script'[run] = script[run], nextId'[run] = nextId[run], done'[run] = done[run]
  PROVE  Launched(run)'
<1>1. CASE done[run] = 1
  BY <1>1 DEF Launched
<1>2. CASE done[run] \in 2 .. 4
  <2>1. PICK id \in Ids : id = nextId[run]
    BY <1>2, Names
  <2>2. /\ InDispute(id) => InDispute(id)'
        /\ Begun(id) => Begun(id)' /\ escrows[id].state # "None"
        /\ escrows[id].state # "None" => /\ escrows'[id].state # "None"
                                         /\ escrows'[id].buyer = escrows[id].buyer
                                         /\ escrows'[id].commitment = escrows[id].commitment
    BY DEF Steady, Begun
  <2> QED BY <1>2, <2>1, <2>2 DEF Launched, Begun, InDispute
<1> QED BY <1>1, <1>2 DEF Launched

\* A step by which run r at most gets one command further and has at most its own
\* transaction sent or mined: only its new command is to be looked at.
LEMMA OneGoesOn ==
  ASSUME DemoInvariant, Soundness', EvidenceInvariant', Steady, NEW r \in Runs, NEW n \in 1 .. 5,
         UNCHANGED script,
         \A run \in Runs : run # r \/ done[run] >= 1 => nextId'[run] = nextId[run],
         nextId'[r] \in Nat, nextId' \in [Runs -> Nat],
         \/ done' = done
         \/ /\ done' = [done EXCEPT ![r] = @ + 1]
            /\ n = done[r] + 1
            /\ Achieved(r, n)',
         \A run \in Runs : run \in sent' => \/ run \in sent /\ done'[run] = done[run]
                                            \/ Launched(run)',
         \A i \in Disputes' : \/ i \in Disputes
                              \/ script[r] = "dispute" /\ done[r] >= 1 /\ nextId[r] = i
  PROVE  DemoInvariant'
<1>1. /\ done \in [Runs -> 0 .. 5] /\ done' \in [Runs -> 0 .. 5]
      /\ \A run \in Runs : run # r => done'[run] = done[run]
      /\ done'[r] \in {done[r], done[r] + 1}
  BY DEF DemoInvariant, DemoType
<1>2. DemoType'
  BY <1>1 DEF DemoInvariant, DemoType
<1>3. \A run \in Runs : done[run] >= 1 => done'[run] >= 1 /\ nextId'[run] = nextId[run]
  BY <1>1
<1>4. Disputants'
  <2> SUFFICES ASSUME NEW i \in Disputes'
               PROVE  \E run \in Runs : /\ script[run] = "dispute"
                                        /\ done[run] >= 1
                                        /\ nextId[run] = i
    BY <1>3 DEF Disputants
  <2> QED BY DEF DemoInvariant, Disputants
<1>5. ASSUME NEW run \in Runs PROVE RunRight(run)'
  <2> SUFFICES ASSUME NEW m \in 1 .. done'[run] PROVE Achieved(run, m)'
    BY DEF RunRight
  <2>1. CASE m \in 1 .. done[run]
    <3>1. done[run] >= 1 /\ nextId'[run] = nextId[run] /\ script'[run] = script[run]
      BY <1>1, <1>3, <2>1
    <3> QED BY <2>1, <3>1, AchievedStays
  <2>2. CASE m \notin 1 .. done[run]
    <3>1. run = r /\ m = n /\ Achieved(r, n)'
      BY <1>1, <2>2
    <3> QED BY <3>1
  <2> QED BY <2>1, <2>2
<1>6. ASSUME NEW run \in Runs, run \in sent' PROVE Launched(run)'
  <2>1. CASE run \in sent /\ done'[run] = done[run]
    <3>1. Launched(run) /\ done[run] >= 1
      BY <2>1 DEF DemoInvariant, Launched
    <3> QED BY <1>3, <2>1, <3>1, LaunchedStays
  <2> QED BY <1>6, <2>1
<1> QED BY <1>2, <1>4, <1>5, <1>6 DEF DemoInvariant, Steady

\* The steps of the contract keep what the proofs of Escrow say of it.
LEMMA ContractKeeps ==
  ASSUME DemoInvariant, [Next]_vars
  PROVE  Soundness' /\ EvidenceInvariant'
BY StepSound, EvidenceStep DEF DemoInvariant

\* A step of the contract that no run takes, or whose run does not go on.
LEMMA NobodyGoes ==
  ASSUME DemoInvariant, Soundness', EvidenceInvariant', Steady,
         Disputes' \subseteq Disputes,
         UNCHANGED <<script, done, nextId>>, sent' \subseteq sent
  PROVE  DemoInvariant'
<1>1. ASSUME NEW run \in Runs PROVE RunRight(run)'
  <2>1. \A n \in 1 .. done[run] : Achieved(run, n)'
    BY AchievedStays
  <2> QED BY <2>1 DEF RunRight
<1>2. ASSUME NEW run \in Runs, run \in sent' PROVE Launched(run)'
  BY <1>2, LaunchedStays DEF DemoInvariant
<1>3. DemoType' /\ Disputants'
  BY DEF DemoInvariant, DemoType, Disputants
<1> QED BY <1>1, <1>2, <1>3 DEF DemoInvariant, Steady

-----------------------------------------------------------------------------
(***************************************************************************)
(* The steps.                                                              *)
(***************************************************************************)
\* The run reads the number of the next escrow.
LEMMA ReadKeeps ==
  ASSUME DemoInvariant, NEW run \in Runs, Read(run)
  PROVE  DemoInvariant'
<1>1. /\ Running(run) /\ UNCHANGED <<vars, script, died, sent>>
      /\ nextId' = [nextId EXCEPT ![run] = nextEscrowId]
      /\ done' = [done EXCEPT ![run] = @ + 1]
      /\ Command(run) = "read"
  BY DEF Read
<1>2. done[run] = 0
  BY <1>1, NotFinished, CommandAt DEF DemoInvariant, Running
<1>3. Soundness' /\ EvidenceInvariant'
  BY <1>1, ContractKeeps
<1>4. Steady /\ Disputes' \subseteq Disputes
  BY <1>1, StillSteady DEF vars, DemoInvariant
<1>5. nextEscrowId \in Nat /\ nextEscrowId' = nextEscrowId
  BY <1>1, MaxEscrowsAssumption DEF vars, DemoInvariant, Soundness, TypeOK
<1>6. /\ nextId' \in [Runs -> Nat] /\ nextId'[run] = nextEscrowId
      /\ \A r \in Runs : r # run => nextId'[r] = nextId[r] /\ done'[r] = done[r]
  BY <1>1, <1>5 DEF DemoInvariant, DemoType
<1>7. Achieved(run, 1)'
  BY <1>5, <1>6 DEF Achieved
<1>8. \A r \in Runs : r \in sent' => r \in sent /\ done'[r] = done[r]
  BY <1>1, <1>6 DEF Running
<1>9. \A r \in Runs : r # run \/ done[r] >= 1 => nextId'[r] = nextId[r]
  BY <1>2, <1>6
<1>10. 1 \in 1 .. 5 /\ 1 = done[run] + 1 /\ nextId'[run] \in Nat
  BY <1>2, <1>5, <1>6
<1>11. \A i \in Disputes' : i \in Disputes
  BY <1>4
<1> QED BY <1>1, <1>3, <1>4, <1>6, <1>7, <1>8, <1>9, <1>10, <1>11, OneGoesOn

\* Its transaction is estimated and broadcast.
LEMMA SendKeeps ==
  ASSUME DemoInvariant, NEW run \in Runs, Send(run)
  PROVE  DemoInvariant'
<1>1. /\ Running(run) /\ Succeeds(run) /\ Command(run) # "read"
      /\ sent' = sent \cup {run}
      /\ UNCHANGED <<vars, script, done, died, nextId>>
  BY DEF Send
<1>2. done[run] \in 1 .. 4
  <2>1. done[run] \in 0 .. 4
    BY <1>1, NotFinished DEF DemoInvariant, Running
  <2> QED BY <1>1, <2>1, CommandAt DEF DemoInvariant
<1>3. Launched(run)
  <2>1. /\ Command(run) = "create" <=> done[run] = 1
        /\ Command(run) = "fund" <=> done[run] = 2
        /\ Command(run) = "release" <=> done[run] = 3 /\ script[run] = "happy-path"
        /\ Command(run) = "raise" <=> done[run] = 3 /\ script[run] = "dispute"
        /\ Command(run) = "submit" <=> done[run] = 4 /\ script[run] = "dispute"
        /\ script[run] \in {"happy-path", "dispute"}
    BY <1>2, CommandAt DEF DemoInvariant, DemoType, Scripts
  <2>2. done[run] = 2 => /\ escrows[nextId[run]].state # "None"
                         /\ escrows[nextId[run]].buyer = Buyer
    BY <1>1, <2>1 DEF Succeeds, InState
  <2>3. done[run] = 3 => Begun(nextId[run])
    BY <1>1, <2>1 DEF Succeeds, InState, Begun
  <2>4. done[run] = 3 /\ script[run] = "happy-path"
          => escrows[nextId[run]].commitment = Poseidon1(Secret)
    <3> SUFFICES ASSUME done[run] = 3, script[run] = "happy-path"
                 PROVE  escrows[nextId[run]].commitment = Poseidon1(Secret)
      OBVIOUS
    <3>1. Delivery(Poseidon2(Secret, nextId[run]), escrows[nextId[run]].commitment, nextId[run])
      BY <1>1, <2>1 DEF Succeeds
    <3>2. PICK secret \in Secrets :
            /\ escrows[nextId[run]].commitment = Poseidon1(secret)
            /\ Poseidon2(Secret, nextId[run]) = Poseidon2(secret, nextId[run])
      BY <3>1 DEF Delivery
    <3>3. secret = Secret
      BY <3>2 DEF Poseidon2
    <3> QED BY <3>2, <3>3
  <2>5. done[run] = 4 /\ script[run] = "dispute" => InDispute(nextId[run])
    BY <1>1, <2>1 DEF Succeeds, InState, InDispute
  <2> QED BY <1>2, <2>2, <2>3, <2>4, <2>5 DEF Launched
<1>4. Soundness' /\ EvidenceInvariant'
  BY <1>1, ContractKeeps
<1>5. Steady /\ Disputes' \subseteq Disputes
  BY <1>1, StillSteady DEF vars, DemoInvariant
<1>6. \A r \in Runs : r \in sent' => Launched(r)
  BY <1>1, <1>3 DEF DemoInvariant
<1>7. ASSUME NEW r \in Runs, r \in sent' PROVE Launched(r)'
  BY <1>1, <1>5, <1>6, <1>7, LaunchedStays
<1>8. nextId' \in [Runs -> Nat]
  BY <1>1 DEF DemoInvariant, DemoType
<1> QED BY <1>1, <1>4, <1>5, <1>7, <1>8, OneGoesOn

\* A transaction is in its block: it is left to say what its command has brought
\* about if the script goes on.
LEMMA MinedGoesOn ==
  ASSUME DemoInvariant, Soundness', EvidenceInvariant', Steady,
         NEW run \in Runs, run \in sent,
         NEW n \in 1 .. 5, n = done[run] + 1, Achieved(run, n)',
         sent' = sent \ {run},
         done' = IF run \in died THEN done ELSE [done EXCEPT ![run] = @ + 1],
         UNCHANGED <<script, nextId>>,
         \/ Disputes' \subseteq Disputes
         \/ script[run] = "dispute" /\ Disputes' \subseteq Disputes \cup {nextId[run]}
  PROVE  DemoInvariant'
<1>1. done[run] \in 1 .. 4
  BY DEF DemoInvariant, Launched
<1>2. /\ nextId' \in [Runs -> Nat] /\ nextId'[run] \in Nat
      /\ \A r \in Runs : r # run => done'[r] = done[r]
  BY DEF DemoInvariant, DemoType
<1> QED BY <1>1, <1>2, OneGoesOn

\* The escrow is created, with the number the run has read or a later one.
LEMMA CreateMined ==
  ASSUME DemoInvariant, NEW run \in Runs, run \in sent, done[run] = 1,
         CreateEscrow(Buyer, Seller, Arbiter, Amount, CommitmentOf(run))
  PROVE  /\ Soundness' /\ EvidenceInvariant' /\ Steady
         /\ Disputes' \subseteq Disputes
         /\ UNCHANGED nextId => Achieved(run, 2)'
<1>1. /\ Buyer \in Senders /\ Seller \in Addresses /\ Arbiter \in Addresses
      /\ Amount \in Amounts /\ CommitmentOf(run) \in Commitments
  BY RolesAssumption DEF Senders, Addresses, CommitmentOf, Commitments
<1>2. Soundness' /\ EvidenceInvariant'
  BY <1>1, ContractKeeps DEF Next
<1>3. Steady /\ Disputes' \subseteq Disputes
  BY <1>1, CreateSteady DEF DemoInvariant
<1>4. nextId[run] <= nextEscrowId
  <2>1. 1 \in 1 .. done[run]
    OBVIOUS
  <2> QED BY <2>1 DEF DemoInvariant, RunRight, Achieved
<1>5. nextId[run] \in Ids /\ Buyer # Seller
  BY <1>4, MaxEscrowsAssumption
  DEF CreateEscrow, DemoInvariant, DemoType, Soundness, TypeOK, Ids
<1> QED BY <1>2, <1>3, <1>5 DEF Achieved

\* The escrow with the number it has read is funded, by this transaction or before.
LEMMA FundMined ==
  ASSUME DemoInvariant, NEW run \in Runs, run \in sent, done[run] = 2,
         \/ Fund(Buyer, nextId[run], Amount)
         \/ UNCHANGED vars
  PROVE  /\ Soundness' /\ EvidenceInvariant' /\ Steady
         /\ Disputes' \subseteq Disputes
         /\ UNCHANGED nextId => Achieved(run, 3)'
<1>1. PICK id \in Ids : id = nextId[run]
  BY Names
<1>2. {Buyer, Seller} \subseteq Senders /\ Amount \in Amounts
  BY RolesAssumption
<1>3. Soundness' /\ EvidenceInvariant'
  BY <1>1, <1>2, ContractKeeps DEF Next, PartyStep
<1>4. Steady /\ Disputes' \subseteq Disputes
  BY <1>1, <1>2, FundSteady, StillSteady DEF DemoInvariant, vars
<1>5. escrows[id].state # "None" /\ escrows[id].buyer = Buyer
  BY <1>1 DEF DemoInvariant, Launched
<1>6. escrows'[id].state # "None" /\ escrows'[id].buyer = Buyer
  BY <1>4, <1>5 DEF Steady
<1> QED BY <1>1, <1>3, <1>4, <1>6 DEF Achieved

\* It is released, unless it has been disputed.
LEMMA ReleaseMined ==
  ASSUME DemoInvariant, NEW run \in Runs, run \in sent,
         done[run] = 3, script[run] = "happy-path",
         \/ Release(nextId[run], Poseidon2(Secret, nextId[run]))
         \/ /\ UNCHANGED vars
            /\ ~Succeeds(run)
  PROVE  /\ Soundness' /\ EvidenceInvariant' /\ Steady
         /\ Disputes' \subseteq Disputes
         /\ UNCHANGED <<script, nextId>> => Achieved(run, 4)'
<1>1. PICK id \in Ids : id = nextId[run]
  BY Names
<1>2. Begun(id) /\ escrows[id].commitment = Poseidon1(Secret)
  BY <1>1 DEF DemoInvariant, Launched
<1>3. CASE Release(id, Poseidon2(Secret, id))
  <2>1. Poseidon2(Secret, id) \in Nullifiers
    BY RolesAssumption DEF Nullifiers
  <2>2. /\ MoveTo(id, "Released") /\ escrows[id].state = "Funded"
        /\ RecordSettlement(id, escrows[id].seller)
        /\ UNCHANGED <<nextEscrowId, evidence>>
        /\ nullifierUsed' = nullifierUsed \cup {Poseidon2(Secret, id)}
    BY <1>3 DEF Release, InState
  <2>3. escrows[id].seller \in Addresses
    BY DEF DemoInvariant, Soundness, TypeOK, Escrows
  <2>4. Steady /\ Disputes' \subseteq Disputes
    BY <2>2, <2>3, SettleSteady DEF DemoInvariant
  <2>5. escrows'[id].state = "Released"
    BY <2>2, MoveToEffect DEF DemoInvariant, Soundness, States
  <2>6. SpentOn(id)'
    BY <2>2, <2>5 DEF SpentOn
  <2>7. Soundness' /\ EvidenceInvariant'
    BY <1>3, <2>1, ContractKeeps DEF Next
  <2> QED BY <1>1, <2>4, <2>6, <2>7 DEF Achieved, SpentOn, InDispute
<1>4. CASE UNCHANGED vars /\ ~Succeeds(run)
  <2>1. Delivery(Poseidon2(Secret, id), escrows[id].commitment, id)
    BY <1>2, RolesAssumption DEF Delivery
  <2>2. Command(run) = "release"
    BY CommandAt DEF DemoInvariant
  <2>3. escrows[id].state # "Funded" \/ Poseidon2(Secret, id) \in nullifierUsed
    BY <1>1, <1>4, <2>1, <2>2 DEF Succeeds, InState
  <2>4. SpentOn(id) \/ InDispute(id)
    BY <1>2, <2>3, ReleasedOrDisputed DEF DemoInvariant
  <2>5. Soundness' /\ EvidenceInvariant'
    BY <1>4, ContractKeeps
  <2>6. Steady /\ Disputes' \subseteq Disputes
    BY <1>4, StillSteady DEF DemoInvariant, vars
  <2> QED BY <1>1, <1>4, <2>4, <2>5, <2>6 DEF Achieved, SpentOn, InDispute, vars
<1> QED BY <1>1, <1>3, <1>4

\* If it was released the seller has its deposit.
LEMMA WithdrawMined ==
  ASSUME DemoInvariant, NEW run \in Runs, run \in sent,
         done[run] = 4, script[run] = "happy-path",
         \/ WithdrawCall(Seller)
         \/ /\ UNCHANGED vars
            /\ ~Succeeds(run)
  PROVE  /\ Soundness' /\ EvidenceInvariant' /\ Steady
         /\ Disputes' \subseteq Disputes
         /\ UNCHANGED <<script, nextId>> => Achieved(run, 5)'
<1>1. PICK id \in Ids : id = nextId[run]
  BY Names
<1>2. SpentOn(id) \/ InDispute(id)
  <2>1. 4 \in 1 .. done[run]
    OBVIOUS
  <2> QED BY <1>1, <2>1 DEF DemoInvariant, RunRight, Achieved
<1>3. CASE WithdrawCall(Seller)
  <2>1. Seller \in Senders
    BY RolesAssumption
  <2>2. Soundness' /\ EvidenceInvariant' /\ Steady /\ Disputes' \subseteq Disputes
    BY <1>3, <2>1, ContractKeeps, WithdrawSteady DEF Next, DemoInvariant
  <2>3. SpentOn(id) => settlement[id].payee = Seller
    BY DEF SpentOn, DemoInvariant, World, Soundness, Sound, SettlesToParties, CurrentStorage
  <2>4. settlement[id].payee = Seller
          => settlement'[id] = [payee |-> Seller, withdrawn |-> TRUE]
    BY <1>3, <2>1, WithdrawSteady DEF DemoInvariant
  <2>5. (SpentOn(id)' /\ Pulled(id)') \/ InDispute(id)'
    BY <1>2, <2>2, <2>3, <2>4 DEF Steady, SpentOn, Pulled
  <2> QED BY <1>1, <2>2, <2>5 DEF Achieved, SpentOn, Pulled, InDispute
<1>4. CASE UNCHANGED vars /\ ~Succeeds(run)
  <2>1. Command(run) = "withdraw"
    BY CommandAt DEF DemoInvariant
  <2>2. pendingWithdrawals[Seller] = 0
    BY <1>4, <2>1 DEF Succeeds
  <2>3. SpentOn(id) => Pulled(id)
    BY <2>2, NothingToWithdraw DEF DemoInvariant, SpentOn
  <2>4. Soundness' /\ EvidenceInvariant'
    BY <1>4, ContractKeeps
  <2>5. Steady /\ Disputes' \subseteq Disputes
    BY <1>4, StillSteady DEF DemoInvariant, vars
  <2> QED BY <1>1, <1>2, <1>4, <2>3, <2>4, <2>5 DEF Achieved, SpentOn, Pulled, InDispute, vars
<1> QED BY <1>1, <1>3, <1>4

\* A dispute is raised, or not.
LEMMA RaiseMined ==
  ASSUME DemoInvariant, NEW run \in Runs, run \in sent,
         done[run] = 3, script[run] = "dispute",
         \/ RaiseDispute(Buyer, nextId[run], "statement")
         \/ UNCHANGED vars
  PROVE  /\ Soundness' /\ EvidenceInvariant' /\ Steady
         /\ Disputes' \subseteq Disputes \cup {nextId[run]}
         /\ UNCHANGED script => Achieved(run, 4)'
<1>1. PICK id \in Ids : id = nextId[run]
  BY Names
<1>2. Buyer \in Senders /\ "statement" \in Texts
  BY RolesAssumption DEF Texts
<1>3. Soundness' /\ EvidenceInvariant'
  BY <1>1, <1>2, ContractKeeps DEF Next, PartyStep
<1>4. escrows[id].buyer = Buyer
  <2>1. 3 \in 1 .. done[run]
    OBVIOUS
  <2> QED BY <1>1, <2>1 DEF DemoInvariant, RunRight, Achieved
<1>5. Steady /\ Disputes' \subseteq Disputes \cup {id}
  BY <1>1, <1>2, <1>4, RaiseSteady, StillSteady DEF DemoInvariant, vars
<1> QED BY <1>1, <1>3, <1>5 DEF Achieved

\* The dispute has the seller's statement, unless it has been ruled on.
LEMMA SubmitMined ==
  ASSUME DemoInvariant, NEW run \in Runs, run \in sent,
         done[run] = 4, script[run] = "dispute",
         \/ SubmitEvidence(Seller, nextId[run], "statement")
         \/ /\ UNCHANGED vars
            /\ ~Succeeds(run)
  PROVE  /\ Soundness' /\ EvidenceInvariant' /\ Steady
         /\ Disputes' \subseteq Disputes
         /\ UNCHANGED <<script, nextId>> => Achieved(run, 5)'
<1>1. PICK id \in Ids : id = nextId[run]
  BY Names
<1>2. InDispute(id) /\ escrows[id].seller = Seller
  BY <1>1 DEF DemoInvariant, Launched, World, InDispute
<1>3. Seller \in Senders /\ "statement" \in Texts
  BY RolesAssumption DEF Texts
<1>4. Soundness' /\ EvidenceInvariant'
  BY <1>1, <1>3, ContractKeeps DEF Next, PartyStep
<1>5. CASE SubmitEvidence(Seller, id, "statement")
  <2>1. Steady /\ Seller \in evidence'[id] /\ Disputes' \subseteq Disputes
    BY <1>3, <1>5, SubmitSteady DEF DemoInvariant
  <2>2. InDispute(id)'
    BY <1>2, <2>1 DEF Steady
  <2> QED BY <1>1, <1>4, <2>1, <2>2 DEF Achieved, InDispute
<1>6. CASE UNCHANGED vars /\ ~Succeeds(run)
  <2>1. Command(run) = "submit"
    BY CommandAt DEF DemoInvariant
  <2>2. escrows[id].state = "Resolved"
    BY <1>1, <1>2, <1>6, <2>1 DEF Succeeds, InState, IsParty, InDispute
  <2>3. Steady /\ Disputes' \subseteq Disputes
    BY <1>6, StillSteady DEF DemoInvariant, vars
  <2> QED BY <1>1, <1>2, <1>4, <1>6, <2>2, <2>3 DEF Achieved, InDispute, vars
<1> QED BY <1>1, <1>5, <1>6

\* So it is for every transaction of a run.
LEMMA MinedKeeps ==
  ASSUME DemoInvariant, NEW run \in Runs, Mined(run)
  PROVE  DemoInvariant'
<1>1. /\ run \in sent
      /\ Effect(run) \/ (~Succeeds(run) /\ UNCHANGED vars)
      /\ sent' = sent \ {run}
      /\ done' = IF run \in died THEN done ELSE [done EXCEPT ![run] = @ + 1]
      /\ UNCHANGED <<script, nextId>>
  BY DEF Mined
<1>2. done[run] \in 1 .. 4 /\ script[run] \in {"happy-path", "dispute"}
  BY <1>1 DEF DemoInvariant, Launched, DemoType, Scripts
<1>3. /\ Command(run) = "create" <=> done[run] = 1
      /\ Command(run) = "fund" <=> done[run] = 2
      /\ Command(run) = "release" <=> done[run] = 3 /\ script[run] = "happy-path"
      /\ Command(run) = "withdraw" <=> done[run] = 4 /\ script[run] = "happy-path"
      /\ Command(run) = "raise" <=> done[run] = 3 /\ script[run] = "dispute"
      /\ Command(run) = "submit" <=> done[run] = 4 /\ script[run] = "dispute"
  BY <1>2, CommandAt DEF DemoInvariant
<1>4. CASE done[run] = 1
  <2>1. CreateEscrow(Buyer, Seller, Arbiter, Amount, CommitmentOf(run))
    BY <1>1, <1>3, <1>4 DEF Effect, Succeeds
  <2> QED BY <1>1, <1>4, <2>1, CreateMined, MinedGoesOn
<1>5. CASE done[run] = 2
  <2>1. Fund(Buyer, nextId[run], Amount) \/ UNCHANGED vars
    BY <1>1, <1>3, <1>5 DEF Effect
  <2> QED BY <1>1, <1>5, <2>1, FundMined, MinedGoesOn
<1>6. CASE done[run] = 3 /\ script[run] = "happy-path"
  <2>1. \/ Release(nextId[run], Poseidon2(Secret, nextId[run]))
        \/ UNCHANGED vars /\ ~Succeeds(run)
    BY <1>1, <1>3, <1>6 DEF Effect
  <2> QED BY <1>1, <1>6, <2>1, ReleaseMined, MinedGoesOn
<1>7. CASE done[run] = 4 /\ script[run] = "happy-path"
  <2>1. WithdrawCall(Seller) \/ (UNCHANGED vars /\ ~Succeeds(run))
    BY <1>1, <1>3, <1>7 DEF Effect
  <2> QED BY <1>1, <1>7, <2>1, WithdrawMined, MinedGoesOn
<1>8. CASE done[run] = 3 /\ script[run] = "dispute"
  <2>1. RaiseDispute(Buyer, nextId[run], "statement") \/ UNCHANGED vars
    BY <1>1, <1>3, <1>8 DEF Effect
  <2> QED BY <1>1, <1>8, <2>1, RaiseMined, MinedGoesOn
<1>9. CASE done[run] = 4 /\ script[run] = "dispute"
  <2>1. \/ SubmitEvidence(Seller, nextId[run], "statement")
        \/ UNCHANGED vars /\ ~Succeeds(run)
    BY <1>1, <1>3, <1>9 DEF Effect
  <2> QED BY <1>1, <1>9, <2>1, SubmitMined, MinedGoesOn
<1> QED BY <1>2, <1>4, <1>5, <1>6, <1>7, <1>8, <1>9

\* What others do undoes nothing a run has achieved or relies on.
LEMMA OthersKeepRuns ==
  ASSUME DemoInvariant, Others
  PROVE  DemoInvariant'
<1>1. UNCHANGED <<script, done, nextId, sent>> /\ Soundness /\ World
  BY DEF Others, scriptVars, DemoInvariant
<1>2. /\ {Visitor, Arbiter} \subseteq Senders /\ {Seller, Arbiter} \subseteq Addresses
      /\ Visitor \notin {Buyer, Seller}
      /\ Amount \in Amounts /\ "statement" \in Texts
  BY RolesAssumption DEF Texts, Senders, Addresses
<1>3. ASSUME NEW commitment \in Commitments,
             CreateEscrow(Visitor, Seller, Arbiter, Amount, commitment)
      PROVE  DemoInvariant'
  <2>1. /\ Soundness' /\ EvidenceInvariant' /\ Steady
        /\ Disputes' \subseteq Disputes
    BY <1>1, <1>2, <1>3, ContractKeeps, CreateSteady DEF Next
  <2> QED BY <1>1, <2>1, NobodyGoes
<1>4. ASSUME NEW id \in Ids, Fund(Visitor, id, Amount) PROVE DemoInvariant'
  <2>1. /\ Soundness' /\ EvidenceInvariant' /\ Steady
        /\ Disputes' \subseteq Disputes
    BY <1>1, <1>2, <1>4, ContractKeeps, FundSteady DEF Next, PartyStep
  <2> QED BY <1>1, <2>1, NobodyGoes
<1>5. ASSUME NEW id \in Ids, RaiseDispute(Visitor, id, "statement") PROVE DemoInvariant'
  <2>1. Soundness' /\ EvidenceInvariant'
    BY <1>2, <1>5, ContractKeeps DEF Next, PartyStep
  <2>2. escrows[id].buyer = Visitor
    BY <1>1, <1>2, <1>5 DEF RaiseDispute, InState, IsParty, World
  <2>3. Steady /\ Disputes' \subseteq Disputes
    BY <1>1, <1>2, <1>5, <2>2, RaiseSteady
  <2> QED BY <1>1, <2>1, <2>3, NobodyGoes
<1>6. ASSUME NEW id \in Ids, NEW ruling \in Rulings,
             ResolveDispute(Arbiter, id, ruling, "statement")
      PROVE  DemoInvariant'
  <2>1. Soundness' /\ EvidenceInvariant'
    BY <1>1, <1>2, <1>6, ContractKeeps DEF Next, PartyStep
  <2>2. /\ MoveTo(id, "Resolved") /\ escrows[id].state = "Disputed"
        /\ RecordSettlement(id, Beneficiary(id, ruling))
        /\ UNCHANGED <<nextEscrowId, nullifierUsed, evidence>>
    BY <1>6 DEF ResolveDispute, InState
  <2>3. Beneficiary(id, ruling) \in Addresses
    BY <1>1 DEF Beneficiary, Soundness, TypeOK, Escrows
  <2>4. Steady /\ Disputes' \subseteq Disputes
    BY <1>1, <2>2, <2>3, SettleSteady
  <2> QED BY <1>1, <2>1, <2>4, NobodyGoes
<1> QED BY <1>3, <1>4, <1>5, <1>6 DEF Others

\* A run ends early, a payment is complete, or nothing happens.
LEMMA QuietKeeps ==
  ASSUME DemoInvariant, UNCHANGED <<script, done, nextId, sent>>,
         UNCHANGED vars \/ \E frame \in frames : WithdrawReturn(frame)
  PROVE  DemoInvariant'
<1>1. UNCHANGED <<escrows, nextEscrowId, nullifierUsed, evidence, settlement>>
  BY DEF vars, WithdrawReturn
<1>2. Soundness' /\ EvidenceInvariant'
  BY ContractKeeps DEF Next
<1> QED BY <1>1, <1>2, StillSteady, NobodyGoes DEF DemoInvariant

\* Every step keeps the invariant.
LEMMA StepDemo == DemoInvariant /\ [NextDemo]_<<vars, scriptVars>> => DemoInvariant'
<1> SUFFICES ASSUME DemoInvariant, [NextDemo]_<<vars, scriptVars>> PROVE DemoInvariant'
  OBVIOUS
<1>1. ASSUME NEW run \in Runs, Dies(run) PROVE DemoInvariant'
  BY <1>1, QuietKeeps DEF Dies
<1>2. CASE Paid
  BY <1>2, QuietKeeps DEF Paid, scriptVars
<1>3. CASE UNCHANGED <<vars, scriptVars>>
  BY <1>3, QuietKeeps DEF scriptVars
<1> QED BY <1>1, <1>2, <1>3, ReadKeeps, SendKeeps, MinedKeeps, OthersKeepRuns
        DEF NextDemo

\* No run has begun.
LEMMA InitDemoInvariant == InitDemo => DemoInvariant
<1> SUFFICES ASSUME InitDemo PROVE DemoInvariant
  OBVIOUS
<1>1. Soundness /\ EvidenceInvariant
  BY InitSound, EvidenceInit DEF InitDemo
<1>2. World /\ Disputants
  BY DEF InitDemo, Init, World, Disputants, Disputes, InDispute, NoEscrow
<1>3. DemoType /\ sent = {} /\ \A run \in Runs : done[run] = 0
  BY DEF InitDemo, DemoType
<1>4. \A run \in Runs : RunRight(run)
  BY <1>3 DEF RunRight
<1> QED BY <1>1, <1>2, <1>3, <1>4 DEF DemoInvariant

\* In every reachable state, what each run has achieved with the commands it has
\* behind it is still so, and so is what its transaction on the way relies on.
THEOREM DemoInvariantHolds == SpecDemo => []DemoInvariant
BY InitDemoInvariant, StepDemo, PTL DEF SpecDemo

\* What a run has achieved that reaches its end.
LEMMA AtTheEnd ==
  ASSUME DemoInvariant, NEW run \in Runs, Finished(run)
  PROVE  /\ nextId[run] \in Ids
         /\ escrows[nextId[run]].buyer = Buyer
         /\ done[run] >= 1
         /\ Achieved(run, 5)
<1>1. script[run] \in Scripts /\ done[run] \in 0 .. 5
  BY DEF DemoInvariant, DemoType
<1>2. done[run] = 5
  BY <1>1 DEF Finished, Commands, Scripts
<1>3. 3 \in 1 .. done[run] /\ 5 \in 1 .. done[run]
  BY <1>2
<1> QED BY <1>2, <1>3, Names DEF DemoInvariant, RunRight, Achieved

\* A run of Act I that reaches its end has settled the escrow it names on its
\* own proof and had it paid, whoever created it, whatever ran meanwhile, and
\* whichever of its transactions reverted in its block; only a run of Act II on
\* the same escrow can have disputed it first.
THEOREM ActOneHolds == SpecDemo => []ActOneSettles
<1>1. DemoInvariant => ActOneSettles
  <2> SUFFICES ASSUME DemoInvariant, NEW run \in Runs, script[run] = "happy-path",
                      Finished(run)
               PROVE  \/ SettledOnProof(nextId[run])
                      \/ /\ escrows[nextId[run]].state \in {"Disputed", "Resolved"}
                         /\ \E other \in Runs : /\ script[other] = "dispute"
                                                /\ nextId[other] = nextId[run]
    BY DEF ActOneSettles
  <2>1. PICK id \in Ids : id = nextId[run]
    BY AtTheEnd
  <2>2. (SpentOn(id) /\ Pulled(id)) \/ InDispute(id)
    BY <2>1, AtTheEnd DEF Achieved
  <2>3. InDispute(id) => id \in Disputes
    BY <2>1, AtTheEnd DEF Disputes
  <2>4. InDispute(id) => \E other \in Runs : script[other] = "dispute" /\ nextId[other] = id
    BY <2>3 DEF DemoInvariant, Disputants
  <2> QED BY <2>1, <2>2, <2>4 DEF SettledOnProof, SpentOn, Pulled, InDispute
<1> QED BY <1>1, DemoInvariantHolds, PTL

\* A run of Act II that reaches its end leaves a dispute with the buyer's statement
\* for the demo's arbiter, and with the seller's as well and nobody else's, unless
\* the arbiter has ruled while that statement was on its way.
THEOREM StageUnlessRuledHolds == SpecDemo => []StageUnlessRuled
<1>1. DemoInvariant => StageUnlessRuled
  <2> SUFFICES ASSUME DemoInvariant, NEW run \in Runs, script[run] = "dispute",
                      Finished(run)
               PROVE  /\ escrows[nextId[run]].state \in {"Disputed", "Resolved"}
                      /\ escrows[nextId[run]].arbiter = Arbiter
                      /\ Buyer \in evidence[nextId[run]]
                      /\ \/ evidence[nextId[run]] = {Buyer, Seller}
                         \/ escrows[nextId[run]].state = "Resolved"
    BY DEF StageUnlessRuled
  <2>1. PICK id \in Ids : id = nextId[run]
    BY AtTheEnd
  <2>2. /\ InDispute(id)
        /\ Seller \in evidence[id] \/ escrows[id].state = "Resolved"
        /\ escrows[id].buyer = Buyer
    BY <2>1, AtTheEnd DEF Achieved
  <2>3. /\ escrows[id].seller = Seller /\ escrows[id].arbiter = Arbiter
        /\ Buyer \in evidence[id]
    BY <2>2 DEF DemoInvariant, World, InDispute
  <2>4. evidence[id] \subseteq {Buyer, Seller}
    BY <2>2, <2>3 DEF DemoInvariant, EvidenceInvariant, EvidenceRight, CurrentStorage
  <2>5. Seller \in evidence[id] => evidence[id] = {Buyer, Seller}
    BY <2>3, <2>4
  <2> QED BY <2>1, <2>2, <2>3, <2>5 DEF InDispute
<1> QED BY <1>1, DemoInvariantHolds, PTL
=============================================================================
