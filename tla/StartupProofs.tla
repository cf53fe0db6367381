--------------------------- MODULE StartupProofs ----------------------------
(***************************************************************************)
(* Proofs about the start of the agent, whatever lookbacks an operator may *)
(* set.  The seven checks of Load are first shown to add up to Usable,     *)
(* which names neither their order nor their errors.                       *)
(***************************************************************************)
EXTENDS AgentStartup, TLAPS

\* There is a first one among the checks that fail.
LEMMA FirstOfSeven ==
  ASSUME NEW S \in SUBSET (1 .. 7), S # {}
  PROVE  Min(S) \in S
<1>1. \E k \in S : \A l \in S : k <= l
  <2>1. \A l \in S : l \in 1 .. 7
    OBVIOUS
  <2>2. CASE 1 \in S
    BY <2>1, <2>2
  <2>3. CASE 1 \notin S /\ 2 \in S
    <3>1. \A l \in S : 2 <= l
      BY <2>1, <2>3
    <3> QED BY <2>3, <3>1
  <2>4. CASE 1 \notin S /\ 2 \notin S /\ 3 \in S
    <3>1. \A l \in S : 3 <= l
      BY <2>1, <2>4
    <3> QED BY <2>4, <3>1
  <2>5. CASE 1 \notin S /\ 2 \notin S /\ 3 \notin S /\ 4 \in S
    <3>1. \A l \in S : 4 <= l
      BY <2>1, <2>5
    <3> QED BY <2>5, <3>1
  <2>6. CASE 1 \notin S /\ 2 \notin S /\ 3 \notin S /\ 4 \notin S /\ 5 \in S
    <3>1. \A l \in S : 5 <= l
      BY <2>1, <2>6
    <3> QED BY <2>6, <3>1
  <2>7. CASE 1 \notin S /\ 2 \notin S /\ 3 \notin S /\ 4 \notin S /\ 5 \notin S /\ 6 \in S
    <3>1. \A l \in S : 6 <= l
      BY <2>1, <2>7
    <3> QED BY <2>7, <3>1
  <2>8. CASE 1 \notin S /\ 2 \notin S /\ 3 \notin S /\ 4 \notin S /\ 5 \notin S /\ 6 \notin S
    <3>1. \A l \in S : l = 7
      BY <2>1, <2>8
    <3>2. 7 \in S
      BY <3>1
    <3>3. \A l \in S : 7 <= l
      BY <3>1
    <3> QED BY <3>2, <3>3
  <2> QED BY <2>2, <2>3, <2>4, <2>5, <2>6, <2>7, <2>8
<1> QED BY <1>1 DEF Min

Failed(e) == {k \in DOMAIN Checks(e) : ~Checks(e)[k].passes}

\* Every check has an error of its own, so Load fails exactly if one does.
LEMMA LoadChecks ==
  ASSUME NEW e
  PROVE  /\ Load(e).error = "none" <=> Failed(e) = {}
         /\ Failed(e) = {} => Load(e).config = Configuration(e)
<1>1. CASE Failed(e) = {}
  BY <1>1 DEF Load, Failed
<1>2. CASE Failed(e) # {}
  <2>1. Failed(e) \in SUBSET (1 .. 7)
    BY DEF Failed, Checks
  <2>2. Min(Failed(e)) \in 1 .. 7
    BY <1>2, <2>1, FirstOfSeven
  <2>3. Load(e).error = Checks(e)[Min(Failed(e))].error
    BY <1>2 DEF Load, Failed
  <2>4. \A k \in 1 .. 7 : Checks(e)[k].error # "none"
    BY DEF Checks
  <2> QED BY <1>2, <2>2, <2>3, <2>4
<1> QED BY <1>1, <1>2

\* What the checks ask, taken together.
Accepted(e) ==
    /\ e.privateKey
    /\ Provider(e) \in Providers
    /\ Provider(e) \in e.keys
    /\ e.rpcURL \in {Unset, "http", "https"}
    /\ LookbackParses(e)
    /\ e.escrowAddress # Malformed

\* No check fails exactly if each condition holds.
LEMMA AcceptedPasses ==
  ASSUME NEW e
  PROVE  Failed(e) = {} <=> Accepted(e)
<1>1. Failed(e) = {} <=> \A k \in 1 .. 7 : Checks(e)[k].passes
  <2>1. DOMAIN Checks(e) = 1 .. 7
    BY DEF Checks
  <2> QED BY <2>1 DEF Failed
<1>2. (\A k \in 1 .. 7 : Checks(e)[k].passes)
        <=> /\ Checks(e)[1].passes /\ Checks(e)[2].passes /\ Checks(e)[3].passes
            /\ Checks(e)[4].passes /\ Checks(e)[5].passes /\ Checks(e)[6].passes
            /\ Checks(e)[7].passes
  <2>1. \A k \in 1 .. 7 : k \in {1, 2, 3, 4, 5, 6, 7}
    OBVIOUS
  <2> QED BY <2>1
<1>3. /\ Checks(e)[1].passes <=> e.privateKey
      /\ Checks(e)[2].passes <=> (Provider(e) = "anthropic" => "anthropic" \in e.keys)
      /\ Checks(e)[3].passes <=> (Provider(e) = "openai" => "openai" \in e.keys)
      /\ Checks(e)[4].passes <=> Provider(e) \in Providers
      /\ Checks(e)[5].passes <=> e.rpcURL \in {Unset, "http", "https"}
      /\ Checks(e)[6].passes <=> LookbackParses(e)
      /\ Checks(e)[7].passes <=> e.escrowAddress # Malformed
  BY DEF Checks, HasKey
<1> QED BY <1>1, <1>2, <1>3 DEF Accepted, Providers

\* The conditions of Load are those of the README's table.
LEMMA AcceptedUsable ==
  ASSUME NEW e \in Environments
  PROVE  Accepted(e) <=> Usable(e)
<1>1. /\ e.aiProvider \in {Unset, "anthropic", "openai", " OpenAI", "other"}
      /\ e.keys \subseteq {"anthropic", "openai"}
      /\ e.rpcURL \in {Unset, Malformed, "http", "https", "wss", "no host"}
      /\ e.startBlockLookback \in {Unset, Malformed, 0} \cup Lookbacks
  BY DEF Environments, Providers
<1>2. Provider(e) \in Providers /\ Provider(e) \in e.keys
        <=> \E p \in e.keys : e.aiProvider \in {p} \cup (IF p = "openai" THEN {" OpenAI"}
                                                                         ELSE {Unset})
  BY <1>1, TextsAssumption DEF Provider, Providers, Normalised, DefaultAIProvider
<1>3. e.rpcURL \in {Unset, "http", "https"} <=> e.rpcURL \notin {Malformed, "wss", "no host"}
  BY <1>1, TextsAssumption
<1>4. LookbackParses(e) <=> e.startBlockLookback \in {Unset} \cup Lookbacks
  <2>1. LookbackParses(e) <=> e.startBlockLookback \notin {Malformed, 0}
    BY DEF LookbackParses
  <2>2. 0 \notin Lookbacks /\ Malformed \notin Lookbacks /\ Unset # Malformed /\ Unset # 0
    BY LookbackAssumption, TextsAssumption
  <2>3. \/ e.startBlockLookback = Unset
        \/ e.startBlockLookback = Malformed
        \/ e.startBlockLookback = 0
        \/ e.startBlockLookback \in Lookbacks
    BY <1>1
  <2> QED BY <2>1, <2>2, <2>3, Zenon
<1> QED BY <1>2, <1>3, <1>4 DEF Accepted, Usable

\* Load accepts what is usable, and has the key of the vendor it selects.
LEMMA LoadUsable ==
  ASSUME NEW e \in Environments
  PROVE  /\ Load(e).error = "none" <=> Usable(e)
         /\ Usable(e) => Load(e).config = Configuration(e) /\ Provider(e) \in e.keys \cap Providers
<1>1. Load(e).error = "none" <=> Accepted(e)
  BY LoadChecks, AcceptedPasses
<1>2. Accepted(e) => Load(e).config = Configuration(e)
  BY LoadChecks, AcceptedPasses
<1> QED BY <1>1, <1>2, AcceptedUsable DEF Accepted

\* What holds from the start of the process to its end.
Started ==
    /\ env \in Environments
    /\ phase \in {"dial", "poll"} => Usable(env) /\ config = Configuration(env)
    /\ phase = "exited" => (exitCode = ExitConfigError <=> ~Usable(env))
    /\ NeverAsksWithoutKey

\* Every step of the process keeps the invariant.
LEMMA StepStarted == Started /\ [Next]_vars => Started'
<1> SUFFICES ASSUME Started, [Next]_vars PROVE Started'
  OBVIOUS
<1> USE DEF Started
<1>1. CASE LoadConfig
  BY <1>1, LoadUsable DEF LoadConfig, NeverAsksWithoutKey
<1>2. CASE LoadFails
  BY <1>2, LoadUsable DEF LoadFails, Exit, NeverAsksWithoutKey
<1>3. CASE Dial
  BY <1>3 DEF Dial, NeverAsksWithoutKey
<1>4. CASE DialFails
  BY <1>4 DEF DialFails, Exit, NeverAsksWithoutKey, ExitConfigError, ExitDialError
<1>5. CASE AskModel
  <2>1. Usable(env) /\ config = Configuration(env)
    BY <1>5 DEF AskModel
  <2>2. Provider(env) \in env.keys \cap Providers
    BY <2>1, LoadUsable
  <2>3. config.provider = Provider(env) /\ config.keys = env.keys \cap {Provider(env)}
    BY <2>1 DEF Configuration
  <2>4. NewModelClient(config).keyed
    BY <2>2, <2>3 DEF NewModelClient, Providers
  <2> QED BY <1>5, <2>4 DEF AskModel, NeverAsksWithoutKey
<1>6. CASE Shutdown
  BY <1>6 DEF Shutdown, Exit, NeverAsksWithoutKey, ExitConfigError, ExitOK
<1>7. CASE UNCHANGED vars
  BY <1>7 DEF vars, NeverAsksWithoutKey
<1> QED BY <1>1, <1>2, <1>3, <1>4, <1>5, <1>6, <1>7 DEF Next

\* A process is past Load only with a usable environment, its configuration and
\* the key it needs; one that ended over its configuration had no usable one.
THEOREM StartedHolds == Spec => []Started
<1>1. Init => Started
  BY DEF Init, Started, NeverAsksWithoutKey
<1> QED BY <1>1, StepStarted, PTL DEF Spec

\* No request to a model goes out without the key of its vendor.
THEOREM KeyedRequests == Spec => []NeverAsksWithoutKey
<1>1. Started => NeverAsksWithoutKey
  BY DEF Started
<1> QED BY <1>1, StartedHolds, PTL

\* The exit code tells a bad environment from everything else, and an agent
\* that polls has a lookback to poll with.
THEOREM ExitCodeHolds == Spec => []ExitCodeNamesTheCause
<1>1. Started => ExitCodeNamesTheCause
  <2> SUFFICES ASSUME Started, phase \in {"dial", "poll"} PROVE config.lookback > 0
    BY DEF Started, ExitCodeNamesTheCause
  <2>1. Usable(env) /\ config = Configuration(env)
    BY DEF Started
  <2>2. config.lookback = IF env.startBlockLookback = Unset THEN StartBlockLookback
                                                            ELSE env.startBlockLookback
    BY <2>1 DEF Configuration
  <2>3. env.startBlockLookback \in {Unset} \cup Lookbacks
    BY <2>1 DEF Usable
  <2>4. config.lookback \in Nat \ {0}
    BY <2>2, <2>3, LookbackAssumption
  <2> QED BY <2>4
<1> QED BY <1>1, StartedHolds, PTL

\* The key of a vendor that is not selected makes no difference.
THEOREM OtherKeyHolds == Spec => []OtherKeyIrrelevant
<1>1. Started => OtherKeyIrrelevant
  <2> SUFFICES ASSUME env \in Environments, NEW keys \in SUBSET Providers,
                      keys \cap {Provider(env)} = env.keys \cap {Provider(env)}
               PROVE  Load([env EXCEPT !.keys = keys]) = Load(env)
    BY DEF Started, OtherKeyIrrelevant
  <2> DEFINE other == [env EXCEPT !.keys = keys]
  <2>1. /\ other.keys = keys
        /\ other.privateKey = env.privateKey
        /\ other.aiProvider = env.aiProvider
        /\ other.rpcURL = env.rpcURL
        /\ other.startBlockLookback = env.startBlockLookback
        /\ other.escrowAddress = env.escrowAddress
    BY DEF Environments
  <2> HIDE DEF other
  <2>2. Provider(other) = Provider(env)
    BY <2>1 DEF Provider
  <2>3. Configuration(other) = Configuration(env)
    BY <2>1, <2>2 DEF Configuration
  <2>4. /\ Provider(env) = "anthropic" => (HasKey(other, "anthropic") <=> HasKey(env, "anthropic"))
        /\ Provider(env) = "openai" => (HasKey(other, "openai") <=> HasKey(env, "openai"))
    BY <2>1 DEF HasKey
  <2>5. /\ (Provider(other) = "anthropic" => HasKey(other, "anthropic"))
             = (Provider(env) = "anthropic" => HasKey(env, "anthropic"))
        /\ (Provider(other) = "openai" => HasKey(other, "openai"))
             = (Provider(env) = "openai" => HasKey(env, "openai"))
    BY <2>2, <2>4
  <2>6. LookbackParses(other) = LookbackParses(env)
    BY <2>1 DEF LookbackParses
  <2>7. Checks(other) = Checks(env)
    BY <2>1, <2>2, <2>5, <2>6, Zenon DEF Checks
  <2>8. Load(other) = Load(env)
    BY <2>3, <2>7, Zenon DEF Load
  <2> QED BY <2>8 DEF other
<1> QED BY <1>1, StartedHolds, PTL
=============================================================================
