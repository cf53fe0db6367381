---------------------------- MODULE AgentStartup ----------------------------
(***************************************************************************)
(* How the arbiter agent starts and ends: agent/main.go, app.Run and       *)
(* config.Load.  The operator's environment decides which model vendor it  *)
(* asks, with which key, which contract it watches and how far back it     *)
(* looks; Load refuses what it cannot use before anything else happens.    *)
(* What the agent does in between is ArbiterAgent.                         *)
(***************************************************************************)
EXTENDS Naturals, FiniteSetsExt

CONSTANTS
    Unset,               \* an environment variable that is not set, or empty
    Malformed,           \* one with a text that does not parse
    StartBlockLookback,  \* the lookback used when none is set
    Lookbacks            \* positive lookbacks an operator may set

ASSUME LookbackAssumption == Lookbacks \cup {StartBlockLookback} \subseteq Nat \ {0}
ASSUME TextsAssumption ==
    /\ Unset # Malformed
    /\ {Unset, Malformed} \cap ({0} \cup Lookbacks) = {}
    /\ {Unset, Malformed} \cap {"anthropic", "openai", " OpenAI", "other", "http",
                                "https", "wss", "no host", "proxy"} = {}

VARIABLES
    env,      \* the environment of the process
    phase,    \* where app.Run is
    config,   \* what Load has made of env
    exitCode, \* of a process that has ended
    asked     \* history: the vendors asked, and whether the request had a key

vars == <<env, phase, config, exitCode, asked>>

Providers == {"anthropic", "openai"}
DefaultAIProvider == "anthropic"

\* A variable is unset, of no use, or one of the texts that matter.
Environments ==
    [privateKey: BOOLEAN,
     aiProvider: {Unset, "anthropic", "openai", " OpenAI", "other"},
     keys: SUBSET Providers,
     rpcURL: {Unset, Malformed, "http", "https", "wss", "no host"},
     startBlockLookback: {Unset, Malformed, 0} \cup Lookbacks,
     escrowAddress: {Unset, Malformed, "proxy"}]

\* ToLower and TrimSpace.
Normalised(text) == IF text = " OpenAI" THEN "openai" ELSE text

Provider(e) ==
    IF e.aiProvider = Unset THEN DefaultAIProvider ELSE Normalised(e.aiProvider)

\* Mutant of HasKey: an operator is asked for both keys.
HasKeyOfBoth(e, provider) == e.keys = Providers

HasKey(e, provider) == provider \in e.keys

\* Mutant of LookbackParses: zero is let through.
LookbackParsesZero(e) == e.startBlockLookback # Malformed

LookbackParses(e) == e.startBlockLookback \notin {Malformed, 0}

\* What Load checks, in the order in which it does.
Checks(e) ==
    <<[error |-> "ErrMissingPrivateKey", passes |-> e.privateKey],
      [error |-> "ErrMissingAnthropicAPIKey",
       passes |-> Provider(e) = "anthropic" => HasKey(e, "anthropic")],
      [error |-> "ErrMissingOpenAIAPIKey",
       passes |-> Provider(e) = "openai" => HasKey(e, "openai")],
      [error |-> "ErrUnknownAIProvider", passes |-> Provider(e) \in Providers],
      [error |-> "ErrInvalidRPCURL", passes |-> e.rpcURL \in {Unset, "http", "https"}],
      [error |-> "ErrInvalidStartBlockLookback", passes |-> LookbackParses(e)],
      [error |-> "ErrInvalidEscrowAddress", passes |-> e.escrowAddress # Malformed]>>

NoConfig == [provider |-> Unset, keys |-> {}, lookback |-> 0, escrow |-> Unset]

Configuration(e) ==
    [provider |-> Provider(e),
     keys |-> e.keys \cap {Provider(e)},
     lookback |-> IF e.startBlockLookback = Unset THEN StartBlockLookback
                                                  ELSE e.startBlockLookback,
     escrow |-> IF e.escrowAddress = Unset THEN "zero address" ELSE e.escrowAddress]

\* The configuration, or the first error.
Load(e) ==
    LET failed == {k \in DOMAIN Checks(e) : ~Checks(e)[k].passes}
    IN  IF failed = {}
        THEN [error |-> "none", config |-> Configuration(e)]
        ELSE [error |-> Checks(e)[Min(failed)].error, config |-> NoConfig]

ExitOK == 0
ExitConfigError == 1
ExitDialError == 2

Init ==
    /\ env \in Environments
    /\ phase = "load"
    /\ config = NoConfig
    /\ exitCode = ExitOK
    /\ asked = {}

Exit(code) == phase' = "exited" /\ exitCode' = code /\ UNCHANGED <<env, config, asked>>

LoadConfig ==
    /\ phase = "load"
    /\ Load(env).error = "none"
    /\ config' = Load(env).config
    /\ phase' = "dial"
    /\ UNCHANGED <<env, exitCode, asked>>

LoadFails == phase = "load" /\ Load(env).error # "none" /\ Exit(ExitConfigError)

\* The connection is opened and the contract's ABI, a constant, is bound.
Dial == phase = "dial" /\ phase' = "poll" /\ UNCHANGED <<env, config, exitCode, asked>>

DialFails == phase = "dial" /\ Exit(ExitDialError)

\* Mutant of NewModelClient: as before there was a choice.
NewModelClientClaude(cfg) == [vendor |-> "anthropic", keyed |-> "anthropic" \in cfg.keys]

NewModelClient(cfg) ==
    LET vendor == IF cfg.provider = "openai" THEN "openai" ELSE "anthropic"
    IN  [vendor |-> vendor, keyed |-> vendor \in cfg.keys]

\* The first dispute.
AskModel ==
    /\ phase = "poll"
    /\ asked' = asked \cup {NewModelClient(config)}
    /\ UNCHANGED <<env, phase, config, exitCode>>

\* SIGINT or SIGTERM.
Shutdown == phase = "poll" /\ Exit(ExitOK)

Next ==
    \/ LoadConfig \/ LoadFails
    \/ Dial \/ DialFails
    \/ AskModel \/ Shutdown

Spec == Init /\ [][Next]_vars

-----------------------------------------------------------------------------
(***************************************************************************)
(* Properties.                                                             *)
(***************************************************************************)

\* No request to a model ever goes out without the key of the vendor it goes
\* to, whatever the environment: the agent "refuses to start if the one it
\* needs is missing, rather than discovering it on the first dispute".
NeverAsksWithoutKey == \A request \in asked : request.keyed

\* The key of the vendor that is not selected changes nothing: neither whether
\* the agent starts, nor the error it ends with, nor anything it runs with.
OtherKeyIrrelevant ==
    \A keys \in SUBSET Providers :
        keys \cap {Provider(env)} = env.keys \cap {Provider(env)}
          => Load([env EXCEPT !.keys = keys]) = Load(env)

\* What Load in config.go asks of the operator, without the order in which it
\* asks: a variable that is unset falls back to its default, if it has one.
Usable(e) ==
    /\ e.privateKey
    /\ \E p \in e.keys : e.aiProvider \in {p} \cup (IF p = "openai" THEN {" OpenAI"}
                                                                    ELSE {Unset})
    /\ e.rpcURL \notin {Malformed, "wss", "no host"}
    /\ e.startBlockLookback \in {Unset} \cup Lookbacks
    /\ e.escrowAddress # Malformed

\* The process ends with the code for a bad environment exactly if there is
\* something to put right in it, and it polls only with a good one.
ExitCodeNamesTheCause ==
    /\ phase = "exited" => (exitCode = ExitConfigError <=> ~Usable(env))
    /\ phase \in {"dial", "poll"} => Usable(env) /\ config.lookback > 0
=============================================================================
