--------------------------- MODULE SimulatorSetup ---------------------------
(***************************************************************************)
(* What a run of the simulator is given: its configuration, read from the  *)
(* environment and the command line (main.py and config.py), and the       *)
(* scenario files it plays (scenario_loader.py).                           *)
(*                                                                         *)
(* A variable or an argument that is not set is Null; a numeric one that   *)
(* holds no number is NotANumber.  Bootstrap servers, topic, order id      *)
(* prefix and random seed are carried along in the same way and left out.  *)
(***************************************************************************)
EXTENDS ScenarioAssignment, TimeExpressions

CONSTANTS
    Templates,     \* the payload templates of the events
    Names,         \* the scenario names the program may be given
    Stem,          \* name -> the name without its ".json"
    Files,         \* name -> the scenario in its file
    Environments,  \* the environments the program may be started in
    CommandLines,  \* the arguments it may be started with
    NotANumber

(* Null for a field the event does not have.  The value of an event is a   *)
(* template unless the event repeats an earlier step.                      *)
Events == [step            : Nat,
           delay           : Nat,
           duplicateOfStep : Nat \cup {Null},
           etaOffset       : Strings \cup NonStrings \cup {Null},
           value           : Templates \cup {Null}]

IsScenarioFile(f) ==
    /\ f.events \in Seq(Events)
    /\ f.includedScenarios \subseteq Names /\ IsFiniteSet(f.includedScenarios)
    /\ f.distribution \in [f.includedScenarios -> Int]

Integral == {"ORDERS_COUNT", "MAX_WORKERS", "PAUSE_AFTER_STEP",
             "PAUSE_DURATION_SECONDS"}
Numbers  == Integral \cup {"EVENT_DELAY_MULTIPLIER"}

(* A double is the rational number it stands for.  float() also reads inf  *)
(* and nan, which stand for none: their den is 0.                          *)
Doubles == [num : Int, den : Nat]

ASSUME SimulatorSetupAssumption ==
    /\ Stem \in [Names -> Names]
    /\ DOMAIN Files \subseteq Names
    /\ \A n \in DOMAIN Files : IsScenarioFile(Files[n])
    /\ {Null, NotANumber} \cap (Int \cup Doubles) = {}
    /\ Null \notin {"1", "true", "yes", "y"}

(* int() and float() give a number or raise; an empty string is no name,   *)
(* unless Names has it.                                                    *)
ASSUME SettingsAssumption ==
    /\ "mixed-orders" \in Names
    /\ \A env \in Environments :
          /\ \A v \in Integral : env[v] \in Int \cup {Null, NotANumber}
          /\ env["EVENT_DELAY_MULTIPLIER"] \in Doubles \cup {Null, NotANumber}
          /\ env["SCENARIO"] \in Names \cup {Null}
          /\ env["SCENARIO_FILE"] \in Names \cup {Null, ""}
    /\ \A args \in CommandLines :
          /\ args.scenario \in Names \cup {Null, ""}
          /\ args.ordersCount \in Int \cup {Null, NotANumber}

----------------------------------------------------------------------------
(* Configuration.  int() and float() raise on a text that is no number.    *)

IsReadable(env, args) ==
    /\ \A v \in Numbers : env[v] # NotANumber
    /\ args.ordersCount # NotANumber

Getenv(env, v, default) == IF env[v] = Null THEN default ELSE env[v]

EnvBool(env, v, default) ==
    IF env[v] = Null THEN default ELSE env[v] \in {"1", "true", "yes", "y"}

FromEnv(env) ==
    [scenario             |-> Getenv(env, "SCENARIO", "mixed-orders"),
     ordersCount          |-> Getenv(env, "ORDERS_COUNT", 100),
     eventDelayMultiplier |-> Getenv(env, "EVENT_DELAY_MULTIPLIER",
                                    [num |-> 1, den |-> 1]),
     dryRun               |-> EnvBool(env, "DRY_RUN", FALSE),
     maxWorkers           |-> Getenv(env, "MAX_WORKERS", 10),
     pauseAfterStep       |-> Getenv(env, "PAUSE_AFTER_STEP", 0),
     pauseDuration        |-> Getenv(env, "PAUSE_DURATION_SECONDS", 0)]

(* An empty scenario counts as none, a count of zero does not, and a dry   *)
(* run asked for by the environment cannot be revoked.                     *)
FaultyOverride(c, scenario, args) ==
    [c EXCEPT !.scenario    = IF scenario \in {Null, ""} THEN @ ELSE scenario,
              !.ordersCount = IF args.ordersCount = Null THEN @
                                                         ELSE args.ordersCount]
Override(c, scenario, args) ==
    [c EXCEPT !.scenario    = IF scenario \in {Null, ""} THEN @ ELSE scenario,
              !.ordersCount = IF args.ordersCount = Null THEN @
                                                         ELSE args.ordersCount,
              !.dryRun      = @ \/ args.dryRun]

(* Without --scenario the deprecated SCENARIO_FILE is used, if set. *)
ScenarioArgument(env, args) ==
    IF args.scenario = Null THEN env["SCENARIO_FILE"] ELSE args.scenario

Configuration(env, args) ==
    Override(FromEnv(env), ScenarioArgument(env, args), args)

----------------------------------------------------------------------------
(* Scenario files.  A file that is missing or malformed is not in Files.   *)

IsLoadable(name) == Stem[name] \in DOMAIN Files
Load(name)       == Files[Stem[name]]

IsMixedScenario(name) == Load(name).includedScenarios # {}

(* A mixed run loads every scenario it includes, also those of weight 0.   *)
FaultyCanLoad(name) ==
    /\ IsLoadable(name)
    /\ \A s \in Weighted(Load(name).distribution) : IsLoadable(s)
CanLoad(name) ==
    /\ IsLoadable(name)
    /\ \A s \in Load(name).includedScenarios : IsLoadable(s)

(* The scenario of every order of a run. *)
PlannedAssignments(c) ==
    IF IsMixedScenario(c.scenario)
    THEN Assignments(Load(c.scenario).distribution, c.ordersCount)
    ELSE {[o \in 1..c.ordersCount |-> c.scenario]}

=============================================================================
