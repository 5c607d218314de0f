------------------------------- MODULE Launch -------------------------------
(***************************************************************************)
(* How a command comes by its settings and starts (GSagent/config.py and   *)
(* the commands run, chat and serve of GSagent/main.py): the defaults, the *)
(* YAML file, the environment and the options, in that order, and then the *)
(* checks of the approval mode.                                            *)
(*                                                                         *)
(* There is one setting for each way a setting is treated.  A value is a   *)
(* string; "" and "bad" are what a user may write that cannot be used.     *)
(* DEFAULT_CONFIG is an object of the process: each Config is made from it *)
(* and changes its own copy.                                               *)
(***************************************************************************)
EXTENDS Naturals

CONSTANTS
  Files,          \* what config.yaml may say: [Settings -> values]
  Environments,   \* what the environment may say
  Options,        \* what the options may say
  MaxConfigs      \* bound: Configs made in one process

\* a YAML boolean is one
ASSUME LaunchAssumption ==
  MaxConfigs \in Nat /\ \A f \in Files : f["multi"] # "bad"

VARIABLES
  environment,
  defaults,   \* DEFAULT_CONFIG
  data,       \* config.data of the Config that is in use
  file,       \* history: the file that Config was made from
  options,    \* history: the options it was given
  phase,      \* how far the command is
  mode,       \* the approval mode the agent was started with
  made        \* Configs made

launchVars == <<environment, defaults, data, file, options, phase, mode, made>>

\* policy.hitl_mode, agent.max_steps, llm.api_key, multi_agent.enabled, and a
\* field of the section sandbox and of multi_agent.sandbox
Settings == {"hitl", "steps", "key", "multi", "sandbox", "own_sandbox"}
Unset == "unset"
Null == "null"                      \* a YAML section that is written empty
Blank == [s \in Settings |-> Unset]
Modes == {"auto", "always", "never"}

Original ==
  [s \in Settings |-> CASE s = "hitl" -> "auto" [] s = "key" -> "" [] s = "multi" -> "off"
                        [] OTHER -> "default"]

LaunchTypeOK ==
  /\ environment \in Environments
  /\ DOMAIN defaults = Settings /\ DOMAIN data = Settings
  /\ file \in Files \cup {Blank} /\ options \in Options \cup {Blank}
  /\ phase \in {"idle", "loaded", "overridden", "refused", "run", "chat", "multi", "plan",
                "serve"}
  /\ mode \in Modes \cup {Unset}
  /\ made \in 0..MaxConfigs

LaunchInit ==
  /\ environment \in Environments
  /\ defaults = Original /\ data = Original
  /\ file = Blank /\ options = Blank
  /\ phase = "idle" /\ mode = Unset /\ made = 0

-----------------------------------------------------------------------------
(* The layers.                                                             *)

Merged(base, over) == [s \in Settings |-> IF over[s] = Unset THEN base[s] ELSE over[s]]

\* the converters of _ENV_OVERRIDES; a boolean that is none is off, whatever
\* the current one is
EnvValue(s, raw, current) ==
  IF raw = Unset THEN current
  ELSE CASE s = "hitl"  -> raw
         [] s = "key"   -> IF raw = "" THEN current ELSE raw
         [] s = "steps" -> IF raw \in {"", "bad"} THEN current ELSE raw
         [] s = "multi" -> CASE raw = "" -> current [] raw = "bad" -> "off" [] OTHER -> raw
         [] OTHER       -> current

WithEnvironment(d) == [s \in Settings |-> EnvValue(s, environment[s], d[s])]

\* an empty section cannot be written to
EnvRaises(d) == \E s \in Settings : d[s] = Null /\ environment[s] # Unset

WithSandbox(d) ==
  [d EXCEPT !["sandbox"] =
     IF d["own_sandbox"] # Null THEN d["own_sandbox"]
     ELSE IF d["sandbox"] # Null THEN d["sandbox"] ELSE defaults["sandbox"]]

LoadShared(f) ==                       \* mutant: the copy is shallow
  /\ phase \in {"idle", "loaded"} /\ made < MaxConfigs
  /\ made' = made + 1 /\ file' = f
  /\ ~EnvRaises(Merged(defaults, f))
  /\ defaults' = WithEnvironment(Merged(defaults, f))
  /\ data' = WithSandbox(WithEnvironment(Merged(defaults, f)))
  /\ phase' = "loaded"
  /\ UNCHANGED <<environment, options, mode>>

\* Config(); a file that is missing or cannot be read says nothing
Load(f) ==
  /\ phase \in {"idle", "loaded"} /\ made < MaxConfigs
  /\ made' = made + 1 /\ file' = f
  /\ LET read == Merged(defaults, f)
     IN  IF EnvRaises(read)
         THEN phase' = "refused" /\ data' = data
         ELSE phase' = "loaded" /\ data' = WithSandbox(WithEnvironment(read))
  /\ UNCHANGED <<environment, defaults, options, mode>>

-----------------------------------------------------------------------------
(* The commands.                                                           *)

CommandStep == UNCHANGED <<environment, defaults, file, made>>

Refuse == phase' = "refused" /\ mode' = mode

RunsInAny(kind, m) == phase' = kind /\ mode' = m     \* mutant: set_mode checks nothing

\* HitlPolicy raises ValueError for a mode that is none
RunsIn(kind, m) == IF m \in Modes THEN phase' = kind /\ mode' = m ELSE Refuse

\* _validate_hitl, and apply_overrides
Override(o) ==
  /\ phase = "loaded" /\ options' = o
  /\ IF o["hitl"] \notin Modes \cup {Unset} \/ \E s \in Settings : o[s] # Unset /\ data[s] = Null
     THEN Refuse /\ data' = data
     ELSE /\ phase' = "overridden" /\ mode' = mode
          /\ data' = [s \in Settings |-> IF o[s] \in {Unset, ""} \/ s = "multi"
                                         THEN data[s] ELSE o[s]]
  /\ CommandStep

ModeOf(otherwise) == IF data["hitl"] = Null THEN otherwise ELSE data["hitl"]

\* without a key in the Config an agent can be made only if the client
\* library finds one
Keyless == data["key"] \in {"", Null}

Start(kind) ==
  /\ phase = "overridden"
  /\ RunsIn(kind, ModeOf("auto")) \/ (Keyless /\ Refuse)
  /\ UNCHANGED <<data, options>> /\ CommandStep

StartRun == Start("run")

IsMulti == options["multi"] = "on" \/ data["multi"] = "on"

Chat(plan) == Start(IF plan THEN "plan" ELSE IF IsMulti THEN "multi" ELSE "chat")

ServeMode(o) == IF o["hitl"] # Unset THEN o["hitl"] ELSE ModeOf("never")

\* serve, whose one option here is --hitl, and create_app, which writes the
\* mode into the Config
Serve(o) ==
  /\ phase = "loaded" /\ options' = o
  /\ \A s \in Settings \ {"hitl"} : o[s] = Unset
  /\ IF o["hitl"] \notin {Unset, "never", "auto"} \/ ServeMode(o) = "always" \/ data["hitl"] = Null
     THEN Refuse /\ data' = data
     ELSE /\ data' = [data EXCEPT !["hitl"] = ServeMode(o)]
          /\ RunsIn("serve", ServeMode(o)) \/ (Keyless /\ Refuse)
  /\ CommandStep

LaunchNext ==
  \/ \E f \in Files : Load(f)
  \/ \E o \in Options : Override(o) \/ Serve(o)
  \/ StartRun \/ \E plan \in BOOLEAN : Chat(plan)

LaunchSpec == LaunchInit /\ [][LaunchNext]_launchVars

-----------------------------------------------------------------------------
(* Properties.                                                             *)

\* what a converter is to pass over for the current value (config.py:151-187)
Unusable ==
  {<<"steps", "">>, <<"steps", "bad">>, <<"key", "">>, <<"multi", "">>, <<"multi", "bad">>}

\* what a layer says of a setting, if it says anything that can be used
Says(layer, s) ==
  CASE layer = "option"      -> IF s = "multi" \/ options[s] = "" THEN Unset ELSE options[s]
    [] layer = "environment" -> IF <<s, environment[s]>> \in Unusable THEN Unset
                                ELSE environment[s]
    [] layer = "file"        -> file[s]

\* what the closest layer that says anything says
Closest(s) ==
  LET Or(v, otherwise) == IF v = Unset THEN otherwise ELSE v
  IN  Or(Says("option", s), Or(Says("environment", s), Or(Says("file", s), Original[s])))

Ready == phase \notin {"idle", "refused"}

\* a boolean that is none is not passed over: IllegalKeepsCurrent
Misread(s) == s = "multi" /\ environment[s] = "bad"

\* Whatever Configs the process has made before, and wherever a setting is
\* given, the one in use holds what the closest layer that can be used says:
\* the options, the environment, the file, the default (config.py:220-317).
\* An agent starts in the mode that says so, and a server never in the mode
\* always, in which every call waits for somebody (main.py:100-109, 944-957;
\* server.py:109-119).
ClosestLayer ==
  Ready =>
    /\ \A s \in Settings \ {"sandbox", "own_sandbox"} : ~Misread(s) => data[s] = Closest(s)
    /\ phase \notin {"loaded", "overridden"} /\ Closest("hitl") # Null => mode = Closest("hitl")
    /\ phase = "serve" => mode # "always"

-----------------------------------------------------------------------------
(* What the code says of itself and does not do.                           *)

\* config.py:168: a boolean of the environment that is none leaves the
\* current value.
IllegalKeepsCurrent == Ready => data["multi"] = Closest("multi")

\* server.py:24: unless it is told to, a server runs in the mode never.
ServesNever ==
  phase = "serve" /\ mode # "never" =>
    \/ options["hitl"] # Unset \/ environment["hitl"] # Unset \/ file["hitl"] # Unset
=============================================================================
