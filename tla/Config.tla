-------------------------------- MODULE Config --------------------------------
(***************************************************************************)
(* The command line (src/src/common/config.cpp) and the start of a gateway *)
(* process (src/src/gateway/main.cpp), which reads its settings from it.   *)
(*                                                                         *)
(* An argument is what ParseArgs() finds in it: the dashes in front, the   *)
(* key, and the value behind the first `=', if there is one.               *)
(***************************************************************************)
EXTENDS SequencesExt

CONSTANTS
  Values,        \* values of settings
  Numbers,       \* the ones that std::stoi takes
  EmptyValue,    \* the empty string
  NoValue,       \* no `=' in an argument, no such variable in the environment
  DefaultPort, DefaultAddr, DefaultId,
  MaxArgs        \* bound: arguments on the command line

Keys == {"port", "grpc-addr", "id"}

ASSUME ConfigAssumption ==
  /\ {DefaultPort, DefaultAddr, DefaultId, EmptyValue} \subseteq Values
  /\ DefaultPort \in Numbers /\ Numbers \subseteq Values \ {EmptyValue}
  /\ NoValue \notin Values

VARIABLES
  argv,     \* the arguments of the process
  env,      \* env[key]: HTTP_SERVER_DEMO_<key> in the environment
  gateway,  \* "starting", "listening", or "aborted"
  cfg       \* cfg_ of the GatewayContext

configVars == <<argv, env, gateway, cfg>>

Arguments == [dashes : BOOLEAN, key : Keys, value : Values \cup {NoValue}]

-----------------------------------------------------------------------------

\* Mutant of ParseArgs: a key that is there keeps its value, as with insert().
ParseArgsFirst(s) ==
  FoldLeft(LAMBDA args, arg :
             IF ~arg.dashes \/ arg.key \in DOMAIN args THEN args
             ELSE [k \in DOMAIN args \cup {arg.key} |->
                     IF k # arg.key THEN args[k]
                     ELSE IF arg.value = NoValue THEN EmptyValue ELSE arg.value],
           <<>>, s)

\* Arguments without dashes are passed over.
ParseArgs(s) ==
  FoldLeft(LAMBDA args, arg :
             IF ~arg.dashes THEN args
             ELSE [k \in DOMAIN args \cup {arg.key} |->
                     IF k # arg.key THEN args[k]
                     ELSE IF arg.value = NoValue THEN EmptyValue ELSE arg.value],
           <<>>, s)

\* An argument goes before the environment, and that before the default.
GetArg(args, key, def) ==
  IF key \in DOMAIN args THEN args[key]
  ELSE IF env[key] # NoValue THEN env[key] ELSE def

GatewayConfig(args) ==
  [port |-> GetArg(args, "port", DefaultPort),
   grpc_addr |-> GetArg(args, "grpc-addr", DefaultAddr),
   instance_id |-> GetArg(args, "id", DefaultId)]

DefaultConfig == [port |-> DefaultPort, grpc_addr |-> DefaultAddr, instance_id |-> DefaultId]

ConfigInit ==
  /\ argv = <<>>
  /\ env \in [Keys -> {NoValue, EmptyValue, DefaultPort}]
  /\ gateway = "starting"
  /\ cfg = DefaultConfig

\* Whoever starts the process writes one more argument.
AddArgument ==
  /\ gateway = "starting"
  /\ Len(argv) < MaxArgs
  /\ \E arg \in Arguments : argv' = Append(argv, arg)
  /\ UNCHANGED <<env, gateway, cfg>>

\* main() and GatewayContext::init(): nobody catches what std::stoi throws.
StartGateway ==
  /\ gateway = "starting"
  /\ LET c == GatewayConfig(ParseArgs(argv))
     IN  IF c.port \in Numbers THEN gateway' = "listening" /\ cfg' = c
         ELSE gateway' = "aborted" /\ UNCHANGED cfg
  /\ UNCHANGED <<argv, env>>

ConfigNext == AddArgument \/ StartGateway

-----------------------------------------------------------------------------

\* What the last argument for a key says, even when it says nothing.
Told(key, def) ==
  LET flags == {k \in 1..Len(argv) : argv[k].dashes /\ argv[k].key = key}
      value == argv[Max(flags)].value
  IN  IF flags # {} THEN IF value = NoValue THEN EmptyValue ELSE value
      ELSE IF env[key] # NoValue THEN env[key] ELSE def

\* A gateway listens with the settings of the last argument for each key, else
\* of the environment; and it does not come up at all exactly when that is no
\* port: `--port' without a value hides the environment and the default.
StartsAsTold ==
  /\ gateway = "listening" =>
       cfg = [port |-> Told("port", DefaultPort), grpc_addr |-> Told("grpc-addr", DefaultAddr),
              instance_id |-> Told("id", DefaultId)]
  /\ gateway # "starting" =>
       (gateway = "listening" <=> Told("port", DefaultPort) \in Numbers)

=============================================================================
