----------------------------- MODULE Cve2Config -----------------------------
(***************************************************************************)
(* util/cve2_config.py: the parameters of a named configuration, as options  *)
(* for the tool that builds the core.  A configuration is a function from    *)
(* parameters to values, a value its Python type and what it says.            *)
(***************************************************************************)
EXTENDS Sequences, FiniteSets

CONSTANT NotAMapping   \* what the file has where a configuration should be

BoolValue(v) == [type |-> "bool", v |-> v]
IntValue(v) == [type |-> "int", v |-> v]
StrValue(v) == [type |-> "str", v |-> v]

(* A configuration file is a sequence of named configurations.                *)
_verify_config(config) ==
  config # NotAMapping /\ \A p \in DOMAIN config : config[p].type \in {"bool", "int", "str"}

_verify_config_parameters(configs) ==
  \A i \in DOMAIN configs : DOMAIN configs[i].config = DOMAIN configs[1].config

get_config_dicts(file) ==
  /\ file.exists /\ file.parses
  /\ \A i \in DOMAIN file.configs : _verify_config(file.configs[i].config)
  /\ _verify_config_parameters(file.configs)

(* The file is the one of --config_filename, else the one that                *)
(* CVE2_CONFIG_FILE names, else _DEFAULT_CONFIG_FILE.                          *)
_DEFAULT_CONFIG_FILE == "cve2_configs.yaml"
get_config_file_location(environment) ==
  IF "CVE2_CONFIG_FILE" \in DOMAIN environment THEN environment["CVE2_CONFIG_FILE"] ELSE _DEFAULT_CONFIG_FILE
config_filename(args, environment) ==
  IF "config_filename" \in DOMAIN args THEN args["config_filename"] ELSE get_config_file_location(environment)

(* The script ends with 1 if the file is not in order, as a whole, or does not *)
(* have the configuration.                                                      *)
Named(name, file) == {i \in DOMAIN file.configs : file.configs[i].name = name}
parse_config_fails(name, file) == ~get_config_dicts(file) \/ Named(name, file) = {}
parse_config(name, file) == file.configs[CHOOSE i \in Named(name, file) : TRUE].config

---------------------------------------------------------------------------
(* For fusesoc a Boolean parameter is given or not given.                     *)
Option(kind, p, text) == [kind |-> kind, parameter |-> p, text |-> text]

M_FusesocOpts(config) ==
  {Option("flag", p, "") : p \in {q \in DOMAIN config : config[q].type = "bool"}} \cup
  {Option("param", p, config[p].v) : p \in {q \in DOMAIN config : config[q].type # "bool"}}
FusesocOpts(config) ==
  {Option("flag", p, "") : p \in {q \in DOMAIN config : config[q] = BoolValue(TRUE)}} \cup
  {Option("param", p, config[p].v) : p \in {q \in DOMAIN config : config[q].type # "bool"}}

(* Strings are meant for macros, all else for parameters.  How a simulator is  *)
(* given the two, if it is: some take one when they compile and the other when *)
(* they simulate, and DSim gets what is not a string as a macro.                *)
Meant(value) == IF value.type = "str" THEN "define" ELSE "param"
Simulators ==
  LET params == [param |-> "param"]
      defines == [define |-> "define"]
      both == [param |-> "param", define |-> "define"]
  IN  [vcs_opts          |-> both,
       xlm_opts          |-> both,
       riviera_sim_opts  |-> params,  riviera_compile_opts |-> defines,
       questa_sim_opts   |-> params,  questa_compile_opts  |-> defines,
       dsim_compile_opts |-> [param |-> "define"]]

Text(value) == IF value.type = "bool" THEN IF value.v THEN "1" ELSE "0" ELSE value.v

SimOpts(simulator, config) ==
  LET kind == Simulators[simulator]
  IN  {Option(kind[Meant(config[p])], p, Text(config[p])) : p \in {q \in DOMAIN config : Meant(config[q]) \in DOMAIN kind}}

output(output_fn, config) ==
  IF output_fn = "fusesoc_opts" THEN FusesocOpts(config) ELSE SimOpts(output_fn, config)
=============================================================================
