-------------------------------- MODULE Build --------------------------------
(***************************************************************************)
(* A build of the core: the Makefile or the CI asks cve2_config.py for the   *)
(* options of a configuration and calls fusesoc with them.  Before its tool   *)
(* runs, fusesoc calls the hooks of the .core files that the build uses: the   *)
(* check of the tools with the fileset of check_tool_requirements.core, which   *)
(* the lint cores use, and sv2v_in_place.py in the formal flow.                   *)
(***************************************************************************)
EXTENDS Cve2Config, ToolRequirements, Sv2vInPlace

CONSTANT Builds   \* what is built: the command, the files it finds, the tools installed

VARIABLES build,    \* one of them
          stage,    \* how far it is, or how it ended
          options,  \* what cve2_config.py has printed
          design    \* the parameters of the core that is built

ownVars == <<build, stage, options, design>>
buildVars == <<build, stage, options, design, requirementVars, sv2vVars>>
UnchangedScripts == UNCHANGED <<requirementVars, sv2vVars>>

---------------------------------------------------------------------------
(* cve2_config.py is called once for every kind of output that is needed.     *)
ConfigFile(b) == b.config_files[config_filename(b.config_args, b.environment)]
ConfigFails(b) == b.outputs # <<>> /\ parse_config_fails(b.config, ConfigFile(b))

Configure ==
  /\ stage = "configure" /\ ~ConfigFails(build)
  /\ options' = UNION {output(output_fn, parse_config(build.config, ConfigFile(build))) : output_fn \in ToSet(build.outputs)}
  /\ stage' = "check"
  /\ UNCHANGED <<build, design>> /\ UnchangedScripts

(* make takes what the command has printed, which is nothing, and goes on; the *)
(* CI stops, as it has said `set -e`.                                           *)
ConfigureNothing ==
  /\ stage = "configure" /\ ConfigFails(build)
  /\ build.by = "make"
  /\ stage' = "check"
  /\ UNCHANGED <<build, options, design>> /\ UnchangedScripts

ConfigureStops ==
  /\ stage = "configure" /\ ConfigFails(build)
  /\ build.by # "make"
  /\ stage' = "failed"
  /\ UNCHANGED <<build, options, design>> /\ UnchangedScripts

---------------------------------------------------------------------------
Hook(name) == name \in build.hooks

CheckTools ==
  /\ stage = "check" /\ Hook("check_tool_requirements")
  /\ \/ ReadRequirements(build.requirements, build.tools)
     \/ RefuseRequirements(build.requirements)
     \/ SkipTool
     \/ CheckTool(build.installed)
     \/ ReportTools
  /\ UNCHANGED <<ownVars, sv2vVars>>

ConvertFiles ==
  /\ stage = "convert" /\ Hook("sv2v_in_place")
  /\ \/ ReadLists(build.sv2v)
     \/ RefuseLists(build.sv2v)
     \/ TransformOne(build.sv2v)
     \/ Sv2vFails
     \/ CopyBack(build.sv2v)
     \/ SplatHeader(build.sv2v)
     \/ ConversionDone(build.sv2v)
     \/ ConversionStopped
  /\ UNCHANGED <<ownVars, requirementVars>>

(* The build goes on when the hook has passed, and only then.                  *)
ToolsChecked ==
  /\ stage = "check"
  /\ Hook("check_tool_requirements") => checked = "ok"
  /\ stage' = "convert"
  /\ UNCHANGED <<build, options, design>> /\ UnchangedScripts

FilesConverted ==
  /\ stage = "convert"
  /\ Hook("sv2v_in_place") => converting = "ok"
  /\ stage' = "tool"
  /\ UNCHANGED <<build, options, design>> /\ UnchangedScripts

HookFails ==
  /\ \/ stage = "check" /\ checked = "failed"
     \/ stage = "convert" /\ converting \in {"failed", "stopped"}
  /\ stage' = "failed"
  /\ UNCHANGED <<build, options, design>> /\ UnchangedScripts

(* The tool: a flag is a parameter that is set, and what no option is about    *)
(* keeps the value that its declaration gives it.                              *)
Given(p) == {option \in options : option.parameter = p}
Value(option) == IF option.kind = "flag" THEN "1" ELSE option.text

RunTool ==
  /\ stage = "tool"
  /\ design' = [p \in {option.parameter : option \in options} \cup DOMAIN build.declared |->
                  IF Given(p) # {} THEN Value(CHOOSE option \in Given(p) : TRUE) ELSE build.declared[p]]
  /\ stage' = "built"
  /\ UNCHANGED <<build, options>> /\ UnchangedScripts

---------------------------------------------------------------------------
BuildInit ==
  /\ build \in Builds
  /\ stage = "configure" /\ options = {} /\ design = build.declared
  /\ CheckInit
  /\ ConvertInit(build.sv2v.file_list)

BuildNext ==
  \/ Configure \/ ConfigureNothing \/ ConfigureStops
  \/ CheckTools \/ ToolsChecked
  \/ ConvertFiles \/ FilesConverted
  \/ HookFails \/ RunTool

BuildSpec == BuildInit /\ [][BuildNext]_buildVars

BuildTypeOK ==
  /\ stage \in {"none", "configure", "check", "convert", "tool", "built", "failed"}
  /\ checked \in {"no", "checking", "ok", "failed"}
  /\ converting \in {"no", "transform", "ok", "failed", "stopped"}
  /\ \A option \in options : option.kind \in {"flag", "param", "define"}
  /\ missing_tools \subseteq DOMAIN build.installed
  /\ pending_tools \subseteq build.tools
  /\ DOMAIN files = {path.name : path \in ToSet(build.sv2v.file_list)}
  /\ waiting \cup DOMAIN written \subseteq sv_paths(build.sv2v.file_list)

---------------------------------------------------------------------------
(* What is built is the configuration that was named: each of its parameters  *)
(* is given at most once and has its value.  If the configuration cannot be     *)
(* had, make alone builds, since it was not told: then nothing at all was         *)
(* given, and the core is the one that its declarations describe, never a mix.    *)
BuildsWhatItNames ==
  stage = "built" /\ build.outputs # <<>> =>
    /\ ConfigFails(build) =>
         /\ build.by = "make" /\ options = {}
         /\ \A p \in DOMAIN build.declared : design[p] = build.declared[p]
    /\ ~ConfigFails(build) =>
         LET config == parse_config(build.config, ConfigFile(build))
         IN  \A p \in DOMAIN config :
               /\ design[p] = Text(config[p])
               /\ Cardinality(Given(p)) <= 1

(* What is built asks for one output with all parameters, or for outputs of    *)
(* simulators that have them all between them, each as what it is meant for.  A   *)
(* Boolean parameter without an option is off.                                     *)
AsMeant == {s \in DOMAIN Simulators : \A kind \in DOMAIN Simulators[s] : Simulators[s][kind] = kind}

OutputsAreComplete ==
  \A b \in Builds : b.outputs # <<>> /\ ~ConfigFails(b) =>
    LET config == parse_config(b.config, ConfigFile(b))
        booleans == {p \in DOMAIN config : config[p].type = "bool"}
        outputs == ToSet(b.outputs)
    IN  /\ \A p \in booleans : config[p] \in {BoolValue(TRUE), BoolValue(FALSE)}
        /\ \/ outputs = {"fusesoc_opts"} /\ \A p \in booleans : p \in DOMAIN b.declared /\ b.declared[p] = "0"
           \/ outputs \subseteq AsMeant /\ {"param", "define"} \subseteq UNION {DOMAIN Simulators[s] : s \in outputs}

---------------------------------------------------------------------------
(* Releases come in the order of their numbers.                                *)
Release(version) == [i \in 1 .. 4 |-> IF i \in DOMAIN version.digits THEN version.digits[i] ELSE 0]
Precedes(v, w) == \E i \in 1 .. 4 : Release(v)[i] < Release(w)[i] /\ \A j \in 1 .. i - 1 : Release(v)[j] = Release(w)[j]

Fulfilled(req, installation) ==
  /\ Readable(req.tool, req.min_version, TRUE)
  /\ installation.kind = "answer" /\ Readable(req.tool, installation.version, FALSE)
  /\ ~Precedes(installation.version, req.min_version)

(* The tools that main has to look at.                                         *)
Looked(b) == {req \in ToSet(read_tool_requirements(b.requirements)) : req.as_needed => req.tool \in b.tools}
KnownTools(b) == {demand.tool : demand \in ToSet(b.requirements)}

InOrder(b) == read_tool_requirements_ok(b.requirements) /\ b.tools \subseteq KnownTools(b)
Fulfils(b) == InOrder(b) /\ \A req \in Looked(b) : Fulfilled(req, b.installed[req.tool])

(* "we multiply any SP number by 100, which should work as long as the patch   *)
(* version isn't greater than 99": the check passes if and only if its file can  *)
(* be read, every tool named is one it knows of, and every tool it has to look    *)
(* at is there in a release not before the one demanded.                           *)
ReleasesInOrder == checked \in {"ok", "failed"} => (checked = "ok" <=> Fulfils(build))

(* It is not so.  The service pack and the patch are written behind the month   *)
(* without leading zeros, so that of two releases of VCS of one year the one      *)
(* with more digits there can win although it is the older one.                   *)
Digits(version) == Shift(version.digits[3] * 100 + version.digits[4])
OneYear(req, installation) ==
  /\ req.tool = "vcs" /\ Readable("vcs", req.min_version, TRUE)
  /\ installation.kind = "answer" /\ Readable("vcs", installation.version, FALSE)
  /\ installation.version.digits[1] = req.min_version.digits[1]
Favoured(req, installation) ==
  OneYear(req, installation) /\ Digits(installation.version) > Digits(req.min_version)
Slighted(req, installation) ==
  OneYear(req, installation) /\ Digits(installation.version) < Digits(req.min_version)

(* That is all that goes wrong: a check that passes has passed no tool that is  *)
(* absent, unreadable or too old, but for a release with more digits, and a        *)
(* check that fails has a reason, be it a release with fewer; whatever order the    *)
(* tools come in.                                                                    *)
ChecksTheReleases ==
  /\ checked = "ok" =>
       /\ InOrder(build)
       /\ \A req \in Looked(build) :
            LET installation == build.installed[req.tool]
            IN  Fulfilled(req, installation) \/ Favoured(req, installation)
  /\ checked = "failed" =>
       \/ ~InOrder(build)
       \/ \E req \in Looked(build) :
            LET installation == build.installed[req.tool]
            IN  ~Fulfilled(req, installation) \/ Slighted(req, installation)

(* The requirements are a dictionary, and versions what their notations say; a *)
(* service pack or a patch of VCS is not greater than 99.                        *)
IsVersion(version) ==
  /\ version.digits \in Seq(Nat)
  /\ version.notation = "vcs" => Len(version.digits) = 4 /\ version.digits[3] < 100 /\ version.digits[4] < 100

RequirementsAreVersions ==
  \A b \in Builds : read_tool_requirements_ok(b.requirements) =>
    /\ b.requirements \in Seq(ToSet(b.requirements))
    /\ \A i, j \in DOMAIN b.requirements : b.requirements[i].tool = b.requirements[j].tool => i = j
    /\ \A req \in Looked(b) :
         /\ IsVersion(req.min_version)
         /\ b.installed[req.tool].kind = "answer" => IsVersion(b.installed[req.tool].version)

---------------------------------------------------------------------------
(* A file has one place in the list, or the same twice.                        *)
FilesAreDistinct ==
  \A b \in Builds : \A p, q \in ToSet(b.sv2v.file_list) : p.name = q.name => p = q

(* Every file is made from the originals of what it includes, never from a     *)
(* file that was converted or emptied before it; no header is emptied before     *)
(* all files are converted; and if sv2v fails, nothing has been changed.          *)
Original(path) ==
  Verilog(path.name, build.sv2v.defines \cup extra_file_defines(build.sv2v, path),
          {<<q.name, AsWritten(q.name)>> : q \in Read(build.sv2v.file_list, path)})

ConvertedFromOriginals ==
  LET list == ToSet(build.sv2v.file_list)
      converted == {path \in list : path.extension = ".sv" /\ files[path.name] = Original(path)}
      emptied == {path \in list : path.extension = ".svh" /\ files[path.name] = Empty}
      untouched == {path \in list : files[path.name] = AsWritten(path.name)}
  IN  /\ list = converted \cup emptied \cup untouched
      /\ emptied # {} => \A path \in list : path.extension = ".sv" => path \in converted
      /\ converting = "failed" => untouched = list
      /\ converting = "ok" => untouched = {path \in list : path.extension \notin {".sv", ".svh"}}
=============================================================================
