------------------------------ MODULE MCScripts ------------------------------
EXTENDS Scripts

---------------------------------------------------------------------------
(* The upstream has two revisions, and a fork.                                 *)
File(p, blob) == p :> <<blob>>
Upstream1 == File(<<"src", "a">>, "a1") @@ File(<<"src", "b">>, "b1") @@ File(<<"docs", "d">>, "d1") @@ File(<<"LICENSE">>, "l")
Upstream2 == File(<<"src", "a">>, "a2") @@ Upstream1
MCRepos ==
  [up   |-> [history |-> <<"r1", "r2">>, tree |-> [r1 |-> AsTree(Upstream1), r2 |-> AsTree(Upstream2)]],
   fork |-> [history |-> <<"f1">>, tree |-> [f1 |-> AsTree(File(<<"src", "b">>, "b2") @@ Upstream2)]]]

(* The second patch is made on top of the first; the third fits r1 alone.      *)
First(file) == [id |-> "p1", name |-> 1, file |-> file, fits |-> {<<"a1">>, <<"a2">>}]
Second(file) == [id |-> "p2", name |-> 2, file |-> file, fits |-> {<<"a1", "p1">>, <<"a2", "p1">>}]
Third(file) == [id |-> "p3", name |-> 3, file |-> file, fits |-> {<<"a1", "p1", "p2">>}]
License(file) == [id |-> "p4", name |-> 1, file |-> file, fits |-> {<<"l">>}]
A == <<"src", "a">>

MCSeries == [fork |-> (<<"base", "patched">> :> <<First(A), Second(A)>>)]

---------------------------------------------------------------------------
Flags == [update : BOOLEAN, refresh : BOOLEAN, commit : BOOLEAN]
Command(flags, overrides) == [overrides |-> overrides] @@ flags
Set(key, value) == [key |-> key, parts |-> <<key, value>>]
Commands(refresh, overrides) ==
  {Command(flags, arguments) : flags \in {f \in Flags : f.refresh \in refresh}, arguments \in overrides}
Only(commit, overrides) == Command([update |-> FALSE, refresh |-> FALSE, commit |-> commit], overrides)

Data(fields) == fields @@ [name |-> "n", target_dir |-> "t", upstream |-> [url |-> "up", rev |-> "master"]]
Entry(from, to) == [kind |-> "dict", data |-> [from |-> from, to |-> to]]
Patched(from, to, dir) == [kind |-> "dict", data |-> [from |-> from, to |-> to, patch_dir |-> dir]]
Path(p) == [kind |-> "str", path |-> p]
NoFields == [key \in {} |-> None]
NoPatches == [p \in {} |-> None]
At1 == [url |-> "up", rev |-> "r1", only_subdir |-> None]

Project(fields, present, commands) ==
  [file |-> [suffix |-> TRUE, parses |-> TRUE, data |-> Data(fields)],
   upstream |-> At1, lock |-> At1, patches |-> present, drafts |-> NoPatches, commands |-> commands]

Plain ==
  [Project([patch_dir |-> "p", exclude_from_upstream |-> <<{<<"docs">>}>>],
           <<<<>>, 1>> :> First(A) @@ <<<<>>, 2>> :> Second(A),
           Commands({FALSE}, {<<>>}))
     EXCEPT !.drafts = <<<<>>, 3>> :> Third(A)]
Mapped ==
  [Project([patch_dir |-> "p",
            mapping |-> <<Patched(<<"src">>, <<"x", "y">>, <<"s">>),
                          Patched(<<"LICENSE">>, <<"x", "LICENSE">>, <<"l">>), Path(<<"docs">>)>>],
           <<<<"s">>, 1>> :> First(<<"a">>) @@ <<<<"l">>, 1>> :> License(<<"LICENSE">>),
           Commands({FALSE}, {<<>>}))
     EXCEPT !.lock = None]
Refreshed ==
  Project([patch_dir |-> "p", patch_repo |-> [url |-> "fork", rev_base |-> "base", rev_patched |-> "patched"]],
          <<<<>>, 1>> :> First(A), Commands(BOOLEAN, {<<>>}))


(* Other shapes of the mapping, and other descriptions: imported once or twice. *)
Shape(fields, commands) == [Project(fields, NoPatches, commands) EXCEPT !.lock = None]
Once(overrides) == {Only(FALSE, overrides)}
Refresh == [update |-> FALSE, refresh |-> TRUE, commit |-> FALSE]
Update == Command([update |-> TRUE, refresh |-> FALSE, commit |-> TRUE], <<>>)
Both(project1, lock1) == [project1 EXCEPT !.lock = lock1, !.commands = {Update, Only(TRUE, <<>>)}]

IntoDir == Shape([mapping |-> <<Entry(<<"src">>, <<".">>), Entry(<<"LICENSE">>, <<".">>)>>], {Update})
FileOver == Shape([mapping |-> <<Entry(<<"src">>, <<"x">>), Entry(<<"LICENSE">>, <<"x", "a">>)>>], {Update})
Single == Shape([mapping |-> <<Entry(<<"LICENSE">>, <<".">>)>>], {Update})
Overlap == Shape([mapping |-> <<Entry(<<"src">>, <<"x">>), Entry(<<"docs">>, <<"x">>)>>], {Update})
Below1 == Shape([mapping |-> <<Entry(<<"LICENSE">>, <<"x">>), Entry(<<"docs">>, <<"x", "docs">>)>>], {Update})
Absent == Shape([mapping |-> <<Path(<<"gone">>)>>], {Update})
InSubdir(dir) == Shape([upstream |-> [url |-> "up", rev |-> "master", only_subdir |-> dir]], {Update, Only(TRUE, <<>>)})
ByHand == Both(Plain, [At1 EXCEPT !.rev = "master"])

Overridden ==
  [Plain EXCEPT !.commands =
     {Only(FALSE, <<[key |-> <<"upstream", "rev">>, parts |-> <<"a", "b", "c">>]>>),
      Only(FALSE, <<Set(<<"name", "name">>, "n")>>),
      Only(FALSE, <<Set(<<"patch_repo", "url">>, "fork")>>), Command(Refresh, <<>>),
      Command(Refresh, <<Set(<<"patch_repo", "url">>, "fork"), Set(<<"patch_repo", "rev_base">>, "base"),
                         Set(<<"patch_repo", "rev_patched">>, "patched")>>)} \cup
     {Command([update |-> TRUE, refresh |-> FALSE, commit |-> TRUE], override) :
        override \in {<<Set(<<"upstream", "rev">>, "r2")>>, <<Set(<<"upstream", "url">>, "fork")>>}}]

(* Descriptions that are refused.                                              *)
Bad(fields) == Shape(fields, Once(<<>>))
Repo == [url |-> "fork", rev_base |-> "base", rev_patched |-> "patched"]
Refused ==
  {[Bad(NoFields) EXCEPT !.file.suffix = FALSE], [Bad(NoFields) EXCEPT !.file.parses = FALSE]} \cup
  {Bad(fields) : fields \in
     {[name |-> IllTyped], [upstream |-> IllTyped], [upstream |-> [url |-> "up"]],
      [upstream |-> [url |-> "up", rev |-> "r1", only_subdir |-> IllTyped]],
      [patch_dir |-> IllTyped], [mapping |-> IllTyped],
      [patch_repo |-> Repo],
      [patch_repo |-> [url |-> "fork"], patch_dir |-> "p"],
      [patch_repo |-> Repo, patch_dir |-> "p", mapping |-> <<Path(<<"src">>)>>],
      [patch_dir |-> "p", mapping |-> <<Path(<<"src">>)>>],
      [mapping |-> <<Patched(<<"src">>, <<"x">>, <<"s">>)>>],
      [mapping |-> <<IllTyped>>], [mapping |-> <<Path(<<"/", "src">>)>>],
      [mapping |-> <<Entry(<<"src">>, <<"x", "..", "..", "y">>)>>],
      [mapping |-> <<[kind |-> "dict", data |-> [from |-> <<"src">>]]>>],
      [exclude_from_upstream |-> <<IllTyped>>]}}

MCProjects ==
  {Plain, Mapped, Refreshed, Overridden, IntoDir, FileOver, Single, Overlap, Below1, Absent,
   InSubdir(<<"src">>), InSubdir(<<"gone">>), ByHand} \cup Refused

---------------------------------------------------------------------------
(* Builds.                                                                     *)
Config(name, config) == [name |-> name, config |-> config]
Small == [MHPMCounterNum |-> IntValue("10"), RV32E |-> IntValue("0"), RV32M |-> StrValue("fast")]
Flagged(on) == [ICache |-> BoolValue(on), RV32E |-> IntValue("1"), RV32M |-> StrValue("slow")]
Declared == [ICache |-> "0", MHPMCounterNum |-> "0", RV32E |-> "0", RV32M |-> "single"]
Yaml(configs) == [exists |-> TRUE, parses |-> TRUE, configs |-> configs]
NoYaml == [exists |-> FALSE, parses |-> FALSE, configs |-> <<>>]

ConfigFiles ==
  "cve2_configs.yaml" :> Yaml(<<Config("small", Small)>>) @@
  "flagged.yaml" :> Yaml(<<Config("on", Flagged(TRUE)), Config("off", Flagged(FALSE))>>) @@
  "typed.yaml" :> Yaml(<<Config("small", [RV32E |-> [type |-> "list", v |-> ""]])>>) @@
  "bare.yaml" :> Yaml(<<Config("small", NotAMapping)>>) @@
  "differing.yaml" :> Yaml(<<Config("small", Small), Config("on", Flagged(TRUE))>>) @@
  "broken.yaml" :> [NoYaml EXCEPT !.exists = TRUE] @@
  "absent.yaml" :> NoYaml

NoConversion == [file_list |-> <<>>]
NoTools == [tool \in {} |-> Missing]
Installed(verilator, edalize) == [verilator |-> verilator, edalize |-> edalize, vcs |-> Missing, vivado |-> Missing]
Good == Installed(Answer(Semver(<<4, 210>>)), Answer(Semver(<<0, 2>>)))

CoreBuild(by, outputs, config, arguments, environment) ==
  [by |-> by, outputs |-> outputs, config |-> config, config_args |-> arguments, environment |-> environment,
   config_files |-> ConfigFiles, declared |-> Declared,
   hooks |-> {},
   requirements |-> TOOL_REQUIREMENTS, tools |-> {}, installed |-> Good, sv2v |-> NoConversion]

Outputs == {<<"fusesoc_opts">>, <<"vcs_opts">>, <<"xlm_opts">>,
            <<"riviera_compile_opts", "riviera_sim_opts">>, <<"questa_compile_opts", "questa_sim_opts">>}
FromFile(name) == "config_filename" :> name
Configured ==
  {CoreBuild(by, <<"fusesoc_opts">>, config, NoFields, NoFields) : by \in {"make", "ci"}, config \in {"small", "large"}} \cup
  {CoreBuild("ci", outputs, config, FromFile("flagged.yaml"), NoFields) : outputs \in Outputs, config \in {"on", "off"}} \cup
  {CoreBuild("ci", <<"fusesoc_opts">>, "small", arguments, "CVE2_CONFIG_FILE" :> name) :
     arguments \in {NoFields, FromFile("cve2_configs.yaml")},
     name \in {"typed.yaml", "bare.yaml", "differing.yaml", "broken.yaml", "absent.yaml"}}

(* What is installed, and what is asked for.                                   *)
Checked(requirements, tools, installed) ==
  [CoreBuild("user", <<>>, "small", NoFields, NoFields) EXCEPT
     !.hooks = {"check_tool_requirements"}, !.requirements = requirements, !.tools = tools, !.installed = installed]
Need(tool, version) == <<[tool |-> tool, raw |-> version]>>
VcsReleases ==
  {<<2019, 12, 2, 0>>, <<2020, 3, 0, 0>>, <<2020, 3, 1, 0>>, <<2020, 3, 2, 0>>, <<2020, 3, 2, 7>>, <<2020, 12, 0, 0>>, <<2021, 9, 0, 0>>}

ToolChecks ==
  {Checked(TOOL_REQUIREMENTS, tools, Installed(verilator, edalize)) :
     tools \in {{}, {"verilator"}, {"gcc"}},
     verilator \in {Missing, Silent, Answer(Unknown), Answer(Semver(<<4, 27>>)), Answer(Semver(<<4, 28>>)), Answer(Semver(<<5>>))},
     edalize \in {Missing, Silent, Answer(Semver(<<0, 1, 9>>)), Answer(Semver(<<0, 2, 0>>))}} \cup
  {Checked(TOOL_REQUIREMENTS, {"vcs"}, [Good EXCEPT !.vcs = Answer(Vcs(release, cruft))]) :
     release \in VcsReleases, cruft \in BOOLEAN} \cup
  {Checked(Need("vcs", Vcs(<<2020, 12, sp, 0>>, cruft)), {}, "vcs" :> Answer(Vcs(release, FALSE))) :
     release \in VcsReleases, sp \in {0, 1}, cruft \in BOOLEAN} \cup
  {Checked(Need("verible", required1), {}, "verible" :> installed) :
     required1 \in {Verible(<<0, 0, 808>>), Semver(<<0, 0, 808>>)},
     installed \in {Answer(Verible(<<0, 0, 90>>)), Answer(Verible(<<0, 0, 808>>)), Answer(Semver(<<0, 0, 900>>)), Missing}} \cup
  {Checked(file, {"vcs"}, [Good EXCEPT !.vcs = Answer(Vcs(<<2021, 9, 0, 0>>, TRUE))]) :
     file \in {WrongType, Need(WrongType, Semver(<<1, 0>>)), Need("edalize", WrongType),
               Need("vcs", [min_version |-> Vcs(<<2020, 3, 0, 0>>, FALSE)]),
               Need("vcs", [as_needed |-> TRUE]), Need("vcs", [min_version |-> WrongType]),
               Need("vcs", [min_version |-> Semver(<<1, 0>>), as_needed |-> WrongType]),
               Need("vcs", [min_version |-> Semver(<<1, 0>>), other |-> TRUE])}}

(* The files of a formal flow: a package, a module that includes another       *)
(* file and a header, and one that is Verilog already.                           *)
SvFile(name, extension, pkg, matches, includes) ==
  [name |-> name, extension |-> extension, pkg |-> pkg, matches |-> matches, includes |-> includes]
FileList ==
  <<SvFile("pkg", ".sv", TRUE, {}, {}), SvFile("assert", ".sv", FALSE, {"prim"}, {}), SvFile("head", ".svh", FALSE, {}, {}),
    SvFile("tail", ".svh", FALSE, {}, {}), SvFile("core", ".sv", FALSE, {}, {"assert", "head"}), SvFile("old", ".v", FALSE, {}, {})>>
DefineIf(colon) == [colon |-> colon, compiles |-> TRUE, regex |-> "prim", define |-> "SYNTHESIS"]
Converted(file_list, incdir_list, define_if) ==
  [CoreBuild("user", <<>>, "small", NoFields, NoFields) EXCEPT
     !.hooks = {"sv2v_in_place"},
     !.sv2v = [file_list |-> FileList, file_list_exists |-> file_list, incdir_list_exists |-> incdir_list,
               defines |-> {"YOSYS", "FORMAL"}, define_if |-> define_if]]
Conversions ==
  {Converted(TRUE, TRUE, <<DefineIf(TRUE)>>), Converted(FALSE, TRUE, <<>>), Converted(TRUE, FALSE, <<>>),
   Converted(TRUE, TRUE, <<DefineIf(FALSE)>>)}

MCBuilds == Configured \cup ToolChecks \cup Conversions

(* They are builds that the theorems about builds are for.                     *)
ASSUME MCBuildsAssumption == OutputsAreComplete /\ RequirementsAreVersions /\ FilesAreDistinct

(* The releases of VCS against the one that tool_requirements.py demands.      *)
MCVcsChecks ==
  {Checked(TOOL_REQUIREMENTS, {"vcs"}, [Good EXCEPT !.vcs = Answer(Vcs(release, FALSE))]) : release \in VcsReleases}
=============================================================================
