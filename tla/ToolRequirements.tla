-------------------------- MODULE ToolRequirements --------------------------
(***************************************************************************)
(* util/check_tool_requirements.py: are the tools installed that             *)
(* tool_requirements.py asks for, and are they new enough?  A version is its  *)
(* notation and its numbers.                                                   *)
(***************************************************************************)
EXTENDS Integers, Sequences, SequencesExt

CONSTANT WrongType   \* of a value in tool_requirements.py: not what it should be

VARIABLES queue,           \* the requirements that are still to be checked
          pending_tools,   \* tools named on the command line, not found yet
          missing_tools,   \* tools that failed
          checked          \* the exit status, once there is one

requirementVars == <<queue, pending_tools, missing_tools, checked>>

Semver(digits) == [notation |-> "semver", digits |-> digits]
Verible(digits) == [notation |-> "verible", digits |-> digits]
(* 2020.03-SP2-1 is <<2020, 3, 2, 1>>; cruft may follow.                       *)
Vcs(digits, cruft) == [notation |-> "vcs", digits |-> digits, cruft |-> cruft]
Unknown == [notation |-> "unknown", digits |-> <<>>]

---------------------------------------------------------------------------
(* tool_requirements.py                                                       *)
Demands(tool, raw) == [tool |-> tool, raw |-> raw]
TOOL_REQUIREMENTS ==
  <<Demands("verilator", Semver(<<4, 28>>)), Demands("edalize", Semver(<<0, 2, 0>>)),
    Demands("vcs", [min_version |-> Vcs(<<2020, 3, 2, 0>>, FALSE), as_needed |-> TRUE]),
    Demands("vivado", [min_version |-> Semver(<<2020, 2>>), as_needed |-> TRUE])>>

(* Reading it: a sequence of tools, each with a minimum version or a           *)
(* dictionary, if nothing is of the wrong type.                                *)
Shorthand(raw) == "notation" \in DOMAIN raw

dict_to_tool_req_ok(raw) ==
  /\ "min_version" \in DOMAIN raw /\ raw.min_version # WrongType
  /\ "as_needed" \in DOMAIN raw => raw.as_needed # WrongType
  /\ DOMAIN raw \subseteq {"min_version", "as_needed"}

read_tool_requirements_ok(file) ==
  /\ file # WrongType
  /\ \A i \in DOMAIN file :
       /\ file[i].tool # WrongType /\ file[i].raw # WrongType
       /\ Shorthand(file[i].raw) \/ dict_to_tool_req_ok(file[i].raw)

dict_to_tool_req(tool, raw) ==
  IF Shorthand(raw) THEN [tool |-> tool, min_version |-> raw, as_needed |-> FALSE]
  ELSE [tool |-> tool, min_version |-> raw.min_version,
        as_needed |-> "as_needed" \in DOMAIN raw /\ raw.as_needed]

read_tool_requirements(file) == [i \in DOMAIN file |-> dict_to_tool_req(file[i].tool, file[i].raw)]

---------------------------------------------------------------------------
(* The decimal digits of one number put behind those of another.              *)
Shift(n) == CHOOSE s \in {10, 100, 1000, 10000} : n < s /\ (s = 10 \/ s \div 10 <= n)
Concatenated(m, n) == m * Shift(n) + n

(* to_semver: Verible's hash is dropped; of VCS, the service pack and the      *)
(* patch go behind the month.  Cruft is accepted from an installed tool.       *)
ToSemverFails(tool, version, from_req) ==
  \/ tool = "verible" /\ version.notation # "verible"
  \/ tool = "vcs" /\ (version.notation # "vcs" \/ (from_req /\ version.cruft))

to_semver(tool, version) ==
  LET d == version.digits
  IN  CASE tool = "verible" -> Semver(d)
        [] tool = "vcs" -> Semver(<<d[1], Concatenated(d[2], d[3] * 100 + d[4])>>)
        [] OTHER -> version

(* StrictVersion: two or three numbers.                                        *)
Strict(version) == version.notation = "semver" /\ Len(version.digits) \in {2, 3}
Number(digits, i) == IF i \in DOMAIN digits THEN digits[i] ELSE 0
Older(v, w) == \E i \in 1 .. 3 : Number(v, i) < Number(w, i) /\ \A j \in 1 .. i - 1 : Number(v, j) = Number(w, j)

(* get_version: the tool is called, and the last word of its first line, or    *)
(* what the regular expression finds, is a version, or is not.  A tool may be   *)
(* missing (the command fails) or silent.                                       *)
Answer(version) == [kind |-> "answer", version |-> version]
Missing == [kind |-> "missing", version |-> Unknown]
Silent == [kind |-> "silent", version |-> Unknown]

(* ToolReq.check: both versions can be read, and the installed one is not      *)
(* older.                                                                        *)
Readable(tool, version, from_req) ==
  ~ToSemverFails(tool, version, from_req) /\ Strict(to_semver(tool, version))

(* An answer of Verilator's that is not at least two words is not expected:    *)
(* once it has been asked, the script dies of it.                                *)
GetVersionDies(req, installation) ==
  req.tool = "verilator" /\ Readable(req.tool, req.min_version, TRUE) /\ installation.kind = "silent"

check(req, installation) ==
  /\ Readable(req.tool, req.min_version, TRUE)
  /\ installation.kind = "answer"
  /\ Readable(req.tool, installation.version, FALSE)
  /\ ~Older(to_semver(req.tool, installation.version).digits, to_semver(req.tool, req.min_version).digits)

---------------------------------------------------------------------------
(* main                                                                         *)
CheckInit == queue = <<>> /\ pending_tools = {} /\ missing_tools = {} /\ checked = "no"

ReadRequirements(file, tools) ==
  /\ checked = "no"
  /\ read_tool_requirements_ok(file)
  /\ queue' = read_tool_requirements(file)
  /\ pending_tools' = tools
  /\ checked' = "checking"
  /\ UNCHANGED missing_tools

RefuseRequirements(file) ==
  /\ checked = "no"
  /\ ~read_tool_requirements_ok(file)
  /\ checked' = "failed"
  /\ UNCHANGED <<queue, pending_tools, missing_tools>>

Wanted(req) == req.as_needed => req.tool \in pending_tools

SkipTool ==
  /\ checked = "checking" /\ queue # <<>> /\ ~Wanted(Head(queue))
  /\ queue' = Tail(queue)
  /\ UNCHANGED <<pending_tools, missing_tools, checked>>

M_CheckTool(installed) ==
  LET req == Head(queue)
  IN  /\ checked = "checking" /\ queue # <<>> /\ Wanted(req)
      /\ pending_tools' = pending_tools \ {req.tool}
      /\ missing_tools' = IF check(req, installed[req.tool]) THEN {} ELSE {req.tool}
      /\ checked' = IF GetVersionDies(req, installed[req.tool]) THEN "failed" ELSE checked
      /\ queue' = Tail(queue)
CheckTool(installed) ==
  LET req == Head(queue)
  IN  /\ checked = "checking" /\ queue # <<>> /\ Wanted(req)
      /\ pending_tools' = pending_tools \ {req.tool}
      /\ missing_tools' = missing_tools \cup IF check(req, installed[req.tool]) THEN {} ELSE {req.tool}
      /\ checked' = IF GetVersionDies(req, installed[req.tool]) THEN "failed" ELSE checked
      /\ queue' = Tail(queue)

ReportTools ==
  /\ checked = "checking" /\ queue = <<>>
  /\ checked' = IF missing_tools = {} /\ pending_tools = {} THEN "ok" ELSE "failed"
  /\ UNCHANGED <<queue, pending_tools, missing_tools>>
=============================================================================
