----------------------------- MODULE Sv2vInPlace -----------------------------
(***************************************************************************)
(* util/sv2v_in_place.py turns the SystemVerilog files of a build directory  *)
(* into Verilog, in place.  A file is what it was made from: AsWritten(path), or  *)
(* the result of sv2v on the contents of other files, or nothing.               *)
(***************************************************************************)
EXTENDS Naturals, Sequences, FiniteSets, SequencesExt

VARIABLES files,      \* path -> contents, in the build directory
          waiting,    \* places in the list that transform_one has still to be run for
          written,    \* the temporary directory: place in the list -> contents
          converting  \* how far the script is, or how it ended

sv2vVars == <<files, waiting, written, converting>>

AsWritten(path) == [made |-> "written", of |-> path]
Empty == [made |-> "empty"]
Verilog(top, defines, inputs) == [made |-> "sv2v", of |-> top, defines |-> defines, inputs |-> inputs]

(* A path is its name, its extension, whether it ends in "pkg.sv", which       *)
(* expressions of --define-if match it, and what it includes.  The loops go     *)
(* through the list in its order.                                                *)
Listed(list, extension) == {i \in DOMAIN list : list[i].extension = extension}
NextOf(i, places) == i \in places /\ \A j \in places : i <= j
sv_paths(list) == Listed(list, ".sv")
svh_paths(list) == Listed(list, ".svh")
pkg_paths(list) == {path \in ToSet(list) : path.pkg}

(* --define-if: the regular expression and the macro, which the last colon     *)
(* parts.                                                                        *)
parse_define_if_ok(arg) == arg.colon /\ arg.compiles

extra_file_defines(args, path) ==
  {args.define_if[i].define : i \in {j \in DOMAIN args.define_if : args.define_if[j].regex \in path.matches}}

(* What sv2v reads: the packages, the file, and the files that it includes,     *)
(* as they are now.  Without the include directories it finds no header.         *)
Read(list, path) == pkg_paths(list) \cup {path} \cup {q \in ToSet(list) : q.name \in path.includes}

transform_one(args, path) ==
  Verilog(path.name, args.defines \cup extra_file_defines(args, path),
          {<<q.name, files[q.name]>> : q \in Read(args.file_list, path)})

---------------------------------------------------------------------------
ConvertInit(list) ==
  /\ files = [name \in {path.name : path \in ToSet(list)} |-> AsWritten(name)]
  /\ waiting = {} /\ written = <<>> /\ converting = "no"

(* The arguments, the list of files and that of include directories.           *)
ArgumentsOk(args) ==
  /\ \A i \in DOMAIN args.define_if : parse_define_if_ok(args.define_if[i])
  /\ args.file_list_exists /\ args.incdir_list_exists

ReadLists(args) ==
  /\ converting = "no"
  /\ ArgumentsOk(args)
  /\ waiting' = sv_paths(args.file_list)
  /\ converting' = "transform"
  /\ UNCHANGED <<files, written>>

RefuseLists(args) ==
  /\ converting = "no"
  /\ ~ArgumentsOk(args)
  /\ converting' = "failed"
  /\ UNCHANGED <<files, waiting, written>>

M_TransformOne(args) ==
  /\ converting = "transform"
  /\ \E i \in waiting :
       /\ NextOf(i, waiting)
       /\ files' = [files EXCEPT ![args.file_list[i].name] = transform_one(args, args.file_list[i])]
       /\ waiting' = waiting \ {i}
  /\ UNCHANGED <<written, converting>>
TransformOne(args) ==
  /\ converting = "transform"
  /\ \E i \in waiting :
       /\ NextOf(i, waiting)
       /\ written' = [j \in DOMAIN written \cup {i} |->
                       IF j = i THEN transform_one(args, args.file_list[i]) ELSE written[j]]
       /\ waiting' = waiting \ {i}
  /\ UNCHANGED <<files, converting>>

(* sv2v does not like the file: a RuntimeError, and the temporary directory is *)
(* gone.                                                                         *)
Sv2vFails ==
  /\ converting = "transform" /\ waiting # {}
  /\ converting' = "failed"
  /\ written' = <<>>
  /\ UNCHANGED <<files, waiting>>

CopyBack(args) ==
  /\ converting = "transform" /\ waiting = {}
  /\ \E i \in DOMAIN written :
       /\ NextOf(i, DOMAIN written)
       /\ files' = [files EXCEPT ![args.file_list[i].name] = written[i]]
       /\ written' = [j \in DOMAIN written \ {i} |-> written[j]]
  /\ UNCHANGED <<waiting, converting>>

(* Then the headers are emptied.                                                *)
Full(args) == {i \in svh_paths(args.file_list) : files[args.file_list[i].name] # Empty}

SplatHeader(args) ==
  /\ converting = "transform" /\ waiting = {} /\ written = <<>>
  /\ \E i \in Full(args) :
       /\ NextOf(i, Full(args))
       /\ files' = [files EXCEPT ![args.file_list[i].name] = Empty]
  /\ UNCHANGED <<waiting, written, converting>>

ConversionDone(args) ==
  /\ converting = "transform" /\ waiting = {} /\ written = <<>>
  /\ Full(args) = {}
  /\ converting' = "ok"
  /\ UNCHANGED <<files, waiting, written>>

(* The script is stopped.                                                        *)
ConversionStopped ==
  /\ converting = "transform"
  /\ converting' = "stopped"
  /\ written' = <<>>
  /\ UNCHANGED <<files, waiting>>
=============================================================================
