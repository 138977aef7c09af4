----------------------------- MODULE VendorDesc -----------------------------
(***************************************************************************)
(* What util/vendor.py reads: its arguments, the description file, and the  *)
(* lock file.  The data of a file is a function from the keys that it has;   *)
(* a value of the wrong type is IllTyped.                                     *)
(***************************************************************************)
EXTENDS FileTree

CONSTANTS None,       \* Python's None
          IllTyped    \* a value that is not of the type its field should have

ASSUME NoneAssumption == None # IllTyped

NoData == [key \in {} |-> None]
get(data, key) == IF key \in DOMAIN data THEN data[key] ELSE None

(* get_field, and the JsonError it may raise.                                 *)
required(data, key) == get(data, key) \notin {None, IllTyped}
optional(data, key) == get(data, key) # IllTyped

---------------------------------------------------------------------------
(* Arguments: -D key=value is split at every "=".                             *)
OVERRIDABLE_DESC_KEYS ==
  {<<"patch_repo", "url">>, <<"patch_repo", "rev_base">>, <<"patch_repo", "rev_patched">>,
   <<"upstream", "url">>, <<"upstream", "rev">>}

OverrideOk(arg) == Len(arg.parts) = 2 /\ arg.key \in OVERRIDABLE_DESC_KEYS

(* A section that is not there is made for the override.                      *)
apply_overrides(data, args) ==
  LET Override(d, arg) ==
        LET section == IF arg.key[1] \in DOMAIN d THEN d[arg.key[1]] ELSE NoData
        IN  (arg.key[1] :> ((arg.key[2] :> arg.parts[2]) @@ section)) @@ d
  IN  FoldLeft(Override, data, args)

---------------------------------------------------------------------------
(* The description file.                                                      *)
UpstreamOk(data) == required(data, "url") /\ required(data, "rev") /\ optional(data, "only_subdir")
Upstream(data) == [url |-> data["url"], rev |-> data["rev"], only_subdir |-> get(data, "only_subdir")]

PatchRepoOk(data) == \A key \in {"url", "rev_base", "rev_patched"} : required(data, key)

(* A path of a mapping may not be absolute, nor leave the directory.         *)
BadPath(p) == normpath(p) # <<>> /\ Head(normpath(p)) \in {"/", ".."}

(* An entry of the mapping is a path, or a dictionary of two or three.       *)
EntryOk(entry) ==
  CASE entry = IllTyped -> FALSE
    [] entry.kind = "str" -> ~BadPath(entry.path)
    [] entry.kind = "dict" ->
         /\ required(entry.data, "from") /\ required(entry.data, "to") /\ optional(entry.data, "patch_dir")
         /\ \A key \in {"from", "to", "patch_dir"} \cap DOMAIN entry.data : ~BadPath(entry.data[key])

Mapping1(entry) ==
  LET path(key) == IF get(entry.data, key) = None THEN None ELSE normpath(entry.data[key])
  IN  IF entry.kind = "str"
      THEN [from |-> normpath(entry.path), to |-> normpath(entry.path), patch_dir |-> None]
      ELSE [from |-> path("from"), to |-> path("to"), patch_dir |-> path("patch_dir")]

make_default(have_patch_dir) ==
  [from |-> <<>>, to |-> <<>>, patch_dir |-> IF have_patch_dir THEN <<>> ELSE None]

has_patch_dir(mapping) == \E i \in DOMAIN mapping : Mapping1(mapping[i]).patch_dir # None

EXCLUDE_ALWAYS == {<<".git">>}

(* No ValueError and no JsonError is raised: neither by a field, nor by two   *)
(* fields that do not go together.                                             *)
DescOk(file, args) ==
  LET data == apply_overrides(file.data, args)
      mapping == get(data, "mapping")
  IN  /\ file.suffix /\ file.parses
      /\ \A key \in {"name", "target_dir", "upstream"} : required(data, key)
      /\ \A key \in {"patch_dir", "patch_repo", "exclude_from_upstream", "mapping"} : optional(data, key)
      /\ UpstreamOk(data["upstream"])
      /\ "patch_repo" \in DOMAIN data => /\ PatchRepoOk(data["patch_repo"])
                                         /\ "patch_dir" \in DOMAIN data
                                         /\ mapping = None
      /\ mapping # None => /\ \A i \in DOMAIN mapping : EntryOk(mapping[i])
                           /\ "patch_dir" \in DOMAIN data <=> has_patch_dir(mapping)
      /\ IllTyped \notin ToSet(IF "exclude_from_upstream" \in DOMAIN data
                               THEN data["exclude_from_upstream"] ELSE <<>>)

(* What is copied: one item per entry of the mapping, or everything.  A pattern *)
(* of exclude_from_upstream is the set of the paths that it matches.             *)
items(data) ==
  IF "mapping" \in DOMAIN data
  THEN [i \in DOMAIN data["mapping"] |-> Mapping1(data["mapping"][i])]
  ELSE <<make_default("patch_dir" \in DOMAIN data)>>

exclude_from_upstream(data) ==
  EXCLUDE_ALWAYS \cup
    UNION (IF "exclude_from_upstream" \in DOMAIN data THEN ToSet(data["exclude_from_upstream"]) ELSE {})

---------------------------------------------------------------------------
(* The lock file: not there, cut off when a run was killed writing it, or an  *)
(* upstream.                                                                    *)
CONSTANT Torn
LockOk(lock) == lock # Torn
as_lock(upstream, rev) == [upstream EXCEPT !.rev = rev]
=============================================================================
