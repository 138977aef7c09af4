------------------------------ MODULE FileTree ------------------------------
(***************************************************************************)
(* Directory trees, as far as the scripts use them.  A path is the sequence *)
(* of its names, a tree a function from the paths that exist to what is     *)
(* there: Dir, or the contents of a file, a non-empty sequence of the blob   *)
(* it was copied from and the patches applied to it since.                   *)
(***************************************************************************)
EXTENDS Sequences, FiniteSets, TLC, SequencesExt

Dir == <<>>
NoTree == [p \in {} |-> Dir]

IsFile(tree, p) == p \in DOMAIN tree /\ tree[p] # Dir
IsDir(tree, p) == p \in DOMAIN tree /\ tree[p] = Dir

(* The paths below p, p included; the files alone; a subtree by itself.      *)
Below(tree, p) == {q \in DOMAIN tree : IsPrefix(p, q)}
Files(tree) == [p \in {q \in DOMAIN tree : IsFile(tree, q)} |-> tree[p]]
From(p, q) == SubSeq(q, Len(p) + 1, Len(q))
Subtree(tree, p) == [q \in {From(p, r) : r \in Below(tree, p)} |-> tree[p \o q]]

(* Path.mkdir(exist_ok, parents) for the directory that is to hold p.        *)
Parents(p) == Prefixes(p) \ {p}
MkdirFails(tree, p) == \E q \in Parents(p) : IsFile(tree, q)
M_Mkdir(tree, p) == tree
Mkdir(tree, p) == [q \in Parents(p) |-> Dir] @@ tree

(* os.path.normpath: "." goes, and ".." takes the name before it along; it    *)
(* goes too behind the "/" that an absolute path begins with.                  *)
normpath(p) ==
  LET Enter(dir, name) ==
        CASE name = "." \/ (name = ".." /\ dir = <<"/">>) -> dir
          [] name = ".." /\ dir # <<>> /\ Last(dir) # ".." -> Front(dir)
          [] OTHER -> Append(dir, name)
  IN  FoldLeft(Enter, <<>>, p)

(* shutil.copy: into a directory, if that is what the target is, but not in  *)
(* place of one.                                                                *)
CopyTarget(tree, from, to) == IF IsDir(tree, to) THEN Append(to, Last(from)) ELSE to
CopyFileFails(tree, from, to) == IsDir(tree, CopyTarget(tree, from, to))
CopyFile(source, from, tree, to) == (CopyTarget(tree, from, to) :> source[from]) @@ tree

(* shutil.copytree: makes the target directory, which must not exist yet.    *)
(* ignore is the set of paths of the source that are not entered.            *)
Ignored(from, p, ignore) == \E q \in Prefixes(p) \ Prefixes(from) : q \in ignore
CopyTreeFails(source, from, tree, to) == ~IsDir(source, from) \/ to \in DOMAIN tree
M_CopyTree(source, from, tree, to, ignore) ==
  [q \in {to \o From(from, p) : p \in Below(source, from)} |-> source[from \o From(to, q)]] @@ tree
CopyTree(source, from, tree, to, ignore) ==
  LET copied == {p \in Below(source, from) : ~Ignored(from, p, ignore)}
  IN  [q \in {to \o From(from, p) : p \in copied} |-> source[from \o From(to, q)]] @@ tree

(* git apply: all of a patch or nothing; a patch names the file it changes   *)
(* and the contents its context lines fit.                                    *)
ApplyFails(tree, base, patch) ==
  LET p == base \o patch.file
  IN  ~(IsFile(tree, p) /\ tree[p] \in patch.fits)
Apply(tree, base, patch) == [tree EXCEPT ![base \o patch.file] = Append(@, patch.id)]
=============================================================================
