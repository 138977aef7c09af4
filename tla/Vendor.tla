------------------------------- MODULE Vendor -------------------------------
(***************************************************************************)
(* util/vendor.py copies source code from an upstream repository into this  *)
(* one: it refreshes the patches, clones the upstream, replaces the target   *)
(* directory, patches it, and writes down in the lock file what it copied.   *)
(* A run may end between any two of these steps, with an exception.          *)
(*                                                                         *)
(* Around the script: the upstream repositories, whose branch moves on, and  *)
(* the developer with the working tree, the index and HEAD of this one.      *)
(***************************************************************************)
EXTENDS Integers, VendorDesc

CONSTANTS Projects,    \* description files, with the command lines and what is there before
          Repos,       \* url -> the history of its branch, and the tree of each revision
          Series,      \* url -> <<rev_base, rev_patched>> -> the patches between the branches
          MaxRuns,     \* bound: runs of the script
          MaxEdits     \* bound: what the developer and the upstream do in between

ASSUME BoundsAssumption == MaxRuns \in Nat /\ MaxEdits \in Nat

VARIABLES project,   \* the description file, and patches the developer may add
          tip,       \* url -> how much of its history the branch has
          target,    \* the tree at target_dir
          patches,   \* <<subdirectory of patch_dir, name>> -> patch
          lock,      \* the lock file: None, Torn, or what was copied
          index,     \* git's index: target, patches and lock as staged
          head,      \* git's HEAD: the tree, and the message of the commit
          run,       \* the local variables of main, and where it is
          exit,      \* how the last run ended
          runs, edits

worktree == <<target, patches, lock>>
git == <<index, head>>
bounds == <<runs, edits>>
vendorVars == <<project, tip, target, patches, lock, index, head, run, exit, runs, edits>>

Idle == [pc |-> "idle"]
Exit(how) == run' = Idle /\ exit' = how
At(pc) == run.pc = pc
Go(pc) == run' = [run EXCEPT !.pc = pc] /\ exit' = exit

---------------------------------------------------------------------------
(* The upstream: `git clone`, then `git checkout` of a branch or a revision. *)
Known(url) == SubSeq(Repos[url].history, 1, tip[url])
Revision(url, name) ==
  CASE name = "master" -> Last(Known(url))
    [] Contains(Known(url), name) -> name
    [] OTHER -> None
Clone(url, rev) == Repos[url].tree[rev] @@ (<<".git">> :> Dir) @@ (<<".git", "HEAD">> :> <<rev>>)

(* What of it is copied: all, or the subdirectory.                            *)
clone_subdir(upstream, rev) ==
  IF upstream.only_subdir = None THEN Clone(upstream.url, rev)
  ELSE Subtree(Clone(upstream.url, rev), upstream.only_subdir)
SubdirExists(upstream, rev) == IsDir(clone_subdir(upstream, rev), <<>>)

(* The patches of an item, in the order of their names.                       *)
PatchNames(item, files) == {p[2] : p \in {q \in DOMAIN files : q[1] = item.patch_dir}}
PatchesFor(item, files) ==
  LET names == SetToSortSeq(PatchNames(item, files), <)
  IN  [i \in DOMAIN names |-> files[<<item.patch_dir, names[i]>>]]

(* git log old..new, of the paths that are copied.                            *)
shortlog(upstream, paths, old, new) ==
  LET history == Repos[upstream.url].history
      place(rev) == SelectInSeq(history, LAMBDA r : r = rev)
      Tree(i) == clone_subdir(upstream, history[i])
      Touched(i) == \E p \in paths : Subtree(Tree(i), p) # Subtree(Tree(i - 1), p)
  IN  {i \in place(old) + 1 .. place(new) : Touched(i)}

---------------------------------------------------------------------------
(* The tree that the lock file and the patches determine.  Deliveries are      *)
(* pairs of a file upstream and its place here: a file comes from the last     *)
(* item that delivers one, and is changed by the patches of that and the later  *)
(* items.                                                                        *)
Directories(source, exclude, item) ==
  Parents(item.to) \cup
    {item.to \o From(item.from, p) :
       p \in {q \in Below(source, item.from) : IsDir(source, q) /\ ~Ignored(item.from, q, exclude)}}

Deliveries(source, exclude, all, i) ==
  LET item == all[i]
      into == \E j \in 1 .. i - 1 : item.to \in Directories(source, exclude, all[j])
  IN  IF IsFile(source, item.from)
      THEN {<<item.from, IF into THEN Append(item.to, Last(item.from)) ELSE item.to>>}
      ELSE {<<p, item.to \o From(item.from, p)>> :
              p \in {q \in Below(source, item.from) : IsFile(source, q) /\ ~Ignored(item.from, q, exclude)}}

Vendored(data, upstream, files) ==
  LET all == items(data)
      source == clone_subdir(upstream, upstream.rev)
      delivers == [i \in DOMAIN all |-> Deliveries(source, exclude_from_upstream(data), all, i)]
      base == [i \in DOMAIN all |-> IF IsFile(source, all[i].from)
                                    THEN Front((CHOOSE d \in delivers[i] : TRUE)[2]) ELSE all[i].to]
      last(q) == Max({i \in DOMAIN all : \E d \in delivers[i] : d[2] = q})
      blob(q) == source[(CHOOSE d \in delivers[last(q)] : d[2] = q)[1]]
      applied(q, i) == LET own == SelectSeq(PatchesFor(all[i], files), LAMBDA patch : base[i] \o patch.file = q)
                       IN  [k \in DOMAIN own |-> own[k].id]
      later(q) == [i \in 1 .. Len(all) - last(q) + 1 |-> applied(q, last(q) + i - 1)]
  IN  [q \in {d[2] : d \in UNION {delivers[i] : i \in DOMAIN all}} |-> blob(q) \o FlattenSeq(later(q))]

Whole(upstream) == Files(target) = Vendored(project.file.data, upstream, patches)

---------------------------------------------------------------------------
(* git status --untracked-files=no                                             *)
Modified(tracked, files) == \E p \in DOMAIN tracked : p \notin DOMAIN files \/ files[p] # tracked[p]
git_is_clean_workdir ==
  /\ index = head.tree
  /\ ~Modified(index.target, Files(target))
  /\ ~Modified(index.patches, patches)
  /\ index.lock \in {None, lock}

(* The directories that hold the given files.                                 *)
AsTree(files) == files @@ [p \in UNION {Parents(q) : q \in DOMAIN files} |-> Dir]

Without(files, paths) == [p \in DOMAIN files \ paths |-> files[p]]
Untracked(files, tracked) == Without(files, DOMAIN tracked)

---------------------------------------------------------------------------
(* A run begins: arguments, description and lock file are read.               *)
Desc(args) == apply_overrides(project.file.data, args.overrides)

Invoke(args) ==
  /\ At("idle") /\ runs < MaxRuns
  /\ runs' = runs + 1
  /\ UNCHANGED <<project, tip, worktree, git, edits>>

OverridesOk(args) == \A i \in DOMAIN args.overrides : OverrideOk(args.overrides[i])
InputOk(args) == DescOk(project.file, args.overrides) /\ LockOk(lock)

RefuseArguments(args) ==
  /\ Invoke(args)
  /\ ~OverridesOk(args)
  /\ Exit("refused")

RefuseInput(args) ==
  /\ Invoke(args)
  /\ OverridesOk(args) /\ ~InputOk(args)
  /\ Exit("refused")

RefuseDirty(args) ==
  /\ Invoke(args)
  /\ OverridesOk(args) /\ InputOk(args)
  /\ args.commit /\ ~git_is_clean_workdir
  /\ Exit("refused")

(* Without --update, what the lock file says takes the place of `upstream`.   *)
Begin(args) ==
  LET desc == Desc(args)
      update == args.update \/ lock = None
  IN  /\ Invoke(args)
      /\ OverridesOk(args) /\ InputOk(args)
      /\ args.commit => git_is_clean_workdir
      /\ run' = [pc |-> IF args.refresh THEN "refresh" ELSE "clone",
                 update |-> update, refresh |-> args.refresh, commit |-> args.commit,
                 upstream |-> IF update THEN Upstream(desc["upstream"]) ELSE lock,
                 changed_url |-> lock # None /\ lock.url # desc["upstream"]["url"],
                 patch_repo |-> get(desc, "patch_repo"),
                 old |-> lock, rev |-> None, item |-> 1, todo |-> <<>>, log |-> None,
                 before |-> <<target, lock>>]
      /\ exit' = "none"

---------------------------------------------------------------------------
(* refresh_patches: the patches are removed one by one, then come those from  *)
(* the patch repository, one by one.                                           *)
RefuseRefresh ==
  /\ At("refresh") /\ run.patch_repo = None
  /\ Exit("refused")
  /\ UNCHANGED <<project, tip, worktree, git, bounds>>

UnlinkPatch ==
  /\ At("refresh") /\ run.patch_repo # None
  /\ \E p \in DOMAIN patches :
       /\ p[1] = <<>>
       /\ patches' = Without(patches, {p})
  /\ UNCHANGED <<project, tip, target, lock, git, run, exit, bounds>>

RevRange == <<run.patch_repo["rev_base"], run.patch_repo["rev_patched"]>>

ExportPatches ==
  /\ At("refresh") /\ run.patch_repo # None
  /\ \A p \in DOMAIN patches : p[1] # <<>>
  /\ RevRange \in DOMAIN Series[run.patch_repo["url"]]
  /\ run' = [run EXCEPT !.pc = "format", !.todo = Series[run.patch_repo["url"]][RevRange]]
  /\ UNCHANGED <<project, tip, worktree, git, exit, bounds>>

FormatPatch ==
  /\ At("format")
  /\ IF run.todo = <<>>
     THEN Go("clone") /\ UNCHANGED patches
     ELSE /\ patches' = (<<<<>>, Head(run.todo).name>> :> Head(run.todo)) @@ patches
          /\ run' = [run EXCEPT !.todo = Tail(@)]
          /\ exit' = exit
  /\ UNCHANGED <<project, tip, target, lock, git, bounds>>

---------------------------------------------------------------------------
M_CloneUpstream ==
  /\ At("clone")
  /\ Revision(run.upstream.url, run.upstream.rev) # None
  /\ run' = [run EXCEPT !.pc = "check", !.rev = Revision(run.upstream.url, run.upstream.rev)]
  /\ target' = NoTree
  /\ UNCHANGED <<project, tip, patches, lock, git, exit, bounds>>
CloneUpstream ==
  /\ At("clone")
  /\ Revision(run.upstream.url, run.upstream.rev) # None
  /\ run' = [run EXCEPT !.pc = "check", !.rev = Revision(run.upstream.url, run.upstream.rev)]
  /\ UNCHANGED <<project, tip, worktree, git, exit, bounds>>

(* Nothing is replaced by a revision other than the locked one.               *)
CloneOk ==
  /\ ~run.update => run.rev = run.old.rev
  /\ SubdirExists(run.upstream, run.rev)

RefuseClone ==
  /\ At("check") /\ ~CloneOk
  /\ Exit("refused")
  /\ UNCHANGED <<project, tip, worktree, git, bounds>>

(* shutil.rmtree(ignore_errors) leaves a file where it is.                    *)
RemoveTarget ==
  /\ At("check") /\ CloneOk
  /\ target' = IF IsFile(target, <<>>) THEN target ELSE NoTree
  /\ Go("copy")
  /\ UNCHANGED <<project, tip, patches, lock, git, bounds>>

Items == items(project.file.data)
Item == Items[run.item]
Source == clone_subdir(run.upstream, run.rev)

CopyFails ==
  \/ MkdirFails(target, Item.to)
  \/ IsFile(Source, Item.from) /\ CopyFileFails(Mkdir(target, Item.to), Item.from, Item.to)
  \/ ~IsFile(Source, Item.from) /\ CopyTreeFails(Source, Item.from, Mkdir(target, Item.to), Item.to)

Copied ==
  LET tree == Mkdir(target, Item.to)
  IN  IF IsFile(Source, Item.from)
      THEN CopyFile(Source, Item.from, tree, Item.to)
      ELSE CopyTree(Source, Item.from, tree, Item.to, exclude_from_upstream(project.file.data))

CopyItem ==
  /\ At("copy") /\ ~CopyFails
  /\ target' = Copied
  /\ run' = [run EXCEPT !.pc = "patch", !.todo = PatchesFor(Item, patches)]
  /\ UNCHANGED <<project, tip, patches, lock, git, exit, bounds>>

(* apply_patch: a patch for an item that is a file is about its directory.    *)
basedir == IF IsFile(target, Item.to) THEN Front(Item.to) ELSE Item.to

ApplyPatch ==
  /\ At("patch") /\ run.todo # <<>>
  /\ ~ApplyFails(target, basedir, Head(run.todo))
  /\ target' = Apply(target, basedir, Head(run.todo))
  /\ run' = [run EXCEPT !.todo = Tail(@)]
  /\ UNCHANGED <<project, tip, patches, lock, git, exit, bounds>>

M_NextItem ==
  /\ At("patch") /\ run.todo = <<>>
  /\ run' = IF run.item < Len(Items) - 1 THEN [run EXCEPT !.pc = "copy", !.item = @ + 1]
            ELSE [run EXCEPT !.pc = "shortlog"]
  /\ UNCHANGED <<project, tip, worktree, git, exit, bounds>>
NextItem ==
  /\ At("patch") /\ run.todo = <<>>
  /\ run' = IF run.item < Len(Items) THEN [run EXCEPT !.pc = "copy", !.item = @ + 1]
            ELSE [run EXCEPT !.pc = "shortlog"]
  /\ UNCHANGED <<project, tip, worktree, git, exit, bounds>>

---------------------------------------------------------------------------
(* The changes since the last import, if git can tell them.                   *)
get_shortlog == run.update /\ run.old # None /\ ~run.changed_url

LogPaths == IF "mapping" \in DOMAIN project.file.data THEN {Items[i].from : i \in DOMAIN Items} ELSE {<<>>}

Summarize ==
  /\ At("shortlog")
  /\ run' = [run EXCEPT
       !.pc = IF run.update THEN "open_lock" ELSE "add",
       !.log = IF get_shortlog /\ Contains(Known(run.upstream.url), run.old.rev)
               THEN shortlog(run.upstream, LogPaths, run.old.rev, run.rev) ELSE {}]
  /\ UNCHANGED <<project, tip, worktree, git, exit, bounds>>

(* open(..., 'w') cuts the file off.                                           *)
OpenLock ==
  /\ At("open_lock")
  /\ lock' = Torn
  /\ Go("write_lock")
  /\ UNCHANGED <<project, tip, target, patches, git, bounds>>

WriteLock ==
  /\ At("write_lock")
  /\ lock' = as_lock(run.upstream, run.rev)
  /\ Go("add")
  /\ UNCHANGED <<project, tip, target, patches, git, bounds>>

(* git add of the target directory, the patches if refreshed, and the lock    *)
(* file; then git commit, which may decline: that is a warning.                *)
Finish ==
  /\ At("add") /\ ~run.commit
  /\ Exit("ok")
  /\ UNCHANGED <<project, tip, worktree, git, bounds>>

M_Add ==
  /\ At("add") /\ run.commit
  /\ index' = [target |-> Files(target), lock |-> lock, patches |-> index.patches]
  /\ Go("commit")
  /\ UNCHANGED <<project, tip, worktree, head, bounds>>
Add ==
  /\ At("add") /\ run.commit
  /\ index' = [target |-> Files(target), lock |-> lock,
               patches |-> IF run.refresh THEN patches ELSE index.patches]
  /\ Go("commit")
  /\ UNCHANGED <<project, tip, worktree, head, bounds>>

Commit ==
  /\ At("commit") /\ index # head.tree
  /\ head' = [tree |-> index, rev |-> run.rev, log |-> run.log]
  /\ Exit("ok")
  /\ UNCHANGED <<project, tip, worktree, index, bounds>>

NoCommit ==
  /\ At("commit")
  /\ Exit("ok")
  /\ UNCHANGED <<project, tip, worktree, git, bounds>>

(* An exception that main does not catch: a command that fails, a path that    *)
(* is in the way, a full disk, or an interrupt from the keyboard.  It may come  *)
(* at any time; where it must come, no other step is enabled.                   *)
Abort ==
  /\ ~At("idle")
  /\ Exit("failed")
  /\ UNCHANGED <<project, tip, worktree, git, bounds>>

---------------------------------------------------------------------------
(* Between the runs.                                                           *)
Edit ==
  /\ At("idle") /\ edits < MaxEdits
  /\ edits' = edits + 1
  /\ exit' = "none"
  /\ UNCHANGED <<project, run, runs>>

UpstreamMoves ==
  /\ Edit
  /\ \E url \in DOMAIN Repos :
       /\ tip[url] < Len(Repos[url].history)
       /\ tip' = [tip EXCEPT ![url] = @ + 1]
  /\ UNCHANGED <<worktree, git>>

AddPatch ==
  /\ Edit
  /\ \E p \in DOMAIN project.drafts \ DOMAIN patches : patches' = (p :> project.drafts[p]) @@ patches
  /\ UNCHANGED <<tip, target, lock, git>>

(* git reset --hard: what is not tracked stays.                               *)
Reset ==
  /\ Edit
  /\ target' = AsTree(head.tree.target @@ Untracked(Files(target), index.target))
  /\ patches' = head.tree.patches @@ Untracked(patches, index.patches)
  /\ lock' = IF index.lock = None /\ head.tree.lock = None THEN lock ELSE head.tree.lock
  /\ index' = head.tree
  /\ UNCHANGED <<tip, head>>

RemoveLock ==
  /\ Edit
  /\ lock # None /\ lock' = None
  /\ UNCHANGED <<tip, target, patches, git>>

CommitByHand ==
  /\ Edit
  /\ lock # Torn
  /\ index' = [target |-> Files(target), patches |-> patches, lock |-> lock]
  /\ index' # head.tree
  /\ head' = [tree |-> index', rev |-> None, log |-> None]
  /\ UNCHANGED <<tip, worktree>>

---------------------------------------------------------------------------
VendorInit ==
  /\ project \in Projects
  /\ tip = [url \in DOMAIN Repos |-> 1]
  /\ lock = project.lock /\ patches = project.patches
  /\ target = IF lock = None THEN NoTree ELSE AsTree(Vendored(project.file.data, project.upstream, patches))
  /\ index = [target |-> Files(target), patches |-> patches, lock |-> lock]
  /\ head = [tree |-> index, rev |-> None, log |-> None]
  /\ run = Idle /\ exit = "none" /\ runs = 0 /\ edits = 0

VendorNext ==
  \/ \E args \in project.commands :
       RefuseArguments(args) \/ RefuseInput(args) \/ RefuseDirty(args) \/ Begin(args)
  \/ RefuseRefresh \/ UnlinkPatch \/ ExportPatches \/ FormatPatch
  \/ CloneUpstream \/ RefuseClone \/ RemoveTarget \/ CopyItem \/ ApplyPatch \/ NextItem
  \/ Summarize \/ OpenLock \/ WriteLock \/ Finish \/ Add \/ Commit \/ NoCommit \/ Abort
  \/ UpstreamMoves \/ AddPatch \/ Reset \/ RemoveLock \/ CommitByHand

VendorSpec == VendorInit /\ [][VendorNext]_vendorVars

---------------------------------------------------------------------------
(* A tree has no file without its directory, and a lock file names an upstream *)
(* that there is.                                                                *)
WellFormed(tree) == \A p \in DOMAIN tree : \A q \in Parents(p) : IsDir(tree, q)
VendorTypeOK ==
  /\ \A url \in DOMAIN Repos : tip[url] \in DOMAIN Repos[url].history
  /\ WellFormed(target)
  /\ \A written \in {lock, index.lock, head.tree.lock} \ {None, Torn} :
       DOMAIN written = {"url", "rev", "only_subdir"} /\ written.url \in DOMAIN Repos
  /\ run.pc \in {"idle", "refresh", "format", "clone", "check", "copy", "patch", "shortlog", "open_lock",
                  "write_lock", "add", "commit"}
  /\ exit \in {"none", "ok", "refused", "failed"}
  /\ runs \in 0 .. MaxRuns /\ edits \in 0 .. MaxEdits

---------------------------------------------------------------------------
(* A run that ends well leaves the tree that the lock file and the patches     *)
(* determine, whatever was in the way: half an import, a lost patch, a file     *)
(* that is no longer copied.                                                     *)
LockTellsTheTree == exit = "ok" => lock \notin {None, Torn} /\ Whole(lock)

(* The lock file is written when the tree is complete, so that a run that is   *)
(* interrupted never leaves a lock file ahead of the tree.                      *)
LockFollowsTheTree ==
  [][~At("idle") /\ lock' # lock => lock' = Torn \/ Whole(lock')]_vendorVars

(* A run that ends with a message of its own, and not with an exception, has   *)
(* changed neither the tree nor the lock file.                                   *)
RefusalsTouchNothing ==
  [][~At("idle") /\ exit' = "refused" => <<target', lock'>> = run.before]_vendorVars

(* What --commit commits can be made again from what it commits: the tree is    *)
(* that of the committed lock file and patches, the message names the locked     *)
(* revision, and the patches are as before or those of the patch repository, all *)
(* of them, even after a refresh that was interrupted.  This does not hold when   *)
(* there is a patch that git does not track.                                      *)
CommitsReproduce ==
  [][~At("idle") /\ head' # head =>
       LET made == head'.tree
       IN  /\ head'.rev = made.lock.rev
           /\ Untracked(patches, made.patches) = NoTree => made.target = Vendored(project.file.data, made.lock, made.patches)
           /\ IF run.refresh THEN Range(made.patches) = ToSet(Series[run.patch_repo["url"]][RevRange])
              ELSE made.patches = head.tree.patches]_vendorVars
=============================================================================
