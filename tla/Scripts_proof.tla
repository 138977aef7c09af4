---------------------------- MODULE Scripts_proof ----------------------------
(***************************************************************************)
(* What the scripts promise.  First util/vendor.py, of its exits and of its  *)
(* commits, for every description, upstream, series of patches and number of *)
(* runs; then the scripts of a build, for every list of files, every         *)
(* configuration and every set of tools.                                      *)
(***************************************************************************)
EXTENDS Scripts, FiniteSetTheorems, TLAPS

(* The local variables of main, while it runs.                               *)
Fields == {"pc", "update", "refresh", "commit", "upstream", "changed_url", "patch_repo",
           "old", "rev", "item", "todo", "log", "before"}

InMain == ~At("idle") =>
  /\ DOMAIN run = Fields
  /\ run.update => DOMAIN run.upstream = {"url", "rev", "only_subdir"}
  /\ exit = "none"

(* Up to the check of the clone neither the tree nor the lock file changes,  *)
(* and nothing is refused after it.                                           *)
Untouched == run.pc \in {"refresh", "format", "clone", "check"} => run.before = <<target, lock>>

(* The lock file is the one that was read until it is written anew; without  *)
(* --update it is that of the revision that was cloned.                        *)
OldLock == run.pc \in {"refresh", "format", "clone", "check", "copy", "patch", "shortlog"} => run.old = lock
SameRevision == run.pc \in {"copy", "patch", "shortlog"} => run.update \/ run.rev = run.old.rev

(* What is staged is locked at the revision that was cloned.                 *)
Locked == /\ run.pc \in {"open_lock", "write_lock"} => run.update
          /\ run.pc = "add" => lock.rev = run.rev
          /\ run.pc = "commit" => index.lock.rev = run.rev

(* A run with --commit begins with nothing staged, and stages patches only if *)
(* it has refreshed them.                                                       *)
Staged == /\ ~At("idle") /\ run.pc # "commit" /\ run.commit => index = head.tree
          /\ run.pc = "commit" => run.refresh \/ index.patches = head.tree.patches

IInv == InMain /\ Untouched /\ OldLock /\ SameRevision /\ Locked /\ Staged

---------------------------------------------------------------------------
(* In between the runs nothing is claimed.                                    *)
LEMMA IdleInv == ASSUME run.pc = "idle" PROVE IInv
  BY DEF IInv, InMain, Untouched, OldLock, SameRevision, Locked, Staged, At

LEMMA InitInv == Init => IInv
<1>1. VendorInit => run.pc = "idle"
  BY DEF VendorInit, Idle
<1>2. ImportsNothing => run.pc = "idle"
  BY DEF ImportsNothing, Idle
<1> QED BY <1>1, <1>2, IdleInv DEF Init

LEMMA StutterInv == IInv /\ UNCHANGED vendorVars => IInv'
  BY DEF IInv, InMain, Untouched, OldLock, SameRevision, Locked, Staged, At, Idle,
         vendorVars

(* A run that ends, and what happens in between.                               *)
LEMMA IdleNext == ASSUME run'.pc = "idle" PROVE IInv'
  BY DEF IInv, InMain, Untouched, OldLock, SameRevision, Locked, Staged, At

LEMMA BeginInv == ASSUME NEW args, Begin(args) PROVE IInv'
<1> DEFINE update == args.update \/ lock = None
           desc == Desc(args)
<1>1. /\ run'.pc \in {"refresh", "clone"}
      /\ DOMAIN run' = Fields
      /\ run'.update = update
      /\ update => run'.upstream = Upstream(desc["upstream"])
      /\ run'.commit = args.commit
      /\ run'.old = lock
      /\ run'.before = <<target, lock>>
      /\ exit' = "none"
  BY DEF Begin, Fields
<1>2. UNCHANGED <<target, lock, index, head>>
  BY DEF Begin, Invoke, worktree, git
<1>3. args.commit => index = head.tree
  BY DEF Begin, git_is_clean_workdir
<1>4. update => DOMAIN run'.upstream = {"url", "rev", "only_subdir"}
  BY <1>1 DEF Upstream
<1> HIDE DEF update, desc
<1>5. InMain'
  BY <1>1, <1>4 DEF InMain
<1>6. Untouched' /\ OldLock' /\ SameRevision' /\ Locked'
  BY <1>1, <1>2 DEF Untouched, OldLock, SameRevision, Locked
<1>7. Staged'
  BY <1>1, <1>2, <1>3 DEF Staged
<1> QED BY <1>5, <1>6, <1>7 DEF IInv

(* A step of main that changes neither what a commit holds nor the revision, *)
(* nor, before the tree is replaced, the tree.                                 *)
Kept(field) == run'[field] = run[field]
Keeps(names) == DOMAIN run' = DOMAIN run /\ \A field \in names : Kept(field)

(* The steps up to the check of the clone.                                     *)
LEMMA EarlyInv ==
  ASSUME IInv, run.pc \in {"refresh", "format", "clone"},
         run'.pc \in {"refresh", "format", "clone", "check"},
         Keeps({"update", "refresh", "commit", "upstream", "old", "before"}),
         UNCHANGED <<target, lock, index, head, exit>>
  PROVE  IInv'
<1>1. ~At("idle") /\ ~At("commit")
  BY DEF At
<1>2. InMain'
  BY <1>1 DEF IInv, InMain, At, Keeps, Kept
<1>3. Untouched' /\ OldLock' /\ SameRevision' /\ Locked'
  BY DEF IInv, Untouched, OldLock, SameRevision, Locked, Keeps, Kept
<1>4. Staged'
  BY <1>1 DEF IInv, Staged, At, Keeps, Kept
<1> QED BY <1>2, <1>3, <1>4 DEF IInv

(* The steps that change the target directory.                                 *)
LEMMA CopyInv ==
  ASSUME IInv, run.pc \in {"check", "copy", "patch"},
         run'.pc \in {"copy", "patch", "shortlog"},
         run.pc = "check" => run.update \/ run.rev = run.old.rev,
         Keeps({"update", "refresh", "commit", "upstream", "old", "rev"}),
         UNCHANGED <<lock, index, head, exit>>
  PROVE  IInv'
<1>1. ~At("idle") /\ ~At("commit")
  BY DEF At
<1>2. InMain'
  BY <1>1 DEF IInv, InMain, At, Keeps, Kept
<1>3. Untouched' /\ OldLock' /\ SameRevision' /\ Locked'
  BY DEF IInv, Untouched, OldLock, SameRevision, Locked, Keeps, Kept
<1>4. Staged'
  BY <1>1 DEF IInv, Staged, At, Keeps, Kept
<1> QED BY <1>2, <1>3, <1>4 DEF IInv

(* The steps that write the lock file.                                         *)
LEMMA LockInv ==
  ASSUME IInv, run.pc \in {"shortlog", "open_lock", "write_lock"},
         run'.pc \in {"open_lock", "write_lock", "add"},
         run'.pc \in {"open_lock", "write_lock"} => run.update,
         run'.pc = "add" => lock'.rev = run.rev,
         Keeps({"update", "refresh", "commit", "upstream", "rev"}),
         UNCHANGED <<index, head, exit>>
  PROVE  IInv'
<1>1. ~At("idle") /\ ~At("commit")
  BY DEF At
<1>2. InMain'
  BY <1>1 DEF IInv, InMain, At, Keeps, Kept
<1>3. Untouched' /\ OldLock' /\ SameRevision' /\ Locked'
  BY DEF IInv, Untouched, OldLock, SameRevision, Locked, Keeps, Kept
<1>4. Staged'
  BY <1>1 DEF IInv, Staged, At, Keeps, Kept
<1> QED BY <1>2, <1>3, <1>4 DEF IInv

(* EXCEPT keeps the other fields.                                               *)
LEMMA GoKeeps ==
  ASSUME IInv, ~At("idle"), NEW pc, Go(pc)
  PROVE  /\ run'.pc = pc /\ exit' = exit
         /\ Keeps({"update", "refresh", "commit", "upstream", "old", "rev", "before"})
<1>1. DOMAIN run = Fields /\ run' = [run EXCEPT !.pc = pc] /\ exit' = exit
  BY DEF IInv, InMain, Go
<1> QED BY <1>1 DEF Keeps, Kept, Fields

---------------------------------------------------------------------------
(* A step of the script, of the developer or of the upstream.                  *)
LEMMA StepInv == IInv /\ VendorNext => IInv'
<1> SUFFICES ASSUME IInv, VendorNext PROVE IInv'
  OBVIOUS
<1> USE DEF worktree, git, bounds
<1>1. ASSUME NEW args, RefuseArguments(args) \/ RefuseInput(args) \/ RefuseDirty(args) PROVE IInv'
  BY <1>1, IdleNext DEF RefuseArguments, RefuseInput, RefuseDirty, Exit, Idle
<1>2. ASSUME NEW args, Begin(args) PROVE IInv'
  BY <1>2, BeginInv
<1>3. CASE RefuseRefresh \/ RefuseClone \/ Finish \/ Commit \/ NoCommit \/ Abort
  BY <1>3, IdleNext DEF RefuseRefresh, RefuseClone, Finish, Commit, NoCommit, Abort, Exit, Idle
<1>4. CASE UnlinkPatch
  <2>1. run.pc = "refresh" /\ UNCHANGED <<run, target, lock, index, head, exit>>
    BY <1>4 DEF UnlinkPatch, At
  <2> QED BY <2>1, EarlyInv DEF Keeps, Kept
<1>5. CASE ExportPatches
  <2>1. /\ run.pc = "refresh" /\ UNCHANGED <<target, lock, index, head, exit>>
        /\ run' = [run EXCEPT !.pc = "format", !.todo = Series[run.patch_repo["url"]][RevRange]]
    BY <1>5 DEF ExportPatches, At
  <2>2. DOMAIN run = Fields
    BY <2>1 DEF IInv, InMain, At
  <2>3. run'.pc = "format" /\ Keeps({"update", "refresh", "commit", "upstream", "old", "before"})
    BY <2>1, <2>2 DEF Keeps, Kept, Fields
  <2> QED BY <2>1, <2>3, EarlyInv
<1>6. CASE FormatPatch
  <2>1. run.pc = "format" /\ UNCHANGED <<target, lock, index, head>>
    BY <1>6 DEF FormatPatch, At
  <2>2. ~At("idle") /\ DOMAIN run = Fields
    BY <2>1 DEF IInv, InMain, At
  <2>3. CASE run.todo = <<>>
    <3>1. Go("clone")
      BY <1>6, <2>3 DEF FormatPatch
    <3> QED BY <2>1, <2>2, <3>1, GoKeeps, EarlyInv DEF Keeps
  <2>4. CASE run.todo # <<>>
    <3>1. run' = [run EXCEPT !.todo = Tail(@)] /\ exit' = exit
      BY <1>6, <2>4 DEF FormatPatch
    <3>2. run'.pc = "format" /\ Keeps({"update", "refresh", "commit", "upstream", "old", "before"})
      BY <2>1, <2>2, <3>1 DEF Keeps, Kept, Fields
    <3> QED BY <2>1, <3>1, <3>2, EarlyInv
  <2> QED BY <2>3, <2>4
<1>7. CASE CloneUpstream
  <2>1. /\ run.pc = "clone" /\ UNCHANGED <<target, lock, index, head, exit>>
        /\ run' = [run EXCEPT !.pc = "check", !.rev = Revision(run.upstream.url, run.upstream.rev)]
    BY <1>7 DEF CloneUpstream, At
  <2>2. DOMAIN run = Fields
    BY <2>1 DEF IInv, InMain, At
  <2>3. run'.pc = "check" /\ Keeps({"update", "refresh", "commit", "upstream", "old", "before"})
    BY <2>1, <2>2 DEF Keeps, Kept, Fields
  <2> QED BY <2>1, <2>3, EarlyInv
<1>8. CASE RemoveTarget
  <2>1. /\ run.pc = "check" /\ Go("copy") /\ UNCHANGED <<lock, index, head>>
        /\ run.update \/ run.rev = run.old.rev
    BY <1>8 DEF RemoveTarget, CloneOk, At
  <2>2. ~At("idle")
    BY <2>1 DEF At
  <2> QED BY <2>1, <2>2, GoKeeps, CopyInv DEF Keeps
<1>9. CASE CopyItem
  <2>1. /\ run.pc = "copy" /\ UNCHANGED <<lock, index, head, exit>>
        /\ run' = [run EXCEPT !.pc = "patch", !.todo = PatchesFor(Item, patches)]
    BY <1>9 DEF CopyItem, At
  <2>2. DOMAIN run = Fields
    BY <2>1 DEF IInv, InMain, At
  <2>3. run'.pc = "patch" /\ Keeps({"update", "refresh", "commit", "upstream", "old", "rev"})
    BY <2>1, <2>2 DEF Keeps, Kept, Fields
  <2> QED BY <2>1, <2>3, CopyInv
<1>10. CASE ApplyPatch
  <2>1. /\ run.pc = "patch" /\ UNCHANGED <<lock, index, head, exit>>
        /\ run' = [run EXCEPT !.todo = Tail(@)]
    BY <1>10 DEF ApplyPatch, At
  <2>2. DOMAIN run = Fields
    BY <2>1 DEF IInv, InMain, At
  <2>3. run'.pc = "patch" /\ Keeps({"update", "refresh", "commit", "upstream", "old", "rev"})
    BY <2>1, <2>2 DEF Keeps, Kept, Fields
  <2> QED BY <2>1, <2>3, CopyInv
<1>11. CASE NextItem
  <2>1. /\ run.pc = "patch" /\ UNCHANGED <<lock, index, head, exit>>
        /\ \/ run' = [run EXCEPT !.pc = "copy", !.item = @ + 1]
           \/ run' = [run EXCEPT !.pc = "shortlog"]
    BY <1>11 DEF NextItem, At
  <2>2. DOMAIN run = Fields
    BY <2>1 DEF IInv, InMain, At
  <2>3. run'.pc \in {"copy", "shortlog"} /\ Keeps({"update", "refresh", "commit", "upstream", "old", "rev"})
    BY <2>1, <2>2 DEF Keeps, Kept, Fields
  <2> QED BY <2>1, <2>3, CopyInv
<1>12. CASE Summarize
  <2> DEFINE log == IF get_shortlog /\ Contains(Known(run.upstream.url), run.old.rev)
                    THEN shortlog(run.upstream, LogPaths, run.old.rev, run.rev) ELSE {}
             pc == IF run.update THEN "open_lock" ELSE "add"
  <2>1. run.pc = "shortlog" /\ UNCHANGED <<lock, index, head, exit>> /\ run' = [run EXCEPT !.pc = pc, !.log = log]
    BY <1>12 DEF Summarize, At
  <2> HIDE DEF log
  <2>2. DOMAIN run = Fields
    BY <2>1 DEF IInv, InMain, At
  <2>3. run'.pc = pc /\ Keeps({"update", "refresh", "commit", "upstream", "rev"})
    BY <2>1, <2>2 DEF Keeps, Kept, Fields
  <2>4. ~run.update => lock.rev = run.rev
    BY <2>1 DEF IInv, SameRevision, OldLock
  <2> QED BY <2>1, <2>3, <2>4, LockInv
<1>13. CASE OpenLock
  <2>1. run.pc = "open_lock" /\ Go("write_lock") /\ UNCHANGED <<index, head>>
    BY <1>13 DEF OpenLock, At
  <2>2. ~At("idle") /\ run.update
    BY <2>1 DEF IInv, Locked, At
  <2> QED BY <2>1, <2>2, GoKeeps, LockInv DEF Keeps
<1>14. CASE WriteLock
  <2>1. /\ run.pc = "write_lock" /\ Go("add") /\ UNCHANGED <<index, head>>
        /\ lock' = [run.upstream EXCEPT !.rev = run.rev]
    BY <1>14 DEF WriteLock, as_lock, At
  <2>2. ~At("idle")
    BY <2>1 DEF At
  <2>3. lock'.rev = run.rev
    BY <2>1, <2>2 DEF IInv, InMain, Locked
  <2> QED BY <2>1, <2>2, <2>3, GoKeeps, LockInv DEF Keeps
<1>15. CASE Add
  <2>1. /\ run.pc = "add" /\ run.commit /\ Go("commit") /\ UNCHANGED head
        /\ index'.lock = lock
        /\ run.refresh \/ index'.patches = index.patches
    BY <1>15 DEF Add, At
  <2>2. ~At("idle")
    BY <2>1 DEF At
  <2>3. index = head.tree /\ lock.rev = run.rev
    BY <2>1, <2>2 DEF IInv, Staged, Locked
  <2>4. run'.pc = "commit" /\ exit' = exit /\ Keeps({"update", "refresh", "commit", "upstream", "old", "rev", "before"})
    BY <2>1, <2>2, GoKeeps
  <2>5. InMain'
    BY <2>2, <2>4 DEF IInv, InMain, Keeps, Kept, At
  <2>6. Untouched' /\ OldLock' /\ SameRevision'
    BY <2>4 DEF Untouched, OldLock, SameRevision
  <2>7. Locked'
    BY <2>1, <2>3, <2>4 DEF Locked, Keeps, Kept
  <2>8. Staged'
    BY <2>1, <2>3, <2>4 DEF Staged, Keeps, Kept
  <2> QED BY <2>5, <2>6, <2>7, <2>8 DEF IInv
<1>16. CASE UpstreamMoves \/ AddPatch \/ Reset \/ RemoveLock \/ CommitByHand
  <2>1. CASE Edit
    <3>1. run.pc = "idle" /\ run' = run
      BY <2>1 DEF Edit, At
    <3> QED BY <3>1, IdleNext
  <2> QED BY <1>16, <2>1 DEF UpstreamMoves, AddPatch, Reset, RemoveLock, CommitByHand
<1> QED BY <1>1, <1>2, <1>3, <1>4, <1>5, <1>6, <1>7, <1>8, <1>9, <1>10, <1>11, <1>12, <1>13,
           <1>14, <1>15, <1>16 DEF VendorNext

LEMMA NextInv == IInv /\ [Next]_vars => IInv'
<1>1. UNCHANGED vars => UNCHANGED vendorVars
  BY DEF vars
<1>2. Next => VendorNext \/ UNCHANGED vendorVars
  BY DEF Next, Import, BuildCore
<1> QED BY <1>1, <1>2, StepInv, StutterInv

THEOREM Invariance == Spec => []IInv
<1> QED BY InitInv, NextInv, PTL DEF Spec

---------------------------------------------------------------------------
(* A run of vendor.py that ends with a message of its own leaves the target    *)
(* directory and the lock file as it found them.                                *)
THEOREM RefusedRunsTouchNothing == Spec => RefusalsTouchNothing
<1>1. ASSUME IInv, VendorNext, ~At("idle"), exit' = "refused" PROVE <<target', lock'>> = run.before
  <2>1. RefuseRefresh \/ RefuseClone
    <3>1. exit = "none"
      BY <1>1 DEF IInv, InMain
    <3>2. ~(\E args \in project.commands : RefuseArguments(args) \/ RefuseInput(args) \/ RefuseDirty(args) \/ Begin(args))
      BY <1>1 DEF RefuseArguments, RefuseInput, RefuseDirty, Begin, Invoke
    <3>3. ~Edit
      BY <1>1 DEF Edit
    <3>4. ~(UpstreamMoves \/ AddPatch \/ Reset \/ RemoveLock \/ CommitByHand)
      BY <3>3 DEF UpstreamMoves, AddPatch, Reset, RemoveLock, CommitByHand
    <3>5. \A pc : ~Go(pc)
      BY <1>1, <3>1 DEF Go
    <3>6. exit' # exit /\ ~Exit("ok") /\ ~Exit("failed")
      BY <1>1, <3>1 DEF Exit
    <3>7. ~(UnlinkPatch \/ ExportPatches \/ FormatPatch \/ CloneUpstream \/ RemoveTarget \/ CopyItem)
      BY <3>5, <3>6 DEF UnlinkPatch, ExportPatches, FormatPatch, CloneUpstream, RemoveTarget, CopyItem
    <3>8. ~(ApplyPatch \/ NextItem \/ Summarize \/ OpenLock \/ WriteLock \/ Finish \/ Add \/ Commit \/ NoCommit \/ Abort)
      BY <3>5, <3>6 DEF ApplyPatch, NextItem, Summarize, OpenLock, WriteLock, Finish, Add, Commit, NoCommit, Abort
    <3> QED BY <1>1, <3>2, <3>4, <3>7, <3>8 DEF VendorNext
  <2>2. run.pc \in {"refresh", "check"} /\ UNCHANGED <<target, lock>>
    BY <2>1 DEF RefuseRefresh, RefuseClone, worktree, At
  <2> QED BY <1>1, <2>2 DEF IInv, Untouched
<1>2. IInv /\ [Next]_vars => [~At("idle") /\ exit' = "refused" => <<target', lock'>> = run.before]_vendorVars
  BY <1>1 DEF Next, Import, BuildCore, vars
<1> QED BY <1>2, Invariance, PTL DEF Spec, RefusalsTouchNothing

(* A commit names the revision of the lock file in it, and leaves the patches  *)
(* alone unless they were refreshed: these two parts of CommitsReproduce do not *)
(* depend on what the trees hold.                                                *)
CommitsAgree ==
  [][~At("idle") /\ head' # head =>
       /\ head'.rev = head'.tree.lock.rev
       /\ ~run.refresh => head'.tree.patches = head.tree.patches]_vendorVars

THEOREM CommitsNameTheLock == Spec => CommitsAgree
<1>1. ASSUME IInv, VendorNext, ~At("idle"), head' # head
      PROVE  head'.rev = head'.tree.lock.rev /\ (~run.refresh => head'.tree.patches = head.tree.patches)
  <2>1. Commit
    <3>1. ~(\E args \in project.commands : RefuseArguments(args) \/ RefuseInput(args) \/ RefuseDirty(args) \/ Begin(args))
      BY <1>1 DEF RefuseArguments, RefuseInput, RefuseDirty, Begin, Invoke
    <3>2. ~Edit
      BY <1>1 DEF Edit
    <3>3. ~(UpstreamMoves \/ AddPatch \/ Reset \/ RemoveLock \/ CommitByHand)
      BY <3>2 DEF UpstreamMoves, AddPatch, Reset, RemoveLock, CommitByHand
    <3>4. ~(UNCHANGED git)
      BY <1>1 DEF git
    <3>5. ~(RefuseRefresh \/ UnlinkPatch \/ ExportPatches \/ FormatPatch \/ CloneUpstream \/ RefuseClone \/ RemoveTarget \/ CopyItem)
      BY <3>4 DEF RefuseRefresh, UnlinkPatch, ExportPatches, FormatPatch, CloneUpstream, RefuseClone, RemoveTarget, CopyItem
    <3>6. ~(ApplyPatch \/ NextItem \/ Summarize \/ OpenLock \/ WriteLock \/ Finish \/ NoCommit \/ Abort)
      BY <3>4 DEF ApplyPatch, NextItem, Summarize, OpenLock, WriteLock, Finish, NoCommit, Abort
    <3>7. ~Add
      BY <1>1 DEF Add
    <3> QED BY <1>1, <3>1, <3>3, <3>5, <3>6, <3>7 DEF VendorNext
  <2>2. run.pc = "commit" /\ head'.tree = index /\ head'.rev = run.rev
    BY <2>1 DEF Commit, At
  <2> QED BY <1>1, <2>2 DEF IInv, Locked, Staged
<1>2. IInv /\ [Next]_vars =>
        [~At("idle") /\ head' # head =>
           /\ head'.rev = head'.tree.lock.rev
           /\ ~run.refresh => head'.tree.patches = head.tree.patches]_vendorVars
  BY <1>1 DEF Next, Import, BuildCore, vars
<1> QED BY <1>2, Invariance, PTL DEF Spec, CommitsAgree
----------------------------------------------------------------------------
(* A build.                                                                  *)

LEMMA ToSetRange == ASSUME NEW s PROVE ToSet(s) = {s[i] : i \in DOMAIN s}
BY DEF ToSet

---------------------------------------------------------------------------
(* sv2v_in_place.py                                                           *)

List == build.sv2v.file_list
Name(i) == List[i].name

(* A file is as it was, or what it is meant to become; nothing is copied back  *)
(* while anything waits, and nothing emptied before all is copied back.          *)
Changed(i) == files[Name(i)] # AsWritten(Name(i))
Results ==
  /\ DOMAIN files = {Name(i) : i \in DOMAIN List}
  /\ \A i \in DOMAIN List : Changed(i) =>
       /\ waiting = {}
       /\ \/ i \in sv_paths(List) /\ files[Name(i)] = Original(List[i])
          \/ i \in svh_paths(List) /\ files[Name(i)] = Empty
  /\ \A i \in svh_paths(List), j \in sv_paths(List) : Changed(i) => Changed(j)

(* How far the script is.                                                      *)
Progress ==
  /\ waiting \cup DOMAIN written \subseteq sv_paths(List)
  /\ \A i \in DOMAIN written : written[i] = Original(List[i])
  /\ converting \in {"transform", "ok"} =>
       \A i \in sv_paths(List) : i \in waiting \cup DOMAIN written \/ Changed(i)
  /\ converting \in {"no", "failed"} => \A i \in DOMAIN List : ~Changed(i)
  /\ converting = "ok" =>
       /\ waiting = {} /\ DOMAIN written = {}
       /\ \A i \in svh_paths(List) : Changed(i)

ConvertInv == build \in Builds \cup {NoBuild} /\ Results /\ Progress

(* Original, result and emptied header are three things.                       *)
LEMMA Contents ==
  ASSUME NEW name, NEW path
  PROVE  AsWritten(name) # Empty /\ Original(path) # AsWritten(name) /\ Original(path) # Empty
<1> DEFINE w == AsWritten(name)
           e == Empty
           o == Original(path)
<1>1. w.made = "written"
  BY DEF AsWritten
<1>2. e.made = "empty"
  BY DEF Empty
<1>3. o.made = "sv2v"
  BY DEF Original, Verilog
<1> QED BY <1>1, <1>2, <1>3

LEMMA Paths ==
  /\ \A i : i \in sv_paths(List) <=> i \in DOMAIN List /\ List[i].extension = ".sv"
  /\ \A i : i \in svh_paths(List) <=> i \in DOMAIN List /\ List[i].extension = ".svh"
BY DEF sv_paths, svh_paths, Listed

(* Places of one name hold one file.                                           *)
LEMMA OneFile ==
  ASSUME ConvertInv, FilesAreDistinct, NEW i \in DOMAIN List, NEW j \in DOMAIN List, Name(i) = Name(j)
  PROVE  List[i] = List[j]
<1>1. CASE build \in Builds
  BY <1>1 DEF FilesAreDistinct, List, Name, ToSet
<1>2. CASE build = NoBuild
  BY <1>2 DEF NoBuild, List
<1> QED BY <1>1, <1>2 DEF ConvertInv

(* While anything waits, sv2v reads originals.                                 *)
LEMMA ReadsOriginals ==
  ASSUME ConvertInv, NEW i \in waiting
  PROVE  transform_one(build.sv2v, List[i]) = Original(List[i])
<1>1. \A j \in DOMAIN List : files[Name(j)] = AsWritten(Name(j))
  BY DEF ConvertInv, Results, Changed
<1>2. i \in DOMAIN List
  BY Paths DEF ConvertInv, Progress
<1>3. \A q \in Read(List, List[i]) : \E j \in DOMAIN List : q = List[j]
  BY <1>2 DEF Read, pkg_paths, ToSet
<1>4. \A q \in Read(List, List[i]) : files[q.name] = AsWritten(q.name)
  BY <1>1, <1>3 DEF Name
<1>5. {<<q.name, files[q.name]>> : q \in Read(List, List[i])} = {<<q.name, AsWritten(q.name)>> : q \in Read(List, List[i])}
  BY <1>4
<1> QED BY <1>5 DEF transform_one, Original, List

(* A file that changes at one place changes at every place of that name.       *)
LEMMA OneChanges ==
  ASSUME ConvertInv, FilesAreDistinct, UNCHANGED build, NEW i \in DOMAIN List, NEW v,
         files' = [files EXCEPT ![Name(i)] = v]
  PROVE  /\ DOMAIN files' = DOMAIN files
         /\ \A j \in DOMAIN List :
              /\ List[j] = List[i] => files'[Name(j)] = v
              /\ List[j] # List[i] => files'[Name(j)] = files[Name(j)] /\ (Changed(j)' <=> Changed(j))
<1>1. DOMAIN files = {Name(j) : j \in DOMAIN List}
  BY DEF ConvertInv, Results
<1>2. \A j \in DOMAIN List : Name(j) = Name(i) <=> List[j] = List[i]
  BY OneFile DEF Name
<1>3. \A j \in DOMAIN List : files'[Name(j)] = IF Name(j) = Name(i) THEN v ELSE files[Name(j)]
  BY <1>1
<1> QED BY <1>1, <1>2, <1>3 DEF Changed, Name, List

(* The steps of the script.                                                    *)
LEMMA ListsAreRead ==
  ASSUME ConvertInv, UNCHANGED build, ReadLists(build.sv2v) \/ RefuseLists(build.sv2v)
  PROVE  ConvertInv'
<1>1. /\ converting = "no" /\ UNCHANGED <<files, written>>
      /\ \/ converting' = "transform" /\ waiting' = sv_paths(List)
         \/ converting' = "failed" /\ waiting' = waiting
  BY DEF ReadLists, RefuseLists, List
<1>2. \A i \in DOMAIN List : ~Changed(i)
  BY <1>1 DEF ConvertInv, Progress
<1>3. List' = List /\ \A i \in DOMAIN List : (Changed(i)' <=> Changed(i))
  BY <1>1 DEF List, Changed, Name
<1>4. Results'
  <2>1. DOMAIN files' = {Name(i) : i \in DOMAIN List}'
    BY <1>1, <1>3 DEF ConvertInv, Results, Name, List
  <2> QED BY <1>2, <1>3, <2>1, Paths DEF Results
<1>5. Progress'
  <2>1. /\ waiting \cup DOMAIN written \subseteq sv_paths(List)
        /\ \A i \in DOMAIN written : written[i] = Original(List[i])
    BY DEF ConvertInv, Progress
  <2>2. (sv_paths(List))' = sv_paths(List) /\ \A i : Original(List[i])' = Original(List[i])
    BY <1>3 DEF sv_paths, Listed, Original, List, extra_file_defines
  <2> QED BY <1>1, <1>2, <1>3, <2>1, <2>2 DEF Progress
<1> QED BY <1>4, <1>5 DEF ConvertInv

LEMMA FileIsTransformed ==
  ASSUME ConvertInv, UNCHANGED build, TransformOne(build.sv2v)
  PROVE  ConvertInv'
<1>1. PICK i \in waiting : /\ written' = [j \in DOMAIN written \cup {i} |->
                               IF j = i THEN transform_one(build.sv2v, List[i]) ELSE written[j]]
                          /\ waiting' = waiting \ {i}
                          /\ converting = "transform" /\ UNCHANGED <<files, converting>>
  BY DEF TransformOne, List
<1>2. List' = List /\ \A j : (Changed(j)' <=> Changed(j)) /\ Name(j)' = Name(j)
  BY <1>1 DEF List, Changed, Name
<1>3. /\ (sv_paths(List))' = sv_paths(List) /\ (svh_paths(List))' = svh_paths(List)
      /\ \A j : Original(List[j])' = Original(List[j])
  BY <1>2 DEF sv_paths, svh_paths, Listed, Original, List, extra_file_defines
<1>4. /\ DOMAIN written' = DOMAIN written \cup {i}
      /\ \A j \in DOMAIN written' :
           written'[j] = IF j = i THEN transform_one(build.sv2v, List[i]) ELSE written[j]
  BY <1>1
<1>5. \A j \in DOMAIN written' : written'[j] = Original(List[j])
  BY <1>4, ReadsOriginals DEF ConvertInv, Progress
<1>6. Results'
  BY <1>1, <1>2, <1>3 DEF ConvertInv, Results
<1>7. Progress'
  BY <1>1, <1>2, <1>3, <1>4, <1>5 DEF ConvertInv, Progress
<1> QED BY <1>6, <1>7 DEF ConvertInv

LEMMA FileIsCopied ==
  ASSUME ConvertInv, FilesAreDistinct, UNCHANGED build, CopyBack(build.sv2v)
  PROVE  ConvertInv'
<1>1. PICK i \in DOMAIN written : /\ files' = [files EXCEPT ![Name(i)] = written[i]]
                                 /\ written' = [j \in DOMAIN written \ {i} |-> written[j]]
                                 /\ waiting = {} /\ converting = "transform"
                                 /\ UNCHANGED <<waiting, converting>>
  BY DEF CopyBack, List, Name
<1>2. i \in sv_paths(List) /\ i \in DOMAIN List /\ List[i].extension = ".sv" /\ written[i] = Original(List[i])
  BY Paths DEF ConvertInv, Progress
<1>3. List' = List /\ \A j : Name(j)' = Name(j)
  BY DEF List, Name
<1>4. /\ (sv_paths(List))' = sv_paths(List) /\ (svh_paths(List))' = svh_paths(List)
      /\ \A j : Original(List[j])' = Original(List[j])
  BY <1>3 DEF sv_paths, svh_paths, Listed, Original, List, extra_file_defines
<1>5. /\ DOMAIN files' = DOMAIN files
      /\ \A j \in DOMAIN List :
           /\ List[j] = List[i] => files'[Name(j)] = Original(List[j])
           /\ List[j] # List[i] => files'[Name(j)] = files[Name(j)] /\ (Changed(j)' <=> Changed(j))
  BY <1>1, <1>2, OneChanges
<1>6. \A j \in DOMAIN List : List[j] = List[i] => Changed(j)' /\ j \in sv_paths(List) /\ j \notin svh_paths(List)
  BY <1>2, <1>3, <1>5, Contents, Paths DEF Changed
<1>7. \A j \in DOMAIN List : Changed(j) => Changed(j)'
  BY <1>5, <1>6
<1>8. Results'
  <2>1. \A j \in DOMAIN List : Changed(j)' =>
          \/ j \in sv_paths(List) /\ files'[Name(j)] = Original(List[j])
          \/ j \in svh_paths(List) /\ files'[Name(j)] = Empty
    BY <1>5, <1>6 DEF ConvertInv, Results
  <2>2. \A j \in svh_paths(List), k \in sv_paths(List) : Changed(j)' => Changed(k)'
    <3>1. \A j \in svh_paths(List) : Changed(j)' => Changed(j)
      BY <1>5, <1>6, Paths
    <3> QED BY <1>7, <3>1, Paths DEF ConvertInv, Results
  <2> QED BY <1>1, <1>3, <1>4, <1>5, <2>1, <2>2 DEF ConvertInv, Results
<1>9. Progress'
  <2>1. \A j \in sv_paths(List) : j \in DOMAIN written' \/ Changed(j)'
    <3>1. \A j \in sv_paths(List) : j \in DOMAIN written \/ Changed(j)
      BY <1>1 DEF ConvertInv, Progress
    <3> QED BY <1>1, <1>6, <1>7, <3>1, Paths
  <2> QED BY <1>1, <1>3, <1>4, <2>1 DEF ConvertInv, Progress
<1> QED BY <1>8, <1>9 DEF ConvertInv

LEMMA HeaderIsEmptied ==
  ASSUME ConvertInv, FilesAreDistinct, UNCHANGED build, SplatHeader(build.sv2v)
  PROVE  ConvertInv'
<1>1. PICK i \in svh_paths(List) : files' = [files EXCEPT ![Name(i)] = Empty]
  BY DEF SplatHeader, Full, List, Name
<1>2. waiting = {} /\ DOMAIN written = {} /\ converting = "transform" /\ UNCHANGED <<waiting, written, converting>>
  BY DEF SplatHeader
<1>3. i \in DOMAIN List /\ List[i].extension = ".svh"
  BY Paths
<1>4. List' = List /\ \A j : Name(j)' = Name(j)
  BY DEF List, Name
<1>5. /\ (sv_paths(List))' = sv_paths(List) /\ (svh_paths(List))' = svh_paths(List)
      /\ \A j : Original(List[j])' = Original(List[j])
  BY <1>4 DEF sv_paths, svh_paths, Listed, Original, List, extra_file_defines
<1>6. /\ DOMAIN files' = DOMAIN files
      /\ \A j \in DOMAIN List :
           /\ List[j] = List[i] => files'[Name(j)] = Empty
           /\ List[j] # List[i] => files'[Name(j)] = files[Name(j)] /\ (Changed(j)' <=> Changed(j))
  BY <1>1, <1>3, OneChanges
<1>7. \A j \in DOMAIN List : List[j] = List[i] => Changed(j)' /\ j \in svh_paths(List) /\ j \notin sv_paths(List)
  BY <1>3, <1>4, <1>6, Contents, Paths DEF Changed
<1>8. \A j \in sv_paths(List) : Changed(j)'
  <2>1. \A j \in sv_paths(List) : Changed(j)
    BY <1>2 DEF ConvertInv, Progress
  <2> QED BY <1>6, <1>7, <2>1, Paths
<1>9. Results'
  <2>1. \A j \in DOMAIN List : Changed(j)' =>
          \/ j \in sv_paths(List) /\ files'[Name(j)] = Original(List[j])
          \/ j \in svh_paths(List) /\ files'[Name(j)] = Empty
    BY <1>6, <1>7 DEF ConvertInv, Results
  <2> QED BY <1>2, <1>4, <1>5, <1>6, <1>8, <2>1 DEF ConvertInv, Results
<1>10. Progress'
  BY <1>2, <1>4, <1>5, <1>8 DEF ConvertInv, Progress
<1> QED BY <1>9, <1>10 DEF ConvertInv

(* The files stay as they are.                                                 *)
LEMMA FilesStay ==
  ASSUME ConvertInv, UNCHANGED <<build, files, waiting>>,
         \/ UNCHANGED <<written, converting>>
         \/ converting' = "stopped" /\ written' = <<>>
         \/ converting' = "failed" /\ written' = <<>> /\ waiting # {}
         \/ converting' = "ok" /\ UNCHANGED written /\ converting = "transform"
             /\ waiting = {} /\ written = <<>> /\ Full(build.sv2v) = {}
  PROVE  ConvertInv'
<1>1. List' = List /\ (\A j : (Changed(j)' <=> Changed(j)) /\ Name(j)' = Name(j))
  BY DEF List, Changed, Name
<1>2. /\ (sv_paths(List))' = sv_paths(List) /\ (svh_paths(List))' = svh_paths(List)
      /\ \A j : Original(List[j])' = Original(List[j])
  BY <1>1 DEF sv_paths, svh_paths, Listed, Original, List, extra_file_defines
<1>3. Results'
  BY <1>1, <1>2 DEF ConvertInv, Results
<1>4. DOMAIN <<>> = {}
  OBVIOUS
<1>5. CASE UNCHANGED <<written, converting>>
  BY <1>1, <1>2, <1>3, <1>5 DEF ConvertInv, Progress
<1>6. CASE converting' = "stopped" /\ written' = <<>>
  <2>1. Progress'
    BY <1>1, <1>2, <1>4, <1>6 DEF ConvertInv, Progress
  <2> QED BY <1>3, <2>1 DEF ConvertInv
<1>7. CASE converting' = "failed" /\ written' = <<>> /\ waiting # {}
  <2>1. \A i \in DOMAIN List : ~Changed(i)
    BY <1>7 DEF ConvertInv, Results
  <2>2. Progress'
    BY <1>1, <1>2, <1>4, <1>7, <2>1 DEF ConvertInv, Progress
  <2> QED BY <1>3, <2>2 DEF ConvertInv
<1>8. CASE /\ converting' = "ok" /\ UNCHANGED written /\ converting = "transform"
           /\ waiting = {} /\ written = <<>> /\ Full(build.sv2v) = {}
  <2>1. \A i \in svh_paths(List) : Changed(i)
    <3>1. \A i \in svh_paths(List) : files[Name(i)] = Empty
      BY <1>8 DEF Full, List, Name
    <3> QED BY <3>1, Contents DEF Changed
  <2>2. Progress'
    BY <1>1, <1>2, <1>4, <1>8, <2>1 DEF ConvertInv, Progress
  <2> QED BY <1>3, <2>2 DEF ConvertInv
<1> QED BY <1>5, <1>6, <1>7, <1>8

LEMMA InitConvert == Init => ConvertInv
<1> SUFFICES ASSUME Init PROVE ConvertInv
  OBVIOUS
<1>1. build \in Builds \cup {NoBuild} /\ ConvertInit(List)
  <2>1. CASE VendorInit /\ BuildsNothing
    BY <2>1 DEF BuildsNothing, NoBuild, List
  <2>2. CASE BuildInit /\ ImportsNothing
    BY <2>2 DEF BuildInit, List
  <2> QED BY <2>1, <2>2 DEF Init
<1>2. /\ files = [name \in {path.name : path \in ToSet(List)} |-> AsWritten(name)]
      /\ waiting = {} /\ DOMAIN written = {} /\ converting = "no"
  BY <1>1 DEF ConvertInit
<1>3. {path.name : path \in ToSet(List)} = {Name(i) : i \in DOMAIN List}
  BY DEF ToSet, Name
<1>4. \A i \in DOMAIN List : ~Changed(i)
  BY <1>2, <1>3 DEF Changed
<1>5. Results
  BY <1>2, <1>3, <1>4, Paths DEF Results
<1>6. Progress
  BY <1>2, <1>4 DEF Progress
<1> QED BY <1>1, <1>5, <1>6 DEF ConvertInv

LEMMA NextConvert ==
  ASSUME ConvertInv, FilesAreDistinct, [Next]_vars
  PROVE  ConvertInv'
<1>1. UNCHANGED build
  BY DEF Next, Import, BuildCore, BuildNext, vars, buildVars, ownVars, Configure, ConfigureNothing, ConfigureStops,
     CheckTools, ToolsChecked, ConvertFiles, FilesConverted, HookFails, RunTool
<1>2. UNCHANGED sv2vVars \/ ConvertFiles
  BY DEF Next, Import, BuildCore, BuildNext, vars, buildVars, UnchangedScripts, Configure, ConfigureNothing,
     ConfigureStops, CheckTools, ToolsChecked, FilesConverted, HookFails, RunTool
<1>3. CASE UNCHANGED sv2vVars
  BY <1>1, <1>3, FilesStay DEF sv2vVars
<1>4. CASE ConvertFiles
  <2>1. \/ ReadLists(build.sv2v) \/ RefuseLists(build.sv2v) \/ TransformOne(build.sv2v) \/ Sv2vFails
        \/ CopyBack(build.sv2v) \/ SplatHeader(build.sv2v) \/ ConversionDone(build.sv2v) \/ ConversionStopped
    BY <1>4 DEF ConvertFiles
  <2>2. Sv2vFails \/ ConversionDone(build.sv2v) \/ ConversionStopped => ConvertInv'
    BY <1>1, FilesStay DEF Sv2vFails, ConversionDone, ConversionStopped
  <2> QED BY <1>1, <2>1, <2>2, ListsAreRead, FileIsTransformed, FileIsCopied, HeaderIsEmptied
<1> QED BY <1>2, <1>3, <1>4

(* Every file is converted from the originals, and no header emptied early,    *)
(* whatever the files include and wherever the script is stopped.               *)
THEOREM OriginalsAreConverted == FilesAreDistinct => (Spec => []ConvertedFromOriginals)
<1> SUFFICES ASSUME FilesAreDistinct PROVE Spec => []ConvertedFromOriginals
  OBVIOUS
<1>1. ConvertInv => ConvertedFromOriginals
  <2> SUFFICES ASSUME ConvertInv PROVE ConvertedFromOriginals
    OBVIOUS
  <2> DEFINE list == ToSet(List)
             converted == {path \in list : path.extension = ".sv" /\ files[path.name] = Original(path)}
             emptied == {path \in list : path.extension = ".svh" /\ files[path.name] = Empty}
             untouched == {path \in list : files[path.name] = AsWritten(path.name)}
  <2>1. \A path \in list : \E i \in DOMAIN List : path = List[i] /\ path.name = Name(i)
    BY DEF ToSet, Name
  <2>2. \A path \in list : path \in converted \/ path \in emptied \/ path \in untouched
    <3> SUFFICES ASSUME NEW i \in DOMAIN List, List[i] \in list
                 PROVE  List[i] \in converted \/ List[i] \in emptied \/ List[i] \in untouched
      BY <2>1
    <3> QED BY Paths DEF ConvertInv, Results, Changed, Name
  <2>3. ASSUME emptied # {} PROVE \A path \in list : path.extension = ".sv" => path \in converted
    <3>1. PICK i \in DOMAIN List : List[i].extension = ".svh" /\ files[Name(i)] = Empty
      BY <2>1, <2>3
    <3>2. Changed(i) /\ i \in svh_paths(List)
      BY <3>1, Contents, Paths DEF Changed
    <3>3. \A j \in sv_paths(List) : Changed(j) /\ files[Name(j)] = Original(List[j])
      <4>1. \A j \in sv_paths(List) : Changed(j) /\ j \notin svh_paths(List) /\ j \in DOMAIN List
        BY <3>2, Paths DEF ConvertInv, Results
      <4> QED BY <4>1 DEF ConvertInv, Results
    <3> QED BY <2>1, <3>3, Paths
  <2>4. converting = "failed" => untouched = list
    <3> SUFFICES ASSUME converting = "failed" PROVE \A path \in list : files[path.name] = AsWritten(path.name)
      OBVIOUS
    <3> QED BY <2>1 DEF ConvertInv, Progress, Changed
  <2>5. ASSUME converting = "ok" PROVE untouched = {path \in list : path.extension \notin {".sv", ".svh"}}
    <3>1. \A i \in DOMAIN List : Changed(i) <=> List[i].extension \in {".sv", ".svh"}
      BY <2>5, Paths DEF ConvertInv, Progress, Results
    <3>2. \A path \in list : files[path.name] = AsWritten(path.name) <=> path.extension \notin {".sv", ".svh"}
      BY <2>1, <3>1 DEF Changed
    <3> QED BY <3>2
  <2>6. list = converted \cup emptied \cup untouched
    BY <2>2
  <2> HIDE DEF converted, emptied, untouched
  <2> QED BY <2>3, <2>4, <2>5, <2>6 DEF ConvertedFromOriginals, List, converted, emptied, untouched
<1>2. ConvertInv /\ [Next]_vars => ConvertInv'
  BY NextConvert
<1> QED BY <1>1, <1>2, InitConvert, PTL DEF Spec

---------------------------------------------------------------------------
(* check_tool_requirements.py                                                 *)

LEMMA ShiftHolds ==
  ASSUME NEW n \in Nat, n < 10000
  PROVE  Shift(n) \in {10, 100, 1000, 10000} /\ n < Shift(n) /\ (Shift(n) = 10 \/ Shift(n) \div 10 <= n)
<1>1. \E s \in {10, 100, 1000, 10000} : n < s /\ (s = 10 \/ s \div 10 <= n)
  <2>1. CASE n < 10
    BY <2>1
  <2>2. CASE n >= 10 /\ n < 100
    BY <2>2
  <2>3. CASE n >= 100 /\ n < 1000
    BY <2>3
  <2>4. CASE n >= 1000
    BY <2>4
  <2> QED BY <2>1, <2>2, <2>3, <2>4
<1> DEFINE S == {10, 100, 1000, 10000}
           P(s) == n < s /\ (s = 10 \/ s \div 10 <= n)
<1>2. Shift(n) = CHOOSE s \in S : P(s)
  BY DEF Shift
<1>3. \E s \in S : P(s)
  BY <1>1
<1>4. S = {10, 100, 1000, 10000} /\ \A s : P(s) => n < s /\ (s = 10 \/ s \div 10 <= n)
  OBVIOUS
<1> HIDE DEF P, S
<1>5. Shift(n) \in S /\ P(Shift(n))
  BY <1>2, <1>3
<1> QED BY <1>4, <1>5

(* The two orders, number by number.                                           *)
LEMMA OlderIs ==
  ASSUME NEW v, NEW w
  PROVE  Older(v, w) <=>
           \/ Number(v, 1) < Number(w, 1)
           \/ Number(v, 1) = Number(w, 1) /\ Number(v, 2) < Number(w, 2)
           \/ Number(v, 1) = Number(w, 1) /\ Number(v, 2) = Number(w, 2) /\ Number(v, 3) < Number(w, 3)
<1>1. 1 .. 3 = {1, 2, 3} /\ 1 .. 0 = {} /\ 1 .. 1 = {1} /\ 1 .. 2 = {1, 2} /\ 1 - 1 = 0 /\ 2 - 1 = 1 /\ 3 - 1 = 2
  OBVIOUS
<1> QED BY <1>1, Zenon DEF Older

LEMMA PrecedesIs ==
  ASSUME NEW v, NEW w
  PROVE  Precedes(v, w) <=>
           \/ Release(v)[1] < Release(w)[1]
           \/ Release(v)[1] = Release(w)[1] /\ Release(v)[2] < Release(w)[2]
           \/ Release(v)[1] = Release(w)[1] /\ Release(v)[2] = Release(w)[2] /\ Release(v)[3] < Release(w)[3]
           \/ Release(v)[1] = Release(w)[1] /\ Release(v)[2] = Release(w)[2] /\ Release(v)[3] = Release(w)[3]
               /\ Release(v)[4] < Release(w)[4]
<1>1. /\ 1 .. 4 = {1, 2, 3, 4} /\ 1 .. 0 = {} /\ 1 .. 1 = {1} /\ 1 .. 2 = {1, 2} /\ 1 .. 3 = {1, 2, 3}
      /\ 1 - 1 = 0 /\ 2 - 1 = 1 /\ 3 - 1 = 2 /\ 4 - 1 = 3
  OBVIOUS
<1> DEFINE less(i) == Release(v)[i] < Release(w)[i]
           same(i) == Release(v)[i] = Release(w)[i]
<1>2. Precedes(v, w) <=> \E i \in 1 .. 4 : less(i) /\ \A j \in 1 .. i - 1 : same(j)
  BY DEF Precedes
<1> HIDE DEF less, same
<1>3. Precedes(v, w) <=>
        \/ less(1) /\ \A j \in 1 .. 0 : same(j)
        \/ less(2) /\ \A j \in 1 .. 1 : same(j)
        \/ less(3) /\ \A j \in 1 .. 2 : same(j)
        \/ less(4) /\ \A j \in 1 .. 3 : same(j)
  BY <1>1, <1>2
<1>4. Precedes(v, w) <=>
        \/ less(1) \/ (same(1) /\ less(2)) \/ (same(1) /\ same(2) /\ less(3))
        \/ (same(1) /\ same(2) /\ same(3) /\ less(4))
  BY <1>1, <1>3
<1> QED BY <1>4 DEF less, same

(* Two or three numbers are compared as they are.                              *)
LEMMA ShortVersions ==
  ASSUME NEW v, NEW w, v.digits \in Seq(Nat), w.digits \in Seq(Nat), Len(v.digits) \in {2, 3}, Len(w.digits) \in {2, 3}
  PROVE  Older(v.digits, w.digits) <=> Precedes(v, w)
<1>1. \A i \in 1 .. 3 : Release(v)[i] = Number(v.digits, i) /\ Release(w)[i] = Number(w.digits, i)
  BY DEF Release, Number
<1>2. Release(v)[4] = 0 /\ Release(w)[4] = 0
  <2>1. DOMAIN v.digits = 1 .. Len(v.digits) /\ DOMAIN w.digits = 1 .. Len(w.digits)
    OBVIOUS
  <2>2. 4 \notin 1 .. 2 /\ 4 \notin 1 .. 3
    OBVIOUS
  <2>3. 4 \notin DOMAIN v.digits /\ 4 \notin DOMAIN w.digits
    BY <2>1, <2>2
  <2> QED BY <2>3 DEF Release
<1>3. /\ Release(v)[1] = Number(v.digits, 1) /\ Release(w)[1] = Number(w.digits, 1)
      /\ Release(v)[2] = Number(v.digits, 2) /\ Release(w)[2] = Number(w.digits, 2)
      /\ Release(v)[3] = Number(v.digits, 3) /\ Release(w)[3] = Number(w.digits, 3)
  BY <1>1
<1> QED BY <1>2, <1>3, OlderIs, PrecedesIs

Joined(a, b) == a * 100 + b

LEMMA Lexicographic ==
  ASSUME NEW a \in Nat, NEW b \in Nat, NEW f \in Nat, NEW g \in Nat, b < 100, g < 100
  PROVE  Joined(a, b) < Joined(f, g) <=> a < f \/ (a = f /\ b < g)
BY DEF Joined

(* The month has the service pack and the patch put behind it.                 *)
Behind(x) == Joined(x.digits[3], x.digits[4])
Month(x) == x.digits[2] * Shift(Behind(x)) + Behind(x)

LEMMA VcsRelease ==
  ASSUME NEW x, IsVersion(x), x.notation = "vcs"
  PROVE  /\ x.digits[1] \in Nat /\ x.digits[2] \in Nat
         /\ x.digits[3] \in 0 .. 99 /\ x.digits[4] \in 0 .. 99
         /\ Digits(x) = Shift(Behind(x))
         /\ Digits(x) \in {10, 100, 1000, 10000} /\ Behind(x) \in Nat /\ Behind(x) < Digits(x)
         /\ Digits(x) = 10 \/ Digits(x) \div 10 <= Behind(x)
         /\ Month(x) \in Nat
         /\ Number(to_semver("vcs", x).digits, 1) = x.digits[1]
         /\ Number(to_semver("vcs", x).digits, 2) = Month(x)
         /\ Number(to_semver("vcs", x).digits, 3) = 0
         /\ Release(x)[1] = x.digits[1] /\ Release(x)[2] = x.digits[2]
         /\ Release(x)[3] = x.digits[3] /\ Release(x)[4] = x.digits[4]
<1>1. x.digits \in Seq(Nat) /\ Len(x.digits) = 4 /\ x.digits[3] < 100 /\ x.digits[4] < 100
  BY DEF IsVersion
<1>2. /\ DOMAIN x.digits = 1 .. 4
      /\ x.digits[1] \in Nat /\ x.digits[2] \in Nat /\ x.digits[3] \in Nat /\ x.digits[4] \in Nat
  BY <1>1
<1>3. x.digits[3] \in 0 .. 99 /\ x.digits[4] \in 0 .. 99
  <2>1. \A a \in Nat : a < 100 => a \in 0 .. 99
    OBVIOUS
  <2> QED BY <1>1, <1>2, <2>1
<1>4. Behind(x) \in Nat /\ Behind(x) < 10000
  <2> DEFINE a == x.digits[3]
             b == x.digits[4]
  <2>1. Behind(x) = a * 100 + b /\ a \in 0 .. 99 /\ b \in 0 .. 99
    BY <1>3 DEF Behind, Joined
  <2> HIDE DEF a, b
  <2> QED BY <2>1
<1>5. /\ Digits(x) = Shift(Behind(x)) /\ Shift(Behind(x)) \in {10, 100, 1000, 10000} /\ Behind(x) < Shift(Behind(x))
      /\ Shift(Behind(x)) = 10 \/ Shift(Behind(x)) \div 10 <= Behind(x)
  BY <1>4, ShiftHolds DEF Digits, Behind, Joined
<1>6. Month(x) \in Nat
  BY <1>2, <1>4, <1>5 DEF Month
<1>7. to_semver("vcs", x).digits = <<x.digits[1], Month(x)>>
  BY DEF to_semver, Semver, Concatenated, Month, Behind, Joined
<1>8. /\ Number(to_semver("vcs", x).digits, 1) = x.digits[1]
      /\ Number(to_semver("vcs", x).digits, 2) = Month(x)
      /\ Number(to_semver("vcs", x).digits, 3) = 0
  BY <1>7 DEF Number
<1>9. /\ Release(x)[1] = x.digits[1] /\ Release(x)[2] = x.digits[2]
      /\ Release(x)[3] = x.digits[3] /\ Release(x)[4] = x.digits[4]
  BY <1>2 DEF Release
<1> QED BY <1>2, <1>3, <1>4, <1>5, <1>6, <1>8, <1>9

(* More digits behind a month that is not before make the larger number.       *)
LEMMA MoreDigits ==
  ASSUME NEW v, NEW w, IsVersion(v), IsVersion(w), v.notation = "vcs", w.notation = "vcs",
         Digits(v) < Digits(w), v.digits[2] <= w.digits[2]
  PROVE  Behind(v) < Behind(w) /\ Month(v) < Month(w)
<1>1. /\ v.digits[2] \in Nat /\ w.digits[2] \in Nat /\ Behind(v) \in Nat /\ Behind(w) \in Nat
      /\ Digits(v) \in {10, 100, 1000, 10000} /\ Digits(w) \in {10, 100, 1000, 10000}
      /\ Behind(v) < Digits(v) /\ (Digits(w) = 10 \/ Digits(w) \div 10 <= Behind(w))
      /\ Month(v) = v.digits[2] * Digits(v) + Behind(v) /\ Month(w) = w.digits[2] * Digits(w) + Behind(w)
  BY VcsRelease DEF Month
<1>2. ASSUME NEW s \in {10, 100, 1000, 10000}, NEW t \in {10, 100, 1000, 10000}, s < t
      PROVE  t # 10 /\ s <= t \div 10
  BY <1>2
<1>3. Behind(v) < Behind(w)
  BY <1>1, <1>2
<1>4. ASSUME NEW m \in Nat, NEW n \in Nat, m <= n,
             NEW s \in {10, 100, 1000, 10000}, NEW t \in {10, 100, 1000, 10000}, s < t
      PROVE  m * s <= n * t
  BY <1>4
<1>5. v.digits[2] * Digits(v) <= w.digits[2] * Digits(w)
  BY <1>1, <1>4
<1>6. v.digits[2] * Digits(v) \in Nat /\ w.digits[2] * Digits(w) \in Nat
  BY <1>1
<1> QED BY <1>1, <1>3, <1>5, <1>6

(* Releases of one year are compared as they are, if what is put there has as   *)
(* many digits in both; else the order is wrong in one direction at most.         *)
LEMMA VcsVersions ==
  ASSUME NEW v, NEW w, IsVersion(v), IsVersion(w), v.notation = "vcs", w.notation = "vcs"
  PROVE  LET older == Older(to_semver("vcs", v).digits, to_semver("vcs", w).digits)
             sameYear == v.digits[1] = w.digits[1]
         IN  /\ older => Precedes(v, w) \/ (sameYear /\ Digits(v) < Digits(w))
             /\ Precedes(v, w) => older \/ (sameYear /\ Digits(v) > Digits(w))
<1> DEFINE c == to_semver("vcs", v).digits
           e == to_semver("vcs", w).digits
<1>1. CASE v.digits[1] # w.digits[1]
  <2>1. Older(c, e) <=> v.digits[1] < w.digits[1]
    BY <1>1, VcsRelease, OlderIs
  <2>2. Precedes(v, w) <=> v.digits[1] < w.digits[1]
    BY <1>1, VcsRelease, PrecedesIs
  <2> QED BY <2>1, <2>2
<1>2. CASE v.digits[1] = w.digits[1]
  <2>1. Older(c, e) <=> Month(v) < Month(w)
    BY <1>2, VcsRelease, OlderIs
  <2>2. Precedes(v, w) <=>
          \/ v.digits[2] < w.digits[2]
          \/ v.digits[2] = w.digits[2] /\ v.digits[3] < w.digits[3]
          \/ v.digits[2] = w.digits[2] /\ v.digits[3] = w.digits[3] /\ v.digits[4] < w.digits[4]
    BY <1>2, VcsRelease, PrecedesIs
  <2>3. Behind(v) < Behind(w) <=>
          \/ v.digits[3] < w.digits[3]
          \/ v.digits[3] = w.digits[3] /\ v.digits[4] < w.digits[4]
    <3>1. \A i \in 0 .. 99 : i \in Nat /\ i < 100
      OBVIOUS
    <3>2. /\ v.digits[3] \in 0 .. 99 /\ v.digits[4] \in 0 .. 99
          /\ w.digits[3] \in 0 .. 99 /\ w.digits[4] \in 0 .. 99
      BY VcsRelease
    <3> QED BY <3>1, <3>2, Lexicographic DEF Behind
  <2>4. Precedes(v, w) <=> v.digits[2] < w.digits[2] \/ (v.digits[2] = w.digits[2] /\ Behind(v) < Behind(w))
    BY <2>2, <2>3
  <2>5. /\ v.digits[2] \in Nat /\ w.digits[2] \in Nat /\ Behind(v) \in Nat /\ Behind(w) \in Nat
        /\ Month(v) \in Nat /\ Month(w) \in Nat /\ Digits(v) \in Nat /\ Digits(w) \in Nat
    BY VcsRelease
  <2>6. CASE Digits(v) = Digits(w)
    <3>1. /\ Month(v) = v.digits[2] * Digits(v) + Behind(v)
          /\ Month(w) = w.digits[2] * Digits(v) + Behind(w)
      BY <2>6, VcsRelease DEF Month
    <3>2. /\ v.digits[2] \in Nat /\ w.digits[2] \in Nat /\ Behind(v) \in Nat /\ Behind(w) \in Nat
          /\ Behind(v) < Digits(v) /\ Behind(w) < Digits(v) /\ Digits(v) \in {10, 100, 1000, 10000}
      BY <2>6, VcsRelease
    <3>3. Month(v) < Month(w) <=> v.digits[2] < w.digits[2] \/ (v.digits[2] = w.digits[2] /\ Behind(v) < Behind(w))
      BY <3>1, <3>2
    <3> QED BY <2>1, <2>4, <3>3
  <2>7. CASE Digits(v) < Digits(w)
    <3>1. Precedes(v, w) => Month(v) < Month(w)
      BY <2>4, <2>5, <2>7, MoreDigits
    <3> QED BY <1>2, <2>1, <2>7, <3>1
  <2>8. CASE Digits(w) < Digits(v)
    <3>1. w.digits[2] <= v.digits[2] => Month(w) < Month(v)
      BY <2>8, MoreDigits
    <3>2. Month(v) < Month(w) => v.digits[2] < w.digits[2]
      BY <2>5, <3>1
    <3> QED BY <1>2, <2>1, <2>4, <2>5, <2>8, <3>2
  <2> QED BY <2>5, <2>6, <2>7, <2>8
<1> QED BY <1>1, <1>2

(* The check of one tool compares its releases, wrongly in one direction at    *)
(* most.                                                                          *)
LEMMA ChecksOne ==
  ASSUME NEW req, NEW installation,
         IsVersion(req.min_version), installation.kind = "answer" => IsVersion(installation.version)
  PROVE  /\ check(req, installation) => Fulfilled(req, installation) \/ Favoured(req, installation)
         /\ Fulfilled(req, installation) => check(req, installation) \/ Slighted(req, installation)
<1> DEFINE v == installation.version
           w == req.min_version
           older == Older(to_semver(req.tool, v).digits, to_semver(req.tool, w).digits)
<1>1. CASE ~(Readable(req.tool, w, TRUE) /\ installation.kind = "answer" /\ Readable(req.tool, v, FALSE))
  BY <1>1 DEF check, Fulfilled
<1>2. CASE Readable(req.tool, w, TRUE) /\ installation.kind = "answer" /\ Readable(req.tool, v, FALSE)
  <2>1. (check(req, installation) <=> ~older) /\ (Fulfilled(req, installation) <=> ~Precedes(v, w))
    BY <1>2 DEF check, Fulfilled
  <2>2. CASE req.tool = "vcs"
    <3>1. v.notation = "vcs" /\ w.notation = "vcs"
      BY <1>2, <2>2 DEF Readable, ToSemverFails
    <3>2. /\ older => Precedes(v, w) \/ (v.digits[1] = w.digits[1] /\ Digits(v) < Digits(w))
          /\ Precedes(v, w) => older \/ (v.digits[1] = w.digits[1] /\ Digits(v) > Digits(w))
      BY <1>2, <2>2, <3>1, VcsVersions
    <3> QED BY <1>2, <2>1, <2>2, <3>2 DEF Favoured, Slighted, OneYear
  <2>3. CASE req.tool # "vcs"
    <3>1. /\ to_semver(req.tool, v).digits = v.digits /\ to_semver(req.tool, w).digits = w.digits
      BY <2>3 DEF to_semver, Semver
    <3>2. Len(v.digits) \in {2, 3} /\ Len(w.digits) \in {2, 3}
      BY <1>2, <3>1 DEF Readable, Strict
    <3> QED BY <1>2, <2>1, <3>1, <3>2, ShortVersions DEF IsVersion
  <2> QED BY <2>2, <2>3
<1> QED BY <1>1, <1>2

(* The requirements of the build; those that are looked at whatever else is    *)
(* asked; and the answer of main, tool by tool.                                   *)
Reqs == read_tool_requirements(build.requirements)
Passed(i) == check(Reqs[i], build.installed[Reqs[i].tool])
IsLooked(i) == Reqs[i].as_needed => Reqs[i].tool \in build.tools
Passes ==
  /\ read_tool_requirements_ok(build.requirements)
  /\ \A t \in build.tools : \E i \in DOMAIN Reqs : Reqs[i].tool = t
  /\ \A i \in DOMAIN Reqs : IsLooked(i) => Passed(i)

(* The loop has been through the first of them.                                *)
Through(n) ==
  /\ Len(queue) + n = Len(Reqs)
  /\ \A i \in 1 .. Len(queue) : queue[i] = Reqs[n + i]
  /\ pending_tools = {t \in build.tools : \A i \in 1 .. n : Reqs[i].tool # t}
  /\ missing_tools = {} <=> \A i \in 1 .. n : IsLooked(i) => Passed(i)

CheckInv ==
  /\ build \in Builds \/ (stage = "none" /\ checked = "no")
  /\ checked = "no" => missing_tools = {}
  /\ checked = "checking" =>
       /\ read_tool_requirements_ok(build.requirements)
       /\ queue \in Seq({Reqs[i] : i \in DOMAIN Reqs})
       /\ \E n \in Nat : Through(n)
  /\ checked = "ok" => Passes
  /\ checked = "failed" => ~Passes

LEMMA TailOf ==
  ASSUME NEW S, NEW q \in Seq(S), q # <<>>
  PROVE  /\ Tail(q) \in Seq(S) /\ Len(Tail(q)) = Len(q) - 1 /\ Head(q) = q[1] /\ 1 \in 1 .. Len(q)
         /\ \A i \in 1 .. Len(Tail(q)) : Tail(q)[i] = q[i + 1] /\ i + 1 \in 1 .. Len(q)
OBVIOUS

(* A dictionary: a sequence of requirements for different tools.               *)
LEMMA ReqsAre ==
  ASSUME build \in Builds, RequirementsAreVersions, read_tool_requirements_ok(build.requirements)
  PROVE  /\ Reqs \in Seq({Reqs[i] : i \in DOMAIN Reqs}) /\ DOMAIN Reqs = 1 .. Len(Reqs) /\ Len(Reqs) \in Nat
         /\ \A i, j \in DOMAIN Reqs : Reqs[i].tool = Reqs[j].tool => i = j
         /\ DOMAIN Reqs = DOMAIN build.requirements
         /\ \A i \in DOMAIN Reqs : Reqs[i].tool = build.requirements[i].tool
<1>1. PICK n \in Nat : DOMAIN build.requirements = 1 .. n
  <2>1. build.requirements \in Seq(ToSet(build.requirements))
    BY DEF RequirementsAreVersions
  <2> QED BY <2>1
<1>2. Reqs = [i \in 1 .. n |-> dict_to_tool_req(build.requirements[i].tool, build.requirements[i].raw)]
  BY <1>1 DEF Reqs, read_tool_requirements
<1>3. \A t, raw : dict_to_tool_req(t, raw).tool = t
  BY DEF dict_to_tool_req
<1>4. \A i \in 1 .. n : Reqs[i].tool = build.requirements[i].tool
  BY <1>2, <1>3
<1>5. DOMAIN Reqs = 1 .. n /\ Reqs \in Seq({Reqs[i] : i \in DOMAIN Reqs})
  BY <1>2
<1>6. Len(Reqs) = n
  BY <1>5
<1>7. \A i, j \in DOMAIN Reqs : Reqs[i].tool = Reqs[j].tool => i = j
  BY <1>1, <1>4, <1>5 DEF RequirementsAreVersions
<1> QED BY <1>1, <1>4, <1>5, <1>6, <1>7

(* The next requirement: it is wanted if it is looked at, since no other has   *)
(* taken its tool away.                                                           *)
LEMMA NextReq ==
  ASSUME build \in Builds, RequirementsAreVersions, CheckInv, checked = "checking", queue # <<>>,
         NEW n \in Nat, Through(n)
  PROVE  /\ n + 1 \in DOMAIN Reqs /\ Head(queue) = Reqs[n + 1]
         /\ Wanted(Head(queue)) <=> IsLooked(n + 1)
         /\ Tail(queue) \in Seq({Reqs[i] : i \in DOMAIN Reqs})
         /\ Len(Tail(queue)) + (n + 1) = Len(Reqs)
         /\ \A i \in 1 .. Len(Tail(queue)) : Tail(queue)[i] = Reqs[(n + 1) + i]
         /\ 1 .. n + 1 = (1 .. n) \cup {n + 1}
<1> DEFINE S == {Reqs[i] : i \in DOMAIN Reqs}
<1>1. read_tool_requirements_ok(build.requirements) /\ queue \in Seq(S)
  BY DEF CheckInv
<1>2. DOMAIN Reqs = 1 .. Len(Reqs) /\ Len(Reqs) \in Nat /\ \A i, j \in DOMAIN Reqs : Reqs[i].tool = Reqs[j].tool => i = j
  BY <1>1, ReqsAre
<1> HIDE DEF S
<1>3. /\ Tail(queue) \in Seq(S) /\ Len(Tail(queue)) = Len(queue) - 1 /\ Head(queue) = queue[1] /\ 1 \in 1 .. Len(queue)
      /\ \A i \in 1 .. Len(Tail(queue)) : Tail(queue)[i] = queue[i + 1] /\ i + 1 \in 1 .. Len(queue)
  BY <1>1, TailOf
<1>4. Len(queue) \in Nat /\ Len(queue) + n = Len(Reqs) /\ \A i \in 1 .. Len(queue) : queue[i] = Reqs[n + i]
  BY <1>1 DEF Through
<1>5. n + 1 \in DOMAIN Reqs
  BY <1>2, <1>3, <1>4
<1>6. Head(queue) = Reqs[n + 1] /\ Len(Tail(queue)) + (n + 1) = Len(Reqs)
  BY <1>3, <1>4
<1>7. ASSUME NEW i \in 1 .. Len(Tail(queue)) PROVE Tail(queue)[i] = Reqs[(n + 1) + i]
  <2>1. n + (i + 1) = (n + 1) + i
    OBVIOUS
  <2> QED BY <1>3, <1>4, <2>1
<1>8. \A i \in 1 .. n : Reqs[i].tool # Reqs[n + 1].tool
  <2>1. \A i \in 1 .. n : i \in 1 .. Len(Reqs) /\ i # n + 1
    BY <1>2, <1>5
  <2> QED BY <1>2, <1>5, <2>1
<1>9. Wanted(Head(queue)) <=> IsLooked(n + 1)
  BY <1>6, <1>8 DEF Wanted, IsLooked, Through
<1>10. 1 .. n + 1 = (1 .. n) \cup {n + 1}
  OBVIOUS
<1> QED BY <1>3, <1>5, <1>6, <1>7, <1>9, <1>10 DEF S

(* The steps of main.                                                          *)
LEMMA RequirementsAreRead ==
  ASSUME CheckInv, build \in Builds, RequirementsAreVersions, UNCHANGED <<build, stage>>,
         \/ ReadRequirements(build.requirements, build.tools)
         \/ RefuseRequirements(build.requirements)
  PROVE  CheckInv'
<1>1. CASE RefuseRequirements(build.requirements)
  <2>1. checked' = "failed" /\ ~Passes'
    BY <1>1 DEF RefuseRequirements, Passes
  <2> QED BY <2>1 DEF CheckInv
<1>2. CASE ReadRequirements(build.requirements, build.tools)
  <2>1. /\ checked' = "checking" /\ queue' = Reqs /\ pending_tools' = build.tools /\ missing_tools' = {}
        /\ read_tool_requirements_ok(build.requirements)
    BY <1>2 DEF ReadRequirements, Reqs, CheckInv
  <2>2. Reqs' = Reqs
    BY DEF Reqs
  <2>3. Reqs \in Seq({Reqs[i] : i \in DOMAIN Reqs}) /\ Len(Reqs) \in Nat
    BY <2>1, ReqsAre
  <2>4. Through(0)'
    BY <2>1, <2>2, <2>3 DEF Through
  <2> QED BY <2>1, <2>2, <2>3, <2>4 DEF CheckInv
<1> QED BY <1>1, <1>2

LEMMA ToolIsSkipped ==
  ASSUME CheckInv, build \in Builds, RequirementsAreVersions, UNCHANGED <<build, stage>>, SkipTool
  PROVE  CheckInv'
<1>1. /\ checked = "checking" /\ queue # <<>> /\ ~Wanted(Head(queue)) /\ queue' = Tail(queue)
      /\ UNCHANGED <<pending_tools, missing_tools, checked>>
  BY DEF SkipTool
<1>2. PICK n \in Nat : Through(n)
  BY <1>1 DEF CheckInv
<1>3. Reqs' = Reqs /\ \A i : (IsLooked(i)' <=> IsLooked(i)) /\ (Passed(i)' <=> Passed(i))
  BY DEF Reqs, IsLooked, Passed
<1>4. ~IsLooked(n + 1) /\ Reqs[n + 1].tool \notin build.tools
  BY <1>1, <1>2, NextReq DEF IsLooked
<1>5. Through(n + 1)'
  <2>1. 1 .. n + 1 = (1 .. n) \cup {n + 1}
    OBVIOUS
  <2>2. pending_tools = {t \in build.tools : \A i \in 1 .. n + 1 : Reqs[i].tool # t}
    BY <1>2, <1>4, <2>1 DEF Through
  <2>3. missing_tools = {} <=> \A i \in 1 .. n + 1 : IsLooked(i) => Passed(i)
    BY <1>2, <1>4, <2>1 DEF Through
  <2>4. /\ Len(queue') + (n + 1) = Len(Reqs)
        /\ \A i \in 1 .. Len(queue') : queue'[i] = Reqs[(n + 1) + i]
    BY <1>1, <1>2, NextReq
  <2> QED BY <1>1, <1>3, <2>2, <2>3, <2>4 DEF Through
<1>6. n + 1 \in Nat
  OBVIOUS
<1> QED BY <1>1, <1>2, <1>3, <1>5, <1>6, NextReq DEF CheckInv

LEMMA ToolIsChecked ==
  ASSUME CheckInv, build \in Builds, RequirementsAreVersions, UNCHANGED <<build, stage>>, CheckTool(build.installed)
  PROVE  CheckInv'
<1> DEFINE req == Head(queue)
<1>1. /\ checked = "checking" /\ queue # <<>> /\ Wanted(req) /\ queue' = Tail(queue)
      /\ pending_tools' = pending_tools \ {req.tool}
      /\ missing_tools' = missing_tools \cup IF check(req, build.installed[req.tool]) THEN {} ELSE {req.tool}
      /\ checked' = IF GetVersionDies(req, build.installed[req.tool]) THEN "failed" ELSE checked
  BY DEF CheckTool
<1>2. PICK n \in Nat : Through(n)
  BY <1>1 DEF CheckInv
<1>3. Reqs' = Reqs /\ \A i : (IsLooked(i)' <=> IsLooked(i)) /\ (Passed(i)' <=> Passed(i))
  BY DEF Reqs, IsLooked, Passed
<1>4. IsLooked(n + 1) /\ req = Reqs[n + 1] /\ n + 1 \in DOMAIN Reqs
  BY <1>1, <1>2, NextReq
<1>5. CASE GetVersionDies(req, build.installed[req.tool])
  <2>1. ~Passed(n + 1)
    BY <1>4, <1>5 DEF Passed, check, GetVersionDies
  <2>2. ~Passes'
    BY <1>3, <1>4, <2>1 DEF Passes
  <2> QED BY <1>1, <1>5, <2>2 DEF CheckInv
<1>6. CASE ~GetVersionDies(req, build.installed[req.tool])
  <2>1. pending_tools' = {t \in build.tools : \A i \in 1 .. n + 1 : Reqs[i].tool # t}
    BY <1>1, <1>2, <1>4, NextReq DEF Through
  <2>2. missing_tools' = {} <=> \A i \in 1 .. n + 1 : IsLooked(i) => Passed(i)
    <3>1. missing_tools' = {} <=> missing_tools = {} /\ Passed(n + 1)
      BY <1>1, <1>4 DEF Passed
    <3>2. missing_tools = {} <=> \A i \in 1 .. n : IsLooked(i) => Passed(i)
      BY <1>2 DEF Through
    <3>3. 1 .. n + 1 = (1 .. n) \cup {n + 1}
      OBVIOUS
    <3> QED BY <1>4, <3>1, <3>2, <3>3
  <2>3. Through(n + 1)'
    <3>1. /\ Len(queue') + (n + 1) = Len(Reqs)
          /\ \A i \in 1 .. Len(queue') : queue'[i] = Reqs[(n + 1) + i]
      BY <1>1, <1>2, NextReq
    <3> QED BY <1>3, <2>1, <2>2, <3>1 DEF Through
  <2>4. n + 1 \in Nat
    OBVIOUS
  <2>5. checked' = "checking" /\ queue' \in Seq({Reqs[i] : i \in DOMAIN Reqs})
    BY <1>1, <1>2, <1>6, NextReq
  <2> QED BY <1>1, <1>3, <2>3, <2>4, <2>5 DEF CheckInv
<1> QED BY <1>5, <1>6

LEMMA ToolsAreReported ==
  ASSUME CheckInv, build \in Builds, RequirementsAreVersions, UNCHANGED <<build, stage>>, ReportTools
  PROVE  CheckInv'
<1>1. /\ checked = "checking" /\ queue = <<>>
      /\ checked' = IF missing_tools = {} /\ pending_tools = {} THEN "ok" ELSE "failed"
  BY DEF ReportTools
<1>2. PICK n \in Nat : Through(n)
  BY <1>1 DEF CheckInv
<1>3. read_tool_requirements_ok(build.requirements) /\ DOMAIN Reqs = 1 .. n
  <2>1. read_tool_requirements_ok(build.requirements)
    BY <1>1 DEF CheckInv
  <2>2. Len(Reqs) = n
    BY <1>1, <1>2 DEF Through
  <2> QED BY <2>1, <2>2, ReqsAre
<1>4. missing_tools = {} /\ pending_tools = {} <=> Passes
  BY <1>2, <1>3 DEF Through, Passes
<1>5. Passes' <=> Passes
  BY DEF Passes, Reqs, IsLooked, Passed
<1> QED BY <1>1, <1>4, <1>5 DEF CheckInv

LEMMA NextCheck ==
  ASSUME CheckInv, RequirementsAreVersions, [Next]_vars
  PROVE  CheckInv'
<1>1. UNCHANGED build
  BY DEF Next, Import, BuildCore, BuildNext, vars, buildVars, ownVars, Configure, ConfigureNothing, ConfigureStops,
     CheckTools, ToolsChecked, ConvertFiles, FilesConverted, HookFails, RunTool
<1>2. UNCHANGED <<requirementVars, stage>> \/ (UNCHANGED requirementVars /\ stage # "none") \/ (CheckTools /\ stage # "none")
  BY DEF Next, Import, BuildCore, BuildNext, vars, buildVars, UnchangedScripts, Configure, ConfigureNothing,
     ConfigureStops, ConvertFiles, ToolsChecked, FilesConverted, HookFails, RunTool
<1>3. CASE UNCHANGED requirementVars /\ (UNCHANGED stage \/ stage # "none")
  <2>1. /\ (Passes' <=> Passes) /\ Reqs' = Reqs /\ \A n : (Through(n)' <=> Through(n))
    BY <1>1, <1>3 DEF requirementVars, Passes, Reqs, IsLooked, Passed, Through
  <2> QED BY <1>1, <1>3, <2>1 DEF CheckInv, requirementVars
<1>4. CASE CheckTools /\ stage # "none"
  <2>1. build \in Builds /\ UNCHANGED stage
    BY <1>4 DEF CheckInv, CheckTools, ownVars
  <2>2. \/ ReadRequirements(build.requirements, build.tools) \/ RefuseRequirements(build.requirements)
        \/ SkipTool \/ CheckTool(build.installed) \/ ReportTools
    BY <1>4 DEF CheckTools
  <2> QED BY <1>1, <2>1, <2>2, RequirementsAreRead, ToolIsSkipped, ToolIsChecked, ToolsAreReported
<1> QED BY <1>2, <1>3, <1>4

(* For every file of requirements and every set of tools: a check that passes  *)
(* has passed no tool that is absent, unreadable or older than demanded, and one  *)
(* that fails has a reason, but for two releases of VCS of one year whose service  *)
(* packs and patches have unlike numbers of digits, of which the one with more may  *)
(* pass though it is older, and the one with fewer fail though it is not.            *)
THEOREM ReleasesAreChecked == RequirementsAreVersions => (Spec => []ChecksTheReleases)
<1> SUFFICES ASSUME RequirementsAreVersions PROVE Spec => []ChecksTheReleases
  OBVIOUS
<1>1. Init => CheckInv
  BY DEF Init, BuildsNothing, BuildInit, CheckInit, CheckInv
<1>2. CheckInv /\ [Next]_vars => CheckInv'
  BY NextCheck
<1>3. CheckInv => ChecksTheReleases
  <2> DEFINE inst(req) == build.installed[req.tool]
  <2> SUFFICES ASSUME CheckInv, checked \in {"ok", "failed"}
               PROVE  /\ checked = "ok" =>
                           /\ InOrder(build)
                           /\ \A req \in Looked(build) : Fulfilled(req, inst(req)) \/ Favoured(req, inst(req))
                      /\ checked = "failed" =>
                           \/ ~InOrder(build)
                           \/ \E req \in Looked(build) : ~Fulfilled(req, inst(req)) \/ Slighted(req, inst(req))
    BY DEF ChecksTheReleases
  <2>1. build \in Builds /\ (checked = "ok" <=> Passes)
    BY DEF CheckInv
  <2>2. CASE ~read_tool_requirements_ok(build.requirements)
    BY <2>1, <2>2 DEF Passes, InOrder
  <2>3. CASE read_tool_requirements_ok(build.requirements)
    <3>1. \A t : t \in KnownTools(build) <=> \E i \in DOMAIN Reqs : Reqs[i].tool = t
      BY <2>1, <2>3, ReqsAre DEF KnownTools, ToSet
    <3>2. \A req : req \in Looked(build) <=> \E i \in DOMAIN Reqs : req = Reqs[i] /\ IsLooked(i)
      BY DEF Looked, Reqs, IsLooked, ToSet
    <3>3. \A req \in Looked(build) :
            /\ check(req, inst(req)) => Fulfilled(req, inst(req)) \/ Favoured(req, inst(req))
            /\ Fulfilled(req, inst(req)) => check(req, inst(req)) \/ Slighted(req, inst(req))
      BY <2>1, <2>3, ChecksOne DEF RequirementsAreVersions
    <3>4. (\A i \in DOMAIN Reqs : IsLooked(i) => Passed(i)) <=> \A req \in Looked(build) : check(req, inst(req))
      BY <3>2 DEF Passed
    <3>5. Passes <=> InOrder(build) /\ \A req \in Looked(build) : check(req, inst(req))
      BY <2>3, <3>1, <3>4 DEF Passes, InOrder
    <3> HIDE DEF inst
    <3> QED BY <2>1, <3>3, <3>5
  <2> QED BY <2>2, <2>3
<1> QED BY <1>1, <1>2, <1>3, PTL DEF Spec

---------------------------------------------------------------------------
(* cve2_config.py                                                             *)

ConfigOf(b) == parse_config(b.config, ConfigFile(b))
Opts(b) == UNION {output(output_fn, ConfigOf(b)) : output_fn \in ToSet(b.outputs)}

(* The options of the configuration reach the tool, or none do and make runs.  *)
ConfigInv ==
  /\ build \in Builds \/ stage = "none"
  /\ stage = "configure" => options = {}
  /\ stage \in {"check", "convert", "tool", "built"} =>
       \/ ~ConfigFails(build) /\ options = Opts(build)
       \/ ConfigFails(build) /\ build.by = "make" /\ options = {}
  /\ stage = "built" =>
       design = [p \in {option.parameter : option \in options} \cup DOMAIN build.declared |->
                   IF Given(p) # {} THEN Value(CHOOSE option \in Given(p) : TRUE) ELSE build.declared[p]]

LEMMA NextConfig ==
  ASSUME ConfigInv, [Next]_vars
  PROVE  ConfigInv'
<1>1. UNCHANGED ownVars => ConfigInv'
  <2> SUFFICES ASSUME UNCHANGED ownVars PROVE ConfigInv'
    OBVIOUS
  <2>1. \A p : Given(p)' = Given(p)
    BY DEF ownVars, Given
  <2> QED BY <2>1 DEF ownVars, ConfigInv
<1>2. CASE BuildCore
  <2>1. stage # "none" /\ build \in Builds /\ BuildNext
    BY <1>2 DEF BuildCore, ConfigInv
  <2>2. CASE Configure
    BY <2>1, <2>2 DEF Configure, ConfigInv, Opts, ConfigOf
  <2>3. CASE ConfigureNothing
    BY <2>1, <2>3 DEF ConfigureNothing, ConfigInv
  <2>4. CASE ConfigureStops
    BY <2>1, <2>4 DEF ConfigureStops, ConfigInv
  <2>5. CASE CheckTools \/ ConvertFiles
    BY <1>1, <2>5 DEF CheckTools, ConvertFiles
  <2>6. CASE ToolsChecked \/ FilesConverted
    BY <2>1, <2>6 DEF ToolsChecked, FilesConverted, ConfigInv
  <2>7. CASE HookFails
    BY <2>1, <2>7 DEF HookFails, ConfigInv
  <2>8. CASE RunTool
    <3>1. \A p : Given(p)' = Given(p)
      BY <2>8 DEF RunTool, Given
    <3> QED BY <2>1, <2>8, <3>1 DEF RunTool, ConfigInv
  <2> QED BY <2>1, <2>2, <2>3, <2>4, <2>5, <2>6, <2>7, <2>8 DEF BuildNext
<1>3. UNCHANGED ownVars \/ BuildCore
  BY DEF Next, Import, vars, buildVars, ownVars
<1> QED BY <1>1, <1>2, <1>3

(* What a design has for a parameter with one option, or with none.            *)
LEMMA OneOption ==
  ASSUME ConfigInv, stage = "built", NEW p, NEW option, Given(p) = {option}
  PROVE  design[p] = Value(option) /\ Cardinality(Given(p)) <= 1
<1>1. p \in {other.parameter : other \in options}
  BY DEF Given
<1>2. (CHOOSE other \in Given(p) : TRUE) = option
  OBVIOUS
<1>3. design[p] = Value(option)
  BY <1>1, <1>2 DEF ConfigInv
<1> QED BY <1>3, FS_Singleton

LEMMA NoOption ==
  ASSUME ConfigInv, stage = "built", NEW p \in DOMAIN build.declared, Given(p) = {}
  PROVE  design[p] = build.declared[p] /\ Cardinality(Given(p)) <= 1
<1>1. design[p] = build.declared[p]
  BY DEF ConfigInv
<1> QED BY <1>1, FS_EmptySet

LEMMA ConfigTypes ==
  ASSUME NEW b, b.outputs # <<>>, ~ConfigFails(b), NEW p \in DOMAIN ConfigOf(b)
  PROVE  ConfigOf(b)[p].type \in {"bool", "int", "str"}
<1>1. get_config_dicts(ConfigFile(b)) /\ Named(b.config, ConfigFile(b)) # {}
  BY DEF ConfigFails, parse_config_fails
<1>2. PICK i \in Named(b.config, ConfigFile(b)) : ConfigOf(b) = ConfigFile(b).configs[i].config
  BY <1>1 DEF ConfigOf, parse_config
<1> QED BY <1>1, <1>2 DEF get_config_dicts, _verify_config, Named

(* What the tool is given for one parameter.                                   *)
LEMMA FusesocGives ==
  ASSUME NEW config, options = FusesocOpts(config), NEW p \in DOMAIN config,
         config[p].type = "bool" => config[p] \in {BoolValue(TRUE), BoolValue(FALSE)}
  PROVE  \/ Given(p) = {Option("flag", p, "")} /\ Text(config[p]) = "1"
         \/ Given(p) = {} /\ config[p].type = "bool" /\ Text(config[p]) = "0"
         \/ Given(p) = {Option("param", p, config[p].v)} /\ Text(config[p]) = config[p].v
<1>1. \A kind, q, text : Option(kind, q, text).parameter = q
  BY DEF Option
<1>2. \A option : option \in Given(p) <=>
        \/ option = Option("flag", p, "") /\ config[p] = BoolValue(TRUE)
        \/ option = Option("param", p, config[p].v) /\ config[p].type # "bool"
  <2>1. \A option : option \in options <=>
          \/ \E q \in DOMAIN config : option = Option("flag", q, "") /\ config[q] = BoolValue(TRUE)
          \/ \E q \in DOMAIN config : option = Option("param", q, config[q].v) /\ config[q].type # "bool"
    BY DEF FusesocOpts
  <2>2. Option("flag", p, "").parameter = p /\ Option("param", p, config[p].v).parameter = p
    BY <1>1
  <2> SUFFICES ASSUME NEW option
               PROVE  option \in options /\ option.parameter = p <=>
                        \/ option = Option("flag", p, "") /\ config[p] = BoolValue(TRUE)
                        \/ option = Option("param", p, config[p].v) /\ config[p].type # "bool"
    BY DEF Given
  <2>3. ASSUME option \in options, option.parameter = p
        PROVE  \/ option = Option("flag", p, "") /\ config[p] = BoolValue(TRUE)
               \/ option = Option("param", p, config[p].v) /\ config[p].type # "bool"
    <3>1. CASE \E q \in DOMAIN config : option = Option("flag", q, "") /\ config[q] = BoolValue(TRUE)
      <4>1. PICK q \in DOMAIN config : option = Option("flag", q, "") /\ config[q] = BoolValue(TRUE)
        BY <3>1
      <4>2. q = p
        BY <1>1, <2>3, <4>1
      <4> QED BY <4>1, <4>2
    <3>2. CASE \E q \in DOMAIN config : option = Option("param", q, config[q].v) /\ config[q].type # "bool"
      <4>1. PICK q \in DOMAIN config : option = Option("param", q, config[q].v) /\ config[q].type # "bool"
        BY <3>2
      <4>2. q = p
        BY <1>1, <2>3, <4>1
      <4> QED BY <4>1, <4>2
    <3> QED BY <2>1, <2>3, <3>1, <3>2
  <2> QED BY <2>1, <2>2, <2>3, Zenon
<1>3. BoolValue(TRUE).type = "bool" /\ BoolValue(TRUE).v = TRUE /\ BoolValue(FALSE).type = "bool" /\ BoolValue(FALSE).v = FALSE
  BY DEF BoolValue
<1> QED BY <1>2, <1>3 DEF Text

LEMMA SimulatorsGive ==
  ASSUME NEW config, NEW outputs, outputs \subseteq AsMeant,
         {"param", "define"} \subseteq UNION {DOMAIN Simulators[s] : s \in outputs},
         options = UNION {output(output_fn, config) : output_fn \in outputs}, NEW p \in DOMAIN config
  PROVE  \E kind \in {"param", "define"} : Given(p) = {Option(kind, p, Text(config[p]))}
<1> DEFINE kind == Meant(config[p])
           given == Option(kind, p, Text(config[p]))
<1>1. \A k, q, text : Option(k, q, text).parameter = q
  BY DEF Option
<1>2. "fusesoc_opts" \notin AsMeant /\ kind \in {"param", "define"}
  BY DEF AsMeant, Simulators, Meant
<1>3. options = UNION {SimOpts(s, config) : s \in outputs}
  BY <1>2 DEF output
<1>4. ASSUME NEW s \in outputs, NEW option \in SimOpts(s, config), option.parameter = p
      PROVE  option = given
  <2>1. PICK q \in DOMAIN config : /\ option = Option(Simulators[s][Meant(config[q])], q, Text(config[q]))
                                   /\ Meant(config[q]) \in DOMAIN Simulators[s]
    BY DEF SimOpts
  <2>2. q = p
    BY <1>1, <1>4, <2>1
  <2>3. Simulators[s][kind] = kind
    BY <2>1, <2>2 DEF AsMeant
  <2> QED BY <2>1, <2>2, <2>3
<1>5. PICK s \in outputs : kind \in DOMAIN Simulators[s]
  BY <1>2
<1>6. given \in SimOpts(s, config)
  <2>1. Simulators[s][kind] = kind
    BY <1>5 DEF AsMeant
  <2> QED BY <1>5, <2>1 DEF SimOpts
<1>7. given.parameter = p
  BY <1>1
<1> HIDE DEF given
<1>8. Given(p) = {given}
  BY <1>3, <1>4, <1>5, <1>6, <1>7 DEF Given
<1> QED BY <1>2, <1>8 DEF given

(* What is built is the configuration that was named, for every file of        *)
(* configurations; and if that could not be had, then make alone has built, and     *)
(* with nothing but what the declarations of the core say.                           *)
THEOREM NamedIsBuilt == OutputsAreComplete => (Spec => []BuildsWhatItNames)
<1> SUFFICES ASSUME OutputsAreComplete PROVE Spec => []BuildsWhatItNames
  OBVIOUS
<1>1. Init => ConfigInv
  BY DEF Init, BuildsNothing, BuildInit, ConfigInv
<1>2. ConfigInv /\ [Next]_vars => ConfigInv'
  BY NextConfig
<1>3. ConfigInv => BuildsWhatItNames
  <2>5. ASSUME ConfigInv, stage = "built", ConfigFails(build)
        PROVE  build.by = "make" /\ options = {} /\ \A q \in DOMAIN build.declared : design[q] = build.declared[q]
    <3>1. build.by = "make" /\ options = {}
      BY <2>5 DEF ConfigInv
    <3>2. \A q : Given(q) = {}
      BY <3>1 DEF Given
    <3> QED BY <2>5, <3>1, <3>2, NoOption
  <2> SUFFICES ASSUME ConfigInv, stage = "built", build.outputs # <<>>, ~ConfigFails(build), NEW p \in DOMAIN ConfigOf(build)
               PROVE  design[p] = Text(ConfigOf(build)[p]) /\ Cardinality(Given(p)) <= 1
    BY <2>5 DEF BuildsWhatItNames, ConfigOf
  <2> DEFINE config == ConfigOf(build)
             outputs == ToSet(build.outputs)
  <2>1. build \in Builds /\ options = UNION {output(output_fn, config) : output_fn \in outputs}
    BY DEF ConfigInv, Opts
  <2>2. config[p].type = "bool" => config[p] \in {BoolValue(TRUE), BoolValue(FALSE)}
    BY <2>1 DEF OutputsAreComplete, ConfigOf
  <2>3. CASE outputs = {"fusesoc_opts"} /\ (config[p].type = "bool" => p \in DOMAIN build.declared /\ build.declared[p] = "0")
    <3>1. options = FusesocOpts(config)
      BY <2>1, <2>3 DEF output
    <3>2. \/ Given(p) = {Option("flag", p, "")} /\ Text(config[p]) = "1"
          \/ Given(p) = {} /\ config[p].type = "bool" /\ Text(config[p]) = "0"
          \/ Given(p) = {Option("param", p, config[p].v)} /\ Text(config[p]) = config[p].v
      BY <2>2, <3>1, FusesocGives
    <3>3. Value(Option("flag", p, "")) = "1" /\ Value(Option("param", p, config[p].v)) = config[p].v
      BY DEF Value, Option
    <3> HIDE DEF config
    <3>4. CASE Given(p) = {Option("flag", p, "")} /\ Text(config[p]) = "1"
      BY <3>3, <3>4, OneOption DEF config
    <3>5. CASE Given(p) = {Option("param", p, config[p].v)} /\ Text(config[p]) = config[p].v
      BY <3>3, <3>5, OneOption DEF config
    <3>6. CASE Given(p) = {} /\ config[p].type = "bool" /\ Text(config[p]) = "0"
      BY <2>3, <3>6, NoOption DEF config
    <3> QED BY <3>2, <3>4, <3>5, <3>6
  <2>4. CASE outputs \subseteq AsMeant /\ {"param", "define"} \subseteq UNION {DOMAIN Simulators[s] : s \in outputs}
    <3>1. PICK kind \in {"param", "define"} : Given(p) = {Option(kind, p, Text(config[p]))}
      BY <2>1, <2>4, SimulatorsGive
    <3>2. Value(Option(kind, p, Text(config[p]))) = Text(config[p])
      BY DEF Value, Option
    <3> QED BY <3>1, <3>2, OneOption
  <2> QED BY <2>1, <2>3, <2>4 DEF OutputsAreComplete, ConfigOf
<1> QED BY <1>1, <1>2, <1>3, PTL DEF Spec
=============================================================================
