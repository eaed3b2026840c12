------------------------------ MODULE Collector ------------------------------
(***************************************************************************)
(* The updates of a context and the trees they are applied to              *)
(* (TreeCollector and ObjectUpdate in gd/inc/collector.h, gd/src/gd.cpp).  *)
(*                                                                         *)
(* A commit has a root tree; a tree is a directory, whose entries are      *)
(* blobs (files) and trees.  Updates are collected per directory and in    *)
(* order.  apply() rebuilds every directory that has updates, deepest      *)
(* first, from what the commit holds there, and appends the outcome to the *)
(* updates of the parent directory, up to the root.                        *)
(*                                                                         *)
(* The module follows one context on one branch.  Module Snapshots sees a  *)
(* whole repository as one flat directory; the properties below say when   *)
(* that is justified.                                                      *)
(***************************************************************************)
EXTENDS Snapshots, SequencesExt

CONSTANTS
  Targets,     (* the paths that calls name; a path is a sequence of names*)
  Directory,   (* not a content: what is noted of a tree that is moved   *)
  MaxCollected,(* bound on the updates collected between two commits     *)
  MaxDepth     (* bound on the directories in one another                *)

Names == UNION { ToSet(p) : p \in Files }

ASSUME PathAssumption == Files \subseteq Seq(Names) \ {<< >>} /\ Targets \subseteq Files
ASSUME DirectoryAssumption == Directory \notin Values
ASSUME CollectedAssumption == MaxCollected \in Nat

VARIABLES
  root,        (* the root tree of the commit, Nothing before the first  *)
  updates,     (* dirObjs_: the updates collected for every directory    *)
  log          (* history: the updates in the order they were asked for  *)

vars == <<root, updates, log>>

-------------------------------------------------------------------------------
(* Trees of git. *)

Nothing == [kind |-> "none"]

Blob(c) == [kind |-> "blob", content |-> c]

Tree(entries) == [kind |-> "tree", entries |-> entries]

EmptyDirectory == Tree([n \in {} |-> Nothing])

(* More entries, in addition to some or instead of them.                   *)
With(entries, more) ==
  [n \in DOMAIN entries \union DOMAIN more |->
     IF n \in DOMAIN more THEN more[n] ELSE entries[n]]

EntryIn(e, name) ==
  IF e.kind = "tree" /\ name \in DOMAIN e.entries THEN e.entries[name] ELSE Nothing

(* What is found below e at a path of names; e itself at the empty path.   *)
EntryAt(e, path) ==
  LET at[n \in 0 .. Len(path)] == IF n = 0 THEN e ELSE EntryIn(at[n - 1], path[n])
  IN  at[Len(path)]

ContentOf(e) == IF e.kind = "blob" THEN e.content ELSE Absent

(* Bound: directories can be moved into themselves, and so on.             *)
Shallow(e) ==
  LET below[n \in 0 .. MaxDepth + 1] ==
        IF n = 0 THEN {e}
        ELSE UNION { { d.entries[name] : name \in DOMAIN d.entries } :
                     d \in { b \in below[n - 1] : b.kind = "tree" } }
  IN  below[MaxDepth + 1] = {}

(* What is noted of an entry: the content of a file, that it is a tree.    *)
Noted(e) == IF e.kind = "tree" THEN Directory ELSE ContentOf(e)

(* The files of a tree, as a snapshot.                                     *)
FilesOf(e) == [f \in Files |-> ContentOf(EntryAt(e, f))]

-------------------------------------------------------------------------------
(* Collecting. *)

(* An update puts an entry under a name, or removes the name.              *)
Update(path, e) == [name |-> Last(path), entry |-> e]

UpdatesIn(us, dir) == IF dir \in DOMAIN us THEN us[dir] ELSE << >>

(* Mutant: updates are put at the front.                                   *)
InsertFirst(us, path, e) ==
  [d \in DOMAIN us \union {Front(path)} |->
     IF d = Front(path) THEN << Update(path, e) >> \o UpdatesIn(us, d) ELSE us[d]]

(* Directories are named from the root, whether the caller did so or not.  *)
Insert(us, path, e) ==
  [d \in DOMAIN us \union {Front(path)} |->
     IF d = Front(path) THEN Append(UpdatesIn(us, d), Update(path, e)) ELSE us[d]]

NoUpdates == [d \in {} |-> << >>]

-------------------------------------------------------------------------------
(* Applying. *)

Failed == [kind |-> "failed"]

(* Mutant: taking out what is not there is no failure.                     *)
GitItLeniently(bld, u) ==
  IF bld = Failed THEN Failed
  ELSE IF u.entry # Nothing
       THEN Tree(With(bld.entries, [n \in {u.name} |-> u.entry]))
       ELSE Tree([n \in DOMAIN bld.entries \ {u.name} |-> bld.entries[n]])

(* A name is put into a tree builder, or taken out, which fails if it is   *)
(* not there.                                                              *)
GitIt(bld, u) ==
  IF bld = Failed THEN Failed
  ELSE IF u.entry # Nothing
       THEN Tree(With(bld.entries, [n \in {u.name} |-> u.entry]))
       ELSE IF u.name \in DOMAIN bld.entries
            THEN Tree([n \in DOMAIN bld.entries \ {u.name} |-> bld.entries[n]])
            ELSE Failed

(* Mutant: every builder starts empty.                                     *)
BaseOfNothing(r, dir) == EmptyDirectory

(* A builder is given updates one after the other.                         *)
Build(bld, us) ==
  LET built[n \in 0 .. Len(us)] == IF n = 0 THEN bld ELSE GitIt(built[n - 1], us[n])
  IN  built[Len(us)]

(* What the builder of a directory starts from.                            *)
Base(r, dir) ==
  LET e == EntryAt(r, dir) IN
  CASE e.kind = "none" -> EmptyDirectory
    [] e.kind = "tree" -> e
    [] e.kind = "blob" -> Failed

(* Every directory that is rebuilt: those with updates and all above them. *)
Rebuilt(us) == UNION { { SubSeq(d, 1, n) : n \in 0 .. Len(d) } : d \in DOMAIN us }

(* What becomes of every one of them.  The subdirectories of a directory   *)
(* come last in its list, each once, their order makes no difference.      *)
Built(r, us) ==
  LET Dirs == Rebuilt(us)
      tree[d \in Dirs] ==
        LET own     == Build(Base(r, d), UpdatesIn(us, d))
            subdirs == { n \in Names : Append(d, n) \in Dirs }
            written == [n \in subdirs |-> tree[Append(d, n)]]
        IN  IF own = Failed \/ \E n \in subdirs : written[n] = Failed
            THEN Failed
            ELSE Tree(With(own.entries, written))
  IN  tree

(* The root tree after all updates, or Failed.                             *)
Apply(r, us) == Built(r, us)[<< >>]

-------------------------------------------------------------------------------
(* Reading. *)

(* Mutant: the oldest update decides.                                      *)
ReadingOldest(us, path, rooted) ==
  LET own  == UpdatesIn(us, Front(path))
      mine == { i \in DOMAIN own :
                  /\ own[i].name = Last(path)
                  /\ \A j \in 1 .. i - 1 : own[j].name # Last(path) }
      e    == IF mine = {} THEN Nothing ELSE own[CHOOSE i \in mine : TRUE].entry
  IN  IF rooted THEN Absent
      ELSE ContentOf(IF mine = {} \/ e.kind = "tree" THEN EntryAt(root, path) ELSE e)

(* The newest update of the name in its directory decides, if it is a file *)
(* or a removal; otherwise the commit does.  A path given from the root is *)
(* found in neither.                                                       *)
Reading(us, path, rooted) ==
  LET own  == UpdatesIn(us, Front(path))
      mine == { i \in DOMAIN own :
                  /\ own[i].name = Last(path)
                  /\ \A j \in i + 1 .. Len(own) : own[j].name # Last(path) }
      e    == IF mine = {} THEN Nothing ELSE own[CHOOSE i \in mine : TRUE].entry
  IN  IF rooted THEN Absent
      ELSE ContentOf(IF mine = {} \/ e.kind = "tree" THEN EntryAt(root, path) ELSE e)

-------------------------------------------------------------------------------
Init ==
  /\ root = Nothing
  /\ updates = NoUpdates
  /\ log = << >>

(* The context is lost, or rolled back: the next one starts at the commit. *)
Drop ==
  /\ updates' = NoUpdates
  /\ log' = << >>
  /\ UNCHANGED root

Collect(us, asked) ==
  /\ Len(log) + Len(asked) =< MaxCollected
  /\ updates' = us
  /\ log' = log \o asked
  /\ UNCHANGED root

Add(p, c) == Collect(Insert(updates, p, Blob(c)), << [file |-> p, val |-> c] >>)

Del(p) == Collect(Insert(updates, p, Nothing), << [file |-> p, val |-> Absent] >>)

(* Mutant: the old name is removed before the new one is there.            *)
MovingAway(p, q) == Insert(Insert(updates, p, Nothing), q, EntryAt(root, p))

(* The entry is looked up in the commit, put under the new name, and then  *)
(* removed under the old one.                                              *)
Moving(p, q) == Insert(Insert(updates, q, EntryAt(root, p)), p, Nothing)

Mv(p, q, rooted) ==
  /\ root # Nothing
  /\ IF rooted \/ EntryAt(root, p) = Nothing
     THEN Drop
     ELSE Collect(Moving(p, q), << [file |-> q, val |-> Noted(EntryAt(root, p))],
                                   [file |-> p, val |-> Absent] >>)

Read(p, rooted) ==
  IF Reading(updates, p, rooted) = Absent THEN Drop ELSE UNCHANGED vars

Rollback == Drop

(* Mutant: the updates are not cleared.                                    *)
CommitKeepsUpdates ==
  LET new == Apply(root, updates) IN
  IF updates = NoUpdates \/ new = Failed
  THEN Drop
  ELSE root' = new /\ log' = << >> /\ UNCHANGED updates

(* Nothing collected, or an update that cannot be applied, is an error.    *)
Commit ==
  LET new == Apply(root, updates) IN
  IF updates = NoUpdates \/ new = Failed
  THEN Drop
  ELSE /\ Shallow(new)
       /\ root' = new
       /\ updates' = NoUpdates
       /\ log' = << >>

(* Someone else committed one update, and the context moves on to that     *)
(* commit with all it has collected (selectBranch, rebase).                *)
Rebase(p, e) ==
  /\ root # Nothing
  /\ LET new == Apply(root, Insert(NoUpdates, p, e)) IN
     new # Failed /\ Shallow(new) /\ root' = new
  /\ UNCHANGED <<updates, log>>

Next ==
  \/ \E p \in Targets :
       \/ \E c \in Contents : Add(p, c)
       \/ Del(p)
       \/ \E rooted \in BOOLEAN :
            \/ Read(p, rooted)
            \/ \E q \in Targets : Mv(p, q, rooted)
       \/ \E e \in { Blob(c) : c \in Contents } \union {Nothing} : Rebase(p, e)
  \/ Rollback
  \/ Commit

Spec == Init /\ [][Next]_vars

-------------------------------------------------------------------------------
IsTree(e) ==
  /\ e.kind = "tree"
  /\ e = Tree(e.entries)
  /\ \A n \in DOMAIN e.entries : e.entries[n].kind \in {"blob", "tree"}

IsEntry(e) == e = Nothing \/ (\E c \in Contents : e = Blob(c)) \/ IsTree(e)

(* A root is a tree or none at all, with entries in it and below it; every *)
(* directory with updates has some, each of a name that was asked for, and *)
(* updates are kept as long as it is known what was asked for.             *)
TypeOK ==
  /\ root.kind \in {"none", "tree"}
  /\ \A p \in Files : IsEntry(EntryAt(root, Front(p))) /\ IsEntry(EntryAt(root, p))
  /\ \A d \in DOMAIN updates :
       /\ updates[d] # << >>
       /\ \A i \in DOMAIN updates[d] :
            /\ Append(d, updates[d][i].name) \in Targets
            /\ IsEntry(updates[d][i].entry)
  /\ log \in Seq([file: Targets, val: Values \union {Directory}])
  /\ log = << >> <=> updates = NoUpdates

(* The paths that updates put something at or take something from.         *)
Touched == { log[i].file : i \in DOMAIN log }

(* The updates own of directory d are those of history that are about      *)
(* something in it: all of them, in the order they were asked for.         *)
InOrder(own, d, history) ==
  \E pos \in [DOMAIN own -> DOMAIN history] :
    /\ \A j, k \in DOMAIN own : j < k => pos[j] < pos[k]
    /\ \A i \in DOMAIN history :
         Front(history[i].file) = d <=> \E j \in DOMAIN own : i = pos[j]
    /\ \A j \in DOMAIN own :
         history[pos[j]] = [file |-> Append(d, own[j].name), val |-> Noted(own[j].entry)]

KeepsOrder(us, history) ==
  /\ \A i \in DOMAIN history : Front(history[i].file) \in DOMAIN us
  /\ \A d \in DOMAIN us : InOrder(us[d], d, history)

(* The lists of the directories forget in which order updates of different *)
(* ones were asked for, and nothing else: none is lost, is in a list it    *)
(* does not belong to, or has changed places with another one of its list, *)
(* the removal of a move with its insertion in particular (insert,         *)
(* gd.cpp:256-266; mv, gd.cpp:574-593).                                    *)
UpdatesInOrder == KeepsOrder(updates, log)

(* What is collected is about files: none of the paths is a directory, or  *)
(* has a file above it, or is above another one.                           *)
NamesFiles ==
  /\ \A i \in DOMAIN log : log[i].val \in Values
  /\ \A p \in Touched :
       /\ EntryAt(root, p).kind # "tree"
       /\ \A n \in 1 .. Len(p) - 1 : EntryAt(root, SubSeq(p, 1, n)).kind # "blob"
       /\ \A q \in Touched : IsPrefix(p, q) => p = q

(* Whatever the repository has come to look like: if the calls name files  *)
(* only, the updates of all directories together do to the nested trees    *)
(* what module Snapshots says the same updates, in the order they were     *)
(* asked for, do to one flat directory; and they fail exactly when those   *)
(* do (apply, gd.cpp:308-345, against the order of dirObjs_,               *)
(* collector.h:99-105).                                                    *)
ApplyIsSnapshot ==
  LET new == Apply(root, updates) IN
  log # << >> /\ NamesFiles =>
    IF Applies(FilesOf(root), log)
    THEN new # Failed /\ FilesOf(new) = ApplyTo(FilesOf(root), log)
    ELSE new = Failed

(* What can be read before a commit is what the commit makes of it:        *)
(* "first from uncommitted context, otherwise from repository"             *)
(* (gd.cpp:687-688), if the calls name files only.                         *)
ReadsWhatCommits ==
  LET new == Apply(root, updates) IN
  updates # NoUpdates /\ new # Failed /\ NamesFiles =>
    \A f \in Files :
      /\ EntryAt(root, f).kind # "tree"
      /\ \A p \in Touched : p = f \/ (~IsPrefix(p, f) /\ ~IsPrefix(f, p))
      => Reading(updates, f, FALSE) = FilesOf(new)[f]

(* A commit changes nothing but what updates name, or what is below or     *)
(* above it: the other entries of every rebuilt directory are carried over *)
(* (gd.cpp:316-320).  Unlike the above it holds for directories, too.      *)
NothingElseChanges ==
  LET new == Apply(root, updates) IN
  updates # NoUpdates /\ new # Failed =>
    \A f \in Files :
      (\A p \in Touched : ~IsPrefix(p, f) /\ ~IsPrefix(f, p))
        => FilesOf(new)[f] = FilesOf(root)[f]

(* What a commit makes of a path that was named, whatever it names: the    *)
(* last update decides, a directory that was moved arrives as one; unless  *)
(* something below it was named, too, before or after: then it is a        *)
(* directory, although the last thing asked for may have been a file       *)
(* there or nothing at all, because rebuilt directories come last in the   *)
(* updates of their parent (gd.cpp:334-336).                               *)
LastUpdateDecides ==
  LET new == Apply(root, updates) IN
  updates # NoUpdates /\ new # Failed =>
    \A i \in DOMAIN log :
      LET p == log[i].file IN
      (\A j \in i + 1 .. Len(log) : log[j].file # p)
        => Noted(EntryAt(new, p)) =
             IF \E q \in Touched : IsPrefix(p, q) /\ p # q THEN Directory ELSE log[i].val

(* gd.h:199: del "Removes a file or a directory by fullpath".  What        *)
(* was below a directory that was removed, and not put there again, should *)
(* not be in the commit; but the directory is rebuilt from the commit when *)
(* anything else was collected in it (gd.cpp:316-339).                     *)
DelRemovesDirectory ==
  LET new == Apply(root, updates) IN
  /\ updates # NoUpdates /\ new # Failed
  /\ \A i \in DOMAIN log : log[i].val \in Values
  => \A f \in Files :
      (\E i \in DOMAIN log :
         /\ log[i].val = Absent /\ IsPrefix(log[i].file, f)
         /\ \A j \in i + 1 .. Len(log) : ~IsPrefix(log[j].file, f))
      => FilesOf(new)[f] = Absent
===============================================================================
