---------------------------- MODULE ArtifactRepo ----------------------------
(***************************************************************************)
(* An artifact repository of RAUC (artifacts.c, the artifact part of       *)
(* install.c, and the file operations of utils.c they use): a directory    *)
(* with one hidden entry .artifact-<name>-<digest> per artifact, its       *)
(* ".tmp" while it is written, and one symbolic link per name, replaced    *)
(* through a link "<name>.tmp-link".                                       *)
(*                                                                         *)
(* Between two syncs a power loss keeps any of the values an entry had     *)
(* since the last one, whatever it does to the other entries.  Killing the *)
(* service loses its memory only, and what it has not synced is written    *)
(* out before the next installation starts (Settled).  Applications open   *)
(* files through links.                                                    *)
(*                                                                         *)
(* Repositories with a parent class are left out: handle_artifact_install_ *)
(* plan asserts that there is none.                                        *)
(***************************************************************************)
EXTENDS Naturals, FiniteSets

CONSTANTS
  Names, Digests, None,
  Manifests   \* the artifact images of the bundles there are: each name -> digest

ASSUME NoneAssumption == None \notin Digests \cup Names \cup (Names \X Digests)

ASSUME ManifestsAssumption == Manifests \subseteq UNION {[N -> Digests] : N \in SUBSET Names}

Keys == Names \X Digests

(* "dirty": complete, in the page cache only. *)
Content == {"none", "part", "dirty", "whole"}

VARIABLES
  entry,      \* [Keys -> [path, tmp]]: what is at path and at path_tmp
  links,      \* [Names -> [to, tmp]]: the link and its ".tmp-link"
  entryKept,  \* the values of each entry a power loss may leave
  linksKept,
  open,       \* the artifacts that applications have open
  pc,         \* where the installation is
  table,      \* repo->artifacts: each known artifact, and whether it is referenced
  left,       \* the names a commit, or the artifacts a prune, has still to visit
  at,         \* the artifact being removed or installed
  swap,       \* the name whose temporary link this commit has made
  bundle,     \* the artifact images of the manifest: name -> digest
  plans,      \* the names whose image is still to be handled
  result      \* "none", "ok" or "failed"

disk == <<entry, links, entryKept, linksKept>>
vars == <<entry, links, entryKept, linksKept, open, pc, table, left, at, swap,
          bundle, plans, result>>

Phases == {"idle", "prune", "remove", "plans", "old", "find", "write", "sync",
           "rename", "fsync", "commit", "final", "finalremove"}

TypeOK ==
  /\ entry \in [Keys -> [path : Content, tmp : Content]]
  /\ links \in [Names -> [to : Digests \cup {None}, tmp : Digests \cup {None}]]
  /\ entryKept \in [Keys -> SUBSET [path : Content, tmp : Content]]
  /\ linksKept \in [Names -> SUBSET [to : Digests \cup {None}, tmp : Digests \cup {None}]]
  /\ open \subseteq Keys
  /\ pc \in Phases
  /\ DOMAIN table \subseteq Keys /\ \A k \in DOMAIN table : table[k] \in BOOLEAN
  /\ left \subseteq Names \cup Keys
  /\ at \in Keys \cup {None} /\ swap \in Names \cup {None}
  /\ DOMAIN bundle \subseteq Names /\ \A n \in DOMAIN bundle : bundle[n] \in Digests
  /\ plans \subseteq Names
  /\ result \in {"none", "ok", "failed"}

NoEntry == [path |-> "none", tmp |-> "none"]
NoLink == [to |-> None, tmp |-> None]

(* An empty repository on a device that has run for a while. *)
Init ==
  /\ entry = [k \in Keys |-> NoEntry]
  /\ links = [n \in Names |-> NoLink]
  /\ entryKept = [k \in Keys |-> {NoEntry}]
  /\ linksKept = [n \in Names |-> {NoLink}]
  /\ open = {} /\ pc = "idle" /\ table = <<>> /\ left = {} /\ at = None
  /\ swap = None /\ bundle = <<>> /\ plans = {} /\ result = "none"

-----------------------------------------------------------------------------
(* File operations: each leaves its result in memory and as one more value *)
(* a power loss may keep.                                                  *)

SetEntry(k, e) ==
  /\ entry' = [entry EXCEPT ![k] = e]
  /\ entryKept' = [entryKept EXCEPT ![k] = @ \cup {e}]
  /\ UNCHANGED <<links, linksKept>>

SetLink(n, l) ==
  /\ links' = [links EXCEPT ![n] = l]
  /\ linksKept' = [linksKept EXCEPT ![n] = @ \cup {l}]
  /\ UNCHANGED <<entry, entryKept>>

OnDisk(c) == IF c = "dirty" THEN "whole" ELSE c

(* syncfs: everything as it is now is what a power loss leaves. *)
SyncFs ==
  /\ entry' = [k \in Keys |-> [path |-> OnDisk(entry[k].path), tmp |-> OnDisk(entry[k].tmp)]]
  /\ entryKept' = [k \in Keys |-> {entry'[k]}]
  /\ linksKept' = [n \in Names |-> {links[n]}]
  /\ UNCHANGED links

(* fsync of the repository's directory: the names, not what they hold. *)
FsyncDir ==
  /\ entryKept' = [k \in Keys |-> {entry[k]}]
  /\ linksKept' = [n \in Names |-> {links[n]}]
  /\ UNCHANGED <<entry, links>>

(* rm_tree unlinks file by file: a tree may be seen half removed. *)
RemovesTo(c) == {"part", "none"} \ {c}

Without(f, k) == [x \in DOMAIN f \ {k} |-> f[x]]
-----------------------------------------------------------------------------
(* artifact_repo_read_links: an artifact is referenced if a link names it; *)
(* a "<name>.tmp-link" left behind is a link like any other.               *)
LinkedTo(k) == k[2] \in {links[k[1]].to, links[k[1]].tmp}

(* r_artifact_repo_prepare: the artifacts found, a ".artifact-" entry whole *)
(* or not.                                                                 *)
Prepared == [k \in {x \in Keys : entry[x].path # "none"} |-> LinkedTo(k)]

Referenced(t, n) == {d \in Digests : <<n, d>> \in DOMAIN t /\ t[<<n, d>>]}

Unreferenced(t) == {k \in DOMAIN t : ~t[k]}
NamesOf(t) == {k[1] : k \in DOMAIN t}

(* The kernel writes everything out by itself, within some seconds. *)
Settled == /\ \A k \in Keys : entryKept[k] = {entry[k]} /\ entry[k].tmp # "dirty"
           /\ \A n \in Names : linksKept[n] = {links[n]}

Writeback ==
  /\ pc = "idle" /\ ~Settled
  /\ SyncFs
  /\ UNCHANGED <<open, pc, table, left, at, swap, bundle, plans, result>>

(* r_install_make_plans: prepares the repository, then prunes it. *)
MakePlans(b) ==
  /\ pc = "idle" /\ Settled
  /\ bundle' = b /\ plans' = DOMAIN b
  /\ table' = Prepared /\ left' = Unreferenced(Prepared)
  /\ pc' = "prune" /\ at' = None /\ result' = "none"
  /\ UNCHANGED <<disk, open, swap>>

Pruning == pc \in {"prune", "final"}

(* r_artifact_repo_prune: what is neither a link nor a ".artifact-" entry, *)
(* that is the ".tmp" of an interrupted installation, goes first.          *)
PruneUnexpected(k) ==
  /\ Pruning
  /\ entry[k].tmp # "none"
  /\ \E c \in RemovesTo(entry[k].tmp) : SetEntry(k, [entry[k] EXCEPT !.tmp = c])
  /\ UNCHANGED <<open, pc, table, left, at, swap, bundle, plans, result>>

(* Mutant: what is not an artifact is left in place. *)
UnexpectedStays == TRUE

NothingUnexpected == \A k \in Keys : entry[k].tmp = "none"

(* Then the artifacts that are not referenced, but for those with open files. *)
PruneSkips(k) ==
  /\ Pruning /\ NothingUnexpected
  /\ k \in left \cap open
  /\ left' = left \ {k}
  /\ UNCHANGED <<disk, open, pc, table, at, swap, bundle, plans, result>>

(* Mutant: open files are not looked for. *)
PruneStartsOpen(k) ==
  /\ Pruning /\ NothingUnexpected
  /\ k \in left
  /\ pc' = IF pc = "prune" THEN "remove" ELSE "finalremove"
  /\ at' = k
  /\ UNCHANGED <<disk, open, table, left, swap, bundle, plans, result>>

PruneStarts(k) ==
  /\ Pruning /\ NothingUnexpected
  /\ k \in left \ open
  /\ pc' = IF pc = "prune" THEN "remove" ELSE "finalremove"
  /\ at' = k
  /\ UNCHANGED <<disk, open, table, left, swap, bundle, plans, result>>

PruneRemoves ==
  /\ pc \in {"remove", "finalremove"}
  /\ \E c \in RemovesTo(entry[at].path) :
       /\ SetEntry(at, [entry[at] EXCEPT !.path = c])
       /\ IF c = "none"
          THEN /\ table' = Without(table, at)
               /\ left' = left \ {at}
               /\ pc' = IF pc = "remove" THEN "prune" ELSE "final"
               /\ at' = None
          ELSE UNCHANGED <<table, left, pc, at>>
  /\ UNCHANGED <<open, swap, bundle, plans, result>>

(* The first prune is followed by the plans, if the manifest has artifact  *)
(* images; the second ends the installation.                               *)
PruneEnds ==
  /\ Pruning /\ NothingUnexpected /\ left = {}
  /\ IF pc = "prune"
     THEN /\ pc' = IF plans = {} THEN "final" ELSE "plans"
          /\ left' = IF plans = {} THEN Unreferenced(table) ELSE {}
          /\ UNCHANGED <<table, result>>
     ELSE pc' = "idle" /\ result' = "ok" /\ table' = <<>> /\ UNCHANGED left
  /\ UNCHANGED <<disk, open, at, swap, bundle, plans>>
-----------------------------------------------------------------------------
(* handle_artifact_install_plan, for the image of name n: remove_old_      *)
(* artifacts drops every reference to a name the manifest does not have,   *)
(* and commits.                                                            *)
RemoveOld(n) ==
  /\ pc = "plans" /\ n \in plans
  /\ plans' = plans \ {n}
  /\ at' = <<n, bundle[n]>>
  /\ table' = [k \in DOMAIN table |-> table[k] /\ k[1] \in DOMAIN bundle]
  /\ left' = NamesOf(table)
  /\ pc' = "old"
  /\ UNCHANGED <<disk, open, swap, bundle, result>>

Committing == pc \in {"old", "commit"} /\ swap = None

(* r_artifact_repo_commit, one name: it asserts that what it knows of that *)
(* name is on the disk, and the link goes away, when nothing is referenced *)
(* any more.                                                               *)
CommitAsserts(n) ==
  \A d \in Digests : <<n, d>> \in DOMAIN table => entry[<<n, d>>].path # "none"

CommitUnlinks(n) ==
  /\ Committing /\ n \in left /\ CommitAsserts(n)
  /\ Referenced(table, n) = {}
  /\ SetLink(n, [links[n] EXCEPT !.to = None])
  /\ left' = left \ {n}
  /\ UNCHANGED <<open, pc, table, at, swap, bundle, plans, result>>

(* r_update_symlink leaves a right link alone; else it makes a temporary   *)
(* one, which fails (see Stop) when there is one already ...               *)
CommitLinks(n, d) ==
  /\ Committing /\ n \in left /\ CommitAsserts(n)
  /\ d \in Referenced(table, n)
  /\ IF links[n].to = d
     THEN left' = left \ {n} /\ UNCHANGED <<disk, swap>>
     ELSE /\ links[n].tmp = None
          /\ SetLink(n, [links[n] EXCEPT !.tmp = d])
          /\ swap' = n /\ UNCHANGED left
  /\ UNCHANGED <<open, pc, table, at, bundle, plans, result>>

(* ... and renames it over the link. *)
CommitSwaps ==
  /\ swap # None
  /\ SetLink(swap, [to |-> links[swap].tmp, tmp |-> None])
  /\ left' = left \ {swap} /\ swap' = None
  /\ UNCHANGED <<open, pc, table, at, bundle, plans, result>>

(* Mutant: the links are not written out before artifacts are removed. *)
CommitEndsUnsynced ==
  /\ Committing /\ left = {}
  /\ pc' = CASE pc = "old" -> "find"
             [] pc = "commit" /\ plans # {} -> "plans"
             [] OTHER -> "final"
  /\ left' = IF pc' = "final" THEN Unreferenced(table) ELSE {}
  /\ UNCHANGED <<disk, open, table, at, swap, bundle, plans, result>>

CommitEnds ==
  /\ Committing /\ left = {}
  /\ SyncFs
  /\ pc' = CASE pc = "old" -> "find"
             [] pc = "commit" /\ plans # {} -> "plans"
             [] OTHER -> "final"
  /\ left' = IF pc' = "final" THEN Unreferenced(table) ELSE {}
  /\ UNCHANGED <<open, table, at, swap, bundle, plans, result>>
-----------------------------------------------------------------------------
(* Mutant: the other digests of the name stay referenced. *)
ActivatedToo(t) == [k \in DOMAIN t |-> t[k] \/ k = at]

(* r_artifact_activate: this digest of the name, and no other one. *)
Activated(t) == [k \in DOMAIN t |-> IF k[1] = at[1] THEN k = at ELSE t[k]]

Activate ==
  /\ table' = Activated(table)
  /\ left' = NamesOf(table)
  /\ pc' = "commit"

(* An artifact the repository has already is used as it is. *)
Reuse ==
  /\ pc = "find" /\ at \in DOMAIN table
  /\ Activate
  /\ UNCHANGED <<disk, open, at, swap, bundle, plans, result>>

Insert ==
  /\ pc = "find" /\ at \notin DOMAIN table
  /\ table' = [k \in DOMAIN table \cup {at} |-> k # at /\ table[k]]
  /\ pc' = "write"
  /\ UNCHANGED <<disk, open, left, at, swap, bundle, plans, result>>

(* r_artifact_install: neither the artifact nor its ".tmp" may exist; the  *)
(* image is copied or unpacked to the ".tmp" ...                           *)
WriteBegins ==
  /\ pc = "write" /\ entry[at] = NoEntry
  /\ SetEntry(at, [path |-> "none", tmp |-> "part"])
  /\ pc' = "sync"
  /\ UNCHANGED <<open, table, left, at, swap, bundle, plans, result>>

WriteEnds ==
  /\ pc = "sync" /\ entry[at].tmp = "part"
  /\ SetEntry(at, [entry[at] EXCEPT !.tmp = "dirty"])
  /\ UNCHANGED <<open, pc, table, left, at, swap, bundle, plans, result>>

(* ... everything is written out, before the rename ... *)
InstallSyncs ==
  /\ pc = "sync" /\ entry[at].tmp = "dirty"
  /\ SyncFs
  /\ pc' = "rename"
  /\ UNCHANGED <<open, table, left, at, swap, bundle, plans, result>>

InstallRenames ==
  /\ pc = "rename"
  /\ SetEntry(at, [path |-> entry[at].tmp, tmp |-> "none"])
  /\ pc' = "fsync"
  /\ UNCHANGED <<open, table, left, at, swap, bundle, plans, result>>

(* ... and the directory, after it. *)
InstallEnds ==
  /\ pc = "fsync"
  /\ FsyncDir
  /\ Activate
  /\ UNCHANGED <<open, at, swap, bundle, plans, result>>

-----------------------------------------------------------------------------
Forget(r) ==
  /\ pc' = "idle" /\ result' = r
  /\ table' = <<>> /\ left' = {} /\ at' = None /\ swap' = None /\ plans' = {}
  /\ bundle' = IF r = "ok" THEN bundle ELSE <<>>

(* Any step may fail, and the service may be killed at any step; the next  *)
(* installation prepares the repository anew.                              *)
Stop ==
  /\ pc # "idle"
  /\ Forget("failed")
  /\ UNCHANGED <<disk, open>>

(* A rename that fails takes the temporary link away again. *)
SwapFails ==
  /\ swap # None
  /\ SetLink(swap, [links[swap] EXCEPT !.tmp = None])
  /\ Forget("failed")
  /\ UNCHANGED open

(* A power loss: every entry is left as one of the values it may have, and *)
(* what was only in the page cache may be incomplete.                      *)
Lost(c) == IF c = "dirty" THEN {"part", "whole"} ELSE {c}

LostEntries(k) ==
  UNION {{[path |-> p, tmp |-> t] : p \in Lost(e.path), t \in Lost(e.tmp)} : e \in entryKept[k]}

PowerLoss ==
  /\ \E f \in [Keys -> UNION {LostEntries(k) : k \in Keys}],
        g \in [Names -> UNION {linksKept[n] : n \in Names}] :
       /\ \A k \in Keys : f[k] \in LostEntries(k)
       /\ \A n \in Names : g[n] \in linksKept[n]
       /\ entry' = f /\ links' = g
  /\ entryKept' = [k \in Keys |-> {entry'[k]}]
  /\ linksKept' = [n \in Names |-> {links'[n]}]
  /\ open' = {}
  /\ Forget(IF pc = "idle" THEN result ELSE "failed")

(* Applications reach an artifact through its link. *)
AppOpens(k) ==
  /\ links[k[1]].to = k[2] /\ entry[k].path # "none"
  /\ open' = open \cup {k}
  /\ UNCHANGED <<disk, pc, table, left, at, swap, bundle, plans, result>>

AppCloses(k) ==
  /\ open' = open \ {k}
  /\ UNCHANGED <<disk, pc, table, left, at, swap, bundle, plans, result>>

Next ==
  \/ Writeback
  \/ \E b \in Manifests : MakePlans(b)
  \/ \E k \in Keys : PruneUnexpected(k) \/ PruneSkips(k) \/ PruneStarts(k)
  \/ PruneRemoves \/ PruneEnds
  \/ \E n \in Names : RemoveOld(n) \/ CommitUnlinks(n)
  \/ \E n \in Names, d \in Digests : CommitLinks(n, d)
  \/ CommitSwaps \/ CommitEnds
  \/ Reuse \/ Insert \/ WriteBegins \/ WriteEnds \/ InstallSyncs \/ InstallRenames
  \/ InstallEnds
  \/ Stop \/ SwapFails \/ PowerLoss
  \/ \E k \in Keys : AppOpens(k) \/ AppCloses(k)

Spec == Init /\ [][Next]_vars
-----------------------------------------------------------------------------
(* What applications reach through a link is a whole artifact, at every    *)
(* moment and after every power loss: an artifact is complete on the disk  *)
(* before its link, and its link is gone from the disk before it is        *)
(* removed (syncfs and fsync in r_artifact_install and _repo_commit).      *)
LinksWhole == \A n \in Names : links[n].to # None => entry[<<n, links[n].to>>].path = "whole"

(* An artifact with open files is not touched, whatever became of its link *)
(* (r_tree_check_open in r_artifact_repo_prune).                           *)
InUseStays == \A k \in open : entry[k].path = "whole"

(* Whatever earlier installations and power losses left behind, no         *)
(* assertion of r_artifact_install or r_artifact_repo_commit fails.        *)
AssertsHold ==
  /\ Committing => \A n \in left : CommitAsserts(n)
  /\ pc = "write" => entry[at] = NoEntry

(* After a successful installation, and for as long as no other one        *)
(* starts, power losses included, the links are those of the manifest, if  *)
(* it has any artifact image.                                              *)
InstalledIsBundle ==
  pc = "idle" /\ result = "ok" =>
    /\ \A n \in DOMAIN bundle : links[n].to = bundle[n]
    /\ DOMAIN bundle # {} => \A n \in Names \ DOMAIN bundle : links[n].to = None

(* artifacts.h says of r_artifact_repo_prune that it removes "inconsistent *)
(* data": after a successful installation no temporary link is left.       *)
NothingLeftBehind ==
  pc = "idle" /\ result = "ok" => \A n \in Names : links[n].tmp = None
=============================================================================
