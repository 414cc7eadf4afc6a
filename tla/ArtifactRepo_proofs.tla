------------------------- MODULE ArtifactRepo_proofs -------------------------
(***************************************************************************)
(* Proofs about ArtifactRepo: what a link leads to is whole, an artifact   *)
(* in use is not touched, no assertion of the repository's code fails, and *)
(* after a success the links are those of the bundle; for all names,       *)
(* digests and bundles.                                                    *)
(***************************************************************************)
EXTENDS ArtifactRepo, TLAPS

(* Whatever a power loss keeps of it, the artifact is whole. *)
AllWhole(k) == \A e \in entryKept[k] : e.path = "whole"

Removing == {"prune", "remove", "final", "finalremove"}
Installing == {"old", "find", "write", "sync", "rename", "fsync", "commit"}
Writing == {"write", "sync", "rename", "fsync"}

(* A temporary link that this installation did not make: it stays, and is  *)
(* in the way of any other link of the name.                               *)
Blocked(n) == links[n].tmp # None /\ swap # n

(* What is on the disk now is one of the values a power loss may keep. *)
Current ==
  /\ \A k \in Keys : entry[k] \in entryKept[k]
  /\ \A n \in Names : links[n] \in linksKept[n]

(* Any link that a power loss may keep leads to an artifact that is whole, *)
(* whatever the power loss keeps of that.                                  *)
KeptLinksWhole ==
  \A n \in Names, d \in Digests : \A l \in linksKept[n] : l.to = d => AllWhole(<<n, d>>)

OpenWhole == \A k \in open : AllWhole(k)

(* While artifacts are removed, no other link is left on the disk. *)
LinksSettled == pc \in Removing => \A n \in Names : linksKept[n] = {links[n]}

(* An artifact that a link leads to is not among those to be removed. *)
LinkedStays ==
  pc \in Removing =>
    /\ left \subseteq Unreferenced(table)
    /\ \A n \in Names, d \in Digests : links[n].to = d => <<n, d>> \in DOMAIN table /\ table[<<n, d>>]

RemovedUnused == pc \in {"remove", "finalremove"} => at \in left /\ at \notin open

(* The table knows what is on the disk, and the artifact being written. *)
TableIsDisk ==
  pc # "idle" => \A k \in Keys :
    IF pc \in Writing /\ k = at THEN k \in DOMAIN table
    ELSE k \in DOMAIN table <=> entry[k].path # "none"

(* Nothing temporary but the artifact being written. *)
TmpFree ==
  pc \in Installing \cup {"plans"} => \A k \in Keys :
    entry[k].tmp # "none" => pc \in {"sync", "rename"} /\ k = at

(* The steps of writing an artifact. *)
WrittenSoFar ==
  /\ pc = "write" => entry[at].path = "none"
  /\ pc = "rename" => entry[at].tmp = "whole"
  /\ pc = "fsync" => entry[at].path = "whole"

(* What the table knows is whole, but for artifacts to be removed, the one *)
(* being written, and those of a name that is blocked.                     *)
KnownWhole ==
  /\ pc \in {"prune", "remove"} =>
       \A k \in DOMAIN table : k \in left \/ AllWhole(k) \/ Blocked(k[1])
  /\ pc \in Installing \cup {"plans"} =>
       \A k \in DOMAIN table : (pc \in Writing /\ k = at) \/ AllWhole(k) \/ Blocked(k[1])

(* The installation is about one image of the bundle. *)
AtIsImage ==
  /\ plans \subseteq DOMAIN bundle
  /\ pc \in Installing =>
       /\ at \in Keys /\ at[1] \in DOMAIN bundle \ plans /\ at[2] = bundle[at[1]]
  /\ pc \in {"prune", "remove"} => plans = DOMAIN bundle

(* A commit looks at the names of the table, and swaps a link for one that *)
(* leads to an artifact that is referenced.                                *)
Swapping ==
  /\ pc \in {"old", "commit"} => left \subseteq NamesOf(table)
  /\ swap # None =>
       /\ pc \in {"old", "commit"} /\ swap \in left
       /\ links[swap].tmp \in Digests
       /\ <<swap, links[swap].tmp>> \in DOMAIN table /\ table[<<swap, links[swap].tmp>>]

(* The names a commit has done have the links that the table asks for. *)
Follows(n) ==
  IF Referenced(table, n) = {} THEN links[n].to = None
  ELSE links[n].to \in Referenced(table, n)
Committed == pc \in {"old", "commit"} => \A n \in NamesOf(table) \ left : Follows(n)

(* The images handled so far are all that is referenced of their names,    *)
(* and nothing is of the names the bundle does not have.                   *)
Handled ==
  /\ pc \in Installing =>
       /\ \A k \in DOMAIN table : table[k] => k[1] \in DOMAIN bundle
       /\ \A n \in DOMAIN bundle \ plans :
            (n = at[1] /\ pc # "commit") \/ Referenced(table, n) = {bundle[n]}
  /\ pc = "plans" =>
       \A n \in DOMAIN bundle \ plans : Referenced(table, n) = {bundle[n]}

(* At the end, and after it, the links are the bundle's. *)
LinksAreBundle ==
  /\ \A n \in DOMAIN bundle : links[n].to = bundle[n]
  /\ DOMAIN bundle # {} => \A n \in Names \ DOMAIN bundle : links[n].to = None
Delivered ==
  /\ result = "ok" => pc = "idle"
  /\ pc \in {"final", "finalremove"} \/ (pc = "idle" /\ result = "ok") =>
       LinksAreBundle /\ \A n \in Names : linksKept[n] = {links[n]}

IInv ==
  /\ Current /\ KeptLinksWhole /\ OpenWhole
  /\ LinksSettled /\ LinkedStays /\ RemovedUnused
  /\ TableIsDisk /\ TmpFree /\ WrittenSoFar /\ KnownWhole
  /\ AtIsImage /\ Swapping /\ Committed /\ Handled /\ Delivered
-----------------------------------------------------------------------------
(* Every step keeps the types. *)

LEMMA PowerLossType == TypeOK /\ PowerLoss => TypeOK'
<1> SUFFICES ASSUME TypeOK, PowerLoss PROVE TypeOK'
  OBVIOUS
<1>1. PICK f \in [Keys -> UNION {LostEntries(k) : k \in Keys}],
           g \in [Names -> UNION {linksKept[n] : n \in Names}] :
        /\ \A k \in Keys : f[k] \in LostEntries(k)
        /\ \A n \in Names : g[n] \in linksKept[n]
        /\ entry' = f /\ links' = g
  BY DEF PowerLoss
<1>2. ASSUME NEW k \in Keys PROVE f[k] \in [path : Content, tmp : Content]
  <2>1. PICK e \in entryKept[k] :
          \E p \in Lost(e.path), t \in Lost(e.tmp) : f[k] = [path |-> p, tmp |-> t]
    BY <1>1 DEF LostEntries
  <2>2. e \in [path : Content, tmp : Content]
    BY <2>1 DEF TypeOK
  <2> QED
    BY <2>1, <2>2 DEF Lost, Content
<1>3. entry' \in [Keys -> [path : Content, tmp : Content]]
  BY <1>1, <1>2
<1>4. ASSUME NEW n \in Names PROVE g[n] \in [to : Digests \cup {None}, tmp : Digests \cup {None}]
  BY <1>1 DEF TypeOK
<1>5. links' \in [Names -> [to : Digests \cup {None}, tmp : Digests \cup {None}]]
  BY <1>1, <1>4
<1>6. /\ entryKept' = [k \in Keys |-> {entry'[k]}]
      /\ linksKept' = [n \in Names |-> {links'[n]}]
      /\ open' = {} /\ Forget(IF pc = "idle" THEN result ELSE "failed")
  BY DEF PowerLoss
<1>7. /\ entryKept' \in [Keys -> SUBSET [path : Content, tmp : Content]]
      /\ linksKept' \in [Names -> SUBSET [to : Digests \cup {None}, tmp : Digests \cup {None}]]
  BY <1>3, <1>5, <1>6
<1> QED
  BY <1>3, <1>5, <1>6, <1>7 DEF TypeOK, Forget, Phases

LEMMA DiskTypes ==
  ASSUME TypeOK
  PROVE  /\ \A k \in Keys, e \in [path : Content, tmp : Content] : SetEntry(k, e) =>
              /\ entry' \in [Keys -> [path : Content, tmp : Content]]
              /\ entryKept' \in [Keys -> SUBSET [path : Content, tmp : Content]]
         /\ \A n \in Names, l \in [to : Digests \cup {None}, tmp : Digests \cup {None}] : SetLink(n, l) =>
              /\ links' \in [Names -> [to : Digests \cup {None}, tmp : Digests \cup {None}]]
              /\ linksKept' \in [Names -> SUBSET [to : Digests \cup {None}, tmp : Digests \cup {None}]]
         /\ SyncFs \/ FsyncDir =>
              /\ entry' \in [Keys -> [path : Content, tmp : Content]]
              /\ entryKept' \in [Keys -> SUBSET [path : Content, tmp : Content]]
              /\ links' = links
              /\ linksKept' \in [Names -> SUBSET [to : Digests \cup {None}, tmp : Digests \cup {None}]]
<1>1. ASSUME NEW k \in Keys, NEW e \in [path : Content, tmp : Content], SetEntry(k, e)
      PROVE  /\ entry' \in [Keys -> [path : Content, tmp : Content]]
             /\ entryKept' \in [Keys -> SUBSET [path : Content, tmp : Content]]
  BY <1>1 DEF TypeOK, SetEntry
<1>2. ASSUME NEW n \in Names, NEW l \in [to : Digests \cup {None}, tmp : Digests \cup {None}], SetLink(n, l)
      PROVE  /\ links' \in [Names -> [to : Digests \cup {None}, tmp : Digests \cup {None}]]
             /\ linksKept' \in [Names -> SUBSET [to : Digests \cup {None}, tmp : Digests \cup {None}]]
  BY <1>2 DEF TypeOK, SetLink
<1>3. ASSUME SyncFs
      PROVE  entry' \in [Keys -> [path : Content, tmp : Content]]
  BY <1>3 DEF TypeOK, SyncFs, OnDisk, Content
<1>4. ASSUME SyncFs \/ FsyncDir
      PROVE  /\ entry' \in [Keys -> [path : Content, tmp : Content]]
             /\ entryKept' \in [Keys -> SUBSET [path : Content, tmp : Content]]
             /\ links' = links
             /\ linksKept' \in [Names -> SUBSET [to : Digests \cup {None}, tmp : Digests \cup {None}]]
  BY <1>3, <1>4 DEF TypeOK, SyncFs, FsyncDir
<1> QED
  BY <1>1, <1>2, <1>4

(* The artifacts that are found, and those the bundle asks for. *)
LEMMA TableTypes ==
  ASSUME TypeOK
  PROVE  /\ DOMAIN Prepared \subseteq Keys /\ \A k \in DOMAIN Prepared : Prepared[k] \in BOOLEAN
         /\ Unreferenced(Prepared) \subseteq Keys /\ Unreferenced(table) \subseteq Keys
         /\ NamesOf(table) \subseteq Names
         /\ DOMAIN Activated(table) = DOMAIN table
         /\ \A k \in DOMAIN table : Activated(table)[k] \in BOOLEAN
<1>1. DOMAIN Prepared \subseteq Keys /\ \A k \in DOMAIN Prepared : Prepared[k] \in BOOLEAN
  <2>1. \A k \in Keys : LinkedTo(k) \in BOOLEAN
    BY DEF LinkedTo
  <2> QED
    BY <2>1 DEF Prepared
<1>2. Unreferenced(Prepared) \subseteq Keys /\ Unreferenced(table) \subseteq Keys
  BY <1>1 DEF Unreferenced, TypeOK
<1>3. NamesOf(table) \subseteq Names
  BY DEF NamesOf, TypeOK, Keys
<1>4. DOMAIN Activated(table) = DOMAIN table
  BY DEF Activated
<1>5. \A k \in DOMAIN table : Activated(table)[k] \in BOOLEAN
  BY DEF Activated, TypeOK
<1> QED
  BY <1>1, <1>2, <1>3, <1>4, <1>5

LEMMA NextType == TypeOK /\ IInv /\ [Next]_vars => TypeOK'
<1> SUFFICES ASSUME TypeOK, IInv, [Next]_vars PROVE TypeOK'
  OBVIOUS
<1> USE DiskTypes, TableTypes
<1>1. CASE Writeback
  BY <1>1 DEF Writeback, TypeOK
<1>2. ASSUME NEW b \in Manifests, MakePlans(b) PROVE TypeOK'
  <2>1. DOMAIN b \subseteq Names /\ \A n \in DOMAIN b : b[n] \in Digests
    BY ManifestsAssumption
  <2> QED
    BY <1>2, <2>1 DEF MakePlans, TypeOK, disk, Phases
<1>3. ASSUME NEW k \in Keys, PruneUnexpected(k) PROVE TypeOK'
  <2>1. PICK c \in RemovesTo(entry[k].tmp) : SetEntry(k, [entry[k] EXCEPT !.tmp = c])
    BY <1>3 DEF PruneUnexpected
  <2>2. [entry[k] EXCEPT !.tmp = c] \in [path : Content, tmp : Content]
    BY DEF RemovesTo, TypeOK, Content
  <2> QED
    BY <1>3, <2>1, <2>2 DEF PruneUnexpected, SetEntry, TypeOK
<1>4. ASSUME NEW k \in Keys, PruneSkips(k) \/ PruneStarts(k) PROVE TypeOK'
  BY <1>4 DEF PruneSkips, PruneStarts, TypeOK, disk, Phases
<1>5. CASE PruneRemoves
  <2>1. PICK c \in RemovesTo(entry[at].path) :
          /\ SetEntry(at, [entry[at] EXCEPT !.path = c])
          /\ IF c = "none"
             THEN /\ table' = Without(table, at) /\ left' = left \ {at}
                  /\ pc' = IF pc = "remove" THEN "prune" ELSE "final"
                  /\ at' = None
             ELSE UNCHANGED <<table, left, pc, at>>
    BY <1>5 DEF PruneRemoves
  <2>2. at \in Keys
    BY <1>5 DEF PruneRemoves, IInv, RemovedUnused, LinkedStays, Removing, Unreferenced, TypeOK
  <2>3. [entry[at] EXCEPT !.path = c] \in [path : Content, tmp : Content]
    BY <2>2 DEF RemovesTo, TypeOK, Content
  <2>4. /\ entry' \in [Keys -> [path : Content, tmp : Content]]
        /\ entryKept' \in [Keys -> SUBSET [path : Content, tmp : Content]]
        /\ links' = links /\ linksKept' = linksKept
    BY <2>1, <2>2, <2>3 DEF SetEntry
  <2>5. DOMAIN table' \subseteq Keys /\ \A k \in DOMAIN table' : table'[k] \in BOOLEAN
    BY <2>1 DEF TypeOK, Without
  <2> QED
    BY <1>5, <2>1, <2>4, <2>5 DEF PruneRemoves, TypeOK, Phases
<1>6. CASE PruneEnds
  <2>1. DOMAIN <<>> = {}
    OBVIOUS
  <2> QED
    BY <1>6, <2>1 DEF PruneEnds, TypeOK, disk, Phases
<1>7. ASSUME NEW n \in Names, RemoveOld(n) PROVE TypeOK'
  <2>1. <<n, bundle[n]>> \in Keys
    BY <1>7 DEF RemoveOld, IInv, AtIsImage, TypeOK, Keys
  <2>2. DOMAIN table' = DOMAIN table /\ \A k \in DOMAIN table : table'[k] \in BOOLEAN
    BY <1>7 DEF RemoveOld, TypeOK
  <2> QED
    BY <1>7, <2>1, <2>2 DEF RemoveOld, TypeOK, disk, Phases
<1>8. ASSUME NEW n \in Names, CommitUnlinks(n) PROVE TypeOK'
  <2>1. [links[n] EXCEPT !.to = None] \in [to : Digests \cup {None}, tmp : Digests \cup {None}]
    BY DEF TypeOK
  <2>2. SetLink(n, [links[n] EXCEPT !.to = None])
    BY <1>8 DEF CommitUnlinks
  <2> QED
    BY <1>8, <2>1, <2>2 DEF CommitUnlinks, SetLink, TypeOK
<1>9. ASSUME NEW n \in Names, NEW d \in Digests, CommitLinks(n, d) PROVE TypeOK'
  <2>1. CASE links[n].to = d
    BY <1>9, <2>1 DEF CommitLinks, TypeOK, disk
  <2>2. CASE links[n].to # d
    <3>1. [links[n] EXCEPT !.tmp = d] \in [to : Digests \cup {None}, tmp : Digests \cup {None}]
      BY DEF TypeOK
    <3>2. SetLink(n, [links[n] EXCEPT !.tmp = d])
      BY <1>9, <2>2 DEF CommitLinks
    <3> QED
      BY <1>9, <2>2, <3>1, <3>2 DEF CommitLinks, SetLink, TypeOK
  <2> QED
    BY <2>1, <2>2
<1>10. CASE CommitSwaps
  <2>1. swap \in Names /\ SetLink(swap, [to |-> links[swap].tmp, tmp |-> None])
    BY <1>10 DEF CommitSwaps, TypeOK
  <2>2. [to |-> links[swap].tmp, tmp |-> None] \in [to : Digests \cup {None}, tmp : Digests \cup {None}]
    BY <2>1 DEF TypeOK
  <2> QED
    BY <1>10, <2>1, <2>2 DEF CommitSwaps, SetLink, TypeOK
<1>11. CASE CommitEnds
  <2>1. pc' \in Phases /\ left' \subseteq Keys
    BY <1>11 DEF CommitEnds, Phases
  <2> QED
    BY <1>11, <2>1 DEF CommitEnds, TypeOK
<1>12. CASE Reuse
  BY <1>12 DEF Reuse, Activate, TypeOK, disk, Phases
<1>13. CASE Insert
  <2>1. at \in Keys
    BY <1>13 DEF Insert, IInv, AtIsImage, Installing
  <2>2. DOMAIN table' \subseteq Keys /\ \A k \in DOMAIN table' : table'[k] \in BOOLEAN
    BY <1>13, <2>1 DEF Insert, TypeOK
  <2> QED
    BY <1>13, <2>2 DEF Insert, TypeOK, disk, Phases
<1>14. ASSUME pc \in {"write", "sync", "rename"} PROVE at \in Keys
  BY <1>14 DEF IInv, AtIsImage, Installing
<1>15. CASE WriteBegins
  <2>1. at \in Keys /\ SetEntry(at, [path |-> "none", tmp |-> "part"])
    BY <1>14, <1>15 DEF WriteBegins
  <2>2. [path |-> "none", tmp |-> "part"] \in [path : Content, tmp : Content]
    BY DEF Content
  <2> QED
    BY <1>15, <2>1, <2>2 DEF WriteBegins, SetEntry, TypeOK, Phases
<1>16. CASE WriteEnds
  <2>1. at \in Keys /\ SetEntry(at, [entry[at] EXCEPT !.tmp = "dirty"])
    BY <1>14, <1>16 DEF WriteEnds
  <2>2. [entry[at] EXCEPT !.tmp = "dirty"] \in [path : Content, tmp : Content]
    BY <2>1 DEF Content, TypeOK
  <2> QED
    BY <1>16, <2>1, <2>2 DEF WriteEnds, SetEntry, TypeOK
<1>17. CASE InstallSyncs
  BY <1>17 DEF InstallSyncs, TypeOK, Phases
<1>18. CASE InstallRenames
  <2>1. at \in Keys /\ SetEntry(at, [path |-> entry[at].tmp, tmp |-> "none"])
    BY <1>14, <1>18 DEF InstallRenames
  <2>2. [path |-> entry[at].tmp, tmp |-> "none"] \in [path : Content, tmp : Content]
    BY <2>1 DEF Content, TypeOK
  <2> QED
    BY <1>18, <2>1, <2>2 DEF InstallRenames, SetEntry, TypeOK, Phases
<1>19. CASE InstallEnds
  <2>1. entry' = entry
    BY <1>19 DEF InstallEnds, FsyncDir
  <2> QED
    BY <1>19, <2>1 DEF InstallEnds, Activate, TypeOK, Phases
<1>20. CASE Stop
  BY <1>20 DEF Stop, Forget, TypeOK, disk, Phases
<1>21. CASE SwapFails
  <2>1. swap \in Names /\ SetLink(swap, [links[swap] EXCEPT !.tmp = None])
    BY <1>21 DEF SwapFails, TypeOK
  <2>2. [links[swap] EXCEPT !.tmp = None] \in [to : Digests \cup {None}, tmp : Digests \cup {None}]
    BY <2>1 DEF TypeOK
  <2> QED
    BY <1>21, <2>1, <2>2 DEF SwapFails, SetLink, Forget, TypeOK, Phases
<1>22. CASE PowerLoss
  BY <1>22, PowerLossType
<1>23. ASSUME NEW k \in Keys, AppOpens(k) \/ AppCloses(k) PROVE TypeOK'
  BY <1>23 DEF AppOpens, AppCloses, TypeOK, disk
<1>24. CASE UNCHANGED vars
  BY <1>24 DEF vars, TypeOK
<1> QED
  BY <1>1, <1>2, <1>3, <1>4, <1>5, <1>6, <1>7, <1>8, <1>9, <1>10, <1>11, <1>12, <1>13, <1>15,
     <1>16, <1>17, <1>18, <1>19, <1>20, <1>21, <1>22, <1>23, <1>24 DEF Next

-----------------------------------------------------------------------------
(* What the operations on the disk do to the artifacts that are whole,     *)
(* whatever a power loss keeps.                                            *)

LEMMA SetEntryWhole ==
  ASSUME TypeOK, NEW k \in Keys, NEW e \in [path : Content, tmp : Content], SetEntry(k, e)
  PROVE  \A j \in Keys : AllWhole(j)' <=> AllWhole(j) /\ (j = k => e.path = "whole")
BY DEF TypeOK, SetEntry, AllWhole

LEMMA SetLinkWhole ==
  ASSUME NEW n \in Names, NEW l, SetLink(n, l)
  PROVE  /\ UNCHANGED <<entry, entryKept>>
         /\ \A j \in Keys : AllWhole(j)' <=> AllWhole(j)
BY DEF SetLink, AllWhole

LEMMA SyncWhole ==
  ASSUME TypeOK, Current, SyncFs \/ FsyncDir
  PROVE  /\ \A j \in Keys : AllWhole(j) => AllWhole(j)'
         /\ \A j \in Keys : entry'[j].path = "whole" => AllWhole(j)'
         /\ \A j \in Keys : entryKept'[j] = {entry'[j]}
         /\ \A n \in Names : linksKept'[n] = {links[n]}
         /\ links' = links
<1>1. ASSUME NEW j \in Keys
      PROVE  /\ AllWhole(j) => AllWhole(j)'
             /\ entry'[j].path = "whole" => AllWhole(j)'
  BY DEF TypeOK, Current, SyncFs, FsyncDir, OnDisk, AllWhole
<1>2. /\ \A j \in Keys : entryKept'[j] = {entry'[j]}
      /\ \A n \in Names : linksKept'[n] = {links[n]}
      /\ links' = links
  BY DEF TypeOK, SyncFs, FsyncDir
<1> QED
  BY <1>1, <1>2

LEMMA PowerLossWhole ==
  ASSUME TypeOK, PowerLoss
  PROVE  /\ \A j \in Keys : AllWhole(j) => AllWhole(j)'
         /\ \A j \in Keys : entryKept'[j] = {entry'[j]}
         /\ \A n \in Names : linksKept'[n] = {links'[n]} /\ links'[n] \in linksKept[n]
<1>1. PICK f \in [Keys -> UNION {LostEntries(k) : k \in Keys}],
           g \in [Names -> UNION {linksKept[n] : n \in Names}] :
        /\ \A k \in Keys : f[k] \in LostEntries(k)
        /\ \A n \in Names : g[n] \in linksKept[n]
        /\ entry' = f /\ links' = g
  BY DEF PowerLoss
<1>2. /\ entryKept' = [k \in Keys |-> {entry'[k]}]
      /\ linksKept' = [n \in Names |-> {links'[n]}]
  BY DEF PowerLoss
<1>3. ASSUME NEW j \in Keys, AllWhole(j) PROVE AllWhole(j)'
  <2>1. PICK e \in entryKept[j] :
          \E p \in Lost(e.path), t \in Lost(e.tmp) : f[j] = [path |-> p, tmp |-> t]
    BY <1>1 DEF LostEntries
  <2>2. e.path = "whole"
    BY <1>3, <2>1 DEF AllWhole
  <2>3. f[j].path = "whole"
    BY <2>1, <2>2 DEF Lost
  <2> QED
    BY <1>1, <1>2, <2>3 DEF AllWhole
<1> QED
  BY <1>1, <1>2, <1>3

(* What a link leads to is whole now, too. *)
LEMMA LinkWhole ==
  ASSUME TypeOK, Current, KeptLinksWhole, NEW n \in Names, NEW d \in Digests, links[n].to = d
  PROVE  <<n, d>> \in Keys /\ AllWhole(<<n, d>>) /\ entry[<<n, d>>].path = "whole"
<1>1. <<n, d>> \in Keys
  BY DEF Keys
<1>2. AllWhole(<<n, d>>)
  BY DEF Current, KeptLinksWhole
<1> QED
  BY <1>1, <1>2 DEF Current, AllWhole

(* The operations that keep links and artifacts together. *)
LEMMA SyncLinks ==
  ASSUME TypeOK, TypeOK', Current, KeptLinksWhole, SyncFs \/ FsyncDir
  PROVE  Current' /\ KeptLinksWhole'
<1>1. Current'
  BY SyncWhole DEF Current
<1>2. ASSUME NEW n \in Names, NEW d \in Digests, NEW l \in linksKept'[n], l.to = d
      PROVE  AllWhole(<<n, d>>)'
  <2>1. l = links[n]
    BY SyncWhole
  <2> QED
    BY <1>2, <2>1, LinkWhole, SyncWhole
<1> QED
  BY <1>1, <1>2 DEF KeptLinksWhole

LEMMA SetEntryLinks ==
  ASSUME TypeOK, Current, KeptLinksWhole, NEW k \in Keys, NEW e \in [path : Content, tmp : Content],
         SetEntry(k, e),
         \/ e.path = "whole"
         \/ e.path = entry[k].path
         \/ \A n \in Names, d \in Digests : \A l \in linksKept[n] : l.to = d => <<n, d>> # k
  PROVE  Current' /\ KeptLinksWhole'
<1>1. Current'
  BY DEF TypeOK, SetEntry, Current
<1>2. linksKept' = linksKept
  BY DEF SetEntry
<1>3. ASSUME NEW n \in Names, NEW d \in Digests, NEW l \in linksKept[n], l.to = d
      PROVE  AllWhole(<<n, d>>)'
  <2>1. <<n, d>> \in Keys /\ AllWhole(<<n, d>>)
    BY <1>3 DEF KeptLinksWhole, Keys
  <2>2. entry[<<n, d>>].path = "whole"
    BY <2>1 DEF Current, AllWhole
  <2> QED
    BY <1>3, <2>1, <2>2, SetEntryWhole
<1> QED
  BY <1>1, <1>2, <1>3 DEF KeptLinksWhole

LEMMA SetLinkLinks ==
  ASSUME TypeOK, Current, KeptLinksWhole, NEW n \in Names, NEW l, SetLink(n, l),
         l.to \in Digests => AllWhole(<<n, l.to>>)
  PROVE  Current' /\ KeptLinksWhole'
<1>1. Current'
  BY DEF TypeOK, SetLink, Current
<1>2. \A m \in Names : linksKept'[m] \subseteq linksKept[m] \cup (IF m = n THEN {l} ELSE {})
  BY DEF TypeOK, SetLink
<1>3. ASSUME NEW m \in Names, NEW d \in Digests, NEW x \in linksKept'[m], x.to = d
      PROVE  AllWhole(<<m, d>>)'
  <2>1. <<m, d>> \in Keys
    BY DEF Keys
  <2>2. AllWhole(<<m, d>>)
    BY <1>2, <1>3 DEF KeptLinksWhole
  <2> QED
    BY <2>1, <2>2, SetLinkWhole
<1> QED
  BY <1>1, <1>3 DEF KeptLinksWhole

(* What activating an artifact refers to. *)
LEMMA ActivatedReferences ==
  ASSUME TypeOK, at \in Keys, at \in DOMAIN table
  PROVE  \A n \in Names : Referenced(Activated(table), n) =
                            IF n = at[1] THEN {at[2]} ELSE Referenced(table, n)
<1>1. at = <<at[1], at[2]>> /\ at[1] \in Names /\ at[2] \in Digests
  BY DEF Keys
<1>2. DOMAIN Activated(table) = DOMAIN table
  BY DEF Activated
<1>3. ASSUME NEW n \in Names, n = at[1]
      PROVE  Referenced(Activated(table), n) = {at[2]}
  <2>1. \A d \in Digests : <<n, d>> = at <=> d = at[2]
    BY <1>1, <1>3
  <2>2. ASSUME NEW k \in DOMAIN table, k[1] = at[1] PROVE Activated(table)[k] <=> k = at
    BY <2>2, Zenon DEF Activated
  <2>3. ASSUME NEW d \in Digests, <<n, d>> \in DOMAIN table
        PROVE  Activated(table)[<<n, d>>] <=> d = at[2]
    BY <1>3, <2>1, <2>2, <2>3
  <2>4. <<n, at[2]>> \in DOMAIN table
    BY <1>1, <1>3
  <2> QED
    BY <1>1, <1>2, <2>3, <2>4 DEF Referenced
<1>4. ASSUME NEW n \in Names, n # at[1]
      PROVE  Referenced(Activated(table), n) = Referenced(table, n)
  <2>1. \A d \in Digests : <<n, d>> \in DOMAIN table => Activated(table)[<<n, d>>] = table[<<n, d>>]
    BY <1>4 DEF Activated
  <2> QED
    BY <1>2, <2>1 DEF Referenced
<1> QED
  BY <1>3, <1>4

-----------------------------------------------------------------------------
(* The invariant is kept: by the kernel and by r_artifact_repo_prepare and *)
(* r_artifact_repo_prune, which remove what no link leads to, ...          *)

LEMMA WritebackKeeps ==
  ASSUME TypeOK, TypeOK', IInv, Writeback
  PROVE  IInv'
<1> USE DEF IInv
<1>a. SyncFs \/ FsyncDir
  BY DEF Writeback
<1>b. Current' /\ KeptLinksWhole'
  BY <1>a, SyncLinks
<1>c. /\ \A j \in Keys : AllWhole(j) => AllWhole(j)'
      /\ \A n \in Names : linksKept'[n] = {links[n]}
      /\ links' = links
  BY <1>a, SyncWhole
<1>1. OpenWhole'
  BY <1>c DEF Writeback, OpenWhole, TypeOK
<1>2. LinksSettled' /\ LinkedStays' /\ RemovedUnused' /\ TableIsDisk' /\ TmpFree' /\ WrittenSoFar'
  BY <1>c DEF Writeback, LinksSettled, Removing, LinkedStays, Unreferenced, RemovedUnused,
     TableIsDisk, Writing, TmpFree, Installing, WrittenSoFar, TypeOK
<1>3. KnownWhole'
  BY <1>c DEF Writeback, KnownWhole, Installing, Writing, Blocked, TypeOK
<1>4. AtIsImage' /\ Swapping' /\ Committed' /\ Handled' /\ Delivered'
  BY <1>c DEF Writeback, AtIsImage, Installing, Swapping, NamesOf, Committed, Follows, Referenced,
     Handled, Delivered, LinksAreBundle, TypeOK
<1> QED
  BY <1>b, <1>1, <1>2, <1>3, <1>4

LEMMA MakePlansKeeps ==
  ASSUME TypeOK, TypeOK', IInv, NEW b \in Manifests, MakePlans(b)
  PROVE  IInv'
<1> USE DEF IInv
<1>a. swap = None /\ None \notin Names \cup Digests
  BY NoneAssumption DEF MakePlans, Swapping
<1>b. \A k \in Keys : k[1] \in Names /\ k[2] \in Digests /\ k = <<k[1], k[2]>>
  BY DEF Keys
<1>c. \A n \in Names, d \in Digests : links[n].to = d =>
        <<n, d>> \in Keys /\ AllWhole(<<n, d>>) /\ entry[<<n, d>>].path = "whole"
  BY LinkWhole
<1>d. /\ DOMAIN Prepared = {k \in Keys : entry[k].path # "none"}
      /\ \A k \in DOMAIN Prepared : Prepared[k] <=> k[2] = links[k[1]].to \/ k[2] = links[k[1]].tmp
  BY DEF Prepared, LinkedTo
<1>1. Current' /\ KeptLinksWhole' /\ OpenWhole'
  BY DEF MakePlans, disk, Current, KeptLinksWhole, AllWhole, OpenWhole, TypeOK
<1>2. LinksSettled'
  BY DEF MakePlans, disk, LinksSettled, Removing, Settled, TypeOK
<1>3. LinkedStays'
  BY <1>b, <1>c, <1>d DEF MakePlans, disk, LinkedStays, Removing, Unreferenced, TypeOK
<1>4. RemovedUnused'
  BY DEF MakePlans, disk, RemovedUnused, TypeOK
<1>5. TableIsDisk'
  BY <1>d DEF MakePlans, disk, TableIsDisk, Writing, TypeOK
<1>6. TmpFree' /\ WrittenSoFar'
  BY DEF MakePlans, disk, TmpFree, Installing, WrittenSoFar, TypeOK
<1>7. KnownWhole'
  <2>1. ASSUME NEW k \in DOMAIN Prepared, k \notin Unreferenced(Prepared)
        PROVE  AllWhole(k) \/ Blocked(k[1])
    <3>1. Prepared[k] /\ k \in Keys
      BY <1>d, <2>1 DEF Unreferenced
    <3>2. CASE k[2] = links[k[1]].to
      BY <1>b, <1>c, <3>1, <3>2
    <3>3. CASE k[2] = links[k[1]].tmp
      BY <1>a, <1>b, <3>1, <3>3 DEF Blocked
    <3> QED
      BY <1>d, <3>1, <3>2, <3>3
  <2>2. /\ table' = Prepared /\ left' = Unreferenced(Prepared) /\ pc' = "prune"
        /\ UNCHANGED <<entry, entryKept, links, linksKept, swap>>
    BY DEF MakePlans, disk
  <2> QED
    BY <2>1, <2>2 DEF KnownWhole, AllWhole, Blocked, Installing
<1>8. AtIsImage' /\ Swapping' /\ Committed' /\ Handled' /\ Delivered'
  BY DEF MakePlans, disk, AtIsImage, Installing, Swapping, NamesOf, Committed, Follows,
     Referenced, Handled, Delivered, LinksAreBundle, TypeOK
<1> QED
  BY <1>1, <1>2, <1>3, <1>4, <1>5, <1>6, <1>7, <1>8

LEMMA PruneUnexpectedKeeps ==
  ASSUME TypeOK, TypeOK', IInv, NEW k \in Keys, PruneUnexpected(k)
  PROVE  IInv'
<1> USE DEF IInv
<1>a. PICK c \in RemovesTo(entry[k].tmp) : SetEntry(k, [entry[k] EXCEPT !.tmp = c])
  BY DEF PruneUnexpected
<1>b. DEFINE e == [entry[k] EXCEPT !.tmp = c]
<1>c. e \in [path : Content, tmp : Content] /\ e.path = entry[k].path
  <2>1. entry[k] \in [path : Content, tmp : Content]
    BY DEF TypeOK
  <2>2. c \in Content
    BY <2>1 DEF RemovesTo, Content
  <2> QED
    BY <2>1, <2>2
<1>d. SetEntry(k, e)
  BY <1>a
<1> HIDE DEF e
<1>e. Current' /\ KeptLinksWhole'
  BY <1>c, <1>d, SetEntryLinks
<1>f. \A j \in Keys : AllWhole(j) => AllWhole(j)'
  BY <1>c, <1>d, SetEntryWhole DEF AllWhole, Current
<1>g. UNCHANGED <<links, linksKept>> /\ entry' = [entry EXCEPT ![k] = e]
  BY <1>d DEF SetEntry
<1>1. OpenWhole'
  BY <1>f DEF PruneUnexpected, Pruning, OpenWhole, TypeOK
<1>2. LinksSettled' /\ LinkedStays' /\ RemovedUnused' /\ TableIsDisk' /\ TmpFree' /\ WrittenSoFar'
  BY <1>c, <1>f, <1>g DEF PruneUnexpected, Pruning, LinksSettled, Removing, LinkedStays,
     Unreferenced, RemovedUnused, TableIsDisk, Writing, TmpFree, Installing, WrittenSoFar, TypeOK
<1>3. KnownWhole'
  BY <1>f, <1>g DEF PruneUnexpected, Pruning, KnownWhole, Installing, Writing, Blocked, TypeOK
<1>4. AtIsImage' /\ Swapping' /\ Committed' /\ Handled' /\ Delivered'
  BY <1>c, <1>f, <1>g DEF PruneUnexpected, Pruning, AtIsImage, Installing, Swapping, NamesOf,
     Committed, Follows, Referenced, Handled, Delivered, LinksAreBundle, TypeOK
<1> QED
  BY <1>e, <1>1, <1>2, <1>3, <1>4

LEMMA PruneSkipsKeeps ==
  ASSUME TypeOK, TypeOK', IInv, NEW k \in Keys, PruneSkips(k)
  PROVE  IInv'
<1> USE DEF IInv
<1>1. Current' /\ KeptLinksWhole' /\ OpenWhole' /\ LinksSettled' /\ LinkedStays' /\ RemovedUnused'
  BY DEF PruneSkips, disk, Pruning, Current, KeptLinksWhole, AllWhole, OpenWhole, LinksSettled,
     Removing, LinkedStays, Unreferenced, RemovedUnused, TypeOK
<1>2. TableIsDisk' /\ TmpFree' /\ WrittenSoFar'
  BY DEF PruneSkips, disk, Pruning, TableIsDisk, Writing, TmpFree, Installing, WrittenSoFar,
     TypeOK
<1>3. KnownWhole'
  BY DEF PruneSkips, disk, Pruning, KnownWhole, Installing, Writing, Blocked, AllWhole, OpenWhole,
     TypeOK
<1>4. AtIsImage' /\ Swapping' /\ Committed' /\ Handled' /\ Delivered'
  BY DEF PruneSkips, disk, Pruning, AtIsImage, Installing, Swapping, NamesOf, Committed, Follows,
     Referenced, Handled, Delivered, LinksAreBundle, TypeOK
<1> QED
  BY <1>1, <1>2, <1>3, <1>4

LEMMA PruneStartsKeeps ==
  ASSUME TypeOK, TypeOK', IInv, NEW k \in Keys, PruneStarts(k)
  PROVE  IInv'
<1> USE DEF IInv
<1>1. Current' /\ KeptLinksWhole' /\ OpenWhole' /\ LinksSettled' /\ LinkedStays' /\ RemovedUnused'
  BY DEF PruneStarts, disk, Pruning, Current, KeptLinksWhole, AllWhole, OpenWhole, LinksSettled,
     Removing, LinkedStays, Unreferenced, RemovedUnused, TypeOK
<1>2. TableIsDisk' /\ TmpFree' /\ WrittenSoFar' /\ KnownWhole' /\ AtIsImage' /\ Swapping'
  BY DEF PruneStarts, disk, Pruning, TableIsDisk, Writing, TmpFree, Installing, WrittenSoFar,
     KnownWhole, Blocked, AllWhole, AtIsImage, Swapping, NamesOf, TypeOK
<1>3. Committed' /\ Handled' /\ Delivered'
  BY DEF PruneStarts, disk, Pruning, Committed, NamesOf, Follows, Referenced, Handled, Installing,
     Delivered, LinksAreBundle, TypeOK
<1> QED
  BY <1>1, <1>2, <1>3

LEMMA PruneRemovesKeeps ==
  ASSUME TypeOK, TypeOK', IInv, PruneRemoves
  PROVE  IInv'
<1> USE DEF IInv
<1>a. /\ pc \in {"remove", "finalremove"} /\ at \in left /\ at \notin open
      /\ left \subseteq Unreferenced(table) /\ at \in Keys /\ at \in DOMAIN table
  BY DEF PruneRemoves, RemovedUnused, LinkedStays, Removing, Unreferenced, TypeOK
<1>b. PICK c \in RemovesTo(entry[at].path) :
        /\ SetEntry(at, [entry[at] EXCEPT !.path = c])
        /\ IF c = "none"
           THEN /\ table' = Without(table, at) /\ left' = left \ {at}
                /\ pc' = IF pc = "remove" THEN "prune" ELSE "final"
                /\ at' = None
           ELSE UNCHANGED <<table, left, pc, at>>
  BY DEF PruneRemoves
<1>c. DEFINE e == [entry[at] EXCEPT !.path = c]
<1>d. e \in [path : Content, tmp : Content] /\ e.path = c /\ e.tmp = entry[at].tmp
  <2>1. entry[at] \in [path : Content, tmp : Content]
    BY <1>a DEF TypeOK
  <2>2. c \in Content
    BY <2>1 DEF RemovesTo, Content
  <2> QED
    BY <2>1, <2>2
<1>e. SetEntry(at, e)
  BY <1>b
<1> HIDE DEF e
<1>f. \A n \in Names, d \in Digests : \A l \in linksKept[n] : l.to = d => <<n, d>> # at
  BY <1>a DEF LinksSettled, LinkedStays, Removing, Unreferenced
<1>g. Current' /\ KeptLinksWhole'
  BY <1>a, <1>d, <1>e, <1>f, SetEntryLinks
<1>h. \A j \in Keys : j # at => (AllWhole(j) <=> AllWhole(j)')
  BY <1>a, <1>d, <1>e, SetEntryWhole
<1>i. /\ UNCHANGED <<links, linksKept>> /\ entry' = [entry EXCEPT ![at] = e]
      /\ UNCHANGED <<open, swap, bundle, plans, result>>
  BY <1>e DEF SetEntry, PruneRemoves
<1>j. c = "none" =>
        /\ DOMAIN table' = DOMAIN table \ {at} /\ \A k \in DOMAIN table' : table'[k] = table[k]
        /\ left' = left \ {at} /\ pc' = IF pc = "remove" THEN "prune" ELSE "final"
  BY <1>b DEF Without
<1>k. c # "none" => UNCHANGED <<table, left, pc, at>>
  BY <1>b
<1>1. OpenWhole'
  BY <1>a, <1>h, <1>i DEF PruneRemoves, OpenWhole, TypeOK
<1>2. LinksSettled' /\ LinkedStays' /\ RemovedUnused' /\ TableIsDisk' /\ TmpFree' /\ WrittenSoFar'
  BY <1>a, <1>d, <1>i, <1>j, <1>k DEF PruneRemoves, LinksSettled, Removing, LinkedStays,
     Unreferenced, RemovedUnused, TableIsDisk, Writing, TmpFree, Installing, WrittenSoFar, TypeOK
<1>3. KnownWhole'
  BY <1>a, <1>h, <1>i, <1>j, <1>k DEF PruneRemoves, KnownWhole, Installing, Writing, Blocked,
     TypeOK
<1>4. AtIsImage' /\ Swapping' /\ Committed' /\ Handled' /\ Delivered'
  BY <1>a, <1>d, <1>i, <1>j, <1>k DEF PruneRemoves, AtIsImage, Installing, Swapping, NamesOf,
     Committed, Follows, Referenced, Handled, Delivered, LinksAreBundle, TypeOK
<1> QED
  BY <1>g, <1>1, <1>2, <1>3, <1>4

LEMMA PruneEndsKeeps ==
  ASSUME TypeOK, TypeOK', IInv, PruneEnds
  PROVE  IInv'
<1> USE DEF IInv
<1>1. Current' /\ KeptLinksWhole' /\ OpenWhole' /\ LinksSettled' /\ LinkedStays' /\ RemovedUnused'
  BY DEF PruneEnds, disk, Pruning, Current, KeptLinksWhole, AllWhole, OpenWhole, LinksSettled,
     Removing, LinkedStays, Unreferenced, RemovedUnused, TypeOK
<1>2. TableIsDisk'
  BY DEF PruneEnds, disk, Pruning, TableIsDisk, Writing, TypeOK
<1>3. TmpFree'
  BY DEF PruneEnds, disk, Pruning, TmpFree, Installing, NothingUnexpected, TypeOK
<1>4. WrittenSoFar' /\ KnownWhole' /\ AtIsImage' /\ Swapping' /\ Committed'
  BY DEF PruneEnds, disk, Pruning, WrittenSoFar, KnownWhole, Installing, Writing, Blocked,
     AllWhole, AtIsImage, Swapping, NamesOf, Committed, Follows, Referenced, TypeOK
<1>5. Handled'
  BY DEF PruneEnds, disk, Pruning, Handled, Installing, Referenced, AtIsImage, TypeOK
<1>6. Delivered'
  BY DEF PruneEnds, disk, Pruning, Delivered, LinksAreBundle, AtIsImage, LinksSettled, Removing,
     TypeOK
<1> QED
  BY <1>1, <1>2, <1>3, <1>4, <1>5, <1>6

-----------------------------------------------------------------------------
(* ... by remove_old_artifacts and r_artifact_repo_commit, which makes the *)
(* links follow the table, ...                                             *)

LEMMA RemoveOldKeeps ==
  ASSUME TypeOK, TypeOK', IInv, NEW n \in Names, RemoveOld(n)
  PROVE  IInv'
<1> USE DEF IInv
<1>1. Current' /\ KeptLinksWhole' /\ OpenWhole' /\ LinksSettled' /\ LinkedStays' /\ RemovedUnused'
  BY DEF RemoveOld, disk, Current, KeptLinksWhole, AllWhole, OpenWhole, LinksSettled, Removing,
     LinkedStays, Unreferenced, RemovedUnused, TypeOK
<1>2. TableIsDisk' /\ TmpFree' /\ WrittenSoFar' /\ KnownWhole'
  BY DEF RemoveOld, disk, TableIsDisk, Writing, TmpFree, Installing, WrittenSoFar, KnownWhole,
     Blocked, AllWhole, TypeOK
<1>3. AtIsImage'
  BY DEF RemoveOld, disk, AtIsImage, Installing, Keys, TypeOK
<1>4. Swapping' /\ Committed' /\ Handled' /\ Delivered'
  BY DEF RemoveOld, disk, Swapping, NamesOf, Committed, Follows, Referenced, Handled, Installing,
     Delivered, LinksAreBundle, TypeOK
<1> QED
  BY <1>1, <1>2, <1>3, <1>4

LEMMA CommitUnlinksKeeps ==
  ASSUME TypeOK, TypeOK', IInv, NEW n \in Names, CommitUnlinks(n)
  PROVE  IInv'
<1> USE DEF IInv
<1>a. DEFINE l == [links[n] EXCEPT !.to = None]
<1>b. SetLink(n, l) /\ l.to = None /\ l.tmp = links[n].tmp
  BY DEF CommitUnlinks, TypeOK
<1> HIDE DEF l
<1>c. /\ \A j \in Keys : AllWhole(j)' <=> AllWhole(j)
      /\ UNCHANGED <<entry, entryKept>>
  BY <1>b, SetLinkWhole
<1>d. Current' /\ KeptLinksWhole'
  BY <1>b, SetLinkLinks, NoneAssumption
<1>e. links' = [links EXCEPT ![n] = l]
  BY <1>b DEF SetLink
<1>1. OpenWhole'
  BY <1>c DEF CommitUnlinks, Committing, OpenWhole, TypeOK
<1>2. LinksSettled' /\ LinkedStays' /\ RemovedUnused' /\ TableIsDisk' /\ TmpFree' /\ WrittenSoFar'
  BY <1>b, <1>c, <1>e DEF CommitUnlinks, Committing, LinksSettled, Removing, LinkedStays,
     Unreferenced, RemovedUnused, TableIsDisk, Writing, TmpFree, Installing, WrittenSoFar, TypeOK
<1>3. KnownWhole'
  BY <1>b, <1>c, <1>e DEF CommitUnlinks, Committing, KnownWhole, Installing, Writing, Blocked,
     TypeOK
<1>4. AtIsImage' /\ Swapping'
  BY <1>b, <1>c, <1>e DEF CommitUnlinks, Committing, AtIsImage, Installing, Swapping, NamesOf,
     TypeOK
<1>5. Committed'
  <2>1. /\ left' = left \ {n} /\ UNCHANGED <<pc, table>>
        /\ \A m \in Names : links'[m] = IF m = n THEN l ELSE links[m]
    BY <1>e DEF CommitUnlinks, TypeOK
  <2>2. Follows(n)'
    BY <1>b, <2>1 DEF CommitUnlinks, Follows
  <2>3. ASSUME NEW m \in NamesOf(table), m # n, Follows(m) PROVE Follows(m)'
    BY <2>1, <2>3, TableTypes DEF Follows
  <2> QED
    BY <2>1, <2>2, <2>3 DEF Committed
<1>6. Handled' /\ Delivered'
  BY <1>b, <1>c, <1>e DEF CommitUnlinks, Committing, Handled, Installing, Referenced, Delivered,
     LinksAreBundle, TypeOK
<1> QED
  BY <1>d, <1>1, <1>2, <1>3, <1>4, <1>5, <1>6

LEMMA CommitLinksAlreadyKeeps ==
  ASSUME TypeOK, TypeOK', IInv, NEW n \in Names, NEW d \in Digests, links[n].to = d, CommitLinks(n, d)
  PROVE  IInv'
<1> USE DEF IInv
<1>a. /\ pc \in {"old", "commit"} /\ swap = None /\ left' = left \ {n} /\ d \in Referenced(table, n)
      /\ UNCHANGED <<entry, links, entryKept, linksKept, swap, open, pc, table, at, bundle, plans, result>>
  BY DEF CommitLinks, Committing, disk
<1>1. Current' /\ KeptLinksWhole' /\ OpenWhole' /\ LinksSettled' /\ LinkedStays' /\ RemovedUnused'
  BY <1>a DEF CommitLinks, Committing, Current, KeptLinksWhole, AllWhole, OpenWhole, LinksSettled,
     Removing, LinkedStays, Unreferenced, RemovedUnused, TypeOK
<1>2. TableIsDisk' /\ TmpFree' /\ WrittenSoFar' /\ KnownWhole' /\ AtIsImage' /\ Swapping'
  BY <1>a DEF CommitLinks, Committing, TableIsDisk, Writing, TmpFree, Installing, WrittenSoFar,
     KnownWhole, Blocked, AllWhole, AtIsImage, Swapping, NamesOf, TypeOK
<1>3. Committed'
  <2>1. Follows(n)
    BY <1>a DEF Follows
  <2> QED
    BY <1>a, <2>1 DEF Committed, Follows
<1>4. Handled' /\ Delivered'
  BY <1>a DEF CommitLinks, Committing, Handled, Installing, Referenced, Delivered, LinksAreBundle,
     TypeOK
<1> QED
  BY <1>1, <1>2, <1>3, <1>4

LEMMA CommitLinksTemporaryKeeps ==
  ASSUME TypeOK, TypeOK', IInv, NEW n \in Names, NEW d \in Digests, links[n].to # d, CommitLinks(n, d)
  PROVE  IInv'
<1> USE DEF IInv
<1>a. /\ pc \in {"old", "commit"} /\ swap = None /\ n \in left /\ links[n].tmp = None /\ swap' = n
      /\ <<n, d>> \in DOMAIN table /\ table[<<n, d>>] /\ n # None
      /\ UNCHANGED <<open, pc, table, left, at, bundle, plans, result>>
  BY NoneAssumption DEF CommitLinks, Committing, Referenced
<1>b. DEFINE l == [links[n] EXCEPT !.tmp = d]
<1>c. SetLink(n, l) /\ l.to = links[n].to /\ l.tmp = d
  BY DEF CommitLinks, TypeOK
<1> HIDE DEF l
<1>d. l.to \in Digests => AllWhole(<<n, l.to>>)
  BY <1>c, LinkWhole
<1>e. UNCHANGED <<entry, entryKept>> /\ \A j \in Keys : AllWhole(j)' <=> AllWhole(j)
  BY <1>c, SetLinkWhole
<1>f. Current' /\ KeptLinksWhole'
  BY <1>c, <1>d, SetLinkLinks
<1>g. \A m \in Names : links'[m] = IF m = n THEN l ELSE links[m]
  BY <1>c DEF SetLink, TypeOK
<1>1. OpenWhole'
  BY <1>a, <1>e DEF CommitLinks, Committing, OpenWhole, TypeOK
<1>2. LinksSettled' /\ LinkedStays' /\ RemovedUnused' /\ TableIsDisk' /\ TmpFree' /\ WrittenSoFar'
  BY <1>a, <1>c, <1>e, <1>g DEF CommitLinks, Committing, LinksSettled, Removing, LinkedStays,
     Unreferenced, RemovedUnused, TableIsDisk, Writing, TmpFree, Installing, WrittenSoFar, TypeOK
<1>3. KnownWhole'
  <2>1. ASSUME NEW k \in DOMAIN table PROVE k \in Keys /\ k[1] \in Names
    BY DEF TypeOK, Keys
  <2>2. ASSUME NEW k \in DOMAIN table, Blocked(k[1]) PROVE Blocked(k[1])'
    <3>1. k[1] \in Names /\ links[k[1]].tmp # None /\ k[1] # n
      BY <1>a, <2>1, <2>2 DEF Blocked
    <3>2. Blocked(k[1])' <=> links'[k[1]].tmp # None /\ swap' # k[1]
      BY DEF Blocked
    <3> QED
      BY <1>a, <1>g, <3>1, <3>2
  <2> QED
    BY <1>a, <1>e, <2>1, <2>2 DEF KnownWhole, Installing, Writing
<1>4. AtIsImage' /\ Swapping'
  BY <1>a, <1>c, <1>e, <1>g DEF CommitLinks, Committing, AtIsImage, Installing, Swapping, NamesOf,
     TypeOK
<1>5. Committed'
  <2>1. ASSUME NEW m \in NamesOf(table) \ left, Follows(m) PROVE Follows(m)'
    BY <1>a, <1>g, <2>1, TableTypes DEF Follows
  <2> QED
    BY <1>a, <2>1 DEF Committed
<1>6. Handled' /\ Delivered'
  BY <1>a, <1>c, <1>e, <1>g DEF CommitLinks, Committing, Handled, Installing, Referenced,
     Delivered, LinksAreBundle, TypeOK
<1> QED
  BY <1>f, <1>1, <1>2, <1>3, <1>4, <1>5, <1>6

LEMMA CommitSwapsKeeps ==
  ASSUME TypeOK, TypeOK', IInv, CommitSwaps
  PROVE  IInv'
<1> USE DEF IInv
<1>a. DEFINE l == [to |-> links[swap].tmp, tmp |-> None]
<1>b. SetLink(swap, l) /\ l.to = links[swap].tmp /\ l.tmp = None /\ swap \in Names
  BY DEF CommitSwaps, TypeOK
<1> HIDE DEF l
<1>c. pc \in {"old", "commit"} /\ swap \in left /\ links[swap].tmp \in Digests
      /\ <<swap, links[swap].tmp>> \in DOMAIN table /\ table[<<swap, links[swap].tmp>>]
  BY DEF CommitSwaps, Swapping
<1>d. AllWhole(<<swap, links[swap].tmp>>)
  BY <1>b, <1>c DEF KnownWhole, Blocked, Installing, Writing
<1>e. /\ \A j \in Keys : AllWhole(j)' <=> AllWhole(j)
      /\ UNCHANGED <<entry, entryKept>>
  BY <1>b, SetLinkWhole
<1>f. Current' /\ KeptLinksWhole'
  BY <1>b, <1>d, SetLinkLinks
<1>g. links' = [links EXCEPT ![swap] = l]
  BY <1>b DEF SetLink
<1>1. OpenWhole'
  BY <1>e DEF CommitSwaps, OpenWhole, TypeOK
<1>2. LinksSettled' /\ LinkedStays' /\ RemovedUnused' /\ TableIsDisk' /\ TmpFree' /\ WrittenSoFar'
  BY <1>b, <1>c, <1>e, <1>g DEF CommitSwaps, LinksSettled, Removing, LinkedStays, Unreferenced,
     RemovedUnused, TableIsDisk, Writing, TmpFree, Installing, WrittenSoFar, TypeOK
<1>3. KnownWhole'
  <2>1. UNCHANGED <<pc, table, at>> /\ \A m \in Names : links'[m] = IF m = swap THEN l ELSE links[m]
    BY <1>g DEF CommitSwaps, TypeOK
  <2>2. swap' = None
    BY DEF CommitSwaps
  <2>3. ASSUME NEW k \in DOMAIN table PROVE k \in Keys /\ k[1] \in Names /\ k[1] # None
    BY NoneAssumption DEF TypeOK, Keys
  <2>4. ASSUME NEW k \in DOMAIN table, Blocked(k[1]) PROVE Blocked(k[1])'
    <3>1. k[1] \in Names /\ k[1] # None /\ links[k[1]].tmp # None /\ swap # k[1]
      BY <2>3, <2>4 DEF Blocked
    <3>2. Blocked(k[1])' <=> links'[k[1]].tmp # None /\ swap' # k[1]
      BY DEF Blocked
    <3> QED
      BY <2>1, <2>2, <3>1, <3>2
  <2>5. pc \notin {"prune", "remove"}
    BY <1>c
  <2> QED
    BY <1>c, <1>e, <2>1, <2>3, <2>4, <2>5 DEF KnownWhole, Installing, Writing
<1>4. AtIsImage' /\ Swapping'
  BY <1>b, <1>c, <1>e, <1>g DEF CommitSwaps, AtIsImage, Installing, Swapping, NamesOf, TypeOK
<1>5. Committed'
  <2>1. /\ left' = left \ {swap} /\ UNCHANGED <<pc, table>>
        /\ \A m \in Names : links'[m] = IF m = swap THEN l ELSE links[m]
    BY <1>g DEF CommitSwaps, TypeOK
  <2>2. links[swap].tmp \in Referenced(table, swap)
    BY <1>c DEF Referenced
  <2>3. ASSUME NEW m \in NamesOf(table), m = swap PROVE Follows(m)'
    BY <1>b, <2>1, <2>2, <2>3 DEF Follows
  <2>4. ASSUME NEW m \in NamesOf(table), m # swap, Follows(m) PROVE Follows(m)'
    BY <2>1, <2>4, TableTypes DEF Follows
  <2> QED
    BY <2>1, <2>3, <2>4 DEF Committed
<1>6. Handled' /\ Delivered'
  BY <1>b, <1>c, <1>e, <1>g DEF CommitSwaps, Handled, Installing, Referenced, Delivered,
     LinksAreBundle, TypeOK
<1> QED
  BY <1>f, <1>1, <1>2, <1>3, <1>4, <1>5, <1>6

LEMMA CommitEndsKeeps ==
  ASSUME TypeOK, TypeOK', IInv, CommitEnds
  PROVE  IInv'
<1> USE DEF IInv
<1>a. SyncFs \/ FsyncDir
  BY DEF CommitEnds
<1>b. Current' /\ KeptLinksWhole'
  BY <1>a, SyncLinks
<1>c. /\ \A j \in Keys : AllWhole(j) => AllWhole(j)'
      /\ \A n \in Names : linksKept'[n] = {links[n]}
      /\ links' = links
  BY <1>a, SyncWhole
<1>d. \A k \in Keys :
        /\ entry'[k].path = "none" <=> entry[k].path = "none"
        /\ entry'[k].tmp = "none" <=> entry[k].tmp = "none"
        /\ entry[k].tmp = "dirty" => entry'[k].tmp = "whole"
  BY DEF CommitEnds, SyncFs, OnDisk, TypeOK
<1>e. \A n \in Names, d \in Digests : links[n].to = d =>
        /\ <<n, d>> \in DOMAIN table /\ n \in NamesOf(table)
        /\ Follows(n) => table[<<n, d>>] /\ d \in Referenced(table, n)
  <2> SUFFICES ASSUME NEW n \in Names, NEW d \in Digests, links[n].to = d
               PROVE  /\ <<n, d>> \in DOMAIN table /\ n \in NamesOf(table)
                      /\ Follows(n) => table[<<n, d>>] /\ d \in Referenced(table, n)
    OBVIOUS
  <2>1. <<n, d>> \in DOMAIN table
    BY LinkWhole DEF TableIsDisk, CommitEnds, Committing, Writing
  <2>2. n \in NamesOf(table)
    BY <2>1 DEF NamesOf
  <2>3. d # None
    BY NoneAssumption
  <2> QED
    BY <2>1, <2>2, <2>3 DEF Follows, Referenced
<1>f. \A n \in NamesOf(table) : Follows(n)
  BY DEF Committed, CommitEnds, Committing
<1>1. OpenWhole'
  BY <1>c DEF CommitEnds, Committing, OpenWhole, TypeOK
<1>2. LinksSettled'
  BY <1>c, <1>d DEF CommitEnds, Committing, LinksSettled, Removing, TypeOK
<1>3. LinkedStays'
  BY <1>c, <1>e, <1>f DEF CommitEnds, Committing, LinkedStays, Removing, Unreferenced, TypeOK
<1>4. RemovedUnused' /\ TableIsDisk' /\ TmpFree' /\ WrittenSoFar'
  BY <1>c, <1>d DEF CommitEnds, Committing, RemovedUnused, TableIsDisk, Writing, TmpFree,
     Installing, WrittenSoFar, TypeOK
<1>5. KnownWhole'
  BY <1>c DEF CommitEnds, Committing, KnownWhole, Installing, Writing, Blocked, TypeOK
<1>6. AtIsImage' /\ Swapping' /\ Committed' /\ Handled'
  BY <1>c, <1>d DEF CommitEnds, Committing, AtIsImage, Installing, Swapping, NamesOf, Committed,
     Follows, Referenced, Handled, TypeOK
<1>7. Delivered'
  <2> SUFFICES ASSUME pc' = "final"
               PROVE  LinksAreBundle' /\ \A n \in Names : linksKept'[n] = {links'[n]}
    BY DEF Delivered, CommitEnds, Committing
  <2>1. pc = "commit" /\ plans = {} /\ UNCHANGED <<bundle, links>>
    BY <1>c DEF CommitEnds, Committing
  <2>2. ASSUME NEW n \in DOMAIN bundle PROVE links[n].to = bundle[n]
    <3>1. Referenced(table, n) = {bundle[n]} /\ n \in Names
      BY <2>1 DEF Handled, Installing, TypeOK
    <3>2. <<n, bundle[n]>> \in DOMAIN table
      BY <3>1 DEF Referenced
    <3>3. n \in NamesOf(table)
      BY <3>2 DEF NamesOf
    <3> QED
      BY <1>f, <3>1, <3>3 DEF Follows
  <2>3. ASSUME NEW n \in Names \ DOMAIN bundle PROVE links[n].to = None
    <3>1. Referenced(table, n) = {}
      BY <2>1 DEF Handled, Installing, Referenced
    <3> QED
      BY <1>e, <1>f, <3>1 DEF TypeOK
  <2> QED
    BY <1>c, <2>1, <2>2, <2>3 DEF LinksAreBundle
<1> QED
  BY <1>b, <1>1, <1>2, <1>3, <1>4, <1>5, <1>6, <1>7

-----------------------------------------------------------------------------
(* ... by r_artifact_install and r_artifact_activate, which make the       *)
(* artifact whole before the table refers to it, ...                       *)

LEMMA ReuseKeeps ==
  ASSUME TypeOK, TypeOK', IInv, Reuse
  PROVE  IInv'
<1> USE DEF IInv
<1>a. pc = "find" /\ at \in DOMAIN table /\ at \in Keys /\ at[1] \in DOMAIN bundle \ plans /\ at[2] = bundle[at[1]]
  BY DEF Reuse, AtIsImage, Installing
<1>b. /\ table' = Activated(table) /\ pc' = "commit"
      /\ UNCHANGED <<at, bundle, plans>>
  BY DEF Reuse, Activate
<1>c. DOMAIN bundle \subseteq Names
  BY DEF TypeOK
<1>1. Current' /\ KeptLinksWhole' /\ OpenWhole' /\ LinksSettled' /\ LinkedStays' /\ RemovedUnused'
  BY DEF Reuse, disk, Activate, Activated, Current, KeptLinksWhole, AllWhole, OpenWhole,
     LinksSettled, Removing, LinkedStays, Unreferenced, RemovedUnused, TypeOK
<1>2. TableIsDisk' /\ TmpFree' /\ WrittenSoFar' /\ KnownWhole' /\ AtIsImage' /\ Swapping'
  BY DEF Reuse, disk, Activate, Activated, TableIsDisk, Writing, TmpFree, Installing,
     WrittenSoFar, KnownWhole, Blocked, AllWhole, AtIsImage, Swapping, NamesOf, TypeOK
<1>3. Committed'
  BY DEF Reuse, disk, Activate, Activated, Committed, NamesOf, Follows, Referenced, TypeOK
<1>4. Handled'
  <2>1. \A n \in DOMAIN bundle \ plans : Referenced(table', n) = {bundle[n]}
    BY <1>a, <1>b, <1>c, ActivatedReferences DEF Handled, Installing
  <2>2. \A k \in DOMAIN table' : table'[k] => k[1] \in DOMAIN bundle
    BY <1>a, <1>b DEF Activated, Handled, Installing
  <2> QED
    BY <1>b, <2>1, <2>2 DEF Handled, Referenced
<1>5. Delivered'
  BY DEF Reuse, disk, Activate, Activated, Delivered, LinksAreBundle, TypeOK
<1> QED
  BY <1>1, <1>2, <1>3, <1>4, <1>5

LEMMA InsertKeeps ==
  ASSUME TypeOK, TypeOK', IInv, Insert
  PROVE  IInv'
<1> USE DEF IInv
<1>1. Current' /\ KeptLinksWhole' /\ OpenWhole' /\ LinksSettled' /\ LinkedStays' /\ RemovedUnused'
  BY DEF Insert, disk, Current, KeptLinksWhole, AllWhole, OpenWhole, LinksSettled, Removing,
     LinkedStays, Unreferenced, RemovedUnused, TypeOK
<1>2. TableIsDisk' /\ TmpFree'
  BY DEF Insert, disk, TableIsDisk, Writing, TmpFree, Installing, TypeOK
<1>3. WrittenSoFar'
  BY DEF Insert, disk, WrittenSoFar, TableIsDisk, AtIsImage, Writing, Installing, TypeOK
<1>4. KnownWhole' /\ AtIsImage' /\ Swapping' /\ Committed' /\ Handled' /\ Delivered'
  BY DEF Insert, disk, KnownWhole, Installing, Writing, Blocked, AllWhole, AtIsImage, Swapping,
     NamesOf, Committed, Follows, Referenced, Handled, Delivered, LinksAreBundle, TypeOK
<1> QED
  BY <1>1, <1>2, <1>3, <1>4

LEMMA WriteBeginsKeeps ==
  ASSUME TypeOK, TypeOK', IInv, WriteBegins
  PROVE  IInv'
<1> USE DEF IInv
<1>a. /\ pc \in {"write"} /\ at \in Keys /\ at[1] \in DOMAIN bundle \ plans /\ at[2] = bundle[at[1]]
      /\ at \in DOMAIN table
      /\ UNCHANGED <<open, table, left, at, swap, bundle, plans, result>>
  BY DEF WriteBegins, AtIsImage, Installing, TableIsDisk, Writing
<1>b. DEFINE e == [path |-> "none", tmp |-> "part"]
<1>c. e \in [path : Content, tmp : Content] /\ SetEntry(at, e) /\ entry[at].path = "none" /\ e.path = entry[at].path
  BY <1>a DEF WriteBegins, TypeOK, Content, NoEntry
<1> HIDE DEF e
<1>d. Current' /\ KeptLinksWhole'
  BY <1>a, <1>c, SetEntryLinks
<1>e. \A j \in Keys : AllWhole(j) => AllWhole(j)'
  BY <1>a, <1>c, SetEntryWhole DEF AllWhole, Current
<1>f. /\ UNCHANGED <<links, linksKept>> /\ entry' = [entry EXCEPT ![at] = e]
  BY <1>c DEF SetEntry
<1>1. OpenWhole'
  BY <1>a, <1>e DEF WriteBegins, OpenWhole, TypeOK
<1>2. LinksSettled' /\ LinkedStays' /\ RemovedUnused' /\ TableIsDisk' /\ TmpFree' /\ WrittenSoFar'
  BY <1>a, <1>c, <1>e, <1>f DEF WriteBegins, LinksSettled, Removing, LinkedStays, Unreferenced,
     RemovedUnused, TableIsDisk, Writing, TmpFree, Installing, WrittenSoFar, TypeOK
<1>3. KnownWhole'
  BY <1>a, <1>e, <1>f DEF WriteBegins, KnownWhole, Installing, Writing, Blocked, TypeOK
<1>4. AtIsImage' /\ Swapping' /\ Committed' /\ Handled' /\ Delivered'
  BY <1>a, <1>c, <1>e, <1>f DEF WriteBegins, AtIsImage, Installing, Swapping, NamesOf, Committed,
     Follows, Referenced, Handled, Delivered, LinksAreBundle, TypeOK
<1> QED
  BY <1>d, <1>1, <1>2, <1>3, <1>4

LEMMA WriteEndsKeeps ==
  ASSUME TypeOK, TypeOK', IInv, WriteEnds
  PROVE  IInv'
<1> USE DEF IInv
<1>a. /\ pc \in {"sync"} /\ at \in Keys /\ at[1] \in DOMAIN bundle \ plans /\ at[2] = bundle[at[1]]
      /\ at \in DOMAIN table
      /\ UNCHANGED <<open, table, left, at, swap, bundle, plans, result>>
  BY DEF WriteEnds, AtIsImage, Installing, TableIsDisk, Writing
<1>b. DEFINE e == [entry[at] EXCEPT !.tmp = "dirty"]
<1>c. e \in [path : Content, tmp : Content] /\ SetEntry(at, e) /\ e.path = entry[at].path
  BY <1>a DEF WriteEnds, TypeOK, Content
<1> HIDE DEF e
<1>d. Current' /\ KeptLinksWhole'
  BY <1>a, <1>c, SetEntryLinks
<1>e. \A j \in Keys : AllWhole(j) => AllWhole(j)'
  BY <1>a, <1>c, SetEntryWhole DEF AllWhole, Current
<1>f. /\ UNCHANGED <<links, linksKept>> /\ entry' = [entry EXCEPT ![at] = e]
  BY <1>c DEF SetEntry
<1>1. OpenWhole'
  BY <1>a, <1>e DEF WriteEnds, OpenWhole, TypeOK
<1>2. LinksSettled' /\ LinkedStays' /\ RemovedUnused' /\ TableIsDisk' /\ TmpFree' /\ WrittenSoFar'
  BY <1>a, <1>c, <1>e, <1>f DEF WriteEnds, LinksSettled, Removing, LinkedStays, Unreferenced,
     RemovedUnused, TableIsDisk, Writing, TmpFree, Installing, WrittenSoFar, TypeOK
<1>3. KnownWhole'
  BY <1>a, <1>e, <1>f DEF WriteEnds, KnownWhole, Installing, Writing, Blocked, TypeOK
<1>4. AtIsImage' /\ Swapping' /\ Committed' /\ Handled' /\ Delivered'
  BY <1>a, <1>c, <1>e, <1>f DEF WriteEnds, AtIsImage, Installing, Swapping, NamesOf, Committed,
     Follows, Referenced, Handled, Delivered, LinksAreBundle, TypeOK
<1> QED
  BY <1>d, <1>1, <1>2, <1>3, <1>4

LEMMA InstallSyncsKeeps ==
  ASSUME TypeOK, TypeOK', IInv, InstallSyncs
  PROVE  IInv'
<1> USE DEF IInv
<1>a. SyncFs \/ FsyncDir
  BY DEF InstallSyncs
<1>b. Current' /\ KeptLinksWhole'
  BY <1>a, SyncLinks
<1>c. /\ \A j \in Keys : AllWhole(j) => AllWhole(j)'
      /\ \A n \in Names : linksKept'[n] = {links[n]}
      /\ links' = links
  BY <1>a, SyncWhole
<1>d. \A k \in Keys :
        /\ entry'[k].path = "none" <=> entry[k].path = "none"
        /\ entry'[k].tmp = "none" <=> entry[k].tmp = "none"
        /\ entry[k].tmp = "dirty" => entry'[k].tmp = "whole"
  BY DEF InstallSyncs, SyncFs, OnDisk, TypeOK
<1>1. OpenWhole'
  BY <1>c DEF InstallSyncs, OpenWhole, TypeOK
<1>2. LinksSettled' /\ LinkedStays' /\ RemovedUnused' /\ TableIsDisk' /\ TmpFree'
  BY <1>c, <1>d DEF InstallSyncs, LinksSettled, Removing, LinkedStays, Unreferenced,
     RemovedUnused, TableIsDisk, Writing, TmpFree, Installing, TypeOK
<1>3. WrittenSoFar'
  BY <1>d DEF InstallSyncs, WrittenSoFar, AtIsImage, Installing, TypeOK
<1>4. KnownWhole'
  BY <1>c DEF InstallSyncs, KnownWhole, Installing, Writing, Blocked, TypeOK
<1>5. AtIsImage' /\ Swapping' /\ Committed' /\ Handled' /\ Delivered'
  BY <1>c, <1>d DEF InstallSyncs, AtIsImage, Installing, Swapping, NamesOf, Committed, Follows,
     Referenced, Handled, Delivered, LinksAreBundle, TypeOK
<1> QED
  BY <1>b, <1>1, <1>2, <1>3, <1>4, <1>5

LEMMA InstallRenamesKeeps ==
  ASSUME TypeOK, TypeOK', IInv, InstallRenames
  PROVE  IInv'
<1> USE DEF IInv
<1>a. /\ pc \in {"rename"} /\ at \in Keys /\ at[1] \in DOMAIN bundle \ plans /\ at[2] = bundle[at[1]]
      /\ at \in DOMAIN table
      /\ UNCHANGED <<open, table, left, at, swap, bundle, plans, result>>
  BY DEF InstallRenames, AtIsImage, Installing, TableIsDisk, Writing
<1>b. DEFINE e == [path |-> entry[at].tmp, tmp |-> "none"]
<1>c. e \in [path : Content, tmp : Content] /\ SetEntry(at, e) /\ e.path = "whole" /\ e.tmp = "none"
  BY <1>a DEF InstallRenames, TypeOK, Content, WrittenSoFar
<1> HIDE DEF e
<1>d. Current' /\ KeptLinksWhole'
  BY <1>a, <1>c, SetEntryLinks
<1>e. \A j \in Keys : AllWhole(j) => AllWhole(j)'
  BY <1>a, <1>c, SetEntryWhole DEF AllWhole, Current
<1>f. /\ UNCHANGED <<links, linksKept>> /\ entry' = [entry EXCEPT ![at] = e]
  BY <1>c DEF SetEntry
<1>1. OpenWhole'
  BY <1>a, <1>e DEF InstallRenames, OpenWhole, TypeOK
<1>2. LinksSettled' /\ LinkedStays' /\ RemovedUnused' /\ TableIsDisk' /\ TmpFree' /\ WrittenSoFar'
  BY <1>a, <1>c, <1>e, <1>f DEF InstallRenames, LinksSettled, Removing, LinkedStays, Unreferenced,
     RemovedUnused, TableIsDisk, Writing, TmpFree, Installing, WrittenSoFar, TypeOK
<1>3. KnownWhole'
  BY <1>a, <1>e, <1>f DEF InstallRenames, KnownWhole, Installing, Writing, Blocked, TypeOK
<1>4. AtIsImage' /\ Swapping' /\ Committed' /\ Handled' /\ Delivered'
  BY <1>a, <1>c, <1>e, <1>f DEF InstallRenames, AtIsImage, Installing, Swapping, NamesOf,
     Committed, Follows, Referenced, Handled, Delivered, LinksAreBundle, TypeOK
<1> QED
  BY <1>d, <1>1, <1>2, <1>3, <1>4

LEMMA InstallEndsKeeps ==
  ASSUME TypeOK, TypeOK', IInv, InstallEnds
  PROVE  IInv'
<1> USE DEF IInv
<1>a. SyncFs \/ FsyncDir
  BY DEF InstallEnds
<1>b. Current' /\ KeptLinksWhole'
  BY <1>a, SyncLinks
<1>c. /\ \A j \in Keys : AllWhole(j) => AllWhole(j)'
      /\ \A n \in Names : linksKept'[n] = {links[n]}
      /\ links' = links
  BY <1>a, SyncWhole
<1>d. entry' = entry
  BY DEF InstallEnds, FsyncDir
<1>e. /\ pc = "fsync" /\ at \in Keys /\ at[1] \in DOMAIN bundle \ plans /\ at[2] = bundle[at[1]]
      /\ at \in DOMAIN table /\ entry[at].path = "whole"
  BY DEF InstallEnds, AtIsImage, Installing, TableIsDisk, Writing, WrittenSoFar
<1>f. \A k \in Keys : k = at => AllWhole(k)'
  BY <1>a, <1>d, <1>e, SyncWhole
<1>g. /\ table' = Activated(table) /\ left' = NamesOf(table) /\ pc' = "commit"
      /\ UNCHANGED <<open, at, swap, bundle, plans, result>>
  BY DEF InstallEnds, Activate
<1>h. /\ DOMAIN table' = DOMAIN table /\ NamesOf(table') = NamesOf(table)
      /\ \A k \in DOMAIN table : table'[k] => k = at \/ table[k]
  BY <1>g DEF Activated, NamesOf
<1>i. DOMAIN bundle \subseteq Names
  BY DEF TypeOK
<1>1. OpenWhole'
  BY <1>c DEF InstallEnds, OpenWhole, TypeOK
<1>2. LinksSettled' /\ LinkedStays' /\ RemovedUnused' /\ TableIsDisk' /\ TmpFree' /\ WrittenSoFar'
  BY <1>c, <1>d, <1>e, <1>g, <1>h DEF InstallEnds, LinksSettled, Removing, LinkedStays,
     Unreferenced, RemovedUnused, TableIsDisk, Writing, TmpFree, Installing, WrittenSoFar, TypeOK
<1>3. KnownWhole'
  BY <1>c, <1>e, <1>f, <1>g, <1>h DEF InstallEnds, KnownWhole, Installing, Writing, Blocked,
     TypeOK
<1>4. AtIsImage' /\ Swapping' /\ Committed'
  BY <1>c, <1>d, <1>e, <1>g, <1>h DEF InstallEnds, AtIsImage, Installing, Swapping, NamesOf,
     Committed, Follows, Referenced, TypeOK
<1>5. Handled'
  <2>1. \A n \in DOMAIN bundle \ plans : Referenced(table', n) = {bundle[n]}
    BY <1>e, <1>g, <1>i, ActivatedReferences DEF Handled, Installing
  <2>2. \A k \in DOMAIN table' : table'[k] => k[1] \in DOMAIN bundle
    BY <1>e, <1>h DEF Handled, Installing
  <2> QED
    BY <1>g, <2>1, <2>2 DEF Handled
<1>6. Delivered'
  BY <1>c, <1>d, <1>e, <1>g, <1>h DEF InstallEnds, Delivered, LinksAreBundle, TypeOK
<1> QED
  BY <1>b, <1>1, <1>2, <1>3, <1>4, <1>5, <1>6

-----------------------------------------------------------------------------
(* ... and by what interrupts an installation, and the applications.       *)

LEMMA StopKeeps ==
  ASSUME TypeOK, TypeOK', IInv, Stop
  PROVE  IInv'
<1> USE DEF IInv
<1>1. Current' /\ KeptLinksWhole' /\ OpenWhole' /\ LinksSettled' /\ LinkedStays' /\ RemovedUnused'
  BY DEF Stop, disk, Forget, Current, KeptLinksWhole, AllWhole, OpenWhole, LinksSettled, Removing,
     LinkedStays, Unreferenced, RemovedUnused, TypeOK
<1>2. TableIsDisk' /\ TmpFree' /\ WrittenSoFar' /\ KnownWhole' /\ AtIsImage' /\ Swapping'
  BY DEF Stop, disk, Forget, TableIsDisk, Writing, TmpFree, Installing, WrittenSoFar, KnownWhole,
     Blocked, AllWhole, AtIsImage, Swapping, NamesOf, TypeOK
<1>3. Committed' /\ Handled' /\ Delivered'
  BY DEF Stop, disk, Forget, Committed, NamesOf, Follows, Referenced, Handled, Installing,
     Delivered, LinksAreBundle, TypeOK
<1> QED
  BY <1>1, <1>2, <1>3

LEMMA SwapFailsKeeps ==
  ASSUME TypeOK, TypeOK', IInv, SwapFails
  PROVE  IInv'
<1> USE DEF IInv
<1>a. DEFINE l == [links[swap] EXCEPT !.tmp = None]
<1>b. SetLink(swap, l) /\ l.to = links[swap].to /\ l.tmp = None /\ swap \in Names
  BY DEF SwapFails, TypeOK
<1> HIDE DEF l
<1>c. l.to \in Digests => AllWhole(<<swap, l.to>>)
  BY <1>b, LinkWhole
<1>d. UNCHANGED <<entry, entryKept>> /\ \A j \in Keys : AllWhole(j)' <=> AllWhole(j)
  BY <1>b, SetLinkWhole
<1>e. Current' /\ KeptLinksWhole'
  BY <1>b, <1>c, SetLinkLinks
<1>1. OpenWhole'
  BY <1>d DEF SwapFails, Forget, OpenWhole, TypeOK
<1>2. LinksSettled' /\ LinkedStays' /\ RemovedUnused' /\ TableIsDisk' /\ TmpFree' /\ WrittenSoFar'
  BY <1>d DEF SwapFails, Forget, LinksSettled, Removing, LinkedStays, Unreferenced, RemovedUnused,
     TableIsDisk, Writing, TmpFree, Installing, WrittenSoFar, TypeOK
<1>3. KnownWhole' /\ AtIsImage' /\ Swapping' /\ Committed' /\ Handled' /\ Delivered'
  BY <1>d DEF SwapFails, Forget, KnownWhole, Installing, Writing, Blocked, AllWhole, AtIsImage,
     Swapping, NamesOf, Committed, Follows, Referenced, Handled, Delivered, LinksAreBundle, TypeOK
<1> QED
  BY <1>e, <1>1, <1>2, <1>3

LEMMA PowerLossKeeps ==
  ASSUME TypeOK, TypeOK', IInv, PowerLoss
  PROVE  IInv'
<1> USE DEF IInv
<1>a. /\ \A j \in Keys : AllWhole(j) => AllWhole(j)'
      /\ \A j \in Keys : entryKept'[j] = {entry'[j]}
      /\ \A n \in Names : linksKept'[n] = {links'[n]} /\ links'[n] \in linksKept[n]
  BY PowerLossWhole
<1>b. /\ open' = {} /\ pc' = "idle" /\ swap' = None /\ plans' = {}
      /\ result' = IF pc = "idle" THEN result ELSE "failed"
      /\ bundle' = IF result' = "ok" THEN bundle ELSE <<>>
  BY DEF PowerLoss, Forget
<1>c. "ok" # "failed"
  OBVIOUS
<1>1. Current'
  BY <1>a, <1>b DEF PowerLoss, Forget, Current, TypeOK
<1>2. KeptLinksWhole'
  BY <1>a DEF PowerLoss, Forget, KeptLinksWhole, Keys, TypeOK
<1>3. OpenWhole'
  BY <1>b DEF PowerLoss, Forget, OpenWhole, TypeOK
<1>4. LinksSettled' /\ LinkedStays' /\ RemovedUnused' /\ TableIsDisk' /\ TmpFree' /\ WrittenSoFar'
  BY <1>a, <1>b DEF PowerLoss, Forget, LinksSettled, Removing, LinkedStays, Unreferenced,
     RemovedUnused, TableIsDisk, Writing, TmpFree, Installing, WrittenSoFar, TypeOK
<1>5. KnownWhole' /\ AtIsImage' /\ Swapping' /\ Committed' /\ Handled' /\ Delivered'
  BY <1>a, <1>b DEF PowerLoss, Forget, KnownWhole, Installing, Writing, Blocked, AllWhole,
     AtIsImage, Swapping, NamesOf, Committed, Follows, Referenced, Handled, Delivered,
     LinksAreBundle, TypeOK
<1> QED
  BY <1>1, <1>2, <1>3, <1>4, <1>5

LEMMA AppOpensKeeps ==
  ASSUME TypeOK, TypeOK', IInv, NEW k \in Keys, AppOpens(k)
  PROVE  IInv'
<1> USE DEF IInv
<1>1. Current' /\ KeptLinksWhole'
  BY DEF AppOpens, disk, Current, KeptLinksWhole, AllWhole, TypeOK
<1>2. OpenWhole'
  BY LinkWhole DEF AppOpens, disk, OpenWhole, AllWhole, Keys, TypeOK
<1>3. LinksSettled' /\ LinkedStays'
  BY DEF AppOpens, disk, LinksSettled, Removing, LinkedStays, Unreferenced, TypeOK
<1>4. RemovedUnused'
  BY DEF AppOpens, disk, RemovedUnused, LinkedStays, Removing, Unreferenced, Keys, TypeOK
<1>5. TableIsDisk' /\ TmpFree' /\ WrittenSoFar' /\ KnownWhole' /\ AtIsImage' /\ Swapping'
  BY DEF AppOpens, disk, TableIsDisk, Writing, TmpFree, Installing, WrittenSoFar, KnownWhole,
     Blocked, AllWhole, AtIsImage, Swapping, NamesOf, TypeOK
<1>6. Committed'
  BY DEF AppOpens, disk, Committed, NamesOf, Follows, Referenced
<1>7. Handled' /\ Delivered'
  BY DEF AppOpens, disk, Handled, Installing, Referenced, Delivered, LinksAreBundle, TypeOK
<1> QED
  BY <1>1, <1>2, <1>3, <1>4, <1>5, <1>6, <1>7

LEMMA AppClosesKeeps ==
  ASSUME TypeOK, TypeOK', IInv, NEW k \in Keys, AppCloses(k)
  PROVE  IInv'
<1> USE DEF IInv
<1>1. Current' /\ KeptLinksWhole' /\ OpenWhole' /\ LinksSettled' /\ LinkedStays' /\ RemovedUnused'
  BY DEF AppCloses, disk, Current, KeptLinksWhole, AllWhole, OpenWhole, LinksSettled, Removing,
     LinkedStays, Unreferenced, RemovedUnused, TypeOK
<1>2. TableIsDisk' /\ TmpFree' /\ WrittenSoFar' /\ KnownWhole' /\ AtIsImage' /\ Swapping'
  BY DEF AppCloses, disk, TableIsDisk, Writing, TmpFree, Installing, WrittenSoFar, KnownWhole,
     Blocked, AllWhole, AtIsImage, Swapping, NamesOf, TypeOK
<1>3. Committed'
  BY DEF AppCloses, disk, Committed, NamesOf, Follows, Referenced
<1>4. Handled' /\ Delivered'
  BY DEF AppCloses, disk, Handled, Installing, Referenced, Delivered, LinksAreBundle, TypeOK
<1> QED
  BY <1>1, <1>2, <1>3, <1>4

-----------------------------------------------------------------------------
LEMMA InitHolds == Init => TypeOK /\ IInv
<1> SUFFICES ASSUME Init PROVE TypeOK /\ IInv
  OBVIOUS
<1>1. DOMAIN <<>> = {}
  OBVIOUS
<1>2. TypeOK
  BY <1>1 DEF Init, TypeOK, NoEntry, NoLink, Content, Phases
<1>3. Current /\ KeptLinksWhole /\ OpenWhole
  BY NoneAssumption DEF Init, Current, KeptLinksWhole, OpenWhole, NoLink
<1>4. LinksSettled /\ LinkedStays /\ RemovedUnused /\ TableIsDisk /\ TmpFree /\ WrittenSoFar /\ KnownWhole
  BY DEF Init, LinksSettled, LinkedStays, RemovedUnused, TableIsDisk, TmpFree, WrittenSoFar, KnownWhole,
         Removing, Installing
<1>5. AtIsImage /\ Swapping /\ Committed /\ Handled /\ Delivered
  BY <1>1 DEF Init, AtIsImage, Swapping, Committed, Handled, Delivered, Installing
<1> QED
  BY <1>2, <1>3, <1>4, <1>5 DEF IInv

LEMMA UnchangedKeeps == IInv /\ UNCHANGED vars => IInv'
<1> SUFFICES ASSUME IInv, UNCHANGED vars PROVE IInv'
  OBVIOUS
<1> USE DEF IInv
<1>1. Current' /\ KeptLinksWhole' /\ OpenWhole' /\ LinksSettled'
  BY DEF vars, Current, KeptLinksWhole, OpenWhole, LinksSettled, AllWhole
<1>2. LinkedStays' /\ RemovedUnused' /\ TableIsDisk' /\ TmpFree' /\ WrittenSoFar'
  BY DEF vars, LinkedStays, RemovedUnused, TableIsDisk, TmpFree, WrittenSoFar
<1>3. KnownWhole' /\ AtIsImage' /\ Swapping'
  BY DEF vars, KnownWhole, AllWhole, Blocked, AtIsImage, Swapping
<1>4. Committed' /\ Handled' /\ Delivered'
  BY DEF vars, Committed, Follows, Handled, Delivered, LinksAreBundle
<1> QED
  BY <1>1, <1>2, <1>3, <1>4

LEMMA NextHolds == TypeOK /\ IInv /\ [Next]_vars => TypeOK' /\ IInv'
<1> SUFFICES ASSUME TypeOK, IInv, [Next]_vars PROVE TypeOK' /\ IInv'
  OBVIOUS
<1>1. TypeOK'
  BY NextType
<1>2. CASE Writeback
  BY <1>1, <1>2, WritebackKeeps
<1>3. ASSUME NEW b \in Manifests, MakePlans(b) PROVE IInv'
  BY <1>1, <1>3, MakePlansKeeps
<1>4. ASSUME NEW k \in Keys, PruneUnexpected(k) \/ PruneSkips(k) \/ PruneStarts(k) PROVE IInv'
  BY <1>1, <1>4, PruneUnexpectedKeeps, PruneSkipsKeeps, PruneStartsKeeps
<1>5. CASE PruneRemoves \/ PruneEnds
  BY <1>1, <1>5, PruneRemovesKeeps, PruneEndsKeeps
<1>6. ASSUME NEW n \in Names, RemoveOld(n) \/ CommitUnlinks(n) PROVE IInv'
  BY <1>1, <1>6, RemoveOldKeeps, CommitUnlinksKeeps
<1>7. ASSUME NEW n \in Names, NEW d \in Digests, CommitLinks(n, d) PROVE IInv'
  BY <1>1, <1>7, CommitLinksAlreadyKeeps, CommitLinksTemporaryKeeps
<1>8. CASE CommitSwaps \/ CommitEnds
  BY <1>1, <1>8, CommitSwapsKeeps, CommitEndsKeeps
<1>9. CASE Reuse \/ Insert \/ WriteBegins \/ WriteEnds
  BY <1>1, <1>9, ReuseKeeps, InsertKeeps, WriteBeginsKeeps, WriteEndsKeeps
<1>10. CASE InstallSyncs \/ InstallRenames \/ InstallEnds
  BY <1>1, <1>10, InstallSyncsKeeps, InstallRenamesKeeps, InstallEndsKeeps
<1>11. CASE Stop \/ SwapFails \/ PowerLoss
  BY <1>1, <1>11, StopKeeps, SwapFailsKeeps, PowerLossKeeps
<1>12. ASSUME NEW k \in Keys, AppOpens(k) \/ AppCloses(k) PROVE IInv'
  BY <1>1, <1>12, AppOpensKeeps, AppClosesKeeps
<1>13. CASE UNCHANGED vars
  BY <1>1, <1>13, UnchangedKeeps
<1> QED
  BY <1>1, <1>2, <1>3, <1>4, <1>5, <1>6, <1>7, <1>8, <1>9, <1>10, <1>11, <1>12, <1>13 DEF Next

-----------------------------------------------------------------------------
(* The variables keep their types. *)
THEOREM ArtifactTypes == Spec => []TypeOK
BY InitHolds, NextHolds, PTL DEF Spec

(* The inductive invariant holds, whatever fails and whenever the power    *)
(* goes.                                                                   *)
THEOREM ArtifactInvariant == Spec => [](TypeOK /\ IInv)
BY InitHolds, NextHolds, PTL DEF Spec

(* What applications reach through a link is a whole artifact, for any     *)
(* names, digests and bundles (r_artifact_install, r_artifact_repo_commit, *)
(* r_artifact_repo_prune).                                                 *)
THEOREM LinksAreWhole == Spec => []LinksWhole
<1>1. TypeOK /\ IInv => LinksWhole
  <2> SUFFICES ASSUME TypeOK, IInv, NEW n \in Names, links[n].to # None
               PROVE  entry[<<n, links[n].to>>].path = "whole"
    BY DEF LinksWhole
  <2>1. links[n].to \in Digests
    BY DEF TypeOK
  <2> QED
    BY <2>1, LinkWhole DEF IInv
<1> QED
  BY <1>1, ArtifactInvariant, PTL

(* An artifact that an application has open stays whole, whatever becomes  *)
(* of its link (r_tree_check_open in r_artifact_repo_prune).               *)
THEOREM OpenArtifactsStay == Spec => []InUseStays
<1>1. TypeOK /\ IInv => InUseStays
  BY DEF TypeOK, IInv, InUseStays, OpenWhole, Current, AllWhole
<1> QED
  BY <1>1, ArtifactInvariant, PTL

(* No assertion of r_artifact_install or r_artifact_repo_commit fails,     *)
(* whatever earlier installations and power losses left behind.            *)
THEOREM NoAssertFails == Spec => []AssertsHold
<1>1. TypeOK /\ IInv => AssertsHold
  <2> SUFFICES ASSUME TypeOK, IInv PROVE AssertsHold
    OBVIOUS
  <2>1. ASSUME Committing, NEW n \in left PROVE CommitAsserts(n)
    BY <2>1 DEF IInv, TableIsDisk, TypeOK, Committing, CommitAsserts, Writing
  <2>2. ASSUME pc = "write" PROVE entry[at] = NoEntry
    <3>1. at \in Keys /\ entry[at].path = "none"
      BY <2>2 DEF IInv, AtIsImage, Installing, WrittenSoFar
    <3>2. entry[at].tmp = "none"
      BY <2>2, <3>1 DEF IInv, TmpFree, Installing
    <3> QED
      BY <3>1, <3>2 DEF NoEntry, TypeOK
  <2> QED
    BY <2>1, <2>2 DEF AssertsHold
<1> QED
  BY <1>1, ArtifactInvariant, PTL

(* After a success, and for as long as no other installation starts, the   *)
(* links are those of the bundle, power losses included                    *)
(* (handle_artifact_install_plan, remove_old_artifacts).                   *)
THEOREM InstalledLinks == Spec => []InstalledIsBundle
<1>1. IInv => InstalledIsBundle
  BY DEF IInv, Delivered, LinksAreBundle, InstalledIsBundle
<1> QED
  BY <1>1, ArtifactInvariant, PTL
=============================================================================
