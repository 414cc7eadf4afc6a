------------------------ MODULE SlotHandlers_proofs ------------------------
(***************************************************************************)
(* For any images, slot types and bounds: a copy that ends well has left   *)
(* the image on the device, on its own (AdaptiveCopy) and within an        *)
(* installation, and with a central status file a slot that is recorded    *)
(* as installed holds its image completely, after a loss of power too      *)
(* unless it is an image after which RAUC flushes nothing (Unflushed).     *)
(*                                                                         *)
(* The last needs the order of the handlers' steps: whatever prepares      *)
(* the slot comes before the image, only the image's own hooks write       *)
(* after it, whatever is mounted is unmounted afterwards, and unless the   *)
(* image is one of those named every write is followed by a step that      *)
(* flushes the device.                                                     *)
(*                                                                         *)
(* Whatever fails, the service does not end in an assertion about its      *)
(* progress or on an error that was not set, but in the two places the     *)
(* specification names (Answered).                                         *)
(*                                                                         *)
(* Of the copy the binary search and the order of the lookup table are     *)
(* not expanded: whatever place they lead to, r_hash_index_get_chunk       *)
(* compares the hash recorded there and the range before it reads the      *)
(* chunk.                                                                  *)
(***************************************************************************)
EXTENDS SlotHandlers, TLAPS

----------------------------------------------------------------------------
(* The copy.                                                                *)

CopyTypeOK ==
    /\ disk \in [Devices -> Seq(Chunks)]
    /\ job \in Jobs

\* The first n chunks of the image are on the device.
Holds(n) ==
    /\ n <= Len(job.source)
    /\ n <= Len(Content)
    /\ \A p \in 1..n : Content[p] = job.source[p]

CopyIInv ==
    /\ CopyTypeOK
    /\ job.phase # "none" => job.target \in Devices /\ job.seed # job.target
    /\ job.phase \in {"adaptive", "raw"} => Holds(job.next)
    /\ job.phase = "done" => Holds(Len(job.source))

\* A chunk that get_chunk returns has the hash asked for, if it is checked or if the data in the
\* range that may be used is what the index says.
LEMMA GetChunkHash ==
    ASSUME NEW idx, NEW hash, NEW c \in GetChunk(idx, hash),
           \/ idx.check
           \/ \A p \in DOMAIN idx.data :
                 idx.below < p /\ p <= idx.from /\ idx.hashes[p] = hash => idx.data[p] = hash
    PROVE  c = hash
<1>1. PICK p \in Hits(idx, hash) \cap DOMAIN idx.data :
          c = idx.data[p] /\ (idx.check => idx.data[p] = hash)
    BY DEF GetChunk
<1>2. idx.hashes[p] = hash /\ idx.below < p /\ p <= idx.from
    <2>1. p \in Hits(idx, hash)
        BY <1>1
    <2>2. Start(idx, hash) # 0
        BY <2>1 DEF Hits
    <2>3. PICK k \in Start(idx, hash)..idx.count :
              /\ p = Lookup(idx.hashes)[k]
              /\ idx.hashes[Lookup(idx.hashes)[k]] = hash
              /\ idx.below < Lookup(idx.hashes)[k]
              /\ Lookup(idx.hashes)[k] <= idx.from
        BY <2>1, <2>2 DEF Hits
    <2> QED BY <2>3
<1> QED BY <1>1, <1>2

\* Whatever source a chunk of the image is taken from, it is that chunk.
LEMMA ChunkForHash ==
    ASSUME CopyIInv, job.phase = "adaptive", NEW hash, NEW c \in ChunkFor(hash)
    PROVE  c = hash
<1>1. CASE hash = Zero
    BY <1>1 DEF ChunkFor
<1>2. CASE hash # Zero
    <2>1. PICK s \in DOMAIN Sources : c \in GetChunk(Sources[s], hash)
        BY <1>2 DEF ChunkFor
    <2>2. Sources[s] \in {Written, Former, Active, Image}
        BY <2>1 DEF Sources
    <2>3. CASE Sources[s] = Written
        <3>1. /\ Written.data = Content
              /\ Written.hashes = SubSeq(job.source, 1, Count(job.source, Content))
              /\ Written.from = job.next
              /\ Written.below = 0
            BY DEF Written, Index
        <3>2. /\ job.source \in Seq(Chunks)
              /\ Content \in Seq(Chunks)
              /\ job.next \in Nat
              /\ Holds(job.next)
            BY DEF CopyIInv, CopyTypeOK, Jobs, Content
        <3>3. job.next <= Count(job.source, Content) /\ Count(job.source, Content) \in Nat
              /\ Count(job.source, Content) <= Len(job.source)
            BY <3>2 DEF Holds, Count
        <3>4. ASSUME NEW p \in DOMAIN Content, 0 < p, p <= job.next, Written.hashes[p] = hash
              PROVE  Content[p] = hash
            <4>1. p \in 1..job.next
                BY <3>2, <3>4
            <4>2. Written.hashes[p] = job.source[p]
                BY <3>1, <3>2, <3>3, <4>1
            <4> QED BY <3>2, <3>4, <4>1, <4>2 DEF Holds
        <3> QED BY <2>1, <2>3, <3>1, <3>4, GetChunkHash
    <2>4. CASE Sources[s] = Former
        <3>1. Former.check
            BY DEF Former, Index
        <3> QED BY <2>1, <2>4, <3>1, GetChunkHash
    <2>5. CASE Sources[s] = Active
        <3>1. Active.check
            BY DEF Active, Index
        <3> QED BY <2>1, <2>5, <3>1, GetChunkHash
    <2>6. CASE Sources[s] = Image
        <3>1. Image.data = Image.hashes
            BY DEF Image, Index
        <3> QED BY <2>1, <2>6, <3>1, GetChunkHash
    <2> QED BY <2>2, <2>3, <2>4, <2>5, <2>6
<1> QED BY <1>1, <1>2

LEMMA CopyInitInv == CopyInit => CopyIInv
BY NoDeviceAssumption DEF CopyInit, CopyIInv, CopyTypeOK, Jobs, NoJob, Phases

\* One more chunk of the image on the device.
LEMMA PutHolds ==
    ASSUME CopyIInv, job.phase \in {"adaptive", "raw"}, Fits, job.next < Len(job.source),
           Put(job.source[job.next + 1]), job' = [job EXCEPT !.next = @ + 1]
    PROVE  CopyIInv'
<1> DEFINE n == job.next
<1>1. /\ job.source \in Seq(Chunks)
      /\ Content \in Seq(Chunks)
      /\ n \in Nat
      /\ job.target \in Devices
      /\ Holds(n)
      /\ disk \in [Devices -> Seq(Chunks)]
    BY DEF CopyIInv, CopyTypeOK, Jobs, Content
<1>2. /\ job' \in Jobs
      /\ job'.next = n + 1
      /\ job'.source = job.source
      /\ job'.target = job.target
      /\ job'.phase = job.phase
      /\ job'.seed = job.seed
    <2>1. job \in Jobs /\ job.next + 1 \in Nat /\ job' = [job EXCEPT !.next = job.next + 1]
        BY <1>1 DEF CopyIInv, CopyTypeOK
    <2> QED BY <2>1 DEF Jobs
<1>3. n + 1 \in 1..Len(Content) /\ n + 1 \in 1..Len(job.source)
    BY <1>1 DEF Fits
<1>4. disk' = [disk EXCEPT ![job.target] = [Content EXCEPT ![n + 1] = job.source[n + 1]]]
    BY DEF Put, Content
<1>5. job.source[n + 1] \in Chunks
    BY <1>1, <1>3
<1>6. [Content EXCEPT ![n + 1] = job.source[n + 1]] \in Seq(Chunks)
    BY <1>1, <1>3, <1>5
<1>7. disk' \in [Devices -> Seq(Chunks)] /\ Content' = [Content EXCEPT ![n + 1] = job.source[n + 1]]
    BY <1>1, <1>2, <1>4, <1>6 DEF Content
<1>8. Holds(job.next)'
    <2>1. Len(Content') = Len(Content) /\ Len(Content) \in Nat
        BY <1>1, <1>7
    <2>2. ASSUME NEW p \in 1..(n + 1)
          PROVE  Content'[p] = job.source[p]
        <3>1. CASE p = n + 1
            BY <1>1, <1>3, <1>7, <3>1
        <3>2. CASE p # n + 1
            <4>1. p \in 1..n
                BY <1>1, <3>2
            <4>2. p \in 1..Len(Content)
                BY <1>1, <1>3, <4>1
            <4> QED BY <1>1, <1>7, <3>2, <4>1, <4>2 DEF Holds
        <3> QED BY <3>1, <3>2
    <2> QED BY <1>1, <1>2, <1>3, <2>1, <2>2 DEF Holds
<1>9. job'.phase # "none" /\ job'.phase # "done" /\ job'.target \in Devices
      /\ job'.seed # job'.target
    BY <1>1, <1>2 DEF CopyIInv
<1> QED BY <1>2, <1>7, <1>8, <1>9 DEF CopyIInv, CopyTypeOK

LEMMA CopyNextInv == CopyIInv /\ [CopyNext]_<<disk, job>> => CopyIInv'
<1> SUFFICES ASSUME CopyIInv, [CopyNext]_<<disk, job>> PROVE CopyIInv'
    OBVIOUS
<1> USE NoDeviceAssumption
<1>1. ASSUME NEW target \in Devices, NEW seed \in Devices \cup {NoDevice}, NEW adaptive \in BOOLEAN,
             NEW source \in Seq(Chunks), NEW targetIndex \in Seq(Chunks),
             NEW seedIndex \in Seq(Chunks), seed # target,
             StartCopy(target, seed, source, adaptive, targetIndex, seedIndex)
      PROVE  CopyIInv'
    <2>1. Opened(targetIndex, disk[target]) \in Seq(Chunks)
        BY DEF Opened, CopyIInv, CopyTypeOK
    <2>2. (IF seed = NoDevice THEN <<>> ELSE Opened(seedIndex, disk[seed])) \in Seq(Chunks)
        BY DEF Opened, CopyIInv, CopyTypeOK
    <2>3. job' \in Jobs /\ job'.next = 0 /\ job'.target = target /\ job'.seed = seed
          /\ job'.phase \in {"adaptive", "raw"} /\ job'.source = source
        BY <1>1, <2>1, <2>2 DEF StartCopy, Jobs, Phases
    <2>4. disk' = disk /\ Content' = disk[target] /\ disk[target] \in Seq(Chunks)
        BY <1>1, <2>3 DEF StartCopy, Content, CopyIInv, CopyTypeOK
    <2>5. Holds(0)'
        BY <2>3, <2>4 DEF Holds
    <2> QED BY <1>1, <2>3, <2>4, <2>5 DEF CopyIInv, CopyTypeOK
<1>2. CASE AdaptiveChunk
    <2>1. PICK c \in ChunkFor(job.source[job.next + 1]) : Put(c)
        BY <1>2 DEF AdaptiveChunk
    <2>2. c = job.source[job.next + 1]
        BY <1>2, <2>1, ChunkForHash DEF AdaptiveChunk
    <2> QED BY <1>2, <2>1, <2>2, PutHolds DEF AdaptiveChunk
<1>3. CASE AdaptiveFails
    <2>1. job' \in Jobs /\ job'.next = 0 /\ job'.target = job.target /\ job'.seed = job.seed
          /\ job'.phase = "raw" /\ job'.source = job.source /\ disk' = disk
        BY <1>3 DEF AdaptiveFails, CopyIInv, CopyTypeOK, Jobs, Phases
    <2>2. Holds(0)'
        BY <1>3, <2>1 DEF Holds, Content, AdaptiveFails, CopyIInv, CopyTypeOK, Jobs
    <2> QED BY <1>3, <2>1, <2>2 DEF AdaptiveFails, CopyIInv, CopyTypeOK
<1>4. CASE RawChunk
    BY <1>4, PutHolds DEF RawChunk
<1>5. CASE Sync
    <2>1. job' \in Jobs /\ job'.target = job.target /\ job'.seed = job.seed
          /\ job'.phase = "done" /\ job'.source = job.source /\ disk' = disk
        BY <1>5 DEF Sync, CopyIInv, CopyTypeOK, Jobs, Phases
    <2>2. Holds(Len(job.source))'
        BY <1>5, <2>1 DEF Holds, Content, Sync, CopyIInv
    <2> QED BY <1>5, <2>1, <2>2 DEF Sync, CopyIInv, CopyTypeOK
<1>6. CASE CopyFails
    <2>1. job' \in Jobs /\ job'.target = job.target /\ job'.seed = job.seed
          /\ job'.phase = "failed" /\ disk' = disk
        BY <1>6 DEF CopyFails, CopyIInv, CopyTypeOK, Jobs, Phases
    <2> QED BY <1>6, <2>1 DEF CopyFails, CopyIInv, CopyTypeOK
<1>7. CASE SeedChanges
    <2>1. PICK p \in DOMAIN disk[job.seed], c \in Chunks :
              disk' = [disk EXCEPT ![job.seed] = [disk[job.seed] EXCEPT ![p] = c]]
        BY <1>7 DEF SeedChanges
    <2>2. job' = job /\ job.seed \in Devices /\ disk \in [Devices -> Seq(Chunks)]
        BY <1>7 DEF SeedChanges, CopyIInv, CopyTypeOK, Jobs
    <2>3. [disk[job.seed] EXCEPT ![p] = c] \in Seq(Chunks)
        BY <2>1, <2>2
    <2>4. disk' \in [Devices -> Seq(Chunks)]
        BY <2>1, <2>2, <2>3
    <2>5. job.phase # "none" => Content' = Content
        BY <2>1, <2>2 DEF Content, CopyIInv
    <2> QED BY <2>2, <2>4, <2>5 DEF CopyIInv, CopyTypeOK, Holds
<1>8. CASE Elsewhere
    BY <1>8 DEF Elsewhere, CopyIInv, CopyTypeOK
<1>9. CASE UNCHANGED <<disk, job>>
    BY <1>9 DEF CopyIInv, CopyTypeOK, Holds, Content
<1> QED BY <1>1, <1>2, <1>3, <1>4, <1>5, <1>6, <1>7, <1>8, <1>9 DEF CopyNext, CopyStep

LEMMA CopyInvImplies == CopyIInv => Copied
BY DEF CopyIInv, CopyTypeOK, Jobs, Copied, Holds, Fits, Content

\* Copied holds for every image, device and stored index: copy_block_hash_index_image_to_dev may
\* trust what it has just written and nothing else without comparing hashes.
THEOREM CopyIsWhole == CopySpec => []Copied
<1>1. CopySpec => []CopyIInv
    BY CopyInitInv, CopyNextInv, PTL DEF CopySpec
<1> QED BY <1>1, CopyInvImplies, PTL

----------------------------------------------------------------------------
(* The handlers and the status around it.                                   *)

\* Steps after which the device has everything, if the slot is not mounted then.
Flushing == {"umount", "copy", "stream", "format", "resize", "volume"}

\* Steps that leave writes behind.
Dirtying == {"pre", "post", "install", "extract", "unpack"}

\* The steps that bring the image, and those that come before one of them.
Bringing == {"copy", "stream", "extract", "unpack", "install"}
Before == {"pre", "format", "volume", "seed"}

\* Steps that the image does not ask for.
Barred == (IF "post" \in image.hooks THEN {} ELSE {"post"})
              \cup (IF image.kind = "hook" THEN {} ELSE {"install"})

Has(p, B) == \E i \in DOMAIN p : p[i] \in B
Unmounts(p) == \E i \in DOMAIN p : p[i] = "umount"

\* After each step of one kind comes one of another.
Followed(p, A, B) == \A i \in DOMAIN p : p[i] \in A => \E j \in DOMAIN p : i < j /\ p[j] \in B

\* What is mounted or unpacked is unmounted later on.
Closed(p) ==
    \A i \in DOMAIN p : p[i] \in {"mount", "unpack"} => \E j \in DOMAIN p : i < j /\ p[j] = "umount"

\* A seed is used at once, and then unmounted.
Seeded(p) ==
    \A i \in DOMAIN p : p[i] = "seed" =>
        i + 2 \in DOMAIN p /\ p[i + 1] = "unpack" /\ p[i + 2] = "unseed"

Steps == {"pre", "post", "install", "mount", "umount", "copy", "stream", "volume", "format",
          "resize", "seed", "unpack", "unseed", "extract"}
Programs == Seq(Steps)

Indexes == [of : {NoDigest} \cup {i.digest : i \in Images}, hashes : Seq(Chunks)]

PlanTypeOK ==
    /\ type \in Types
    /\ plans \in Seq(Images \cup {Artifact})
    /\ indexes \subseteq Indexes
    /\ memory \in Statuses \cup {None}
    /\ saved \in Statuses
    /\ prog \in Programs
    /\ pc \in {"checked", "handler", "failed"} => plans # <<>> /\ image \in Images /\ memory # None

\* What is being copied or unpacked is the plan's image, in the step that does it, and has
\* arrived on the slot as far as it has come.
JobFits ==
    job.phase # "none" =>
        /\ pc = "handler" /\ prog # <<>>
        /\ Head(prog) \in IF job.phase = "files" THEN {"unpack", "extract"} ELSE {"copy", "stream"}
        /\ job.source = image.chunks
        /\ job.target = Target
        /\ job.phase = "files" =>
               /\ job.next \in Nat
               /\ \A p \in 1..job.next : p \in DOMAIN Content /\ Content[p] = job.source[p]

\* What is left of the handler's steps fits what they have done so far.
Fitting ==
    pc = "handler" =>
        /\ Closed(prog) /\ Seeded(prog)
        /\ Target \in held \cup mounts => Unmounts(prog)
        /\ ~Unflushed(image) => /\ Followed(prog, Dirtying, Flushing)
                                /\ writes # "flushed" => Has(prog, Flushing)
        /\ Followed(prog, Before, Bringing)
        /\ Followed(prog, Barred, {})
        /\ Has(prog, Bringing) \/ Carries(image)

\* A status is true if it says "ok".
Right(s) ==
    s.state = "ok" =>
        /\ whole # None
        /\ whole.digest = s.digest
        /\ writes # "flushed" => Unflushed(whole)
        /\ writes # "lost" => Carries(whole)

\* The statuses are right, and not "ok" while the slot is written.
Recording ==
    /\ Right(saved)
    /\ memory # None => Right(memory)
    /\ pc \in {"handler", "failed"} =>
           saved.state # "ok" /\ memory # None /\ memory.state # "ok"
    /\ pc \in {"next", "checked"} => Target \notin held \cup mounts
    /\ job.phase = "done" => writes = "flushed"

CentralInv == central => Fitting /\ Recording

HandlersInv ==
    /\ CopyIInv
    /\ PlanTypeOK
    /\ JobFits
    /\ CentralInv

----------------------------------------------------------------------------
(* Programs. *)

LEMMA ProgramConcat ==
    ASSUME NEW p \in Programs, NEW q \in Programs
    PROVE  /\ p \o q \in Programs
           /\ Closed(p) /\ Closed(q) => Closed(p \o q)
           /\ Seeded(p) /\ Seeded(q) => Seeded(p \o q)
           /\ Seeded(p) => Closed(p \o <<"umount">>) /\ Seeded(p \o <<"umount">>)
<1> USE DEF Programs
<1>1. /\ p \o q \in Seq(Steps)
      /\ DOMAIN p = 1..Len(p) /\ DOMAIN q = 1..Len(q) /\ Len(p) \in Nat /\ Len(q) \in Nat
      /\ DOMAIN (p \o q) = 1..(Len(p) + Len(q))
      /\ \A i \in 1..(Len(p) + Len(q)) : (p \o q)[i] = IF i <= Len(p) THEN p[i] ELSE q[i - Len(p)]
    OBVIOUS
<1>2. \A i \in DOMAIN p : i \in DOMAIN (p \o q) /\ (p \o q)[i] = p[i]
    BY <1>1
<1>3. \A i \in DOMAIN q : i + Len(p) \in DOMAIN (p \o q) /\ (p \o q)[i + Len(p)] = q[i]
    BY <1>1
<1>4. ASSUME NEW i \in DOMAIN (p \o q)
      PROVE  \/ i \in DOMAIN p
             \/ \E k \in DOMAIN q : i = k + Len(p)
    <2>1. CASE i <= Len(p)
        BY <1>1, <2>1
    <2>2. CASE ~(i <= Len(p))
        <3>1. i - Len(p) \in DOMAIN q /\ i = (i - Len(p)) + Len(p)
            BY <1>1, <2>2
        <3> QED BY <3>1
    <2> QED BY <2>1, <2>2
<1>5. ASSUME Closed(p), Closed(q) PROVE Closed(p \o q)
    <2> SUFFICES ASSUME NEW i \in DOMAIN (p \o q), (p \o q)[i] \in {"mount", "unpack"}
                 PROVE  \E j \in DOMAIN (p \o q) : i < j /\ (p \o q)[j] = "umount"
        BY DEF Closed
    <2>1. CASE i \in DOMAIN p
        <3>1. PICK j \in DOMAIN p : i < j /\ p[j] = "umount"
            BY <1>2, <1>5, <2>1 DEF Closed
        <3> QED BY <1>2, <3>1
    <2>2. ASSUME NEW k \in DOMAIN q, i = k + Len(p)
          PROVE  \E j \in DOMAIN (p \o q) : i < j /\ (p \o q)[j] = "umount"
        <3>1. PICK j \in DOMAIN q : k < j /\ q[j] = "umount"
            BY <1>3, <1>5, <2>2 DEF Closed
        <3>2. i < j + Len(p)
            BY <1>1, <2>2, <3>1
        <3> QED BY <1>3, <3>1, <3>2
    <2> QED BY <1>4, <2>1, <2>2
<1>6. ASSUME Seeded(p), Seeded(q) PROVE Seeded(p \o q)
    <2> SUFFICES ASSUME NEW i \in DOMAIN (p \o q), (p \o q)[i] = "seed"
                 PROVE  /\ i + 2 \in DOMAIN (p \o q)
                        /\ (p \o q)[i + 1] = "unpack" /\ (p \o q)[i + 2] = "unseed"
        BY DEF Seeded
    <2>1. CASE i \in DOMAIN p
        <3>1. i + 1 \in DOMAIN p /\ i + 2 \in DOMAIN p /\ p[i + 1] = "unpack" /\ p[i + 2] = "unseed"
            BY <1>1, <1>2, <1>6, <2>1 DEF Seeded
        <3> QED BY <1>2, <3>1
    <2>2. ASSUME NEW k \in DOMAIN q, i = k + Len(p)
          PROVE  /\ i + 2 \in DOMAIN (p \o q)
                 /\ (p \o q)[i + 1] = "unpack" /\ (p \o q)[i + 2] = "unseed"
        <3>1. k + 1 \in DOMAIN q /\ k + 2 \in DOMAIN q /\ q[k + 1] = "unpack" /\ q[k + 2] = "unseed"
            BY <1>1, <1>3, <1>6, <2>2 DEF Seeded
        <3>2. i + 1 = (k + 1) + Len(p) /\ i + 2 = (k + 2) + Len(p)
            BY <1>1, <2>2
        <3> QED BY <1>3, <3>1, <3>2
    <2> QED BY <1>4, <2>1, <2>2
<1>7. ASSUME Seeded(p) PROVE Closed(p \o <<"umount">>) /\ Seeded(p \o <<"umount">>)
    <2> DEFINE u == p \o <<"umount">>
    <2>1. /\ DOMAIN u = 1..(Len(p) + 1)
          /\ u[Len(p) + 1] = "umount"
          /\ \A i \in DOMAIN p : u[i] = p[i]
        BY <1>1
    <2>2. ASSUME NEW i \in DOMAIN u, u[i] # "umount" PROVE i \in DOMAIN p /\ i < Len(p) + 1
        BY <1>1, <2>1, <2>2
    <2>3. Closed(u)
        <3> SUFFICES ASSUME NEW i \in DOMAIN u, u[i] \in {"mount", "unpack"}
                     PROVE  \E j \in DOMAIN u : i < j /\ u[j] = "umount"
            BY DEF Closed
        <3>1. Len(p) + 1 \in DOMAIN u
            BY <1>1, <2>1
        <3> QED BY <2>1, <2>2, <3>1
    <2>4. Seeded(u)
        <3> SUFFICES ASSUME NEW i \in DOMAIN u, u[i] = "seed"
                     PROVE  i + 2 \in DOMAIN u /\ u[i + 1] = "unpack" /\ u[i + 2] = "unseed"
            BY DEF Seeded
        <3>1. i \in DOMAIN p /\ p[i] = "seed"
            BY <2>1, <2>2
        <3>2. i + 1 \in DOMAIN p /\ i + 2 \in DOMAIN p /\ p[i + 1] = "unpack" /\ p[i + 2] = "unseed"
            BY <1>1, <1>7, <3>1 DEF Seeded
        <3> QED BY <1>1, <2>1, <3>2
    <2> QED BY <2>3, <2>4
<1> QED BY <1>1, <1>5, <1>6, <1>7

\* The rest of a program fits it: what its first step leaves open is still closed later.
LEMMA ProgramTail ==
    ASSUME NEW p \in Programs, p # <<>>, Closed(p), Seeded(p)
    PROVE  /\ Tail(p) \in Programs
           /\ Closed(Tail(p)) /\ Seeded(Tail(p))
           /\ Head(p) \in {"mount", "unpack"} => Unmounts(Tail(p))
           /\ Unmounts(p) => Head(p) = "umount" \/ Unmounts(Tail(p))
<1> USE DEF Programs
<1> DEFINE t == Tail(p)
<1>1. /\ t \in Seq(Steps)
      /\ Len(p) \in Nat /\ Len(p) >= 1
      /\ DOMAIN p = 1..Len(p) /\ DOMAIN t = 1..(Len(p) - 1)
      /\ Head(p) = p[1]
      /\ \A i \in 1..(Len(p) - 1) : t[i] = p[i + 1]
    OBVIOUS
<1> HIDE DEF t
<1>2. \A i \in DOMAIN t : i + 1 \in DOMAIN p /\ t[i] = p[i + 1] /\ i \in Nat
    BY <1>1
<1>3. ASSUME NEW i \in DOMAIN p, i # 1 PROVE i - 1 \in DOMAIN t /\ t[i - 1] = p[i]
    BY <1>1, <1>3
<1>4. Closed(t)
    <2> SUFFICES ASSUME NEW i \in DOMAIN t, t[i] \in {"mount", "unpack"}
                 PROVE  \E j \in DOMAIN t : i < j /\ t[j] = "umount"
        BY DEF Closed
    <2>1. PICK j \in DOMAIN p : i + 1 < j /\ p[j] = "umount"
        BY <1>2 DEF Closed
    <2>2. j - 1 \in DOMAIN t /\ t[j - 1] = "umount" /\ i < j - 1
        BY <1>1, <1>2, <1>3, <2>1
    <2> QED BY <2>2
<1>5. Seeded(t)
    <2> SUFFICES ASSUME NEW i \in DOMAIN t, t[i] = "seed"
                 PROVE  i + 2 \in DOMAIN t /\ t[i + 1] = "unpack" /\ t[i + 2] = "unseed"
        BY DEF Seeded
    <2>1. (i + 1) + 2 \in DOMAIN p /\ p[(i + 1) + 1] = "unpack" /\ p[(i + 1) + 2] = "unseed"
        BY <1>2 DEF Seeded
    <2>2. i \in Nat /\ (i + 1) + 2 <= Len(p)
        BY <1>1, <1>2, <2>1
    <2>3. i + 2 \in DOMAIN t /\ i + 1 \in DOMAIN t
        BY <1>1, <2>2
    <2> QED BY <1>1, <2>1, <2>2, <2>3
<1>6. ASSUME Head(p) \in {"mount", "unpack"} PROVE Unmounts(t)
    <2>1. PICK j \in DOMAIN p : 1 < j /\ p[j] = "umount"
        BY <1>1, <1>6 DEF Closed
    <2>2. j - 1 \in DOMAIN t /\ t[j - 1] = "umount"
        BY <1>1, <1>3, <2>1
    <2> QED BY <2>2 DEF Unmounts
<1>7. ASSUME Unmounts(p), Head(p) # "umount" PROVE Unmounts(t)
    <2>1. PICK i \in DOMAIN p : p[i] = "umount"
        BY <1>7 DEF Unmounts
    <2>2. i # 1
        BY <1>1, <1>7, <2>1
    <2> QED BY <1>3, <2>1, <2>2 DEF Unmounts
<1> QED BY <1>1, <1>4, <1>5, <1>6, <1>7 DEF t

LEMMA FollowedConcat ==
    ASSUME NEW p \in Programs, NEW q \in Programs, NEW A, NEW B
    PROVE  /\ Followed(q, A, B) /\ (Followed(p, A, B) \/ Has(q, B)) => Followed(p \o q, A, B)
           /\ Has(p, B) \/ Has(q, B) => Has(p \o q, B)
<1> USE DEF Programs
<1>1. /\ DOMAIN p = 1..Len(p) /\ DOMAIN q = 1..Len(q) /\ Len(p) \in Nat /\ Len(q) \in Nat
      /\ DOMAIN (p \o q) = 1..(Len(p) + Len(q))
      /\ \A i \in 1..(Len(p) + Len(q)) : (p \o q)[i] = IF i <= Len(p) THEN p[i] ELSE q[i - Len(p)]
    OBVIOUS
<1>2. \A i \in DOMAIN p : i \in DOMAIN (p \o q) /\ (p \o q)[i] = p[i] /\ i \in Nat /\ i <= Len(p)
    BY <1>1
<1>3. \A i \in DOMAIN q : /\ i + Len(p) \in DOMAIN (p \o q) /\ (p \o q)[i + Len(p)] = q[i]
                          /\ i \in Nat /\ i >= 1
    BY <1>1
<1>4. ASSUME NEW i \in DOMAIN (p \o q), i \notin DOMAIN p
      PROVE  i - Len(p) \in DOMAIN q /\ (p \o q)[i] = q[i - Len(p)] /\ i \in Nat
    BY <1>1, <1>4
<1>5. ASSUME Followed(q, A, B), Followed(p, A, B) \/ Has(q, B) PROVE Followed(p \o q, A, B)
    <2> SUFFICES ASSUME NEW i \in DOMAIN (p \o q), (p \o q)[i] \in A
                 PROVE  \E j \in DOMAIN (p \o q) : i < j /\ (p \o q)[j] \in B
        BY DEF Followed
    <2>1. CASE i \in DOMAIN p /\ Has(q, B)
        <3>1. PICK k \in DOMAIN q : q[k] \in B
            BY <2>1 DEF Has
        <3>2. i < k + Len(p)
            BY <1>1, <1>2, <1>3, <2>1
        <3> QED BY <1>3, <3>1, <3>2
    <2>2. CASE i \in DOMAIN p /\ Followed(p, A, B)
        <3>1. PICK j \in DOMAIN p : i < j /\ p[j] \in B
            BY <1>2, <2>2 DEF Followed
        <3> QED BY <1>2, <3>1
    <2>3. CASE i \notin DOMAIN p
        <3>1. PICK k \in DOMAIN q : i - Len(p) < k /\ q[k] \in B
            BY <1>4, <1>5, <2>3 DEF Followed
        <3>2. i < k + Len(p)
            BY <1>1, <1>3, <1>4, <2>3, <3>1
        <3> QED BY <1>3, <3>1, <3>2
    <2> QED BY <1>5, <2>1, <2>2, <2>3
<1>6. ASSUME Has(p, B) \/ Has(q, B) PROVE Has(p \o q, B)
    BY <1>2, <1>3, <1>6 DEF Has
<1> QED BY <1>5, <1>6

LEMMA FollowedTail ==
    ASSUME NEW p \in Programs, p # <<>>, NEW A, NEW B
    PROVE  /\ Followed(p, A, B) => /\ Followed(Tail(p), A, B)
                                   /\ Head(p) \in A => Has(Tail(p), B)
           /\ Has(p, B) <=> Head(p) \in B \/ Has(Tail(p), B)
<1> USE DEF Programs
<1> DEFINE t == Tail(p)
<1>1. /\ Len(p) \in Nat /\ Len(p) >= 1
      /\ DOMAIN p = 1..Len(p) /\ DOMAIN t = 1..(Len(p) - 1)
      /\ Head(p) = p[1]
      /\ \A i \in 1..(Len(p) - 1) : t[i] = p[i + 1]
    OBVIOUS
<1> HIDE DEF t
<1>2. \A i \in DOMAIN t : i + 1 \in DOMAIN p /\ t[i] = p[i + 1] /\ i \in Nat
    BY <1>1
<1>3. ASSUME NEW i \in DOMAIN p, i # 1 PROVE i - 1 \in DOMAIN t /\ t[i - 1] = p[i] /\ i \in Nat
    BY <1>1, <1>3
<1>4. ASSUME Followed(p, A, B) PROVE Followed(t, A, B)
    <2> SUFFICES ASSUME NEW i \in DOMAIN t, t[i] \in A
                 PROVE  \E j \in DOMAIN t : i < j /\ t[j] \in B
        BY DEF Followed
    <2>1. PICK j \in DOMAIN p : i + 1 < j /\ p[j] \in B
        BY <1>2, <1>4 DEF Followed
    <2>2. j # 1 /\ i < j - 1
        BY <1>1, <1>2, <2>1
    <2> QED BY <1>3, <2>1, <2>2
<1>5. ASSUME Followed(p, A, B), Head(p) \in A PROVE Has(t, B)
    <2>1. PICK j \in DOMAIN p : 1 < j /\ p[j] \in B
        BY <1>1, <1>5 DEF Followed
    <2> QED BY <1>3, <2>1 DEF Has
<1>6. ASSUME Has(p, B), Head(p) \notin B PROVE Has(t, B)
    <2>1. PICK i \in DOMAIN p : p[i] \in B
        BY <1>6 DEF Has
    <2>2. i # 1
        BY <1>1, <1>6, <2>1
    <2> QED BY <1>3, <2>1, <2>2 DEF Has
<1>7. Head(p) \in B \/ Has(t, B) => Has(p, B)
    BY <1>1, <1>2 DEF Has
<1> QED BY <1>4, <1>5, <1>6, <1>7 DEF t

\* casync without a seed: the steps for the seed are dropped.
LEMMA SeedDropped ==
    ASSUME NEW p \in Programs, p # <<>>
    PROVE  LET q == <<"unpack">> \o SubSeq(p, 4, Len(p))
           IN  /\ q \in Programs
               /\ Closed(p) /\ Seeded(p) /\ Head(p) = "seed" =>
                      Closed(q) /\ Seeded(q) /\ Unmounts(q)
<1> USE DEF Programs
<1> DEFINE s == SubSeq(p, 4, Len(p))
           q == <<"unpack">> \o s
<1>1. Len(p) \in Nat /\ Len(p) >= 1 /\ DOMAIN p = 1..Len(p) /\ Head(p) = p[1]
    OBVIOUS
<1>2. /\ s \in Seq(Steps) /\ Len(s) \in Nat
      /\ 4 <= Len(p) => Len(s) = Len(p) - 3
      /\ ~(4 <= Len(p)) => Len(s) = 0
    OBVIOUS
<1>3. \A i \in 1..Len(s) : s[i] = p[i + 3]
    OBVIOUS
<1> HIDE DEF s
<1>4. /\ q \in Seq(Steps)
      /\ DOMAIN q = 1..(Len(s) + 1)
      /\ q[1] = "unpack"
      /\ \A i \in 2..(Len(s) + 1) : q[i] = s[i - 1]
    <2>1. "unpack" \in Steps
        BY DEF Steps
    <2> QED BY <1>2, <2>1
<1> HIDE DEF q
<1>5. ASSUME Closed(p), Seeded(p), p[1] = "seed"
      PROVE  Closed(q) /\ Seeded(q) /\ Unmounts(q)
    <2>1. 3 \in DOMAIN p /\ p[2] = "unpack" /\ p[3] = "unseed"
        <3>1. 1 \in DOMAIN p
            BY <1>1
        <3>2. 1 + 2 \in DOMAIN p /\ p[1 + 1] = "unpack" /\ p[1 + 2] = "unseed"
            BY <1>5, <3>1 DEF Seeded
        <3> QED BY <3>2
    <2>2. \A i \in DOMAIN q : i # 1 => i + 2 \in DOMAIN p /\ i + 2 \in 4..Len(p) /\ q[i] = p[i + 2]
        <3> TAKE i \in DOMAIN q
        <3> SUFFICES ASSUME i # 1
                     PROVE  i + 2 \in DOMAIN p /\ i + 2 \in 4..Len(p) /\ q[i] = p[i + 2]
            OBVIOUS
        <3>1. Len(s) = Len(p) - 3 /\ i \in 2..(Len(s) + 1)
            <4>1. CASE 4 <= Len(p)
                BY <1>2, <1>3, <1>4, <4>1
            <4>2. CASE ~(4 <= Len(p))
                BY <1>2, <1>3, <1>4, <4>2
            <4> QED BY <4>1, <4>2
        <3>2. i - 1 \in 1..Len(s) /\ q[i] = s[i - 1] /\ s[i - 1] = p[(i - 1) + 3]
            <4>1. i - 1 \in 1..Len(s)
                BY <1>2, <3>1
            <4> QED BY <1>3, <1>4, <3>1, <4>1
        <3>3. (i - 1) + 3 = i + 2 /\ i + 2 \in 4..Len(p)
            BY <1>1, <1>2, <3>1
        <3> QED BY <1>1, <3>2, <3>3
    <2>3. \A j \in 4..Len(p) : j - 2 \in DOMAIN q /\ q[j - 2] = p[j]
        <3> TAKE j \in 4..Len(p)
        <3>1. j \in Nat /\ 4 <= j /\ j <= Len(p) /\ 4 <= Len(p)
            BY <1>1
        <3>5. Len(s) = Len(p) - 3
            BY <1>2, <3>1
        <3>2. j - 2 \in 2..(Len(s) + 1) /\ j - 3 \in 1..Len(s)
            BY <1>1, <1>2, <3>1, <3>5
        <3>3. q[j - 2] = s[(j - 2) - 1] /\ s[j - 3] = p[(j - 3) + 3]
            BY <1>3, <1>4, <3>2
        <3>4. (j - 2) - 1 = j - 3 /\ (j - 3) + 3 = j
            BY <3>1
        <3> QED BY <1>2, <1>4, <3>2, <3>3, <3>4
    <2>4. ASSUME NEW i \in 2..Len(p), p[i] \in {"mount", "unpack"}
          PROVE  \E j \in 4..Len(p) : i < j /\ p[j] = "umount"
        <3>1. PICK j \in DOMAIN p : i < j /\ p[j] = "umount"
            BY <1>1, <1>5, <2>4 DEF Closed
        <3> QED BY <1>1, <2>1, <3>1
    <2>5. PICK u \in 4..Len(p) : p[u] = "umount"
        BY <1>1, <2>1, <2>4
    <2>6. u - 2 \in DOMAIN q /\ q[u - 2] = "umount" /\ 1 < u - 2
        BY <1>1, <2>3, <2>5
    <2>7. \A i \in DOMAIN q : i \in Nat /\ i >= 1
        BY <1>2, <1>4
    <2>8. Closed(q)
        <3> SUFFICES ASSUME NEW i \in DOMAIN q, q[i] \in {"mount", "unpack"}
                     PROVE  \E j \in DOMAIN q : i < j /\ q[j] = "umount"
            BY DEF Closed
        <3>1. CASE i = 1
            BY <2>6, <3>1
        <3>2. CASE i # 1
            <4>1. PICK j \in 4..Len(p) : i + 2 < j /\ p[j] = "umount"
                <5>1. i + 2 \in 2..Len(p) /\ p[i + 2] \in {"mount", "unpack"}
                    BY <1>1, <2>2, <2>7, <3>2
                <5> QED BY <2>4, <5>1
            <4>2. j - 2 \in DOMAIN q /\ q[j - 2] = "umount" /\ i < j - 2
                <5>1. i \in Nat /\ j \in Nat /\ i < j - 2
                    BY <1>1, <2>7, <4>1
                <5> QED BY <2>3, <4>1, <5>1
            <4> QED BY <4>2
        <3> QED BY <3>1, <3>2
    <2>9. Seeded(q)
        <3> SUFFICES ASSUME NEW i \in DOMAIN q, q[i] = "seed"
                     PROVE  i + 2 \in DOMAIN q /\ q[i + 1] = "unpack" /\ q[i + 2] = "unseed"
            BY DEF Seeded
        <3>1. i # 1 /\ i + 2 \in DOMAIN p /\ p[i + 2] = "seed" /\ i + 2 \in 4..Len(p)
            BY <1>4, <2>2
        <3>2. (i + 2) + 2 \in DOMAIN p /\ p[(i + 2) + 1] = "unpack" /\ p[(i + 2) + 2] = "unseed"
            BY <1>5, <3>1 DEF Seeded
        <3>3. i \in Nat /\ i + 4 <= Len(p) /\ p[i + 3] = "unpack" /\ p[i + 4] = "unseed"
            BY <1>1, <2>7, <3>2
        <3>4. (i + 3) - 2 = i + 1 /\ (i + 4) - 2 = i + 2 /\ i + 3 \in 4..Len(p) /\ i + 4 \in 4..Len(p)
            BY <1>1, <3>1, <3>3
        <3> QED BY <2>3, <3>3, <3>4
    <2> QED BY <2>6, <2>8, <2>9 DEF Unmounts
<1> QED BY <1>1, <1>4, <1>5 DEF s, q

LEMMA FollowedSeedDropped ==
    ASSUME NEW p \in Programs, p # <<>>, Head(p) = "seed", Seeded(p),
           NEW A, NEW B, Followed(p, A, B), "unpack" \in A => "unseed" \notin B
    PROVE  LET q == <<"unpack">> \o SubSeq(p, 4, Len(p))
           IN  /\ Followed(q, A, B)
               /\ "unpack" \in A \cup B => Has(q, B)
<1> USE DEF Programs
<1> DEFINE s == SubSeq(p, 4, Len(p))
           q == <<"unpack">> \o s
<1>1. Len(p) \in Nat /\ Len(p) >= 1 /\ DOMAIN p = 1..Len(p) /\ Head(p) = p[1]
    OBVIOUS
<1>2. 1 + 2 \in DOMAIN p /\ p[1 + 1] = "unpack" /\ p[1 + 2] = "unseed"
    BY <1>1 DEF Seeded
<1>3. /\ s \in Seq(Steps) /\ Len(s) = Len(p) - 3
    BY <1>1, <1>2
<1>4. \A i \in 1..Len(s) : s[i] = p[i + 3]
    OBVIOUS
<1> HIDE DEF s
<1>5. /\ DOMAIN q = 1..(Len(s) + 1) /\ q[1] = "unpack"
      /\ \A i \in 2..(Len(s) + 1) : q[i] = s[i - 1]
    BY <1>3
<1> HIDE DEF q
<1>6. ASSUME NEW i \in DOMAIN q, i # 1
      PROVE  i + 2 \in DOMAIN p /\ q[i] = p[i + 2] /\ i \in Nat
    <2>1. i \in 2..(Len(s) + 1) /\ i - 1 \in 1..Len(s)
        BY <1>1, <1>3, <1>5, <1>6
    <2>2. q[i] = s[i - 1] /\ s[i - 1] = p[(i - 1) + 3] /\ (i - 1) + 3 = i + 2
        BY <1>4, <1>5, <2>1
    <2> QED BY <1>1, <1>3, <2>1, <2>2
<1>7. ASSUME NEW k \in DOMAIN p, 3 < k
      PROVE  k - 2 \in DOMAIN q /\ q[k - 2] = p[k] /\ 1 < k - 2 /\ k \in Nat
    <2>1. k - 2 \in 2..(Len(s) + 1) /\ (k - 2) - 1 \in 1..Len(s) /\ ((k - 2) - 1) + 3 = k
        BY <1>1, <1>3, <1>7
    <2>2. q[k - 2] = s[(k - 2) - 1]
        BY <1>5, <2>1
    <2>3. s[(k - 2) - 1] = p[k]
        BY <1>4, <2>1
    <2> QED BY <1>1, <1>5, <1>7, <2>1, <2>2, <2>3
<1>8. ASSUME "unpack" \in A PROVE \E j \in DOMAIN q : 1 < j /\ q[j] \in B
    <2>1. PICK k \in DOMAIN p : 2 < k /\ p[k] \in B
        <3>1. 2 \in DOMAIN p /\ p[2] \in A
            BY <1>1, <1>2, <1>8
        <3> QED BY <3>1 DEF Followed
    <2>2. k # 3
        BY <1>2, <1>8, <2>1
    <2>3. 3 < k
        BY <1>1, <2>1, <2>2
    <2> QED BY <1>7, <2>1, <2>3
<1>9. Followed(q, A, B)
    <2> SUFFICES ASSUME NEW i \in DOMAIN q, q[i] \in A
                 PROVE  \E j \in DOMAIN q : i < j /\ q[j] \in B
        BY DEF Followed
    <2>1. CASE i = 1
        BY <1>5, <1>8, <2>1
    <2>2. CASE i # 1
        <3>1. PICK k \in DOMAIN p : i + 2 < k /\ p[k] \in B
            BY <1>6, <2>2 DEF Followed
        <3>2. 3 < k /\ i < k - 2
            BY <1>1, <1>5, <1>6, <2>2, <3>1
        <3> QED BY <1>7, <3>1, <3>2
    <2> QED BY <2>1, <2>2
<1>10. ASSUME "unpack" \in A \cup B PROVE Has(q, B)
    <2>1. CASE "unpack" \in A
        BY <1>8, <2>1 DEF Has
    <2>2. CASE "unpack" \in B
        <3>1. 1 \in DOMAIN q
            BY <1>1, <1>3, <1>5
        <3> QED BY <1>5, <2>2, <3>1 DEF Has
    <2> QED BY <1>10, <2>1, <2>2
<1> QED BY <1>9, <1>10 DEF q, s

LEMMA SinglePrograms ==
    ASSUME NEW a \in Steps
    PROVE  /\ <<a>> \in Programs
           /\ a \notin {"mount", "unpack"} => Closed(<<a>>)
           /\ a # "seed" => Seeded(<<a>>)
           /\ \A A, B : a \notin A => Followed(<<a>>, A, B)
           /\ \A B : a \in B => Has(<<a>>, B)
BY DEF Programs, Closed, Seeded, Followed, Has

LEMMA OtherPrograms ==
    /\ <<>> \in Programs /\ Closed(<<>>) /\ Seeded(<<>>)
    /\ \A a, b, c \in Steps : <<a, b, c>> \in Programs
BY DEF Programs, Closed, Seeded

LEMMA HookPrograms ==
    ASSUME NEW hook \in {"pre", "post"}
    PROVE  /\ Hook(hook) \in Programs /\ Closed(Hook(hook)) /\ Seeded(Hook(hook))
           /\ MountedHook(hook) \in Programs /\ Closed(MountedHook(hook)) /\ Seeded(MountedHook(hook))
<1>1. hook \in Steps /\ hook \notin {"mount", "unpack", "seed"}
    BY DEF Steps
<1>2. CASE hook \in image.hooks
    <2>1. Hook(hook) = <<hook>> /\ MountedHook(hook) = <<"mount", hook, "umount">>
        BY <1>2 DEF Hook, MountedHook
    <2> DEFINE m == <<"mount", hook, "umount">>
    <2>2. DOMAIN m = 1..3 /\ m[1] = "mount" /\ m[2] = hook /\ m[3] = "umount"
        OBVIOUS
    <2>3. "mount" \in Steps /\ "umount" \in Steps
        BY DEF Steps
    <2>4. m \in Programs
        BY <1>1, <2>3, OtherPrograms
    <2>5. Closed(m) /\ Seeded(m)
        BY <1>1, <2>2 DEF Closed, Seeded
    <2> QED BY <1>1, <2>1, <2>4, <2>5, SinglePrograms
<1>3. CASE hook \notin image.hooks
    BY <1>3, OtherPrograms DEF Hook, MountedHook
<1> QED BY <1>2, <1>3

LEMMA ResizePrograms == Resize \in Programs /\ Closed(Resize) /\ Seeded(Resize)
<1>1. Resize = <<>> \/ Resize = <<"resize">>
    BY DEF Resize
<1>2. "resize" \in Steps
    BY DEF Steps
<1> QED BY <1>1, <1>2, OtherPrograms, SinglePrograms

LEMMA UnpackPrograms == Unpack \in Programs /\ Seeded(Unpack)
<1>1. Unpack = <<"seed", "unpack", "unseed">> \/ Unpack = <<"unpack">>
    BY DEF Unpack
<1>2. {"seed", "unpack", "unseed"} \subseteq Steps
    BY DEF Steps
<1>3. Seeded(<<"seed", "unpack", "unseed">>)
    BY DEF Seeded
<1> QED BY <1>1, <1>2, <1>3, OtherPrograms, SinglePrograms

\* The one of write_image_to_dev, casync or the copy into a volume.
LEMMA WritePrograms ==
    ASSUME NEW copy \in {"copy", "stream"}
    PROVE  /\ Write(copy) \in Programs /\ Closed(Write(copy)) /\ Seeded(Write(copy))
           /\ Write(copy) = IF Chunked(image) THEN <<"extract">> ELSE <<copy>>
<1>1. copy \in Steps /\ "extract" \in Steps /\ copy \notin {"mount", "unpack", "seed"}
    BY DEF Steps
<1> QED BY <1>1, SinglePrograms DEF Write

LEMMA HandlerIs ==
    ASSUME image \in Images, type \in Types
    PROVE  \/ image.kind = "hook" /\ Handler = <<"install">>
           \/ Archive(image) /\ Handler = ArchiveToFs
           \/ ToFs(image) /\ Handler = ImgToFs
           \/ FsImage(image) /\ type = "ubivol" /\ Handler = ImgToUbivol
           \/ FsImage(image) /\ type = "ubifs" /\ Handler = ImgToUbifs
           \/ image.kind = "img" /\ type \in {"nor", "nand"} /\ Handler = ImgToFlash
           \/ FsImage(image) /\ ~ToFs(image) /\ type # "ubifs" /\ Handler = ImgToRaw
<1>1. image.kind \in {"img", "ext4.caibx", "img.caibx", "tar", "caidx", "hook"}
    BY ImagesAssumption
<1>2. CASE image.kind = "hook"
    BY <1>2 DEF Handler, Archive, ToFs, FsImage, Chunked
<1>3. CASE Archive(image)
    BY <1>3 DEF Handler, Archive, ToFs, FsImage, Chunked
<1>4. CASE ToFs(image)
    BY <1>4 DEF Handler, Archive, ToFs, FsImage, Chunked
<1>5. CASE FsImage(image) /\ type = "ubivol"
    BY <1>5 DEF Handler, Archive, ToFs, FsImage, Chunked
<1>6. CASE FsImage(image) /\ type = "ubifs"
    BY <1>6 DEF Handler, Archive, ToFs, FsImage, Chunked
<1>7. CASE image.kind = "img" /\ type \in {"nor", "nand"}
    BY <1>7 DEF Handler, Archive, ToFs, FsImage, Chunked
<1>8. CASE /\ FsImage(image) /\ ~ToFs(image) /\ type \notin {"ubifs", "ubivol"}
           /\ ~(image.kind = "img" /\ type \in {"nor", "nand"})
    BY <1>8 DEF Handler, Archive, FsImage, Chunked
<1>9. FsImage(image) \/ Archive(image) \/ image.kind = "hook"
    BY <1>1 DEF FsImage, Archive, Chunked
<1> QED BY <1>2, <1>3, <1>4, <1>5, <1>6, <1>7, <1>8, <1>9

\* Every handler unmounts what it mounts.
LEMMA HandlerPrograms ==
    ASSUME image \in Images, type \in Types
    PROVE  Handler \in Programs /\ Closed(Handler) /\ Seeded(Handler)
<1> DEFINE Fine(p) == p \in Programs /\ Closed(p) /\ Seeded(p)
<1>1. Fine(Hook("pre")) /\ Fine(Hook("post")) /\ Fine(MountedHook("pre")) /\ Fine(MountedHook("post"))
    BY HookPrograms
<1>2. \A p, q : Fine(p) /\ Fine(q) => Fine(p \o q)
    BY ProgramConcat
<1>3. Fine(Write("copy")) /\ Fine(Write("stream"))
    BY WritePrograms
<1>4. Fine(<<"install">>) /\ Fine(<<"volume">>)
    BY SinglePrograms DEF Steps
<1>5. Fine(<<"format", "stream">>)
    BY DEF Programs, Steps, Closed, Seeded
<1>6. Fine(Resize)
    BY ResizePrograms
<1>7. Fine(ImgToRaw) /\ Fine(ImgToFs)
    <2> HIDE DEF Fine
    <2> QED BY <1>1, <1>2, <1>3, <1>6 DEF ImgToRaw, ImgToFs
<1>8. Fine(ImgToUbivol) /\ Fine(ImgToUbifs) /\ Fine(ImgToFlash)
    <2> HIDE DEF Fine
    <2> QED BY <1>1, <1>2, <1>3, <1>4, <1>5 DEF ImgToUbivol, ImgToUbifs, ImgToFlash
<1>9. Fine(ArchiveToFs)
    <2> DEFINE pre == IF type = "ubifs" THEN MountedHook("pre") ELSE Hook("pre")
               opened == pre \o <<"format", "mount">>
               unpacked == opened \o Unpack
               body == unpacked \o Hook("post")
    <2>1. <<"format", "mount">> \in Programs /\ Seeded(<<"format", "mount">>)
        BY DEF Programs, Steps, Seeded
    <2>2. pre \in Programs /\ Seeded(pre)
        BY <1>1
    <2> HIDE DEF pre
    <2>3. opened \in Programs /\ Seeded(opened)
        BY <2>1, <2>2, ProgramConcat
    <2> HIDE DEF opened
    <2>4. unpacked \in Programs /\ Seeded(unpacked)
        BY <2>3, UnpackPrograms, ProgramConcat
    <2> HIDE DEF unpacked
    <2>5. body \in Programs /\ Seeded(body)
        BY <1>1, <2>4, ProgramConcat
    <2> HIDE DEF body
    <2>6. <<"umount">> \in Programs
        BY SinglePrograms DEF Steps
    <2>7. Fine(body \o <<"umount">>)
        BY <2>5, <2>6, ProgramConcat
    <2>8. ArchiveToFs = body \o <<"umount">>
        BY DEF ArchiveToFs, body, unpacked, opened, pre
    <2> QED BY <2>7, <2>8
<1> QED BY <1>4, <1>7, <1>8, <1>9, HandlerIs

\* Unless it is one of the images after which RAUC flushes nothing, whatever a handler writes is
\* flushed by a later step.
LEMMA HandlerFlushes ==
    ASSUME image \in Images, type \in Types, ~Unflushed(image)
    PROVE  Followed(Handler, Dirtying, Flushing) /\ Has(Handler, Flushing)
<1> DEFINE Calm(p) == p \in Programs /\ Followed(p, Dirtying, Flushing)
           Good(p) == Calm(p) /\ Has(p, Flushing)
<1>1. \A p, q : p \in Programs /\ Good(q) => Good(p \o q)
    BY ProgramConcat, FollowedConcat
<1>2. \A p, q : Good(p) /\ Calm(q) => Good(p \o q)
    BY ProgramConcat, FollowedConcat
<1>3. Good(<<"copy">>) /\ Good(<<"stream">>) /\ Good(<<"umount">>) /\ Good(<<"resize">>)
    BY SinglePrograms DEF Steps, Dirtying, Flushing
<1>4. Calm(<<>>)
    BY OtherPrograms DEF Followed
<1>5. /\ Hook("pre") \in Programs /\ MountedHook("pre") \in Programs
      /\ Hook("post") \in Programs /\ MountedHook("post") \in Programs
    BY HookPrograms
<1>6. /\ "post" \notin image.hooks => Hook("post") = <<>> /\ MountedHook("post") = <<>>
      /\ "post" \in image.hooks => MountedHook("post") = <<"mount", "post", "umount">>
    BY DEF Hook, MountedHook
<1>7. Good(<<"mount", "post", "umount">>)
    <2> DEFINE m == <<"mount", "post", "umount">>
    <2>1. DOMAIN m = 1..3 /\ m[1] = "mount" /\ m[2] = "post" /\ m[3] = "umount"
        OBVIOUS
    <2>2. m \in Programs
        BY OtherPrograms DEF Steps
    <2> HIDE DEF m
    <2>3. Has(m, Flushing)
        BY <2>1 DEF Has, Flushing
    <2>4. \A i \in DOMAIN m : m[i] \in Dirtying => i < 3
        BY <2>1 DEF Dirtying
    <2>5. Followed(m, Dirtying, Flushing)
        BY <2>1, <2>4 DEF Followed, Flushing
    <2> QED BY <2>2, <2>3, <2>5 DEF m
<1>8. /\ Write("copy") \in Programs /\ Write("stream") \in Programs
      /\ ~Chunked(image) => Good(Write("copy")) /\ Good(Write("stream"))
    BY <1>3, WritePrograms
<1>9. CASE image.kind = "hook"
    BY <1>9 DEF Unflushed
<1>10. CASE Archive(image) /\ Handler = ArchiveToFs
    <2> DEFINE pre == IF type = "ubifs" THEN MountedHook("pre") ELSE Hook("pre")
               body == pre \o <<"format", "mount">> \o Unpack \o Hook("post")
    <2>1. <<"format", "mount">> \in Programs
        BY DEF Programs, Steps
    <2>2. pre \in Programs
        BY <1>5
    <2> HIDE DEF pre
    <2>3. pre \o <<"format", "mount">> \in Programs
        BY <2>1, <2>2, ProgramConcat
    <2>4. pre \o <<"format", "mount">> \o Unpack \in Programs
        BY <2>3, UnpackPrograms, ProgramConcat
    <2>5. body \in Programs
        BY <1>5, <2>4, ProgramConcat
    <2>6. ArchiveToFs = body \o <<"umount">>
        BY DEF ArchiveToFs, body, pre
    <2> HIDE DEF body
    <2>7. Good(body \o <<"umount">>)
        BY <1>1, <1>3, <2>5
    <2> QED BY <1>10, <2>6, <2>7
<1>11. CASE ToFs(image) /\ Handler = ImgToFs
    <2> DEFINE written == MountedHook("pre") \o Write("copy")
    <2>1. written \in Programs
        BY <1>5, <1>8, ProgramConcat
    <2>2. Resize = <<>> \/ Resize = <<"resize">>
        BY DEF Resize
    <2>3. Resize \in Programs /\ Calm(Resize)
        BY <1>3, <1>4, <2>2
    <2>4. ImgToFs = written \o Resize \o MountedHook("post")
        BY DEF ImgToFs
    <2>5. CASE "post" \in image.hooks
        <3>1. written \o Resize \in Programs
            BY <2>1, <2>3, ProgramConcat
        <3>2. Good(MountedHook("post"))
            BY <1>6, <1>7, <2>5
        <3> HIDE DEF written, Good
        <3> QED BY <1>1, <1>11, <2>4, <3>1, <3>2 DEF Good
    <2>6. CASE "post" \notin image.hooks
        <3>1. Good(written \o Resize)
            <4>1. CASE Chunked(image)
                <5>1. image.resize /\ type = "ext4"
                    BY <1>11, <2>6, <4>1 DEF Unflushed, ToFs, Chunked
                <5>2. Resize = <<"resize">>
                    BY <5>1 DEF Resize
                <5> HIDE DEF written, Good
                <5> QED BY <1>1, <1>3, <2>1, <5>2
            <4>2. CASE ~Chunked(image)
                <5>1. Good(written)
                    <6> HIDE DEF Good
                    <6> QED BY <1>1, <1>5, <1>8, <4>2
                <5> HIDE DEF written, Good, Calm
                <5> QED BY <1>2, <2>3, <5>1
            <4> QED BY <4>1, <4>2
        <3>2. Calm(MountedHook("post"))
            BY <1>4, <1>6, <2>6
        <3>3. Good((written \o Resize) \o MountedHook("post"))
            <4> HIDE DEF written, Good, Calm
            <4> QED BY <1>2, <3>1, <3>2
        <3> QED BY <1>11, <2>4, <3>3
    <2> QED BY <2>5, <2>6
<1>12. ASSUME "post" \notin image.hooks \/ ~HooksMounted(image),
              ~Chunked(image) \/ ~ToFs(image)
       PROVE  "post" \notin image.hooks /\ ~Chunked(image)
    BY <1>12 DEF Unflushed
<1>13. CASE FsImage(image) /\ type = "ubivol" /\ Handler = ImgToUbivol
    <2>1. ~ToFs(image) /\ ~HooksMounted(image)
        BY <1>13 DEF ToFs, HooksMounted, FsImage, Archive, Chunked
    <2>2. "post" \notin image.hooks /\ ~Chunked(image)
        BY <1>12, <2>1
    <2> DEFINE before == Hook("pre") \o <<"volume">>
    <2>3. before \in Programs
        BY <1>5, SinglePrograms, ProgramConcat DEF Steps
    <2>4. ImgToUbivol = before \o Write("stream") \o Hook("post")
        BY DEF ImgToUbivol
    <2> HIDE DEF before, Good, Calm
    <2>5. Good(before \o Write("stream"))
        BY <1>1, <1>8, <2>2, <2>3
    <2>6. Good(before \o Write("stream") \o Hook("post"))
        BY <1>2, <1>4, <1>6, <2>2, <2>5
    <2> QED BY <1>13, <2>4, <2>6 DEF Good, Calm
<1>14. CASE FsImage(image) /\ type = "ubifs" /\ Handler = ImgToUbifs
    <2> DEFINE before == MountedHook("pre") \o <<"volume">>
    <2>1. before \in Programs
        BY <1>5, SinglePrograms, ProgramConcat DEF Steps
    <2>2. ImgToUbifs = before \o Write("stream") \o MountedHook("post")
        BY DEF ImgToUbifs
    <2> HIDE DEF before
    <2>3. before \o Write("stream") \in Programs
        BY <1>8, <2>1, ProgramConcat
    <2> HIDE DEF Good, Calm
    <2>4. CASE "post" \in image.hooks
        <3>1. Good(before \o Write("stream") \o MountedHook("post"))
            BY <1>1, <1>6, <1>7, <2>3, <2>4
        <3> QED BY <1>14, <2>2, <3>1 DEF Good, Calm
    <2>5. CASE "post" \notin image.hooks
        <3>1. ~ToFs(image)
            BY <1>14 DEF ToFs
        <3>2. ~Chunked(image)
            BY <1>12, <2>5, <3>1
        <3>3. Good(before \o Write("stream"))
            BY <1>1, <1>8, <2>1, <3>2
        <3>4. Good(before \o Write("stream") \o MountedHook("post"))
            BY <1>2, <1>4, <1>6, <2>5, <3>3
        <3> QED BY <1>14, <2>2, <3>4 DEF Good, Calm
    <2> QED BY <2>4, <2>5
<1>15. CASE image.kind = "img" /\ type \in {"nor", "nand"} /\ Handler = ImgToFlash
    <2>1. ~ToFs(image) /\ ~HooksMounted(image)
        BY <1>15 DEF ToFs, HooksMounted, Archive
    <2>2. "post" \notin image.hooks
        BY <1>12, <2>1
    <2>3. Good(<<"format", "stream">>)
        <3> DEFINE m == <<"format", "stream">>
        <3>1. DOMAIN m = 1..2 /\ m[1] = "format" /\ m[2] = "stream" /\ m \in Programs
            BY DEF Programs, Steps
        <3> HIDE DEF m
        <3>2. Has(m, Flushing)
            BY <3>1 DEF Has, Flushing
        <3>3. \A i \in DOMAIN m : m[i] \notin Dirtying
            BY <3>1 DEF Dirtying
        <3> QED BY <3>1, <3>2, <3>3 DEF m, Followed
    <2> HIDE DEF Good, Calm
    <2>4. Good(Hook("pre") \o <<"format", "stream">>)
        BY <1>1, <1>5, <2>3
    <2>5. Good(Hook("pre") \o <<"format", "stream">> \o Hook("post"))
        BY <1>2, <1>4, <1>6, <2>2, <2>4
    <2> QED BY <1>15, <2>5 DEF Good, Calm, ImgToFlash
<1>16. CASE FsImage(image) /\ ~ToFs(image) /\ type # "ubifs" /\ Handler = ImgToRaw
    <2>1. ~HooksMounted(image)
        BY <1>16 DEF HooksMounted, FsImage, Archive, Chunked
    <2>2. "post" \notin image.hooks /\ ~Chunked(image)
        BY <1>12, <1>16, <2>1
    <2> HIDE DEF Good, Calm
    <2>3. Good(Hook("pre") \o Write("copy"))
        BY <1>1, <1>5, <1>8, <2>2
    <2>4. Good(Hook("pre") \o Write("copy") \o Hook("post"))
        BY <1>2, <1>4, <1>6, <2>2, <2>3
    <2> QED BY <1>16, <2>4 DEF Good, Calm, ImgToRaw
<1> QED BY <1>9, <1>10, <1>11, <1>13, <1>14, <1>15, <1>16, HandlerIs

\* Every handler brings the image, after the steps that prepare the slot for it, and does nothing
\* that the image does not ask for.
LEMMA HandlerBrings ==
    ASSUME image \in Images, type \in Types
    PROVE  /\ Followed(Handler, Before, Bringing) /\ Has(Handler, Bringing)
           /\ Followed(Handler, Barred, {})
<1> DEFINE Asked(p) == p \in Programs /\ Followed(p, Barred, {})
           Late(p) == Asked(p) /\ Followed(p, Before, Bringing)
           Good(p) == Late(p) /\ Has(p, Bringing)
<1>1. \A p, q : Asked(p) /\ Good(q) => Good(p \o q)
    BY ProgramConcat, FollowedConcat
<1>2. \A p, q : Good(p) /\ Late(q) => Good(p \o q)
    BY ProgramConcat, FollowedConcat
<1>3. \A p, q : Asked(p) /\ Asked(q) => Asked(p \o q)
    BY ProgramConcat, FollowedConcat
<1>4. Late(<<>>)
    BY OtherPrograms DEF Followed
<1>5. ASSUME NEW a \in Steps \ {"post", "install"} PROVE Asked(<<a>>)
    BY <1>5, SinglePrograms DEF Barred
<1>6. Asked(Hook("pre")) /\ Asked(MountedHook("pre"))
    <2>1. CASE "pre" \in image.hooks
        <3> DEFINE m == <<"mount", "pre", "umount">>
        <3>1. Hook("pre") = <<"pre">> /\ MountedHook("pre") = m
            BY <2>1 DEF Hook, MountedHook
        <3>2. Asked(<<"pre">>)
            BY <1>5 DEF Steps
        <3>3. DOMAIN m = 1..3 /\ m[1] = "mount" /\ m[2] = "pre" /\ m[3] = "umount"
            OBVIOUS
        <3>4. m \in Programs
            BY OtherPrograms DEF Steps
        <3> HIDE DEF m
        <3>5. Followed(m, Barred, {})
            BY <3>3 DEF Followed, Barred
        <3> QED BY <3>1, <3>2, <3>4, <3>5
    <2>2. CASE "pre" \notin image.hooks
        BY <1>4, <2>2 DEF Hook, MountedHook
    <2> QED BY <2>1, <2>2
<1>7. Late(Hook("post")) /\ Late(MountedHook("post"))
    <2>1. CASE "post" \in image.hooks
        <3> DEFINE m == <<"mount", "post", "umount">>
        <3>1. Hook("post") = <<"post">> /\ MountedHook("post") = m
            BY <2>1 DEF Hook, MountedHook
        <3>2. Late(<<"post">>)
            BY <2>1, SinglePrograms DEF Steps, Barred, Before
        <3>3. DOMAIN m = 1..3 /\ m[1] = "mount" /\ m[2] = "post" /\ m[3] = "umount"
            OBVIOUS
        <3>4. m \in Programs
            BY OtherPrograms DEF Steps
        <3> HIDE DEF m
        <3>5. Followed(m, Barred, {}) /\ Followed(m, Before, Bringing)
            BY <2>1, <3>3 DEF Followed, Barred, Before
        <3> QED BY <3>1, <3>2, <3>4, <3>5
    <2>2. CASE "post" \notin image.hooks
        BY <1>4, <2>2 DEF Hook, MountedHook
    <2> QED BY <2>1, <2>2
<1>8. Good(Write("copy")) /\ Good(Write("stream"))
    <2>1. Good(<<"copy">>) /\ Good(<<"stream">>) /\ Good(<<"extract">>)
        BY SinglePrograms DEF Steps, Barred, Before, Bringing
    <2> HIDE DEF Good
    <2> QED BY <2>1, WritePrograms
<1>9. Asked(<<"volume">>)
    BY <1>5 DEF Steps
<1>10. Late(Resize)
    <2>1. Late(<<"resize">>)
        BY SinglePrograms DEF Steps, Barred, Before
    <2>2. Resize = <<>> \/ Resize = <<"resize">>
        BY DEF Resize
    <2> QED BY <1>4, <2>1, <2>2
<1>11. Good(<<"format", "stream">>) /\ Asked(<<"format", "mount">>)
    <2> DEFINE m == <<"format", "stream">>
               n == <<"format", "mount">>
    <2>1. /\ DOMAIN m = 1..2 /\ m[1] = "format" /\ m[2] = "stream" /\ m \in Programs
          /\ DOMAIN n = 1..2 /\ n[1] = "format" /\ n[2] = "mount" /\ n \in Programs
        BY DEF Programs, Steps
    <2> HIDE DEF m, n
    <2>2. Followed(m, Barred, {}) /\ Followed(n, Barred, {})
        BY <2>1 DEF Followed, Barred
    <2>3. \A i \in DOMAIN m : m[i] \in Before => i < 2
        BY <2>1 DEF Before
    <2>4. Followed(m, Before, Bringing) /\ Has(m, Bringing)
        BY <2>1, <2>3 DEF Followed, Has, Bringing
    <2> QED BY <2>1, <2>2, <2>4 DEF m, n
<1>12. Good(Unpack)
    <2> DEFINE m == <<"seed", "unpack", "unseed">>
    <2>1. Good(<<"unpack">>)
        BY SinglePrograms DEF Steps, Barred, Before, Bringing
    <2>2. DOMAIN m = 1..3 /\ m[1] = "seed" /\ m[2] = "unpack" /\ m[3] = "unseed"
        OBVIOUS
    <2>3. m \in Programs
        BY OtherPrograms DEF Steps
    <2> HIDE DEF m
    <2>4. Followed(m, Barred, {})
        BY <2>2 DEF Followed, Barred
    <2>5. \A i \in DOMAIN m : m[i] \in Before => i < 2
        BY <2>2 DEF Before
    <2>6. Followed(m, Before, Bringing) /\ Has(m, Bringing)
        BY <2>2, <2>5 DEF Followed, Has, Bringing
    <2>7. Unpack = m \/ Unpack = <<"unpack">>
        BY DEF Unpack, m
    <2> QED BY <2>1, <2>3, <2>4, <2>6, <2>7
<1>13. Late(<<"umount">>)
    BY SinglePrograms DEF Steps, Barred, Before
<1>14. image.kind = "hook" => Good(<<"install">>)
    BY SinglePrograms DEF Steps, Barred, Before, Bringing
<1>15. Late(Write("copy")) /\ \A p : Good(p) => Late(p)
    BY <1>8
<1> HIDE DEF Asked, Late, Good
<1>16. Good(ImgToRaw) /\ Good(ImgToFs)
    BY <1>1, <1>2, <1>6, <1>7, <1>8, <1>10 DEF ImgToRaw, ImgToFs
<1>17. Good(ImgToUbivol) /\ Good(ImgToUbifs) /\ Good(ImgToFlash)
    <2>1. Asked(Hook("pre") \o <<"volume">>) /\ Asked(MountedHook("pre") \o <<"volume">>)
        BY <1>3, <1>6, <1>9
    <2> QED BY <1>1, <1>2, <1>6, <1>7, <1>8, <1>11, <2>1 DEF ImgToUbivol, ImgToUbifs, ImgToFlash
<1>18. Good(ArchiveToFs)
    <2> DEFINE pre == IF type = "ubifs" THEN MountedHook("pre") ELSE Hook("pre")
    <2>1. Asked(pre)
        BY <1>6
    <2>2. ArchiveToFs = pre \o <<"format", "mount">> \o Unpack \o Hook("post") \o <<"umount">>
        BY DEF ArchiveToFs
    <2> HIDE DEF pre
    <2>3. Asked(pre \o <<"format", "mount">>)
        BY <1>3, <1>11, <2>1
    <2>4. Good(pre \o <<"format", "mount">> \o Unpack)
        BY <1>1, <1>12, <2>3
    <2>5. Good(pre \o <<"format", "mount">> \o Unpack \o Hook("post"))
        BY <1>2, <1>7, <2>4
    <2> QED BY <1>2, <1>13, <2>2, <2>5
<1>19. Good(Handler)
    BY <1>14, <1>16, <1>17, <1>18, HandlerIs
<1> QED BY <1>19 DEF Good, Late, Asked

----------------------------------------------------------------------------
(* What the installation does is a copy (AdaptiveCopy). *)

LEMMA HandlersInit == Init => HandlersInv
<1> SUFFICES ASSUME Init PROVE HandlersInv
    OBVIOUS
<1>1. CopyInit
    BY SlotsAssumption DEF Init, CopyInit
<1>2. PlanTypeOK
    BY OtherPrograms DEF Init, PlanTypeOK, NoStatus, Statuses
<1>3. CentralInv
    BY DEF Init, CentralInv, Fitting, Recording, Right, NoStatus, NoJob
<1>4. JobFits
    BY DEF Init, JobFits, NoJob
<1> QED BY <1>1, <1>2, <1>3, <1>4, CopyInitInv DEF HandlersInv

LEMMA IndexForType ==
    ASSUME indexes \subseteq Indexes, NEW digest
    PROVE  IndexFor(digest) \in Seq(Chunks)
BY DEF IndexFor, Indexes

\* The image of the plan that is being installed.
LEMMA ImageType ==
    ASSUME PlanTypeOK, pc \in {"checked", "handler", "failed"}
    PROVE  /\ image \in Images
           /\ image.chunks \in Seq(Chunks) /\ image.adaptive \in BOOLEAN
           /\ plans # <<>> /\ Tail(plans) \in Seq(Images \cup {Artifact})
BY ImagesAssumption DEF PlanTypeOK

LEMMA PutType ==
    ASSUME disk \in [Devices -> Seq(Chunks)], NEW d \in Devices, NEW p, NEW c \in Chunks
    PROVE  [disk EXCEPT ![d][p] = c] \in [Devices -> Seq(Chunks)]
<1>1. [disk[d] EXCEPT ![p] = c] \in Seq(Chunks)
    <2>1. disk[d] \in Seq(Chunks)
        OBVIOUS
    <2>2. PICK n \in Nat : disk[d] \in [1..n -> Chunks]
        BY <2>1
    <2>3. [disk[d] EXCEPT ![p] = c] \in [1..n -> Chunks]
        BY <2>2
    <2> QED BY <2>3
<1> QED BY <1>1

LEMMA StepsCopy ==
    ASSUME CopyIInv, PlanTypeOK, [Next]_vars
    PROVE  [CopyNext]_<<disk, job>>
<1> USE SlotsAssumption, NoDeviceAssumption
<1>1. /\ disk \in [Devices -> Seq(Chunks)]
      /\ job \in Jobs
      /\ NoJob \in Jobs /\ NoJob.phase = "none"
    BY DEF CopyIInv, CopyTypeOK, Jobs, NoJob, Phases
<1>2. ASSUME job' = NoJob, disk' \in [Devices -> Seq(Chunks)] PROVE CopyNext
    BY <1>1, <1>2 DEF CopyNext, Elsewhere
<1>3. CASE RunHook
    <2>1. disk' \in [Devices -> Seq(Chunks)]
        <3>1. CASE disk' = disk
            BY <1>1, <3>1
        <3>2. ASSUME NEW c \in Chunks, disk' = [disk EXCEPT ![Target][1] = c]
              PROVE  disk' \in [Devices -> Seq(Chunks)]
            BY <1>1, <3>2, PutType
        <3> QED BY <1>3, <3>1, <3>2 DEF RunHook
    <2> QED BY <1>2, <1>3, <2>1 DEF RunHook
<1>4. CASE RunTool
    <2>1. Target \in Devices /\ Blank[Target] \in Seq(Chunks)
        OBVIOUS
    <2>2. disk' \in [Devices -> Seq(Chunks)]
        BY <1>1, <1>4, <2>1 DEF RunTool
    <2> QED BY <1>2, <1>4, <2>2 DEF RunTool
<1>5. CASE UnpackFile
    <2>1. image.chunks \in Seq(Chunks)
        BY <1>5, ImageType DEF UnpackFile, Unpacking, Doing
    <2>2. /\ job' \in Jobs
          /\ job'.phase = "files"
          /\ job'.target \in Devices /\ job'.seed # job'.target
          /\ job'.next \in Nat /\ job'.next >= 1
        <3>1. CASE job.phase = "files"
            <4>1. job' = [job EXCEPT !.next = job.next + 1]
                BY <1>5, <3>1 DEF UnpackFile
            <4>2. job.next + 1 \in Nat /\ job.next + 1 >= 1
                BY <1>1, SMTT(30) DEF Jobs
            <4>3. job.target \in Devices /\ job.seed # job.target
                BY <3>1 DEF CopyIInv
            <4> QED BY <1>1, <3>1, <4>1, <4>2, <4>3 DEF Jobs
        <3>2. CASE job.phase # "files"
            <4>1. job' = [NoJob EXCEPT !.phase = "files", !.target = Target,
                                       !.source = image.chunks, !.next = 1]
                BY <1>5, <3>2 DEF UnpackFile
            <4>2. job' = [phase |-> "files", target |-> Target, seed |-> NoDevice,
                          source |-> image.chunks, targetIndex |-> <<>>, seedIndex |-> <<>>,
                          next |-> 1]
                BY <4>1 DEF NoJob
            <4>3. Target \in Devices /\ NoDevice # Target /\ <<>> \in Seq(Chunks) /\ 1 \in Nat
                OBVIOUS
            <4> QED BY <2>1, <4>2, <4>3 DEF Jobs, Phases
        <3> QED BY <3>1, <3>2
    <2>3. job'.next \in 1..Len(image.chunks)
        BY <1>5, <2>1, <2>2 DEF UnpackFile
    <2>4. disk' \in [Devices -> Seq(Chunks)]
        <3>1. image.chunks[job'.next] \in Chunks
            BY <2>1, <2>3
        <3>2. [disk EXCEPT ![Target][job'.next] = image.chunks[job'.next]] \in [Devices -> Seq(Chunks)]
            BY <1>1, <3>1, PutType
        <3> QED BY <1>5, <3>2 DEF UnpackFile
    <2> QED BY <2>2, <2>4 DEF CopyNext, Elsewhere
<1>6. CASE OpenDevice
    <2>1. image.chunks \in Seq(Chunks) /\ image.adaptive \in BOOLEAN
        BY <1>6, ImageType DEF OpenDevice, Copying, Doing
    <2>2. IndexFor(memory.digest) \in Seq(Chunks)
        BY IndexForType DEF PlanTypeOK
    <2>3. (image.adaptive /\ Doing("copy")) \in BOOLEAN
        OBVIOUS
    <2>4. <<>> \in Seq(Chunks) /\ Target \in Devices /\ Booted \in Devices \cup {NoDevice}
        OBVIOUS
    <2> QED BY <1>6, <2>1, <2>2, <2>3, <2>4 DEF OpenDevice, CopyNext
<1>7. CASE CopyChunk \/ GiveUpAdaptive \/ Flush
    BY <1>7 DEF CopyChunk, GiveUpAdaptive, Flush, CopyNext, CopyStep
<1>8. CASE BootedWrites
    BY <1>8 DEF BootedWrites, CopyNext
<1>9. CASE Unpacked \/ CloseDevice \/ StepFails
    BY <1>1, <1>2, <1>9 DEF Unpacked, CloseDevice, StepFails
<1>10. CASE RestartService \/ PowerCut
    <2>1. ASSUME NEW left \in [DOMAIN disk[Target] -> Chunks]
          PROVE  [disk EXCEPT ![Target] = left] \in [Devices -> Seq(Chunks)]
        <3>1. disk[Target] \in Seq(Chunks)
            BY <1>1
        <3>2. PICK n \in Nat : DOMAIN disk[Target] = 1..n
            <4>1. Len(disk[Target]) \in Nat /\ DOMAIN disk[Target] = 1..Len(disk[Target])
                BY <3>1
            <4> QED BY <4>1
        <3>3. left \in [1..n -> Chunks]
            BY <3>2
        <3>4. [1..n -> Chunks] \subseteq Seq(Chunks)
            OBVIOUS
        <3> QED BY <1>1, <3>3, <3>4
    <2>2. disk' \in [Devices -> Seq(Chunks)]
        BY <1>1, <1>10, <2>1 DEF RestartService, PowerCut
    <2> QED BY <1>2, <1>10, <2>2 DEF RestartService, PowerCut, Stop
<1>11. CASE Begin \/ InstallArtifact \/ CheckSlot \/ Skip \/ SetPending \/ StartHandler
    BY <1>11 DEF Begin, InstallArtifact, CheckSlot, Skip, SetPending, StartHandler
<1>12. CASE Mount \/ Umount \/ MountSeed \/ UmountSeed
    BY <1>12 DEF Mount, Umount, MountSeed, UmountSeed
<1>13. CASE HandlerFailed \/ HandlerDone \/ Finish
    BY <1>13 DEF HandlerFailed, HandlerDone, Finish
<1>14. CASE UNCHANGED vars
    BY <1>14 DEF vars
<1> QED BY <1>3, <1>4, <1>5, <1>6, <1>7, <1>8, <1>9, <1>10, <1>11, <1>12, <1>13, <1>14 DEF Next

----------------------------------------------------------------------------
(* The types of the plan and the statuses. *)

LEMMA OutcomeTypes ==
    ASSUME PlanTypeOK, NEW s \in Statuses
    PROVE  /\ \A o \in Saves(s) : o.file \in {s, saved}
           /\ \A o \in Loads : o.file \in Statuses
<1>1. NoStatus \in Statuses
    BY DEF NoStatus, Statuses
<1>2. \A o \in Saves(s) : o.file \in {s, saved}
    BY DEF Saves, Outcome
<1>3. \A o \in Loads : o.file \in Statuses
    BY <1>1 DEF Loads, Outcome, PlanTypeOK
<1> QED BY <1>2, <1>3

LEMMA IndexTypes ==
    ASSUME indexes \subseteq Indexes
    PROVE  /\ \A s : Cleaned(indexes, s) \subseteq Indexes
           /\ \A digest : MovedAway(digest) \subseteq Indexes
           /\ \A i \in Images : Exported(i.digest, i.chunks) \subseteq Indexes
<1>1. \A s : Cleaned(indexes, s) \subseteq Indexes
    BY DEF Cleaned
<1>2. \A digest : MovedAway(digest) \subseteq Indexes
    <2>1. \A x \in Indexes : [x EXCEPT !.of = NoDigest] \in Indexes
        BY DEF Indexes
    <2> QED BY <2>1 DEF MovedAway
<1>3. \A i \in Images : Exported(i.digest, i.chunks) \subseteq Indexes
    BY ImagesAssumption DEF Exported, Indexes
<1> QED BY <1>1, <1>2, <1>3

LEMMA PlanTypeNext ==
    ASSUME CopyIInv, PlanTypeOK, [Next]_vars
    PROVE  PlanTypeOK'
<1> DEFINE Plans == Seq(Images \cup {Artifact})
           Listed == pc \in {"checked", "handler", "failed"} =>
                         plans # <<>> /\ image \in Images /\ memory # None
<1> USE NoneAssumption DEF image
<1>1. /\ type \in Types /\ plans \in Plans /\ indexes \subseteq Indexes
      /\ memory \in Statuses \cup {None} /\ saved \in Statuses
      /\ prog \in Programs /\ Listed
    BY DEF PlanTypeOK
<1>2. /\ <<>> \in Programs /\ <<>> \in Plans
      /\ prog # <<>> => Tail(prog) \in Programs
      /\ plans # <<>> => Tail(plans) \in Plans
    BY <1>1 DEF Programs
<1>3. type' = type
    BY DEF Next, vars, config, Begin, InstallArtifact, CheckSlot, Skip, SetPending, StartHandler, Mount,
           Umount, RunHook, RunTool, MountSeed, UmountSeed, UnpackFile, Unpacked, OpenDevice,
           CopyChunk, GiveUpAdaptive, Flush, CloseDevice, BootedWrites, StepFails, HandlerFailed,
           HandlerDone, Finish, RestartService, PowerCut, Undisturbed
<1>4. ASSUME plans' = plans, pc' = pc \/ (pc = "handler" /\ pc' = "failed") \/ pc' = "dead",
             memory' = memory \/ memory' \in Statuses
      PROVE  plans' \in Plans /\ Listed'
    BY <1>1, <1>4
<1>5. ASSUME plans' \in Plans, pc' \in {"idle", "dead", "next"} PROVE plans' \in Plans /\ Listed'
    BY <1>5
<1>6. ASSUME NEW t, EndAs(t) PROVE plans' \in Plans /\ Listed' /\ prog' \in Programs
    BY <1>2, <1>6 DEF EndAs
<1>7. ASSUME NEW state \in {"ok", "failed"}, image \in Images PROVE Recorded(state) \in Statuses
    BY <1>7 DEF Recorded, Statuses
<1>8. ASSUME type' \in Types, plans' \in Plans, indexes' \subseteq Indexes,
             memory' \in Statuses \cup {None}, saved' \in Statuses, prog' \in Programs, Listed'
      PROVE  PlanTypeOK'
    BY <1>8 DEF PlanTypeOK
<1>9. NoStatus \in Statuses
    BY DEF NoStatus, Statuses
<1> HIDE DEF Plans, Listed
<1>10. CASE Begin
    <2>1. \A b \in Bundles : b \in Plans
        <3>1. \A i \in Images : <<i>> \in Plans /\ <<Artifact, i>> \in Plans
            BY DEF Plans
        <3> QED BY MixedAssumption, <3>1 DEF Bundles
    <2> QED BY <1>1, <1>3, <1>5, <1>8, <1>10, <2>1 DEF Begin, status
<1>11. CASE InstallArtifact
    <2>1. CASE \E t : EndAs(t)
        BY <1>1, <1>3, <1>6, <1>8, <1>11, <2>1 DEF InstallArtifact, status
    <2>2. CASE plans' = Tail(plans) /\ UNCHANGED <<pc, prog>>
        BY <1>1, <1>2, <1>3, <1>5, <1>8, <1>11, <2>2 DEF InstallArtifact, status
    <2> QED BY <1>11, <2>1, <2>2 DEF InstallArtifact
<1>12. CASE CheckSlot
    <2>1. /\ memory' \in Statuses /\ saved' = saved
          /\ indexes' \subseteq Indexes
        BY <1>1, <1>9, <1>12, OutcomeTypes, IndexTypes DEF CheckSlot
    <2>2. CASE \E t : EndAs(t)
        BY <1>1, <1>3, <1>6, <1>8, <2>1, <2>2
    <2>3. CASE pc' = "checked" /\ UNCHANGED <<plans, prog>>
        <3>1. plans # <<>> /\ image.kind # "artifact"
            BY <1>12 DEF CheckSlot
        <3>2. image \in Images \cup {Artifact}
            BY <1>1, <3>1 DEF Plans
        <3>4. image \in Images
            BY <3>1, <3>2 DEF Artifact
        <3>3. Listed'
            BY <2>1, <2>3, <3>1, <3>4 DEF Listed
        <3> QED BY <1>1, <1>3, <1>8, <2>1, <2>3, <3>3
    <2> QED BY <1>12, <2>2, <2>3 DEF CheckSlot
<1>13. CASE Skip
    <2>1. memory \in Statuses
        BY <1>1, <1>13 DEF Skip, UpToDate, Statuses, Listed
    <2>2. saved' \in Statuses /\ memory' = memory /\ indexes' = indexes
        BY <1>1, <1>13, <2>1, OutcomeTypes DEF Skip
    <2>3. CASE \E t : EndAs(t)
        BY <1>1, <1>3, <1>6, <1>8, <2>2, <2>3
    <2>4. CASE plans' = Tail(plans) /\ pc' = "next" /\ UNCHANGED prog
        <3>1. plans # <<>>
            BY <1>1, <1>13 DEF Skip, Listed
        <3> QED BY <1>1, <1>2, <1>3, <1>5, <1>8, <2>2, <2>4, <3>1
    <2> QED BY <1>13, <2>3, <2>4 DEF Skip
<1>14. CASE SetPending
    <2> DEFINE pending == [state |-> "pending", digest |-> NoDigest]
    <2>1. pending \in Statuses /\ [pending EXCEPT !.state = "update"] \in Statuses
        BY DEF Statuses
    <2>2. saved' \in Statuses /\ memory' \in Statuses /\ indexes' \subseteq Indexes
        BY <1>1, <1>14, <2>1, OutcomeTypes, IndexTypes DEF SetPending
    <2>3. CASE \E t : EndAs(t)
        BY <1>1, <1>3, <1>6, <1>8, <2>2, <2>3
    <2>4. CASE prog' = Handler /\ pc' = "handler" /\ UNCHANGED plans
        <3>1. Handler \in Programs
            BY <1>1, <1>14, HandlerPrograms DEF SetPending, Listed
        <3>2. plans' \in Plans /\ Listed'
            BY <1>1, <1>14, <2>2, <2>4 DEF SetPending, Listed
        <3> QED BY <1>1, <1>3, <1>8, <2>2, <2>4, <3>1, <3>2
    <2> QED BY <1>14, <2>3, <2>4 DEF SetPending
<1>15. CASE StartHandler
    <2>1. image \in Images /\ memory \in Statuses /\ plans # <<>>
        BY <1>1, <1>15 DEF StartHandler, Listed
    <2>2. [memory EXCEPT !.state = "update"] \in Statuses
        BY <2>1 DEF Statuses
    <2>3. Handler \in Programs
        BY <1>1, <2>1, HandlerPrograms
    <2>4. plans' \in Plans /\ Listed'
        BY <1>1, <1>15, <2>1, <2>2 DEF StartHandler, Listed
    <2> QED BY <1>1, <1>3, <1>8, <1>15, <2>2, <2>3, <2>4 DEF StartHandler
\* The handler's own steps go on with the rest of the program, or with a part of it.
<1>16. ASSUME UNCHANGED <<memory, plans>>, indexes' \subseteq Indexes,
              saved' \in {saved, NoStatus}, prog' \in Programs,
              pc' = pc \/ (pc = "handler" /\ pc' = "failed") \/ pc' = "dead"
       PROVE  PlanTypeOK'
    BY <1>1, <1>3, <1>4, <1>8, <1>9, <1>16
<1>17. CASE Mount \/ Umount \/ UmountSeed \/ Unpacked \/ CloseDevice
    <2>1. /\ UNCHANGED <<memory, saved, plans, indexes>>
          /\ pc' = pc \/ pc' = "dead"
          /\ prog # <<>> /\ prog' \in {prog, Tail(prog)}
        BY <1>17 DEF Mount, Umount, UmountSeed, Unpacked, Unpacking, CloseDevice, Copying, Doing,
                    Proceed, Undisturbed, status
    <2> QED BY <1>1, <1>2, <1>16, <2>1
<1>18. CASE RunHook \/ RunTool
    <2>1. /\ UNCHANGED <<memory, plans, indexes, pc>> /\ saved' \in {saved, NoStatus}
          /\ prog # <<>> /\ prog' = Tail(prog)
        BY <1>18 DEF RunHook, RunTool, Doing, Proceed, Overwritten, StatusMayGo
    <2> QED BY <1>1, <1>2, <1>16, <2>1
<1>19. CASE MountSeed
    <2>1. UNCHANGED <<memory, saved, plans, indexes, pc>> /\ prog # <<>>
        BY <1>19 DEF MountSeed, Doing, Undisturbed, status
    <2>2. prog' \in Programs
        BY <1>1, <1>2, <1>19, <2>1, SeedDropped DEF MountSeed
    <2> QED BY <1>1, <1>16, <2>1, <2>2
<1>20. CASE UnpackFile \/ CopyChunk
    <2>1. UNCHANGED <<memory, plans, indexes, pc, prog>> /\ saved' \in {saved, NoStatus}
        BY <1>20 DEF UnpackFile, CopyChunk, Overwritten, StatusMayGo
    <2> QED BY <1>1, <1>16, <2>1
<1>21. CASE OpenDevice \/ GiveUpAdaptive \/ BootedWrites
    BY <1>1, <1>16, <1>21 DEF OpenDevice, GiveUpAdaptive, BootedWrites, status
<1>22. CASE Flush
    <2>1. UNCHANGED <<memory, saved, plans, pc, prog>> /\ image \in Images
        BY <1>1, <1>22 DEF Flush, Copying, Doing, status, Listed
    <2>2. indexes' \subseteq Indexes
        BY <1>1, <1>22, <2>1, IndexTypes DEF Flush
    <2> QED BY <1>1, <1>16, <2>1, <2>2
<1>23. CASE StepFails
    BY <1>1, <1>2, <1>16, <1>23 DEF StepFails, status
<1>24. CASE HandlerFailed
    <2>1. image \in Images
        BY <1>1, <1>24 DEF HandlerFailed, Listed
    <2>2. /\ memory' \in Statuses /\ saved' \in Statuses
          /\ indexes' \subseteq Indexes
        BY <1>1, <1>7, <1>24, <2>1, OutcomeTypes, IndexTypes DEF HandlerFailed
    <2>3. CASE \E t : EndAs(t)
        BY <1>1, <1>3, <1>6, <1>8, <2>2, <2>3
    <2>4. CASE pc' = "dead" /\ UNCHANGED <<plans, prog>>
        BY <1>1, <1>3, <1>4, <1>8, <2>2, <2>4
    <2> QED BY <1>24, <2>3, <2>4 DEF HandlerFailed
<1>25. CASE HandlerDone
    <2>1. image \in Images /\ plans # <<>>
        BY <1>1, <1>25 DEF HandlerDone, Listed
    <2>2. /\ memory' \in Statuses /\ saved' \in Statuses
          /\ indexes' \subseteq Indexes
        BY <1>1, <1>7, <1>25, <2>1, OutcomeTypes, IndexTypes DEF HandlerDone
    <2>3. CASE \E t : EndAs(t)
        BY <1>1, <1>3, <1>6, <1>8, <2>2, <2>3
    <2>4. CASE plans' = Tail(plans) /\ pc' = "next" /\ UNCHANGED prog
        BY <1>1, <1>2, <1>3, <1>5, <1>8, <2>1, <2>2, <2>4
    <2> QED BY <1>25, <2>3, <2>4 DEF HandlerDone
<1>26. CASE Finish
    BY <1>1, <1>3, <1>6, <1>8, <1>26 DEF Finish, status
<1>27. CASE RestartService \/ PowerCut
    <2>1. saved' \in {saved, NoStatus}
        BY <1>27 DEF RestartService, PowerCut, StatusMayGo
    <2> QED BY <1>1, <1>2, <1>3, <1>5, <1>8, <1>9, <1>27, <2>1 DEF RestartService, PowerCut, Stop
<1>28. CASE UNCHANGED vars
    BY <1>1, <1>3, <1>4, <1>8, <1>28 DEF vars, status
<1> QED
    BY <1>10, <1>11, <1>12, <1>13, <1>14, <1>15, <1>17, <1>18, <1>19, <1>20, <1>21, <1>22, <1>23,
       <1>24, <1>25, <1>26, <1>27, <1>28 DEF Next

----------------------------------------------------------------------------
(* What is copied or unpacked. *)

LEMMA JobNext ==
    ASSUME CopyIInv, PlanTypeOK, JobFits, [Next]_vars
    PROVE  JobFits'
<1> USE SlotsAssumption DEF image
<1> DEFINE Arrived ==
        job.phase = "files" =>
            /\ job.next \in Nat
            /\ \A p \in 1..job.next : p \in DOMAIN Content /\ Content[p] = job.source[p]
           Placed ==
            /\ pc = "handler" /\ prog # <<>>
            /\ Head(prog) \in IF job.phase = "files" THEN {"unpack", "extract"} ELSE {"copy", "stream"}
            /\ job.source = image.chunks
            /\ job.target = Target
<1>1. /\ JobFits = (job.phase # "none" => Placed /\ Arrived)
      /\ JobFits' = (job'.phase # "none" => Placed' /\ Arrived')
    BY DEF JobFits
<1>2. /\ disk \in [Devices -> Seq(Chunks)]
      /\ job \in Jobs
    BY DEF CopyIInv, CopyTypeOK
<1>3. NoJob.phase = "none"
    BY DEF NoJob
<1>4. ASSUME job' = NoJob PROVE JobFits'
    BY <1>1, <1>3, <1>4
<1>5. ASSUME job' = job, disk' = disk PROVE Arrived => Arrived'
    BY <1>5 DEF Content
<1>6. ASSUME job' = job, disk' = disk,
             \/ pc # "handler" \/ prog = <<>>
             \/ Head(prog) \notin {"copy", "stream", "unpack", "extract"}
      PROVE  JobFits'
    BY <1>1, <1>6
<1>7. ASSUME UNCHANGED <<pc, prog, plans>>, job' = job, disk' = disk PROVE JobFits'
    <2>1. Placed' = Placed
        BY <1>7
    <2> HIDE DEF Placed, Arrived
    <2> QED BY <1>1, <1>5, <1>7, <2>1
<1>8. CASE Begin \/ InstallArtifact \/ CheckSlot \/ Skip \/ SetPending \/ StartHandler
    BY <1>6, <1>8 DEF Begin, InstallArtifact, CheckSlot, Skip, SetPending, StartHandler
<1>9. CASE HandlerFailed \/ HandlerDone \/ Finish
    BY <1>6, <1>9 DEF HandlerFailed, HandlerDone, Finish
<1>10. CASE Mount \/ Umount \/ MountSeed \/ UmountSeed
    <2>1. Head(prog) \in {"mount", "umount", "seed", "unseed"} /\ job' = job /\ disk' = disk
        BY <1>10 DEF Mount, Umount, MountSeed, UmountSeed, Doing
    <2> QED BY <1>6, <2>1
<1>11. CASE RunHook \/ RunTool \/ Unpacked \/ CloseDevice \/ StepFails \/ RestartService \/ PowerCut
    BY <1>4, <1>11 DEF RunHook, RunTool, Unpacked, CloseDevice, StepFails, RestartService, PowerCut, Stop
<1>12. CASE UnpackFile
    <2>1. /\ pc' = "handler" /\ prog' # <<>> /\ Head(prog') \in {"unpack", "extract"} /\ plans' = plans
          /\ pc = "handler" /\ prog # <<>> /\ prog' = prog
          /\ job' = IF job.phase = "files" THEN [job EXCEPT !.next = job.next + 1]
                    ELSE [NoJob EXCEPT !.phase = "files", !.target = Target,
                                       !.source = image.chunks, !.next = 1]
          /\ job'.next <= Len(image.chunks) /\ job'.next <= Len(disk[Target])
          /\ disk' = [disk EXCEPT ![Target][job'.next] = image.chunks[job'.next]]
        BY <1>12 DEF UnpackFile, Unpacking, Doing
    <2> DEFINE n == job'.next - 1
    <2>2. /\ n \in Nat /\ job'.next = n + 1
          /\ job'.phase = "files" /\ job'.source = image.chunks /\ job'.target = Target
          /\ \A p \in 1..n : p \in DOMAIN disk[Target] /\ disk[Target][p] = image.chunks[p]
        <3>1. CASE job.phase = "files"
            <4>1. /\ job'.next = job.next + 1 /\ job'.phase = "files"
                  /\ job'.source = job.source /\ job'.target = job.target
                BY <1>2, <2>1, <3>1 DEF Jobs
            <4>2. Placed /\ Arrived
                BY <1>1, <3>1
            <4>3. job.next \in Nat /\ job.source = image.chunks /\ job.target = Target
                BY <3>1, <4>2
            <4>4. n = job.next
                BY <4>1, <4>3
            <4>5. \A p \in 1..job.next : p \in DOMAIN disk[Target] /\ disk[Target][p] = image.chunks[p]
                BY <3>1, <4>2, <4>3 DEF Content
            <4> QED BY <4>1, <4>3, <4>4, <4>5
        <3>2. CASE job.phase # "files"
            <4>1. job' = [NoJob EXCEPT !.phase = "files", !.target = Target,
                                       !.source = image.chunks, !.next = 1]
                BY <2>1, <3>2
            <4>2. /\ job'.next = 1 /\ job'.phase = "files"
                  /\ job'.source = image.chunks /\ job'.target = Target
                BY <4>1 DEF NoJob
            <4>3. n = 0
                BY <4>2
            <4> QED BY <4>2, <4>3
        <3> QED BY <3>1, <3>2
    <2> HIDE DEF n
    <2>3. disk[Target] \in Seq(Chunks)
        BY <1>2
    <2>4. disk'[Target] = [disk[Target] EXCEPT ![n + 1] = image.chunks[n + 1]]
        BY <1>2, <2>1, <2>2
    <2>5. n + 1 \in DOMAIN disk[Target]
        <3>1. n + 1 <= Len(disk[Target])
            BY <2>1, <2>2
        <3> QED BY <2>2, <2>3, <3>1
    <2>6. Content' = disk'[Target]
        BY <2>2 DEF Content
    <2>7. ASSUME NEW p \in 1..(n + 1)
          PROVE  p \in DOMAIN Content' /\ Content'[p] = image.chunks[p]
        <3>1. DOMAIN Content' = DOMAIN disk[Target]
            BY <2>4, <2>6
        <3>2. CASE p = n + 1
            BY <2>4, <2>5, <2>6, <3>1, <3>2
        <3>3. CASE p # n + 1
            <4>1. p \in 1..n
                BY <2>2, <3>3
            <4>2. p \in DOMAIN disk[Target] /\ disk[Target][p] = image.chunks[p]
                BY <2>2, <4>1
            <4> QED BY <2>4, <2>6, <3>1, <3>3, <4>2
        <3> QED BY <3>2, <3>3
    <2>8. Arrived'
        BY <2>2, <2>7
    <2>9. Placed'
        BY <2>1, <2>2
    <2> HIDE DEF Arrived, Placed
    <2> QED BY <1>1, <2>8, <2>9
<1>13. CASE OpenDevice
    <2>1. /\ pc' = "handler" /\ prog' # <<>> /\ Head(prog') \in {"copy", "stream"} /\ plans' = plans
          /\ job'.source = image.chunks /\ job'.target = Target /\ job'.phase \in {"adaptive", "raw"}
        BY <1>13 DEF OpenDevice, Copying, Doing, StartCopy
    <2> QED BY <1>1, <2>1
<1>14. CASE CopyChunk \/ GiveUpAdaptive \/ Flush \/ BootedWrites
    <2>1. /\ pc' = "handler" /\ prog' # <<>> /\ Head(prog') \in {"copy", "stream"} /\ plans' = plans
          /\ Head(prog) = Head(prog')
        BY <1>14 DEF CopyChunk, GiveUpAdaptive, Flush, BootedWrites, Copying, Doing
    <2>2. /\ job.phase \in {"adaptive", "raw"}
          /\ job'.phase \in {"adaptive", "raw", "done"}
          /\ job'.source = job.source /\ job'.target = job.target
        <3>1. CASE CopyChunk
            <4>1. job' = [job EXCEPT !.next = job.next + 1] /\ job.phase \in {"adaptive", "raw"}
                BY <3>1 DEF CopyChunk, AdaptiveChunk, RawChunk
            <4> QED BY <1>2, <4>1 DEF Jobs
        <3>2. CASE GiveUpAdaptive
            <4>1. job' = [job EXCEPT !.phase = "raw", !.next = 0] /\ job.phase = "adaptive"
                BY <3>2 DEF GiveUpAdaptive, AdaptiveFails
            <4> QED BY <1>2, <4>1 DEF Jobs
        <3>3. CASE Flush
            <4>1. job' = [job EXCEPT !.phase = "done"] /\ job.phase \in {"adaptive", "raw"}
                BY <3>3 DEF Flush, Sync
            <4> QED BY <1>2, <4>1 DEF Jobs
        <3>4. CASE BootedWrites
            BY <3>4 DEF BootedWrites, SeedChanges
        <3> QED BY <1>14, <3>1, <3>2, <3>3, <3>4
    <2>3. Placed
        BY <1>1, <2>2
    <2> QED BY <1>1, <2>1, <2>2, <2>3
<1>15. CASE UNCHANGED vars
    BY <1>7, <1>15 DEF vars
<1> QED BY <1>8, <1>9, <1>10, <1>11, <1>12, <1>13, <1>14, <1>15 DEF Next

----------------------------------------------------------------------------
(* The central status file. *)

LEMMA CentralOutcomes ==
    ASSUME central, NEW s
    PROVE  /\ \A o \in Saves(s) : o.file \in {s, saved} /\ ~o.mounted /\ (o.ok => o.file = s)
           /\ \A o \in Loads : /\ memory # None => o.file = memory
                               /\ memory = None => o.file = saved
                               /\ Target \notin held => ~o.mounted
<1>1. ASSUME NEW o \in Saves(s)
      PROVE  o.file \in {s, saved} /\ ~o.mounted /\ (o.ok => o.file = s)
    <2>1. o = Outcome(TRUE, FALSE, s, FALSE) \/ o = Outcome(FALSE, TRUE, saved, FALSE)
        BY DEF Saves
    <2> QED BY <2>1 DEF Outcome
<1>2. ASSUME NEW o \in Loads
      PROVE  /\ memory # None => o.file = memory
             /\ memory = None => o.file = saved
             /\ Target \notin held => ~o.mounted
    <2>1. CASE memory # None
        <3>1. o = Outcome(TRUE, FALSE, memory, Target \in held)
            BY <2>1 DEF Loads
        <3> QED BY <2>1, <3>1 DEF Outcome
    <2>2. CASE memory = None
        <3>1. o = Outcome(TRUE, FALSE, saved, Target \in held)
            BY <2>2 DEF Loads
        <3> QED BY <2>2, <3>1 DEF Outcome
    <2> QED BY <2>1, <2>2
<1> QED BY <1>1, <1>2

\* A status stays right while the slot is left alone.
LEMMA RightKept ==
    ASSUME UNCHANGED <<disk, type, whole, writes>>, NEW s, Right(s)
    PROVE  Right(s)'
BY DEF Right, Carries, Unflushed, HooksMounted, ToFs, Archive, Chunked

\* A loss of power may take what is not flushed.
LEMMA RightAfterPowerCut ==
    ASSUME PowerCut, NEW s, Right(s)
    PROVE  Right(s)'
<1>1. whole' = whole /\ type' = type
    BY DEF PowerCut, config
<1>2. CASE writes = "cached" /\ writes' = "lost"
    BY <1>1, <1>2 DEF Right, Unflushed, HooksMounted, ToFs, Archive, Chunked
<1>3. CASE writes = "cached" /\ writes' = "flushed" /\ disk' = disk
    BY <1>1, <1>3 DEF Right, Carries
<1>4. CASE UNCHANGED <<disk, writes>>
    BY <1>1, <1>4, RightKept
<1> QED BY <1>2, <1>3, <1>4 DEF PowerCut

\* What a copy, an archive or a chunk index leaves when it has come to its end.
LEMMA BroughtWhole ==
    ASSUME CopyIInv, PlanTypeOK, JobFits, Unpacked \/ CloseDevice
    PROVE  Carries(image)'
<1>1. disk' = disk /\ image' = image /\ job.phase \in {"files", "done"}
    BY DEF Unpacked, CloseDevice, Proceed, image
<1>2. job.source = image.chunks /\ job.target = Target
    BY <1>1 DEF JobFits
<1>3. image.chunks \in Seq(Chunks)
    BY <1>1, ImageType DEF JobFits
<1>4. Content \in Seq(Chunks)
    <2>1. job.target \in Devices /\ disk \in [Devices -> Seq(Chunks)]
        BY <1>1 DEF CopyIInv, CopyTypeOK
    <2> QED BY <2>1 DEF Content
<1>5. \A p \in 1..Len(image.chunks) : p \in DOMAIN Content /\ Content[p] = image.chunks[p]
    <2>1. CASE Unpacked
        <3>1. job.phase = "files" /\ job.next = Len(image.chunks)
            BY <2>1 DEF Unpacked
        <3> QED BY <1>2, <3>1 DEF JobFits
    <2>2. CASE CloseDevice
        <3>1. Holds(Len(image.chunks))
            BY <1>2, <2>2 DEF CloseDevice, CopyIInv
        <3>2. Len(image.chunks) \in Nat /\ Len(Content) \in Nat /\ DOMAIN Content = 1..Len(Content)
            BY <1>3, <1>4
        <3> QED BY <1>2, <3>1, <3>2 DEF Holds
    <2> QED BY <2>1, <2>2
<1>6. DOMAIN image.chunks = 1..Len(image.chunks)
    BY <1>3
<1> QED BY <1>1, <1>2, <1>5, <1>6 DEF Carries, Content

LEMMA CentralNext ==
    ASSUME CopyIInv, PlanTypeOK, JobFits, CentralInv, [Next]_vars
    PROVE  CentralInv'
<1>1. central' = central /\ type' = type
    BY DEF Next, vars, config, Begin, InstallArtifact, CheckSlot, Skip, SetPending, StartHandler, Mount,
           Umount, RunHook, RunTool, MountSeed, UmountSeed, UnpackFile, Unpacked, OpenDevice,
           CopyChunk, GiveUpAdaptive, Flush, CloseDevice, BootedWrites, StepFails, HandlerFailed,
           HandlerDone, Finish, RestartService, PowerCut, Undisturbed
<1> SUFFICES ASSUME central PROVE Fitting' /\ Recording'
    BY <1>1 DEF CentralInv
<1>2. Fitting /\ Recording
    BY DEF CentralInv
<1>3. ASSUME pc' # "handler" PROVE Fitting'
    BY <1>3 DEF Fitting
<1>4. ASSUME NEW t, EndAs(t) PROVE pc' \in {"idle", "dead"}
    BY <1>4 DEF EndAs
<1>5. NoJob.phase # "done"
    BY DEF NoJob
\* What a handler's step leaves to be done, by the step.
<1>6. ASSUME pc = "handler", prog # <<>>
      PROVE  /\ prog \in Programs /\ Closed(prog) /\ Seeded(prog)
             /\ Closed(Tail(prog)) /\ Seeded(Tail(prog))
             /\ Head(prog) \in {"mount", "unpack"} => Unmounts(Tail(prog))
             /\ Target \in held \cup mounts => Head(prog) = "umount" \/ Unmounts(Tail(prog))
             /\ Followed(Tail(prog), Before, Bringing) /\ Followed(Tail(prog), Barred, {})
             /\ Head(prog) \notin Barred
             /\ Head(prog) \in Before => Has(Tail(prog), Bringing)
             /\ Head(prog) \in Bringing \/ Has(Tail(prog), Bringing) \/ Carries(image)
             /\ Head(prog) \in Bringing => Has(prog, Bringing)
             /\ ~Unflushed(image) =>
                    /\ Followed(Tail(prog), Dirtying, Flushing)
                    /\ Head(prog) \in Dirtying => Has(Tail(prog), Flushing) /\ Has(prog, Flushing)
                    /\ Head(prog) \in Flushing => Has(prog, Flushing)
                    /\ writes # "flushed" => Head(prog) \in Flushing \/ Has(Tail(prog), Flushing)
    <2>1. prog \in Programs /\ Closed(prog) /\ Seeded(prog)
        BY <1>2, <1>6 DEF Fitting, PlanTypeOK
    <2>2. /\ Closed(Tail(prog)) /\ Seeded(Tail(prog))
          /\ Head(prog) \in {"mount", "unpack"} => Unmounts(Tail(prog))
          /\ Target \in held \cup mounts => Head(prog) = "umount" \/ Unmounts(Tail(prog))
        BY <1>2, <1>6, <2>1, ProgramTail DEF Fitting
    <2>3. ~Has(Tail(prog), {})
        BY DEF Has
    <2>4. /\ Followed(Tail(prog), Barred, {}) /\ Head(prog) \notin Barred
        BY <1>2, <1>6, <2>1, <2>3, FollowedTail DEF Fitting
    <2>5. /\ Followed(Tail(prog), Before, Bringing)
          /\ Head(prog) \in Before => Has(Tail(prog), Bringing)
          /\ Head(prog) \in Bringing \/ Has(Tail(prog), Bringing) \/ Carries(image)
          /\ Head(prog) \in Bringing => Has(prog, Bringing)
        BY <1>2, <1>6, <2>1, FollowedTail DEF Fitting
    <2>6. ASSUME ~Unflushed(image)
          PROVE  /\ Followed(Tail(prog), Dirtying, Flushing)
                 /\ Head(prog) \in Dirtying => Has(Tail(prog), Flushing) /\ Has(prog, Flushing)
                 /\ Head(prog) \in Flushing => Has(prog, Flushing)
                 /\ writes # "flushed" => Head(prog) \in Flushing \/ Has(Tail(prog), Flushing)
        BY <1>2, <1>6, <2>1, <2>6, FollowedTail DEF Fitting
    <2> QED BY <2>1, <2>2, <2>4, <2>5, <2>6
\* While the slot is written, no status says "ok".
<1>7. ASSUME pc = "handler", pc' \in {"handler", "failed", "dead"},
             UNCHANGED <<memory, saved>>, job'.phase = "done" => writes' = "flushed"
      PROVE  Recording'
    BY <1>2, <1>7 DEF Recording, Right
<1>8. ASSUME UNCHANGED <<disk, whole, writes>>, NEW s, Right(s) PROVE Right(s)'
    BY <1>1, <1>8, RightKept
<1>9. ASSUME UNCHANGED <<disk, memory, saved, whole, writes, held, mounts, job>>,
             pc' \in {"idle", "dead"} \/ (pc = "next" /\ pc' = "next")
      PROVE  Recording'
    <2>1. Right(saved)' /\ (memory' # None => Right(memory)')
        BY <1>2, <1>8, <1>9 DEF Recording, Right
    <2> QED BY <1>2, <1>9, <2>1 DEF Recording
\* What the image asks for, and how its handler ends, does not change.
<1>10. ASSUME plans' = plans
       PROVE  /\ image' = image /\ Barred' = Barred
              /\ Unflushed(image)' <=> Unflushed(image)
              /\ disk' = disk => (Carries(image)' <=> Carries(image))
    <2>1. image' = image
        BY <1>10 DEF image
    <2> QED BY <1>1, <2>1 DEF Barred, Carries, Unflushed, HooksMounted, ToFs, Archive, Chunked
\* A step that the program advances by.
<1>11. ASSUME pc = "handler", prog # <<>>, UNCHANGED <<pc, plans>>, prog' = Tail(prog),
              \/ Target \notin held' \cup mounts'
              \/ Head(prog) = "mount"
              \/ Target \in held \cup mounts /\ Head(prog) # "umount",
              \/ writes' = "flushed"
              \/ writes' = writes /\ Head(prog) \notin Flushing
              \/ Head(prog) \in Dirtying,
              Has(Tail(prog), Bringing) \/ Carries(image)'
       PROVE  Fitting'
    <2>1. /\ Closed(prog') /\ Seeded(prog')
          /\ Followed(prog', Before, Bringing) /\ Followed(prog', Barred', {})
          /\ Has(prog', Bringing) \/ Carries(image)'
        BY <1>6, <1>10, <1>11
    <2>2. Target \in held' \cup mounts' => Unmounts(prog')
        BY <1>6, <1>11
    <2>3. ASSUME ~Unflushed(image)'
          PROVE  Followed(prog', Dirtying, Flushing) /\ (writes' # "flushed" => Has(prog', Flushing))
        <3>1. ~Unflushed(image)
            BY <1>10, <1>11, <2>3
        <3> QED BY <1>6, <1>11, <3>1
    <2> QED BY <2>1, <2>2, <2>3 DEF Fitting
\* One that neither brings anything nor touches the slot.
<1>12. ASSUME pc = "handler", prog # <<>>, UNCHANGED <<pc, plans, disk, writes>>,
              prog' = Tail(prog), Head(prog) \notin Bringing \cup Flushing,
              held' \cup mounts' \subseteq held \cup mounts \cup {Booted}
       PROVE  Fitting'
    <2>1. Has(Tail(prog), Bringing) \/ Carries(image)'
        BY <1>6, <1>10, <1>12
    <2>2. Target \in held' \cup mounts' => Target \in held \cup mounts
        BY <1>12, SlotsAssumption
    <2>3. Head(prog) # "umount"
        BY <1>12 DEF Flushing
    <2> QED BY <1>11, <1>12, <2>1, <2>2, <2>3
\* A step on the way of one that brings something.
<1>13. ASSUME pc = "handler", prog # <<>>, UNCHANGED <<pc, prog, plans, held, mounts>>,
              Head(prog) \in Bringing
       PROVE  Fitting'
    <2>1. Has(prog, Bringing) /\ Head(prog) \in Flushing \cup Dirtying
        BY <1>6, <1>13 DEF Bringing, Flushing, Dirtying
    <2>2. ~Unflushed(image) => Has(prog, Flushing)
        BY <1>6, <1>13, <2>1
    <2>3. /\ Closed(prog) /\ Seeded(prog)
          /\ Target \in held \cup mounts => Unmounts(prog)
          /\ Followed(prog, Before, Bringing) /\ Followed(prog, Barred, {})
          /\ ~Unflushed(image) => Followed(prog, Dirtying, Flushing)
        BY <1>2, <1>13 DEF Fitting
    <2>4. Barred' = Barred /\ (Unflushed(image)' <=> Unflushed(image))
        BY <1>10, <1>13
    <2>5. /\ Closed(prog') /\ Seeded(prog')
          /\ Target \in held' \cup mounts' => Unmounts(prog')
          /\ Followed(prog', Before, Bringing) /\ Followed(prog', Barred', {})
          /\ Has(prog', Bringing)
        BY <1>13, <2>1, <2>3, <2>4
    <2>6. ASSUME ~Unflushed(image)'
          PROVE  Followed(prog', Dirtying, Flushing) /\ Has(prog', Flushing)
        BY <1>13, <2>2, <2>3, <2>4, <2>6
    <2> QED BY <2>5, <2>6 DEF Fitting
<1>14. CASE Begin
    <2>1. /\ UNCHANGED <<disk, memory, saved, whole, writes, job>>
          /\ pc' = "next" /\ Target \notin held' \cup mounts'
        BY <1>14 DEF Begin, status, kernel, content
    <2>2. Right(saved)' /\ (memory' # None => Right(memory)')
        BY <1>2, <1>8, <2>1 DEF Recording, Right
    <2> QED BY <1>2, <1>3, <2>1, <2>2 DEF Recording
<1>15. CASE InstallArtifact
    <2>1. UNCHANGED <<disk, memory, saved, whole, writes, held, mounts, job>>
        BY <1>15 DEF InstallArtifact, status, kernel, content
    <2>2. pc' \in {"idle", "dead"} \/ (pc = "next" /\ pc' = "next")
        BY <1>4, <1>15 DEF InstallArtifact
    <2> QED BY <1>3, <1>9, <2>1, <2>2
<1>16. CASE CheckSlot
    <2>1. pc' \in {"idle", "dead", "checked"} /\ pc = "next"
        BY <1>4, <1>16 DEF CheckSlot
    <2>2. UNCHANGED <<disk, saved, whole, writes, held, mounts, job>>
        BY <1>2, <1>16, CentralOutcomes DEF CheckSlot, SetMounted, content, Recording
    <2>3. memory' = IF memory # None THEN memory ELSE saved
        BY <1>16, CentralOutcomes DEF CheckSlot
    <2>4. Right(saved)' /\ Right(memory)'
        <3>1. Right(saved) /\ (memory # None => Right(memory))
            BY <1>2 DEF Recording
        <3>2. UNCHANGED <<disk, type, whole, writes>>
            BY <1>1, <2>2
        <3> QED BY <2>2, <2>3, <3>1, <3>2
                DEF Right, Carries, Unflushed, HooksMounted, ToFs, Archive, Chunked
    <2> QED BY <1>2, <1>3, <2>1, <2>2, <2>4 DEF Recording
<1>17. CASE Skip
    <2>1. pc' \in {"idle", "dead", "next"} /\ pc = "checked"
        BY <1>4, <1>17 DEF Skip
    <2>2. UNCHANGED <<disk, memory, whole, writes, held, mounts, job>>
        BY <1>17, CentralOutcomes DEF Skip, SetMounted, content
    <2>3. saved' \in {memory, saved} /\ memory # None
        BY <1>17, <2>1, CentralOutcomes DEF Skip, PlanTypeOK
    <2>4. Right(saved)' /\ Right(memory)'
        <3>1. Right(saved) /\ Right(memory)
            BY <1>2, <2>3 DEF Recording
        <3>2. UNCHANGED <<disk, type, whole, writes>>
            BY <1>1, <2>2
        <3> QED BY <2>2, <2>3, <3>1, <3>2
                DEF Right, Carries, Unflushed, HooksMounted, ToFs, Archive, Chunked
    <2> QED BY <1>2, <1>3, <2>1, <2>2, <2>3, <2>4 DEF Recording
<1>18. CASE SetPending
    <2> DEFINE pending == [state |-> "pending", digest |-> NoDigest]
    <2>1. pending.state = "pending" /\ [pending EXCEPT !.state = "update"].state = "update"
        OBVIOUS
    <2>2. [pending EXCEPT !.state = "update"] # None
        BY NoneAssumption DEF Statuses
    <2>3. /\ UNCHANGED <<disk, whole, writes, held, mounts, job>>
          /\ saved' \in {pending, saved}
          /\ pc = "checked"
        BY <1>18, CentralOutcomes DEF SetPending, kernel, content
    <2>4. \/ saved' = pending /\ memory' = [pending EXCEPT !.state = "update"]
              /\ prog' = Handler /\ pc' = "handler" /\ plans' = plans
          \/ memory' = pending /\ pc' \in {"idle", "dead"}
        BY <1>4, <1>18, CentralOutcomes DEF SetPending
    <2> HIDE DEF pending
    <2>5. Right(saved)' /\ Right(memory)'
        <3>1. Right(saved)
            BY <1>2 DEF Recording
        <3>2. saved' = saved => Right(saved)'
            BY <1>8, <2>3, <3>1 DEF Right
        <3>3. saved' = pending => Right(saved)'
            BY <2>1 DEF Right
        <3>4. Right(memory)'
            BY <2>1, <2>4 DEF Right
        <3> QED BY <2>3, <3>2, <3>3, <3>4
    <2>6. Recording'
        BY <1>2, <2>1, <2>2, <2>3, <2>4, <2>5 DEF Recording
    <2>7. Fitting'
        <3>1. image \in Images /\ type \in Types
            BY <2>3 DEF PlanTypeOK
        <3>2. Target \notin held' \cup mounts'
            BY <1>2, <2>3 DEF Recording
        <3>3. CASE prog' = Handler /\ plans' = plans
            <4>1. /\ Closed(prog') /\ Seeded(prog')
                  /\ Followed(prog', Before, Bringing) /\ Followed(prog', Barred', {})
                  /\ Has(prog', Bringing)
                BY <1>10, <3>1, <3>3, HandlerPrograms, HandlerBrings
            <4>2. ~Unflushed(image)' => Followed(prog', Dirtying, Flushing) /\ Has(prog', Flushing)
                BY <1>10, <3>1, <3>3, HandlerFlushes
            <4> QED BY <3>2, <4>1, <4>2 DEF Fitting
        <3>4. CASE pc' \in {"idle", "dead"}
            BY <1>3, <3>4
        <3> QED BY <2>4, <3>3, <3>4
    <2> QED BY <2>6, <2>7
<1>19. CASE StartHandler
    BY <1>19 DEF StartHandler
<1>20. CASE Mount
    <2>1. /\ pc = "handler" /\ prog # <<>> /\ Head(prog) = "mount"
          /\ UNCHANGED <<disk, memory, saved, writes, job>>
        BY <1>20 DEF Mount, Doing, Undisturbed, status, content
    <2>2. pc' = "dead" \/ (prog' = Tail(prog) /\ pc' = pc /\ plans' = plans)
        BY <1>20 DEF Mount, Proceed
    <2>3. Head(prog) \notin Bringing \cup Flushing
        BY <2>1 DEF Bringing, Flushing
    <2>4. Fitting'
        <3>1. CASE pc' = "dead"
            BY <1>3, <3>1
        <3>2. CASE prog' = Tail(prog) /\ pc' = pc /\ plans' = plans
            <4>1. Has(Tail(prog), Bringing) \/ Carries(image)'
                BY <1>6, <1>10, <2>1, <2>3, <3>2
            <4> QED BY <1>11, <2>1, <2>3, <3>2, <4>1
        <3> QED BY <2>2, <3>1, <3>2
    <2> QED BY <1>2, <1>7, <2>1, <2>2, <2>4 DEF Recording
<1>21. CASE Umount
    <2>1. /\ pc = "handler" /\ prog # <<>> /\ prog' = Tail(prog) /\ pc' = pc /\ plans' = plans
          /\ Head(prog) = "umount"
          /\ UNCHANGED <<disk, memory, saved, job>> /\ writes' = "flushed"
          /\ Target \notin held' \cup mounts'
        BY <1>21 DEF Umount, Doing, Proceed, Undisturbed, status
    <2>2. Head(prog) \notin Bringing
        BY <2>1 DEF Bringing
    <2>3. Has(Tail(prog), Bringing) \/ Carries(image)'
        BY <1>6, <1>10, <2>1, <2>2
    <2> QED BY <1>7, <1>11, <2>1, <2>3
<1>22. CASE RunHook
    <2>1. /\ pc = "handler" /\ prog # <<>> /\ prog' = Tail(prog) /\ pc' = pc /\ plans' = plans
          /\ Head(prog) \in {"pre", "post", "install"}
          /\ UNCHANGED <<memory, saved, held, mounts>>
          /\ job' = NoJob
          /\ disk' \in {disk} \cup {[disk EXCEPT ![Target][1] = c] : c \in Chunks}
        BY <1>22 DEF RunHook, Doing, Proceed, Overwritten, StatusMayGo, kernel
    <2>2. Head(prog) \in Dirtying /\ Head(prog) # "umount"
        BY <2>1 DEF Dirtying
    <2>3. Has(Tail(prog), Bringing) \/ Carries(image)'
        <3>1. CASE Head(prog) = "pre"
            BY <1>6, <2>1, <3>1 DEF Before
        <3>2. CASE Head(prog) = "post"
            <4>1. "post" \in image.hooks
                BY <1>6, <2>1, <3>2 DEF Barred
            <4>2. Has(Tail(prog), Bringing) \/ Carries(image)
                BY <1>6, <2>1, <3>2 DEF Bringing
            <4>3. disk \in [Devices -> Seq(Chunks)] /\ Target \in Devices
                BY SlotsAssumption DEF CopyIInv, CopyTypeOK
            <4>4. /\ DOMAIN disk'[Target] = DOMAIN disk[Target]
                  /\ \A p \in DOMAIN disk[Target] : p # 1 => disk'[Target][p] = disk[Target][p]
                <5>1. CASE disk' = disk
                    BY <5>1
                <5>2. ASSUME NEW c \in Chunks, disk' = [disk EXCEPT ![Target][1] = c]
                      PROVE  disk'[Target] = [disk[Target] EXCEPT ![1] = c]
                    BY <4>3, <5>2
                <5> QED BY <2>1, <5>1, <5>2
            <4>5. image' = image
                BY <1>10, <2>1
            <4> QED BY <4>1, <4>2, <4>4, <4>5 DEF Carries
        <3>3. CASE Head(prog) = "install"
            <4>1. image.kind = "hook" /\ image' = image
                BY <1>6, <1>10, <2>1, <3>3 DEF Barred
            <4> QED BY <4>1 DEF Carries
        <3> QED BY <2>1, <3>1, <3>2, <3>3
    <2>4. Fitting'
        BY <1>11, <2>1, <2>2, <2>3
    <2> QED BY <1>5, <1>7, <2>1, <2>4
<1>23. CASE RunTool
    <2>1. /\ pc = "handler" /\ prog # <<>> /\ prog' = Tail(prog) /\ pc' = pc /\ plans' = plans
          /\ Head(prog) \in {"format", "resize", "volume"}
          /\ Head(prog) # "format" => disk' = disk
          /\ UNCHANGED <<memory, saved, held, mounts>>
          /\ writes' = "flushed"
          /\ job' = NoJob
        BY <1>23 DEF RunTool, Doing, Proceed, Overwritten, StatusMayGo, kernel
    <2>2. Head(prog) \notin Bringing /\ Head(prog) # "umount"
        BY <2>1 DEF Bringing
    <2>3. Has(Tail(prog), Bringing) \/ Carries(image)'
        <3>1. CASE Head(prog) = "format"
            BY <1>6, <2>1, <3>1 DEF Before
        <3>2. CASE Head(prog) # "format"
            BY <1>6, <1>10, <2>1, <2>2, <3>2
        <3> QED BY <3>1, <3>2
    <2>4. Fitting'
        BY <1>11, <2>1, <2>2, <2>3
    <2> QED BY <1>5, <1>7, <2>1, <2>4
<1>24. CASE MountSeed
    <2>1. /\ pc = "handler" /\ prog # <<>> /\ pc' = pc /\ plans' = plans /\ Head(prog) = "seed"
          /\ UNCHANGED <<disk, memory, saved, writes, job>>
          /\ held' \cup mounts' \subseteq held \cup mounts \cup {Booted}
        BY <1>24 DEF MountSeed, Doing, Undisturbed, status, content, kernel
    <2>2. prog' = Tail(prog) \/ prog' = <<"unpack">> \o SubSeq(prog, 4, Len(prog))
        BY <1>24 DEF MountSeed
    <2>3. CASE prog' = Tail(prog)
        <3>1. Head(prog) \notin Bringing \cup Flushing
            BY <2>1 DEF Flushing, Bringing
        <3> QED BY <1>2, <1>7, <1>12, <2>1, <2>3, <3>1 DEF Recording
    <2>4. CASE prog' = <<"unpack">> \o SubSeq(prog, 4, Len(prog))
        <3>1. Closed(prog') /\ Seeded(prog') /\ Unmounts(prog')
            BY <1>6, <2>1, <2>4, SeedDropped
        <3>2. prog \in Programs /\ Seeded(prog)
            BY <1>6, <2>1
        <3>3. /\ Followed(prog, Before, Bringing) /\ Followed(prog, Barred, {})
              /\ ~Unflushed(image) => Followed(prog, Dirtying, Flushing)
            BY <1>2, <2>1 DEF Fitting
        <3>4. Followed(prog', Before, Bringing) /\ Has(prog', Bringing)
            <4>1. "unpack" \notin Before /\ "unpack" \in Bringing
                BY DEF Before, Bringing
            <4> QED BY <2>1, <2>4, <3>2, <3>3, <4>1, FollowedSeedDropped
        <3>5. Followed(prog', Barred, {})
            <4>1. "unseed" \notin {}
                OBVIOUS
            <4> QED BY <2>1, <2>4, <3>2, <3>3, <4>1, FollowedSeedDropped
        <3>6. ~Unflushed(image) => Followed(prog', Dirtying, Flushing) /\ Has(prog', Flushing)
            <4>1. "unpack" \in Dirtying /\ "unseed" \notin Flushing
                BY DEF Dirtying, Flushing
            <4> QED BY <2>1, <2>4, <3>2, <3>3, <4>1, FollowedSeedDropped
        <3>7. Barred' = Barred /\ (Unflushed(image)' <=> Unflushed(image))
            BY <1>10, <2>1
        <3>8. Followed(prog', Barred', {})
            BY <3>5, <3>7
        <3>9. ~Unflushed(image)' => Followed(prog', Dirtying, Flushing) /\ Has(prog', Flushing)
            BY <3>6, <3>7
        <3>10. Fitting'
            BY <3>1, <3>4, <3>8, <3>9 DEF Fitting
        <3> QED BY <1>2, <1>7, <2>1, <3>10 DEF Recording
    <2> QED BY <2>2, <2>3, <2>4
<1>25. CASE UmountSeed
    <2>1. /\ pc = "handler" /\ prog # <<>> /\ pc' = pc /\ plans' = plans /\ Head(prog) = "unseed"
          /\ UNCHANGED <<disk, memory, saved, writes, job>>
          /\ held' \cup mounts' \subseteq held \cup mounts \cup {Booted}
          /\ prog' = Tail(prog)
        BY <1>25 DEF UmountSeed, Doing, Proceed, Undisturbed, status, content
    <2>2. Head(prog) \notin Bringing \cup Flushing
        BY <2>1 DEF Flushing, Bringing
    <2> QED BY <1>2, <1>7, <1>12, <2>1, <2>2 DEF Recording
<1>26. CASE UnpackFile
    <2>1. /\ pc = "handler" /\ prog # <<>> /\ Head(prog) \in {"unpack", "extract"}
          /\ UNCHANGED <<memory, saved, pc, plans, prog, held, mounts>>
        BY <1>26 DEF UnpackFile, Unpacking, Doing, Overwritten, StatusMayGo, kernel
    <2>2. job'.phase # "done"
        <3>1. CASE job.phase = "files"
            BY <1>26, <3>1 DEF UnpackFile, CopyIInv, CopyTypeOK, Jobs
        <3>2. CASE job.phase # "files"
            BY <1>26, <3>2 DEF UnpackFile, NoJob
        <3> QED BY <3>1, <3>2
    <2>3. Head(prog) \in Bringing
        BY <2>1 DEF Bringing
    <2> QED BY <1>7, <1>13, <2>1, <2>2, <2>3
<1>27. CASE Unpacked
    <2>1. /\ pc = "handler" /\ prog # <<>> /\ pc' = pc /\ plans' = plans /\ prog' = Tail(prog)
          /\ Head(prog) \in {"unpack", "extract"}
          /\ UNCHANGED <<memory, saved, writes, held, mounts>>
          /\ job' = NoJob
        BY <1>27 DEF Unpacked, Unpacking, Doing, Proceed, Undisturbed, status, content, kernel
    <2>2. Head(prog) \notin Flushing /\ Head(prog) # "umount"
        BY <2>1 DEF Flushing
    <2>3. Carries(image)'
        BY <1>27, BroughtWhole
    <2>4. Fitting'
        BY <1>11, <2>1, <2>2, <2>3
    <2> QED BY <1>5, <1>7, <2>1, <2>4
<1>28. ASSUME Copying
       PROVE  /\ pc = "handler" /\ prog # <<>>
              /\ Head(prog) \in Bringing /\ Head(prog) # "umount"
    BY <1>28 DEF Copying, Doing, Bringing
<1>29. CASE OpenDevice
    <2>1. /\ Copying /\ UNCHANGED <<memory, saved, pc, plans, prog, held, mounts>>
          /\ job'.phase # "done"
        BY <1>29 DEF OpenDevice, StartCopy, status, content, kernel
    <2> QED BY <1>7, <1>13, <1>28, <2>1
<1>30. CASE CopyChunk
    <2>1. /\ Copying /\ UNCHANGED <<memory, saved, pc, plans, prog, held, mounts>>
          /\ job' = [job EXCEPT !.next = @ + 1] /\ job.phase # "done"
        BY <1>30 DEF CopyChunk, Overwritten, StatusMayGo, kernel, AdaptiveChunk, RawChunk
    <2>2. job'.phase # "done"
        BY <2>1 DEF CopyIInv, CopyTypeOK, Jobs
    <2> QED BY <1>7, <1>13, <1>28, <2>1, <2>2
<1>31. CASE GiveUpAdaptive
    <2>1. /\ Copying /\ UNCHANGED <<memory, saved, pc, plans, prog, held, mounts>>
          /\ job' = [job EXCEPT !.phase = "raw", !.next = 0]
        BY <1>31 DEF GiveUpAdaptive, AdaptiveFails, status, content, kernel
    <2>2. job'.phase # "done"
        BY <2>1 DEF CopyIInv, CopyTypeOK, Jobs
    <2> QED BY <1>7, <1>13, <1>28, <2>1, <2>2
<1>32. CASE Flush
    <2>1. /\ Copying /\ UNCHANGED <<memory, saved, pc, plans, prog, held, mounts>>
          /\ writes' = "flushed"
        BY <1>32 DEF Flush, status, kernel
    <2> QED BY <1>7, <1>13, <1>28, <2>1
<1>33. CASE CloseDevice
    <2>1. /\ Copying /\ prog' = Tail(prog) /\ pc' = pc /\ plans' = plans /\ job.phase = "done"
          /\ job' = NoJob /\ UNCHANGED <<memory, saved, held, mounts, writes>>
        BY <1>33 DEF CloseDevice, Proceed, Undisturbed, status, content, kernel
    <2>2. writes' = "flushed"
        BY <1>2, <2>1 DEF Recording
    <2>3. Carries(image)'
        BY <1>33, BroughtWhole
    <2>4. Fitting'
        BY <1>11, <1>28, <2>1, <2>2, <2>3
    <2> QED BY <1>5, <1>7, <1>28, <2>1, <2>4
<1>34. CASE BootedWrites
    <2>1. /\ Copying /\ UNCHANGED <<memory, saved, pc, plans, prog, held, mounts, writes, job>>
        BY <1>34 DEF BootedWrites, SeedChanges, status, content, kernel
    <2> QED BY <1>2, <1>7, <1>13, <1>28, <2>1 DEF Recording
<1>35. CASE StepFails
    BY <1>3, <1>5, <1>7, <1>35 DEF StepFails, status
<1>36. CASE HandlerFailed
    <2>1. Recorded("failed").state = "failed"
        BY DEF Recorded
    <2>2. pc' \in {"idle", "dead"}
        BY <1>4, <1>36 DEF HandlerFailed
    <2>3. /\ pc = "failed" /\ UNCHANGED <<whole, writes, job>>
          /\ memory' = Recorded("failed") /\ saved' \in {Recorded("failed"), saved}
        BY <1>36, CentralOutcomes DEF HandlerFailed, content
    <2>4. saved'.state # "ok" /\ memory'.state # "ok"
        BY <1>2, <2>1, <2>3 DEF Recording
    <2>5. Right(saved)' /\ Right(memory)'
        BY <2>4 DEF Right
    <2> QED BY <1>2, <1>3, <2>2, <2>3, <2>5 DEF Recording
<1>37. CASE HandlerDone
    <2>1. Recorded("ok").digest = image.digest
        BY DEF Recorded
    <2>2. pc' \in {"idle", "dead", "next"} /\ pc = "handler" /\ prog = <<>>
        BY <1>4, <1>37 DEF HandlerDone
    <2>3. /\ ~Unflushed(image) => writes = "flushed"
          /\ Target \notin held \cup mounts
          /\ Carries(image)
        BY <1>2, <2>2 DEF Fitting, Has, Unmounts
    <2>4. /\ UNCHANGED <<disk, writes, held, mounts, job>> /\ whole' = image
          /\ memory' = Recorded("ok") /\ saved' \in {Recorded("ok"), saved}
        BY <1>37, CentralOutcomes DEF HandlerDone, SetMounted
    <2>5. image # None
        BY <2>2, NoneAssumption DEF PlanTypeOK
    <2>6. Carries(whole)' /\ (Unflushed(whole)' <=> Unflushed(image))
        BY <1>1, <2>3, <2>4 DEF Carries, Unflushed, HooksMounted, ToFs, Archive, Chunked
    <2>7. saved.state # "ok"
        BY <1>2, <2>2 DEF Recording
    <2>8. Right(saved)' /\ Right(memory)'
        BY <2>1, <2>3, <2>4, <2>5, <2>6, <2>7 DEF Right
    <2> QED BY <1>2, <1>3, <2>2, <2>3, <2>4, <2>8 DEF Recording
<1>38. CASE Finish
    <2>1. /\ UNCHANGED <<disk, memory, saved, whole, writes, held, mounts, job>>
          /\ pc' \in {"idle", "dead"}
        BY <1>4, <1>38 DEF Finish, status, kernel, content
    <2> QED BY <1>3, <1>9, <2>1
<1>39. CASE RestartService
    <2>1. UNCHANGED <<disk, saved, whole, writes>> /\ memory' = None /\ job' = NoJob /\ pc' = "idle"
        BY <1>39 DEF RestartService, Stop, content
    <2>2. Right(saved)'
        BY <1>2, <1>8, <2>1 DEF Recording, Right
    <2> QED BY <1>3, <1>5, <2>1, <2>2 DEF Recording
<1>40. CASE PowerCut
    <2>1. saved' = saved /\ memory' = None /\ job' = NoJob /\ pc' = "idle"
        BY <1>40 DEF PowerCut, Stop, StatusMayGo
    <2>2. Right(saved)'
        BY <1>2, <1>40, <2>1, RightAfterPowerCut DEF Recording, Right
    <2> QED BY <1>3, <1>5, <2>1, <2>2 DEF Recording
<1>41. CASE UNCHANGED vars
    <2>1. UNCHANGED <<disk, job, memory, saved, held, mounts, whole, writes, pc, plans, prog>>
        BY <1>41 DEF vars, status, kernel, content
    <2>2. Right(saved)' /\ (memory' # None => Right(memory)')
        BY <1>2, <1>8, <2>1 DEF Recording, Right
    <2>3. Recording'
        BY <1>2, <2>1, <2>2 DEF Recording
    <2>4. Fitting'
        <3>1. Barred' = Barred /\ (Unflushed(image)' <=> Unflushed(image))
              /\ (Carries(image)' <=> Carries(image))
            BY <1>10, <2>1
        <3> QED BY <1>2, <2>1, <3>1 DEF Fitting
    <2> QED BY <2>3, <2>4
<1> QED
    BY <1>14, <1>15, <1>16, <1>17, <1>18, <1>19, <1>20, <1>21, <1>22, <1>23, <1>24, <1>25, <1>26,
       <1>27, <1>29, <1>30, <1>31, <1>32, <1>33, <1>34, <1>35, <1>36, <1>37, <1>38, <1>39, <1>40,
       <1>41 DEF Next

----------------------------------------------------------------------------
(* The theorems about the slot. *)

LEMMA HandlersNext == HandlersInv /\ [Next]_vars => HandlersInv'
BY StepsCopy, CopyNextInv, PlanTypeNext, JobNext, CentralNext DEF HandlersInv

LEMMA HandlersInvariant == Spec => []HandlersInv
BY HandlersInit, HandlersNext, PTL DEF Spec

\* The installation uses the copy only as AdaptiveCopy lets it: each of its steps is one of the
\* copy's, or ends with nothing being copied, so that a copy in progress is advanced by its own
\* steps alone, may find its seed changed, and is stopped by anything else
\* (copy_adaptive_image_to_dev, write_image_to_dev).
THEOREM HandlersAreCopies == Spec => CopySpec
<1>1. Init => CopyInit
    BY SlotsAssumption DEF Init, CopyInit
<1>2. HandlersInv /\ [Next]_vars => [CopyNext]_<<disk, job>>
    BY StepsCopy DEF HandlersInv
<1> QED BY <1>1, <1>2, HandlersInvariant, PTL DEF Spec, CopySpec

\* Within an installation, whatever else happens to the slot, a copy that ends well has left the
\* image on the device (write_image_to_dev).
THEOREM HandlersCopyWhole == Spec => []Copied
<1>1. HandlersInv => Copied
    BY CopyInvImplies DEF HandlersInv
<1> QED BY <1>1, HandlersInvariant, PTL

\* A slot that the central status file calls "ok" holds its image completely, after any failure,
\* restart or loss of power; but if RAUC flushes nothing after the image (Unflushed) only until a
\* loss of power takes what the kernel has not written yet (handle_slot_install_plan).
THEOREM OkSlotIsWhole == Spec => []OkIsWhole
<1>1. HandlersInv => OkIsWhole
    BY DEF HandlersInv, CentralInv, Recording, Right, OkIsWhole
<1> QED BY <1>1, HandlersInvariant, PTL

----------------------------------------------------------------------------
(* The progress tree (ProgressTree): what its operations do where they do not abort. *)

\* FoldLeft sums the steps up from the last.
LEMMA MaxOfTwo == Max({1}) = 1 /\ Max({1, 2}) = 2
<1>1. \A x \in {1} : (\A y \in {1} : x >= y) <=> x = 1
  OBVIOUS
<1>2. \A x \in {1, 2} : (\A y \in {1, 2} : x >= y) <=> x = 2
  OBVIOUS
<1>3. Max({1}) = 1
  BY <1>1 DEF Max
<1>4. Max({1, 2}) = 2
  BY <1>2 DEF Max
<1> QED
  BY <1>3, <1>4

\* What one or two steps have done.
LEMMA ReportedFew ==
    ASSUME NEW steps, DOMAIN steps \in {{1}, {1, 2}}, \A k \in DOMAIN steps : steps[k].percent \in Int
    PROVE  /\ DOMAIN steps = {1} => Reported(steps) = steps[1].percent
           /\ DOMAIN steps = {1, 2} => Reported(steps) = steps[1].percent + steps[2].percent
<1> DEFINE D == DOMAIN steps
           IsIter(g) == g = [s \in SUBSET D |-> IF s = {} THEN 0
                               ELSE g[s \ {Max(s)}] + steps[Max(s)].percent]
           h == [s \in SUBSET D |-> IF s = {} THEN 0
                   ELSE IF s = {1} THEN steps[1].percent
                   ELSE IF s = {1, 2} THEN steps[1].percent + steps[2].percent
                   ELSE 0 + steps[Max(s)].percent]
           iter == CHOOSE g : IsIter(g)
<1>1. Reported(steps) = iter[D]
  BY DEF Reported, FoldLeft, MapThenFoldSet
<1>2. \A s \in SUBSET D : s = {} \/ s = {1} \/ s = {2} \/ s = {1, 2}
  OBVIOUS
<1>3. Max({2}) = 2
  <2>1. \A x \in {2} : (\A y \in {2} : x >= y) <=> x = 2
    OBVIOUS
  <2> QED
    BY <2>1 DEF Max
<1>4. \A s \in SUBSET D : h[s] = IF s = {} THEN 0 ELSE h[s \ {Max(s)}] + steps[Max(s)].percent
  <2> TAKE s \in SUBSET D
  <2>1. CASE s = {}
    BY <2>1
  <2>2. CASE s = {1}
    <3>1. s \ {Max(s)} = {} /\ Max(s) = 1
      BY <2>2, MaxOfTwo
    <3> QED
      BY <2>2, <3>1
  <2>3. CASE s = {2}
    <3>1. s \ {Max(s)} = {} /\ Max(s) = 2 /\ s # {} /\ s # {1} /\ s # {1, 2}
      BY <1>3, <2>3
    <3> QED
      BY <3>1
  <2>4. CASE s = {1, 2}
    <3>1. s \ {Max(s)} = {1} /\ Max(s) = 2 /\ s # {} /\ s # {1}
      BY <2>4, MaxOfTwo
    <3> QED
      BY <2>4, <3>1
  <2> QED
    BY <1>2, <2>1, <2>2, <2>3, <2>4
<1>5. IsIter(h)
  <2>1. h = [s \in SUBSET D |-> h[s]]
    OBVIOUS
  <2> HIDE DEF h
  <2> QED
    BY <1>4, <2>1
<1>6. IsIter(iter)
  <2> HIDE DEF IsIter, h
  <2> QED
    BY <1>5
<1> HIDE DEF iter
<1>7. \A s \in SUBSET D : iter[s] = IF s = {} THEN 0 ELSE iter[s \ {Max(s)}] + steps[Max(s)].percent
  <2> DEFINE G == [s \in SUBSET D |-> IF s = {} THEN 0 ELSE iter[s \ {Max(s)}] + steps[Max(s)].percent]
  <2>1. \A s \in SUBSET D : G[s] = IF s = {} THEN 0 ELSE iter[s \ {Max(s)}] + steps[Max(s)].percent
    OBVIOUS
  <2>2. iter = G
    BY <1>6
  <2> HIDE DEF G
  <2> QED
    BY <2>1, <2>2
<1>8. iter[{1}] = steps[1].percent
  <2>1. {1} \in SUBSET D /\ {} \in SUBSET D /\ {1} \ {Max({1})} = {} /\ {1} # {}
    BY MaxOfTwo
  <2>2. iter[{}] = 0 /\ iter[{1}] = iter[{}] + steps[1].percent
    BY <1>7, <2>1, MaxOfTwo
  <2> QED
    BY <2>2
<1>9. D = {1, 2} => iter[{1, 2}] = steps[1].percent + steps[2].percent
  <2>1. {1, 2} \ {Max({1, 2})} = {1} /\ {1, 2} # {}
    BY MaxOfTwo
  <2> QED
    BY <1>7, <1>8, <2>1, MaxOfTwo
<1> QED
  BY <1>1, <1>8, <1>9

\* A step, and the open ones of a tree that is not aborted.
ProgressStep(name, weight, total, substeps, done, percent, explicit) ==
    [name |-> name, weight |-> weight, total |-> total, substeps |-> substeps,
     done |-> done, percent |-> percent, explicit |-> explicit]
StepNames == {"do_install_bundle", "determine_slot_states", "check_bundle", "cms_verify",
              "check_manifest", "determine_target_install_group", "update_slots",
              "check_repo", "check_slot", "skip_image", "copy_image"}
ProgressSteps == [name : StepNames, weight : Nat, total : Nat, substeps : Nat,
                  done : Nat, percent : Int, explicit : Nat]

Open(steps) == [steps |-> steps, aborted |-> FALSE]

\* Percentages that do not add up to more than all are sent.
LEMMA Sent ==
    /\ \A a \in ProgressSteps : a.percent <= Full => Sendable(<<a>>)
    /\ \A a, b \in ProgressSteps : b.percent <= Full => Sendable(<<a, b>>)
    /\ \A a, b, c \in ProgressSteps : b.percent + c.percent <= Full => Sendable(<<a, b, c>>)
<1>1. ASSUME NEW a \in ProgressSteps, a.percent <= Full PROVE Sendable(<<a>>)
    <2>1. Len(<<a>>) = 1 /\ Head(<<a>>) = a /\ a.percent \in Int
        BY DEF ProgressSteps
    <2> QED BY <1>1, <2>1 DEF Sendable, Full
<1>2. ASSUME NEW a \in ProgressSteps, NEW b \in ProgressSteps, b.percent <= Full
      PROVE  Sendable(<<a, b>>)
    <2>1. /\ Len(<<a, b>>) = 2 /\ Head(<<a, b>>) = a /\ Tail(<<a, b>>) = <<b>>
          /\ a.percent \in Int /\ b.percent \in Int
        BY DEF ProgressSteps
    <2>2. Reported(<<b>>) = b.percent
        <3> DEFINE s == <<b>>
        <3>1. DOMAIN s = {1} /\ s[1] = b
            OBVIOUS
        <3> HIDE DEF s
        <3>2. Reported(s) = s[1].percent
            BY <2>1, <3>1, ReportedFew
        <3> QED BY <3>1, <3>2 DEF s
    <2> QED BY <1>2, <2>1, <2>2 DEF Sendable, Full
<1>3. ASSUME NEW a \in ProgressSteps, NEW b \in ProgressSteps, NEW c \in ProgressSteps,
             b.percent + c.percent <= Full
      PROVE  Sendable(<<a, b, c>>)
    <2>1. /\ Len(<<a, b, c>>) = 3 /\ Head(<<a, b, c>>) = a /\ Tail(<<a, b, c>>) = <<b, c>>
          /\ a.percent \in Int /\ b.percent \in Int /\ c.percent \in Int
        BY DEF ProgressSteps
    <2>2. Reported(<<b, c>>) = b.percent + c.percent
        <3> DEFINE s == <<b, c>>
        <3>1. DOMAIN s = {1, 2} /\ s[1] = b /\ s[2] = c
            OBVIOUS
        <3> HIDE DEF s
        <3>2. Reported(s) = s[1].percent + s[2].percent
            <4>1. \A k \in DOMAIN s : s[k].percent \in Int
                BY <2>1, <3>1
            <4>2. DOMAIN s \in {{1}, {1, 2}}
                BY <3>1
            <4> HIDE DEF Reported
            <4> QED BY <3>1, <4>1, <4>2, ReportedFew
        <3> QED BY <3>1, <3>2 DEF s
    <2> QED BY <1>3, <2>1, <2>2 DEF Sendable, Full
<1> QED BY <1>1, <1>2, <1>3

\* Up to three steps are open at once.
LEMMA Tuples ==
    ASSUME NEW a \in ProgressSteps, NEW b \in ProgressSteps, NEW c \in ProgressSteps
    PROVE  /\ <<a>> \o <<b>> = <<a, b>> /\ <<a>> \o <<b, c>> = <<a, b, c>>
           /\ <<a>> # <<>> /\ <<a, b>> # <<>> /\ <<a, b, c>> # <<>>
           /\ Head(<<a>>) = a /\ Head(<<a, b>>) = a /\ Head(<<a, b, c>>) = a
           /\ Tail(<<a>>) = <<>> /\ Tail(<<a, b>>) = <<b>> /\ Tail(<<a, b, c>>) = <<b, c>>
           /\ Len(<<a>>) = 1 /\ Len(<<a, b>>) = 2 /\ Len(<<a, b, c>>) = 3
<1>1. <<a>> \o <<b>> = <<a, b>>
    <2> DEFINE s == <<a>> \o <<b>>
    <2>1. s \in Seq(ProgressSteps) /\ Len(s) = 2 /\ s[1] = a /\ s[2] = b
        OBVIOUS
    <2> HIDE DEF s
    <2>2. s = <<a, b>>
        BY <2>1
    <2> QED BY <2>2 DEF s
<1>2. <<a>> \o <<b, c>> = <<a, b, c>>
    <2> DEFINE s == <<a>> \o <<b, c>>
    <2>1. s \in Seq(ProgressSteps) /\ Len(s) = 3 /\ s[1] = a /\ s[2] = b /\ s[3] = c
        OBVIOUS
    <2> HIDE DEF s
    <2>2. s = <<a, b, c>>
        BY <2>1
    <2> QED BY <2>2 DEF s
<1>3. /\ <<a>> # <<>> /\ <<a, b>> # <<>> /\ <<a, b, c>> # <<>>
      /\ Head(<<a>>) = a /\ Head(<<a, b>>) = a /\ Head(<<a, b, c>>) = a
    OBVIOUS
<1>4. Tail(<<a>>) = <<>> /\ Tail(<<a, b>>) = <<b>> /\ Tail(<<a, b, c>>) = <<b, c>>
    OBVIOUS
<1>5. Len(<<a>>) = 1 /\ Len(<<a, b>>) = 2 /\ Len(<<a, b, c>>) = 3
    OBVIOUS
<1> QED BY <1>1, <1>2, <1>3, <1>4, <1>5

LEMMA OpenFields ==
    ASSUME NEW s, NEW t
    PROVE  /\ Open(s).steps = s /\ Open(s).aborted = FALSE
           /\ With(Open(s), t) = Open(t)
           /\ NoSteps = Open(<<>>)
<1>1. Open(s).steps = s /\ Open(s).aborted = FALSE /\ NoSteps = Open(<<>>)
    BY DEF Open, NoSteps
<1>2. With(Open(s), t) = Open(t)
    <2> DEFINE r == Open(s)
    <2>1. r \in [steps : {s}, aborted : BOOLEAN] /\ r.aborted = FALSE
        BY DEF Open
    <2> HIDE DEF r
    <2>2. [r EXCEPT !.steps = t] = [steps |-> t, aborted |-> r.aborted]
        BY <2>1
    <2>3. With(r, t) = Open(t)
        BY <2>1, <2>2 DEF With, Open
    <2> QED BY <2>3 DEF r
<1> QED BY <1>1, <1>2

LEMMA StepTypes ==
    ASSUME NEW s \in ProgressSteps
    PROVE  /\ s.weight \in Nat /\ s.total \in Nat /\ s.substeps \in Nat /\ s.done \in Nat
           /\ s.percent \in Int /\ s.explicit \in Nat
BY DEF ProgressSteps

\* A step that has reached so much is otherwise the same.
LEMMA ReachedMore ==
    ASSUME NEW s \in ProgressSteps, NEW p \in Int, NEW e \in Nat, NEW t, t = Reached(s, p, e)
    PROVE  /\ t \in ProgressSteps /\ t.percent = p /\ t.explicit = e
           /\ t.name = s.name /\ t.total = s.total /\ t.substeps = s.substeps /\ t.done = s.done
           /\ t.weight = s.weight
<1>1. t = [i \in DOMAIN s |-> IF i = "explicit" THEN e ELSE IF i = "percent" THEN p ELSE s[i]]
    BY DEF Reached
<1>2. DOMAIN s = {"name", "weight", "total", "substeps", "done", "percent", "explicit"}
    BY DEF ProgressSteps
<1>3. t = ProgressStep(s.name, s.weight, s.total, s.substeps, s.done, p, e)
    BY <1>1, <1>2 DEF ProgressStep
<1> QED BY <1>3 DEF ProgressStep, ProgressSteps

LEMMA StepReached ==
    ASSUME NEW name, NEW weight, NEW total, NEW substeps, NEW done, NEW percent, NEW explicit,
           NEW p, NEW e
    PROVE  Reached(ProgressStep(name, weight, total, substeps, done, percent, explicit), p, e)
               = ProgressStep(name, weight, total, substeps, done, p, e)
<1> DEFINE s == ProgressStep(name, weight, total, substeps, done, percent, explicit)
<1>1. /\ s.name = name /\ s.weight = weight /\ s.total = total
      /\ s.substeps = substeps /\ s.done = done
      /\ DOMAIN s = {"name", "weight", "total", "substeps", "done", "percent", "explicit"}
    BY DEF ProgressStep
<1> HIDE DEF s
<1>2. Reached(s, p, e)
          = [i \in DOMAIN s |-> IF i = "explicit" THEN e ELSE IF i = "percent" THEN p ELSE s[i]]
    BY DEF Reached
<1>3. Reached(s, p, e) = ProgressStep(name, weight, total, substeps, done, p, e)
    BY <1>1, <1>2 DEF ProgressStep
<1> QED BY <1>3 DEF s

LEMMA StepFurther ==
    ASSUME NEW name, NEW weight, NEW total, NEW substeps, NEW done, NEW percent, NEW explicit,
           NEW w, NEW g
    PROVE  Further(ProgressStep(name, weight, total, substeps, done, percent, explicit), w, g)
               = ProgressStep(name, weight, total, substeps, done + w, percent + g, explicit)
<1> DEFINE s == ProgressStep(name, weight, total, substeps, done, percent, explicit)
<1>1. /\ s.name = name /\ s.weight = weight /\ s.total = total
      /\ s.substeps = substeps /\ s.done = done /\ s.percent = percent /\ s.explicit = explicit
      /\ DOMAIN s = {"name", "weight", "total", "substeps", "done", "percent", "explicit"}
    BY DEF ProgressStep
<1> HIDE DEF s
<1>2. Further(s, w, g)
          = [i \in DOMAIN s |-> IF i = "percent" THEN percent + g
                                ELSE IF i = "done" THEN done + w ELSE s[i]]
    BY <1>1 DEF Further
<1>3. Further(s, w, g) = ProgressStep(name, weight, total, substeps, done + w, percent + g, explicit)
    BY <1>1, <1>2 DEF ProgressStep
<1> QED BY <1>3 DEF s

\* The innermost of two steps, and of three, tells its parent.
LEMMA ToldTwo ==
    ASSUME NEW a \in ProgressSteps, NEW b \in ProgressSteps, NEW x \in ProgressSteps,
           NEW w, NEW g, Further(b, w, g) \in ProgressSteps
    PROVE  Told(<<a, b>>, x, w, g) = <<x, Further(b, w, g)>>
<1>1. PICK y : y = Further(b, w, g)
    OBVIOUS
<1>2. Tail(Tail(<<a, b>>)) = <<>>
    BY Tuples
<1>3. <<a, b>>[2] = b
    OBVIOUS
<1>4. <<x, y>> \o <<>> = <<x, y>>
    <2>1. <<x, y>> \in Seq(ProgressSteps)
        BY <1>1
    <2> QED BY <2>1
<1>5. Told(<<a, b>>, x, w, g) = <<x, y>> \o <<>>
    BY <1>1, <1>2, <1>3 DEF Told
<1> QED BY <1>1, <1>4, <1>5

LEMMA ToldThree ==
    ASSUME NEW a \in ProgressSteps, NEW b \in ProgressSteps, NEW c \in ProgressSteps,
           NEW x \in ProgressSteps, NEW w, NEW g, Further(b, w, g) \in ProgressSteps
    PROVE  Told(<<a, b, c>>, x, w, g) = <<x, Further(b, w, g), c>>
<1>1. PICK y : y = Further(b, w, g)
    OBVIOUS
<1>2. Tail(Tail(<<a, b, c>>)) = <<c>>
    BY Tuples
<1>3. <<a, b, c>>[2] = b
    OBVIOUS
<1>4. <<x, y>> \o <<c>> = <<x, y, c>>
    <2> DEFINE s == <<x, y>> \o <<c>>
    <2>1. s \in Seq(ProgressSteps) /\ Len(s) = 3 /\ s[1] = x /\ s[2] = y /\ s[3] = c
        BY <1>1
    <2> HIDE DEF s
    <2>2. s = <<x, y, c>>
        BY <2>1
    <2> QED BY <2>2 DEF s
<1>5. Told(<<a, b, c>>, x, w, g) = <<x, y>> \o <<c>>
    BY <1>1, <1>2, <1>3 DEF Told
<1> QED BY <1>1, <1>4, <1>5

\* The first step.
LEMMA BeginsFirst ==
    ASSUME NEW name \in StepNames, NEW substeps \in Nat, NEW weight \in Nat
    PROVE  BeginStep(NoSteps, name, substeps, weight)
               = Open(<<ProgressStep(name, weight, Full, substeps, 0, 0, 0)>>)
<1> DEFINE s == ProgressStep(name, weight, Full, substeps, 0, 0, 0)
<1>1. s \in ProgressSteps /\ s.percent = 0
    BY DEF ProgressStep, ProgressSteps, Full
<1>2. Sendable(<<s>>)
    BY <1>1, Sent DEF Full
<1>3. <<s>> \o <<>> = <<s>>
    OBVIOUS
<1> HIDE DEF s
<1>4. /\ With(Open(<<>>), <<s>> \o <<>>) = Open(<<s>> \o <<>>)
      /\ Open(<<>>).steps = <<>> /\ Open(<<>>).aborted = FALSE /\ NoSteps = Open(<<>>)
    BY OpenFields
<1>5. Sendable(<<s>> \o <<>>)
    BY <1>2, <1>3
<1> USE DEF s
<1>6. ASSUME NEW e, e = <<>>, NEW x, x.steps = e, x.aborted = FALSE,
             With(x, <<s>> \o e) = Open(<<s>>), Sendable(<<s>> \o e)
      PROVE  BeginStep(x, name, substeps, weight) = Open(<<s>>)
    BY <1>6 DEF BeginStep, Checked, ProgressStep
<1> HIDE DEF s
<1>7. With(Open(<<>>), <<s>> \o <<>>) = Open(<<s>>)
    BY <1>3, <1>4
<1>8. BeginStep(Open(<<>>), name, substeps, weight) = Open(<<s>>)
    BY <1>4, <1>5, <1>6, <1>7, Zenon
<1> QED BY <1>4, <1>8 DEF s

\* A step is opened inside another, where that has room for it.
LEMMA BeginUnfolds ==
    ASSUME NEW name, NEW substeps, NEW weight, NEW p, NEW s, NEW q,
           q = ProgressStep(name, weight, (weight * p.total) \div p.substeps, substeps, 0, 0, 0),
           s # <<>>, Head(s) = p, Sendable(<<q>> \o s),
           p.substeps > 0, p.substeps # p.done, weight <= p.substeps
    PROVE  BeginStep(Open(s), name, substeps, weight) = Open(<<q>> \o s)
<1>1. /\ Open(s).steps = s /\ Open(s).aborted = FALSE
      /\ With(Open(s), <<q>> \o s) = Open(<<q>> \o s)
    BY OpenFields
<1>2. q = [name |-> name, weight |-> weight, total |-> (weight * p.total) \div p.substeps,
           substeps |-> substeps, done |-> 0, percent |-> 0, explicit |-> 0]
    BY DEF ProgressStep
<1>3. ASSUME NEW x, x.steps = s, x.aborted = FALSE
      PROVE  BeginStep(x, name, substeps, weight) = With(x, <<q>> \o s)
    BY <1>2, <1>3 DEF BeginStep, Checked
<1> QED BY <1>1, <1>3

\* With one step open, and with two.
LEMMA BeginsInOne ==
    ASSUME NEW p \in ProgressSteps, NEW name \in StepNames, NEW substeps \in Nat, NEW weight \in Nat,
           NEW share \in Nat, NEW q, q = ProgressStep(name, weight, share, substeps, 0, 0, 0),
           share = (weight * p.total) \div p.substeps,
           p.substeps > 0, p.substeps # p.done, weight <= p.substeps,
           p.percent <= Full
    PROVE  BeginStep(Open(<<p>>), name, substeps, weight) = Open(<<q, p>>)
<1>1. q \in ProgressSteps
    BY DEF ProgressStep, ProgressSteps
<1>2. q = ProgressStep(name, weight, (weight * p.total) \div p.substeps, substeps, 0, 0, 0)
    OBVIOUS
<1>3. PICK s, t : s = <<p>> /\ t = <<q, p>>
    OBVIOUS
<1>4. s # <<>> /\ Head(s) = p /\ <<q>> \o s = t
    BY <1>1, <1>3, Tuples
<1>5. Sendable(t)
    BY <1>1, <1>3, Sent
<1>6. Sendable(<<q>> \o s)
    BY <1>4, <1>5
<1>7. BeginStep(Open(s), name, substeps, weight) = Open(<<q>> \o s)
    BY <1>2, <1>4, <1>6, BeginUnfolds
<1> QED BY <1>3, <1>4, <1>7

LEMMA BeginsInTwo ==
    ASSUME NEW p \in ProgressSteps, NEW r \in ProgressSteps, NEW name \in StepNames,
           NEW substeps \in Nat, NEW weight \in Nat,
           NEW share \in Nat, NEW q, q = ProgressStep(name, weight, share, substeps, 0, 0, 0),
           share = (weight * p.total) \div p.substeps,
           p.substeps > 0, p.substeps # p.done, weight <= p.substeps,
           p.percent + r.percent <= Full
    PROVE  BeginStep(Open(<<p, r>>), name, substeps, weight) = Open(<<q, p, r>>)
<1>1. q \in ProgressSteps
    BY DEF ProgressStep, ProgressSteps
<1>2. q = ProgressStep(name, weight, (weight * p.total) \div p.substeps, substeps, 0, 0, 0)
    OBVIOUS
<1>3. PICK s, t : s = <<p, r>> /\ t = <<q, p, r>>
    OBVIOUS
<1>4. s # <<>> /\ Head(s) = p /\ <<q>> \o s = t
    BY <1>1, <1>3, Tuples
<1>5. Sendable(t)
    BY <1>1, <1>3, Sent
<1>6. Sendable(<<q>> \o s)
    BY <1>4, <1>5
<1>7. BeginStep(Open(s), name, substeps, weight) = Open(<<q>> \o s)
    BY <1>2, <1>4, <1>6, BeginUnfolds
<1> QED BY <1>3, <1>4, <1>7

\* A step that may end is taken off the steps once its parent has been told.
LEMMA EndUnfolds ==
    ASSUME NEW name, NEW success \in BOOLEAN, NEW s, NEW t, NEW top, s # <<>>, top = Head(s),
           top.done <= top.substeps, success => top.done = top.substeps, top.name = name,
           Completed(Open(s), name) = Open(t), Sendable(t),
           Len(t) > 1 => t[1].percent <= t[2].percent
    PROVE  EndStep(Open(s), name, success) = Open(Tail(t))
<1>1. /\ Open(s).steps = s /\ Open(t).steps = t /\ Open(t).aborted = FALSE
      /\ With(Open(t), Tail(t)) = Open(Tail(t))
    BY OpenFields
<1>2. ASSUME NEW x, x.steps = s, NEW c, c = Completed(x, name), c.steps = t,
             c.aborted = FALSE
      PROVE  EndStep(x, name, success) = With(c, Tail(t))
    BY <1>2 DEF EndStep, Checked
<1> QED BY <1>1, <1>2

\* The last step is ended.
LEMMA EndsLast ==
    ASSUME NEW a \in ProgressSteps, NEW name, NEW success \in BOOLEAN,
           a.done <= a.substeps, success => a.done = a.substeps, a.name = name, a.total <= Full
    PROVE  EndStep(Open(<<a>>), name, success) = NoSteps
<1>1. PICK total \in Int, explicit \in Nat : total = a.total /\ explicit = a.explicit
    BY StepTypes
<1>2. PICK a1 : a1 = Reached(a, total, explicit)
    OBVIOUS
<1>4. a1 \in ProgressSteps /\ a1.percent = total
    BY <1>2, ReachedMore
<1>5. Sendable(<<a1>>)
    BY <1>1, <1>4, Sent
<1>6. PICK s, t : s = <<a>> /\ t = <<a1>>
    OBVIOUS
<1>7. s # <<>> /\ Head(s) = a /\ Len(s) = 1 /\ Len(t) = 1 /\ Tail(t) = <<>>
    BY <1>1, <1>4, <1>6, Tuples
<1>8. /\ With(Open(s), t) = Open(t) /\ Open(s).steps = s /\ NoSteps = Open(<<>>)
    BY OpenFields
<1>9. Completed(Open(s), name) = Open(t)
    BY <1>1, <1>2, <1>6, <1>7, <1>8 DEF Completed
<1>12. Sendable(t)
    BY <1>5, <1>6
<1>11. a.done <= a.substeps /\ (success => a.done = a.substeps) /\ a.name = name /\ ~(Len(t) > 1)
    BY <1>1, <1>7
<1>10. EndStep(Open(s), name, success) = Open(Tail(t))
    BY <1>7, <1>9, <1>11, <1>12, EndUnfolds
<1> QED BY <1>6, <1>7, <1>8, <1>10

\* A step in another one is ended: the parent gets its share.
LEMMA EndsInOne ==
    ASSUME NEW a \in ProgressSteps, NEW b \in ProgressSteps, NEW name, NEW success \in BOOLEAN,
           a.done <= a.substeps, success => a.done = a.substeps, a.name = name, a.explicit = 0,
           NEW b1 \in ProgressSteps, b1 = Further(b, a.weight, a.total),
           a.total <= b1.percent, b1.percent <= Full
    PROVE  EndStep(Open(<<a, b>>), name, success) = Open(<<b1>>)
<1>1. PICK weight \in Nat, total \in Int, explicit \in Nat :
         weight = a.weight /\ total = a.total /\ explicit = a.explicit
    BY StepTypes
<1>2. PICK a1 : a1 = Reached(a, total, explicit)
    OBVIOUS
<1>3. a1 \in ProgressSteps /\ a1.percent = total
    BY <1>2, ReachedMore
<1>4. a1.percent <= b1.percent /\ a.explicit = 0 /\ b1 = Further(b, weight, total)
    BY <1>1, <1>3
<1>5. PICK s, t : s = <<a, b>> /\ t = <<a1, b1>>
    OBVIOUS
<1>6. s # <<>> /\ Head(s) = a /\ Len(s) # 1 /\ Tail(t) = <<b1>> /\ t[1] = a1 /\ t[2] = b1
    BY <1>1, <1>3, <1>5, Tuples
<1>7. Told(s, a1, weight, total) = t
    BY <1>3, <1>4, <1>5, ToldTwo
<1>8. Sendable(t)
    BY <1>3, <1>5, Sent
<1>9. With(Open(s), t) = Open(t) /\ Open(s).steps = s
    BY OpenFields
<1>10. Completed(Open(s), name) = Open(t)
    BY <1>1, <1>2, <1>4, <1>6, <1>7, <1>9 DEF Completed
<1>11. Len(t) > 1 => t[1].percent <= t[2].percent
    BY <1>4, <1>6
<1>12. EndStep(Open(s), name, success) = Open(Tail(t))
    BY <1>6, <1>8, <1>10, <1>11, EndUnfolds
<1> QED BY <1>5, <1>6, <1>12

\* The same with a third step around.
LEMMA EndsInTwo ==
    ASSUME NEW a \in ProgressSteps, NEW b \in ProgressSteps, NEW c \in ProgressSteps,
           NEW name, NEW success \in BOOLEAN,
           a.done <= a.substeps, success => a.done = a.substeps, a.name = name, a.explicit = 0,
           NEW b1 \in ProgressSteps, b1 = Further(b, a.weight, a.total),
           a.total <= b1.percent, b1.percent + c.percent <= Full
    PROVE  EndStep(Open(<<a, b, c>>), name, success) = Open(<<b1, c>>)
<1>1. PICK weight \in Nat, total \in Int, explicit \in Nat :
         weight = a.weight /\ total = a.total /\ explicit = a.explicit
    BY StepTypes
<1>2. PICK a1 : a1 = Reached(a, total, explicit)
    OBVIOUS
<1>3. a1 \in ProgressSteps /\ a1.percent = total
    BY <1>2, ReachedMore
<1>4. a1.percent <= b1.percent /\ a.explicit = 0 /\ b1 = Further(b, weight, total)
    BY <1>1, <1>3
<1>5. PICK s, t : s = <<a, b, c>> /\ t = <<a1, b1, c>>
    OBVIOUS
<1>6. s # <<>> /\ Head(s) = a /\ Len(s) # 1 /\ Tail(t) = <<b1, c>> /\ t[1] = a1 /\ t[2] = b1
    BY <1>1, <1>3, <1>5, Tuples
<1>7. Told(s, a1, weight, total) = t
    BY <1>3, <1>4, <1>5, ToldThree
<1>8. Sendable(t)
    BY <1>3, <1>5, Sent
<1>9. With(Open(s), t) = Open(t) /\ Open(s).steps = s
    BY OpenFields
<1>10. Completed(Open(s), name) = Open(t)
    BY <1>1, <1>2, <1>4, <1>6, <1>7, <1>9 DEF Completed
<1>11. Len(t) > 1 => t[1].percent <= t[2].percent
    BY <1>4, <1>6
<1>12. EndStep(Open(s), name, success) = Open(Tail(t))
    BY <1>6, <1>8, <1>10, <1>11, EndUnfolds
<1> QED BY <1>5, <1>6, <1>12

\* A leaf of three open steps has got so far.
LEMMA PercentageSet ==
    ASSUME NEW a \in ProgressSteps, NEW b \in ProgressSteps, NEW c \in ProgressSteps,
           NEW name, NEW percent \in Nat, NEW gain \in Int,
           gain = (a.total * (percent - a.explicit)) \div 100,
           NEW a1, a1 = Reached(a, gain, percent),
           NEW b1 \in ProgressSteps, b1 = Further(b, 0, gain),
           a.name = name, a.substeps = 0, percent # 100 => b1.percent + c.percent <= Full
    PROVE  SetPercentage(Open(<<a, b, c>>), name, percent) = Open(<<a1, b1, c>>)
<1>1. a1 \in ProgressSteps
    BY ReachedMore
<1>2. PICK s, t : s = <<a, b, c>> /\ t = <<a1, b1, c>>
    OBVIOUS
<1>3. /\ Head(s) = a /\ ~(Len(s) < 2)
    BY <1>2, Tuples
<1>4. Told(s, a1, 0, gain) = t
    BY <1>1, <1>2, ToldThree
<1>5. percent # 100 => Sendable(t)
    BY <1>1, <1>2, Sent
<1>6. Open(s).steps = s /\ Open(s).aborted = FALSE /\ With(Open(s), t) = Open(t)
    BY OpenFields
<1>7. ASSUME NEW x, x.steps = s, x.aborted = FALSE
      PROVE  SetPercentage(x, name, percent) = With(x, t)
    BY <1>3, <1>4, <1>5, <1>7 DEF SetPercentage, Checked
<1>8. SetPercentage(Open(s), name, percent) = Open(t)
    BY <1>6, <1>7
<1> QED BY <1>2, <1>8

\* Such a leaf is ended: its parent gets what is missing.
LEMMA EndsExplicit ==
    ASSUME NEW a \in ProgressSteps, NEW b \in ProgressSteps, NEW c \in ProgressSteps,
           NEW name, NEW success \in BOOLEAN, NEW gain \in Int,
           gain = (a.total * (100 - a.explicit)) \div 100,
           NEW b1 \in ProgressSteps, b1 = Further(b, a.weight, 0),
           NEW b2 \in ProgressSteps, b2 = Further(b1, 0, gain),
           a.name = name, a.substeps = 0, a.done = 0, a.explicit # 0,
           gain <= b2.percent, b2.percent + c.percent <= Full
    PROVE  EndStep(Open(<<a, b, c>>), name, success) = Open(<<b2, c>>)
<1>1. PICK total \in Int, explicit \in Nat, weight \in Nat :
         total = a.total /\ explicit = a.explicit /\ weight = a.weight
    BY StepTypes
<1>2. PICK a1, a2 : a1 = Reached(a, total, explicit) /\ a2 = Reached(a1, gain, 100)
    OBVIOUS
<1>3. /\ a1 \in ProgressSteps /\ a1.name = name /\ a1.total = a.total /\ a1.substeps = 0
      /\ a1.explicit = a.explicit
    BY <1>1, <1>2, ReachedMore
<1>4. a2 \in ProgressSteps /\ a2.percent = gain
    BY <1>2, <1>3, ReachedMore
<1>5. PICK s, r, t : s = <<a, b, c>> /\ r = <<a1, b1, c>> /\ t = <<a2, b2, c>>
    OBVIOUS
<1>6. /\ s # <<>> /\ Head(s) = a /\ Len(s) # 1
      /\ Tail(t) = <<b2, c>> /\ t[1] = a2 /\ t[2] = b2
    BY <1>4, <1>5, Tuples
<1>7. Told(s, a1, weight, 0) = r
    BY <1>1, <1>3, <1>5, ToldThree
<1>8. SetPercentage(Open(r), name, 100) = Open(t)
    BY <1>2, <1>3, <1>5, PercentageSet
<1>9. Sendable(t)
    BY <1>4, <1>5, Sent
<1>10. With(Open(s), r) = Open(r) /\ Open(s).steps = s
    BY OpenFields
<1>11. Completed(Open(s), name) = Open(t)
    BY <1>1, <1>2, <1>6, <1>7, <1>8, <1>10 DEF Completed
<1>12. a.done <= a.substeps /\ (success => a.done = a.substeps) /\ t[1].percent <= t[2].percent
    BY <1>4, <1>6
<1>13. EndStep(Open(s), name, success) = Open(Tail(t))
    BY <1>6, <1>9, <1>11, <1>12, EndUnfolds
<1> QED BY <1>5, <1>6, <1>13

\* A step that opens none is done at once.
LEMMA LeafInOne ==
    ASSUME NEW p \in ProgressSteps, NEW name \in StepNames, NEW weight \in Nat, NEW share \in Nat,
           NEW success \in BOOLEAN, NEW p1 \in ProgressSteps, p1 = Further(p, weight, share),
           share = (weight * p.total) \div p.substeps,
           p.substeps > 0, p.substeps # p.done, weight <= p.substeps, share <= p1.percent,
           p.percent <= Full, p1.percent <= Full
    PROVE  Leaf(Open(<<p>>), name, weight, success) = Open(<<p1>>)
<1>1. PICK zero \in Nat : zero = 0
    OBVIOUS
<1>2. PICK q : q = ProgressStep(name, weight, share, zero, 0, 0, 0)
    OBVIOUS
<1>3. /\ q \in ProgressSteps /\ q.name = name /\ q.weight = weight /\ q.total = share
      /\ q.done <= q.substeps /\ (success => q.done = q.substeps) /\ q.explicit = 0
    BY <1>1, <1>2 DEF ProgressStep, ProgressSteps
<1>4. BeginStep(Open(<<p>>), name, zero, weight) = Open(<<q, p>>)
    BY <1>2, BeginsInOne
<1>5. p1 = Further(p, q.weight, q.total) /\ q.total <= p1.percent
    BY <1>3
<1>6. EndStep(Open(<<q, p>>), name, success) = Open(<<p1>>)
    BY <1>3, <1>5, EndsInOne
<1> QED BY <1>1, <1>4, <1>6 DEF Leaf

LEMMA LeafInTwo ==
    ASSUME NEW p \in ProgressSteps, NEW r \in ProgressSteps, NEW name \in StepNames,
           NEW weight \in Nat, NEW share \in Nat,
           NEW success \in BOOLEAN, NEW p1 \in ProgressSteps, p1 = Further(p, weight, share),
           share = (weight * p.total) \div p.substeps,
           p.substeps > 0, p.substeps # p.done, weight <= p.substeps, share <= p1.percent,
           p.percent + r.percent <= Full, p1.percent + r.percent <= Full
    PROVE  Leaf(Open(<<p, r>>), name, weight, success) = Open(<<p1, r>>)
<1>1. PICK zero \in Nat : zero = 0
    OBVIOUS
<1>2. PICK q : q = ProgressStep(name, weight, share, zero, 0, 0, 0)
    OBVIOUS
<1>3. /\ q \in ProgressSteps /\ q.name = name /\ q.weight = weight /\ q.total = share
      /\ q.done <= q.substeps /\ (success => q.done = q.substeps) /\ q.explicit = 0
    BY <1>1, <1>2 DEF ProgressStep, ProgressSteps
<1>4. BeginStep(Open(<<p, r>>), name, zero, weight) = Open(<<q, p, r>>)
    BY <1>2, BeginsInTwo
<1>5. p1 = Further(p, q.weight, q.total) /\ q.total <= p1.percent
    BY <1>3
<1>6. EndStep(Open(<<q, p, r>>), name, success) = Open(<<p1, r>>)
    BY <1>3, <1>5, EndsInTwo
<1> QED BY <1>1, <1>4, <1>6 DEF Leaf

----------------------------------------------------------------------------
(* The progress of an installation, of one or two plans. *)

Tenth == Full \div 10
\* How many plans a bundle makes, how many parts their steps have, and what one may weigh.
PlanCounts == {1, 2}
Parts(n) == 0..(10 * n)
Weights == {1, 9}

\* "do_install_bundle" with so many of its ten parts done, and "update_slots", the six of them
\* for n plans, with so many of its parts done and so much reached within the next one.
Bundle(done) == ProgressStep("do_install_bundle", 1, Full, 10, done, done * Tenth, 0)
Share(n) == 600 \div n
Rate(n) == 54 \div n
Slots(n, done, more) ==
    ProgressStep("update_slots", 6, 6 * Tenth, 10 * n, done, done * Share(n) + more, 0)

LEMMA BundleFields ==
    ASSUME NEW d \in Parts(1), NEW b, b = Bundle(d)
    PROVE  /\ b \in ProgressSteps /\ b.name = "do_install_bundle" /\ b.substeps = 10
           /\ b.done = d /\ b.total = Full /\ b.percent = d * Tenth /\ b.explicit = 0
<1>1. PICK f, p : f = Full /\ p = d * Tenth
    OBVIOUS
<1>2. f \in Nat /\ p \in Nat /\ d \in Nat
    BY <1>1 DEF Full, Tenth, Parts
<1>5. PICK name \in StepNames : name = "do_install_bundle"
    BY DEF StepNames
<1>3. b = ProgressStep(name, 1, f, 10, d, p, 0)
    BY <1>1, <1>5 DEF Bundle
<1>4. /\ b \in ProgressSteps /\ b.name = name /\ b.substeps = 10
      /\ b.done = d /\ b.total = f /\ b.percent = p /\ b.explicit = 0
    BY <1>2, <1>3 DEF ProgressStep, ProgressSteps
<1> QED BY <1>1, <1>2, <1>4, <1>5

LEMMA BundleFurther ==
    ASSUME NEW d \in Parts(1), NEW w \in Nat
    PROVE  Further(Bundle(d), w, w * Tenth) = Bundle(d + w)
<1>1. PICK f, p : f = Full /\ p = d * Tenth
    OBVIOUS
<1>2. Bundle(d) = ProgressStep("do_install_bundle", 1, f, 10, d, p, 0)
    BY <1>1 DEF Bundle
<1>3. PICK g : g = w * Tenth
    OBVIOUS
<1>4. p + g = (d + w) * Tenth
    BY <1>1, <1>3 DEF Full, Tenth, Parts
<1>5. Bundle(d + w) = ProgressStep("do_install_bundle", 1, f, 10, d + w, p + g, 0)
    BY <1>1, <1>4 DEF Bundle
<1>6. Further(ProgressStep("do_install_bundle", 1, f, 10, d, p, 0), w, g)
          = ProgressStep("do_install_bundle", 1, f, 10, d + w, p + g, 0)
    BY StepFurther
<1> QED BY <1>2, <1>3, <1>5, <1>6

\* The numbers.
LEMMA PartsType == \A n \in PlanCounts : n \in Nat /\ Parts(n) \subseteq Nat
BY DEF PlanCounts, Parts

LEMMA ShareValues ==
    ASSUME NEW n \in PlanCounts
    PROVE  /\ Share(n) \in Nat /\ Rate(n) \in Nat /\ 9 * Share(n) = 100 * Rate(n)
           /\ 10 * n * Share(n) = 6 * Tenth /\ Tenth \in Nat /\ Full = 10 * Tenth
           /\ n = 1 => Share(n) = 600 /\ Rate(n) = 54
           /\ n = 2 => Share(n) = 300 /\ Rate(n) = 27
<1>1. n = 1 \/ n = 2
    BY DEF PlanCounts
<1>2. CASE n = 1
    BY <1>2 DEF Share, Rate, Tenth, Full
<1>3. CASE n = 2
    BY <1>3 DEF Share, Rate, Tenth, Full
<1> QED BY <1>1, <1>2, <1>3

LEMMA ShareOf ==
    ASSUME NEW n \in PlanCounts, NEW w \in Weights
    PROVE  w \in Nat /\ w * Share(n) \in Nat /\ w * Share(n) = (w * (6 * Tenth)) \div (10 * n)
<1>1. (n = 1 \/ n = 2) /\ (w = 1 \/ w = 9) /\ Tenth = 1000
    BY DEF PlanCounts, Weights, Tenth, Full
<1>2. CASE n = 1 /\ w = 1
    BY <1>1, <1>2, ShareValues
<1>3. CASE n = 1 /\ w = 9
    BY <1>1, <1>3, ShareValues
<1>4. CASE n = 2 /\ w = 1
    BY <1>1, <1>4, ShareValues
<1>5. CASE n = 2 /\ w = 9
    BY <1>1, <1>5, ShareValues
<1> QED BY <1>1, <1>2, <1>3, <1>4, <1>5

\* What the slots' steps have reached fits.
LEMMA ShareFits ==
    ASSUME NEW n \in PlanCounts, NEW d \in Parts(n)
    PROVE  d * Share(n) \in Nat /\ d * Share(n) <= 6 * Tenth
<1>1. (n = 1 \/ n = 2) /\ d \in Nat /\ d <= 10 * n /\ Tenth = 1000
    BY DEF PlanCounts, Parts, Tenth, Full
<1>2. CASE n = 1
    BY <1>1, <1>2, ShareValues
<1>3. CASE n = 2
    BY <1>1, <1>3, ShareValues
<1> QED BY <1>1, <1>2, <1>3

LEMMA SlotsFields ==
    ASSUME NEW n \in PlanCounts, NEW d \in Parts(n), NEW e \in Int, NEW s, s = Slots(n, d, e)
    PROVE  /\ s \in ProgressSteps /\ s.name = "update_slots" /\ s.substeps = 10 * n
           /\ s.weight = 6 /\ s.done = d /\ s.total = 6 * Tenth /\ s.explicit = 0
           /\ s.percent = d * Share(n) + e
<1>1. PICK t, m, p : t = 6 * Tenth /\ m = 10 * n /\ p = d * Share(n) + e
    OBVIOUS
<1>3. t \in Nat /\ m \in Nat /\ p \in Int /\ d \in Nat
    BY <1>1, PartsType, ShareValues
<1>6. PICK name \in StepNames : name = "update_slots"
    BY DEF StepNames
<1>4. s = ProgressStep(name, 6, t, m, d, p, 0)
    BY <1>1, <1>6 DEF Slots
<1>5. /\ s \in ProgressSteps /\ s.name = name /\ s.substeps = m
      /\ s.weight = 6 /\ s.done = d /\ s.total = t /\ s.explicit = 0 /\ s.percent = p
    BY <1>3, <1>4 DEF ProgressStep, ProgressSteps
<1> QED BY <1>1, <1>3, <1>5, <1>6

LEMMA SlotsFurther ==
    ASSUME NEW n \in PlanCounts, NEW d \in Parts(n), NEW e \in Int, NEW w \in Nat, NEW f \in Int
    PROVE  Further(Slots(n, d, e), w, w * Share(n) + f) = Slots(n, d + w, e + f)
<1>1. PICK t, m, p, g : /\ t = 6 * Tenth /\ m = 10 * n
                        /\ p = d * Share(n) + e /\ g = w * Share(n) + f
    OBVIOUS
<1>2. Share(n) \in Nat /\ d \in Nat
    BY PartsType, ShareValues
<1>3. (d + w) * Share(n) + (e + f) = p + g
    BY <1>1, <1>2
<1>4. /\ Slots(n, d, e) = ProgressStep("update_slots", 6, t, m, d, p, 0)
      /\ Slots(n, d + w, e + f) = ProgressStep("update_slots", 6, t, m, d + w, p + g, 0)
    BY <1>1, <1>3 DEF Slots
<1>5. Further(ProgressStep("update_slots", 6, t, m, d, p, 0), w, g)
          = ProgressStep("update_slots", 6, t, m, d + w, p + g, 0)
    BY StepFurther
<1> QED BY <1>1, <1>4, <1>5

\* "update_slots" with d of its parts done, and a step of such a weight within it.
Updating(n, d) == Open(<<Slots(n, d, 0), Bundle(4)>>)
Within(n, d, name, w, percent) ==
    Open(<<ProgressStep(name, w, w * Share(n), 0, 0, percent, 0), Slots(n, d, 0), Bundle(4)>>)
\* The image is being copied and e percent of it are.
CopiedTo(n, d, percent, e) ==
    Open(<<ProgressStep("copy_image", 9, 9 * Share(n), 0, 0, percent, e),
           Slots(n, d, e * Rate(n)), Bundle(4)>>)

LEMMA SlotsWhole ==
    ASSUME NEW n \in PlanCounts, NEW d \in Parts(n), NEW s, s = Slots(n, d, 0)
    PROVE  /\ s \in ProgressSteps /\ s.name = "update_slots" /\ s.substeps = 10 * n
           /\ s.weight = 6 /\ s.done = d /\ s.total = 6 * Tenth /\ s.explicit = 0
           /\ s.percent = d * Share(n)
           /\ \A w \in Nat : Further(s, w, w * Share(n)) = Slots(n, d + w, 0)
<1>1. PICK zero \in Int : zero = 0
    OBVIOUS
<1>2. s = Slots(n, d, zero)
    BY <1>1
<1>3. /\ s \in ProgressSteps /\ s.name = "update_slots" /\ s.substeps = 10 * n
      /\ s.weight = 6 /\ s.done = d /\ s.total = 6 * Tenth /\ s.explicit = 0
      /\ s.percent = d * Share(n) + zero
    BY <1>2, SlotsFields
<1>4. d * Share(n) + zero = d * Share(n)
    BY <1>1, ShareFits
<1>5. ASSUME NEW w \in Nat
      PROVE  Further(s, w, w * Share(n)) = Slots(n, d + w, 0)
    <2>1. Further(s, w, w * Share(n) + zero) = Slots(n, d + w, zero + zero)
        BY <1>1, <1>2, SlotsFurther
    <2>2. w * Share(n) + zero = w * Share(n) /\ zero + zero = 0
        BY <1>1, ShareValues
    <2> QED BY <2>1, <2>2
<1> QED BY <1>3, <1>4, <1>5

LEMMA BundleFour ==
    ASSUME NEW r, r = Bundle(4)
    PROVE  r \in ProgressSteps /\ r.percent = 4 * Tenth
BY BundleFields DEF Parts

LEMMA BeginsWithin ==
    ASSUME NEW n \in PlanCounts, NEW d \in Parts(n), NEW w \in Weights, NEW name \in StepNames,
           d # 10 * n
    PROVE  BeginStep(Updating(n, d), name, 0, w) = Within(n, d, name, w, 0)
<1>1. PICK p, r : p = Slots(n, d, 0) /\ r = Bundle(4)
    OBVIOUS
<1>2. PICK share \in Nat : share = w * Share(n)
    BY ShareOf
<1>3. PICK q : q = ProgressStep(name, w, share, 0, 0, 0, 0)
    OBVIOUS
<1>4. /\ p \in ProgressSteps /\ p.substeps = 10 * n /\ p.done = d /\ p.total = 6 * Tenth
      /\ p.percent = d * Share(n)
    BY <1>1, SlotsWhole
<1>5. r \in ProgressSteps /\ r.percent = 4 * Tenth
    BY <1>1, BundleFour
<1>6. share = (w * p.total) \div p.substeps
    BY <1>2, <1>4, ShareOf
<1>7. p.substeps > 0 /\ p.substeps # p.done /\ w <= p.substeps
    BY <1>4 DEF PlanCounts, Weights
<1>8. p.percent + r.percent <= Full
    BY <1>4, <1>5, ShareFits, ShareValues
<1>9. PICK zero \in Nat : zero = 0
    OBVIOUS
<1>10. w \in Nat
    BY ShareOf
<1>12. /\ q = ProgressStep(name, w, share, zero, 0, 0, 0)
       /\ p \in ProgressSteps /\ r \in ProgressSteps
    BY <1>3, <1>4, <1>5, <1>9
<1>11. BeginStep(Open(<<p, r>>), name, zero, w) = Open(<<q, p, r>>)
    BY <1>6, <1>7, <1>8, <1>10, <1>12, BeginsInTwo
<1> QED BY <1>1, <1>2, <1>3, <1>9, <1>11 DEF Updating, Within

LEMMA EndsWithin ==
    ASSUME NEW n \in PlanCounts, NEW d \in Parts(n), NEW w \in Weights, NEW name \in StepNames,
           NEW percent \in Int, NEW success \in BOOLEAN, d + w \in Parts(n)
    PROVE  EndStep(Within(n, d, name, w, percent), name, success) = Updating(n, d + w)
<1>1. PICK p, p1, r : p = Slots(n, d, 0) /\ p1 = Slots(n, d + w, 0) /\ r = Bundle(4)
    OBVIOUS
<1>2. PICK share \in Nat : share = w * Share(n)
    BY ShareOf
<1>3. PICK q : q = ProgressStep(name, w, share, 0, 0, percent, 0)
    OBVIOUS
<1>4. p \in ProgressSteps
    BY <1>1, SlotsWhole
<1>5. p1 \in ProgressSteps /\ p1.percent = (d + w) * Share(n)
    BY <1>1, SlotsWhole
<1>6. r \in ProgressSteps /\ r.percent = 4 * Tenth
    BY <1>1, BundleFour
<1>10. w \in Nat /\ d \in Nat
    BY ShareOf, PartsType
<1>7. /\ q \in ProgressSteps /\ q.done <= q.substeps /\ (success => q.done = q.substeps)
      /\ q.name = name /\ q.explicit = 0 /\ q.weight = w /\ q.total = share
    BY <1>2, <1>3, <1>10 DEF ProgressStep, ProgressSteps
<1>8. p1 = Further(p, q.weight, q.total)
    BY <1>1, <1>2, <1>7, <1>10, SlotsWhole
<1>9. q.total <= p1.percent /\ p1.percent <= Full /\ p1.percent + r.percent <= Full
    <2>1. (d + w) * Share(n) \in Nat /\ (d + w) * Share(n) <= 6 * Tenth
        BY ShareFits
    <2>2. share <= (d + w) * Share(n)
        <3>1. PICK unit \in Nat : unit = Share(n)
            BY ShareValues
        <3>2. w * unit <= (d + w) * unit
            BY <1>10, <3>1
        <3> QED BY <1>2, <3>1, <3>2
    <2> QED BY <1>5, <1>6, <1>7, <2>1, <2>2, ShareValues
<1>12. /\ q \in ProgressSteps /\ q.done <= q.substeps /\ (success => q.done = q.substeps)
       /\ q.name = name /\ q.explicit = 0 /\ p1 \in ProgressSteps /\ r \in ProgressSteps
    BY <1>5, <1>6, <1>7
<1>11. EndStep(Open(<<q, p, r>>), name, success) = Open(<<p1, r>>)
    BY <1>4, <1>8, <1>9, <1>12, EndsInTwo
<1> QED BY <1>1, <1>2, <1>3, <1>11 DEF Updating, Within

Percents == 0..100

LEMMA CopyNamed == \E name \in StepNames : name = "copy_image"
BY DEF StepNames

LEMMA CopyTotal ==
    ASSUME NEW n \in PlanCounts
    PROVE  \E total \in Nat, rate \in Nat : total = 9 * Share(n) /\ rate = Rate(n) /\ total = 100 * rate
<1>1. PICK unit \in Nat, rate \in Nat : unit = Share(n) /\ rate = Rate(n) /\ 9 * unit = 100 * rate
    BY ShareValues
<1>2. 9 * unit \in Nat
    BY <1>1
<1> QED BY <1>1, <1>2

Copy(n, percent, e) == ProgressStep("copy_image", 9, 9 * Share(n), 0, 0, percent, e)

LEMMA CopyFields ==
    ASSUME NEW n \in PlanCounts, NEW percent \in Int, NEW e \in Percents,
           NEW a, a = Copy(n, percent, e)
    PROVE  /\ a \in ProgressSteps /\ a.name = "copy_image" /\ a.weight = 9
           /\ a.total = 100 * Rate(n) /\ a.substeps = 0 /\ a.done = 0 /\ a.explicit = e
<1>1. PICK name \in StepNames : name = "copy_image"
    BY CopyNamed
<1>2. PICK total \in Nat, rate \in Nat : total = 9 * Share(n) /\ rate = Rate(n) /\ total = 100 * rate
    BY CopyTotal
<1>3. e \in Nat
    BY DEF Percents
<1>4. a = ProgressStep(name, 9, total, 0, 0, percent, e)
    BY <1>1, <1>2 DEF Copy
<1>5. /\ a \in ProgressSteps /\ a.name = name /\ a.weight = 9
      /\ a.total = total /\ a.substeps = 0 /\ a.done = 0 /\ a.explicit = e
    BY <1>3, <1>4 DEF ProgressStep, ProgressSteps
<1> QED BY <1>1, <1>2, <1>5

LEMMA CopyReached ==
    ASSUME NEW n, NEW percent, NEW e, NEW p, NEW f
    PROVE  Reached(Copy(n, percent, e), p, f) = Copy(n, p, f)
BY StepReached DEF Copy

\* A part of the copy fits into what the copy is worth.
LEMMA RateFits ==
    ASSUME NEW n \in PlanCounts, NEW d \in Parts(n), d + 9 \in Parts(n), NEW e \in Percents
    PROVE  /\ d * Share(n) + e * Rate(n) \in Nat
           /\ d * Share(n) + e * Rate(n) <= 6 * Tenth
<1>1. PICK unit \in Nat, rate \in Nat : unit = Share(n) /\ rate = Rate(n) /\ 9 * unit = 100 * rate
    BY ShareValues
<1>2. (d + 9) * unit <= 6 * Tenth
    BY <1>1, ShareFits
<1>3. d \in Nat /\ e \in Nat /\ e <= 100
    BY PartsType DEF Percents
<1>4. (d + 9) * unit = d * unit + 100 * rate
    BY <1>1, <1>3
<1>5. e * rate <= 100 * rate /\ d * unit \in Nat /\ e * rate \in Nat
    BY <1>1, <1>3
<1>6. Tenth \in Nat
    BY ShareValues
<1> QED BY <1>1, <1>2, <1>4, <1>5, <1>6

\* The copy has got from e to f percent.
LEMMA CopiesOn ==
    ASSUME NEW n \in PlanCounts, NEW d \in Parts(n), d + 9 \in Parts(n),
           NEW percent \in Int, NEW e \in Percents, NEW f \in Percents
    PROVE  SetPercentage(CopiedTo(n, d, percent, e), "copy_image", f)
               = CopiedTo(n, d, Rate(n) * (f - e), f)
<1>1. PICK a : a = Copy(n, percent, e)
    OBVIOUS
<1>2. PICK b, b1, c : b = Slots(n, d, e * Rate(n)) /\ b1 = Slots(n, d, f * Rate(n)) /\ c = Bundle(4)
    OBVIOUS
<1>3. PICK rate \in Nat, gain \in Int : rate = Rate(n) /\ gain = rate * (f - e)
    BY ShareValues DEF Percents
<1>4. PICK a1 : a1 = Reached(a, gain, f)
    OBVIOUS
<1>5. e \in Nat /\ f \in Nat /\ d \in Nat /\ e * Rate(n) \in Int /\ f * Rate(n) \in Int
    BY PartsType, ShareValues DEF Percents
<1>6. /\ a \in ProgressSteps /\ a.name = "copy_image" /\ a.total = 100 * rate /\ a.substeps = 0
      /\ a.explicit = e 
    BY <1>1, <1>3, CopyFields
<1>15. a1 = Copy(n, gain, f)
    BY <1>1, <1>4, CopyReached
<1>7. gain = (a.total * (f - a.explicit)) \div 100
    <2>1. a.total * (f - a.explicit) = 100 * gain
        BY <1>3, <1>5, <1>6
    <2> QED BY <2>1
<1>8. b \in ProgressSteps /\ b1 \in ProgressSteps /\ b1.percent = d * Share(n) + f * Rate(n)
    BY <1>2, <1>5, SlotsFields
<1>9. c \in ProgressSteps /\ c.percent = 4 * Tenth
    BY <1>2, BundleFour
<1>10. b1.percent + c.percent <= Full
    BY <1>8, <1>9, RateFits, ShareValues
<1>11. b1 = Further(b, 0, gain)
    <2>1. PICK zero \in Nat : zero = 0
        OBVIOUS
    <2>2. Further(b, zero, zero * Share(n) + gain) = Slots(n, d + zero, e * Rate(n) + gain)
        BY <1>2, <1>5, SlotsFurther
    <2>3. zero * Share(n) + gain = gain /\ d + zero = d /\ e * Rate(n) + gain = f * Rate(n)
        BY <1>3, <1>5, <2>1, ShareValues
    <2> QED BY <1>2, <2>1, <2>2, <2>3
<1>12. PICK name : name = "copy_image"
    OBVIOUS
<1>13. a.name = name
    BY <1>6, <1>12
<1>14. SetPercentage(Open(<<a, b, c>>), name, f) = Open(<<a1, b1, c>>)
    BY <1>4, <1>5, <1>6, <1>7, <1>8, <1>9, <1>10, <1>11, <1>13, PercentageSet
<1> QED BY <1>1, <1>2, <1>3, <1>12, <1>14, <1>15 DEF CopiedTo, Copy

\* The copy is at its end, or given up.
LEMMA CopyEnds ==
    ASSUME NEW n \in PlanCounts, NEW d \in Parts(n), d + 9 \in Parts(n),
           NEW percent \in Int, NEW e \in Percents, NEW success \in BOOLEAN
    PROVE  EndStep(CopiedTo(n, d, percent, e), "copy_image", success) = Updating(n, d + 9)
<1>1. CASE e = 0
    <2>1. PICK name \in StepNames, w \in Weights : name = "copy_image" /\ w = 9
        BY DEF StepNames, Weights
    <2>2. e * Rate(n) = 0
        BY <1>1, ShareValues
    <2>3. CopiedTo(n, d, percent, e) = Within(n, d, name, w, percent)
        BY <1>1, <2>1, <2>2 DEF CopiedTo, Copy, Within
    <2>4. EndStep(Within(n, d, name, w, percent), name, success) = Updating(n, d + w)
        BY <2>1, EndsWithin
    <2> QED BY <2>1, <2>3, <2>4
<1>2. CASE e # 0
    <2>1. PICK a : a = Copy(n, percent, e)
        OBVIOUS
    <2>2. PICK unit \in Nat, rate \in Nat : unit = Share(n) /\ rate = Rate(n) /\ 9 * unit = 100 * rate
        BY ShareValues
    <2>3. e \in Nat /\ d \in Nat
        BY PartsType DEF Percents
    <2>4. PICK gain \in Int, more \in Int, less \in Int :
             gain = rate * (100 - e) /\ more = e * rate /\ less = 0 - 9 * unit
        BY <2>2, <2>3
    <2>5. PICK b, b1, b2, c : /\ b = Slots(n, d, more) /\ b1 = Slots(n, d + 9, more + less)
                              /\ b2 = Slots(n, d + 9, 0) /\ c = Bundle(4)
        OBVIOUS
    <2>6. /\ a \in ProgressSteps /\ a.name = "copy_image" /\ a.weight = 9 /\ a.total = 100 * rate
          /\ a.substeps = 0 /\ a.done = 0 /\ a.explicit = e
        BY <2>1, <2>2, CopyFields
    <2>7. gain = (a.total * (100 - a.explicit)) \div 100
        <3>1. a.total * (100 - a.explicit) = 100 * gain
            BY <2>2, <2>3, <2>4, <2>6
        <3> QED BY <2>4, <3>1
    <2>8. b \in ProgressSteps /\ b1 \in ProgressSteps
        <3>1. more + less \in Int
            BY <2>4
        <3> QED BY <2>4, <2>5, <3>1, SlotsFields
    <2>9. b2 \in ProgressSteps /\ b2.percent = (d + 9) * Share(n)
        BY <2>5, SlotsWhole
    <2>10. c \in ProgressSteps /\ c.percent = 4 * Tenth
        BY <2>5, BundleFour
    <2>11. b1 = Further(b, a.weight, 0)
        <3>1. PICK w \in Nat : w = 9
            OBVIOUS
        <3>2. Further(b, w, w * Share(n) + less) = Slots(n, d + w, more + less)
            BY <2>4, <2>5, <3>1, SlotsFurther
        <3>3. w * Share(n) + less = 0
            BY <2>2, <2>4, <3>1
        <3> QED BY <2>5, <2>6, <3>1, <3>2, <3>3
    <2>12. b2 = Further(b1, 0, gain)
        <3>1. PICK zero \in Nat : zero = 0
            OBVIOUS
        <3>2. PICK end \in Parts(n) : end = d + 9
            OBVIOUS
        <3>3. PICK left \in Int : left = more + less
            BY <2>4
        <3>4. Further(b1, zero, zero * Share(n) + gain) = Slots(n, end + zero, left + gain)
            BY <2>4, <2>5, <3>1, <3>2, <3>3, SlotsFurther
        <3>5. zero * Share(n) + gain = gain /\ end + zero = end /\ left + gain = 0
            BY <2>2, <2>3, <2>4, <3>1, <3>2, <3>3
        <3> QED BY <2>5, <3>1, <3>2, <3>4, <3>5
    <2>13. gain <= b2.percent /\ b2.percent + c.percent <= Full
        <3>1. (d + 9) * Share(n) \in Nat /\ (d + 9) * Share(n) <= 6 * Tenth
            BY ShareFits
        <3>2. gain <= 100 * rate
            BY <2>2, <2>3, <2>4
        <3>3. 100 * rate <= (d + 9) * unit
            BY <2>2, <2>3
        <3>4. (d + 9) * unit = (d + 9) * Share(n)
            BY <2>2
        <3> QED BY <2>9, <2>10, <3>1, <3>2, <3>3, <3>4, ShareValues
    <2>14. PICK name : name = "copy_image"
        OBVIOUS
    <2>15. a.name = name /\ a.explicit # 0
        BY <1>2, <2>6, <2>14
    <2>16. EndStep(Open(<<a, b, c>>), name, success) = Open(<<b2, c>>)
        BY <2>6, <2>7, <2>8, <2>9, <2>10, <2>11, <2>12, <2>13, <2>15, EndsExplicit
    <2> QED BY <2>1, <2>2, <2>4, <2>5, <2>14, <2>16 DEF CopiedTo, Copy, Updating
<1> QED BY <1>1, <1>2

LEMMA StepsNamed ==
    /\ \E name \in StepNames : name = "do_install_bundle"
    /\ \E name \in StepNames : name = "determine_slot_states"
    /\ \E name \in StepNames : name = "check_bundle"
    /\ \E name \in StepNames : name = "cms_verify"
    /\ \E name \in StepNames : name = "check_manifest"
    /\ \E name \in StepNames : name = "determine_target_install_group"
    /\ \E name \in StepNames : name = "update_slots"
BY DEF StepNames

\* "do_install_bundle" with so many of its parts done.
Installing(d) == Open(<<Bundle(d)>>)

\* What a part of it is worth.
LEMMA TenthOf ==
    ASSUME NEW d \in Parts(1)
    PROVE  /\ Tenth \in Nat /\ Full \in Nat /\ d \in Nat /\ d * Tenth <= Full
           /\ Tenth = (1 * Full) \div 10 /\ 6 * Tenth = (6 * Full) \div 10
           /\ Tenth = (1 * Tenth) \div 1
BY DEF Tenth, Full, Parts

LEMMA BundleOne ==
    ASSUME NEW d \in Parts(1), d + 1 \in Parts(1), NEW b, b = Bundle(d), NEW b1, b1 = Bundle(d + 1)
    PROVE  /\ b \in ProgressSteps /\ b1 \in ProgressSteps
           /\ b.percent <= Full /\ b1.percent <= Full /\ Tenth <= b1.percent
           /\ b.total = Full /\ b.substeps = 10 /\ b.done = d
           /\ b1 = Further(b, 1, Tenth)
<1>1. /\ b \in ProgressSteps /\ b1 \in ProgressSteps /\ b.total = Full /\ b.substeps = 10
      /\ b.done = d /\ b.percent = d * Tenth /\ b1.percent = (d + 1) * Tenth
    BY BundleFields
<1>2. d * Tenth <= Full /\ (d + 1) * Tenth <= Full /\ Tenth <= (d + 1) * Tenth
    <2>1. PICK tenth \in Nat : tenth = Tenth
        BY TenthOf
    <2>2. d \in Nat
        BY TenthOf
    <2>3. tenth <= (d + 1) * tenth
        BY <2>1, <2>2
    <2> QED BY <2>1, <2>3, TenthOf
<1>3. Further(b, 1, Tenth) = b1
    <2>1. PICK one \in Nat : one = 1
        OBVIOUS
    <2>2. one * Tenth = Tenth
        BY <2>1, TenthOf
    <2>3. Further(Bundle(d), one, one * Tenth) = Bundle(d + one)
        BY BundleFurther
    <2> QED BY <2>1, <2>2, <2>3
<1> QED BY <1>1, <1>2, <1>3

LEMMA PartDone ==
    ASSUME NEW d \in Parts(1), d + 1 \in Parts(1), NEW name \in StepNames
    PROVE  Leaf(Installing(d), name, 1, TRUE) = Installing(d + 1)
<1>1. PICK b, b1 : b = Bundle(d) /\ b1 = Bundle(d + 1)
    OBVIOUS
<1>2. /\ b \in ProgressSteps /\ b1 \in ProgressSteps
      /\ b.percent <= Full /\ b1.percent <= Full /\ Tenth <= b1.percent
      /\ b.total = Full /\ b.substeps = 10 /\ b.done = d
      /\ b1 = Further(b, 1, Tenth)
    BY <1>1, BundleOne
<1>3. PICK one \in Nat, share \in Nat, yes \in BOOLEAN : one = 1 /\ share = Tenth /\ yes = TRUE
    BY TenthOf
<1>4. share = (one * b.total) \div b.substeps
    BY <1>2, <1>3, TenthOf
<1>5. b.substeps > 0 /\ b.substeps # b.done /\ one <= b.substeps
    BY <1>2, <1>3 DEF Parts
<1>6. b1 = Further(b, one, share) /\ share <= b1.percent
    BY <1>2, <1>3
<1>7. Leaf(Open(<<b>>), name, one, yes) = Open(<<b1>>)
    BY <1>2, <1>4, <1>5, <1>6, LeafInOne
<1> QED BY <1>1, <1>3, <1>7 DEF Installing

\* "check_bundle" with its only step in it.
LEMMA BundleChecked ==
    EndStep(Leaf(BeginStep(Installing(1), "check_bundle", 1, 1), "cms_verify", 1, TRUE),
            "check_bundle", TRUE) = Installing(2)
<1>1. PICK d \in Parts(1) : d = 1 /\ d + 1 \in Parts(1) /\ d + 1 = 2
    BY DEF Parts
<1>2. PICK b, b1 : b = Bundle(d) /\ b1 = Bundle(d + 1)
    OBVIOUS
<1>3. /\ b \in ProgressSteps /\ b1 \in ProgressSteps
      /\ b.percent <= Full /\ b1.percent <= Full /\ Tenth <= b1.percent
      /\ b.total = Full /\ b.substeps = 10 /\ b.done = d
      /\ b1 = Further(b, 1, Tenth)
    BY <1>1, <1>2, BundleOne
<1>4. PICK one \in Nat, share \in Nat, yes \in BOOLEAN : one = 1 /\ share = Tenth /\ yes = TRUE
    BY TenthOf
<1>5. share = (one * b.total) \div b.substeps
    BY <1>3, <1>4, TenthOf
<1>6. b.substeps > 0 /\ b.substeps # b.done /\ one <= b.substeps
    BY <1>1, <1>3, <1>4
<1>7. PICK check \in StepNames : check = "check_bundle"
    BY StepsNamed
<1>8. PICK verify \in StepNames : verify = "cms_verify"
    BY StepsNamed
<1>9. PICK q, q1 : /\ q = ProgressStep(check, one, share, one, 0, 0, 0)
                   /\ q1 = Further(q, one, share)
    OBVIOUS
<1>10. BeginStep(Open(<<b>>), check, one, one) = Open(<<q, b>>)
    BY <1>3, <1>5, <1>6, <1>9, BeginsInOne
<1>11. /\ q \in ProgressSteps /\ q.total = share /\ q.substeps = one /\ q.done = 0 /\ q.percent = 0
    BY <1>4, <1>9 DEF ProgressStep, ProgressSteps
<1>12. q1 = ProgressStep(check, one, share, one, 0 + one, 0 + share, 0)
    BY <1>9, StepFurther
<1>13. PICK done \in Nat, percent \in Nat : /\ done = 0 + one /\ done = one
                                            /\ percent = 0 + share /\ percent = share
    BY <1>4
<1>14. q1 = ProgressStep(check, one, share, one, done, percent, 0)
    BY <1>12, <1>13
<1>15. /\ q1 \in ProgressSteps /\ q1.name = check /\ q1.weight = one /\ q1.total = share
       /\ q1.substeps = one /\ q1.done = done /\ q1.percent = percent /\ q1.explicit = 0
    BY <1>14 DEF ProgressStep, ProgressSteps
<1>16. b.percent = 1 * Tenth
    BY <1>1, <1>2, BundleFields
<1>17. /\ share = (one * q.total) \div q.substeps
       /\ q.substeps > 0 /\ q.substeps # q.done /\ one <= q.substeps /\ share <= q1.percent
    BY <1>4, <1>11, <1>13, <1>15, TenthOf
<1>18. q.percent + b.percent <= Full /\ q1.percent + b.percent <= Full
    BY <1>4, <1>11, <1>13, <1>15, <1>16 DEF Tenth, Full
<1>19. Leaf(Open(<<q, b>>), verify, one, yes) = Open(<<q1, b>>)
    BY <1>3, <1>9, <1>11, <1>15, <1>17, <1>18, LeafInTwo
<1>20. /\ q1.done <= q1.substeps /\ (yes => q1.done = q1.substeps)
       /\ b1 = Further(b, q1.weight, q1.total) /\ q1.total <= b1.percent
    BY <1>3, <1>4, <1>13, <1>15
<1>21. EndStep(Open(<<q1, b>>), check, yes) = Open(<<b1>>)
    BY <1>3, <1>15, <1>20, EndsInOne
<1> QED BY <1>1, <1>2, <1>4, <1>7, <1>8, <1>10, <1>19, <1>21 DEF Installing

LEMMA InstallingNone == BeginStep(NoSteps, "do_install_bundle", 10, 1) = Installing(0)
<1>1. PICK name \in StepNames : name = "do_install_bundle"
    BY StepsNamed
<1>2. PICK ten \in Nat, one \in Nat : ten = 10 /\ one = 1
    OBVIOUS
<1>3. BeginStep(NoSteps, name, ten, one) = Open(<<ProgressStep(name, one, Full, ten, 0, 0, 0)>>)
    BY BeginsFirst
<1>4. 0 * Tenth = 0
    BY DEF Tenth, Full
<1>5. Bundle(0) = ProgressStep(name, one, Full, ten, 0, 0, 0)
    BY <1>1, <1>2, <1>4 DEF Bundle
<1> QED BY <1>1, <1>2, <1>3, <1>5 DEF Installing

LEMMA PreparedFour == Prepared = Installing(4)
<1>1. PICK a \in Parts(1), b \in Parts(1), c \in Parts(1), d \in Parts(1), e \in Parts(1) :
         /\ a = 0 /\ b = a + 1 /\ c = b + 1 /\ d = c + 1 /\ e = d + 1
         /\ b = 1 /\ c = 2 /\ e = 4
    BY DEF Parts
<1>2. Leaf(Installing(a), "determine_slot_states", 1, TRUE) = Installing(b)
    BY <1>1, PartDone, StepsNamed
<1>3. Leaf(Installing(c), "check_manifest", 1, TRUE) = Installing(d)
    BY <1>1, PartDone, StepsNamed
<1>4. Leaf(Installing(d), "determine_target_install_group", 1, TRUE) = Installing(e)
    BY <1>1, PartDone, StepsNamed
<1> QED BY <1>1, <1>2, <1>3, <1>4, InstallingNone, BundleChecked DEF Prepared

\* The first step for the slots.
LEMMA UpdateBegins ==
    ASSUME NEW n \in PlanCounts
    PROVE  BeginStep(Prepared, "update_slots", n * 10, 6) = Updating(n, 0)
<1>1. PICK d \in Parts(1) : d = 4
    BY DEF Parts
<1>2. PICK b : b = Bundle(d)
    OBVIOUS
<1>3. /\ b \in ProgressSteps /\ b.substeps = 10 /\ b.done = d /\ b.total = Full
      /\ b.percent = d * Tenth
    BY <1>2, BundleFields
<1>4. PICK name \in StepNames : name = "update_slots"
    BY StepsNamed
<1>5. PICK m \in Nat, six \in Nat, share \in Nat :
         m = n * 10 /\ m = 10 * n /\ six = 6 /\ share = 6 * Tenth
    <2>1. n \in Nat
        BY PartsType
    <2>2. 6 * Tenth \in Nat
        BY ShareValues
    <2>3. n * 10 \in Nat /\ n * 10 = 10 * n
        BY <2>1
    <2> QED BY <2>2, <2>3
<1>6. PICK q : q = ProgressStep(name, six, share, m, 0, 0, 0)
    OBVIOUS
<1>7. share = (six * b.total) \div b.substeps
    BY <1>1, <1>3, <1>5, TenthOf
<1>8. b.substeps > 0 /\ b.substeps # b.done /\ six <= b.substeps /\ b.percent <= Full
    BY <1>1, <1>3, <1>5, TenthOf
<1>9. BeginStep(Open(<<b>>), name, m, six) = Open(<<q, b>>)
    BY <1>3, <1>6, <1>7, <1>8, BeginsInOne
<1>10. q = Slots(n, 0, 0)
    <2>1. 0 * Share(n) + 0 = 0
        BY ShareValues
    <2> QED BY <1>4, <1>5, <1>6, <2>1 DEF Slots
<1> QED BY <1>1, <1>2, <1>4, <1>5, <1>9, <1>10, PreparedFour DEF Installing, Updating

\* A step that opens none, for one of the plans.
LEMMA PartDoneWithin ==
    ASSUME NEW n \in PlanCounts, NEW d \in Parts(n), NEW w \in Weights, NEW name \in StepNames,
           NEW success \in BOOLEAN, d + w \in Parts(n)
    PROVE  Leaf(Updating(n, d), name, w, success) = Updating(n, d + w)
<1>1. d # 10 * n
    BY DEF Parts, PlanCounts, Weights
<1>2. BeginStep(Updating(n, d), name, 0, w) = Within(n, d, name, w, 0)
    BY <1>1, BeginsWithin
<1>3. PICK zero \in Int : zero = 0
    OBVIOUS
<1>4. EndStep(Within(n, d, name, w, zero), name, success) = Updating(n, d + w)
    BY EndsWithin
<1> QED BY <1>2, <1>3, <1>4 DEF Leaf

LEMMA CopyBegins ==
    ASSUME NEW n \in PlanCounts, NEW d, NEW percent
    PROVE  Within(n, d, "copy_image", 9, percent) = CopiedTo(n, d, percent, 0)
<1>1. 0 * Rate(n) = 0
    BY ShareValues
<1> QED BY <1>1 DEF Within, CopiedTo

\* The end of all, whether everything of "update_slots" was done or not.
LEMMA UpdateEnds ==
    ASSUME NEW n \in PlanCounts, NEW d \in Parts(n), NEW success \in BOOLEAN,
           success => d = 10 * n
    PROVE  EndStep(EndStep(Updating(n, d), "update_slots", success), "do_install_bundle", success)
               = NoSteps
<1>1. PICK a, b, b1 : a = Slots(n, d, 0) /\ b = Bundle(4) /\ b1 = Bundle(10)
    OBVIOUS
<1>2. PICK e \in Parts(1), f \in Parts(1), six \in Nat : e = 4 /\ six = 6 /\ f = 10 /\ e + six = f
    BY DEF Parts
<1>3. /\ a \in ProgressSteps /\ a.name = "update_slots" /\ a.substeps = 10 * n
      /\ a.weight = 6 /\ a.done = d /\ a.total = 6 * Tenth /\ a.explicit = 0
    BY <1>1, SlotsWhole
<1>4. b \in ProgressSteps
    BY <1>1, <1>2, BundleFields
<1>5. /\ b1 \in ProgressSteps /\ b1.name = "do_install_bundle" /\ b1.substeps = 10
      /\ b1.done = f /\ b1.total = Full /\ b1.percent = f * Tenth
    BY <1>1, <1>2, BundleFields
<1>6. b1 = Further(b, a.weight, a.total)
    <2>1. Further(Bundle(e), six, six * Tenth) = Bundle(e + six)
        BY <1>2, BundleFurther
    <2> QED BY <1>1, <1>2, <1>3, <2>1
<1>7. a.done <= a.substeps /\ (success => a.done = a.substeps)
    BY <1>3, PartsType DEF Parts, PlanCounts
<1>8. a.total <= b1.percent /\ b1.percent <= Full
    BY <1>2, <1>3, <1>5, TenthOf, ShareValues
<1>9. PICK name : name = "update_slots"
    OBVIOUS
<1>10. PICK all : all = "do_install_bundle"
    OBVIOUS
<1>11. EndStep(Open(<<a, b>>), name, success) = Open(<<b1>>)
    BY <1>3, <1>4, <1>5, <1>6, <1>7, <1>8, <1>9, EndsInOne
<1>12. b1.done <= b1.substeps /\ (success => b1.done = b1.substeps) /\ b1.total <= Full
    BY <1>2, <1>5, TenthOf
<1>13. EndStep(Open(<<b1>>), all, success) = NoSteps
    BY <1>5, <1>10, <1>12, EndsLast
<1> QED BY <1>1, <1>9, <1>10, <1>11, <1>13 DEF Updating

LEMMA FailedEnds ==
    ASSUME NEW n \in PlanCounts, NEW d \in Parts(n)
    PROVE  Failed(Updating(n, d)) = NoSteps
<1>1. PICK no \in BOOLEAN : no = FALSE
    OBVIOUS
<1> QED BY <1>1, UpdateEnds DEF Failed

LEMMA SucceededEnds ==
    ASSUME NEW n \in PlanCounts
    PROVE  Succeeded(Updating(n, 10 * n)) = NoSteps
<1>1. PICK yes \in BOOLEAN : yes = TRUE
    OBVIOUS
<1>2. 10 * n \in Parts(n)
    BY DEF Parts, PlanCounts
<1> QED BY <1>1, <1>2, UpdateEnds DEF Succeeded

----------------------------------------------------------------------------
(* Nothing is mounted twice. *)

\* What is mounted is unmounted before it is mounted again.
Apart(p) ==
    \A i, j \in DOMAIN p : i < j /\ p[i] = "mount" /\ p[j] = "mount" =>
        \E k \in DOMAIN p : i < k /\ k < j /\ p[k] = "umount"

\* It is unmounted before it is mounted at all.
Released(p) ==
    \A j \in DOMAIN p : p[j] = "mount" => \E k \in DOMAIN p : k < j /\ p[k] = "umount"

Mounts(p) == \E i \in DOMAIN p : p[i] = "mount"

LEMMA ApartConcat ==
    ASSUME NEW p \in Programs, NEW q \in Programs, Apart(p), Apart(q), Closed(p) \/ ~Mounts(q)
    PROVE  Apart(p \o q)
<1> USE DEF Programs
<1>1. /\ DOMAIN p = 1..Len(p) /\ DOMAIN q = 1..Len(q) /\ Len(p) \in Nat /\ Len(q) \in Nat
      /\ DOMAIN (p \o q) = 1..(Len(p) + Len(q))
      /\ \A i \in 1..(Len(p) + Len(q)) : (p \o q)[i] = IF i <= Len(p) THEN p[i] ELSE q[i - Len(p)]
    OBVIOUS
<1>2. \A i \in DOMAIN p : i \in DOMAIN (p \o q) /\ (p \o q)[i] = p[i]
    BY <1>1
<1>3. \A i \in DOMAIN q : i + Len(p) \in DOMAIN (p \o q) /\ (p \o q)[i + Len(p)] = q[i]
    BY <1>1
<1>4. \A i \in DOMAIN (p \o q) : ~(i \in DOMAIN p) => i - Len(p) \in DOMAIN q /\ (p \o q)[i] = q[i - Len(p)]
    BY <1>1
<1> SUFFICES ASSUME NEW i \in DOMAIN (p \o q), NEW j \in DOMAIN (p \o q), i < j,
                    (p \o q)[i] = "mount", (p \o q)[j] = "mount"
             PROVE  \E k \in DOMAIN (p \o q) : i < k /\ k < j /\ (p \o q)[k] = "umount"
    BY DEF Apart
<1>5. CASE j \in DOMAIN p
    <2>1. i \in DOMAIN p
        BY <1>1, <1>5
    <2>2. PICK k \in DOMAIN p : i < k /\ k < j /\ p[k] = "umount"
        BY <1>2, <1>5, <2>1 DEF Apart
    <2> QED BY <1>2, <2>2
<1>6. CASE j \notin DOMAIN p /\ i \in DOMAIN p
    <2>1. Mounts(q)
        BY <1>4, <1>6 DEF Mounts
    <2>2. PICK k \in DOMAIN p : i < k /\ p[k] = "umount"
        BY <1>2, <1>6, <2>1 DEF Closed
    <2>3. k < j
        BY <1>1, <1>6, <2>2
    <2> QED BY <1>2, <2>2, <2>3
<1>7. CASE i \notin DOMAIN p
    <2>1. j \notin DOMAIN p
        BY <1>1, <1>7
    <2>2. /\ i - Len(p) \in DOMAIN q /\ q[i - Len(p)] = "mount"
          /\ j - Len(p) \in DOMAIN q /\ q[j - Len(p)] = "mount" /\ i - Len(p) < j - Len(p)
        BY <1>1, <1>4, <1>7, <2>1
    <2>3. PICK k \in DOMAIN q : i - Len(p) < k /\ k < j - Len(p) /\ q[k] = "umount"
        BY <2>2 DEF Apart
    <2>4. i < k + Len(p) /\ k + Len(p) < j
        BY <1>1, <2>3
    <2> QED BY <1>3, <2>3, <2>4
<1> QED BY <1>5, <1>6, <1>7

LEMMA ApartTail ==
    ASSUME NEW p \in Programs, p # <<>>, Apart(p)
    PROVE  /\ Apart(Tail(p))
           /\ Head(p) = "mount" => Released(Tail(p)) /\ ~Released(p)
           /\ Released(p) => Head(p) = "umount" \/ Released(Tail(p))
<1> USE DEF Programs
<1> DEFINE t == Tail(p)
<1>1. /\ Len(p) \in Nat /\ Len(p) >= 1
      /\ DOMAIN p = 1..Len(p) /\ DOMAIN t = 1..(Len(p) - 1)
      /\ Head(p) = p[1]
      /\ \A i \in 1..(Len(p) - 1) : t[i] = p[i + 1]
    OBVIOUS
<1> HIDE DEF t
<1>2. \A i \in DOMAIN t : i + 1 \in DOMAIN p /\ t[i] = p[i + 1] /\ i \in Nat /\ i >= 1
    BY <1>1
<1>3. ASSUME NEW i \in DOMAIN p, i # 1 PROVE i - 1 \in DOMAIN t /\ t[i - 1] = p[i]
    BY <1>1, <1>3
<1>4. Apart(t)
    <2> SUFFICES ASSUME NEW i \in DOMAIN t, NEW j \in DOMAIN t, i < j, t[i] = "mount", t[j] = "mount"
                 PROVE  \E k \in DOMAIN t : i < k /\ k < j /\ t[k] = "umount"
        BY DEF Apart
    <2>1. i + 1 < j + 1 /\ p[i + 1] = "mount" /\ p[j + 1] = "mount"
        BY <1>2
    <2>2. PICK k \in DOMAIN p : i + 1 < k /\ k < j + 1 /\ p[k] = "umount"
        BY <1>2, <2>1 DEF Apart
    <2>3. k # 1 /\ i < k - 1 /\ k - 1 < j
        BY <1>1, <1>2, <2>2
    <2> QED BY <1>3, <2>2, <2>3
<1>5. ASSUME Head(p) = "mount" PROVE Released(t) /\ ~Released(p)
    <2>1. Released(t)
        <3> SUFFICES ASSUME NEW j \in DOMAIN t, t[j] = "mount"
                     PROVE  \E k \in DOMAIN t : k < j /\ t[k] = "umount"
            BY DEF Released
        <3>1. 1 \in DOMAIN p /\ 1 < j + 1 /\ p[j + 1] = "mount"
            BY <1>1, <1>2
        <3>2. PICK k \in DOMAIN p : 1 < k /\ k < j + 1 /\ p[k] = "umount"
            BY <1>1, <1>2, <1>5, <3>1 DEF Apart
        <3>3. k # 1 /\ k - 1 < j
            BY <1>1, <1>2, <3>2
        <3> QED BY <1>3, <3>2, <3>3
    <2>2. ~Released(p)
        BY <1>1, <1>5 DEF Released
    <2> QED BY <2>1, <2>2
<1>6. ASSUME Released(p), Head(p) # "umount" PROVE Released(t)
    <2> SUFFICES ASSUME NEW j \in DOMAIN t, t[j] = "mount"
                 PROVE  \E k \in DOMAIN t : k < j /\ t[k] = "umount"
        BY DEF Released
    <2>1. PICK k \in DOMAIN p : k < j + 1 /\ p[k] = "umount"
        BY <1>2, <1>6 DEF Released
    <2>2. k # 1 /\ k - 1 < j
        BY <1>1, <1>2, <1>6, <2>1
    <2> QED BY <1>3, <2>1, <2>2
<1> QED BY <1>4, <1>5, <1>6 DEF t

LEMMA ApartSeedDropped ==
    ASSUME NEW p \in Programs, p # <<>>, Head(p) = "seed", Seeded(p), Apart(p)
    PROVE  LET q == <<"unpack">> \o SubSeq(p, 4, Len(p))
           IN  Apart(q) /\ (Released(p) => Released(q))
<1> USE DEF Programs
<1> DEFINE s == SubSeq(p, 4, Len(p))
           q == <<"unpack">> \o s
<1>1. Len(p) \in Nat /\ Len(p) >= 1 /\ DOMAIN p = 1..Len(p) /\ Head(p) = p[1]
    OBVIOUS
<1>2. 1 + 2 \in DOMAIN p /\ p[1] = "seed" /\ p[2] = "unpack" /\ p[3] = "unseed"
    BY <1>1 DEF Seeded
<1>3. /\ s \in Seq(Steps) /\ Len(s) = Len(p) - 3
    BY <1>1, <1>2
<1>4. \A i \in 1..Len(s) : s[i] = p[i + 3]
    OBVIOUS
<1> HIDE DEF s
<1>5. /\ DOMAIN q = 1..(Len(s) + 1) /\ q[1] = "unpack"
      /\ \A i \in 2..(Len(s) + 1) : q[i] = s[i - 1]
    BY <1>3
<1> HIDE DEF q
<1>6. ASSUME NEW i \in DOMAIN q, q[i] = "mount"
      PROVE  i + 2 \in DOMAIN p /\ p[i + 2] = "mount" /\ i \in Nat
    <2>1. i \in 2..(Len(s) + 1) /\ i - 1 \in 1..Len(s)
        BY <1>3, <1>5, <1>6
    <2>2. q[i] = s[i - 1] /\ s[i - 1] = p[(i - 1) + 3] /\ (i - 1) + 3 = i + 2
        BY <1>4, <1>5, <2>1
    <2> QED BY <1>1, <1>3, <1>6, <2>1, <2>2
<1>7. ASSUME NEW k \in DOMAIN p, p[k] = "umount"
      PROVE  k - 2 \in DOMAIN q /\ q[k - 2] = "umount" /\ k \in Nat
    <2>1. k \in 4..Len(p)
        BY <1>1, <1>2, <1>7
    <2>2. k - 2 \in 2..(Len(s) + 1) /\ (k - 2) - 1 \in 1..Len(s) /\ ((k - 2) - 1) + 3 = k
        BY <1>1, <1>3, <2>1
    <2>3. q[k - 2] = s[(k - 2) - 1]
        BY <1>5, <2>2
    <2>4. s[(k - 2) - 1] = p[k]
        BY <1>4, <2>2
    <2> QED BY <1>1, <1>5, <1>7, <2>1, <2>2, <2>3, <2>4
<1>8. Apart(q)
    <2> SUFFICES ASSUME NEW i \in DOMAIN q, NEW j \in DOMAIN q, i < j, q[i] = "mount", q[j] = "mount"
                 PROVE  \E k \in DOMAIN q : i < k /\ k < j /\ q[k] = "umount"
        BY DEF Apart
    <2>1. i + 2 < j + 2
        BY <1>6
    <2>2. PICK k \in DOMAIN p : i + 2 < k /\ k < j + 2 /\ p[k] = "umount"
        BY <1>6, <2>1 DEF Apart
    <2>3. i < k - 2 /\ k - 2 < j
        BY <1>6, <1>7, <2>2
    <2> QED BY <1>7, <2>2, <2>3
<1>9. ASSUME Released(p) PROVE Released(q)
    <2> SUFFICES ASSUME NEW j \in DOMAIN q, q[j] = "mount"
                 PROVE  \E k \in DOMAIN q : k < j /\ q[k] = "umount"
        BY DEF Released
    <2>1. PICK k \in DOMAIN p : k < j + 2 /\ p[k] = "umount"
        BY <1>6, <1>9 DEF Released
    <2>2. k - 2 < j
        BY <1>6, <1>7, <2>1
    <2> QED BY <1>7, <2>1, <2>2
<1> QED BY <1>8, <1>9 DEF q, s

LEMMA HandlersApart ==
    ASSUME image \in Images, type \in Types
    PROVE  Apart(Handler)
<1> DEFINE Fine(p) == p \in Programs /\ Closed(p) /\ Apart(p)
           Plain(p) == p \in Programs /\ Apart(p) /\ ~Mounts(p)
<1>1. \A p, q : Fine(p) /\ Fine(q) => Fine(p \o q)
    BY ProgramConcat, ApartConcat
<1>2. \A p, q : p \in Programs /\ Apart(p) /\ Plain(q) => p \o q \in Programs /\ Apart(p \o q)
    BY ProgramConcat, ApartConcat
<1>3. ASSUME NEW hook \in {"pre", "post"}
      PROVE  Fine(Hook(hook)) /\ Plain(Hook(hook)) /\ Fine(MountedHook(hook))
    <2>1. /\ Hook(hook) \in Programs /\ Closed(Hook(hook))
          /\ MountedHook(hook) \in Programs /\ Closed(MountedHook(hook))
        BY HookPrograms
    <2>2. CASE hook \in image.hooks
        <3>1. Hook(hook) = <<hook>> /\ MountedHook(hook) = <<"mount", hook, "umount">>
            BY <2>2 DEF Hook, MountedHook
        <3>2. Apart(<<hook>>) /\ ~Mounts(<<hook>>)
            BY DEF Apart, Mounts
        <3> DEFINE m == <<"mount", hook, "umount">>
        <3>3. DOMAIN m = 1..3 /\ m[2] = hook /\ m[3] = "umount"
            OBVIOUS
        <3>4. \A i \in DOMAIN m : m[i] = "mount" => i = 1
            BY <3>3
        <3> HIDE DEF m
        <3>5. Apart(m)
            BY <3>4 DEF Apart
        <3> QED BY <2>1, <3>1, <3>2, <3>5 DEF m
    <2>3. CASE hook \notin image.hooks
        BY <2>1, <2>3 DEF Hook, MountedHook, Apart, Mounts
    <2> QED BY <2>2, <2>3
<1>4. Fine(<<"install">>) /\ Fine(<<"volume">>) /\ Fine(Write("copy")) /\ Fine(Write("stream"))
    <2>1. ASSUME NEW a \in {"install", "volume", "copy", "stream", "extract"} PROVE Fine(<<a>>)
        BY <2>1, SinglePrograms DEF Steps, Apart
    <2> HIDE DEF Fine
    <2> QED BY <2>1, WritePrograms
<1>5. Fine(<<"format", "stream">>)
    BY DEF Programs, Steps, Closed, Apart
<1>6. Fine(Resize)
    BY ResizePrograms DEF Resize, Apart
<1>7. Fine(ImgToRaw) /\ Fine(ImgToFs) /\ Fine(ImgToUbivol) /\ Fine(ImgToUbifs) /\ Fine(ImgToFlash)
    <2> HIDE DEF Fine
    <2> QED BY <1>1, <1>3, <1>4, <1>5, <1>6
            DEF ImgToRaw, ImgToFs, ImgToUbivol, ImgToUbifs, ImgToFlash
<1>8. Apart(ArchiveToFs)
    <2> DEFINE pre == IF type = "ubifs" THEN MountedHook("pre") ELSE Hook("pre")
               opened == pre \o <<"format", "mount">>
               unpacked == opened \o Unpack
               body == unpacked \o Hook("post")
    <2>1. <<"format", "mount">> \in Programs /\ Apart(<<"format", "mount">>)
        BY DEF Programs, Steps, Apart
    <2>2. Fine(pre)
        BY <1>3
    <2> HIDE DEF pre
    <2>3. opened \in Programs /\ Apart(opened)
        BY <2>1, <2>2, ProgramConcat, ApartConcat
    <2> HIDE DEF opened
    <2>4. Plain(Unpack)
        BY UnpackPrograms DEF Unpack, Apart, Mounts
    <2>5. Plain(<<"umount">>)
        BY SinglePrograms DEF Steps, Apart, Mounts
    <2> HIDE DEF Plain
    <2>6. unpacked \in Programs /\ Apart(unpacked)
        BY <1>2, <2>3, <2>4
    <2> HIDE DEF unpacked
    <2>7. body \in Programs /\ Apart(body)
        BY <1>2, <1>3, <2>6
    <2> HIDE DEF body
    <2>8. Apart(body \o <<"umount">>)
        BY <1>2, <2>5, <2>7
    <2>9. ArchiveToFs = body \o <<"umount">>
        BY DEF ArchiveToFs, body, unpacked, opened, pre
    <2> QED BY <2>8, <2>9
<1> QED BY <1>4, <1>7, <1>8, HandlerIs

----------------------------------------------------------------------------
(* The progress as the installation goes on. *)

\* The tree between two plans, with the status of a slot being read, and with its image being
\* written, when so many plans are left.
BetweenPlans(t, left) ==
    \E n \in PlanCounts : \E d \in Parts(n) :
        d + 10 * left = 10 * n /\ t = Updating(n, d)
Reading(t, left) ==
    \E n \in PlanCounts : \E d \in Parts(n) :
        d + 10 * left = 10 * n /\ t = Within(n, d, "check_slot", 1, 0)
Writing(t, left) ==
    \E n \in PlanCounts : \E d \in Parts(n) : \E percent \in Int : \E e \in Percents :
        d + 10 * left = 10 * n /\ t = CopiedTo(n, d + 1, percent, e)

\* A plan that is left has its ten parts.
LEMMA PartsLeft ==
    ASSUME NEW n \in PlanCounts, NEW d \in Parts(n), NEW left \in Nat, left # 0,
           d + 10 * left = 10 * n
    PROVE  /\ d + 1 \in Parts(n) /\ (d + 1) + 9 \in Parts(n)
           /\ d # 10 * n /\ d + 1 # 10 * n
           /\ ((d + 1) + 9) + 10 * (left - 1) = 10 * n
<1>1. n \in Nat /\ d \in Nat /\ d + 10 <= 10 * n
    <2>1. n \in Nat /\ d \in Nat
        BY PartsType
    <2>2. 10 <= 10 * left
        OBVIOUS
    <2> QED BY <2>1, <2>2
<1>2. \A x \in Nat : x <= 10 * n => x \in Parts(n)
    BY <1>1 DEF Parts
<1> QED BY <1>1, <1>2

LEMMA PartNames ==
    /\ \E name \in StepNames : name = "check_repo"
    /\ \E name \in StepNames : name = "check_slot"
    /\ \E name \in StepNames : name = "skip_image"
    /\ \E one \in Weights : one = 1
    /\ \E nine \in Weights : nine = 9
    /\ \E yes \in BOOLEAN : yes = TRUE
    /\ \E no \in BOOLEAN : no = FALSE
BY DEF StepNames, Weights

LEMMA UpdateStarts ==
    ASSUME NEW n \in PlanCounts
    PROVE  BetweenPlans(BeginStep(Prepared, "update_slots", n * 10, 6), n)
<1>1. PICK d \in Parts(n) : d = 0
    BY DEF Parts, PlanCounts
<1>2. n \in Nat
    BY PartsType
<1>3. d + 10 * n = 10 * n
    BY <1>1, <1>2
<1> QED BY <1>1, <1>3, UpdateBegins DEF BetweenPlans

LEMMA ArtifactDone ==
    ASSUME NEW t, NEW left \in Nat, left # 0, BetweenPlans(t, left)
    PROVE  LET found == Leaf(t, "check_repo", 1, TRUE)
           IN  /\ Failed(Leaf(t, "check_repo", 1, FALSE)) = NoSteps
               /\ Failed(Leaf(found, "copy_image", 9, FALSE)) = NoSteps
               /\ BetweenPlans(Leaf(found, "copy_image", 9, TRUE), left - 1)
<1>1. PICK n \in PlanCounts : \E d \in Parts(n) : d + 10 * left = 10 * n /\ t = Updating(n, d)
    BY DEF BetweenPlans
<1>2. PICK d \in Parts(n) : d + 10 * left = 10 * n /\ t = Updating(n, d)
    BY <1>1
<1>3. PICK d1 \in Parts(n), d2 \in Parts(n) :
         d1 = d + 1 /\ d2 = d1 + 9 /\ d2 + 10 * (left - 1) = 10 * n
    BY <1>2, PartsLeft
<1>4. PICK repo \in StepNames : repo = "check_repo"
    BY PartNames
<1>5. PICK copy \in StepNames : copy = "copy_image"
    BY CopyNamed
<1>6. PICK one \in Weights, nine \in Weights : one = 1 /\ nine = 9
    BY PartNames
<1>7. \A success \in BOOLEAN : Leaf(t, repo, one, success) = Updating(n, d1)
    BY <1>2, <1>3, <1>6, PartDoneWithin
<1>8. \A success \in BOOLEAN : Leaf(Updating(n, d1), copy, nine, success) = Updating(n, d2)
    BY <1>3, <1>6, PartDoneWithin
<1>9. /\ Leaf(t, "check_repo", 1, FALSE) = Updating(n, d1)
      /\ Leaf(t, "check_repo", 1, TRUE) = Updating(n, d1)
      /\ Leaf(Updating(n, d1), "copy_image", 9, FALSE) = Updating(n, d2)
      /\ Leaf(Updating(n, d1), "copy_image", 9, TRUE) = Updating(n, d2)
    BY <1>4, <1>5, <1>6, <1>7, <1>8
<1>10. Failed(Updating(n, d1)) = NoSteps /\ Failed(Updating(n, d2)) = NoSteps
    BY FailedEnds
<1>11. BetweenPlans(Updating(n, d2), left - 1)
    BY <1>3 DEF BetweenPlans
<1> QED BY <1>9, <1>10, <1>11

LEMMA ReadingBegins ==
    ASSUME NEW t, NEW left \in Nat, left # 0, BetweenPlans(t, left)
    PROVE  Reading(BeginStep(t, "check_slot", 0, 1), left)
<1>1. PICK n \in PlanCounts : \E d \in Parts(n) : d + 10 * left = 10 * n /\ t = Updating(n, d)
    BY DEF BetweenPlans
<1>2. PICK d \in Parts(n) : d + 10 * left = 10 * n /\ t = Updating(n, d)
    BY <1>1
<1>3. d # 10 * n
    BY <1>2, PartsLeft
<1>4. PICK name \in StepNames, one \in Weights : name = "check_slot" /\ one = 1
    BY PartNames
<1>5. BeginStep(Updating(n, d), name, 0, one) = Within(n, d, name, one, 0)
    BY <1>3, BeginsWithin
<1> QED BY <1>2, <1>4, <1>5 DEF Reading

LEMMA ReadingEnds ==
    ASSUME NEW t, NEW left \in Nat, left # 0, Reading(t, left)
    PROVE  LET skipping == BeginStep(EndStep(t, "check_slot", TRUE), "skip_image", 0, SkipWeight)
           IN  /\ Failed(EndStep(t, "check_slot", FALSE)) = NoSteps
               /\ BetweenPlans(EndStep(skipping, "skip_image", TRUE), left - 1)
               /\ Failed(EndStep(skipping, "skip_image", FALSE)) = NoSteps
               /\ Writing(BeginStep(EndStep(t, "check_slot", TRUE), "copy_image", 0, 9), left)
<1>1. PICK n \in PlanCounts : \E d \in Parts(n) :
         d + 10 * left = 10 * n /\ t = Within(n, d, "check_slot", 1, 0)
    BY DEF Reading
<1>2. PICK d \in Parts(n) : d + 10 * left = 10 * n /\ t = Within(n, d, "check_slot", 1, 0)
    BY <1>1
<1>3. PICK d1 \in Parts(n), d2 \in Parts(n) :
         d1 = d + 1 /\ d2 = d1 + 9 /\ d1 # 10 * n /\ d2 + 10 * (left - 1) = 10 * n
    BY <1>2, PartsLeft
<1>4. PICK slot \in StepNames, skip \in StepNames : slot = "check_slot" /\ skip = "skip_image"
    BY PartNames
<1>5. PICK copy \in StepNames : copy = "copy_image"
    BY CopyNamed
<1>6. PICK one \in Weights, nine \in Weights : one = 1 /\ nine = 9
    BY PartNames
<1>7. PICK zero \in Int : zero = 0
    OBVIOUS
<1>8. \A success \in BOOLEAN : EndStep(Within(n, d, slot, one, zero), slot, success) = Updating(n, d1)
    BY <1>3, <1>6, EndsWithin
<1>9. \A success \in BOOLEAN : EndStep(t, "check_slot", success) = Updating(n, d1)
    BY <1>2, <1>4, <1>6, <1>7, <1>8
<1>10. BeginStep(Updating(n, d1), skip, 0, nine) = Within(n, d1, skip, nine, 0)
    BY <1>3, BeginsWithin
<1>11. \A success \in BOOLEAN :
          EndStep(Within(n, d1, skip, nine, zero), skip, success) = Updating(n, d2)
    BY <1>3, <1>6, EndsWithin
<1>12. BeginStep(Updating(n, d1), copy, 0, nine) = Within(n, d1, copy, nine, 0)
    BY <1>3, BeginsWithin
<1>13. \A success \in BOOLEAN :
          EndStep(BeginStep(Updating(n, d1), "skip_image", 0, SkipWeight), "skip_image", success)
              = Updating(n, d2)
    BY <1>4, <1>6, <1>7, <1>10, <1>11 DEF SkipWeight
<1>14. Failed(Updating(n, d1)) = NoSteps /\ Failed(Updating(n, d2)) = NoSteps
    BY FailedEnds
<1>15. BetweenPlans(Updating(n, d2), left - 1)
    BY <1>3 DEF BetweenPlans
<1>16. BeginStep(Updating(n, d1), "copy_image", 0, 9) = CopiedTo(n, d1, 0, 0)
    BY <1>5, <1>6, <1>12, CopyBegins
<1>17. Writing(CopiedTo(n, d1, 0, 0), left)
    <2>1. PICK e \in Percents : e = 0
        BY DEF Percents
    <2>2. CopiedTo(n, d1, 0, 0) = CopiedTo(n, d + 1, zero, e)
        BY <1>3, <1>7, <2>1
    <2> QED BY <1>2, <2>2 DEF Writing
<1>18. /\ EndStep(t, "check_slot", TRUE) = Updating(n, d1)
       /\ EndStep(t, "check_slot", FALSE) = Updating(n, d1)
    BY <1>9
<1>19. LET skipping == BeginStep(Updating(n, d1), "skip_image", 0, SkipWeight)
       IN  /\ EndStep(skipping, "skip_image", TRUE) = Updating(n, d2)
           /\ EndStep(skipping, "skip_image", FALSE) = Updating(n, d2)
    BY <1>13
<1> QED BY <1>14, <1>15, <1>16, <1>17, <1>18, <1>19

LEMMA WritingGoesOn ==
    ASSUME NEW t, NEW left \in Nat, left # 0, Writing(t, left), NEW f \in Percents
    PROVE  Writing(SetPercentage(t, "copy_image", f), left)
<1>1. PICK n \in PlanCounts : \E d \in Parts(n) : \E percent \in Int : \E e \in Percents :
         d + 10 * left = 10 * n /\ t = CopiedTo(n, d + 1, percent, e)
    BY DEF Writing
<1>2. PICK d \in Parts(n) : \E percent \in Int : \E e \in Percents :
         d + 10 * left = 10 * n /\ t = CopiedTo(n, d + 1, percent, e)
    BY <1>1
<1>3. PICK percent \in Int, e \in Percents :
         d + 10 * left = 10 * n /\ t = CopiedTo(n, d + 1, percent, e)
    BY <1>2
<1>4. PICK d1 \in Parts(n) : d1 = d + 1 /\ d1 + 9 \in Parts(n)
    BY <1>3, PartsLeft
<1>5. SetPercentage(CopiedTo(n, d1, percent, e), "copy_image", f)
          = CopiedTo(n, d1, Rate(n) * (f - e), f)
    BY <1>4, CopiesOn
<1>6. PICK gain \in Int : gain = Rate(n) * (f - e)
    BY ShareValues DEF Percents
<1> QED BY <1>3, <1>4, <1>5, <1>6 DEF Writing

LEMMA WritingEnds ==
    ASSUME NEW t, NEW left \in Nat, left # 0, Writing(t, left)
    PROVE  /\ Failed(EndStep(t, "copy_image", FALSE)) = NoSteps
           /\ Failed(EndStep(t, "copy_image", TRUE)) = NoSteps
           /\ BetweenPlans(EndStep(t, "copy_image", TRUE), left - 1)
<1>1. PICK n \in PlanCounts : \E d \in Parts(n) : \E percent \in Int : \E e \in Percents :
         d + 10 * left = 10 * n /\ t = CopiedTo(n, d + 1, percent, e)
    BY DEF Writing
<1>2. PICK d \in Parts(n) : \E percent \in Int : \E e \in Percents :
         d + 10 * left = 10 * n /\ t = CopiedTo(n, d + 1, percent, e)
    BY <1>1
<1>3. PICK percent \in Int, e \in Percents :
         d + 10 * left = 10 * n /\ t = CopiedTo(n, d + 1, percent, e)
    BY <1>2
<1>4. PICK d1 \in Parts(n), d2 \in Parts(n) :
         d1 = d + 1 /\ d2 = d1 + 9 /\ d2 + 10 * (left - 1) = 10 * n
    BY <1>3, PartsLeft
<1>5. \A success \in BOOLEAN :
         EndStep(CopiedTo(n, d1, percent, e), "copy_image", success) = Updating(n, d2)
    BY <1>4, CopyEnds
<1>6. /\ EndStep(t, "copy_image", TRUE) = Updating(n, d2)
      /\ EndStep(t, "copy_image", FALSE) = Updating(n, d2)
    BY <1>3, <1>4, <1>5
<1>7. Failed(Updating(n, d2)) = NoSteps
    BY FailedEnds
<1>8. BetweenPlans(Updating(n, d2), left - 1)
    BY <1>4 DEF BetweenPlans
<1> QED BY <1>6, <1>7, <1>8

LEMMA UpdateSucceeds ==
    ASSUME NEW t, BetweenPlans(t, 0)
    PROVE  Succeeded(t) = NoSteps
<1>1. PICK n \in PlanCounts : \E d \in Parts(n) : d + 10 * 0 = 10 * n /\ t = Updating(n, d)
    BY DEF BetweenPlans
<1>2. PICK d \in Parts(n) : d + 10 * 0 = 10 * n /\ t = Updating(n, d)
    BY <1>1
<1>3. d = 10 * n
    BY <1>2, PartsType
<1> QED BY <1>2, <1>3, SucceededEnds

----------------------------------------------------------------------------
(* Every installation is answered. *)

\* The progress is where the installation is.
ProgressFits ==
    /\ pc = "next" => BetweenPlans(tree, Len(plans))
    /\ pc = "checked" => Reading(tree, Len(plans))
    /\ pc \in {"handler", "failed"} => Writing(tree, Len(plans))

\* The slot is not mounted when it is to be mounted.
ProgramFits ==
    /\ pc = "checked" => Target \notin held
    /\ pc = "handler" => /\ Closed(prog) /\ Seeded(prog) /\ Apart(prog)
                         /\ Target \in held => Released(prog)

AnsweredInv ==
    /\ ProgressFits
    /\ ProgramFits
    /\ Answered

LEMMA AnsweredInit == Init => AnsweredInv
BY DEF Init, AnsweredInv, ProgressFits, ProgramFits, Answered

\* The plans that are left.
LEMMA PlansLeft ==
    ASSUME PlanTypeOK
    PROVE  /\ Len(plans) \in Nat
           /\ plans # <<>> => Len(plans) # 0 /\ Len(Tail(plans)) = Len(plans) - 1
           /\ plans = <<>> => Len(plans) = 0
           /\ pc \in {"checked", "handler", "failed"} => plans # <<>>
<1>1. plans \in Seq(Images \cup {Artifact})
    BY DEF PlanTypeOK
<1>2. plans # <<>> => Len(plans) # 0 /\ Len(Tail(plans)) = Len(plans) - 1
    BY <1>1
<1> QED BY <1>1, <1>2 DEF PlanTypeOK

\* The percentage of a copy that is reported.
LEMMA PartOfHundred ==
    ASSUME NEW size \in Nat, NEW next \in Nat, next <= size, size # 0
    PROVE  (100 * next) \div size \in Percents
<1>1. PICK q \in Int : q = (100 * next) \div size
    BY SMT
<1>2. size * q <= 100 * next /\ 100 * next < size * q + size
    BY <1>1, SMT
<1>3. q >= 0
    <2>1. SUFFICES ASSUME q <= -1 PROVE FALSE
        BY <1>1
    <2>2. size * q <= size * (-1)
        BY <1>1, <2>1, SMT
    <2> QED BY <1>1, <1>2, <2>2
<1>4. q <= 100
    <2>1. SUFFICES ASSUME q >= 101 PROVE FALSE
        BY <1>1
    <2>2. size * q >= size * 101
        BY <1>1, <2>1, SMT
    <2> QED BY <1>1, <1>2, <2>2
<1> QED BY <1>1, <1>3, <1>4 DEF Percents

LEMMA CopyReports ==
    ASSUME CopyIInv, PlanTypeOK, JobFits, CopyChunk, job.phase = "raw"
    PROVE  (100 * job'.next) \div Len(image.chunks) \in Percents
<1>1. job.next < Len(job.source) /\ job' = [job EXCEPT !.next = job.next + 1]
    BY DEF CopyChunk, AdaptiveChunk, RawChunk
<1>2. /\ job.source \in Seq(Chunks) /\ job.next \in Nat /\ job \in Jobs
    BY DEF CopyIInv, CopyTypeOK, Jobs
<1>3. job.source = image.chunks
    BY DEF JobFits
<1>4. job'.next = job.next + 1
    BY <1>1, <1>2 DEF Jobs
<1>5. /\ Len(image.chunks) \in Nat /\ job'.next \in Nat
      /\ job'.next <= Len(image.chunks) /\ Len(image.chunks) # 0
    BY <1>1, <1>2, <1>3, <1>4
<1> QED BY <1>5, PartOfHundred

LEMMA ProgressNext ==
    ASSUME CopyIInv, PlanTypeOK, JobFits, AnsweredInv, [Next]_vars
    PROVE  ProgressFits' /\ Answered'
<1>1. ProgressFits /\ ProgramFits /\ Answered
    BY DEF AnsweredInv
<1>2. /\ Len(plans) \in Nat
      /\ plans # <<>> => Len(plans) # 0 /\ Len(Tail(plans)) = Len(plans) - 1
      /\ plans = <<>> => Len(plans) = 0
      /\ pc \in {"checked", "handler", "failed"} => plans # <<>>
    BY PlansLeft
<1>3. ASSUME EndAs(NoSteps) PROVE ProgressFits' /\ Answered'
    BY <1>3 DEF EndAs, NoSteps, ProgressFits, Answered
<1>4. ASSUME UNCHANGED <<pc, plans, tree, fault>> PROVE ProgressFits' /\ Answered'
    BY <1>1, <1>4 DEF ProgressFits, Answered
<1>5. ASSUME pc' = "next", BetweenPlans(tree', Len(plans')) PROVE ProgressFits' /\ Answered'
    BY <1>5 DEF ProgressFits, Answered
<1>6. ASSUME pc' = "handler", Writing(tree', Len(plans')) PROVE ProgressFits' /\ Answered'
    BY <1>6 DEF ProgressFits, Answered
<1>7. CASE Begin
    <2>1. Len(plans') \in PlanCounts
        <3>1. \A i : Len(<<i>>) = 1 /\ Len(<<Artifact, i>>) = 2
            OBVIOUS
        <3> QED BY <1>7, <3>1 DEF Begin, Bundles, PlanCounts
    <2>2. BetweenPlans(tree', Len(plans'))
        BY <1>7, <2>1, UpdateStarts DEF Begin
    <2> QED BY <1>5, <1>7, <2>2 DEF Begin
<1>8. CASE InstallArtifact
    <2> DEFINE found == Leaf(tree, "check_repo", 1, TRUE)
    <2>1. /\ Failed(Leaf(tree, "check_repo", 1, FALSE)) = NoSteps
          /\ Failed(Leaf(found, "copy_image", 9, FALSE)) = NoSteps
          /\ BetweenPlans(Leaf(found, "copy_image", 9, TRUE), Len(plans) - 1)
        BY <1>1, <1>2, <1>8, ArtifactDone DEF InstallArtifact, ProgressFits
    <2>2. CASE EndAs(NoSteps)
        BY <1>3, <2>2
    <2>3. CASE tree' = Leaf(found, "copy_image", 9, TRUE) /\ plans' = Tail(plans) /\ pc' = pc
        BY <1>2, <1>5, <1>8, <2>1, <2>3 DEF InstallArtifact
    <2> QED BY <1>8, <2>1, <2>2, <2>3 DEF InstallArtifact
<1>9. CASE CheckSlot
    <2> DEFINE checking == BeginStep(tree, "check_slot", 0, 1)
    <2>1. Reading(checking, Len(plans))
        BY <1>1, <1>2, <1>9, ReadingBegins DEF CheckSlot, ProgressFits
    <2>2. Failed(EndStep(checking, "check_slot", FALSE)) = NoSteps
        BY <1>2, <1>9, <2>1, ReadingEnds DEF CheckSlot
    <2>3. CASE EndAs(NoSteps)
        BY <1>3, <2>3
    <2>4. CASE tree' = checking /\ pc' = "checked" /\ plans' = plans
        BY <2>1, <2>4 DEF ProgressFits, Answered
    <2> QED BY <1>9, <2>2, <2>3, <2>4 DEF CheckSlot
<1>10. CASE Skip
    <2> DEFINE skipping == BeginStep(EndStep(tree, "check_slot", TRUE), "skip_image", 0, SkipWeight)
    <2>1. /\ BetweenPlans(EndStep(skipping, "skip_image", TRUE), Len(plans) - 1)
          /\ Failed(EndStep(skipping, "skip_image", FALSE)) = NoSteps
        BY <1>1, <1>2, <1>10, ReadingEnds DEF Skip, ProgressFits
    <2>2. CASE EndAs(NoSteps)
        BY <1>3, <2>2
    <2>3. CASE tree' = EndStep(skipping, "skip_image", TRUE) /\ plans' = Tail(plans) /\ pc' = "next"
        BY <1>2, <1>5, <1>10, <2>1, <2>3 DEF Skip
    <2> QED BY <1>10, <2>1, <2>2, <2>3 DEF Skip
<1>11. CASE SetPending \/ StartHandler
    <2> DEFINE copying == BeginStep(EndStep(tree, "check_slot", TRUE), "copy_image", 0, 9)
    <2>1. pc = "checked"
        BY <1>11 DEF SetPending, StartHandler
    <2>2. Writing(copying, Len(plans)) /\ Failed(EndStep(tree, "check_slot", FALSE)) = NoSteps
        BY <1>1, <1>2, <2>1, ReadingEnds DEF ProgressFits
    <2>3. CASE EndAs(NoSteps)
        BY <1>3, <2>3
    <2>4. CASE tree' = copying /\ pc' = "handler" /\ plans' = plans
        BY <1>6, <2>2, <2>4
    <2> QED BY <1>11, <2>2, <2>3, <2>4 DEF SetPending, StartHandler
<1>12. CASE Mount
    <2>1. prog \in Programs /\ prog # <<>> /\ Head(prog) = "mount" /\ pc = "handler"
        BY <1>12 DEF Mount, Doing, PlanTypeOK
    <2>2. Apart(prog) /\ (Target \in held => Released(prog))
        BY <1>1, <2>1 DEF ProgramFits
    <2>3. Target \notin held
        BY <2>1, <2>2, ApartTail
    <2> QED BY <1>4, <1>12, <2>3 DEF Mount, Proceed, Undisturbed
<1>13. CASE Umount \/ UmountSeed \/ Unpacked \/ CloseDevice
    BY <1>4, <1>13 DEF Umount, UmountSeed, Unpacked, CloseDevice, Proceed, Undisturbed
<1>14. CASE RunHook \/ RunTool
    BY <1>4, <1>14 DEF RunHook, RunTool, Proceed
<1>15. CASE MountSeed
    BY <1>4, <1>15 DEF MountSeed, Undisturbed
<1>16. CASE UnpackFile \/ OpenDevice \/ GiveUpAdaptive \/ Flush \/ BootedWrites
    BY <1>4, <1>16 DEF UnpackFile, OpenDevice, GiveUpAdaptive, Flush, BootedWrites
<1>17. CASE CopyChunk
    <2>1. pc = "handler" /\ Writing(tree, Len(plans))
        BY <1>1, <1>17 DEF CopyChunk, Copying, Doing, ProgressFits
    <2>2. pc' = "handler" /\ plans' = plans
        BY <1>17, <2>1 DEF CopyChunk
    <2>3. CASE job.phase = "raw"
        <3>1. PICK f \in Percents : f = (100 * job'.next) \div Len(image.chunks)
            BY <1>1, <1>17, <2>3, CopyReports
        <3>2. tree' = SetPercentage(tree, "copy_image", f)
            BY <1>17, <2>3, <3>1 DEF CopyChunk
        <3>3. Writing(tree', Len(plans))
            BY <1>2, <2>1, <3>2, WritingGoesOn
        <3> QED BY <1>6, <2>2, <3>3
    <2>4. CASE job.phase # "raw"
        BY <1>6, <1>17, <2>1, <2>2, <2>4 DEF CopyChunk
    <2> QED BY <2>3, <2>4
<1>18. CASE StepFails
    BY <1>1, <1>18 DEF StepFails, ProgressFits, Answered
<1>19. CASE HandlerFailed
    <2>1. Failed(EndStep(tree, "copy_image", FALSE)) = NoSteps
        BY <1>1, <1>2, <1>19, WritingEnds DEF HandlerFailed, ProgressFits
    <2>2. CASE EndAs(NoSteps)
        BY <1>3, <2>2
    <2>3. CASE pc' = "dead" /\ fault' = "unsaved"
        BY <2>3 DEF ProgressFits, Answered
    <2> QED BY <1>19, <2>1, <2>2, <2>3 DEF HandlerFailed
<1>20. CASE HandlerDone
    <2> DEFINE copied == EndStep(tree, "copy_image", TRUE)
    <2>1. Failed(copied) = NoSteps /\ BetweenPlans(copied, Len(plans) - 1)
        BY <1>1, <1>2, <1>20, WritingEnds DEF HandlerDone, ProgressFits
    <2>2. CASE EndAs(NoSteps)
        BY <1>3, <2>2
    <2>3. CASE tree' = copied /\ plans' = Tail(plans) /\ pc' = "next"
        BY <1>2, <1>5, <1>20, <2>1, <2>3 DEF HandlerDone
    <2> QED BY <1>20, <2>1, <2>2, <2>3 DEF HandlerDone
<1>21. CASE Finish
    <2>1. Succeeded(tree) = NoSteps
        BY <1>1, <1>2, <1>21, UpdateSucceeds DEF Finish, ProgressFits
    <2>2. CASE EndAs(NoSteps)
        BY <1>3, <2>2
    <2>3. ASSUME NEW t, EndAs(t), fault' = "unpruned" PROVE ProgressFits' /\ Answered'
        BY <2>3 DEF EndAs, ProgressFits, Answered
    <2> QED BY <1>21, <2>1, <2>2, <2>3 DEF Finish
<1>22. CASE RestartService \/ PowerCut
    BY <1>22 DEF RestartService, PowerCut, Stop, ProgressFits, Answered
<1>23. CASE UNCHANGED vars
    BY <1>4, <1>23 DEF vars
<1> QED
    BY <1>7, <1>8, <1>9, <1>10, <1>11, <1>12, <1>13, <1>14, <1>15, <1>16, <1>17, <1>18, <1>19, <1>20,
       <1>21, <1>22, <1>23 DEF Next

LEMMA ProgramNext ==
    ASSUME PlanTypeOK, ProgramFits, [Next]_vars
    PROVE  ProgramFits'
<1> USE SlotsAssumption
<1>1. ASSUME pc' \notin {"checked", "handler"} PROVE ProgramFits'
    BY <1>1 DEF ProgramFits
<1>2. ASSUME NEW t, EndAs(t) PROVE ProgramFits'
    BY <1>1, <1>2 DEF EndAs
<1>3. ASSUME UNCHANGED <<pc, prog, held>> PROVE ProgramFits'
    BY <1>3 DEF ProgramFits
<1>4. ASSUME pc = "handler", prog # <<>>, pc' = pc, prog' = Tail(prog),
             Target \in held' => Target \in held \/ Head(prog) = "mount",
             Head(prog) = "umount" => Target \notin held'
      PROVE  ProgramFits'
    <2>1. prog \in Programs /\ Closed(prog) /\ Seeded(prog) /\ Apart(prog)
          /\ (Target \in held => Released(prog))
        BY <1>4 DEF ProgramFits, PlanTypeOK
    <2>2. Closed(prog') /\ Seeded(prog')
        BY <1>4, <2>1, ProgramTail
    <2>3. /\ Apart(prog')
          /\ Head(prog) = "mount" => Released(prog')
          /\ Released(prog) => Head(prog) = "umount" \/ Released(prog')
        BY <1>4, <2>1, ApartTail
    <2> QED BY <1>4, <2>1, <2>2, <2>3 DEF ProgramFits
<1>5. CASE Begin \/ Finish
    BY <1>1, <1>2, <1>5 DEF Begin, Finish
<1>6. CASE InstallArtifact
    <2>1. CASE \E t : EndAs(t)
        BY <1>2, <2>1
    <2>2. CASE pc' = pc
        BY <1>1, <1>6, <2>2 DEF InstallArtifact
    <2> QED BY <1>6, <2>1, <2>2 DEF InstallArtifact
<1>7. CASE CheckSlot
    <2>1. CASE \E t : EndAs(t)
        BY <1>2, <2>1
    <2>2. CASE Target \notin held' /\ pc' = "checked"
        BY <2>2 DEF ProgramFits
    <2> QED BY <1>7, <2>1, <2>2 DEF CheckSlot
<1>8. CASE Skip
    <2>1. CASE \E t : EndAs(t)
        BY <1>2, <2>1
    <2>2. CASE pc' = "next"
        BY <1>1, <2>2
    <2> QED BY <1>8, <2>1, <2>2 DEF Skip
<1>9. CASE SetPending \/ StartHandler
    <2>1. pc = "checked" /\ held' = held
        BY <1>9 DEF SetPending, StartHandler, kernel
    <2>2. CASE \E t : EndAs(t)
        BY <1>2, <2>2
    <2>3. CASE prog' = Handler /\ pc' = "handler"
        <3>1. image \in Images /\ type \in Types
            BY <2>1 DEF PlanTypeOK
        <3>2. Closed(Handler) /\ Seeded(Handler) /\ Apart(Handler)
            BY <3>1, HandlerPrograms, HandlersApart
        <3> QED BY <2>1, <2>3, <3>2 DEF ProgramFits
    <2> QED BY <1>9, <2>2, <2>3 DEF SetPending, StartHandler
<1>10. CASE Mount
    <2>1. CASE pc' = "dead"
        BY <1>1, <2>1
    <2>2. CASE SetMounted(TRUE) /\ Proceed
        BY <1>4, <1>10, <2>2 DEF Mount, Doing, Proceed
    <2> QED BY <1>10, <2>1, <2>2 DEF Mount
<1>11. CASE Umount
    BY <1>4, <1>11 DEF Umount, Doing, Proceed
<1>12. CASE UmountSeed
    BY <1>4, <1>12 DEF UmountSeed, Doing, Proceed
<1>13. CASE RunHook \/ RunTool \/ Unpacked \/ CloseDevice
    <2>1. /\ pc = "handler" /\ prog # <<>> /\ pc' = pc /\ prog' = Tail(prog) /\ held' = held
          /\ Head(prog) # "umount"
        BY <1>13 DEF RunHook, RunTool, Unpacked, CloseDevice, Unpacking, Copying, Doing, Proceed, kernel
    <2> QED BY <1>4, <2>1
<1>14. CASE MountSeed
    <2>1. pc = "handler" /\ prog # <<>> /\ Head(prog) = "seed" /\ pc' = pc
        BY <1>14 DEF MountSeed, Doing
    <2>2. CASE held' = held \cup {Booted} /\ prog' = Tail(prog)
        BY <1>4, <2>1, <2>2
    <2>3. CASE held' = held /\ prog' = <<"unpack">> \o SubSeq(prog, 4, Len(prog))
        <3>1. prog \in Programs /\ Closed(prog) /\ Seeded(prog) /\ Apart(prog)
              /\ (Target \in held => Released(prog))
            BY <2>1 DEF ProgramFits, PlanTypeOK
        <3>2. Closed(prog') /\ Seeded(prog')
            BY <2>1, <2>3, <3>1, SeedDropped
        <3>3. Apart(prog') /\ (Released(prog) => Released(prog'))
            BY <2>1, <2>3, <3>1, ApartSeedDropped
        <3> QED BY <2>1, <2>3, <3>1, <3>2, <3>3 DEF ProgramFits
    <2> QED BY <1>14, <2>2, <2>3 DEF MountSeed, kernel
<1>15. CASE UnpackFile \/ OpenDevice \/ CopyChunk \/ GiveUpAdaptive \/ Flush \/ BootedWrites
    BY <1>3, <1>15 DEF UnpackFile, OpenDevice, CopyChunk, GiveUpAdaptive, Flush, BootedWrites, kernel
<1>16. CASE StepFails
    BY <1>1, <1>16 DEF StepFails
<1>17. CASE HandlerFailed
    <2>1. CASE \E t : EndAs(t)
        BY <1>2, <2>1
    <2>2. CASE pc' = "dead"
        BY <1>1, <2>2
    <2> QED BY <1>17, <2>1, <2>2 DEF HandlerFailed
<1>18. CASE HandlerDone
    <2>1. CASE \E t : EndAs(t)
        BY <1>2, <2>1
    <2>2. CASE pc' = "next"
        BY <1>1, <2>2
    <2> QED BY <1>18, <2>1, <2>2 DEF HandlerDone
<1>19. CASE RestartService \/ PowerCut
    BY <1>1, <1>19 DEF RestartService, PowerCut, Stop
<1>20. CASE UNCHANGED vars
    BY <1>3, <1>20 DEF vars, kernel
<1> QED
    BY <1>5, <1>6, <1>7, <1>8, <1>9, <1>10, <1>11, <1>12, <1>13, <1>14, <1>15, <1>16, <1>17, <1>18,
       <1>19, <1>20 DEF Next

\* For any images and slot types, whatever fails: no step of the progress is misused and no
\* slot is mounted that is mounted already, so that the service never ends in an assertion about
\* its progress or on an error that was not set, except in the two places that the fault names
\* (handle_slot_install_plan, launch_and_wait_default_handler, r_context_end_step).
THEOREM EveryInstallationAnswered == Spec => []Answered
<1>1. Init => AnsweredInv
    BY AnsweredInit
<1>2. HandlersInv /\ AnsweredInv /\ [Next]_vars => AnsweredInv'
    BY ProgramNext, ProgressNext DEF HandlersInv, AnsweredInv
<1>3. AnsweredInv => Answered
    BY DEF AnsweredInv
<1> QED BY <1>1, <1>2, <1>3, HandlersInvariant, PTL DEF Spec
=============================================================================
