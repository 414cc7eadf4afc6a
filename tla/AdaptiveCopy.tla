---------------------------- MODULE AdaptiveCopy ----------------------------
(***************************************************************************)
(* How RAUC copies an image to a slot's device (write_image_to_dev in      *)
(* rauc/src/update_handler.c), in particular with a block hash index       *)
(* (rauc/src/hash_index.c): each chunk of the image is taken from wherever *)
(* an index finds its hash -- the part of the slot that has been written,  *)
(* the slot's former content, the active slot, the image in the bundle.    *)
(* The indexes of the slots were stored by an earlier installation and say *)
(* what was there then.  When this fails the image is copied as a whole.   *)
(*                                                                         *)
(* A chunk stands for its hash.  Positions count from 1.                   *)
(***************************************************************************)
EXTENDS Naturals, Sequences, SequencesExt

CONSTANTS
    Chunks,
    Zero,       \* R_HASH_INDEX_ZERO_CHUNK
    Devices,
    NoDevice

ASSUME ChunksAssumption == Chunks \subseteq Nat /\ Zero \in Chunks
ASSUME NoDeviceAssumption == NoDevice \notin Devices

VARIABLES
    disk,       \* the content of the devices
    job         \* the copy in progress, or the last one

\* "files": a device that is written file by file (Elsewhere).
Phases == {"none", "adaptive", "raw", "done", "failed", "files"}

Jobs == [phase : Phases, target : Devices \cup {NoDevice}, seed : Devices \cup {NoDevice},
         source : Seq(Chunks), targetIndex : Seq(Chunks), seedIndex : Seq(Chunks), next : Nat]

NoJob == [phase |-> "none", target |-> NoDevice, seed |-> NoDevice, source |-> <<>>,
          targetIndex |-> <<>>, seedIndex |-> <<>>, next |-> 0]

----------------------------------------------------------------------------
(* hash_index.c *)

\* r_hash_index_open: a stored index shorter than the data limits it to the part it covers;
\* with none stored, <<>>, the data is hashed.
Opened(stored, data) == IF stored = <<>> THEN data ELSE stored

Count(hashes, data) == IF Len(hashes) < Len(data) THEN Len(hashes) ELSE Len(data)

\* An index over data, of which the positions above "below" and up to "from" may be used.
Index(data, hashes, below, from, check) ==
    [data |-> data, hashes |-> hashes, count |-> Count(hashes, data),
     below |-> below, from |-> from, check |-> check]

\* build_lookup: the positions, by hash and then by position.
Lookup(hashes) ==
    SortSeq([p \in 1..Len(hashes) |-> p],
            LAMBDA p, q : hashes[p] < hashes[q] \/ (hashes[p] = hashes[q] /\ p < q))

\* The binary search of r_hash_index_get_chunk: a place in the lookup table, or 0.
Found(idx, hash) ==
    LET lookup == Lookup(idx.hashes)
        at[l \in 1..(idx.count + 1), r \in 0..idx.count] ==
            IF l > r THEN 0
            ELSE LET m == l + (r - l) \div 2
                     h == idx.hashes[lookup[m]]
                 IN  IF h = hash THEN m ELSE IF h < hash THEN at[m + 1, r] ELSE at[l, m - 1]
    IN  at[1, idx.count]

\* From there back to the first place with the hash; the table's very first is not reached.
Start(idx, hash) ==
    LET m == Found(idx, hash)
        turns == {i \in 2..m : idx.hashes[Lookup(idx.hashes)[i - 1]] # hash}
    IN  IF turns = {} THEN m ELSE CHOOSE i \in turns : \A j \in turns : j <= i

\* The position it settles for, none or one: the first in the range that may be used.
Hits(idx, hash) ==
    LET lookup == Lookup(idx.hashes)
        start == Start(idx, hash)
        Passed(i) == idx.hashes[lookup[i]] = hash /\ lookup[i] <= idx.below
    IN  IF start = 0 THEN {}
        ELSE {lookup[i] : i \in {k \in start..idx.count :
                                    /\ idx.hashes[lookup[k]] = hash
                                    /\ idx.below < lookup[k]
                                    /\ lookup[k] <= idx.from
                                    /\ \A j \in start..(k - 1) : Passed(j)}}

\* r_hash_index_get_chunk: the chunk read there, unless its hash is checked and another.
GetChunk(idx, hash) ==
    {idx.data[p] : p \in {q \in Hits(idx, hash) \cap DOMAIN idx.data :
                             idx.check => idx.data[q] = hash}}

----------------------------------------------------------------------------
(* update_handler.c *)

Content == disk[job.target]

\* What has been written is used without a check, under the image's hashes; the former
\* content counts as overwritten only up to the chunk before the last one.
Written == Index(Content, SubSeq(job.source, 1, Count(job.source, Content)), 0, job.next, FALSE)
\* mutant: the former content is taken for what the stored index says.
FormerUnchecked == Index(Content, job.targetIndex, IF job.next = 0 THEN 0 ELSE job.next - 1,
                         Len(job.targetIndex), FALSE)
Former == Index(Content, job.targetIndex, IF job.next = 0 THEN 0 ELSE job.next - 1,
                Len(job.targetIndex), TRUE)
Active == Index(disk[job.seed], job.seedIndex, 0, Len(job.seedIndex), TRUE)
Image == Index(job.source, job.source, 0, Len(job.source), FALSE)

Sources ==
    IF job.seed = NoDevice THEN <<Written, Former, Image>> ELSE <<Written, Former, Active, Image>>

\* The chunk the copy takes for a hash: the first source that has it, a zero chunk from none.
ChunkFor(hash) ==
    IF hash = Zero THEN {Zero}
    ELSE {c \in Chunks : \E s \in DOMAIN Sources :
             /\ c \in GetChunk(Sources[s], hash)
             /\ \A r \in 1..(s - 1) : GetChunk(Sources[r], hash) = {}}

\* check_image_size
Fits == Len(job.source) <= Len(Content)

Put(c) == disk' = [disk EXCEPT ![job.target][job.next + 1] = c]

Idle == job.phase \in {"none", "done", "failed"}

\* write_image_to_dev: adaptively if the image allows it and the slot has a data directory.
StartCopy(target, seed, source, adaptive, targetIndex, seedIndex) ==
    /\ Idle
    /\ job' = [phase |-> IF adaptive THEN "adaptive" ELSE "raw", target |-> target,
               seed |-> seed, source |-> source,
               targetIndex |-> Opened(targetIndex, disk[target]),
               seedIndex |-> IF seed = NoDevice THEN <<>> ELSE Opened(seedIndex, disk[seed]),
               next |-> 0]
    /\ UNCHANGED disk

\* copy_block_hash_index_image_to_dev, one chunk.
AdaptiveChunk ==
    /\ job.phase = "adaptive"
    /\ Fits
    /\ job.next < Len(job.source)
    /\ \E c \in ChunkFor(job.source[job.next + 1]) : Put(c)
    /\ job' = [job EXCEPT !.next = @ + 1]

\* Anything that fails in it, and a chunk no source has: the image is copied as a whole.
AdaptiveFails ==
    /\ job.phase = "adaptive"
    /\ job' = [job EXCEPT !.phase = "raw", !.next = 0]
    /\ UNCHANGED disk

\* copy_raw_image, one chunk.
RawChunk ==
    /\ job.phase = "raw"
    /\ Fits
    /\ job.next < Len(job.source)
    /\ Put(job.source[job.next + 1])
    /\ job' = [job EXCEPT !.next = @ + 1]

\* fsync, after the last chunk.
Sync ==
    /\ job.phase \in {"adaptive", "raw"}
    /\ Fits
    /\ job.next = Len(job.source)
    /\ job' = [job EXCEPT !.phase = "done"]
    /\ UNCHANGED disk

CopyFails ==
    /\ job.phase = "raw"
    /\ job' = [job EXCEPT !.phase = "failed"]
    /\ UNCHANGED disk

\* The running system writes to its own slot, the active one.
SeedChanges ==
    /\ job.seed # NoDevice
    /\ \E p \in DOMAIN disk[job.seed], c \in Chunks : disk' = [disk EXCEPT ![job.seed][p] = c]
    /\ UNCHANGED job

CopyStep == AdaptiveChunk \/ AdaptiveFails \/ RawChunk \/ Sync \/ CopyFails

----------------------------------------------------------------------------
CopyInit ==
    /\ disk \in [Devices -> Seq(Chunks)]
    /\ job = NoJob

\* The rest of the system, while nothing is copied or with the outcome no longer of interest:
\* devices are written in other ways and the job is forgotten.
Elsewhere ==
    /\ job' \in Jobs
    /\ job'.phase \in {"none", "files"}
    /\ job'.phase = "files" => job'.target \in Devices /\ job'.seed # job'.target
    /\ disk' \in [Devices -> Seq(Chunks)]

CopyNext ==
    \/ \E target \in Devices, seed \in Devices \cup {NoDevice}, adaptive \in BOOLEAN,
          source, targetIndex, seedIndex \in Seq(Chunks) :
          /\ seed # target
          /\ StartCopy(target, seed, source, adaptive, targetIndex, seedIndex)
    \/ CopyStep
    \/ SeedChanges
    \/ Elsewhere

CopySpec == CopyInit /\ [][CopyNext]_<<disk, job>>

----------------------------------------------------------------------------
\* A copy that ends well has left the image on the device, chunk by chunk, wherever an index
\* found the chunks: stored indexes may be out of date, the active slot changes under the copy,
\* and chunks found in the part just written are not checked (copy_block_hash_index_image_to_dev).
Copied ==
    job.phase = "done" =>
        /\ Fits
        /\ \A p \in 1..Len(job.source) : Content[p] = job.source[p]
=============================================================================
