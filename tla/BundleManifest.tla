--------------------------- MODULE BundleManifest ---------------------------
(***************************************************************************)
(* The manifest of a bundle: what parsing and checking it accept           *)
(* (rauc/src/manifest.c), what "rauc bundle" makes of a directory          *)
(* (create_bundle in bundle.c), and which handler an image gets            *)
(* (update_handler.c).                                                     *)
(*                                                                         *)
(* A file is [name, ext, form], where form tells the given files from the  *)
(* ones the conversion adds; ext is what the patterns of the handlers see. *)
(* A directory maps the files in it to None, and the links to their target.*)
(***************************************************************************)
EXTENDS SystemConf, SequencesExt

ImagesOf(m) == {m.images[i] : i \in 1 .. Len(m.images)}

ImageKeys == {"class", "variant", "artifact", "file", "slash", "hooks", "adaptive",
              "convert", "converted", "digest", "sized"}
IsImage(i) ==
    /\ i = [key \in ImageKeys |-> i[key]]
    /\ i.convert # None => i.convert \in Seq(STRING)
ManifestKeys == {"format", "compatible", "version", "handler", "handlerArgs", "hookFile",
                 "installCheck", "cryptKey", "verity", "images"}
IsManifest(m) ==
    /\ m = [key \in ManifestKeys |-> m[key]]
    /\ m.images \in Seq(ImagesOf(m)) /\ \A i \in ImagesOf(m) : IsImage(i)

\* parse_image: only an install hook does without a file.
ImageParses(i) ==
    /\ i.hooks \subseteq {"pre-install", "install", "post-install"}
    /\ i.file = None => "install" \in i.hooks
Parses(m) ==
    /\ m.format \in Formats
    /\ m.verity => m.format # "plain"
    /\ m.cryptKey => m.format = "crypt"
    /\ m.handlerArgs => m.handler # None
    /\ \A i \in ImagesOf(m) : ImageParses(i)

----------------------------------------------------------------------------
(* The checks.                                                              *)

CommonHolds(m) ==
    m.installCheck \/ (\E i \in ImagesOf(m) : i.hooks # {}) => m.hookFile # None

PlainHolds(m) ==
    \A i \in ImagesOf(m) :
        i.artifact = None /\ i.convert = None /\ i.converted \in {None, <<>>}

BundledHolds(m) ==
    \A i \in ImagesOf(m) : i.file # None =>
        /\ i.digest
        /\ i.sized \/ "install" \in i.hooks
        /\ i.convert # None =>
               i.converted # None /\ Len(i.converted) = Len(i.convert)

InputHolds(m) ==
    /\ CommonHolds(m)
    /\ m.format = "plain" => PlainHolds(m)
    /\ \A i \in ImagesOf(m) : ~i.slash /\ ~i.digest /\ ~i.sized /\ i.converted \in {None, <<>>}

\* In the payload: plain bundles only.
InternalHolds(m) ==
    /\ CommonHolds(m) /\ m.format = "plain" /\ BundledHolds(m) /\ PlainHolds(m)
    /\ ~m.cryptKey /\ ~m.verity
\* In the signature.  verity: hash, salt and a size that is aligned and not zero.
ExternalHolds(m) ==
    /\ CommonHolds(m) /\ m.format \in {"verity", "crypt"}
    /\ m.format = "crypt" => m.cryptKey
    /\ m.verity /\ BundledHolds(m)

CreateHolds(m) ==
    \A i \in ImagesOf(m) : "install" \in i.hooks => i.hooks = {"install"}

\* What an installation demands of the bundle it opens, check_bundle and mount_bundle.
Accepted(m, allowed) ==
    /\ Parses(m) /\ m.format \in allowed
    /\ IF m.format = "plain" THEN InternalHolds(m) ELSE ExternalHolds(m)

----------------------------------------------------------------------------
(* create_bundle, on a directory of entries [file, kind, target], where the *)
(* target of what is no link is None.  It ends "made",                      *)
(* with nothing ("refused"), or in an assertion ("aborted").                *)

\* Only files, and links within the directory, which stay links in the working directory.
WorkdirHolds(dir) == \A f \in dir : f.kind \in {"regular", "locallink"}
Workdir(dir) == [f \in {x.file : x \in dir} |-> (CHOOSE x \in dir : x.file = f).target]

\* A name and those it leads to: they are in every set that holds the name and, with a
\* link, its target.
OnTheWay(d, f) ==
    LET all == {f} \cup {d[g] : g \in {h \in DOMAIN d : d[h] # None}}
    IN {g \in all : \A C \in SUBSET all :
            f \in C /\ (\A h \in C \cap DOMAIN d : d[h] # None => d[h] \in C) => g \in C}
\* open and stat find the file at the end of the links; unlink and mkdir see the name.
Opens(d, f) ==
    /\ OnTheWay(d, f) \subseteq DOMAIN d
    /\ \E g \in OnTheWay(d, f) : d[g] = None
WithFiles(d, files) ==
    [f \in DOMAIN d \cup files |-> IF f \in files THEN None ELSE d[f]]

ContentHolds(m, d) ==
    /\ \A i \in ImagesOf(m) : i.file # None => Opens(d, i.file)
    /\ m.hookFile # None => Opens(d, m.hookFile)

AdaptiveMethods == {"block-hash-index", "adaptive-test-method"}
Extracted(f) == [f EXCEPT !.form = "extracted"]
IndexOf(f) == [f EXCEPT !.form = "index"]
AdaptiveHolds(m) ==
    \A i \in ImagesOf(m) :
        /\ i.adaptive \subseteq AdaptiveMethods
        /\ "block-hash-index" \in i.adaptive => i.file # None
WithIndexes(m, d) ==
    WithFiles(d, {IndexOf(i.file) : i \in {x \in ImagesOf(m) : "block-hash-index" \in x.adaptive}})

\* What the methods of one image turn it into.
ConvertedTo(i) ==
    [k \in 1 .. Len(i.convert) |-> IF i.convert[k] = "tar-extract" THEN Extracted(i.file) ELSE i.file]
\* tar-extract wants the file, and no directory of that name yet.
Extractions(i) == {k \in 1 .. Len(i.convert) : i.convert[k] = "tar-extract"}
ConvertHolds(i, d) ==
    /\ \A k \in 1 .. Len(i.convert) : i.convert[k] \in {"tar-extract", "keep"}
    /\ Extractions(i) # {} => /\ Opens(d, i.file) /\ Extracted(i.file) \notin DOMAIN d
                              /\ Cardinality(Extractions(i)) = 1
KeepsNothing(i) == FALSE  \* mutant: the file is removed whatever "keep" says
Keeps(i) == \E k \in 1 .. Len(i.convert) : i.convert[k] = "keep"

OutputOf(i) == IF i.convert = None THEN i ELSE [i EXCEPT !.converted = ConvertedTo(i)]

\* Without "keep" the file itself is removed, or the link.
Converted(d, i) ==
    WithFiles(IF Keeps(i) THEN d ELSE Restrict(d, DOMAIN d \ {i.file}),
              {Extracted(i.file) : k \in Extractions(i)})

\* convert_images, image after image.
ConvertImage(made, i) ==
    IF made.end # "made" THEN made
    ELSE IF i.converted = <<>> THEN [made EXCEPT !.end = "refused"]
    ELSE IF i.convert = None THEN made
    ELSE IF i.file = None /\ i.convert # <<>> /\ Head(i.convert) = "keep"
    THEN [made EXCEPT !.end = "aborted"]
    ELSE IF ~ConvertHolds(i, made.dir) \/ (~Keeps(i) /\ i.file \notin DOMAIN made.dir)
    THEN [made EXCEPT !.end = "refused"]
    ELSE [made EXCEPT !.dir = Converted(@, i)]
ConvertImages(m, d) ==
    LET after[n \in 0 .. Len(m.images)] ==
            IF n = 0 THEN [end |-> "made", dir |-> d]
            ELSE ConvertImage(after[n - 1], m.images[n])
    IN after[Len(m.images)]
WithOutputs(m) ==
    [m EXCEPT !.images = [k \in 1 .. Len(m.images) |-> OutputOf(m.images[k])]]

\* update_manifest_checksums.  The keys of dm-verity and dm-crypt must not be there yet.
WithChecksums(m) ==
    [m EXCEPT !.images = [k \in 1 .. Len(m.images) |->
        [m.images[k] EXCEPT !.digest = m.images[k].file # None, !.sized = m.images[k].file # None]]]
Encrypted(m) == [m EXCEPT !.cryptKey = m.format = "crypt"]
WithVerity(m) == [m EXCEPT !.verity = m.format \in {"verity", "crypt"}]
EncryptAborts(m) == m.format = "crypt" /\ m.cryptKey
VerityAborts(m) == m.format \in {"verity", "crypt"} /\ m.verity
\* The signed manifest is checked once more, but an empty list of outputs is not written.
SignatureHolds(m) == IF m.format = "plain" THEN InternalHolds(m) ELSE ExternalHolds(m)
Written(m) ==
    [m EXCEPT !.images = [k \in 1 .. Len(m.images) |->
        [m.images[k] EXCEPT !.converted = IF @ = <<>> THEN None ELSE @]]]

CreateBundle(m, dir) ==
    LET made == ConvertImages(WithChecksums(m), WithIndexes(m, Workdir(dir)))
        signed == WithVerity(Encrypted(WithOutputs(WithChecksums(m))))
        nothing(end) == [end |-> end, manifest |-> m, dir |-> <<>>]
    IN IF ~(/\ WorkdirHolds(dir) /\ Parses(m) /\ InputHolds(m) /\ CreateHolds(m)
            /\ ContentHolds(m, Workdir(dir)) /\ AdaptiveHolds(m)) THEN nothing("refused")
       ELSE IF made.end # "made" THEN nothing(made.end)
       ELSE IF EncryptAborts(m) \/ VerityAborts(m) THEN nothing("aborted")
       ELSE IF ~SignatureHolds(signed) THEN nothing("refused")
       ELSE [end |-> "made", manifest |-> Written(signed), dir |-> made.dir]

----------------------------------------------------------------------------
(* updatepairs: the first row whose patterns match the file and the slot's  *)
(* type decides; "none" rejects the image.                                  *)

Squashfs == {"squashfs", "squashfs-lz4", "squashfs-lzo", "squashfs-xz", "squashfs-zst"}
SquashfsCaibx == {"squashfs.caibx", "squashfs-lz4.caibx", "squashfs-lzo.caibx",
                  "squashfs-xz.caibx", "squashfs-zst.caibx"}
Pair(src, dest, handler) == [src |-> src, dest |-> dest, handler |-> handler]
Every == {"*"}
UpdatePairs == <<
    Pair({"ext4.caibx"}, {"ext4"}, "img_to_fs"),
    Pair({"ext4.caibx", "vfat.caibx"} \cup SquashfsCaibx, {"raw"}, "img_to_raw"),
    Pair({"ubifs.caibx", "img.caibx"} \cup SquashfsCaibx, {"ubivol"}, "img_to_ubivol"),
    Pair({"ubifs.caibx", "img.caibx"}, {"ubifs"}, "img_to_ubifs"),
    Pair({"caidx"}, {"ext4", "ubifs", "vfat"}, "archive_to_fs"),
    Pair({"ext4"}, {"ext4"}, "img_to_fs"),
    Pair({"ext4", "vfat"} \cup Squashfs, {"raw"}, "img_to_raw"),
    Pair({"vfat"}, {"vfat"}, "img_to_fs"),
    Pair({"tar", "catar"}, {"ext4"}, "archive_to_fs"),
    Pair({"tar"}, {"ubifs", "jffs2", "vfat"}, "archive_to_fs"),
    Pair({"ubifs", "img"} \cup Squashfs, {"ubivol"}, "img_to_ubivol"),
    Pair({"ubifs", "img"}, {"ubifs"}, "img_to_ubifs"),
    Pair({"img"}, {"ext4", "vfat"}, "img_to_fs"),
    Pair({"img"}, {"nor"}, "img_to_nor"),
    Pair({"img"}, {"nand"}, "img_to_nand"),
    Pair({"img"}, {"boot-emmc"}, "img_to_boot_emmc"),
    Pair(Every, {"boot-emmc"}, "none"),
    Pair({"vfat", "img"}, {"boot-mbr-switch"}, "img_to_boot_mbr_switch"),
    Pair(Every, {"boot-mbr-switch"}, "none"),
    Pair({"vfat", "ext4", "img"}, {"boot-gpt-switch"}, "img_to_boot_gpt_switch"),
    Pair(Every, {"boot-gpt-switch"}, "none"),
    Pair({"img"}, {"boot-raw-fallback"}, "img_to_boot_raw_fallback"),
    Pair(Every, {"boot-raw-fallback"}, "none"),
    Pair({"img.caibx", "img"}, Every, "img_to_raw") >>

Matches(pattern, x) == "*" \in pattern \/ x \in pattern
FirstPair(ext, type) ==
    LET at == {k \in 1 .. Len(UpdatePairs) :
                  Matches(UpdatePairs[k].src, ext) /\ Matches(UpdatePairs[k].dest, type)}
    IN IF at = {} THEN "none"
       ELSE UpdatePairs[CHOOSE k \in at : \A j \in at : k <= j].handler

UpdateHandler(i, type) ==
    IF "install" \in i.hooks THEN "hook_install" ELSE FirstPair(i.file.ext, type)
=============================================================================
