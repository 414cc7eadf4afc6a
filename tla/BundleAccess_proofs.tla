------------------------- MODULE BundleAccess_proofs -------------------------
(***************************************************************************)
(* Proofs about BundleAccess, for any bundles and configurations: a        *)
(* command that verifies serves only what was signed, except where it      *)
(* opens the bundle by its name again; it leaves no device behind, and of  *)
(* a bundle it failed to write nothing that could be removed.              *)
(***************************************************************************)
EXTENDS BundleAccess, TLAPS

----------------------------------------------------------------------------
(* The part of the invariant that what is served rests on.                  *)

\* The other user cannot change the file, and never will be able to.
Private == ~file.remote /\ ~file.foreign /\ ~file.loose /\ ~file.unsafe /\ ~writer

\* What a flag says is true for as long as the command goes on.
FlagsHold ==
    /\ step = "idle" => flags = {}
    /\ ~trust /\ "exclusive" \in flags => Private
    /\ verify /\ ~trust /\ "payload" \in flags => Private /\ file.intact

\* Only commands that verify and do not trust mount a bundle.
MountersVerify == cmd \in {"install", "mount"} => verify /\ ~trust

Mounting == {"verity", "crypt", "precheck", "mount", "deferCrypt", "deferVerity", "internal"}

\* What has been found out when a command has come this far.
Sofar ==
    /\ step \in {"access", "verify"} => ~(file.detached /\ file.remote)
    /\ step = "verify" /\ file.detached /\ ~trust => "exclusive" \in flags
    /\ step \in Mounting => cmd \in {"install", "mount"}
    /\ step \in {"manifest", "checked"} \cup Mounting /\ verify /\ file.detached => "payload" \in flags
    /\ step = "use" /\ NeedsPayload => "payload" \in flags

\* A bundle that is mounted without dm-verity cannot be changed.
PlainIsPrivate == mounted \in {"loop", "nbd"} => Private /\ file.intact

\* Whatever is mounted, its signature was verified (g_error in mount_bundle).
MountsVerified ==
    step \in Mounting \cup {"umount"} =>
        "signature" \in flags /\ (file.detached => "payload" \in flags)
SignedSofar ==
    /\ step \in {"manifest", "checked"} /\ verify => "signature" \in flags
    /\ step = "umount" => cmd = "install"

ServedInv == FlagsHold /\ MountersVerify /\ Sofar /\ PlainIsPrivate /\ SignedSofar /\ MountsVerified /\ ServedIsSigned

----------------------------------------------------------------------------
(* The part that the release of the devices rests on.                       *)

NoDm == verity = "none" /\ crypt = "none" /\ mounted = "none"
NoDeviceYet == ~loopfd /\ NoDm /\ ~nbd /\ sock # "dev"

\* The device-mapper devices of a bundle that is not marked yet.
Stacked == IF file.detached THEN verity = "none" /\ crypt = "none"
           ELSE verity = "live" /\ crypt = (IF file.format = "crypt" THEN "live" ELSE "none")
Going(d) == d \in {"none", "deferred"}

\* The devices there are, step by step, as long as nothing excuses others.
DevicesOf ==
    ~excused =>
        /\ step = "idle" => NoDevices
        /\ step \in {"read", "access", "verify", "manifest", "checked", "use", "append",
                     "recheck", "clean"} => NoDeviceYet
        /\ step \in {"verity", "free", "stop"} => NoDm
        /\ step = "crypt" => verity = "live" /\ crypt = "none" /\ mounted = "none"
        /\ step \in {"precheck", "mount"} => Stacked /\ mounted = "none"
        /\ step = "deferCrypt" => Stacked /\ ~file.detached
        /\ step = "deferVerity" => ~file.detached /\ Going(crypt)
        /\ step = "internal" => Stacked /\ file.detached
        /\ step \in {"umount", "left"} => Going(verity) /\ Going(crypt)
\* Those the process itself holds, whatever was left by others.
HeldOf ==
    /\ step \in {"left", "stop", "idle"} => ~loopfd
    /\ step = "stop" => ~nbd /\ sock # "dev"
    /\ sock = "dev" => nbd

\* dm-crypt lies on dm-verity, and the mount on what is there.
Layered ==
    /\ mounted = "crypt" => crypt # "none"
    /\ step \in {"verity", "crypt", "precheck"} => ~file.detached
    /\ step = "crypt" => verity = "live" /\ crypt = "none" /\ file.format = "crypt"
    /\ step = "precheck" \/ (step = "mount" /\ ~file.detached) => Stacked
    /\ step \in {"crypt", "precheck"} => mounted \notin {"verity", "crypt"}
    /\ step \in {"read", "access", "verify", "manifest", "checked"} /\ file.remote => server

ReleasedInv == DevicesOf /\ HeldOf /\ Layered

----------------------------------------------------------------------------
(* The part about the other bundle a command writes.                        *)

Writing == {"append", "recheck", "clean"}
Unanswered == {"read", "access", "verify", "manifest", "checked", "use"} \cup Writing

OutInv ==
    /\ out = "partial" => step \in {"append", "clean"}
    /\ out = "whole" => step \in {"recheck", "clean"} \/ result = "ok"
    /\ step = "append" => out = "partial"
    /\ step = "recheck" => out = "whole"
    /\ step \in Writing => cmd \in Writers
    /\ step \in Writing \cup {"use"} /\ cmd \in Writers => out # "before"
    /\ step \in Unanswered => result = "none"
    /\ result = "ok" => out = "whole"

IInv == ServedInv /\ ReleasedInv /\ OutInv
----------------------------------------------------------------------------
(* Every step keeps it, and the types, in parts.                            *)

TypeSets ==
    /\ conf \in ConfigType /\ file \in FileType /\ cmd \in Commands
    /\ step \in Steps /\ flags \subseteq Flags
    /\ verity \in DmStates /\ crypt \in DmStates
    /\ mounted \in {"none", "loop", "nbd", "verity", "crypt"}
    /\ sock \in {"none", "srv", "dev"} /\ served \in {"none", "signed", "other", "moved"}
    /\ out \in OutStates /\ result \in {"none", "ok", "failed"}
TypeBooleans ==
    /\ writer \in BOOLEAN /\ moved \in BOOLEAN /\ verify \in BOOLEAN /\ trust \in BOOLEAN /\ loopfd \in BOOLEAN
    /\ nbd \in BOOLEAN /\ server \in BOOLEAN /\ excused \in BOOLEAN
TypeRelations ==
    /\ mounted \in {"verity", "crypt"} => verity # "none"
    /\ crypt # "none" => verity # "none"
    /\ sock = "dev" => nbd
    /\ nbd \/ sock = "srv" => server

Types == TypeSets /\ TypeBooleans /\ TypeRelations

LEMMA TypesAreOK == Types => TypeOK
BY DEF Types, TypeOK, TypeSets, TypeBooleans, TypeRelations

\* What taking the file changes: its owner and its mode, to the better.
LEMMA TakenFile ==
    ASSUME NEW f \in FileType, NEW g \in Taken(f)
    PROVE  /\ g \in FileType
           /\ \A x \in {"remote", "total", "sig", "detached", "format", "enveloped", "signed",
                        "intact", "unsafe", "fixed", "movable"} : g[x] = f[x]
           /\ ~f.foreign => ~g.foreign
           /\ ~f.loose => ~g.loose
<1>1. PICK h \in Owned(f) : g \in Tightened(h)
  BY DEF Taken
<1>2. /\ h \in FileType
      /\ \A x \in {"remote", "total", "sig", "detached", "format", "enveloped", "signed",
                   "intact", "loose", "unsafe", "fixed", "movable"} : h[x] = f[x]
      /\ ~f.foreign => ~h.foreign
  BY DEF Owned, FileType
<1>3. CASE g = h
  BY <1>2, <1>3
<1>4. CASE g = [h EXCEPT !.loose = FALSE]
  BY <1>2, <1>4 DEF FileType
<1> QED
  BY <1>1, <1>3, <1>4 DEF Tightened

LEMMA OpenForWritingKeeps ==
  ASSUME Types, IInv, OpenForWriting
  PROVE  Types' /\ IInv'
<1> USE DEF Types, IInv, ServedInv, ReleasedInv
<1>1. TypeSets'
  BY DEF OpenForWriting, config, output, devices, dm, MayOpen, TypeSets, Steps, Flags, DmStates
<1>2. TypeBooleans'
  BY DEF OpenForWriting, config, output, devices, dm, MayOpen, TypeBooleans, TypeSets
<1>3. TypeRelations'
  BY DEF OpenForWriting, config, output, devices, dm, MayOpen, TypeRelations, Layered, Stacked, HeldOf,
     TypeSets
<1>4. FlagsHold' /\ MountersVerify' /\ Sofar' /\ PlainIsPrivate'
  BY DEF OpenForWriting, config, output, devices, dm, MayOpen, FlagsHold, Private, Sofar, MountersVerify,
     MayTrust, MayNotVerify, Mounting, NeedsPayload, PlainIsPrivate, TypeSets
<1>5. SignedSofar' /\ MountsVerified' /\ ServedIsSigned'
  BY DEF OpenForWriting, config, output, devices, dm, MayOpen, SignedSofar, MountsVerified, Mounting,
     MountersVerify, ServedIsSigned, ReadsByName, TypeSets
<1>6. DevicesOf'
  BY DEF OpenForWriting, config, output, devices, dm, MayOpen, Layered, DevicesOf, NoDevices, NoDeviceYet,
     NoDm, Stacked, Going, HeldOf, TypeSets
<1>7. HeldOf' /\ Layered' /\ OutInv'
  BY DEF OpenForWriting, config, output, devices, dm, MayOpen, HeldOf, Layered, Stacked, TypeRelations,
     OutInv, Writing, Unanswered, TypeSets
<1> QED
  BY <1>1, <1>2, <1>3, <1>4, <1>5, <1>6, <1>7

LEMMA CloseWriterKeeps ==
  ASSUME Types, IInv, CloseWriter
  PROVE  Types' /\ IInv'
<1> USE DEF Types, IInv, ServedInv, ReleasedInv
<1>1. TypeSets'
  BY DEF CloseWriter, config, output, devices, dm, TypeSets, Steps, Flags, DmStates
<1>2. TypeBooleans'
  BY DEF CloseWriter, config, output, devices, dm, TypeBooleans, TypeSets
<1>3. TypeRelations'
  BY DEF CloseWriter, config, output, devices, dm, TypeRelations, Layered, Stacked, HeldOf, TypeSets
<1>4. FlagsHold' /\ MountersVerify' /\ Sofar' /\ PlainIsPrivate'
  BY DEF CloseWriter, config, output, devices, dm, FlagsHold, Private, Sofar, MountersVerify, MayTrust,
     MayNotVerify, Mounting, NeedsPayload, PlainIsPrivate, TypeSets
<1>5. SignedSofar' /\ MountsVerified' /\ ServedIsSigned'
  BY DEF CloseWriter, config, output, devices, dm, SignedSofar, MountsVerified, Mounting, MountersVerify,
     ServedIsSigned, ReadsByName, TypeSets
<1>6. DevicesOf'
  BY DEF CloseWriter, config, output, devices, dm, Layered, DevicesOf, NoDevices, NoDeviceYet, NoDm,
     Stacked, Going, HeldOf, TypeSets
<1>7. HeldOf' /\ Layered' /\ OutInv'
  BY DEF CloseWriter, config, output, devices, dm, HeldOf, Layered, Stacked, TypeRelations, OutInv, Writing, Unanswered,
     TypeSets
<1> QED
  BY <1>1, <1>2, <1>3, <1>4, <1>5, <1>6, <1>7

LEMMA AlterKeeps ==
  ASSUME Types, IInv, Alter
  PROVE  Types' /\ IInv'
<1> USE DEF Types, IInv, ServedInv, ReleasedInv
<1>a. /\ file' = [file EXCEPT !.intact = ~file.intact] /\ file' \in FileType
      /\ \A x \in {"remote", "detached", "format", "foreign", "loose", "unsafe"} : file'[x] = file[x]
  BY DEF Alter, TypeSets, FileType
<1>1. TypeSets'
  BY <1>a DEF Alter, config, output, devices, dm, TypeSets, Steps, Flags, DmStates
<1>2. TypeBooleans'
  BY <1>a DEF Alter, config, output, devices, dm, TypeBooleans, TypeSets
<1>3. TypeRelations'
  BY <1>a DEF Alter, config, output, devices, dm, TypeRelations, Layered, Stacked, HeldOf, TypeSets
<1>4. FlagsHold' /\ MountersVerify' /\ Sofar' /\ PlainIsPrivate'
  BY <1>a DEF Alter, config, output, devices, dm, FlagsHold, Private, Sofar, MountersVerify, MayTrust,
     MayNotVerify, Mounting, NeedsPayload, PlainIsPrivate, TypeSets
<1>5. SignedSofar' /\ MountsVerified' /\ ServedIsSigned'
  BY <1>a DEF Alter, config, output, devices, dm, SignedSofar, MountsVerified, Mounting, MountersVerify,
     ServedIsSigned, ReadsByName, TypeSets
<1>6. DevicesOf'
  BY <1>a DEF Alter, config, output, devices, dm, Layered, DevicesOf, NoDevices, NoDeviceYet, NoDm,
     Stacked, Going, HeldOf, TypeSets
<1>7. HeldOf' /\ Layered' /\ OutInv'
  BY <1>a DEF Alter, config, output, devices, dm, HeldOf, Layered, Stacked, TypeRelations, OutInv, Writing, Unanswered,
     TypeSets
<1> QED
  BY <1>1, <1>2, <1>3, <1>4, <1>5, <1>6, <1>7

LEMMA RenameKeeps ==
  ASSUME Types, IInv, Rename
  PROVE  Types' /\ IInv'
<1> USE DEF Types, IInv, ServedInv, ReleasedInv
<1>1. TypeSets'
  BY DEF Rename, config, output, devices, dm, TypeSets, Steps, Flags, DmStates, OutStates
<1>2. TypeBooleans'
  BY DEF Rename, config, output, devices, dm, TypeBooleans, TypeSets
<1>3. TypeRelations'
  BY DEF Rename, config, output, devices, dm, TypeRelations, Layered, Stacked, HeldOf,
     TypeSets
<1>4. FlagsHold' /\ MountersVerify' /\ Sofar' /\ PlainIsPrivate'
  BY DEF Rename, config, output, devices, dm, FlagsHold, Private, Sofar, MountersVerify,
     MayTrust, MayNotVerify, Mounting, NeedsPayload, PlainIsPrivate, TypeSets
<1>5. SignedSofar' /\ MountsVerified' /\ ServedIsSigned'
  BY DEF Rename, config, output, devices, dm, SignedSofar, MountsVerified, Mounting,
     MountersVerify, ServedIsSigned, ReadsByName, TypeSets
<1>6. DevicesOf'
  BY DEF Rename, config, output, devices, dm, Layered, DevicesOf, NoDevices, NoDeviceYet,
     NoDm, Stacked, Going, HeldOf, TypeSets
<1>7. HeldOf' /\ Layered' /\ OutInv'
  BY DEF Rename, config, output, devices, dm, HeldOf, Layered, Stacked, TypeRelations, OutInv,
     Writing, Unanswered, TypeSets
<1> QED
  BY <1>1, <1>2, <1>3, <1>4, <1>5, <1>6, <1>7

LEMMA AppearKeeps ==
  ASSUME Types, IInv, Appear
  PROVE  Types' /\ IInv'
<1> USE DEF Types, IInv, ServedInv, ReleasedInv
<1>1. TypeSets'
  BY DEF Appear, config, output, devices, dm, TypeSets, Steps, Flags, DmStates, OutStates
<1>2. TypeBooleans'
  BY DEF Appear, config, output, devices, dm, TypeBooleans, TypeSets
<1>3. TypeRelations'
  BY DEF Appear, config, output, devices, dm, TypeRelations, Layered, Stacked, HeldOf,
     TypeSets
<1>4. FlagsHold' /\ MountersVerify' /\ Sofar' /\ PlainIsPrivate'
  BY DEF Appear, config, output, devices, dm, FlagsHold, Private, Sofar, MountersVerify,
     MayTrust, MayNotVerify, Mounting, NeedsPayload, PlainIsPrivate, TypeSets
<1>5. SignedSofar' /\ MountsVerified' /\ ServedIsSigned'
  BY DEF Appear, config, output, devices, dm, SignedSofar, MountsVerified, Mounting,
     MountersVerify, ServedIsSigned, ReadsByName, TypeSets
<1>6. DevicesOf'
  BY DEF Appear, config, output, devices, dm, Layered, DevicesOf, NoDevices, NoDeviceYet,
     NoDm, Stacked, Going, HeldOf, TypeSets
<1>7. HeldOf' /\ Layered' /\ OutInv'
  BY DEF Appear, config, output, devices, dm, HeldOf, Layered, Stacked, TypeRelations, OutInv,
     Writing, Unanswered, TypeSets
<1> QED
  BY <1>1, <1>2, <1>3, <1>4, <1>5, <1>6, <1>7

LEMMA BeginKeeps ==
  ASSUME Types, IInv, NEW c \in Commands, NEW v \in BOOLEAN, NEW t \in BOOLEAN, Begin(c, v, t)
  PROVE  Types' /\ IInv'
<1> USE DEF Types, IInv, ServedInv, ReleasedInv
<1>1. TypeSets'
  BY DEF Begin, Fail, dm, TypeSets, Steps, Flags, DmStates, OutStates
<1>2. TypeBooleans'
  BY DEF Begin, Fail, dm, TypeBooleans, TypeSets
<1>3. TypeRelations'
  BY DEF Begin, Fail, dm, TypeRelations, Layered, Stacked, HeldOf, TypeSets
<1>4. FlagsHold' /\ MountersVerify' /\ Sofar' /\ PlainIsPrivate'
  BY DEF Begin, Fail, dm, FlagsHold, Private, Sofar, MountersVerify, MayTrust, MayNotVerify,
     Mounting, NeedsPayload, PlainIsPrivate, TypeSets
<1>5. SignedSofar' /\ MountsVerified' /\ ServedIsSigned'
  BY DEF Begin, Fail, dm, SignedSofar, MountsVerified, Mounting, MountersVerify, ServedIsSigned, ReadsByName,
     TypeSets
<1>6. DevicesOf'
  BY DEF Begin, Fail, dm, Layered, DevicesOf, NoDevices, NoDeviceYet, NoDm, Stacked, Going,
     HeldOf, TypeSets
<1>7. HeldOf' /\ Layered' /\ OutInv'
  BY DEF Begin, Fail, dm, HeldOf, Layered, Stacked, TypeRelations, OutInv, Writing, Unanswered, TypeSets
<1> QED
  BY <1>1, <1>2, <1>3, <1>4, <1>5, <1>6, <1>7

LEMMA ReadSignatureKeeps ==
  ASSUME Types, IInv, ReadSignature
  PROVE  Types' /\ IInv'
<1> USE DEF Types, IInv, ServedInv, ReleasedInv
<1>1. TypeSets'
  <2>1. flags' \subseteq Flags
    BY DEF ReadSignature, TypeSets, Flags
  <2> QED
    BY <2>1 DEF ReadSignature, Quiet, config, output, devices, dm, Fail, TypeSets, Steps
<1>2. TypeBooleans'
  BY DEF ReadSignature, Quiet, config, output, devices, dm, Fail, TypeBooleans, TypeSets
<1>3. TypeRelations'
  BY DEF ReadSignature, Quiet, config, output, devices, dm, Fail, TypeRelations, Layered, Stacked, HeldOf,
     TypeSets
<1>4. FlagsHold' /\ MountersVerify' /\ Sofar' /\ PlainIsPrivate'
  BY DEF ReadSignature, Quiet, config, output, devices, dm, Fail, FlagsHold, Private, Sofar,
     MountersVerify, MayTrust, MayNotVerify, Mounting, NeedsPayload, PlainIsPrivate, TypeSets
<1>5. SignedSofar' /\ MountsVerified' /\ ServedIsSigned'
  BY DEF ReadSignature, Quiet, config, output, devices, dm, Fail, SignedSofar, MountsVerified, Mounting,
     MountersVerify, ServedIsSigned, ReadsByName, TypeSets
<1>6. DevicesOf'
  BY DEF ReadSignature, Quiet, config, output, devices, dm, Fail, Layered, DevicesOf, NoDevices,
     NoDeviceYet, NoDm, Stacked, Going, HeldOf, TypeSets
<1>7. HeldOf' /\ Layered' /\ OutInv'
  BY DEF ReadSignature, Quiet, config, output, devices, dm, Fail, HeldOf, Layered, Stacked, TypeRelations,
     OutInv, Writing, Unanswered, TypeSets
<1> QED
  BY <1>1, <1>2, <1>3, <1>4, <1>5, <1>6, <1>7

LEMMA CheckAccessKeeps ==
  ASSUME Types, IInv, CheckAccess
  PROVE  Types' /\ IInv'
<1> USE DEF Types, IInv, ServedInv, ReleasedInv
<1>a. /\ file' \in FileType /\ file'.detached = file.detached /\ file'.remote = file.remote
      /\ file'.format = file.format /\ file'.intact = file.intact /\ file'.unsafe = file.unsafe
      /\ ~file.foreign => ~file'.foreign
      /\ ~file.loose => ~file'.loose
  BY TakenFile DEF CheckAccess, TypeSets
<1>b. /\ step = "access" /\ UNCHANGED <<conf, cmd, verify, trust, moved, writer, devices, served, out, result, excused>>
      /\ \/ flags' = flags /\ (trust \/ file.remote \/ ~file.detached \/ step' = "free")
         \/ /\ flags' = flags \cup {"exclusive"} /\ (trust \/ ~file.remote)
            /\ trust \/ (~file'.foreign /\ ~file'.loose /\ ~file'.unsafe /\ ~writer)
      /\ step' \in {"verify", "free"}
  <2>1. CASE trust \/ file.remote \/ Access(file)
    BY <2>1 DEF CheckAccess, Access, config, output
  <2>2. CASE ~(trust \/ file.remote \/ Access(file)) /\ ~file.detached
    BY <2>2 DEF CheckAccess, config, output
  <2>3. CASE ~(trust \/ file.remote \/ Access(file)) /\ file.detached
    BY <2>3 DEF CheckAccess, Access, Fail, config, output
  <2> QED
    BY <2>1, <2>2, <2>3
<1>1. TypeSets'
  <2>1. flags' \subseteq Flags
    BY <1>b DEF TypeSets, Flags
  <2>2. step' \in Steps
    BY <1>b DEF Steps
  <2> QED
    BY <1>a, <1>b, <2>1, <2>2 DEF TypeSets, config, output, devices, dm
<1>2. TypeBooleans'
  BY <1>a, <1>b DEF CheckAccess, config, output, devices, dm, Fail, Access, Taken, Tightened, Owned,
     TypeBooleans, TypeSets
<1>3. TypeRelations'
  BY <1>a, <1>b DEF CheckAccess, config, output, devices, dm, Fail, Access, Taken, Tightened, Owned,
     TypeRelations, Layered, Stacked, HeldOf, TypeSets
<1>4. FlagsHold'
  BY <1>a, <1>b DEF config, output, devices, dm, Fail, FlagsHold, Private, Sofar, TypeSets
<1>5. MountersVerify'
  BY <1>a, <1>b DEF CheckAccess, config, output, devices, dm, Fail, Access, Taken, Tightened, Owned,
     MountersVerify, MayTrust, MayNotVerify, TypeSets
<1>6. Sofar'
  BY <1>a, <1>b DEF config, output, devices, dm, Fail, Sofar, Mounting, MountersVerify, NeedsPayload,
     TypeSets
<1>7. PlainIsPrivate' /\ SignedSofar' /\ MountsVerified' /\ ServedIsSigned'
  BY <1>a, <1>b DEF CheckAccess, config, output, devices, dm, Fail, Access, Taken, Tightened, Owned,
     PlainIsPrivate, Private, SignedSofar, MountsVerified, Mounting, MountersVerify,
     ServedIsSigned, ReadsByName, TypeSets
<1>8. DevicesOf'
  BY <1>a, <1>b DEF CheckAccess, config, output, devices, dm, Fail, Access, Taken, Tightened, Owned,
     Layered, DevicesOf, NoDevices, NoDeviceYet, NoDm, Stacked, Going, HeldOf, TypeSets
<1>9. HeldOf'
  BY <1>a, <1>b DEF CheckAccess, config, output, devices, dm, Fail, Access, Taken, Tightened, Owned,
     HeldOf, TypeSets
<1>10. Layered'
  BY <1>a, <1>b DEF config, output, devices, dm, Fail, Layered, Stacked, TypeRelations, TypeSets
<1>11. OutInv'
  BY <1>a, <1>b DEF CheckAccess, config, output, devices, dm, Fail, Access, Taken, Tightened, Owned,
     OutInv, Writing, Unanswered, TypeSets
<1> QED
  BY <1>1, <1>2, <1>3, <1>4, <1>5, <1>6, <1>7, <1>8, <1>9, <1>10, <1>11

LEMMA VerifySignatureKeeps ==
  ASSUME Types, IInv, VerifySignature
  PROVE  Types' /\ IInv'
<1> USE DEF Types, IInv, ServedInv, ReleasedInv
<1>1. TypeSets'
  <2> HIDE DEF IInv, ServedInv, ReleasedInv
  <2>1. UNCHANGED <<conf, file, cmd, verity, crypt, mounted, sock, served, out, result>>
    BY DEF VerifySignature, Quiet, config, output, devices, dm
  <2>2. step' \in {"manifest", "free"} /\ flags' \subseteq flags \cup {"signature", "payload"}
    BY DEF VerifySignature, Fail
  <2> QED
    BY <2>1, <2>2 DEF Types, TypeSets, Steps, Flags
<1>2. TypeBooleans'
  BY DEF VerifySignature, Quiet, config, output, devices, dm, Fail, TypeBooleans, TypeSets
<1>3. TypeRelations'
  BY DEF VerifySignature, Quiet, config, output, devices, dm, Fail, TypeRelations, Layered, Stacked,
     HeldOf, TypeSets
<1>4. FlagsHold' /\ MountersVerify' /\ Sofar' /\ PlainIsPrivate'
  BY DEF VerifySignature, Quiet, config, output, devices, dm, Fail, FlagsHold, Private, Sofar,
     MountersVerify, MayTrust, MayNotVerify, Mounting, NeedsPayload, PlainIsPrivate, TypeSets
<1>5. SignedSofar' /\ MountsVerified' /\ ServedIsSigned'
  BY DEF VerifySignature, Quiet, config, output, devices, dm, Fail, SignedSofar, MountsVerified, Mounting,
     MountersVerify, ServedIsSigned, ReadsByName, TypeSets
<1>6. DevicesOf'
  BY DEF VerifySignature, Quiet, config, output, devices, dm, Fail, Layered, DevicesOf, NoDevices,
     NoDeviceYet, NoDm, Stacked, Going, HeldOf, TypeSets
<1>7. HeldOf' /\ Layered' /\ OutInv'
  BY DEF VerifySignature, Quiet, config, output, devices, dm, Fail, HeldOf, Layered, Stacked,
     TypeRelations, OutInv, Writing, Unanswered, TypeSets
<1> QED
  BY <1>1, <1>2, <1>3, <1>4, <1>5, <1>6, <1>7

LEMMA LoadManifestKeeps ==
  ASSUME Types, IInv, LoadManifest
  PROVE  Types' /\ IInv'
<1> USE DEF Types, IInv, ServedInv, ReleasedInv
<1>1. TypeSets'
  BY DEF LoadManifest, Quiet, config, output, devices, dm, Fail, TypeSets, Steps, Flags, DmStates
<1>2. TypeBooleans'
  BY DEF LoadManifest, Quiet, config, output, devices, dm, Fail, TypeBooleans, TypeSets
<1>3. TypeRelations'
  BY DEF LoadManifest, Quiet, config, output, devices, dm, Fail, TypeRelations, Layered, Stacked, HeldOf,
     TypeSets
<1>4. FlagsHold' /\ MountersVerify' /\ Sofar' /\ PlainIsPrivate'
  BY DEF LoadManifest, Quiet, config, output, devices, dm, Fail, FlagsHold, Private, Sofar,
     MountersVerify, MayTrust, MayNotVerify, Mounting, NeedsPayload, PlainIsPrivate, TypeSets
<1>5. SignedSofar' /\ MountsVerified' /\ ServedIsSigned'
  BY DEF LoadManifest, Quiet, config, output, devices, dm, Fail, SignedSofar, MountsVerified, Mounting,
     MountersVerify, ServedIsSigned, ReadsByName, TypeSets
<1>6. DevicesOf'
  BY DEF LoadManifest, Quiet, config, output, devices, dm, Fail, Layered, DevicesOf, NoDevices,
     NoDeviceYet, NoDm, Stacked, Going, HeldOf, TypeSets
<1>7. HeldOf' /\ Layered' /\ OutInv'
  BY DEF LoadManifest, Quiet, config, output, devices, dm, Fail, HeldOf, Layered, Stacked, TypeRelations,
     OutInv, Writing, Unanswered, TypeSets
<1> QED
  BY <1>1, <1>2, <1>3, <1>4, <1>5, <1>6, <1>7

LEMMA CheckPayloadKeeps ==
  ASSUME Types, IInv, CheckPayload
  PROVE  Types' /\ IInv'
<1> USE DEF Types, IInv, ServedInv, ReleasedInv
<1>1. TypeSets'
  <2>1. flags' \subseteq Flags
    BY DEF CheckPayload, TypeSets, Flags
  <2> QED
    BY <2>1 DEF CheckPayload, Quiet, config, output, devices, dm, Fail, TypeSets, Steps
<1>2. TypeBooleans'
  BY DEF CheckPayload, Quiet, config, output, devices, dm, Fail, TypeBooleans, TypeSets
<1>3. TypeRelations'
  BY DEF CheckPayload, Quiet, config, output, devices, dm, Fail, TypeRelations, Layered, Stacked, HeldOf,
     TypeSets
<1>4. FlagsHold'
  BY DEF CheckPayload, Quiet, config, output, devices, dm, Fail, FlagsHold, Private, Sofar,
     PayloadVerified, NeedsPayload, TypeSets
<1>5. MountersVerify' /\ Sofar' /\ PlainIsPrivate' /\ SignedSofar'
  BY DEF CheckPayload, Quiet, config, output, devices, dm, Fail, MountersVerify, MayTrust, MayNotVerify,
     Sofar, Mounting, NeedsPayload, PlainIsPrivate, Private, SignedSofar, TypeSets
<1>6. MountsVerified' /\ ServedIsSigned'
  BY DEF CheckPayload, Quiet, config, output, devices, dm, Fail, MountsVerified, Mounting, SignedSofar,
     MountersVerify, ServedIsSigned, ReadsByName, TypeSets
<1>7. DevicesOf'
  BY DEF CheckPayload, Quiet, config, output, devices, dm, Fail, Layered, DevicesOf, NoDevices,
     NoDeviceYet, NoDm, Stacked, Going, HeldOf, TypeSets
<1>8. HeldOf' /\ Layered' /\ OutInv'
  BY DEF CheckPayload, Quiet, config, output, devices, dm, Fail, HeldOf, Layered, Stacked, TypeRelations,
     OutInv, Writing, Unanswered, TypeSets
<1> QED
  BY <1>1, <1>2, <1>3, <1>4, <1>5, <1>6, <1>7, <1>8

LEMMA UseKeeps ==
  ASSUME Types, IInv, Use
  PROVE  Types' /\ IInv'
<1> USE DEF Types, IInv, ServedInv, ReleasedInv
<1>1. TypeSets'
  BY DEF Use, config, output, devices, dm, TypeSets, Steps, Flags, DmStates, OutStates, Content, Worth
<1>2. TypeBooleans'
  BY DEF Use, config, output, devices, dm, Fail, TypeBooleans, TypeSets
<1>3. TypeRelations'
  BY DEF Use, config, output, devices, dm, Fail, TypeRelations, Layered, Stacked, HeldOf, TypeSets
<1>4. FlagsHold' /\ MountersVerify' /\ Sofar' /\ PlainIsPrivate'
  BY DEF Use, config, output, devices, dm, Fail, FlagsHold, Private, Sofar, MountersVerify, MayTrust,
     MayNotVerify, Mounting, NeedsPayload, PlainIsPrivate, TypeSets
<1>5. SignedSofar' /\ MountsVerified'
  BY DEF Use, config, output, devices, dm, Fail, SignedSofar, MountsVerified, Mounting, MountersVerify,
     TypeSets
<1>6. ServedIsSigned'
  BY DEF Use, config, output, devices, dm, ServedIsSigned, ReadsByName, FlagsHold, Sofar, Content, Worth, NeedsPayload,
     TypeSets
<1>7. DevicesOf'
  BY DEF Use, config, output, devices, dm, Fail, Layered, DevicesOf, NoDevices, NoDeviceYet, NoDm,
     Stacked, Going, HeldOf, TypeSets
<1>8. HeldOf' /\ Layered' /\ OutInv'
  BY DEF Use, config, output, devices, dm, Fail, HeldOf, Layered, Stacked, TypeRelations, OutInv, Writing, Unanswered, TypeSets
<1> QED
  BY <1>1, <1>2, <1>3, <1>4, <1>5, <1>6, <1>7, <1>8

LEMMA UseFailsKeeps ==
  ASSUME Types, IInv, UseFails
  PROVE  Types' /\ IInv'
<1> USE DEF Types, IInv, ServedInv, ReleasedInv
<1>1. TypeSets'
  BY DEF UseFails, config, output, devices, dm, TypeSets, Steps, Flags, DmStates, OutStates
<1>2. TypeBooleans'
  BY DEF UseFails, config, output, devices, dm, TypeBooleans, TypeSets
<1>3. TypeRelations'
  BY DEF UseFails, config, output, devices, dm, TypeRelations, Layered, Stacked, HeldOf,
     TypeSets
<1>4. FlagsHold' /\ MountersVerify' /\ Sofar' /\ PlainIsPrivate'
  BY DEF UseFails, config, output, devices, dm, FlagsHold, Private, Sofar, MountersVerify,
     MayTrust, MayNotVerify, Mounting, NeedsPayload, PlainIsPrivate, TypeSets
<1>5. SignedSofar' /\ MountsVerified' /\ ServedIsSigned'
  BY DEF UseFails, config, output, devices, dm, SignedSofar, MountsVerified, Mounting,
     MountersVerify, ServedIsSigned, ReadsByName, TypeSets
<1>6. DevicesOf'
  BY DEF UseFails, config, output, devices, dm, Layered, DevicesOf, NoDevices, NoDeviceYet,
     NoDm, Stacked, Going, HeldOf, TypeSets
<1>7. HeldOf' /\ Layered' /\ OutInv'
  BY DEF UseFails, config, output, devices, dm, HeldOf, Layered, Stacked, TypeRelations,
     OutInv, Writing, Unanswered, TypeSets
<1> QED
  BY <1>1, <1>2, <1>3, <1>4, <1>5, <1>6, <1>7

LEMMA AppendKeeps ==
  ASSUME Types, IInv, Append
  PROVE  Types' /\ IInv'
<1> USE DEF Types, IInv, ServedInv, ReleasedInv
<1>1. TypeSets'
  BY DEF Append, config, output, devices, dm, TypeSets, Steps, Flags, DmStates, OutStates
<1>2. TypeBooleans'
  BY DEF Append, config, output, devices, dm, TypeBooleans, TypeSets
<1>3. TypeRelations'
  BY DEF Append, config, output, devices, dm, TypeRelations, Layered, Stacked, HeldOf,
     TypeSets
<1>4. FlagsHold' /\ MountersVerify' /\ Sofar' /\ PlainIsPrivate'
  BY DEF Append, config, output, devices, dm, FlagsHold, Private, Sofar, MountersVerify,
     MayTrust, MayNotVerify, Mounting, NeedsPayload, PlainIsPrivate, TypeSets
<1>5. SignedSofar' /\ MountsVerified' /\ ServedIsSigned'
  BY DEF Append, config, output, devices, dm, SignedSofar, MountsVerified, Mounting,
     MountersVerify, ServedIsSigned, ReadsByName, TypeSets
<1>6. DevicesOf'
  BY DEF Append, config, output, devices, dm, Layered, DevicesOf, NoDevices, NoDeviceYet,
     NoDm, Stacked, Going, HeldOf, TypeSets
<1>7. HeldOf' /\ Layered' /\ OutInv'
  BY DEF Append, config, output, devices, dm, HeldOf, Layered, Stacked, TypeRelations, OutInv,
     Writing, Unanswered, TypeSets
<1> QED
  BY <1>1, <1>2, <1>3, <1>4, <1>5, <1>6, <1>7

LEMMA RecheckKeeps ==
  ASSUME Types, IInv, Recheck
  PROVE  Types' /\ IInv'
<1> USE DEF Types, IInv, ServedInv, ReleasedInv
<1>1. TypeSets'
  BY DEF Recheck, config, output, devices, dm, TypeSets, Steps, Flags, DmStates, OutStates
<1>2. TypeBooleans'
  BY DEF Recheck, config, output, devices, dm, TypeBooleans, TypeSets
<1>3. TypeRelations'
  BY DEF Recheck, config, output, devices, dm, TypeRelations, Layered, Stacked, HeldOf,
     TypeSets
<1>4. FlagsHold' /\ MountersVerify' /\ Sofar' /\ PlainIsPrivate'
  BY DEF Recheck, config, output, devices, dm, FlagsHold, Private, Sofar, MountersVerify,
     MayTrust, MayNotVerify, Mounting, NeedsPayload, PlainIsPrivate, TypeSets
<1>5. SignedSofar' /\ MountsVerified' /\ ServedIsSigned'
  BY DEF Recheck, config, output, devices, dm, SignedSofar, MountsVerified, Mounting,
     MountersVerify, ServedIsSigned, ReadsByName, TypeSets
<1>6. DevicesOf'
  BY DEF Recheck, config, output, devices, dm, Layered, DevicesOf, NoDevices, NoDeviceYet,
     NoDm, Stacked, Going, HeldOf, TypeSets
<1>7. HeldOf' /\ Layered' /\ OutInv'
  BY DEF Recheck, config, output, devices, dm, HeldOf, Layered, Stacked, TypeRelations,
     OutInv, Writing, Unanswered, TypeSets
<1> QED
  BY <1>1, <1>2, <1>3, <1>4, <1>5, <1>6, <1>7

LEMMA CleanUpKeeps ==
  ASSUME Types, IInv, CleanUp
  PROVE  Types' /\ IInv'
<1> USE DEF Types, IInv, ServedInv, ReleasedInv
<1>1. TypeSets'
  BY DEF CleanUp, config, output, devices, dm, TypeSets, Steps, Flags, DmStates, OutStates
<1>2. TypeBooleans'
  BY DEF CleanUp, config, output, devices, dm, TypeBooleans, TypeSets
<1>3. TypeRelations'
  BY DEF CleanUp, config, output, devices, dm, TypeRelations, Layered, Stacked, HeldOf,
     TypeSets
<1>4. FlagsHold' /\ MountersVerify' /\ Sofar' /\ PlainIsPrivate'
  BY DEF CleanUp, config, output, devices, dm, FlagsHold, Private, Sofar, MountersVerify,
     MayTrust, MayNotVerify, Mounting, NeedsPayload, PlainIsPrivate, TypeSets
<1>5. SignedSofar' /\ MountsVerified' /\ ServedIsSigned'
  BY DEF CleanUp, config, output, devices, dm, SignedSofar, MountsVerified, Mounting,
     MountersVerify, ServedIsSigned, ReadsByName, TypeSets
<1>6. DevicesOf'
  BY DEF CleanUp, config, output, devices, dm, Layered, DevicesOf, NoDevices, NoDeviceYet,
     NoDm, Stacked, Going, HeldOf, TypeSets
<1>7. HeldOf' /\ Layered' /\ OutInv'
  BY DEF CleanUp, config, output, devices, dm, HeldOf, Layered, Stacked, TypeRelations,
     OutInv, Writing, Unanswered, TypeSets
<1> QED
  BY <1>1, <1>2, <1>3, <1>4, <1>5, <1>6, <1>7

LEMMA AttachKeeps ==
  ASSUME Types, IInv, Attach
  PROVE  Types' /\ IInv'
<1> USE DEF Types, IInv, ServedInv, ReleasedInv
<1>1. TypeSets'
  BY DEF Attach, Quiet, config, output, dm, Fail, TypeSets, Steps, Flags, DmStates
<1>2. TypeBooleans'
  BY DEF Attach, Quiet, config, output, dm, Fail, TypeBooleans, TypeSets
<1>3. TypeRelations'
  BY DEF Attach, Quiet, config, output, dm, Fail, TypeRelations, Layered, Stacked, HeldOf, TypeSets
<1>4. FlagsHold' /\ MountersVerify' /\ Sofar' /\ PlainIsPrivate'
  BY DEF Attach, Quiet, config, output, dm, Fail, FlagsHold, Private, Sofar, MountersVerify, MayTrust,
     MayNotVerify, Mounting, NeedsPayload, PlainIsPrivate, TypeSets
<1>5. SignedSofar'
  BY DEF Attach, Quiet, config, output, dm, Fail, SignedSofar, TypeSets
<1>6. MountsVerified'
  BY DEF Attach, Quiet, config, output, dm, Fail, MountsVerified, Mounting, SignedSofar, MountersVerify,
     Sofar, TypeSets
<1>7. ServedIsSigned'
  BY DEF Attach, Quiet, config, output, dm, Fail, ServedIsSigned, ReadsByName, TypeSets
<1>8. DevicesOf'
  BY DEF Attach, Quiet, config, output, dm, Fail, Layered, DevicesOf, NoDevices, NoDeviceYet, NoDm,
     Stacked, Going, HeldOf, TypeSets
<1>9. HeldOf' /\ Layered' /\ OutInv'
  BY DEF Attach, Quiet, config, output, dm, Fail, HeldOf, Layered, Stacked, TypeRelations, OutInv, Writing, Unanswered,
     TypeSets
<1> QED
  BY <1>1, <1>2, <1>3, <1>4, <1>5, <1>6, <1>7, <1>8, <1>9

LEMMA SetupVerityKeeps ==
  ASSUME Types, IInv, SetupVerity
  PROVE  Types' /\ IInv'
<1> USE DEF Types, IInv, ServedInv, ReleasedInv
<1>1. TypeSets'
  BY DEF SetupVerity, OnlyDm, config, output, dm, Fail, TypeSets, Steps, Flags, DmStates
<1>2. TypeBooleans'
  BY DEF SetupVerity, OnlyDm, config, output, dm, Fail, TypeBooleans, TypeSets
<1>3. TypeRelations'
  BY DEF SetupVerity, OnlyDm, config, output, dm, Fail, TypeRelations, Layered, Stacked, HeldOf, TypeSets
<1>4. FlagsHold' /\ MountersVerify' /\ Sofar' /\ PlainIsPrivate'
  BY DEF SetupVerity, OnlyDm, config, output, dm, Fail, FlagsHold, Private, Sofar, MountersVerify,
     MayTrust, MayNotVerify, Mounting, NeedsPayload, PlainIsPrivate, TypeSets
<1>5. SignedSofar' /\ MountsVerified' /\ ServedIsSigned'
  BY DEF SetupVerity, OnlyDm, config, output, dm, Fail, SignedSofar, MountsVerified, Mounting,
     MountersVerify, ServedIsSigned, ReadsByName, TypeSets
<1>6. DevicesOf'
  BY DEF SetupVerity, OnlyDm, config, output, dm, Fail, Layered, DevicesOf, NoDevices, NoDeviceYet, NoDm,
     Stacked, Going, HeldOf, TypeSets
<1>7. HeldOf' /\ Layered' /\ OutInv'
  BY DEF SetupVerity, OnlyDm, config, output, dm, Fail, HeldOf, Layered, Stacked, TypeRelations, OutInv, Writing, Unanswered,
     TypeSets
<1> QED
  BY <1>1, <1>2, <1>3, <1>4, <1>5, <1>6, <1>7

LEMMA SetupCryptKeeps ==
  ASSUME Types, IInv, SetupCrypt
  PROVE  Types' /\ IInv'
<1> USE DEF Types, IInv, ServedInv, ReleasedInv
<1>a. /\ step = "crypt" /\ verity = "live" /\ crypt = "none" /\ mounted \notin {"verity", "crypt"}
      /\ ~file.detached /\ file' = file /\ UNCHANGED <<loopfd, nbd, sock, server>>
  BY DEF SetupCrypt, OnlyDm, Layered
<1>b. ~excused => mounted = "none"
  BY <1>a DEF DevicesOf
<1>c. step' \in {"free", "precheck"}
  BY DEF SetupCrypt, Fail
<1>d. step' = "precheck" => crypt' = "live" /\ UNCHANGED <<mounted, verity, excused>>
  BY DEF SetupCrypt, Fail
<1>e. step' = "free" /\ ~excused' => ~excused /\ mounted' = mounted /\ crypt' = "none" /\ verity' = "none"
  BY <1>a DEF SetupCrypt, Fail, RemoveVerity, Try, Reap, dm
<1>g. mounted' = mounted
  BY DEF SetupCrypt, RemoveVerity, Try, Reap, dm
<1>f. ~file.detached /\ file.format = "crypt"
  BY <1>a DEF Layered
<1>1. TypeSets'
  BY DEF SetupCrypt, OnlyDm, config, output, dm, Fail, RemoveVerity, Try, Reap, TypeSets, Steps, Flags,
     DmStates
<1>2. TypeBooleans'
  BY DEF SetupCrypt, OnlyDm, config, output, dm, Fail, RemoveVerity, Try, Reap, TypeBooleans, TypeSets
<1>3. TypeRelations'
  BY DEF SetupCrypt, OnlyDm, config, output, dm, Fail, RemoveVerity, Try, Reap, TypeRelations, Layered,
     Stacked, HeldOf, TypeSets
<1>4. FlagsHold' /\ MountersVerify' /\ Sofar' /\ PlainIsPrivate'
  BY DEF SetupCrypt, OnlyDm, config, output, dm, Fail, RemoveVerity, Try, Reap, FlagsHold, Private, Sofar,
     MountersVerify, MayTrust, MayNotVerify, Mounting, NeedsPayload, PlainIsPrivate, TypeSets
<1>5. SignedSofar' /\ MountsVerified' /\ ServedIsSigned'
  BY DEF SetupCrypt, OnlyDm, config, output, dm, Fail, RemoveVerity, Try, Reap, SignedSofar,
     MountsVerified, Mounting, MountersVerify, ServedIsSigned, ReadsByName, TypeSets
<1>6. DevicesOf'
  <2>1. CASE step' = "free"
    BY <1>b, <1>e, <2>1 DEF DevicesOf, NoDm
  <2>2. CASE step' = "precheck"
    BY <1>a, <1>b, <1>d, <1>f, <2>2 DEF DevicesOf, Stacked
  <2> QED
    BY <1>c, <2>1, <2>2
<1>7. HeldOf'
  BY DEF SetupCrypt, OnlyDm, config, output, dm, Fail, RemoveVerity, Try, Reap, HeldOf, TypeSets
<1>8. Layered'
  BY <1>a, <1>c, <1>d, <1>f, <1>g DEF Layered, Stacked
<1>9. OutInv'
  BY DEF SetupCrypt, OnlyDm, config, output, dm, Fail, RemoveVerity, Try, Reap, OutInv, Writing, Unanswered, TypeSets
<1> QED
  BY <1>1, <1>2, <1>3, <1>4, <1>5, <1>6, <1>7, <1>8, <1>9

LEMMA PreCheckKeeps ==
  ASSUME Types, IInv, PreCheck
  PROVE  Types' /\ IInv'
<1> USE DEF Types, IInv, ServedInv, ReleasedInv
<1>1. TypeSets'
  BY DEF PreCheck, OnlyDm, config, output, dm, Fail, RemoveVerity, Try, Reap, TypeSets, Steps, Flags,
     DmStates
<1>2. TypeBooleans'
  BY DEF PreCheck, OnlyDm, config, output, dm, Fail, RemoveVerity, Try, Reap, TypeBooleans, TypeSets
<1>3. TypeRelations'
  BY DEF PreCheck, OnlyDm, config, output, dm, Fail, RemoveVerity, Try, Reap, TypeRelations, Layered,
     Stacked, HeldOf, TypeSets
<1>4. FlagsHold' /\ MountersVerify' /\ Sofar' /\ PlainIsPrivate'
  BY DEF PreCheck, OnlyDm, config, output, dm, Fail, RemoveVerity, Try, Reap, FlagsHold, Private, Sofar,
     MountersVerify, MayTrust, MayNotVerify, Mounting, NeedsPayload, PlainIsPrivate, TypeSets
<1>5. SignedSofar' /\ MountsVerified' /\ ServedIsSigned'
  BY DEF PreCheck, OnlyDm, config, output, dm, Fail, RemoveVerity, Try, Reap, SignedSofar, MountsVerified,
     Mounting, MountersVerify, ServedIsSigned, ReadsByName, TypeSets
<1>6. DevicesOf'
  BY DEF PreCheck, OnlyDm, config, output, dm, Fail, RemoveVerity, Try, Reap, Layered, DevicesOf,
     NoDevices, NoDeviceYet, NoDm, Stacked, Going, HeldOf, TypeSets
<1>7. HeldOf' /\ Layered' /\ OutInv'
  BY DEF PreCheck, OnlyDm, config, output, dm, Fail, RemoveVerity, Try, Reap, HeldOf, Layered, Stacked,
     TypeRelations, OutInv, Writing, Unanswered, TypeSets
<1> QED
  BY <1>1, <1>2, <1>3, <1>4, <1>5, <1>6, <1>7

LEMMA MountKeeps ==
  ASSUME Types, IInv, Mount
  PROVE  Types' /\ IInv'
<1> USE DEF Types, IInv, ServedInv, ReleasedInv
<1>1. TypeSets'
  BY DEF Mount, OnlyDm, config, output, dm, Top, TypeSets, Steps, Flags, DmStates
<1>2. TypeBooleans'
  BY DEF Mount, OnlyDm, config, output, dm, Top, TypeBooleans, TypeSets
<1>3. TypeRelations'
  BY DEF Mount, OnlyDm, config, output, dm, Top, TypeRelations, Layered, Stacked, HeldOf, TypeSets
<1>4. FlagsHold' /\ MountersVerify' /\ Sofar'
  BY DEF Mount, OnlyDm, config, output, dm, Top, FlagsHold, Private, Sofar, MountersVerify, MayTrust,
     MayNotVerify, Mounting, NeedsPayload, TypeSets
<1>5. PlainIsPrivate'
  BY DEF Mount, OnlyDm, config, output, dm, Top, PlainIsPrivate, Private, Sofar, FlagsHold, Mounting,
     MountersVerify, TypeSets
<1>6. SignedSofar' /\ MountsVerified' /\ ServedIsSigned'
  BY DEF Mount, OnlyDm, config, output, dm, Top, SignedSofar, MountsVerified, Mounting, MountersVerify,
     ServedIsSigned, ReadsByName, TypeSets
<1>7. DevicesOf'
  BY DEF Mount, OnlyDm, config, output, dm, Top, Layered, DevicesOf, NoDevices, NoDeviceYet, NoDm,
     Stacked, Going, HeldOf, TypeSets
<1>8. HeldOf' /\ Layered' /\ OutInv'
  BY DEF Mount, OnlyDm, config, output, dm, Top, HeldOf, Layered, Stacked, TypeRelations, OutInv, Writing, Unanswered, TypeSets
<1> QED
  BY <1>1, <1>2, <1>3, <1>4, <1>5, <1>6, <1>7, <1>8

LEMMA DeferCryptKeeps ==
  ASSUME Types, IInv, DeferCrypt
  PROVE  Types' /\ IInv'
<1> USE DEF Types, IInv, ServedInv, ReleasedInv
<1>1. TypeSets'
  BY DEF DeferCrypt, OnlyDm, config, output, dm, Try, Reap, Marked, TypeSets, Steps, Flags, DmStates
<1>2. TypeBooleans'
  BY DEF DeferCrypt, OnlyDm, config, output, dm, Try, Reap, Marked, TypeBooleans, TypeSets
<1>3. TypeRelations'
  BY DEF DeferCrypt, OnlyDm, config, output, dm, Try, Reap, Marked, TypeRelations, Layered, Stacked,
     HeldOf, TypeSets
<1>4. FlagsHold' /\ MountersVerify' /\ Sofar' /\ PlainIsPrivate'
  BY DEF DeferCrypt, OnlyDm, config, output, dm, Try, Reap, Marked, FlagsHold, Private, Sofar,
     MountersVerify, MayTrust, MayNotVerify, Mounting, NeedsPayload, PlainIsPrivate, TypeSets
<1>5. SignedSofar' /\ MountsVerified' /\ ServedIsSigned'
  BY DEF DeferCrypt, OnlyDm, config, output, dm, Try, Reap, Marked, SignedSofar, MountsVerified, Mounting,
     MountersVerify, ServedIsSigned, ReadsByName, TypeSets
<1>6. DevicesOf'
  BY DEF DeferCrypt, OnlyDm, config, output, dm, Try, Reap, Marked, Layered, DevicesOf, NoDevices,
     NoDeviceYet, NoDm, Stacked, Going, HeldOf, TypeSets
<1>7. HeldOf' /\ Layered' /\ OutInv'
  BY DEF DeferCrypt, OnlyDm, config, output, dm, Try, Reap, Marked, HeldOf, Layered, Stacked,
     TypeRelations, OutInv, Writing, Unanswered, TypeSets
<1> QED
  BY <1>1, <1>2, <1>3, <1>4, <1>5, <1>6, <1>7

LEMMA DeferVerityKeeps ==
  ASSUME Types, IInv, DeferVerity
  PROVE  Types' /\ IInv'
<1> USE DEF Types, IInv, ServedInv, ReleasedInv
<1>a. step = "deferVerity" /\ step' \in {"free", "left", "umount"}
  BY DEF DeferVerity, Mounted
<1>b. ~excused' => ~excused /\ Reap(mounted, crypt, Marked(verity))
  BY DEF DeferVerity, Try
<1>c. ~excused => Going(crypt) /\ ~file.detached
  BY <1>a DEF DevicesOf
<1>d. step' = "free" => mounted = "none"
  BY DEF DeferVerity, Mounted
<1>e. Marked(verity) \in {"none", "deferred"}
  BY DEF Marked, TypeSets, DmStates
<1>f. ~excused' => mounted' = mounted /\ Going(crypt') /\ Going(verity')
  BY <1>b, <1>c, <1>e DEF Reap, Going
<1>g. ~excused' /\ mounted = "none" => crypt' = "none" /\ verity' = "none"
  BY <1>b, <1>c, <1>e DEF Reap, Going
<1>1. TypeSets'
  BY DEF DeferVerity, config, output, dm, Try, Reap, Marked, Mounted, TypeSets, Steps, Flags, DmStates
<1>2. TypeBooleans'
  BY DEF DeferVerity, config, output, dm, Try, Reap, Marked, Mounted, TypeBooleans, TypeSets
<1>3. TypeRelations'
  BY DEF DeferVerity, config, output, dm, Try, Reap, Marked, Mounted, TypeRelations, Layered, Stacked,
     HeldOf, TypeSets
<1>4. FlagsHold' /\ MountersVerify' /\ Sofar' /\ PlainIsPrivate'
  BY DEF DeferVerity, config, output, dm, Try, Reap, Marked, Mounted, FlagsHold, Private, Sofar,
     MountersVerify, MayTrust, MayNotVerify, Mounting, NeedsPayload, PlainIsPrivate, TypeSets
<1>5. SignedSofar'
  BY DEF DeferVerity, config, output, dm, Try, Reap, Marked, Mounted, SignedSofar, Sofar, Mounting,
     TypeSets
<1>6. MountsVerified' /\ ServedIsSigned'
  BY DEF DeferVerity, config, output, dm, Try, Reap, Marked, Mounted, MountsVerified, Mounting,
     SignedSofar, MountersVerify, ServedIsSigned, ReadsByName, TypeSets
<1>7. DevicesOf'
  BY <1>a, <1>d, <1>f, <1>g DEF DevicesOf, NoDm
<1>8. HeldOf' /\ Layered' /\ OutInv'
  BY DEF DeferVerity, config, output, dm, Try, Reap, Marked, Mounted, HeldOf, Layered, Stacked,
     TypeRelations, OutInv, Writing, Unanswered, TypeSets
<1> QED
  BY <1>1, <1>2, <1>3, <1>4, <1>5, <1>6, <1>7, <1>8

LEMMA LoadInternalManifestKeeps ==
  ASSUME Types, IInv, LoadInternalManifest
  PROVE  Types' /\ IInv'
<1> USE DEF Types, IInv, ServedInv, ReleasedInv
<1>1. TypeSets'
  BY DEF LoadInternalManifest, config, output, dm, Try, Reap, Mounted, TypeSets, Steps, Flags, DmStates
<1>2. TypeBooleans'
  BY DEF LoadInternalManifest, config, output, dm, Try, Reap, Mounted, TypeBooleans, TypeSets
<1>3. TypeRelations'
  BY DEF LoadInternalManifest, config, output, dm, Try, Reap, Mounted, TypeRelations, Layered, Stacked,
     HeldOf, TypeSets
<1>4. FlagsHold' /\ MountersVerify' /\ Sofar' /\ PlainIsPrivate'
  BY DEF LoadInternalManifest, config, output, dm, Try, Reap, Mounted, FlagsHold, Private, Sofar,
     MountersVerify, MayTrust, MayNotVerify, Mounting, NeedsPayload, PlainIsPrivate, TypeSets
<1>5. SignedSofar'
  BY DEF LoadInternalManifest, config, output, dm, Try, Reap, Mounted, SignedSofar, Sofar, Mounting,
     TypeSets
<1>6. MountsVerified' /\ ServedIsSigned'
  BY DEF LoadInternalManifest, config, output, dm, Try, Reap, Mounted, MountsVerified, Mounting,
     SignedSofar, MountersVerify, ServedIsSigned, ReadsByName, TypeSets
<1>7. DevicesOf'
  BY DEF LoadInternalManifest, config, output, dm, Try, Reap, Mounted, Layered, DevicesOf, NoDevices,
     NoDeviceYet, NoDm, Stacked, Going, HeldOf, TypeSets
<1>8. HeldOf' /\ Layered' /\ OutInv'
  BY DEF LoadInternalManifest, config, output, dm, Try, Reap, Mounted, HeldOf, Layered, Stacked,
     TypeRelations, OutInv, Writing, Unanswered, TypeSets
<1> QED
  BY <1>1, <1>2, <1>3, <1>4, <1>5, <1>6, <1>7, <1>8

LEMMA ReadMountedKeeps ==
  ASSUME Types, IInv, ReadMounted
  PROVE  Types' /\ IInv'
<1> USE DEF Types, IInv, ServedInv, ReleasedInv
<1>1. TypeSets'
  BY DEF ReadMounted, config, output, devices, dm, Worth, TypeSets, Steps, Flags, DmStates
<1>2. TypeBooleans'
  BY DEF ReadMounted, config, output, devices, dm, Worth, TypeBooleans, TypeSets
<1>3. TypeRelations'
  BY DEF ReadMounted, config, output, devices, dm, Worth, TypeRelations, Layered, Stacked, HeldOf,
     TypeSets
<1>4. FlagsHold' /\ MountersVerify' /\ Sofar' /\ PlainIsPrivate'
  BY DEF ReadMounted, config, output, devices, dm, Worth, FlagsHold, Private, Sofar, MountersVerify,
     MayTrust, MayNotVerify, Mounting, NeedsPayload, PlainIsPrivate, TypeSets
<1>5. SignedSofar' /\ MountsVerified'
  BY DEF ReadMounted, config, output, devices, dm, Worth, SignedSofar, MountsVerified, Mounting,
     MountersVerify, TypeSets
<1>6. ServedIsSigned'
  BY DEF ReadMounted, config, output, devices, dm, Worth, ServedIsSigned, ReadsByName, PlainIsPrivate, TypeSets
<1>7. DevicesOf'
  BY DEF ReadMounted, config, output, devices, dm, Worth, Layered, DevicesOf, NoDevices, NoDeviceYet,
     NoDm, Stacked, Going, HeldOf, TypeSets
<1>8. HeldOf' /\ Layered' /\ OutInv'
  BY DEF ReadMounted, config, output, devices, dm, Worth, HeldOf, Layered, Stacked, TypeRelations, OutInv, Writing, Unanswered,
     TypeSets
<1> QED
  BY <1>1, <1>2, <1>3, <1>4, <1>5, <1>6, <1>7, <1>8

LEMMA UmountKeeps ==
  ASSUME Types, IInv, Umount
  PROVE  Types' /\ IInv'
<1> USE DEF Types, IInv, ServedInv, ReleasedInv
<1>1. TypeSets'
  BY DEF Umount, OnlyDm, config, output, dm, Fail, Try, Reap, TypeSets, Steps, Flags, DmStates
<1>2. TypeBooleans'
  BY DEF Umount, OnlyDm, config, output, dm, Fail, Try, Reap, TypeBooleans, TypeSets
<1>3. TypeRelations'
  BY DEF Umount, OnlyDm, config, output, dm, Fail, Try, Reap, TypeRelations, Layered, Stacked, HeldOf,
     TypeSets
<1>4. FlagsHold' /\ MountersVerify' /\ Sofar' /\ PlainIsPrivate'
  BY DEF Umount, OnlyDm, config, output, dm, Fail, Try, Reap, FlagsHold, Private, Sofar, MountersVerify,
     MayTrust, MayNotVerify, Mounting, NeedsPayload, PlainIsPrivate, TypeSets
<1>5. SignedSofar' /\ MountsVerified' /\ ServedIsSigned'
  BY DEF Umount, OnlyDm, config, output, dm, Fail, Try, Reap, SignedSofar, MountsVerified, Mounting,
     MountersVerify, ServedIsSigned, ReadsByName, TypeSets
<1>6. DevicesOf'
  BY DEF Umount, OnlyDm, config, output, dm, Fail, Try, Reap, Layered, DevicesOf, NoDevices, NoDeviceYet,
     NoDm, Stacked, Going, HeldOf, TypeSets
<1>7. HeldOf' /\ Layered' /\ OutInv'
  BY DEF Umount, OnlyDm, config, output, dm, Fail, Try, Reap, HeldOf, Layered, Stacked, TypeRelations,
     OutInv, Writing, Unanswered, TypeSets
<1> QED
  BY <1>1, <1>2, <1>3, <1>4, <1>5, <1>6, <1>7

LEMMA UserUmountKeeps ==
  ASSUME Types, IInv, UserUmount
  PROVE  Types' /\ IInv'
<1> USE DEF Types, IInv, ServedInv, ReleasedInv
<1>1. TypeSets'
  BY DEF UserUmount, config, output, Reap, TypeSets, Steps, Flags, DmStates
<1>2. TypeBooleans'
  BY DEF UserUmount, config, output, Reap, TypeBooleans, TypeSets
<1>3. TypeRelations'
  BY DEF UserUmount, config, output, Reap, TypeRelations, Layered, Stacked, HeldOf, TypeSets
<1>4. FlagsHold' /\ MountersVerify' /\ Sofar' /\ PlainIsPrivate'
  BY DEF UserUmount, config, output, Reap, FlagsHold, Private, Sofar, MountersVerify, MayTrust,
     MayNotVerify, Mounting, NeedsPayload, PlainIsPrivate, TypeSets
<1>5. SignedSofar' /\ MountsVerified' /\ ServedIsSigned'
  BY DEF UserUmount, config, output, Reap, SignedSofar, MountsVerified, Mounting, MountersVerify,
     ServedIsSigned, ReadsByName, TypeSets
<1>6. DevicesOf'
  BY DEF UserUmount, config, output, Reap, Layered, DevicesOf, NoDevices, NoDeviceYet, NoDm, Stacked,
     Going, HeldOf, TypeSets
<1>7. HeldOf' /\ Layered' /\ OutInv'
  BY DEF UserUmount, config, output, Reap, HeldOf, Layered, Stacked, TypeRelations, OutInv, Writing, Unanswered, TypeSets
<1> QED
  BY <1>1, <1>2, <1>3, <1>4, <1>5, <1>6, <1>7

LEMMA FreeKeeps ==
  ASSUME Types, IInv, Free
  PROVE  Types' /\ IInv'
<1> USE DEF Types, IInv, ServedInv, ReleasedInv
<1>1. TypeSets'
  BY DEF Free, config, output, dm, RemoveDevice, TypeSets, Steps, Flags, DmStates
<1>2. TypeBooleans'
  BY DEF Free, config, output, dm, RemoveDevice, TypeBooleans, TypeSets
<1>3. TypeRelations'
  BY DEF Free, config, output, dm, RemoveDevice, TypeRelations, Layered, Stacked, HeldOf, TypeSets
<1>4. FlagsHold' /\ MountersVerify' /\ Sofar' /\ PlainIsPrivate'
  BY DEF Free, config, output, dm, RemoveDevice, FlagsHold, Private, Sofar, MountersVerify, MayTrust,
     MayNotVerify, Mounting, NeedsPayload, PlainIsPrivate, TypeSets
<1>5. SignedSofar' /\ MountsVerified' /\ ServedIsSigned'
  BY DEF Free, config, output, dm, RemoveDevice, SignedSofar, MountsVerified, Mounting, MountersVerify,
     ServedIsSigned, ReadsByName, TypeSets
<1>6. DevicesOf'
  BY DEF Free, config, output, dm, RemoveDevice, Layered, DevicesOf, NoDevices, NoDeviceYet, NoDm,
     Stacked, Going, HeldOf, TypeSets
<1>7. HeldOf' /\ Layered' /\ OutInv'
  BY DEF Free, config, output, dm, RemoveDevice, HeldOf, Layered, Stacked, TypeRelations, OutInv, Writing, Unanswered, TypeSets
<1> QED
  BY <1>1, <1>2, <1>3, <1>4, <1>5, <1>6, <1>7

LEMMA StopKeeps ==
  ASSUME Types, IInv, Stop
  PROVE  Types' /\ IInv'
<1> USE DEF Types, IInv, ServedInv, ReleasedInv
<1>1. TypeSets'
  BY DEF Stop, config, output, dm, TypeSets, Steps, Flags, DmStates
<1>2. TypeBooleans'
  BY DEF Stop, config, output, dm, TypeBooleans, TypeSets
<1>3. TypeRelations'
  BY DEF Stop, config, output, dm, TypeRelations, Layered, Stacked, HeldOf, TypeSets
<1>4. FlagsHold' /\ MountersVerify' /\ Sofar' /\ PlainIsPrivate'
  BY DEF Stop, config, output, dm, FlagsHold, Private, Sofar, MountersVerify, MayTrust, MayNotVerify,
     Mounting, NeedsPayload, PlainIsPrivate, TypeSets
<1>5. SignedSofar' /\ MountsVerified' /\ ServedIsSigned'
  BY DEF Stop, config, output, dm, SignedSofar, MountsVerified, Mounting, MountersVerify, ServedIsSigned, ReadsByName,
     TypeSets
<1>6. DevicesOf'
  BY DEF Stop, config, output, dm, Layered, DevicesOf, NoDevices, NoDeviceYet, NoDm, Stacked, Going,
     HeldOf, TypeSets
<1>7. HeldOf' /\ Layered' /\ OutInv'
  BY DEF Stop, config, output, dm, HeldOf, Layered, Stacked, TypeRelations, OutInv, Writing, Unanswered, TypeSets
<1> QED
  BY <1>1, <1>2, <1>3, <1>4, <1>5, <1>6, <1>7

LEMMA KillKeeps ==
  ASSUME Types, IInv, Kill
  PROVE  Types' /\ IInv'
<1> USE DEF Types, IInv, ServedInv, ReleasedInv
<1>a. \/ step' = "left" /\ UNCHANGED dm
      \/ step' = "idle" /\ Reap("none", crypt, verity)
  BY DEF Kill
<1>b. ~excused' => ~excused /\ crypt \in {"none", "deferred"} /\ verity \in {"none", "deferred"}
  BY DEF Kill, TypeSets, DmStates
<1>c. step' = "idle" /\ ~excused' => ~nbd' /\ ~server'
  BY DEF Kill
<1>d. sock' = "none" /\ ~loopfd'
  BY DEF Kill
<1>1. TypeSets'
  BY DEF Kill, config, output, dm, Reap, TypeSets, Steps, Flags, DmStates, OutStates
<1>2. TypeBooleans'
  BY DEF Kill, config, output, dm, Reap, TypeBooleans, TypeSets
<1>3. TypeRelations'
  BY DEF Kill, config, output, dm, Reap, TypeRelations, Layered, Stacked, HeldOf, TypeSets
<1>4. FlagsHold' /\ MountersVerify' /\ Sofar' /\ PlainIsPrivate'
  BY DEF Kill, config, output, dm, Reap, FlagsHold, Private, Sofar, MountersVerify, MayTrust,
     MayNotVerify, Mounting, NeedsPayload, PlainIsPrivate, TypeSets
<1>5. SignedSofar' /\ MountsVerified' /\ ServedIsSigned'
  BY DEF Kill, config, output, dm, Reap, SignedSofar, MountsVerified, Mounting, MountersVerify,
     ServedIsSigned, ReadsByName, TypeSets
<1>6. DevicesOf'
  BY <1>a, <1>b, <1>c, <1>d DEF dm, Reap, DevicesOf, NoDevices, Going
<1>7. HeldOf' /\ Layered' /\ OutInv'
  BY DEF Kill, config, output, dm, Reap, HeldOf, Layered, Stacked, TypeRelations, OutInv, Writing, Unanswered, TypeSets
<1> QED
  BY <1>1, <1>2, <1>3, <1>4, <1>5, <1>6, <1>7

----------------------------------------------------------------------------
(* The behaviours.                                                          *)

LEMMA InitHolds == Init => Types /\ IInv
<1> SUFFICES ASSUME Init PROVE Types /\ IInv
  OBVIOUS
<1>1. conf \in ConfigType /\ file \in FileType
  BY FilesAssumption, ConfigsAssumption DEF Init
<1>2. TypeSets
  BY <1>1 DEF Init, NoDevices, TypeSets, Commands, Steps, Flags, DmStates, OutStates
<1>3. TypeBooleans
  BY DEF Init, NoDevices, TypeBooleans
<1>4. TypeRelations
  BY DEF Init, NoDevices, TypeRelations
<1>5. ServedInv
  BY DEF Init, NoDevices, ServedInv, FlagsHold, MountersVerify, Sofar, Mounting, PlainIsPrivate,
         SignedSofar, MountsVerified, ServedIsSigned, ReadsByName, NeedsPayload
<1>6. DevicesOf
  BY DEF Init, NoDevices, DevicesOf
<1>7. HeldOf /\ Layered /\ OutInv
  BY DEF Init, NoDevices, HeldOf, Layered, OutInv, Writing, Unanswered
<1> QED
  BY <1>2, <1>3, <1>4, <1>5, <1>6, <1>7 DEF Types, IInv, ReleasedInv

LEMMA UnchangedKeeps == Types /\ IInv /\ UNCHANGED vars => Types' /\ IInv'
<1> SUFFICES ASSUME Types, IInv, UNCHANGED vars PROVE Types' /\ IInv'
  OBVIOUS
<1>1. Types'
  BY DEF vars, Types, TypeSets, TypeBooleans, TypeRelations
<1>2. ServedInv'
  BY DEF vars, IInv, ServedInv, FlagsHold, Private, MountersVerify, Sofar, Mounting, NeedsPayload,
         PlainIsPrivate, SignedSofar, MountsVerified, ServedIsSigned, ReadsByName
<1>3. ReleasedInv'
  BY DEF vars, IInv, ReleasedInv, DevicesOf, NoDevices, NoDeviceYet, NoDm, Stacked, Going, HeldOf, Layered
<1>4. OutInv'
  BY DEF vars, IInv, OutInv, Writing, Unanswered
<1> QED
  BY <1>1, <1>2, <1>3, <1>4 DEF IInv

LEMMA NextHolds == Types /\ IInv /\ [Next]_vars => Types' /\ IInv'
<1> SUFFICES ASSUME Types, IInv, [Next]_vars PROVE Types' /\ IInv'
  OBVIOUS
<1>1. CASE OpenForWriting \/ CloseWriter \/ Alter \/ Rename \/ Appear
  BY <1>1, OpenForWritingKeeps, CloseWriterKeeps, AlterKeeps, RenameKeeps, AppearKeeps
<1>2. ASSUME NEW c \in Commands, NEW v \in BOOLEAN, NEW t \in BOOLEAN, Begin(c, v, t)
      PROVE  Types' /\ IInv'
  BY <1>2, BeginKeeps
<1>3. CASE ReadSignature \/ CheckAccess \/ VerifySignature \/ LoadManifest
  BY <1>3, ReadSignatureKeeps, CheckAccessKeeps, VerifySignatureKeeps, LoadManifestKeeps
<1>4. CASE CheckPayload \/ Use \/ UseFails \/ Append \/ Recheck \/ CleanUp
  BY <1>4, CheckPayloadKeeps, UseKeeps, UseFailsKeeps, AppendKeeps, RecheckKeeps, CleanUpKeeps
<1>5. CASE Attach \/ SetupVerity \/ SetupCrypt \/ PreCheck \/ Mount
  BY <1>5, AttachKeeps, SetupVerityKeeps, SetupCryptKeeps, PreCheckKeeps, MountKeeps
<1>6. CASE DeferCrypt \/ DeferVerity \/ LoadInternalManifest
  BY <1>6, DeferCryptKeeps, DeferVerityKeeps, LoadInternalManifestKeeps
<1>7. CASE ReadMounted \/ Umount \/ UserUmount \/ Free \/ Stop \/ Kill
  BY <1>7, ReadMountedKeeps, UmountKeeps, UserUmountKeeps, FreeKeeps, StopKeeps, KillKeeps
<1>8. CASE UNCHANGED vars
  BY <1>8, UnchangedKeeps
<1> QED
  BY <1>1, <1>2, <1>3, <1>4, <1>5, <1>6, <1>7, <1>8 DEF Next, Process

\* The whole invariant, in every reachable state.
THEOREM BundleInvariant == Spec => [](Types /\ IInv)
  BY InitHolds, NextHolds, PTL DEF Spec

\* Every variable stays in its set, a device lies on what it needs, and a socket has a server.
THEOREM BundleTypes == Spec => []TypeOK
<1>1. Types /\ IInv => TypeOK
  BY TypesAreOK
<1> QED
  BY <1>1, BundleInvariant, PTL

\* check_bundle, check_bundle_payload, mount_bundle: whatever bundle, and whatever another
\* user writes to it meanwhile, a command that verifies and does not trust its environment
\* takes only what was signed; but a command that opens the bundle once more by its name
\* takes what is there if another file has been put under that name.
THEOREM OnlySignedIsServed == Spec => []ServedIsSigned
<1>1. Types /\ IInv => ServedIsSigned
  BY DEF IInv, ServedInv
<1> QED
  BY <1>1, BundleInvariant, PTL

\* mount_bundle starts with g_error if the signature, or for a plain bundle its payload, was
\* not verified: no caller can reach that.
THEOREM OnlyVerifiedIsMounted == Spec => []MountsVerified
<1>1. Types /\ IInv => MountsVerified
  BY DEF IInv, ServedInv
<1> QED
  BY <1>1, BundleInvariant, PTL

\* umount_bundle, free_bundle and the ways back of mount_bundle: a command that is over has
\* left no device, mount, socket or server, but for refused removals and early kills.
THEOREM AllReleased == Spec => []Released
<1>1. Types /\ IInv => Released
  BY DEF IInv, ReleasedInv, DevicesOf, Released
<1> QED
  BY <1>1, BundleInvariant, PTL

\* resign_bundle, replace_signature, create_casync_bundle, encrypt_bundle: whatever fails, and
\* whenever the process is killed, success means a whole bundle, failure leaves none of its
\* own but where the system refused to remove it, and a file that was there first stays.
THEOREM NoPartialOutput == Spec => OutputsWhole
<1> DEFINE Kept == /\ step' = "idle" /\ result' = "ok" => out' = "whole"
                   /\ step' = "idle" /\ result' # "ok" => out' \notin {"partial", "whole"}
                   /\ step # "idle" /\ out = "before" => out' = "before"
<1>1. Types /\ IInv /\ Types' /\ IInv' /\ [Next]_vars => [Kept]_vars
  <2> SUFFICES ASSUME OutInv, OutInv', [Next]_vars, ~(UNCHANGED vars) PROVE Kept
    BY DEF IInv
  <2>1. /\ step' = "idle" /\ result' = "ok" => out' = "whole"
        /\ step' = "idle" /\ result' # "ok" => out' \notin {"partial", "whole"}
    BY DEF OutInv
  <2>2. ASSUME step # "idle", out = "before" PROVE out' = "before"
    <3>1. CASE Use
      BY <2>2, <3>1 DEF Use, OutInv
    <3>2. CASE UseFails
      BY <2>2, <3>2 DEF UseFails, OutInv
    <3>3. CASE Append
      BY <2>2, <3>3 DEF Append, OutInv
    <3>4. CASE CleanUp
      BY <2>2, <3>4 DEF CleanUp, OutInv, Writing
    <3>5. CASE Kill
      BY <2>2, <3>5 DEF Kill
    <3>6. CASE Appear
      BY <2>2, <3>6 DEF Appear
    <3>7. CASE out' = out
      BY <2>2, <3>7
    <3>8. Use \/ UseFails \/ Append \/ CleanUp \/ Kill \/ Appear \/ out' = out
      BY <2>2 DEF Next, vars, output, Process, Quiet, OnlyDm, OpenForWriting, CloseWriter, Alter, Rename, Begin,
             ReadSignature, CheckAccess, VerifySignature, LoadManifest, CheckPayload, Recheck,
             Attach, SetupVerity, SetupCrypt, PreCheck, Mount, DeferCrypt, DeferVerity,
             LoadInternalManifest, ReadMounted, Umount, UserUmount, Free, Stop
    <3> QED
      BY <3>1, <3>2, <3>3, <3>4, <3>5, <3>6, <3>7, <3>8
  <2> QED
    BY <2>1, <2>2
<1>2. Spec => [][Kept]_vars
  BY <1>1, BundleInvariant, PTL DEF Spec
<1> QED
  BY <1>2 DEF OutputsWhole
=============================================================================
