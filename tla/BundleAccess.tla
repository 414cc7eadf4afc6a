---------------------------- MODULE BundleAccess ----------------------------
(***************************************************************************)
(* What RAUC does with a bundle (rauc/src/bundle.c, dm.c, mount.c and the  *)
(* commands of main.c and install.c that use them): opening it, verifying  *)
(* it, mounting it through loop or nbd, dm-verity and dm-crypt, taking its *)
(* content, writing another bundle, and letting go of everything.          *)
(* Meanwhile another user may write to the file, where its owner, mode and *)
(* file system let him, or put another file in its place, where its        *)
(* directory lets him; any call may fail, and the process may be killed.   *)
(*                                                                         *)
(* A bundle is what the code can tell about it; cryptography, squashfs and *)
(* the text of a manifest are single answers.  The streaming server is in  *)
(* NbdServer: here it is up or down and its socket has an owner.           *)
(***************************************************************************)
EXTENDS Naturals, FiniteSets

CONSTANTS
    Files,      \* the bundles that may be given, see FileType
    Configs,    \* system.conf and command line, see ConfigType
    MaxSig,     \* 64 KiB
    Trailer,    \* 8, the size of the signature's size
    Block       \* 4096

Formats == {"plain", "verity", "crypt"}
FileType ==
    [remote : BOOLEAN, total : Nat, sig : Nat,  \* sizes of the file and of its signature
     detached : BOOLEAN,                        \* no manifest in the signature
     format : Formats,                          \* according to the manifest
     enveloped : BOOLEAN, signed : BOOLEAN,
     intact : BOOLEAN,                          \* the payload is the one that was signed
     foreign : BOOLEAN, loose : BOOLEAN,        \* owned, or writable, by another user
     unsafe : BOOLEAN, fixed : BOOLEAN,         \* on FUSE or NFS, on a read-only mount
     movable : BOOLEAN]                         \* another user may rename in its directory
ConfigType ==
    [keyring : BOOLEAN, key : BOOLEAN, formats : SUBSET Formats,
     preCheck : BOOLEAN, root : BOOLEAN]

ASSUME FilesAssumption == Files \subseteq FileType
ASSUME ConfigsAssumption == Configs \subseteq ConfigType
ASSUME SizesAssumption == MaxSig \in Nat /\ Trailer \in Nat /\ Block \in Nat \ {0}

Commands == {"install", "mount", "info", "extract", "resign", "replace", "convert", "encrypt"}
\* The commands with an option for no verification, and for trusting the environment.
MayNotVerify == {"info", "resign", "replace", "convert"}
MayTrust == {"extract", "replace", "convert"}
\* Those that write another bundle.
Writers == {"resign", "replace", "convert", "encrypt"}

VARIABLES
    conf, file,
    writer,     \* another user holds the file open for writing
    moved,      \* since it was opened its name has come to lead to another file
    cmd,        \* the command that runs, or ran last
    verify,     \* it verifies the bundle
    trust,      \* it trusts the environment
    step,       \* how far it is
    flags,      \* signature_verified, payload_verified, exclusive_verified, was_encrypted
    loopfd,     \* the process holds the loop device
    verity, crypt,  \* the dm devices: "none", "live", "deferred" (goes with its last user)
    mounted,    \* the device mounted, or "none"
    nbd,        \* the nbd device is connected
    sock,       \* who holds the server's socket: "none", "srv", "dev"
    server,     \* the streaming server runs
    served,     \* what the content it took was worth: "none", "signed", "other", or "moved"
                \* if it is that of another file
    out,        \* the other bundle, see OutStates
    result,     \* what the command has to say about it: "none" as yet, "ok", "failed"
    excused     \* a removal was refused, or the process killed before it had marked a device

config == <<conf, cmd, verify, trust, moved>>
output == <<out, result>>
dm == <<verity, crypt, mounted>>
devices == <<loopfd, verity, crypt, mounted, nbd, sock, server>>
vars == <<conf, file, writer, moved, cmd, verify, trust, step, flags, loopfd, verity, crypt,
          mounted, nbd, sock, server, served, out, result, excused>>

Flags == {"signature", "payload", "exclusive", "decrypted"}
DmStates == {"none", "live", "deferred"}
Steps == {"idle", "read", "access", "verify", "manifest", "checked", "verity", "crypt",
          "precheck", "mount", "deferCrypt", "deferVerity", "internal", "use", "append",
          "recheck", "clean", "umount", "left", "free", "stop"}

\* Somebody's file of that name was there "before" the command looked, or came "late"; its own
\* is "partial" or "whole", or was left behind: "cut" by a kill, "stuck" where the system
\* refused to remove it.
OutStates == {"none", "before", "late", "partial", "whole", "cut", "stuck"}

TypeOK ==
    /\ conf \in ConfigType /\ file \in FileType /\ writer \in BOOLEAN /\ moved \in BOOLEAN
    /\ cmd \in Commands /\ verify \in BOOLEAN /\ trust \in BOOLEAN
    /\ step \in Steps /\ flags \subseteq Flags
    /\ loopfd \in BOOLEAN /\ {verity, crypt} \subseteq DmStates
    /\ mounted \in {"none", "loop", "nbd", "verity", "crypt"}
    /\ nbd \in BOOLEAN /\ sock \in {"none", "srv", "dev"} /\ server \in BOOLEAN
    /\ mounted \in {"verity", "crypt"} => verity # "none"
    /\ crypt # "none" => verity # "none"
    /\ sock = "dev" => nbd
    /\ nbd \/ sock = "srv" => server
    /\ served \in {"none", "signed", "other", "moved"}
    /\ out \in OutStates /\ result \in {"none", "ok", "failed"} /\ excused \in BOOLEAN

NoDevices ==
    /\ loopfd = FALSE /\ verity = "none" /\ crypt = "none" /\ mounted = "none"
    /\ nbd = FALSE /\ sock = "none" /\ server = FALSE

Init ==
    /\ conf \in Configs /\ file \in Files /\ writer \in BOOLEAN /\ moved = FALSE
    /\ cmd = "info" /\ verify = TRUE /\ trust = FALSE /\ step = "idle" /\ flags = {}
    /\ NoDevices /\ served = "none" /\ out = "none" /\ result = "none" /\ excused = FALSE

----------------------------------------------------------------------------
(* The other user.                                                          *)

MayOpen == ~file.remote /\ (file.foreign \/ file.loose) /\ ~file.fixed

OpenForWriting ==
    /\ MayOpen /\ ~writer /\ writer' = TRUE
    /\ UNCHANGED <<config, file, step, flags, devices, served, output, excused>>

CloseWriter ==
    /\ writer /\ writer' = FALSE
    /\ UNCHANGED <<config, file, step, flags, devices, served, output, excused>>

\* He writes; and what FUSE, NFS and a remote server give may change by itself.
Alter ==
    /\ writer \/ file.unsafe \/ file.remote
    /\ file' = [file EXCEPT !.intact = ~@]
    /\ UNCHANGED <<config, writer, step, flags, devices, served, output, excused>>

\* Another file takes its name.  Before it is opened, that only means another bundle.
Rename ==
    /\ file.movable /\ ~file.remote /\ ~file.fixed
    /\ step \notin {"idle", "read", "left"}
    /\ moved' = TRUE
    /\ UNCHANGED <<conf, cmd, verify, trust, file, writer, step, flags, devices, served, output, excused>>

\* A file appears under the name that the command has just found to be free.
Appear ==
    /\ step = "use" /\ cmd \in Writers /\ out = "none"
    /\ out' = "late"
    /\ UNCHANGED <<config, file, writer, step, flags, devices, served, result, excused>>

----------------------------------------------------------------------------
(* Checking a bundle.                                                       *)

\* The bundle is freed, after an error as well as after success.
Fail == step' = "free"
\* Only the process's own state changes, or only devices do.
Quiet == UNCHANGED <<config, file, writer, served, output, excused>>
OnlyDm == UNCHANGED <<config, file, writer, served, output, flags, loopfd, nbd, sock, server>>

Begin(c, v, t) ==
    /\ step = "idle"
    /\ ~v => c \in MayNotVerify
    /\ t => c \in MayTrust
    /\ cmd' = c /\ verify' = v /\ trust' = t /\ moved' = FALSE /\ served' = "none"
    /\ out' \in (IF c \in Writers THEN {"none", "before"} ELSE {"none"}) /\ result' = "none"
    /\ IF v /\ ~conf.keyring
         THEN Fail /\ UNCHANGED <<sock, server>>
         ELSE IF ~file.remote
           THEN step' = "read" /\ UNCHANGED <<sock, server>>
           ELSE \* r_nbd_start_server: the process is there even if it refuses its URL
                \/ step' \in {"read", "free"} /\ sock' = "srv" /\ server' = TRUE
                \/ Fail /\ UNCHANGED <<sock, server>>
    /\ UNCHANGED <<conf, file, writer, flags, loopfd, dm, nbd, excused>>

\* The sizes at the end of the file, in unsigned arithmetic.
SizesHold(f) ==
    /\ f.total >= Trailer
    /\ f.sig > 0 /\ f.sig <= f.total - Trailer /\ f.sig <= MaxSig
    /\ f.remote => (f.total - Trailer - f.sig) % Block = 0

\* open_local_bundle, open_remote_bundle, and the look at the CMS data.
ReadSignature ==
    /\ step = "read" /\ Quiet /\ UNCHANGED devices
    /\ \/ Fail /\ UNCHANGED flags
       \/ /\ SizesHold(file)
          /\ ~(file.detached /\ file.remote)
          /\ file.enveloped => conf.key
          /\ flags' = IF file.enveloped THEN flags \cup {"decrypted"} ELSE flags
          /\ step' = IF verify THEN "access" ELSE "manifest"

\* check_bundle_access; AccessByModeOnly does not ask for a lease.
AccessByModeOnly(f) == ~f.foreign /\ ~f.loose /\ ~f.unsafe
Access(f) == ~f.foreign /\ ~f.loose /\ ~f.unsafe /\ ~writer

\* take_bundle_ownership: fchown, then fchmod, each of which may be refused.
Owned(f) == IF conf.root /\ ~f.fixed THEN {f, [f EXCEPT !.foreign = FALSE]} ELSE {f}
Tightened(f) == IF ~f.foreign /\ ~f.fixed THEN {f, [f EXCEPT !.loose = FALSE]} ELSE {f}
Taken(f) == UNION {Tightened(g) : g \in Owned(f)}

\* enforce_bundle_exclusive for a detached signature; else check_bundle_access, whose
\* failure is only kept for later.
CheckAccess ==
    /\ step = "access"
    /\ UNCHANGED <<config, writer, devices, served, output, excused>>
    /\ IF trust \/ file.remote \/ Access(file)
         THEN /\ flags' = IF file.remote THEN flags ELSE flags \cup {"exclusive"}
              /\ step' = "verify" /\ UNCHANGED file
       ELSE IF ~file.detached
         THEN step' = "verify" /\ UNCHANGED <<file, flags>>
       ELSE /\ file' \in Taken(file)
            /\ IF Access(file')
                 THEN step' = "verify" /\ flags' = flags \cup {"exclusive"}
                 ELSE Fail /\ UNCHANGED flags

\* cms_verify_fd over the payload, or cms_verify_sig over the manifest, and the chain.
VerifySignature ==
    /\ step = "verify" /\ Quiet /\ UNCHANGED devices
    /\ IF file.signed /\ (file.detached => file.intact)
         THEN /\ flags' = flags \cup {"signature"} \cup (IF file.detached THEN {"payload"} ELSE {})
              /\ step' = "manifest"
         ELSE Fail /\ UNCHANGED flags

\* The manifest of the signature, and check_allowed_bundle_format, for which a bundle
\* without one is a plain bundle.
LoadManifest ==
    /\ step = "manifest" /\ Quiet /\ UNCHANGED <<devices, flags>>
    /\ IF /\ ~file.detached => file.format # "plain"
          /\ (IF file.detached THEN "plain" ELSE file.format) \in conf.formats
         THEN step' = "checked"
         ELSE Fail

----------------------------------------------------------------------------
(* The commands that do not mount it.                                       *)

\* check_bundle_payload, and load_manifest_from_bundle, which starts with it.
PayloadVerified ==
    \/ ~verify \/ "payload" \in flags
    \/ ~file.remote /\ "exclusive" \in flags /\ file.intact

\* The commands that only look at the manifest get by without the payload if the
\* signature holds it; encrypting is for crypt bundles.
NeedsPayload == cmd \in {"extract", "resign", "convert"} \/ (cmd \in {"info", "replace"} /\ file.detached)

\* A command that writes another bundle first looks whether there is a file of that name.
\* From then on, whatever fails, it cleans up.
CheckPayload ==
    /\ step = "checked" /\ cmd \in Commands \ {"install", "mount"}
    /\ Quiet /\ UNCHANGED devices
    /\ \/ Fail /\ UNCHANGED flags
       \/ cmd \in Writers /\ out = "none" /\ step' = "clean" /\ UNCHANGED flags
       \/ /\ cmd = "encrypt" => ~file.detached /\ file.format = "crypt"
          /\ cmd \in Writers => out = "none"
          /\ NeedsPayload => PayloadVerified
          /\ flags' = IF NeedsPayload THEN flags \cup {"payload"} ELSE flags
          /\ step' = "use"

Worth == IF file.intact THEN "signed" ELSE "other"

\* The commands that open the bundle once more, by its name: to copy it, or to decrypt it.
ReadsByName ==
    \/ cmd \in {"resign", "replace", "encrypt"}
    \/ cmd \in {"extract", "convert"} /\ ~file.detached /\ file.format = "crypt"

\* A bundle that is copied without a look at its payload is taken for nothing else.
Content ==
    IF ReadsByName /\ moved THEN "moved" ELSE IF NeedsPayload THEN Worth ELSE "none"

\* extract_bundle, truncate_bundle and convert_to_casync_bundle: what a command takes from the
\* bundle, if it gets that far.  The other bundle must not exist.
Use ==
    /\ step = "use"
    /\ cmd # "info" => ~file.remote
    /\ cmd \in Writers => out = "none"
    /\ served' = Content
    /\ out' = IF cmd \in Writers THEN "partial" ELSE out
    /\ step' = IF cmd \in Writers THEN "append" ELSE "free"
    /\ UNCHANGED <<config, file, writer, devices, flags, result, excused>>

\* It fails, before there is another bundle or in the middle of it.
UseFails ==
    /\ step = "use"
    /\ step' = IF cmd \in Writers THEN "clean" ELSE "free"
    /\ out' \in {out} \cup (IF cmd \in Writers /\ out = "none" THEN {"partial"} ELSE {})
    /\ UNCHANGED <<config, file, writer, devices, flags, served, result, excused>>

\* sign_bundle, append_signature_to_bundle: the hash tree, the signature, its size.
Append ==
    /\ step = "append"
    /\ \/ step' = "clean" /\ UNCHANGED output
       \/ /\ out' = "whole"
          /\ IF cmd = "replace" THEN step' = "recheck" /\ UNCHANGED result
             ELSE step' = "free" /\ result' = "ok"
    /\ UNCHANGED <<config, file, writer, devices, flags, served, excused>>

\* replace_signature opens the result as a bundle.  RecheckLeaves goes without the clean-up.
RecheckLeaves ==
    /\ step = "recheck"
    /\ step' = "free" /\ result' \in {"ok", "failed"}
    /\ UNCHANGED <<config, file, writer, devices, flags, served, out, excused>>
Recheck ==
    /\ step = "recheck"
    /\ \/ step' = "clean" /\ UNCHANGED result
       \/ step' = "free" /\ result' = "ok"
    /\ UNCHANGED <<config, file, writer, devices, flags, served, out, excused>>

\* The end of the functions that write a bundle: what is there is removed, and that it cannot
\* be is only logged.
CleanUp ==
    /\ step = "clean" /\ step' = "free" /\ result' = "failed"
    /\ out' \in {"none", IF out \in {"partial", "whole"} THEN "stuck" ELSE out}
    /\ UNCHANGED <<config, file, writer, devices, flags, served, excused>>

----------------------------------------------------------------------------
(* Mounting it.                                                             *)

\* do_install_bundle refuses a crypt bundle that was not encrypted.  Then the loop device,
\* or the nbd device, which takes the socket and gives it back when it fails.
Attach ==
    /\ step = "checked" /\ cmd \in {"install", "mount"}
    /\ Quiet /\ UNCHANGED <<flags, dm, server>>
    /\ \/ Fail /\ UNCHANGED <<loopfd, nbd, sock>>
       \/ /\ cmd = "install" /\ ~file.detached /\ file.format = "crypt" => "decrypted" \in flags
          /\ IF file.remote
               THEN nbd' = TRUE /\ sock' = "dev" /\ UNCHANGED loopfd
               ELSE loopfd' = TRUE /\ UNCHANGED <<nbd, sock>>
          /\ step' = IF file.detached THEN "mount" ELSE "verity"

\* The dm devices as they are left when m is mounted: one that is marked goes when its
\* last user has gone.
Reap(m, c, v) ==
    LET c2 == IF c = "deferred" /\ m # "crypt" THEN "none" ELSE c
        v2 == IF v = "deferred" /\ m # "verity" /\ c2 = "none" THEN "none" ELSE v IN
    mounted' = m /\ crypt' = c2 /\ verity' = v2

\* A call that changes the devices, or is refused because somebody looks at them.
Try(m, c, v) ==
    \/ Reap(m, c, v) /\ UNCHANGED excused
    \/ UNCHANGED dm /\ excused' = TRUE

\* r_dm_setup, to a device of a fixed name, so that one that was left is in the way.  If
\* the first block cannot be read, or anything else fails, the device is removed again.
SetupVerity ==
    /\ step = "verity" /\ OnlyDm
    /\ \/ Fail /\ UNCHANGED <<dm, excused>>
       \/ /\ verity = "none" /\ verity' = "live" /\ UNCHANGED <<mounted, crypt>>
          /\ \/ Fail /\ excused' = TRUE
             \/ /\ step' = IF file.format = "crypt" THEN "crypt" ELSE "precheck"
                /\ UNCHANGED excused

\* The way back: at once from a failed setup, and from a failed pre-check of verity;
\* VerityForgotten does nothing.
VerityForgotten == UNCHANGED <<dm, excused>>
RemoveVerity == Try(mounted, crypt, "none")

SetupCrypt ==
    /\ step = "crypt" /\ OnlyDm
    /\ \/ Fail /\ RemoveVerity
       \/ /\ crypt = "none" /\ crypt' = "live" /\ UNCHANGED <<mounted, verity>>
          /\ \/ Fail /\ excused' = TRUE
             \/ step' = "precheck" /\ UNCHANGED excused

\* read_complete_dm_device, if perform-pre-check is set
PreCheck ==
    /\ step = "precheck" /\ OnlyDm
    /\ \/ /\ conf.preCheck /\ Fail
          /\ IF file.format = "crypt" THEN Try(mounted, "deferred", "deferred") ELSE RemoveVerity
       \/ /\ conf.preCheck => file.intact
          /\ step' = "mount" /\ UNCHANGED <<dm, excused>>

\* A plain bundle is mounted from its device, whatever else is there.
Top == IF ~file.detached THEN IF file.format = "crypt" THEN "crypt" ELSE "verity"
       ELSE IF file.remote THEN "nbd" ELSE "loop"

\* r_mount_bundle
Mount ==
    /\ step = "mount" /\ OnlyDm
    /\ mounted' \in {"none", Top} /\ UNCHANGED <<crypt, verity, excused>>
    /\ step' = IF ~file.detached THEN "deferCrypt"
               ELSE IF mounted' = "none" THEN "free" ELSE "internal"

\* Mounted or not, the devices are marked, and the process lets go of the loop device.
Marked(d) == IF d = "live" THEN "deferred" ELSE d
DeferCrypt ==
    /\ step = "deferCrypt" /\ OnlyDm
    /\ IF crypt = "none" THEN UNCHANGED <<dm, excused>> ELSE Try(mounted, Marked(crypt), verity)
    /\ step' = "deferVerity"

Mounted(ok) == step' = IF ~ok THEN "free" ELSE IF cmd = "mount" THEN "left" ELSE "umount"
DeferVerity ==
    /\ step = "deferVerity" /\ UNCHANGED <<config, file, writer, flags, served, output, nbd, sock, server>>
    /\ Try(mounted, crypt, Marked(verity)) /\ loopfd' = FALSE
    /\ Mounted(mounted # "none")

\* The manifest inside a plain bundle, which must be that of a plain bundle.
LoadInternalManifest ==
    /\ step = "internal" /\ UNCHANGED <<config, file, writer, flags, served, output, nbd, sock, server>>
    /\ loopfd' = FALSE
    /\ \/ Mounted(FALSE) /\ Try("none", crypt, verity)
       \/ file.format = "plain" /\ Mounted(TRUE) /\ UNCHANGED <<dm, excused>>

\* Whoever uses the mounted bundle: the installation, or a user after "rauc mount".
\* dm-verity gives no block that was not signed.
ReadMounted ==
    /\ step \in {"umount", "left"} /\ mounted # "none"
    /\ mounted \in {"verity", "crypt"} => file.intact
    /\ served' = Worth
    /\ UNCHANGED <<config, file, writer, step, flags, devices, output, excused>>

----------------------------------------------------------------------------
(* Letting go.                                                              *)

\* umount_bundle
Umount ==
    /\ step = "umount" /\ OnlyDm /\ Fail
    /\ Try("none", crypt, verity)

\* umount by the user, to whom "rauc mount" has left everything: an nbd device goes with
\* its last user, and the server with it.
UserUmount ==
    /\ step = "left" /\ step' = "idle" /\ flags' = {}
    /\ Reap("none", crypt, verity)
    /\ nbd' = FALSE /\ sock' = "none" /\ server' = FALSE
    /\ UNCHANGED <<config, file, writer, loopfd, served, output, excused>>

\* umount_bundle and free_bundle: first the device; DeviceForgotten is a removal that
\* takes the index for invalid.
DeviceForgotten == UNCHANGED <<nbd, sock>>
RemoveDevice == nbd' = FALSE /\ sock' = IF sock = "dev" THEN "none" ELSE sock
Free ==
    /\ step = "free" /\ step' = "stop"
    /\ RemoveDevice /\ loopfd' = FALSE
    /\ UNCHANGED <<config, file, writer, flags, dm, server, served, output, excused>>

\* Then the server, which r_nbd_stop_server waits for: it ends when nobody is left at
\* the other end of its socket.
Stop ==
    /\ step = "stop" /\ step' = "idle" /\ flags' = {}
    /\ server => ~nbd /\ sock # "dev"
    /\ sock' = "none" /\ server' = FALSE
    /\ UNCHANGED <<config, file, writer, loopfd, dm, nbd, served, output, excused>>

\* The process is killed.  Its descriptors go, and the service's mounts with its mount
\* namespace; those of "rauc mount" stay for the user.  What nobody removes is a device
\* that is not marked, or not used yet.
Kill ==
    /\ step \notin {"idle", "left"}
    /\ flags' = {} /\ loopfd' = FALSE /\ sock' = "none"
    /\ out' = IF out \in {"partial", "whole"} /\ result = "none" THEN "cut" ELSE out
    /\ LET used == mounted # "none" \/ verity # "none"
           stays == nbd /\ (~used \/ cmd = "mount") IN
         /\ IF cmd = "mount" /\ mounted # "none"
              THEN step' = "left" /\ UNCHANGED dm
              ELSE step' = "idle" /\ Reap("none", crypt, verity)
         /\ nbd' = stays /\ server' = stays
         /\ excused' = (excused \/ "live" \in {crypt, verity} \/ (stays /\ mounted = "none"))
    /\ UNCHANGED <<config, file, writer, served, result>>

----------------------------------------------------------------------------
Process ==
    \/ ReadSignature \/ CheckAccess \/ VerifySignature \/ LoadManifest
    \/ CheckPayload \/ Use \/ UseFails \/ Append \/ Recheck \/ CleanUp
    \/ Attach \/ SetupVerity \/ SetupCrypt \/ PreCheck \/ Mount
    \/ DeferCrypt \/ DeferVerity \/ LoadInternalManifest
    \/ Umount \/ Free \/ Stop

Next ==
    \/ OpenForWriting \/ CloseWriter \/ Alter \/ Rename \/ Appear
    \/ \E c \in Commands, v, t \in BOOLEAN : Begin(c, v, t)
    \/ Process \/ ReadMounted \/ UserUmount \/ Kill

\* A command that runs goes on.
Spec == Init /\ [][Next]_vars /\ WF_vars(Process)

----------------------------------------------------------------------------
(* What the commands promise.                                               *)

\* check_bundle, check_bundle_payload, mount_bundle: when a command verifies a bundle and
\* does not trust its environment, what it takes from it, now or through the mount later, is
\* what was signed, whatever another user does to the file meanwhile.  Only the commands that
\* open the bundle a second time by its name (bundle.c:990 and 1301) may get another file, if
\* one has taken that name in between: nothing is looked at again.
ServedIsSigned ==
    served \in {"other", "moved"} => ~verify \/ trust \/ (served = "moved" /\ ReadsByName /\ moved)

\* mount_bundle, umount_bundle, free_bundle: whichever call fails, and wherever the process
\* ends, no loop, dm or nbd device, no mount, socket or server is left once the command is
\* over, unless the system refused a removal or the process was killed before the mark.
Released == step = "idle" /\ ~excused => NoDevices

\* resign_bundle, replace_signature, create_casync_bundle, encrypt_bundle: a command that says
\* it wrote a bundle has written all of it; one that failed has left nothing, neither a part
\* of a bundle nor one that it found to be wrong, unless the system refused to remove the file
\* (which is only logged) or the process was killed; and a file that was there first stays.
OutputsWhole ==
    [][/\ step' = "idle" /\ result' = "ok" => out' = "whole"
       /\ step' = "idle" /\ result' # "ok" => out' \notin {"partial", "whole"}
       /\ step # "idle" /\ out = "before" => out' = "before"]_vars

\* r_nbd_stop_server: whatever fails, a command comes to its end, since the server it waits
\* for has lost its last client by then.
CommandEnds == step = "read" ~> step \in {"idle", "left"}
=============================================================================
