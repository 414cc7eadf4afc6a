---------------------------- MODULE MCInstallPlan ---------------------------
(* Four systems, a few that do not start, and bundles for them.             *)
EXTENDS InstallPlan

Slot(class, device, type, bootname, above) ==
    [class |-> class, device |-> device, type |-> type, bootname |-> bootname, parent |-> above,
     readonly |-> FALSE, allowMounted |-> FALSE, region |-> type \in RegionTypes]
Rootfs0 == Slot("rootfs", "sda2", "ext4", "A", None)
Rootfs1 == Slot("rootfs", "by-label", "ext4", "B", None)
Pair2 == ("rootfs.0" :> Rootfs0) @@ ("rootfs.1" :> Rootfs1)
Apps == ("appfs.0" :> Slot("appfs", "sda4", "raw", None, "rootfs.0"))
        @@ ("appfs.1" :> Slot("appfs", "sda5", "raw", None, "rootfs.1"))
Deep == ("libs.1" :> Slot("libs", "sda6", "raw", None, "appfs.1"))
        @@ ("libs.0" :> Slot("libs", "sda7", "raw", None, "appfs.0"))
Loader == "loader.0" :> Slot("loader", "sda", "boot-mbr-switch", None, None)

Token(sign, format) == [sign |-> sign, format |-> format]
V(core, pre) == [core |-> core, pre |-> pre]
N(n) == [number |-> TRUE, rank |-> n]
W(n) == [number |-> FALSE, rank |-> n]
\* alpha 1, beta 2, rc 3: the example of semver.org, from 1.0.0-alpha to 1.0.0, and 1.0.1.
MCPrecedence ==
    << V(<<1>>, <<W(1)>>), V(<<1>>, <<W(1), N(1)>>), V(<<1>>, <<W(1), W(2)>>), V(<<1>>, <<W(2)>>),
       V(<<1>>, <<W(2), N(2)>>), V(<<1>>, <<W(2), N(11)>>), V(<<1>>, <<W(3), N(1)>>), V(<<1>>, None),
       V(<<1, 0, 1>>, None) >>
\* Older has them in this order.
ASSUME ExamplesInOrder ==
    \A m, n \in 1 .. Len(MCPrecedence) : Older(MCPrecedence[m], MCPrecedence[n]) <=> m < n

Base ==
    [slots |-> Pair2 @@ Apps, repos |-> "apps" :> [type |-> "trees", parentClass |-> FALSE],
     bootloader |-> "grub", customBackend |-> FALSE, attempts |-> 0, attemptsPrimary |-> 0,
     minVersion |-> None, maxDownload |-> 8, variantKeys |-> {"name"}, variant |-> "east",
     dataDirectory |-> TRUE, statusfile |-> None, formats |-> <<>>, loggers |-> {},
     compatible |-> "nuc"]
WithLibs == [Base EXCEPT !.slots = Pair2 @@ Apps @@ Deep, !.variant = None, !.variantKeys = {},
                         !.formats = <<Token("-", "plain"), Token("+", "crypt")>>]
WithLoader == [Base EXCEPT !.slots = [(Pair2 @@ Loader) EXCEPT !["rootfs.1"].device = "sda3",
                                       !["rootfs.1"].allowMounted = TRUE],
                           !.minVersion = V(<<1>>, <<W(2), N(2)>>), !.bootloader = "barebox", !.attempts = 3]
TwoLoaded == [Base EXCEPT !.slots = ("rootfs.1" :> [Rootfs1 EXCEPT !.device = "sda3"]) @@ Pair2
                                          @@ ("spare.0" :> Slot("spare", "sda3", "ext4", "C", None))
                                          @@ ("fixed.0" :> [Slot("fixed", "sda7", "raw", None, None)
                                                              EXCEPT !.readonly = TRUE])]
Looping == [Base EXCEPT !.slots["appfs.0"].parent = "appfs.1", !.slots["appfs.1"].parent = "appfs.0"]
Ambiguous == [Base EXCEPT !.repos = "rootfs" :> [type |-> "files", parentClass |-> FALSE]]
Refused == {[Base EXCEPT !.formats = <<Token("", "verity"), Token("-", "plain")>>],
            [Base EXCEPT !.attempts = 1],
            [Base EXCEPT !.minVersion = V(<<0>>, <<W(3)>>)],
            [Base EXCEPT !.loggers = {[relative |-> TRUE, events |-> {"all", "boot"}, maxFiles |-> 10]}]}
MCConfs == {Base, WithLibs, WithLoader, TwoLoaded, Looping, Ambiguous} \cup Refused

Par(key, value) == [key |-> key, value |-> value]
MCCmdLines == {<<Par("root", "sda2")>>, <<Par("rauc.slot", "B"), Par("root", "sda2")>>,
               <<Par("nfsroot", "server"), Par("root", "/dev/nfs")>>, <<Par("root", "/dev/nfs")>>,
               <<Par("bootstate.active", "A"), Par("systemd.verity_root_data", "sda4")>>,
               <<Par("rauc.external", "")>>}
MCRealPath == "by-label" :> "sda3"

File(name, extension) == [name |-> name, ext |-> extension, form |-> "given"]
Root == File("root", "ext4")
East == File("east", "ext4")
App == File("app", "tar")
Raw == File("raw", "squashfs")
Boot == File("boot", "img.caibx")
Hook == File("hook", "sh")
Image(class, file) ==
    [class |-> class, variant |-> None, artifact |-> None, file |-> file, slash |-> FALSE,
     hooks |-> {}, adaptive |-> {}, convert |-> None, converted |-> None,
     digest |-> FALSE, sized |-> FALSE]
Artifact(name, file, convert) ==
    [Image("apps", file) EXCEPT !.artifact = name, !.convert = convert]
Manifest(format, images) ==
    [format |-> format, compatible |-> "nuc", version |-> MCPrecedence[6], handler |-> None,
     handlerArgs |-> FALSE, hookFile |-> None, installCheck |-> FALSE, cryptKey |-> FALSE,
     verity |-> FALSE, images |-> images]
\* "latest" leads to the application by another link.
Alias == File("alias", "tar")
Latest == File("latest", "tar")
Dangling == File("dangling", "tar")
Dir(files) == {[file |-> f, kind |-> "regular", target |-> None] : f \in files}
Link(f, target) == [file |-> f, kind |-> "locallink", target |-> target]
Content == Dir({Root, East, App, Raw, Boot, Hook}) \cup {Link(Alias, App), Link(Latest, Alias)}
Verity == Manifest("verity", <<Image("rootfs", Root)>>)
\* 11 beta comes after 2 beta, whatever their letters do.
MCManifests ==
    {Verity, [Verity EXCEPT !.format = "plain", !.version = MCPrecedence[4]],
     [Verity EXCEPT !.version = MCPrecedence[8], !.compatible = "other"],
     [Verity EXCEPT !.version = V(<<1, 0, 0, 1>>, None), !.compatible = "other", !.installCheck = TRUE,
                    !.hookFile = Hook],
     Manifest("crypt", <<Image("rootfs", Root), Image("appfs", Raw), Image("libs", Raw)>>),
     Manifest("verity", <<Image("rootfs", Root), Image("spare", Root)>>),
     [Manifest("verity", <<Image("fixed", Raw)>>) EXCEPT !.version = None],
     [Verity EXCEPT !.handler = "handler"],
     Manifest("verity", <<Image("rootfs", Root), [Image("rootfs", East) EXCEPT !.variant = "east"],
                          [Image("rootfs", Root) EXCEPT !.variant = "west"]>>),
     Manifest("verity", <<Image("loader", Boot)>>),
     [Manifest("verity", <<[Image("rootfs", None) EXCEPT !.hooks = {"install"}]>>) EXCEPT !.hookFile = Hook],
     Manifest("verity", <<Image("rootfs", Root), Artifact("app", App, <<"tar-extract">>)>>),
     Manifest("verity", <<Artifact("app", App, <<"tar-extract", "keep">>),
                          [Artifact("app", Raw, None) EXCEPT !.variant = "west"]>>),
     Manifest("verity", <<Artifact("app", App, <<"tar-extract">>),
                          [Image("appfs", Raw) EXCEPT !.adaptive = {"block-hash-index"}],
                          Artifact("lib", App, None)>>),
     Manifest("verity", <<Artifact("app", App, <<>>)>>),
     Manifest("verity", <<Artifact("app", Latest, <<"tar-extract">>), Artifact("lib", App, None)>>),
     Manifest("verity", <<Artifact("app", App, <<"tar-extract">>), Artifact("lib", Latest, None)>>),
     Manifest("verity", <<Artifact("app", Latest, <<"keep", "tar-extract">>)>>),
     Manifest("verity", <<[Image("rootfs", Root) EXCEPT !.artifact = "app"], Image("rootfs", Root)>>)}
MCInputs == {[manifest |-> m, dir |-> Content] : m \in MCManifests}
            \cup {[manifest |-> Verity, dir |-> Content \cup {entry}] :
                      entry \in {Link(Dangling, File("gone", "tar")), Link(Dangling, Dangling),
                                 [file |-> Dangling, kind |-> "link", target |-> None]}}
            \cup {[manifest |-> Manifest("verity", <<Artifact("app", Dangling, None)>>),
                   dir |-> Content \cup {Link(Dangling, Dangling)}]}
\* Without a file it names.
MCForeign == {[manifest |-> WithVerity(WithChecksums(Verity)), dir |-> <<>>]}
=============================================================================
