----------------------------- MODULE MCBootArea -----------------------------
(* Two images, so that a half can be a mix of the old one and the new one.  *)
EXTENDS BootArea

CONSTANTS v1, v2

TwoImages == {v1, v2}

AllKinds == {"boot-mbr-switch", "boot-gpt-switch", "boot-emmc", "boot-raw-fallback"}
OwnSync == {"boot-gpt-switch", "boot-emmc"}
EmmcOnly == {"boot-emmc"}
=============================================================================
