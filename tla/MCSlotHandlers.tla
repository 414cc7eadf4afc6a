--------------------------- MODULE MCSlotHandlers ---------------------------
EXTENDS SlotHandlers

CONSTANTS slot, booted, d1, d2, d3, d4, d5

Base == [kind |-> "img", digest |-> d1, chunks |-> <<1, 1>>, hooks |-> {}, adaptive |-> TRUE,
         resize |-> TRUE, installSame |-> FALSE]

MCBlank == slot :> <<0, 0>> @@ booted :> <<0>>

First == [Base EXCEPT !.hooks = {"pre", "post"}]
MCMixed == {First}

\* An image with both hooks, a shorter one, an archive with seeds, a chunk index, one that the
\* bundle's hook installs.
MCImages == {
    First,
    [Base EXCEPT !.digest = d2, !.chunks = <<1>>, !.installSame = TRUE],
    [Base EXCEPT !.digest = d3, !.kind = "caidx", !.hooks = {"post"}],
    [Base EXCEPT !.digest = d4, !.kind = "ext4.caibx"],
    [Base EXCEPT !.digest = d5, !.kind = "hook", !.installSame = TRUE]}
=============================================================================
