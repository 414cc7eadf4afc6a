--------------------------- MODULE MCBundleAccess ---------------------------
(* One bundle of every kind the code tells apart, in units of a block: the  *)
(* file has a payload of four blocks, a signature and a trailer of one.     *)
EXTENDS BundleAccess

Local ==
    [remote |-> FALSE, total |-> 10, sig |-> 1, detached |-> FALSE, format |-> "verity",
     enveloped |-> FALSE, signed |-> TRUE, intact |-> TRUE, foreign |-> FALSE,
     loose |-> FALSE, unsafe |-> FALSE, fixed |-> FALSE, movable |-> FALSE]
Plain == [Local EXCEPT !.detached = TRUE, !.format = "plain"]
Crypt == [Local EXCEPT !.format = "crypt", !.enveloped = TRUE]
Remote == [Local EXCEPT !.remote = TRUE]

MCFiles ==
    { [Local EXCEPT !.foreign = TRUE], [Local EXCEPT !.unsafe = TRUE],
      [Plain EXCEPT !.foreign = TRUE, !.loose = TRUE], [Plain EXCEPT !.fixed = TRUE, !.foreign = TRUE],
      [Plain EXCEPT !.unsafe = TRUE], [Plain EXCEPT !.signed = FALSE], [Plain EXCEPT !.format = "verity"],
      [Plain EXCEPT !.movable = TRUE], [Crypt EXCEPT !.movable = TRUE], [Crypt EXCEPT !.enveloped = FALSE, !.loose = TRUE], [Local EXCEPT !.format = "plain"],
      Remote, [Remote EXCEPT !.format = "crypt", !.enveloped = TRUE], [Remote EXCEPT !.detached = TRUE],
      [Remote EXCEPT !.total = 9], [Local EXCEPT !.sig = 0], [Local EXCEPT !.sig = 9] }

Usual == [keyring |-> TRUE, key |-> TRUE, formats |-> Formats, preCheck |-> TRUE, root |-> TRUE]
MCConfigs ==
    { Usual, [Usual EXCEPT !.preCheck = FALSE, !.root = FALSE],
      [Usual EXCEPT !.formats = {"verity"}, !.key = FALSE], [Usual EXCEPT !.keyring = FALSE] }
=============================================================================
