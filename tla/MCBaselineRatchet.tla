--------------------------- MODULE MCBaselineRatchet ---------------------------
(* A narrow tree and a wide one, a baseline of an older version, a signer,  *)
(* a checker with the public key, one with the shared secret, and one with  *)
(* no key.                                                                  *)
EXTENDS BaselineRatchet
Patterns == {{"all"}, {"part"}}
Narrower == {<<"all", "all">>, <<"part", "part">>, <<"part", "all">>}
Of(items, owned, deps, lines) ==
  [items |-> items, owned |-> owned, entry |-> "entry", deps |-> deps, counts |-> [m \in Metric |-> lines]]
Trees == {Of({}, {"part"}, {}, 1), Of({"x"}, {"all"}, {"d"}, 2)}
Drafts ==
  {[items |-> Unrecorded, owned |-> Unrecorded, entry |-> Unrecorded, deps |-> Unrecorded,
    counts |-> [m \in Metric |-> 1]]}
Keys(private, public, secret) == [privateKey |-> private, publicKey |-> public, secret |-> secret]
Environments == {Keys(TRUE, TRUE, FALSE), Keys(FALSE, TRUE, FALSE), Keys(FALSE, FALSE, TRUE), Keys(FALSE, FALSE, FALSE)}
=============================================================================
