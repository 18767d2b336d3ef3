----------------------------- MODULE MCBundles -----------------------------
(* What the instances share: profiles, a work function, and bundles and         *)
(* transactions whose digests are recomputed from their fields.                 *)
EXTENDS BundleChecks

MCProfiles ==
  [p \in {"sim", "deep", "main"} |->
     [network                  |-> IF p = "main" THEN "main" ELSE "regtest",
      challenge_delay          |-> 1,
      mint_window              |-> 2,
      maximum_target           |-> 4,
      minimum_burial_blocks    |-> IF p = "deep" THEN 3 ELSE 1,
      minimum_burial_chainwork |-> 2]]

\* Work for one challenge is not work for another.
MCHashInt(h) == (h[4] + h[5] + 3 * (h[2][4] + h[2][6])) % 7

Seal(name) == <<"seal", name>>
Legacy(name) == <<"legacy", name>>
Forged == <<"forged">>
-----------------------------------------------------------------------------
\* Every digest a bundle carries, recomputed.
Sealed(b) ==
  LET c == [b EXCEPT !.claim.commitment = ExpectedClaimCommitment(b),
                     !.work.challenge_digest = ExpectedChallenge(b),
                     !.work.work_hash = ExpectedWorkHash(b),
                     !.mint.commitment = ExpectedMintCommitment(b)]
  IN  [c EXCEPT !.transfers =
         <<>> \o [i \in DOMAIN @ |->
                    [@[i] EXCEPT !.commitment = ExpectedTransferCommitment(b, i + 3)]]]

Proof(block, txid) == [block |-> block, txids |-> {txid}]

Out(script) == [script |-> script, value |-> 1]
=============================================================================
