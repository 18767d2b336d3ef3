--------------------------- MODULE MCRegtestDriver ---------------------------
(* Instances of RegtestDriver: a profile with a short delay and window, and     *)
(* every mint that the driver could make with MCMaxBlocks blocks.               *)
EXTENDS RegtestDriver

MCProfiles ==
  [p \in {"demo"} |->
     [network |-> "regtest", challenge_delay |-> 2, mint_window |-> 2,
      maximum_target |-> 2, minimum_burial_blocks |-> 1,
      minimum_burial_chainwork |-> 1]]

\* The hash of work for a challenge is read as a number that the nonce and the
\* challenge block decide.
MCHashInt(h) == (h[5] + h[2][6]) % 4

MCMints ==
  {MintTxid(p[1], p[2]) :
     p \in {q \in (1..MaxBlocks) \X (1..MaxBlocks) : Solutions(q[1], q[2]) # {}}}

MCTx ==
  [t \in {ClaimTxid} \cup MCMints |->
     IF t = ClaimTxid THEN ClaimTx ELSE MintTx(t[2], t[3])]

MCCoin == <<<<"coinbase">>, 1>>
MCFunding == {MCCoin}
MCHistory == << {} >>
=============================================================================
