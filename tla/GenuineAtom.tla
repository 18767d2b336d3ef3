---------------------------- MODULE GenuineAtom ----------------------------
(* What a GoldAtom/0 atom is, said of one chain as a whole and independently   *)
(* of the order and the form of the verifier's checks.  The properties of the  *)
(* verifier and of the title ledger are stated with it.                        *)
EXTENDS BundleChecks, BitcoinNode

\* A transaction has finitely many outputs; every script is a template and its
\* payload.
ASSUME ScriptsAssumption ==
  \A t \in TxIds :
    /\ IsFiniteSet(DOMAIN Tx[t].outputs)
    /\ \A v \in DOMAIN Tx[t].outputs :
         \A script \in {Tx[t].outputs[v].script} : script = <<script[1], script[2]>>

ConfirmedAt(c, txid, block, height) ==
  /\ height \in DOMAIN c
  /\ c[height] = block
  /\ txid \in blocks[block].txs

\* _load_confirmed_transaction, and _require_canonical_header for the challenge.
LoadedAt(c, b, k) ==
  IF k = Challenge
  THEN StopHeight(b, k) \in DOMAIN c /\ c[StopHeight(b, k)] = StopBlock(b, k)
  ELSE ConfirmedAt(c, StopTxid(b, k), StopBlock(b, k), StopHeight(b, k))

\* Output vout of a transaction is a coin locked by a native SegWit script.
Seals(txid, vout, script) ==
  /\ vout \in DOMAIN Tx[txid].outputs
  /\ Tx[txid].outputs[vout].script = script
  /\ script[1] = "seal"

Markers(txid, kind) ==
  {v \in DOMAIN Tx[txid].outputs : Tx[txid].outputs[v].script[1] = kind}

OnlyMarker(txid, kind, digest) ==
  \E v \in Markers(txid, kind) :
    Markers(txid, kind) = {v} /\ Tx[txid].outputs[v].script = <<kind, digest>>

\* The confirmed transactions that spend an outpoint; consensus allows one.
Spenders(c, outpoint) == {t \in Confirmed(c) : outpoint \in Tx[t].inputs}

-----------------------------------------------------------------------------
\* The claim fixes its target and its seal before the challenge block exists.
GenuineClaim(c, b) ==
  LET p == Profiles[b.profile]
      script == <<"claim", ExpectedClaimCommitment(b)>>
  IN  /\ b.claim.algorithm = SHA256D
      /\ b.claim.target <= p.maximum_target
      /\ ConfirmedAt(c, b.claim.outpoint[1], b.claim.block, b.claim.height)
      /\ Seals(b.claim.outpoint[1], b.claim.outpoint[2], b.claim.seal_script)
      /\ Cardinality({v \in Markers(b.claim.outpoint[1], "claim") :
                        Tx[b.claim.outpoint[1]].outputs[v].script = script}) = 1

\* The work answers the challenge that the chain itself derives for the claim.
GenuineWork(c, b) ==
  LET height == b.claim.height + Profiles[b.profile].challenge_delay
      commitment == ExpectedClaimCommitment(b)
      challenge ==
        derive_challenge(b.profile, b.claim.outpoint, c[b.claim.height],
                         commitment, c[height])
  IN  /\ b.work.challenge_height = height
      /\ height \in DOMAIN c
      /\ HashInt(calculate_work_hash(challenge, commitment,
                                     b.work.extra_nonce, b.work.nonce))
           <= b.claim.target
      /\ ExpectedChallenge(b) = challenge

\* The mint is the one transaction that consumes the claim, made in time.
GenuineMint(c, b) ==
  LET wait == b.mint.height - b.claim.height - Profiles[b.profile].challenge_delay
  IN  /\ wait \in 1..Profiles[b.profile].mint_window
      /\ ConfirmedAt(c, b.mint.txid, b.mint.block, b.mint.height)
      /\ Spenders(c, b.claim.outpoint) = {b.mint.txid}
      /\ Seals(b.mint.txid, b.mint.title_vout, b.mint.title_script)
      /\ OnlyMarker(b.mint.txid, "mint", ExpectedMintCommitment(b))

\* Each transition is the one transaction that consumes the title before it.
GenuineTransition(c, b, k) ==
  LET t == Transition(b, k)
  IN  /\ t.index = k - Mint - 1
      /\ t.previous = TitleAt(b, k - 1)
      /\ t.height >= StopHeight(b, k - 1)
      /\ ConfirmedAt(c, t.txid, t.block, t.height)
      /\ Spenders(c, TitleAt(b, k - 1)) = {t.txid}
      /\ Seals(t.txid, t.successor_vout, t.successor_script)
      /\ OnlyMarker(t.txid, "transfer", ExpectedTransferCommitment(b, k))

\* The digests a bundle carries are those of its own fields.
OwnDigests(b) ==
  /\ b.claim.commitment = ExpectedClaimCommitment(b)
  /\ b.work.challenge_digest = ExpectedChallenge(b)
  /\ b.work.work_hash = ExpectedWorkHash(b)
  /\ b.mint.commitment = ExpectedMintCommitment(b)
  /\ \A k \in Stops(b) : k > Mint =>
       Transition(b, k).commitment = ExpectedTransferCommitment(b, k)

GenuineHistory(c, b) ==
  /\ OwnDigests(b)
  /\ GenuineClaim(c, b)
  /\ GenuineWork(c, b)
  /\ GenuineMint(c, b)
  /\ \A k \in Stops(b) : k > Mint => GenuineTransition(c, b, k)

\* The title was not spent since, and the mint is buried deep enough.
TitleUnspent(c, b) == Spenders(c, TerminalTitle(b)) = {}

Buried(c, b) ==
  /\ Len(c) >= b.mint.height + Profiles[b.profile].minimum_burial_blocks
  /\ blocks[c[Len(c)]].chainwork
       >= blocks[b.mint.block].chainwork
            + Profiles[b.profile].minimum_burial_chainwork
=============================================================================
