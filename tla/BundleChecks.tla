---------------------------- MODULE BundleChecks ----------------------------
(* The checks of verify_bundle (goldatom/verify.py) that compute on a bundle   *)
(* and on a transaction already fetched.  A list of checks is a sequence of    *)
(* [code, ok] in the order the code makes them; the first that fails gives the *)
(* VerificationError.                                                          *)
(*                                                                             *)
(* A bundle names a chain of blocks to load, its stops: the claim block, the   *)
(* challenge block, the mint block and one block per title transition.         *)
EXTENDS Protocol

Claim == 1
Challenge == 2
Mint == 3

Stops(b) == 1..(3 + Len(b.transfers))

Transition(b, k) == b.transfers[k - 3]

StopBlock(b, k) ==
  CASE k = Claim     -> b.claim.block
    [] k = Challenge -> b.work.challenge_block
    [] k = Mint      -> b.mint.block
    [] OTHER         -> Transition(b, k).block

StopHeight(b, k) ==
  CASE k = Claim     -> b.claim.height
    [] k = Challenge -> b.work.challenge_height
    [] k = Mint      -> b.mint.height
    [] OTHER         -> Transition(b, k).height

\* The transaction to load at a stop; the challenge stop has none.
StopTxid(b, k) ==
  CASE k = Claim -> b.claim.outpoint[1]
    [] k = Mint  -> b.mint.txid
    [] OTHER     -> Transition(b, k).txid

StopProof(b, k) ==
  CASE k = Claim -> b.claim.proof
    [] k = Mint  -> b.mint.proof
    [] OTHER     -> Transition(b, k).proof

\* current_outpoint and current_script once the stops up to k are verified.
TitleAt(b, k) ==
  IF k = Mint THEN <<b.mint.txid, b.mint.title_vout>>
  ELSE <<Transition(b, k).txid, Transition(b, k).successor_vout>>

TerminalTitle(b) == TitleAt(b, 3 + Len(b.transfers))
-----------------------------------------------------------------------------
Check(code, ok) == [code |-> code, ok |-> ok]

Passes(checks) == \A i \in DOMAIN checks : checks[i].ok

\* Check i is the one that raises the VerificationError.
FirstFailure(checks, i) ==
  ~checks[i].ok /\ \A j \in 1..(i - 1) : checks[j].ok

ScriptAt(tx, vout) ==
  IF vout \in DOMAIN tx.outputs THEN tx.outputs[vout].script ELSE <<"missing">>

SpendsOnce(tx, outpoint) == outpoint \in tx.inputs

\* Mutant: other markers of the kind beside the expected one are tolerated.
AnyMarker(tx, kind, digest) ==
  LET markers == collect_markers(tx.outputs, kind)
  IN  \E i \in DOMAIN markers : markers[i] = digest

\* The list of the markers of the kind is [digest].
SoleMarker(tx, kind, digest) ==
  LET markers == collect_markers(tx.outputs, kind)
  IN  \E i \in DOMAIN markers : DOMAIN markers = {i} /\ markers[i] = digest

\* The list of the markers of the kind counts this one once; it may have others.
OneMatchingMarker(tx, kind, digest) ==
  LET markers == collect_markers(tx.outputs, kind)
  IN  \E i \in DOMAIN markers :
        \A j \in DOMAIN markers : markers[j] = digest <=> j = i
-----------------------------------------------------------------------------
(* Digests recomputed from the bundle *)

ExpectedClaimCommitment(b) ==
  claim_commitment(b.profile, b.claim.outpoint[2], b.claim.seal_script,
                   b.claim.algorithm, b.claim.target)

ExpectedChallenge(b) ==
  derive_challenge(b.profile, b.claim.outpoint, b.claim.block,
                   ExpectedClaimCommitment(b), b.work.challenge_block)

ExpectedWorkHash(b) ==
  calculate_work_hash(ExpectedChallenge(b), ExpectedClaimCommitment(b),
                      b.work.extra_nonce, b.work.nonce)

ExpectedMintCommitment(b) ==
  mint_commitment(b.profile, b.claim.outpoint, ExpectedChallenge(b),
                  b.work.extra_nonce, b.work.nonce, ExpectedWorkHash(b),
                  b.mint.title_vout, b.mint.title_script)

\* Mutant: the AtomID is taken from the title the atom has now.
AtomIdOfTerminal(b) ==
  atom_id(TerminalTitle(b)[1], TerminalTitle(b)[2], ExpectedMintCommitment(b))

AtomId(b) ==
  atom_id(b.mint.txid, b.mint.title_vout, ExpectedMintCommitment(b))

ExpectedTransferCommitment(b, k) ==
  transfer_commitment(b.profile, AtomId(b), Transition(b, k).index,
                      TitleAt(b, k - 1), Transition(b, k).successor_vout,
                      Transition(b, k).successor_script)
-----------------------------------------------------------------------------
(* Checks, in the order of the code *)

StartChecks(b, network) ==
  << Check("UNKNOWN_PROFILE", b.profile \in DOMAIN Profiles),
     Check("WRONG_NETWORK",
           b.profile \in DOMAIN Profiles => network = Profiles[b.profile].network),
     Check("UNSUPPORTED_ALGORITHM", b.claim.algorithm = SHA256D),
     Check("TARGET_TOO_EASY",
           b.profile \in DOMAIN Profiles =>
             b.claim.target <= Profiles[b.profile].maximum_target) >>

ClaimChecks(b, tx) ==
  LET seal == ScriptAt(tx, b.claim.outpoint[2]) IN
  << Check("MISSING_OUTPUT", b.claim.outpoint[2] \in DOMAIN tx.outputs),
     Check("CLAIM_SEAL_MISMATCH", seal = b.claim.seal_script),
     Check("UNSUPPORTED_CLAIM_SEAL", is_supported_seal_script(seal)),
     Check("BAD_CLAIM_COMMITMENT", ExpectedClaimCommitment(b) = b.claim.commitment),
     Check("CLAIM_MARKER_COUNT",
           OneMatchingMarker(tx, "claim", ExpectedClaimCommitment(b))),
     Check("BAD_CHALLENGE_HEIGHT",
           b.work.challenge_height =
             b.claim.height + Profiles[b.profile].challenge_delay) >>

\* Mutant: the last height of the window is excluded.
InWindowExclusive(b) ==
  /\ b.work.challenge_height < b.mint.height
  /\ b.mint.height < b.work.challenge_height + Profiles[b.profile].mint_window

InMintWindow(b) ==
  /\ b.work.challenge_height + 1 <= b.mint.height
  /\ b.mint.height <= b.work.challenge_height + Profiles[b.profile].mint_window

\* Mutant: the recomputed work is judged and the supplied hash is not compared.
LenientWork(b) ==
  << Check("BAD_CHALLENGE", ExpectedChallenge(b) = b.work.challenge_digest),
     Check("INSUFFICIENT_WORK", HashInt(ExpectedWorkHash(b)) <= b.claim.target),
     Check("MINT_OUTSIDE_WINDOW", InMintWindow(b)) >>

ChallengeChecks(b) ==
  << Check("BAD_CHALLENGE", ExpectedChallenge(b) = b.work.challenge_digest),
     Check("BAD_WORK_HASH", ExpectedWorkHash(b) = b.work.work_hash),
     Check("INSUFFICIENT_WORK", HashInt(ExpectedWorkHash(b)) <= b.claim.target),
     Check("MINT_OUTSIDE_WINDOW", InMintWindow(b)) >>

MintChecks(b, tx) ==
  LET title == ScriptAt(tx, b.mint.title_vout) IN
  << Check("CLAIM_NOT_CONSUMED", SpendsOnce(tx, b.claim.outpoint)),
     Check("MISSING_OUTPUT", b.mint.title_vout \in DOMAIN tx.outputs),
     Check("TITLE_SCRIPT_MISMATCH", title = b.mint.title_script),
     Check("UNSUPPORTED_TITLE_SCRIPT", is_supported_seal_script(title)),
     Check("BAD_MINT_COMMITMENT", ExpectedMintCommitment(b) = b.mint.commitment),
     Check("MINT_MARKER_COUNT",
           SoleMarker(tx, "mint", ExpectedMintCommitment(b))) >>

\* Made before the transition at stop k is loaded.
TransferOrderChecks(b, k) ==
  << Check("TRANSFER_INDEX", Transition(b, k).index = k - 4),
     Check("BROKEN_TITLE_CHAIN", Transition(b, k).previous = TitleAt(b, k - 1)),
     Check("TRANSFER_ORDER", Transition(b, k).height >= StopHeight(b, k - 1)) >>

TransferChecks(b, k, tx) ==
  LET successor == ScriptAt(tx, Transition(b, k).successor_vout) IN
  << Check("TITLE_NOT_CONSUMED", SpendsOnce(tx, TitleAt(b, k - 1))),
     Check("MISSING_OUTPUT", Transition(b, k).successor_vout \in DOMAIN tx.outputs),
     Check("SUCCESSOR_SCRIPT_MISMATCH", successor = Transition(b, k).successor_script),
     Check("UNSUPPORTED_TITLE_SCRIPT", is_supported_seal_script(successor)),
     Check("BAD_TRANSFER_COMMITMENT",
           ExpectedTransferCommitment(b, k) = Transition(b, k).commitment),
     Check("TRANSFER_MARKER_COUNT",
           SoleMarker(tx, "transfer", ExpectedTransferCommitment(b, k))) >>

\* What is checked at stop k between loading it and the next call to the node.
StopChecks(b, k, tx) ==
  (CASE k = Claim     -> ClaimChecks(b, tx)
     [] k = Challenge -> ChallengeChecks(b)
     [] k = Mint      -> MintChecks(b, tx)
     [] OTHER         -> TransferChecks(b, k, tx))
  \o (IF k >= Mint /\ k + 1 \in Stops(b)
      THEN TransferOrderChecks(b, k + 1) ELSE <<>>)
=============================================================================
