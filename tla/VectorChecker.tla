---------------------------- MODULE VectorChecker ----------------------------
(* verifyBundle of scripts/verify_vectors.mjs: the second implementation of the *)
(* protocol, which recomputes every commitment of a bundle without a chain.  It *)
(* shares no code with the verifier, so its preimages are written out here and  *)
(* not taken from module Protocol.  Its table of profiles (lines 20-41) is that *)
(* of goldatom/profiles.py, without the two burial parameters.                  *)
(*                                                                              *)
(* Shapes are left out: validateShape, requireHex and requireUInt see the       *)
(* bundles that models.py has read and written.                                 *)
EXTENDS Verifier

claimCommitment(b) ==
  <<"claim", b.profile, Profiles[b.profile].network, b.claim.outpoint[2],
    b.claim.seal_script, b.claim.algorithm, b.claim.target,
    Profiles[b.profile].challenge_delay, Profiles[b.profile].mint_window>>

challengeDigest(b) ==
  <<"challenge", b.profile, b.claim.outpoint, b.claim.block, claimCommitment(b),
    b.work.challenge_block>>

workHash(b) ==
  <<"work", challengeDigest(b), claimCommitment(b), b.work.extra_nonce, b.work.nonce>>

mintCommitment(b) ==
  <<"mint", b.profile, b.claim.outpoint, challengeDigest(b), b.work.extra_nonce,
    b.work.nonce, workHash(b), b.mint.title_vout, b.mint.title_script>>

\* Mutant: the output that carries the title is left out of the AtomID.
atomIdOfTransaction(b) == <<"id", b.mint.txid, mintCommitment(b)>>

atomId(b) == <<"id", b.mint.txid, b.mint.title_vout, mintCommitment(b)>>

\* previousOutpoint when transfer i, counted from 1, is reached.
previousOutpoint(b, i) ==
  IF i = 1 THEN <<b.mint.txid, b.mint.title_vout>>
  ELSE <<b.transfers[i - 1].txid, b.transfers[i - 1].successor_vout>>

transferCommitment(b, i) ==
  <<"transfer", b.profile, atomId(b), b.transfers[i].index, previousOutpoint(b, i),
    b.transfers[i].successor_vout, b.transfers[i].successor_script>>
-----------------------------------------------------------------------------
(* The checks of verifyBundle in its order *)

RecordChecks(b) ==
  LET profile == Profiles[b.profile]
      earliest == b.work.challenge_height + 1
      latest == b.work.challenge_height + profile.mint_window
  IN  << Check("TARGET_TOO_EASY", b.claim.target <= profile.maximum_target),
         Check("BAD_ALGORITHM", b.claim.algorithm = SHA256D),
         Check("BAD_CLAIM_COMMITMENT", claimCommitment(b) = b.claim.commitment),
         Check("BAD_CHALLENGE_HEIGHT",
               b.work.challenge_height = b.claim.height + profile.challenge_delay),
         Check("BAD_CHALLENGE", challengeDigest(b) = b.work.challenge_digest),
         Check("BAD_WORK_HASH", workHash(b) = b.work.work_hash),
         Check("INSUFFICIENT_WORK", HashInt(workHash(b)) <= b.claim.target),
         Check("MINT_OUTSIDE_WINDOW", b.mint.height \in earliest..latest),
         Check("BAD_MINT_COMMITMENT", mintCommitment(b) = b.mint.commitment) >>

TransitionChecks(b, i) ==
  << Check("TRANSFER_INDEX", b.transfers[i].index = i - 1),
     Check("BROKEN_TITLE_CHAIN", b.transfers[i].previous = previousOutpoint(b, i)),
     Check("BAD_TRANSFER_COMMITMENT",
           transferCommitment(b, i) = b.transfers[i].commitment) >>

AllChecks(b) ==
  RecordChecks(b) \o
    [j \in 1..(3 * Len(b.transfers)) |->
       TransitionChecks(b, (j + 2) \div 3)[((j - 1) % 3) + 1]]

\* The outcome of verifyBundle.
CheckerSays(b, outcome) ==
  \/ b.profile \notin DOMAIN Profiles /\ outcome = "BAD_PROFILE"
  \/ /\ b.profile \in DOMAIN Profiles
     /\ LET checks == AllChecks(b)
        IN  \/ Passes(checks) /\ outcome = "VALID"
            \/ \E i \in DOMAIN checks :
                 FirstFailure(checks, i) /\ outcome = checks[i].code
-----------------------------------------------------------------------------
(* Properties *)

\* The codes both programs have, under one name.
SharedCodes ==
  {"TARGET_TOO_EASY", "BAD_CLAIM_COMMITMENT", "BAD_CHALLENGE_HEIGHT", "BAD_CHALLENGE",
   "BAD_WORK_HASH", "INSUFFICIENT_WORK", "MINT_OUTSIDE_WINDOW", "BAD_MINT_COMMITMENT",
   "TRANSFER_INDEX", "BROKEN_TITLE_CHAIN", "BAD_TRANSFER_COMMITMENT"}

\* The two implementations agree: the checker accepts whatever verify_bundle
\* accepts, and where verify_bundle stops at a commitment or a rule that needs no
\* chain, the checker stops at the same one, although verify_bundle has chain checks
\* in between and the checker has none (verify_vectors.mjs:5-13).
CheckersAgree ==
  /\ verdict = "VALID" => CheckerSays(bundle, "VALID")
  /\ verdict \in SharedCodes => CheckerSays(bundle, verdict)
  /\ verdict = "UNKNOWN_PROFILE" => CheckerSays(bundle, "BAD_PROFILE")
  /\ verdict = "UNSUPPORTED_ALGORITHM" =>
       CheckerSays(bundle, "BAD_ALGORITHM") \/ CheckerSays(bundle, "TARGET_TOO_EASY")
=============================================================================
