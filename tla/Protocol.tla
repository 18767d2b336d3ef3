------------------------------ MODULE Protocol ------------------------------
(* The pure layer of GoldAtom/0: profiles, tagged digests, markers and local   *)
(* work (goldatom/profiles.py, goldatom/protocol.py, goldatom/encoding.py).    *)
(*                                                                             *)
(* A SHA-256 digest is the tuple of the tag and of every field that the code   *)
(* hashes, in the code's order: equal digests have equal preimages, which is   *)
(* the collision resistance the protocol relies on.  A field the code leaves   *)
(* out of a preimage is absent from the tuple.  The number a work hash is read *)
(* as is the constant operator HashInt.                                        *)
(*                                                                             *)
(* A transaction is [inputs |-> set of outpoints, outputs |-> sequence of      *)
(* [script, value], cites |-> block hashes its commitments depend on].  An     *)
(* outpoint is <<txid, vout>>, vout counting from 1.  A script is a pair       *)
(* <<template, payload>>: "seal" for the native SegWit templates, "legacy" for *)
(* any other payment, and the marker kind for an OP_RETURN marker, whose       *)
(* payload is the digest.                                                      *)
EXTENDS Integers, Sequences

CONSTANTS
  Profiles,    \* profile id -> its parameters (profiles.py PROFILES)
  HashInt(_)   \* the integer a work hash is read as

Profile ==
  [network : STRING, challenge_delay : Nat, mint_window : Nat,
   maximum_target : Nat, minimum_burial_blocks : Nat,
   minimum_burial_chainwork : Nat]

\* Every registered profile waits at least one block for its challenge, leaves a
\* mint window and asks for some burial (the registered values are 3, 12, 1, 1).
ASSUME ProfilesAssumption ==
  \A p \in DOMAIN Profiles :
    /\ Profiles[p] \in Profile
    /\ Profiles[p].challenge_delay > 0
    /\ Profiles[p].mint_window > 0
    /\ Profiles[p].minimum_burial_blocks > 0

SHA256D == "sha256d-80-v0"

MarkerKinds == {"claim", "mint", "transfer"}

marker_script(kind, digest) == <<kind, digest>>

is_supported_seal_script(script) == script[1] = "seal"

\* The digests of the markers of one kind, each at the index of its output.
collect_markers(outputs, kind) ==
  [i \in {j \in DOMAIN outputs : outputs[j].script[1] = kind} |-> outputs[i].script[2]]

-----------------------------------------------------------------------------
(* Digests *)

claim_commitment(p, vout, script, algorithm, target) ==
  <<"claim", p, Profiles[p].network, vout, script, algorithm, target,
    Profiles[p].challenge_delay, Profiles[p].mint_window>>

derive_challenge(p, outpoint, claimBlock, commitment, challengeBlock) ==
  <<"challenge", p, outpoint, claimBlock, commitment, challengeBlock>>

calculate_work_hash(challenge, commitment, extraNonce, nonce) ==
  <<"work", challenge, commitment, extraNonce, nonce>>

\* Mutant: the title's output is not committed.
MintWithoutVout(p, outpoint, challenge, extraNonce, nonce, workHash, vout, script) ==
  <<"mint", p, outpoint, challenge, extraNonce, nonce, workHash, script>>

mint_commitment(p, outpoint, challenge, extraNonce, nonce, workHash, vout, script) ==
  <<"mint", p, outpoint, challenge, extraNonce, nonce, workHash, vout, script>>

atom_id(txid, vout, commitment) == <<"id", txid, vout, commitment>>

\* Mutant: the successor's output is not committed.
TransferWithoutVout(p, atom, index, previous, vout, script) ==
  <<"transfer", p, atom, index, previous, script>>

\* Mutant: neither the atom nor the title it moves is committed.
TransferOfAnyAtom(p, atom, index, previous, vout, script) ==
  <<"transfer", p, index, vout, script>>

transfer_commitment(p, atom, index, previous, vout, script) ==
  <<"transfer", p, atom, index, previous, vout, script>>
=============================================================================
