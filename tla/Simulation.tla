----------------------------- MODULE Simulation -----------------------------
(* The in-memory Bitcoin view (goldatom/testing.py), the simulated fixture that *)
(* fills it (goldatom/demo.py) and verify_bundle over it.                       *)
(*                                                                              *)
(* A dictionary is a function on its keys.  A fake txid is its label and what   *)
(* the code hashes with it, a fake block hash is a number of its own, and a      *)
(* proof is named by what it commits to.                                        *)
EXTENDS BundleChecks

CONSTANTS
  Simulated,  \* the profile of the fixture
  SimNonces   \* bound: nonces the fixture's search gets to

VARIABLE fixture  \* [bundle, view]

\* A tip_hash of 0 is None.
EmptyView(network) ==
  [network |-> network, headers_by_hash |-> <<>>, headers_by_height |-> <<>>,
   transactions |-> <<>>, proofs |-> <<>>, utxos |-> <<>>, tip_hash |-> 0]

With(dictionary, key, value) ==
  [k \in DOMAIN dictionary \cup {key} |-> IF k = key THEN value ELSE dictionary[k]]
Without(dictionary, key) ==
  [k \in DOMAIN dictionary \ {key} |-> dictionary[k]]

add_header(view, h, tip) ==
  [view EXCEPT !.headers_by_hash = With(@, h.hash, h),
               !.headers_by_height = With(@, h.height, h),
               !.tip_hash = IF tip \/ @ = 0 THEN h.hash ELSE @]

add_transaction(view, txid, tx, proof) ==
  [view EXCEPT !.transactions = With(@, <<txid, tx.block>>, tx),
               !.proofs = With(@, proof, <<txid, tx.block>>)]

add_utxo(view, outpoint, coin) == [view EXCEPT !.utxos = With(@, outpoint, coin)]

spend_utxo(view, outpoint) == [view EXCEPT !.utxos = Without(@, outpoint)]

\* Mutant: the tip keeps the hash of the block that was replaced.
ReplaceBelowTip(view, height, new_hash) ==
  LET old == view.headers_by_height[height]
      new == [old EXCEPT !.hash = new_hash]
  IN  [view EXCEPT !.headers_by_hash = With(Without(@, old.hash), new_hash, new),
                   !.headers_by_height[height] = new]

replace_header(view, height, new_hash) ==
  LET old == view.headers_by_height[height]
      new == [old EXCEPT !.hash = new_hash]
  IN  [view EXCEPT !.headers_by_hash = With(Without(@, old.hash), new_hash, new),
                   !.headers_by_height[height] = new,
                   !.tip_hash = IF @ = old.hash THEN new_hash ELSE @]
-----------------------------------------------------------------------------
(* build_simulated_fixture *)

SimTarget == Profiles[Simulated].maximum_target

ClaimAt == 100
ChallengeAt == ClaimAt + Profiles[Simulated].challenge_delay
MintAt == ChallengeAt + 1
TransferAt == MintAt + 1
LastAt(with_transfer) == IF with_transfer THEN TransferAt ELSE MintAt
TipAt(with_transfer) == LastAt(with_transfer) + 1

_p2tr_script(label) == <<"seal", label>>
SimBlock(height) == 1000 + height

SimHeader(height, tip_height) ==
  [hash |-> SimBlock(height), height |-> height,
   confirmations |-> tip_height - height + 1,
   chainwork |-> 1000000 + (height - 99) * 10000]

\* The view with the headers from height 100 up to this one.
Headers(tip_height) ==
  LET upTo[h \in 99..tip_height] ==
        IF h = 99 THEN EmptyView(Profiles[Simulated].network)
        ELSE add_header(upTo[h - 1], SimHeader(h, tip_height), h = tip_height)
  IN  upTo[tip_height]

\* A transaction with a seal and a marker; _fake_txid hashes label and content.
SimTx(label, inputs, script, value, marker) ==
  LET outputs == <<[script |-> script, value |-> value], [script |-> marker, value |-> 0]>>
  IN  [txid |-> <<label, inputs, outputs>>, inputs |-> inputs, outputs |-> outputs]

SimProof(tx, height) == [block |-> SimBlock(height), txids |-> {tx.txid}]

Confirm(view, tx, height) ==
  add_transaction(view, tx.txid,
                  [inputs |-> tx.inputs, outputs |-> tx.outputs,
                   block |-> SimBlock(height), height |-> height],
                  SimProof(tx, height))

ClaimSeal == _p2tr_script("claim-seal")
ClaimDigest == claim_commitment(Simulated, 1, ClaimSeal, SHA256D, SimTarget)
ClaimTx == SimTx("claim", {}, ClaimSeal, 100000, marker_script("claim", ClaimDigest))
ClaimOutpoint == <<ClaimTx.txid, 1>>

ChallengeDigest ==
  derive_challenge(Simulated, ClaimOutpoint, SimBlock(ClaimAt), ClaimDigest,
                   SimBlock(ChallengeAt))

WorkMeets(nonce) ==
  HashInt(calculate_work_hash(ChallengeDigest, ClaimDigest, 0, nonce)) <= SimTarget

\* What mine_work finds (module MineWork): the first nonce that meets the target.
MinedNonce ==
  CHOOSE n \in SimNonces : WorkMeets(n) /\ \A k \in SimNonces : k < n => ~WorkMeets(k)
MinedHash == calculate_work_hash(ChallengeDigest, ClaimDigest, 0, MinedNonce)

TitleScript == _p2tr_script("title-owner-0")
MintDigest ==
  mint_commitment(Simulated, ClaimOutpoint, ChallengeDigest, 0, MinedNonce, MinedHash, 1,
                  TitleScript)
MintTx ==
  SimTx("mint", {ClaimOutpoint}, TitleScript, 98000, marker_script("mint", MintDigest))
MintTitle == <<MintTx.txid, 1>>

SuccessorScript == _p2tr_script("title-owner-1")
TransferDigest ==
  transfer_commitment(Simulated, atom_id(MintTx.txid, 1, MintDigest), 0, MintTitle, 1,
                      SuccessorScript)
TransferTx ==
  SimTx("transfer-0", {MintTitle}, SuccessorScript, 96000,
        marker_script("transfer", TransferDigest))

SimBundle(with_transfer) ==
  [profile |-> Simulated,
   claim |-> [outpoint |-> ClaimOutpoint, block |-> SimBlock(ClaimAt), height |-> ClaimAt,
              seal_script |-> ClaimSeal, algorithm |-> SHA256D, target |-> SimTarget,
              commitment |-> ClaimDigest, proof |-> SimProof(ClaimTx, ClaimAt)],
   work |-> [challenge_height |-> ChallengeAt, challenge_block |-> SimBlock(ChallengeAt),
             challenge_digest |-> ChallengeDigest, extra_nonce |-> 0,
             nonce |-> MinedNonce, work_hash |-> MinedHash],
   mint |-> [txid |-> MintTx.txid, block |-> SimBlock(MintAt), height |-> MintAt,
             proof |-> SimProof(MintTx, MintAt), title_vout |-> 1,
             title_script |-> TitleScript, commitment |-> MintDigest],
   transfers |->
     IF with_transfer
     THEN <<[index |-> 0, previous |-> MintTitle, txid |-> TransferTx.txid,
             block |-> SimBlock(TransferAt), height |-> TransferAt,
             proof |-> SimProof(TransferTx, TransferAt), successor_vout |-> 1,
             successor_script |-> SuccessorScript, commitment |-> TransferDigest]>>
     ELSE <<>>]

LastTx(with_transfer) == IF with_transfer THEN TransferTx ELSE MintTx
SimTitle(with_transfer) == <<LastTx(with_transfer).txid, 1>>
SimCoin(with_transfer) ==
  [script |-> LastTx(with_transfer).outputs[1].script,
   value |-> LastTx(with_transfer).outputs[1].value,
   confirmations |-> TipAt(with_transfer) - LastAt(with_transfer) + 1]

build_simulated_fixture(with_transfer) ==
  LET minted ==
        Confirm(Confirm(Headers(TipAt(with_transfer)), ClaimTx, ClaimAt), MintTx, MintAt)
      moved == IF with_transfer THEN Confirm(minted, TransferTx, TransferAt) ELSE minted
  IN  [bundle |-> SimBundle(with_transfer),
       view |-> add_utxo(moved, SimTitle(with_transfer), SimCoin(with_transfer))]

\* The profile of the simulation asks for little burial and little work, and the
\* search of its fixture ends (profiles.py:30-43, demo.py:111-116).
ASSUME SimulationAssumption ==
  /\ Simulated \in DOMAIN Profiles
  /\ Profiles[Simulated].minimum_burial_blocks <= 1
  /\ Profiles[Simulated].minimum_burial_chainwork <= 10000
  /\ SimNonces \subseteq Nat
  /\ \E n \in SimNonces : WorkMeets(n)
-----------------------------------------------------------------------------
(* verify_bundle over the view *)

\* The get_... methods raise for a key the dictionary does not have.
HeaderFound(view, b, k) ==
  /\ StopBlock(b, k) \in DOMAIN view.headers_by_hash
  /\ StopHeight(b, k) \in DOMAIN view.headers_by_height

HeaderChecks(view, b, k) ==
  LET h == view.headers_by_hash[StopBlock(b, k)]
  IN  << Check("HEADER_MISMATCH", h.height = StopHeight(b, k)),
         Check("NONCANONICAL_BLOCK", h.confirmations >= 1),
         Check("REORGED_BLOCK",
               view.headers_by_height[StopHeight(b, k)].hash = StopBlock(b, k)) >>

Place(b, k) == <<StopTxid(b, k), StopBlock(b, k)>>

\* verify_inclusion and get_transaction.
PlaceChecks(view, b, k) ==
  << Check("BAD_INCLUSION_PROOF",
           StopProof(b, k) \in DOMAIN view.proofs
             /\ view.proofs[StopProof(b, k)] = Place(b, k)),
     Check("TRANSACTION_LOOKUP", Place(b, k) \in DOMAIN view.transactions) >>

SimStopChecks(view, b, k) ==
  IF ~HeaderFound(view, b, k) THEN <<Check("HEADER_LOOKUP", FALSE)>>
  ELSE IF k = Challenge THEN HeaderChecks(view, b, k) \o ChallengeChecks(b)
  ELSE IF ~Passes(PlaceChecks(view, b, k))
  THEN HeaderChecks(view, b, k) \o PlaceChecks(view, b, k)
  ELSE LET tx == view.transactions[Place(b, k)]
       IN  HeaderChecks(view, b, k)
             \o <<Check("TRANSACTION_MISMATCH", tx.height = StopHeight(b, k))>>
             \o StopChecks(b, k, tx)

\* get_utxo, and get_tip, whose ValueError no try block turns into a verdict.
SimEndChecks(view, b) ==
  IF TerminalTitle(b) \notin DOMAIN view.utxos
  THEN <<Check("TITLE_SPENT_OR_MISSING", FALSE)>>
  ELSE IF view.tip_hash \notin DOMAIN view.headers_by_hash
  THEN <<Check("UNCAUGHT", FALSE)>>
  ELSE LET coin == view.utxos[TerminalTitle(b)]
           last == IF b.transfers = <<>> THEN Mint ELSE 3 + Len(b.transfers)
           output == view.transactions[Place(b, last)].outputs[TerminalTitle(b)[2]]
           tip == view.headers_by_hash[view.tip_hash]
       IN  << Check("CURRENT_TITLE_MISMATCH", coin.script = output.script),
              Check("CURRENT_TITLE_VALUE", coin.value = output.value),
              Check("CURRENT_TITLE_UNCONFIRMED", coin.confirmations >= 1),
              Check("BAD_TIP", tip.confirmations >= 1),
              Check("INSUFFICIENT_BURIAL",
                    tip.height - b.mint.height
                      >= Profiles[b.profile].minimum_burial_blocks),
              Check("INSUFFICIENT_CHAINWORK",
                    tip.chainwork - view.headers_by_hash[b.mint.block].chainwork
                      >= Profiles[b.profile].minimum_burial_chainwork) >>

\* The parts of the checks, and the checks up to the first part that fails.
SimPart(view, b, k) ==
  IF k = 0 THEN StartChecks(b, view.network) ELSE SimStopChecks(view, b, k)

SimChecks(view, b) ==
  LET parts == 0..(3 + Len(b.transfers))
  IN  IF \A k \in parts : Passes(SimPart(view, b, k)) THEN SimEndChecks(view, b)
      ELSE SimPart(view, b,
                   CHOOSE k \in parts : /\ ~Passes(SimPart(view, b, k))
                                       /\ \A j \in 0..(k - 1) : Passes(SimPart(view, b, j)))

SimVerdict(view, b) ==
  LET checks == SimChecks(view, b)
  IN  IF Passes(checks) THEN "VALID"
      ELSE checks[CHOOSE i \in DOMAIN checks : FirstFailure(checks, i)].code
-----------------------------------------------------------------------------
(* The tests' changes to a fixture's view *)

SpendTitle ==
  \E o \in DOMAIN fixture.view.utxos :
    fixture' = [fixture EXCEPT !.view = spend_utxo(@, o)]

\* A block is replaced by one with another hash.
ReplaceBlock ==
  \E h \in DOMAIN fixture.view.headers_by_height :
    /\ fixture.view.headers_by_height[h].hash = SimBlock(h)
    /\ fixture' = [fixture EXCEPT !.view = replace_header(@, h, -h)]
-----------------------------------------------------------------------------
(* Properties *)

\* A fixture as built is a genuine atom to the verifier, and stays one under the
\* tests' changes as long as they spare the blocks it names and its title: other
\* blocks, the tip too, may be replaced (test_protocol.py:21, 51, 69, 105).
FixtureStands ==
  LET b == fixture.bundle
      view == fixture.view
  IN  SimVerdict(view, b) = "VALID"
        <=> /\ \A k \in Stops(b) :
                 view.headers_by_height[StopHeight(b, k)].hash = StopBlock(b, k)
            /\ TerminalTitle(b) \in DOMAIN view.utxos
=============================================================================
