----------------------------- MODULE MCVerifier -----------------------------
(* Instances of Verifier.  Each variant v is a lineage of its own: a claim      *)
(* <<"C", v>>, a mint <<"M", v>> and a transfer <<"T", v>>; "good" follows the  *)
(* protocol and each other one departs from it in one transaction.  The tampered *)
(* bundles depart from the good one in a field.                                 *)
EXTENDS VectorChecker, AssayRefinement, MCBundles
-----------------------------------------------------------------------------
(* Honest bundles *)

MintHeight(v) ==
  CASE v = "latest" -> 4 [] v = "late" -> 5 [] OTHER -> 3

TransferHeight(v) ==
  CASE v \in {"latest", "late"} -> 5 [] OTHER -> 4

Honest(v, profile) ==
  Sealed([profile |-> profile,
   claim |-> [outpoint |-> <<<<"C", v>>, 1>>, block |-> 1, height |-> 1,
              proof |-> Proof(1, <<"C", v>>),
              seal_script |-> IF v = "legacy_seal" THEN Legacy("alice") ELSE Seal("alice"),
              algorithm |-> SHA256D, target |-> 4, commitment |-> Forged],
   work |-> [challenge_height |-> 2, challenge_block |-> 2,
             challenge_digest |-> Forged, extra_nonce |-> 1,
             nonce |-> IF v = "weak" THEN 3 ELSE 1, work_hash |-> Forged],
   mint |-> [txid |-> <<"M", v>>, block |-> MintHeight(v), height |-> MintHeight(v),
             proof |-> Proof(MintHeight(v), <<"M", v>>),
             title_vout |-> 1,
             title_script |-> IF v = "legacy_title" THEN Legacy("bob") ELSE Seal("bob"),
             commitment |-> Forged],
   transfers |->
     << [index |-> 0, previous |-> <<<<"M", v>>, 1>>, txid |-> <<"T", v>>,
         block |-> TransferHeight(v), height |-> TransferHeight(v),
         proof |-> Proof(TransferHeight(v), <<"T", v>>), successor_vout |-> 1,
         successor_script |->
           IF v = "legacy_successor" THEN Legacy("carol") ELSE Seal("carol"),
         commitment |-> Forged] >>])

Good == Honest("good", "sim")
GoodShort == [Good EXCEPT !.transfers = <<>>]
-----------------------------------------------------------------------------
(* Transactions *)

ClaimTx(v) ==
  LET b == Honest(v, "sim")
      mark == Out(marker_script("claim", b.claim.commitment))
      other == Out(marker_script("claim", Forged))
  IN  [inputs  |-> {<<<<"F", v>>, 1>>},
       outputs |-> <<Out(b.claim.seal_script), mark,
                     IF v = "two_claim_markers" THEN mark ELSE other>>,
       cites   |-> {}]

\* A lineage whose mint spends something else, or is marked twice.
MintTx(v) ==
  LET b == Honest(v, "sim")
      mark == Out(marker_script("mint", b.mint.commitment))
  IN  [inputs  |-> {IF v = "mint_elsewhere" THEN <<<<"F", v>>, 2>>
                    ELSE b.claim.outpoint},
       outputs |-> <<Out(b.mint.title_script), mark>>
                   \o (IF v = "two_mint_markers"
                       THEN <<Out(marker_script("mint", Forged))>> ELSE <<>>),
       cites   |-> {1, 2}]

TransferTx(v) ==
  LET b == Honest(v, "sim")
      mark == Out(marker_script("transfer", b.transfers[1].commitment))
  IN  [inputs  |-> {IF v = "transfer_elsewhere" THEN <<<<"F", v>>, 2>>
                    ELSE TitleAt(b, Mint)},
       outputs |-> <<Out(b.transfers[1].successor_script), mark>>
                   \o (IF v = "two_transfer_markers"
                       THEN <<Out(marker_script("transfer", Forged))>> ELSE <<>>),
       cites   |-> {1, 2}]

\* A spend of the good title that is no transfer.
BurnTx == [inputs  |-> {<<<<"M", "good">>, 1>>},
           outputs |-> <<Out(Legacy("dave"))>>, cites |-> {}]

Lineage(v) == {<<kind, v>> : kind \in {"C", "M", "T"}}

TxTable(variants) ==
  [t \in UNION {Lineage(v) : v \in variants} \cup {<<"X", "good">>} |->
     CASE t[1] = "C" -> ClaimTx(t[2])
       [] t[1] = "M" -> MintTx(t[2])
       [] t[1] = "T" -> TransferTx(t[2])
       [] t[1] = "X" -> BurnTx]

FundingOf(variants) == {<<<<"F", v>>, n>> : v \in variants, n \in 1..2}
-----------------------------------------------------------------------------
(* Many lineages on a fixed chain, and tampered bundles *)

Variants ==
  {"good", "two_claim_markers", "legacy_seal", "weak", "latest", "late",
   "mint_elsewhere", "two_mint_markers", "legacy_title", "transfer_elsewhere",
   "two_transfer_markers", "legacy_successor"}

TamperTx == TxTable(Variants)
TamperFunding == FundingOf(Variants)

TamperHistory ==
  [h \in 1..6 |->
     CASE h = 1 -> {<<"C", v>> : v \in Variants}
       [] h \in {2, 6} -> {}
       [] OTHER -> {<<"M", v>> : v \in {w \in Variants : MintHeight(w) = h}}
                   \cup {<<"T", v>> : v \in {w \in Variants : TransferHeight(w) = h}}]

TamperClaim ==
  {[Good EXCEPT !.claim.outpoint[2] = n] : n \in {2, 4}}
  \cup {[Good EXCEPT !.claim.outpoint[1] = <<"M", "good">>]}
  \cup {[Good EXCEPT !.claim.block = n] : n \in {2, 9}}
  \cup {[Good EXCEPT !.claim.height = n] : n \in {2, 9}}
  \cup {[Good EXCEPT !.claim.proof.txids = {}],
        [Good EXCEPT !.claim.proof.block = 9],
        [Good EXCEPT !.claim.seal_script = Seal("mallory")],
        [Good EXCEPT !.claim.algorithm = "sha1"],
        [Good EXCEPT !.claim.commitment = Forged]}
  \cup {[Good EXCEPT !.claim.target = n] : n \in {3, 5}}
  \cup {Sealed([Good EXCEPT !.claim.target = n]) : n \in {3, 5}}

TamperWork ==
  {[Good EXCEPT !.work.challenge_height = 3, !.work.challenge_block = 3],
   Sealed([Good EXCEPT !.work.challenge_height = 3, !.work.challenge_block = 3]),
   Sealed([Good EXCEPT !.work.challenge_block = 3]),
   [Good EXCEPT !.work.challenge_digest = Forged],
   [Good EXCEPT !.work.nonce = 0],
   [Good EXCEPT !.work.work_hash = Forged],
   Sealed([Good EXCEPT !.work.nonce = 0]),
   Sealed([Good EXCEPT !.work.nonce = 4])}

TamperMint ==
  {[Good EXCEPT !.mint.txid = <<"T", "good">>],
   [Good EXCEPT !.mint.block = 4],
   [Good EXCEPT !.mint.height = 4],
   [Good EXCEPT !.mint.height = 5],
   [Good EXCEPT !.mint.title_vout = 2],
   [Good EXCEPT !.mint.title_vout = 3],
   [Good EXCEPT !.mint.title_script = Seal("mallory")],
   [Good EXCEPT !.mint.commitment = Forged],
   Sealed([Good EXCEPT !.mint.title_vout = 2]),
   Sealed([Good EXCEPT !.mint.title_script = Seal("mallory")])}

TamperTransfer ==
  {GoodShort,
   [Good EXCEPT !.transfers = @ \o @],
   [Good EXCEPT !.transfers[1].index = 1],
   Sealed([Good EXCEPT !.transfers[1].index = 1]),
   [Good EXCEPT !.transfers[1].previous = <<<<"C", "good">>, 1>>],
   [Good EXCEPT !.transfers[1].height = 2],
   [Good EXCEPT !.transfers[1].block = 3],
   [Good EXCEPT !.transfers[1].successor_vout = 2],
   [Good EXCEPT !.transfers[1].successor_vout = 3],
   [Good EXCEPT !.transfers[1].successor_script = Seal("mallory")],
   Sealed([Good EXCEPT !.transfers[1].successor_script = Seal("mallory")]),
   [Good EXCEPT !.transfers[1].commitment = Forged]}

TamperBundles ==
  {Honest(v, "sim") : v \in Variants}
  \cup {[Good EXCEPT !.profile = p] : p \in {"deep", "main", "unknown"}}
  \cup {Honest("good", "deep")}
  \cup TamperClaim \cup TamperWork \cup TamperMint \cup TamperTransfer
-----------------------------------------------------------------------------
(* One lineage on a moving chain *)

C == <<"C", "good">>
M == <<"M", "good">>
T == <<"T", "good">>
X == <<"X", "good">>

LiveTx == TxTable({"good"})
LiveFunding == FundingOf({"good"})

MintedHistory == <<{C}, {}, {M}, {}>>
TransferredHistory == <<{C}, {}, {M}, {T}>>

\* The good bundle with its mint, or its transfer, confirmed again in block 5.
MintAgain ==
  [GoodShort EXCEPT !.mint.block = 5, !.mint.proof.block = 5]
TransferAgain ==
  [Good EXCEPT !.transfers[1].block = 5, !.transfers[1].proof.block = 5]

LiveBundles == {Good, TransferAgain, GoodShort}
ShortBundles == {GoodShort}

\* Only the claim and the mint: reorganizations may reach the challenge block.
YoungHistory == <<{C}, {}, {M}>>
YoungTx == [t \in {C, M} |-> LiveTx[t]]
TransferTable == [t \in {C, M, T} |-> LiveTx[t]]
YoungBundles == {GoodShort, MintAgain}
=============================================================================
