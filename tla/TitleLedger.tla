----------------------------- MODULE TitleLedger -----------------------------
(* The atoms that a chain carries while anybody publishes claims, mints,        *)
(* transfers and burns and while blocks are connected and disconnected.         *)
(* Nothing stores this ledger: it is what verify_bundle accepts, among all the  *)
(* histories anybody may present, on a node whose chain stays as it is for one  *)
(* assay (module Verifier has the assay during which it changes).               *)
EXTENDS GenuineAtom, SequencesExt

CONSTANTS
  Network,        \* what getblockchaininfo reports
  Histories,      \* the histories anybody may present, of claims in settled
                  \* blocks; where their transactions are, the chain tells
  ClaimOutpoints  \* the claims they are about

\* Finitely many transactions are published, and who may present a history may
\* present it as it was before its last transfers.
ASSUME HistoriesAssumption ==
  /\ IsFiniteSet(TxIds)
  /\ \A b \in Histories :
       /\ {"profile", "claim", "work", "mint", "transfers"} \subseteq DOMAIN b
       /\ Len(b.transfers) \in Nat
       /\ DOMAIN b.transfers = 1..Len(b.transfers)
       /\ \A record \in {b.mint} \cup {b.transfers[i] : i \in DOMAIN b.transfers} :
            "txid" \in DOMAIN record
       /\ \A n \in 0..Len(b.transfers) :
            [b EXCEPT !.transfers = SubSeq(@, 1, n)] \in Histories

\* Mempools are left out: only confirmed transactions change a title.
Next ==
  \/ \E txids \in SUBSET (TxIds \ Confirmed(chain)), work \in BlockWorks :
       Generate(txids, work)
  \/ Reorganize

Spec == NodeInit /\ [][Next]_nodeVars
-----------------------------------------------------------------------------
(* verify_bundle on a chain at rest *)

\* The history a bundle tells is on the chain and deep enough.
Proves(c, b) ==
  /\ \A k \in Stops(b) : LoadedAt(c, b, k)
  /\ Passes(StartChecks(b, Network))
  /\ \A k \in Stops(b) : Passes(StopChecks(b, k, Tx[StopTxid(b, k)]))
  /\ Buried(c, b)

HistoryTxids(b) == {b.mint.txid} \cup {b.transfers[i].txid : i \in DOMAIN b.transfers}

\* A publisher fills in where a transaction is confirmed and its proof.
Located(c, record) ==
  LET h == CHOOSE n \in DOMAIN c : record.txid \in blocks[c[n]].txs
  IN  [record EXCEPT !.block = c[h], !.height = h,
                     !.proof = [block |-> c[h], txids |-> {record.txid}]]

Placed(c, b) ==
  [b EXCEPT !.mint = Located(c, b.mint),
            !.transfers = [i \in DOMAIN b.transfers |-> Located(c, b.transfers[i])]]

Presented(c) ==
  {Placed(c, b) : b \in {a \in Histories : HistoryTxids(a) \subseteq Confirmed(c)}}

Proved(c) == {b \in Presented(c) : Proves(c, b)}

\* What verify_bundle accepts: the title is in the UTXO set as well.
Accepted(c) == {b \in Proved(c) : TitleUnspent(c, b)}
-----------------------------------------------------------------------------
(* The ledger *)

NoAtom == [id |-> <<>>, titles |-> <<>>, live |-> FALSE]

TitlesOf(b) == [i \in 1..(Len(b.transfers) + 1) |-> TitleAt(b, Mint + i - 1)]

Atom(c, b) ==
  [id |-> AtomId(b), titles |-> TitlesOf(b), live |-> TitleUnspent(c, b)]

AtomsOf(c, o) == {Atom(c, b) : b \in {b \in Proved(c) : b.claim.outpoint = o}}

\* The atom of a claim as its longest history has it.
AtomOf(c, o) ==
  LET atoms == {NoAtom} \cup AtomsOf(c, o)
  IN  CHOOSE a \in atoms : \A other \in atoms : Len(other.titles) <= Len(a.titles)

\* What later blocks may do to an atom: mint it, move its title by one or more
\* transfers, or burn it.
Forward(before, after) ==
  \/ after = before
  \/ before = NoAtom
  \/ /\ before.live
     /\ after.id = before.id
     /\ IsStrictPrefix(before.titles, after.titles)
  \/ before.live /\ after = [before EXCEPT !.live = FALSE]
-----------------------------------------------------------------------------
(* Properties *)

\* THREAT-MODEL section 8, criterion 1: no claim spend creates two atoms, not
\* even a mint that spends two claims, or one that could be read with another
\* title output, nonce or profile (verify.py:252-292).
OneAtomPerClaim ==
  \A p \in {Proved(chain)} : \A a, b \in p :
    a.claim.outpoint = b.claim.outpoint \/ a.mint.txid = b.mint.txid
      => AtomId(a) = AtomId(b)

\* THREAT-MODEL section 8, criterion 3: a title cannot be split.  Two histories
\* of one atom that both pass at one tip end in the same title (verify.py:297-347).
OneTitlePerAtom ==
  \A p \in {Accepted(chain)} : \A a, b \in p :
    AtomId(a) = AtomId(b) => TerminalTitle(a) = TerminalTitle(b)

\* Two atoms share a title only if one transaction was the mint of one and the
\* transfer of the other; markers are counted per kind (verify.py:279, 336).
TitleSharedOnlyByMintAndTransfer ==
  \A p \in {Accepted(chain)} : \A a, b \in p :
    AtomId(a) # AtomId(b) /\ TerminalTitle(a) = TerminalTitle(b)
      => (Len(a.transfers) = 0) # (Len(b.transfers) = 0)

\* SPEC-0 sections 12 and 17: from any block of the chain to its tip an atom is
\* only minted, moved forward or burnt, so disconnecting blocks takes each atom
\* back to a title it had, and no branch revives a burnt one (SPEC-0.md:390, 527).
LedgerFollowsChain ==
  \A o \in ClaimOutpoints :
    \A tip \in {AtomOf(chain, o)}, h \in Floor..Len(chain) :
      \A before \in {AtomOf(SubSeq(chain, 1, h), o)} : Forward(before, tip)
=============================================================================
