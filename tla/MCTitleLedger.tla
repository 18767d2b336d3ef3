---------------------------- MODULE MCTitleLedger ----------------------------
(* An instance of TitleLedger: two claims, a mint of each, a mint that spends   *)
(* both, a mint that also transfers the other atom, a transfer that also spends *)
(* the other title, and a transfer followed by another.                         *)
EXTENDS TitleLedger, MCBundles

Transfer(txid, vout, script) == [txid |-> txid, vout |-> vout, script |-> script]

\* The history of a claim: its mint, its title's output and its transfers.
Told(claim, mint, vout, script, transfers) ==
  Sealed([profile |-> "sim",
    claim |-> [outpoint |-> <<claim, 1>>, block |-> 1, height |-> 1,
               proof |-> Proof(1, claim), seal_script |-> Seal("alice"),
               algorithm |-> SHA256D, target |-> 4, commitment |-> Forged],
    work |-> [challenge_height |-> 2, challenge_block |-> 2,
              challenge_digest |-> Forged, extra_nonce |-> 1, nonce |-> 1,
              work_hash |-> Forged],
    mint |-> [txid |-> mint, block |-> 3, height |-> 3,
              proof |-> Proof(3, mint), title_vout |-> vout,
              title_script |-> script, commitment |-> Forged],
    transfers |->
      <<>> \o [i \in DOMAIN transfers |->
         [index |-> i - 1,
          previous |-> IF i = 1 THEN <<mint, vout>>
                       ELSE <<transfers[i - 1].txid, transfers[i - 1].vout>>,
          txid |-> transfers[i].txid, block |-> 3, height |-> 3, proof |-> Proof(3, transfers[i].txid),
          successor_vout |-> transfers[i].vout,
          successor_script |-> transfers[i].script, commitment |-> Forged]]])

ToT(vout) == Transfer("T", vout, Seal("carol"))

\* <<claim, mint, title_vout, title script, transfers>>
Stories ==
  {<<"C1", "M1", n, Seal("bob"), <<>>>> : n \in 1..2}
  \cup {<<"C1", "M1", 1, Seal("bob"), <<ToT(n)>>>> : n \in 1..2}
  \cup {<<"C1", "M1", 1, Seal("bob"), <<ToT(n), Transfer("U", 1, Seal("dan"))>>>> :
          n \in 1..2}
  \cup {<<"C1", "M1", 1, Seal("bob"), <<Transfer(t, 1, Seal("kim"))>>>> :
          t \in {"K", "W"}}
  \cup {<<"C2", "M2", 1, Seal("bob"), <<>>>>,
        <<"C2", "M2", 1, Seal("bob"), <<Transfer("W", 1, Seal("kim"))>>>>,
        <<"C2", "K", 1, Seal("kim"), <<>>>>}
  \cup {<<c, "J", 1, Seal("bob"), <<>>>> : c \in {"C1", "C2"}}

\* Every story so far.
MCHistories ==
  UNION {{[b EXCEPT !.transfers = SubSeq(@, 1, n)] : n \in 0..Len(b.transfers)} :
           b \in {Told(s[1], s[2], s[3], s[4], s[5]) : s \in Stories}}

MintMark(claim, mint, script) ==
  Out(marker_script("mint", Told(claim, mint, 1, script, <<>>).mint.commitment))

TransferMark(claim, mint, transfers) ==
  Out(marker_script("transfer",
        Told(claim, mint, 1, Seal("bob"), transfers).transfers[Len(transfers)].commitment))

ClaimTx(claim) ==
  [inputs  |-> {<<"F", claim>>},
   outputs |-> <<Out(Seal("alice")),
                 Out(marker_script("claim",
                       Told(claim, "M1", 1, Seal("bob"), <<>>).claim.commitment))>>,
   cites   |-> {}]

Tx_(inputs, outputs) == [inputs |-> inputs, outputs |-> outputs, cites |-> {2}]

MCTx ==
  [t \in {"C1", "C2", "M1", "M2", "J", "K", "T", "U", "W"} |->
    CASE t \in {"C1", "C2"} -> ClaimTx(t)
      [] t = "M1" ->
           Tx_({<<"C1", 1>>},
               <<Out(Seal("bob")), Out(Seal("bob")), MintMark("C1", "M1", Seal("bob"))>>)
      [] t = "M2" ->
           Tx_({<<"C2", 1>>}, <<Out(Seal("bob")), MintMark("C2", "M2", Seal("bob"))>>)
      [] t = "J" ->
           Tx_({<<"C1", 1>>, <<"C2", 1>>},
               <<Out(Seal("bob")), MintMark("C1", "J", Seal("bob")),
                 MintMark("C2", "J", Seal("bob"))>>)
      [] t = "K" ->
           Tx_({<<"C2", 1>>, <<"M1", 1>>},
               <<Out(Seal("kim")), MintMark("C2", "K", Seal("kim")),
                 TransferMark("C1", "M1", <<Transfer("K", 1, Seal("kim"))>>)>>)
      [] t = "T" ->
           Tx_({<<"M1", 1>>},
               <<Out(Seal("carol")), Out(Seal("carol")),
                 TransferMark("C1", "M1", <<ToT(1)>>)>>)
      [] t = "U" ->
           Tx_({<<"T", 1>>},
               <<Out(Seal("dan")),
                 TransferMark("C1", "M1",
                              <<ToT(1), Transfer("U", 1, Seal("dan"))>>)>>)
      [] t = "W" ->
           Tx_({<<"M1", 1>>, <<"M2", 1>>},
               <<Out(Seal("kim")),
                 TransferMark("C1", "M1", <<Transfer("W", 1, Seal("kim"))>>)>>)]

MCFunding == {<<"F", "C1">>, <<"F", "C2">>}
MCHistory == <<{"C1", "C2"}, {}>>
MCClaims == {<<"C1", 1>>, <<"C2", 1>>}
=============================================================================
