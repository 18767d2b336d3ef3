---------------------------- MODULE MCCommandLine ----------------------------
(* An instance of CommandLine: a node whose chain holds a claim, a mint and a   *)
(* transfer, files with the bundles of that atom, and documents of a simulated  *)
(* atom that depart from what write makes in one field.                         *)
EXTENDS CommandLine, MCBundles

CliProfiles ==
  [p \in {"regtest", "simnet"} |->
     [network |-> p, challenge_delay |-> 1, mint_window |-> 2, maximum_target |-> 4,
      minimum_burial_blocks |-> 1, minimum_burial_chainwork |-> 2]]

CliHashInt(h) ==
  IF h[2][2] = "simnet" THEN (h[5] + 2 * h[2][6]) % 7 ELSE MCHashInt(h)
-----------------------------------------------------------------------------
\* The bundle of the atom on the node's chain.
Good ==
  Sealed([profile |-> "regtest",
   claim |-> [outpoint |-> <<<<"C">>, 1>>, block |-> 1, height |-> 1,
              proof |-> Proof(1, <<"C">>), seal_script |-> Seal("alice"),
              algorithm |-> SHA256D, target |-> 4, commitment |-> Forged],
   work |-> [challenge_height |-> 2, challenge_block |-> 2,
             challenge_digest |-> Forged, extra_nonce |-> 1, nonce |-> 1,
             work_hash |-> Forged],
   mint |-> [txid |-> <<"M">>, block |-> 3, height |-> 3, proof |-> Proof(3, <<"M">>),
             title_vout |-> 1, title_script |-> Seal("bob"), commitment |-> Forged],
   transfers |->
     << [index |-> 0, previous |-> <<<<"M">>, 1>>, txid |-> <<"T">>, block |-> 4,
         height |-> 4, proof |-> Proof(4, <<"T">>), successor_vout |-> 1,
         successor_script |-> Seal("carol"), commitment |-> Forged] >>])

SpentTitle == [Good EXCEPT !.transfers = <<>>]
WrongBlock == [Good EXCEPT !.mint.block = 9]
TooHigh == [Good EXCEPT !.claim.height = 9]
NoSuchTransaction == [Good EXCEPT !.claim.proof.txids = {<<"C">>, <<"D">>},
                                  !.claim.outpoint[1] = <<"D">>]

CliTx ==
  [t \in {<<"C">>, <<"M">>, <<"T">>} |->
     CASE t = <<"C">> -> [inputs |-> {<<<<"F">>, 1>>}, cites |-> {},
                      outputs |-> <<Out(Good.claim.seal_script),
                                    Out(marker_script("claim", Good.claim.commitment))>>]
       [] t = <<"M">> -> [inputs |-> {<<<<"C">>, 1>>}, cites |-> {1, 2},
                      outputs |-> <<Out(Good.mint.title_script),
                                    Out(marker_script("mint", Good.mint.commitment))>>]
       [] t = <<"T">> -> [inputs |-> {<<<<"M">>, 1>>}, cites |-> {1, 2},
                      outputs |-> <<Out(Good.transfers[1].successor_script),
                                    Out(marker_script("transfer",
                                          Good.transfers[1].commitment))>>]]

CliCodes == {-28, -5}

CliFunding == {<<<<"F">>, 1>>}
CliHistory == <<{<<"C">>}, {}, {<<"M">>}, {<<"T">>}, {}>>
-----------------------------------------------------------------------------
SimulatedBundle == build_simulated_fixture(TRUE).bundle

WrittenBundles ==
  {Good, SpentTitle, WrongBlock, TooHigh, NoSuchTransaction, SimulatedBundle}

CliAltered ==
  {[SimulatedBundle EXCEPT !.profile = "other"],
   [SimulatedBundle EXCEPT !.mint.commitment = Forged]}

CliBundles ==
  WrittenBundles \cup CliAltered \cup {build_simulated_fixture(FALSE).bundle}

Departures(d) ==
  UNION {{[d EXCEPT !.value[f] = class] : class \in Classes}
         \cup {[d EXCEPT !.times[f] = n] : n \in {0, 2}} : f \in FieldsOf(d.transfers)}
  \cup {[d EXCEPT !.unknown = {record}] : record \in {"bundle", "work", "previous"}}
  \cup {[d EXCEPT !.text = text] : text \in {"malformed", "other", "deep"}}

\* The departures end with the first command.
CliMaxCommands(f) ==
  IF f.holds = "document" /\ f.document # DocumentOf(f.bundle) THEN 1 ELSE 2

CliFiles ==
  {Absent} \cup {BundleFile(DocumentOf(b), b) : b \in WrittenBundles}
  \cup {BundleFile(d, SimulatedBundle) : d \in Departures(DocumentOf(SimulatedBundle))}
=============================================================================
