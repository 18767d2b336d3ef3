---------------------------- MODULE BundleFormat ----------------------------
(* The two readers of a bundle file, GoldAtomBundle.read (goldatom/models.py)   *)
(* and the shape checks of scripts/verify_vectors.mjs, and the one writer.      *)
(*                                                                              *)
(* A document has the number of title transitions in its list (all alike, so    *)
(* one stands for them), the records with a field of an unknown name, and for   *)
(* every field how often it occurs and the class of its last value:             *)
(*   hash      32 bytes of lowercase hex      int       0 ... 2^32-1            *)
(*   hex       other bytes, at least one      wide      an integer from 2^32    *)
(*   empty     ""                             negative  an integer below 0      *)
(*   text      any other string               integral  the proper number as 1.0 *)
(*   object, array, true, null, fraction      what JSON calls so                *)
(* "proper" is the value that the field has in the bundle the document is of,   *)
(* whatever its class; any other class stands for another value.                *)
EXTENDS Naturals

Of(record, names) == {<<record, name>> : name \in names}

HashFields ==
  Of("outpoint", {"txid"})
  \cup Of("claim", {"block_hash", "target_hex", "commitment_hex"})
  \cup Of("work", {"challenge_block_hash", "challenge_digest_hex", "work_hash_hex"})
  \cup Of("mint", {"txid", "block_hash", "commitment_hex"})
  \cup Of("transfer", {"txid", "block_hash", "commitment_hex"})
  \cup Of("previous", {"txid"})

ByteFields ==
  Of("claim", {"seal_script_hex", "txout_proof"})
  \cup Of("mint", {"title_script_hex", "txout_proof"})
  \cup Of("transfer", {"successor_script_hex", "txout_proof"})

HeightFields ==
  Of("claim", {"height"}) \cup Of("work", {"challenge_height"})
  \cup Of("mint", {"height"}) \cup Of("transfer", {"height", "index"})

U32Fields ==
  Of("outpoint", {"vout"}) \cup Of("work", {"extra_nonce", "nonce"})
  \cup Of("mint", {"title_vout"}) \cup Of("transfer", {"successor_vout"})
  \cup Of("previous", {"vout"})

StringFields == Of("bundle", {"profile"}) \cup Of("claim", {"algorithm"})

\* The records and the list, and what marks the format.
FrameFields ==
  Of("bundle", {"format", "version", "claim", "work", "mint", "transfers"})
  \cup Of("claim", {"outpoint"}) \cup Of("transfer", {"previous_outpoint"})

Optional == Of("bundle", {"format", "version", "transfers"})

Fields == HashFields \cup ByteFields \cup HeightFields \cup U32Fields
            \cup StringFields \cup FrameFields

\* The fields of a document with so many transitions.
FieldsOf(transfers) ==
  {f \in Fields : f[1] \in {"transfer", "previous"} => transfers > 0}

Classes ==
  {"proper", "hash", "hex", "empty", "text", "int", "wide", "negative", "integral",
   "object", "array", "true", "null", "fraction"}

Document(text, transfers, unknown, times, value) ==
  [text |-> text, transfers |-> transfers, unknown |-> unknown, times |-> times,
   value |-> value]
-----------------------------------------------------------------------------
(* GoldAtomBundle.read *)

\* The values that __post_init__ of the records and from_dict let through.
Taken(f) ==
  CASE f \in HashFields   -> {"proper", "hash"}
    [] f \in ByteFields   -> {"proper", "hash", "hex"}
    [] f \in HeightFields -> {"proper", "int", "wide"}
    [] f \in U32Fields    -> {"proper", "int"}
    [] f \in StringFields -> {"proper", "hash", "hex", "text"}
    [] f \in FrameFields  -> {"proper"}

Complete(d) ==
  /\ d.unknown = {}
  /\ \A f \in FieldsOf(d.transfers) :
       \/ d.times[f] = 1 /\ d.value[f] \in Taken(f)
       \/ d.times[f] = 0 /\ f \in Optional

\* Mutant: whether transfers is a list is not asked before it is iterated.
IteratedUnasked(d) ==
  IF d.text = "deep" THEN "RecursionError"
  ELSE IF d.text = "object" /\ d.value[<<"bundle", "transfers">>] \in {"int", "null", "true"}
  THEN "TypeError"
  ELSE IF d.text = "object" /\ Complete(d) THEN "read" ELSE "ValueError"

\* A text that is not UTF-8, malformed or no object is refused like a wrong
\* value; json.loads gives up on deep nesting in its own way.
ReadOutcome(d) ==
  IF d.text = "deep" THEN "RecursionError"
  ELSE IF d.text = "object" /\ Complete(d) THEN "read" ELSE "ValueError"

\* The bundle that is read: its values, with the defaults of what is left out.
Parsed(d) ==
  LET transfers == IF d.times[<<"bundle", "transfers">>] = 0 THEN 0 ELSE d.transfers
  IN  [transfers |-> transfers,
       value     |-> [f \in FieldsOf(transfers) |->
                        IF d.times[f] = 0 THEN "proper" ELSE d.value[f]]]

\* Mutant: an empty list of transfers is not written.
WrittenCompact(b) ==
  Document("object", b.transfers, {},
           [f \in DOMAIN b.value |->
              IF f = <<"bundle", "transfers">> /\ b.transfers = 0 THEN 0 ELSE 1],
           b.value)

\* to_json
Written(b) ==
  Document("object", b.transfers, {}, [f \in DOMAIN b.value |-> 1], b.value)
-----------------------------------------------------------------------------
(* scripts/verify_vectors.mjs *)

\* What the checker asks of a field; JSON.parse does not tell 1.0 from 1, and what
\* no commitment covers in the last transition is not looked at.
Checked(f) ==
  CASE f \in Of("transfer", {"txid", "block_hash", "height", "txout_proof"}) -> Classes
    [] f \in Of("transfer", {"index"}) \cup Of("previous", {"vout"})
              \cup Of("bundle", {"version"}) -> {"proper", "integral"}
    [] f \in HashFields \ Of("previous", {"txid"}) -> {"proper", "hash"}
    [] f \in ByteFields -> {"proper", "hash", "hex", "empty"}
    [] f \in HeightFields \cup U32Fields -> {"proper", "int", "integral"}
    [] f \in StringFields \cup FrameFields \cup Of("previous", {"txid"}) -> {"proper"}

\* verifyBundle finds no fault in the shape; the last of two equal keys counts.
CheckerReads(d) ==
  /\ d.text = "object"
  /\ d.unknown \subseteq {"previous"}
  /\ \A f \in FieldsOf(d.transfers) : d.times[f] >= 1 /\ d.value[f] \in Checked(f)

\* Values the format allows and the checker does not: it knows two profiles and
\* one algorithm, heights below 2^32 and transitions in their order.
BeyondChecker(b) ==
  \E f \in DOMAIN b.value :
    \/ f \in StringFields \cup Of("transfer", {"index"}) \cup Of("previous", {"txid", "vout"})
         /\ b.value[f] # "proper"
    \/ b.value[f] = "wide"
=============================================================================
