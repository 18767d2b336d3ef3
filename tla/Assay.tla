-------------------------------- MODULE Assay --------------------------------
(* What an assay promises while the chain only grows: the bundle is judged in    *)
(* two moments, whatever number of calls it takes.  It is held to be an unspent  *)
(* atom of the chain of one moment, and reported valid in a later one in which   *)
(* it is buried; refusing is always possible.  Module AssayRefinement shows that *)
(* verify_bundle implements it.                                                  *)
EXTENDS GenuineAtom

CONSTANTS
  Bundles,   \* the bundles a caller may present
  Network    \* the network of the node

VARIABLES
  bundle,    \* the bundle being judged
  outcome    \* "open", "held", "valid" or "invalid"

assayVars == <<nodeVars, bundle, outcome>>

AssayInit == NodeInit /\ bundle \in Bundles /\ outcome = "open"

Hold ==
  /\ outcome = "open"
  /\ bundle.profile \in DOMAIN Profiles
  /\ Profiles[bundle.profile].network = Network
  /\ GenuineHistory(chain, bundle)
  /\ TitleUnspent(chain, bundle)
  /\ Visible(TerminalTitle(bundle))
  /\ outcome' = "held"

Accept ==
  /\ outcome = "held"
  /\ Buried(chain, bundle)
  /\ outcome' = "valid"

Refuse ==
  /\ outcome \in {"open", "held"}
  /\ outcome' = "invalid"

AssayNext ==
  \/ (Hold \/ Accept \/ Refuse) /\ UNCHANGED <<nodeVars, bundle>>
  \/ Extend /\ UNCHANGED <<bundle, outcome>>

AssaySpec == AssayInit /\ [][AssayNext]_assayVars
=============================================================================
