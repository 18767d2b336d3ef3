--------------------------- MODULE AssayRefinement ---------------------------
(* verify_bundle, one call at a time, implements the assay in two moments: it   *)
(* holds the bundle when it has read the coin of the terminal title.            *)
EXTENDS Verifier

Outcome ==
  CASE verdict = "VALID"                             -> "valid"
    [] verdict \notin {"none", "VALID"}              -> "invalid"
    [] verdict = "none" /\ pc \in {"best", "tip"}    -> "held"
    [] verdict = "none" /\ pc \notin {"best", "tip"} -> "open"

Abstract == INSTANCE Assay WITH outcome <- Outcome

\* While the chain only grows, the calls of an assay, spread over any number of
\* blocks, amount to the two moments of module Assay: when gettxout answers, all
\* of the bundle is true at once and its title unspent, and when the report is
\* made the mint is buried (verify.py:146-387).
ImplementsAssay == Abstract!AssaySpec
=============================================================================
