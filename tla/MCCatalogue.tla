---------------------------- MODULE MCCatalogue ----------------------------
(***************************************************************************)
(* Instances of Catalogue for TLC: a product with its free plan and        *)
(* another one, room for a second product and for new plans.               *)
(***************************************************************************)
EXTENDS CatalogueProofs, TLC

CONSTANTS x1, x2, p1, p2, p3, p4, Pro, basic, full

StartProducts == [x \in Products |-> IF x = x1 THEN [slug |-> Pro, token |-> TRUE] ELSE None]

StartPlans ==
  [p \in Plans |->
     CASE p = p1 -> [product |-> x1, slug |-> Free, active |-> TRUE, terms |-> basic]
       [] p = p2 -> [product |-> x1, slug |-> Pro, active |-> TRUE, terms |-> full]
       [] OTHER  -> None]

Interchangeable == Permutations(Requests) \cup Permutations(Plans \ {p1, p2})
                   \cup Permutations(Products \ {x1})
=============================================================================
