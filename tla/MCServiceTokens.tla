-------------------------- MODULE MCServiceTokens --------------------------
(***************************************************************************)
(* Instances of ServiceTokens for TLC: products that migration 04 left     *)
(* without a token, and one that has its token from the console.           *)
(***************************************************************************)
EXTENDS ServiceTokensProofs, TLC

CONSTANTS x1, x2, x3

StartHash == [x \in Products |-> IF x = x3 THEN [by |-> None, of |-> x] ELSE None]
=============================================================================
