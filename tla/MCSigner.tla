------------------------------ MODULE MCSigner ------------------------------
(***************************************************************************)
(* Signer on model values: calls with and without a deadline.              *)
(***************************************************************************)
EXTENDS Signer
=============================================================================
