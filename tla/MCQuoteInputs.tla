---------------------------- MODULE MCQuoteInputs ----------------------------
(***************************************************************************)
(* QuoteInputs for TLC: settings below, at and above the range the code    *)
(* clamps them to.                                                         *)
(***************************************************************************)
EXTENDS QuoteInputs

MCRawPercents == {-5, 0, 1, 33, 99, 100, 150}
MCRawShares == {-1, 0, 1, 33, 80}
=============================================================================
