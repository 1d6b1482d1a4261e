----------------------------- MODULE MCLoadTest -----------------------------
(* The signers of the runs of LoadTest.                                    *)
EXTENDS LoadTest

CONSTANTS a, b

TwoAccounts == <<a, b>>
=============================================================================
