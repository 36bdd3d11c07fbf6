----------------------------- MODULE MCContracts -----------------------------
(***************************************************************************)
(* Contracts on a small ledger.                                            *)
(***************************************************************************)
EXTENDS Contracts

MCAmounts     == {1, 3}
MCPercentages == {3333, 6666, 10000}
MCValues      == {1, 2}
MCPowers      == {0, 1, 2}
MCDurations   == {0, 1}
MCPrices      == {0, 2, 3}
MCStalenesses == {0, 1}
MCDeviations  == {4000, 10000}

=============================================================================
