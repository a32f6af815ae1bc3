--------------------------- MODULE MCPayoutEngine ---------------------------
(***************************************************************************)
(* Small instances of PayoutEngine for TLC.                                *)
(***************************************************************************)
EXTENDS PayoutEngine, TLC

CONSTANTS USDC, XLM, daily, weekly, alice, bob, worker, route

\* XLM has one decimal more than USDC; a factor of two between the minor units is
\* enough for amounts that one asset can hold and the other cannot.
MCGrain == [asset \in Assets |-> IF asset = USDC THEN 2 ELSE 1]

\* A day of one tick and a week of two days.
MCPeriod == [cadence \in Cadences |-> IF cadence = daily THEN 1 ELSE 2]
=============================================================================
