------------------------ MODULE MCJorqethSettlement ------------------------
(***************************************************************************)
(* Instances of JorqethSettlement for model checking.  m funds, k earns;   *)
(* c1 and c2 are two campaigns of the same factory, created by the same    *)
(* merchant with the same campaign id, rule and creator, so that only the  *)
(* contract address tells their results apart.                             *)
(***************************************************************************)
EXTENDS JorqethSettlement

CONSTANTS c1, c2, m, k, o1, o2, camp, rule

Terms(end) ==
    [merchant |-> m, creator |-> k, campaignId |-> camp, ruleVersion |-> rule,
     campaignEnd |-> end]

Result(s, o, code, amount, expiry) ==
    [schemaVersion |-> 1, campaignId |-> camp, orderDigest |-> o, creator |-> k,
     amount |-> amount, eligibilityCode |-> code, chainId |-> 114,
     settlementContract |-> s, ruleVersion |-> rule, issuedAt |-> 0,
     expiry |-> expiry]

TwoContracts == {c1, c2}
TwoUsers == {m, k}
OneCampaign == {camp}
OneRule == {rule}
TwoOrders == {o1, o2}
OneOrTwo == 1 .. 2

\* Two campaigns of different length.
LongAndShort == {Terms(2), Terms(3)}

\* Only the merchant has tokens at the start.
TokensOf(contracts, n) == [a \in TwoUsers \cup contracts |-> IF a = m THEN n ELSE 0]
TwoBalance == TokensOf(TwoContracts, 2)

\* One order bought through two campaigns, each with a result of its own that
\* differs in nothing but the contract, the second outliving a short campaign; a
\* denial signed for the order after a refund; a second order competing for the
\* escrow; and an outcome that pays nothing.
MCResults ==
    {Result(c1, o1, ELIGIBLE, 1, 2), Result(c1, o1, INELIGIBLE, 0, 2),
     Result(c2, o1, ELIGIBLE, 1, 3), Result(c1, o2, ELIGIBLE, 2, 2),
     Result(c1, o2, INFRASTRUCTURE_UNKNOWN, 1, 2)}
=============================================================================
