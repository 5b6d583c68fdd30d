-------------------------- MODULE MCJorqethSystem --------------------------
(* A small instance of the whole system for TLC: one campaign, one order,   *)
(* machines started with different records of it, and requests that fit the *)
(* campaign or do not.                                                      *)
EXTENDS JorqethSystem, TLC

CONSTANTS self, t1, t2, o1, s1, merchant, creator, id1

Sale(o)   == [order |-> o, net |-> 15000, readable |-> TRUE, refunded |-> FALSE]
Refund(o) == [order |-> o, net |-> 15000, readable |-> TRUE, refunded |-> TRUE]

\* Before and after a refund of the only order.
MCRecordLists == {<<Sale(o1)>>, <<Sale(o1), Refund(o1)>>}

MCConfigs ==
    {[merchant |-> merchant, creator |-> creator, campaignId |-> id1, ruleVersion |-> 1,
      campaignEnd |-> 2]}

Term(rule, issuedAt, expiry) ==
    [schemaVersion |-> SchemaVersion, campaignId |-> id1, creator |-> creator,
     chainId |-> ChainId, settlementContract |-> s1, ruleVersion |-> rule,
     issuedAt |-> issuedAt, expiry |-> expiry]

\* For one block, from the next block to the end, under another rule, past the end.
MCTerms == {Term(1, 0, 1), Term(1, 1, 2), Term(2, 0, 2), Term(1, 0, 3)}

\* 1.5 and 3 base units at the rates 1 and 2, of which the floor is paid.
MCResults ==
    {[schemaVersion |-> t.schemaVersion, campaignId |-> t.campaignId, orderDigest |-> o,
      creator |-> t.creator, amount |-> a, eligibilityCode |-> code, chainId |-> t.chainId,
      settlementContract |-> t.settlementContract, ruleVersion |-> t.ruleVersion,
      issuedAt |-> t.issuedAt, expiry |-> t.expiry] :
        t \in MCTerms, o \in Orders, a \in {0, 1, 2, 3}, code \in {0, 1}}

\* Nothing tells the two machines apart.
MCSymmetry == Permutations(Tees)

MCInitialBalance == [a \in Users \cup Contracts |-> IF a = merchant THEN 3 ELSE 0]
=============================================================================
