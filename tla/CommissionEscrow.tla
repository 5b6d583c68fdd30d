-------------------------- MODULE CommissionEscrow --------------------------
(***************************************************************************)
(* What a Jorqeth campaign promises, with nothing said about results,      *)
(* signatures, clocks or tokens.  A campaign is a pool of the merchant's   *)
(* money and one verdict per order.  While the campaign is open an order   *)
(* may be decided, once, for an amount the pool holds; once it is closed   *)
(* the merchant may take back what is left, and nothing else may happen to *)
(* the pool except new deposits.                                           *)
(*                                                                         *)
(* JorqethSettlement implements this specification.                        *)
(***************************************************************************)
EXTENDS Integers

CONSTANTS
    Contracts,   \* the campaigns
    Orders,      \* the orders a campaign may be asked to pay for
    Amounts,     \* the amounts a deposit may have
    Undecided    \* the verdict of an order that has none yet

VARIABLES
    pool,        \* pool[s]: what campaign s still holds for its orders
    verdict,     \* verdict[s][o]: the amount order o was decided for
    closed       \* the campaigns whose window is over

escrowVars == <<pool, verdict, closed>>

Init ==
    /\ pool = [s \in Contracts |-> 0]
    /\ verdict = [s \in Contracts |-> [o \in Orders |-> Undecided]]
    /\ closed = {}

Deposit(s, a) ==
    /\ pool' = [pool EXCEPT ![s] = @ + a]
    /\ UNCHANGED <<verdict, closed>>

\* An order that is denied is decided for zero.
Decide(s, o, a) ==
    /\ s \notin closed
    /\ verdict[s][o] = Undecided
    /\ verdict' = [verdict EXCEPT ![s][o] = a]
    /\ pool' = [pool EXCEPT ![s] = @ - a]
    /\ UNCHANGED closed

Reclaim(s, a) ==
    /\ s \in closed
    /\ pool' = [pool EXCEPT ![s] = @ - a]
    /\ UNCHANGED <<verdict, closed>>

\* Time closes campaigns, several at once when their windows end together.
Close ==
    /\ closed \subseteq closed'
    /\ closed' \subseteq Contracts
    /\ UNCHANGED <<pool, verdict>>

Next ==
    \/ Close
    \/ \E s \in Contracts :
         \/ \E a \in Amounts : Deposit(s, a)
         \/ \E a \in 0 .. pool[s] : Reclaim(s, a)
         \/ \E o \in Orders, a \in 0 .. pool[s] : Decide(s, o, a)

Spec == Init /\ [][Next]_escrowVars
=============================================================================
