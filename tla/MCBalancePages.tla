--------------------------- MODULE MCBalancePages ---------------------------
(***************************************************************************)
(* Small instance: one provider with an investment account and one that is *)
(* not in USD, another with one investment account.                        *)
(***************************************************************************)
EXTENDS BalancePages

CONSTANTS a1, a2, b1, pp, xero

MCPortfolio  == {a1, b1}
MCAccounts   == {a1, a2, b1}
MCProviders  == {pp, xero}
MCProviderOf == [a \in MCAccounts |-> IF a = b1 THEN xero ELSE pp]
MCValues     == {1, 2}
MCNoValue    == 0

Sends(x, y, z) == [a \in MCAccounts |-> IF a = a1 THEN x ELSE IF a = a2 THEN y ELSE z]

\* pp reports a1; pp swaps it for a2 while xero reports; pp reports a1 changed;
\* an empty delivery.
MCDeliveryChoices == {Sends(1, 0, 0), Sends(0, 1, 1), Sends(2, 0, 0), Sends(0, 0, 0)}
=============================================================================
