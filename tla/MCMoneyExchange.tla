--------------------------- MODULE MCMoneyExchange ---------------------------
(* A dollar of ten cents, a cent of four units. *)
EXTENDS MoneyExchange, TLC

CONSTANTS a1, a2, usd, sek

MCCurrency == (a1 :> usd) @@ (a2 :> sek)
MCUsdRates == (usd :> 40) @@ (sek :> 93)
==============================================================================
