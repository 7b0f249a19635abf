--------------------------- MODULE MCEnforcement ---------------------------
(* Values of Enforcement's constants for TLC. *)
EXTENDS Enforcement

\* A key as provisionKey creates it at time 0.
Sold(limit, price, autoRenew) ==
  [AdoptedKey EXCEPT !.limit = limit, !.end = AddDate(0, MinPlanDays), !.price = price,
                     !.autoRenew = autoRenew]

OnlySold == {Sold(2, None, FALSE)}
AutoOrAdopted == {Sold(2, None, TRUE), AdoptedKey}
OnlyAutoRenewed == {Sold(2, None, TRUE)}
SoldAutoOrAdopted == {Sold(2, 1, TRUE), AdoptedKey}
=============================================================================
