------------------------------- MODULE Circuits -------------------------------
(***************************************************************************)
(* The three functions sketched for Arcium's MPC (arcium/src/circuits.rs), *)
(* which are to judge and charge what the lending program judges and       *)
(* charges today.  Their 10_000 is the program's BPS_DENOMINATOR.          *)
(***************************************************************************)
EXTENDS ShadowMath

CheckLtv(collateral, borrow, ltv) ==
    borrow * BpsDenominator <= collateral * ltv

CheckLiquidatableAtLimit(collateral, borrow, factor) ==  \* fault: at the limit too
    collateral * factor <= borrow * BpsDenominator
CheckLiquidatable(collateral, borrow, factor) ==
    collateral * factor < borrow * BpsDenominator

\* The interest is cut to 64 bits; the sum overflows, to a panic or to what is
\* left of it, as the build has it.
Panic == -1
AccrueInterestRounded(borrow, rateBps, slots) ==  \* fault: rounded slot by slot
    {borrow + ((borrow * rateBps) \div BpsDenominator) * slots}
AccrueInterest(borrow, rateBps, slots) ==
    LET interest == (borrow * rateBps * slots) \div BpsDenominator
        sum == borrow + (interest % (U64Max + 1))
    IN  IF sum <= U64Max THEN {sum} ELSE {Panic, sum % (U64Max + 1)}

===============================================================================
