-------------------------------- MODULE CInt --------------------------------
(***************************************************************************)
(* The conversions of C between int and the wider types that sds.c and     *)
(* ae_epoll.c make without a cast: a long or a size_t that an int does not *)
(* hold is cut to the width of an int, and a negative int becomes a size_t *)
(* of twice that width.                                                    *)
(***************************************************************************)
EXTENDS Integers

CONSTANT IntMax     \* INT_MAX

ASSUME IntMaxAssumption == IntMax \in Nat

IntWidth == 2 * (IntMax + 1)

ToInt(n) ==
    IF n <= IntMax THEN n
    ELSE IF n % IntWidth <= IntMax THEN n % IntWidth ELSE (n % IntWidth) - IntWidth

ToSize(n) == IF n < 0 THEN n + IntWidth * IntWidth ELSE n
=============================================================================
