------------------------------- MODULE Texts -------------------------------
(***************************************************************************)
(* What a text, or a function that reads one, may be besides its value.    *)
(***************************************************************************)
CONSTANTS
    None,       \* empty, missing: Go's zero value
    Bad,        \* a text that does not parse
    Failed      \* a function's result: an error

ASSUME TextsAssumption == None # Bad /\ None # Failed /\ Bad # Failed

Given(x) == x # None

Else(x, y) == IF Given(x) THEN x ELSE y
=============================================================================
