--------------------------- MODULE MC_PointerMotion ---------------------------
(* PointerMotion scaled down: 6-bit int, 4-bit displacements.               *)
EXTENDS PointerMotion

(* The edges of the range, and points apart by more than int represents.    *)
EdgePoints == {-32, -25, 0, 9, 31}
(* One, at and above the report's largest displacement, and the largest     *)
(* limit that int represents.                                               *)
SaneLimits == {1, 7, 8, 31}
(* The first limit that int does not represent, and the largest of all.     *)
HugeLimits == {32, 63}
NearPoints == {0, 5}
=============================================================================
