--------------------------- MODULE MCReservations ---------------------------
(* Instances of Reservations for TLC: a filter that any of the places with *)
(* the tag fits, and one for a place by its name.                          *)
EXTENDS Reservations, TLC

CONSTANTS g1, p1

TagOrName == {{g1}, {p1}}

(* Tokens are interchangeable, and so are users.                           *)
Alike == Permutations(Token) \cup Permutations(User)

(* Bound: of the places, the one that can be asked for by name is deleted  *)
(* and added again.                                                        *)
OneDeleted == Place \ {p1} \subseteq exists
=============================================================================
