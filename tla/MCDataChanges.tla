---------------------------- MODULE MCDataChanges -----------------------------
(* Tables of one or two rows and two columns, loaded with the value a in   *)
(* the column that is not the key.                                         *)
EXTENDS DataChangeProperties

CONSTANTS a, b

TwoRows == << <<a, a>>, <<b, a>> >>
OneRow  == << <<a, a>> >>

(* The user types either value, or sets NULL.                              *)
TwoValues == {a, b}
AnyValue  == {a, b, Null}
===============================================================================
