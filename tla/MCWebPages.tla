------------------------------ MODULE MCWebPages ------------------------------
(* WebPages for TLC.  Rows are not interchangeable here: a page that is not in   *)
(* Lists has one row, chosen by OnlyRow.                                         *)
EXTENDS WebPages
=============================================================================
