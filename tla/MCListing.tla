----------------------------- MODULE MCListing -----------------------------
(* Listing on a small instance: a table of up to five rows, two on a page, *)
(* inserted in any order.                                                  *)
EXTENDS Listing

CONSTANTS r1

MCRows == 1..5
MCReaders == {r1}
=============================================================================
