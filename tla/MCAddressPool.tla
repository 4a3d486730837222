--------------------------- MODULE MCAddressPool ---------------------------
(* A small instance of AddressPool: two ranges of the file with a hole      *)
(* between them.                                                            *)
EXTENDS AddressPool

TwoRanges == <<Span(2, 5), Span(9, 10)>>
Resetting == {"reset"}
=============================================================================
