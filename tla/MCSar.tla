------------------------------- MODULE MCSar -------------------------------
(* Small instances of Sar: messages of two and three segments.              *)
EXTENDS Sar

TwoThree == <<1, 2>>
TwoTwo == <<1, 1>>
Orderly == {}
StaleAck == {"staleack"}
Wrap == {"wrap"}
=============================================================================
