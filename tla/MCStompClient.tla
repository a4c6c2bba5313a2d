--------------------------- MODULE MCStompClient ----------------------------
EXTENDS StompClient, TLC

CONSTANTS p1, p2, ch1

Plain(c, id) == [command |-> c, mentions |-> {}, receiptId |-> id, dated |-> TRUE]

\* Messages of each command, with the receipts a client asks for, and one
\* with a date that is no number.
ServerMessages ==
  {Plain("CONNECTED", Null), Plain("ERROR", Null), Plain("MESSAGE", Null)}
  \cup {Plain("RECEIPT", id) : id \in 0..2}
  \cup {[Plain("MESSAGE", Null) EXCEPT !.dated = FALSE]}

\* Moreover a message whose text mentions another command.
TalkativeMessages ==
  ServerMessages \cup {[Plain("MESSAGE", Null) EXCEPT !.mentions = {"ERROR"}]}

Symmetry == Permutations(Objects)
=============================================================================
