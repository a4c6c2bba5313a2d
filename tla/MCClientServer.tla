--------------------------- MODULE MCClientServer ---------------------------
(* Values for the model-checking runs of ClientServer. *)
EXTENDS ClientServer, TLC

CONSTANTS p1, p2, ch1, u1, pass1  \* model values

\* The server's frames, cut ones too, are the messages of this client's readers.
ServerMessages ==
  {[command |-> c, mentions |-> {}, receiptId |-> id, dated |-> d] :
     c \in {"CONNECTED", "RECEIPT", "ERROR", "MESSAGE"}, id \in Receipts \cup {Null},
     d \in BOOLEAN}

Symmetry == Permutations(Objects)
=============================================================================
