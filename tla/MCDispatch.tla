----------------------------- MODULE MCDispatch -----------------------------
(***************************************************************************)
(* Dispatch for two clients.  One asks for a text and then for a binary    *)
(* file, the other for a binary file and then for something malformed.     *)
(* With a buffer of 3 units and sends of 2, a response of 1 unit fits if   *)
(* the buffer is not full of an earlier answer; the text of 3 is cut by    *)
(* MaxTransfer; a body of 2 fits or waits, as the buffer is; and the body  *)
(* of 4 cannot be written without its client reading, while the other one  *)
(* waits for the io thread.                                                *)
(***************************************************************************)
EXTENDS Dispatch

CONSTANTS c1, c2

Text(response)            == [response |-> response, content |-> 0, kind |-> "text"]
Binary(response, content) == [response |-> response, content |-> content, kind |-> "binary"]
Rejected(response)        == [response |-> response, content |-> 0, kind |-> "rejected"]

MCScript == [c \in Clients |->
    IF c = c1 THEN <<Text(3), Binary(1, 2)>> ELSE <<Binary(1, 4), Rejected(1)>>]
=============================================================================
