--------------------------------- MODULE Link ---------------------------------
(***************************************************************************)
(* What a connection promises: messages arrive whole and in the order sent,  *)
(* until it breaks; then nothing more arrives once its end has been seen.    *)
(***************************************************************************)
EXTENDS Naturals, Sequences

CONSTANTS Mail,       \* the messages
          Image(_)    \* a message as the other side sees it

VARIABLES sent, received,
          ended       \* the receiver has seen the end

vars == <<sent, received, ended>>

Init == sent = <<>> /\ received = <<>> /\ ended = FALSE

Send(m) == sent' = Append(sent, m) /\ UNCHANGED <<received, ended>>

Deliver ==
  /\ ~ ended /\ Len(received) < Len(sent)
  /\ received' = Append(received, Image(sent[Len(received) + 1]))
  /\ UNCHANGED <<sent, ended>>

End == ~ ended /\ ended' = TRUE /\ UNCHANGED <<sent, received>>

Next == (\E m \in Mail : Send(m)) \/ Deliver \/ End

Spec == Init /\ [][Next]_vars
===============================================================================
