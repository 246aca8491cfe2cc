------------------------------- MODULE Batches -------------------------------
(***************************************************************************)
(* What shared_mutex_fair promises: "1 writer, batch of readers, 1 writer,   *)
(* batch of readers".  Whoever asks to read while somebody writes or wants to *)
(* write is let in with all the others who did, when the next writer is done. *)
(***************************************************************************)
CONSTANTS Readers, Writers

VARIABLES reading, queued,   \* readers inside, and those of the next batch
          asking, writing    \* writers that wait, and the one inside

vars == <<reading, queued, asking, writing>>

Init == reading = {} /\ queued = {} /\ asking = {} /\ writing = {}

Quiet == asking = {} /\ writing = {}

AskRead(r) ==
  /\ r \notin reading \cup queued
  /\ IF Quiet THEN reading' = reading \cup {r} /\ UNCHANGED queued
              ELSE queued' = queued \cup {r} /\ UNCHANGED reading
  /\ UNCHANGED <<asking, writing>>

EndRead(r) ==
  /\ r \in reading /\ reading' = reading \ {r}
  /\ UNCHANGED <<queued, asking, writing>>

AskWrite(w) ==
  /\ w \notin asking \cup writing /\ asking' = asking \cup {w}
  /\ UNCHANGED <<reading, queued, writing>>

Write(w) ==
  /\ reading = {} /\ writing = {} /\ w \notin writing
  /\ writing' = {w} /\ asking' = asking \ {w}
  /\ UNCHANGED <<reading, queued>>

EndWrite(w) ==
  /\ w \in writing /\ writing' = {}
  /\ reading' = queued /\ queued' = {}
  /\ UNCHANGED asking

Next == \/ \E r \in Readers : AskRead(r) \/ EndRead(r)
        \/ \E w \in Writers : AskWrite(w) \/ Write(w) \/ EndWrite(w)

Spec == Init /\ [][Next]_vars
===============================================================================
