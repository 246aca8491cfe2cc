------------------------------ MODULE MCOrderDesk ------------------------------
(* Two clients and two items.  The queries are the cases find() tells apart: *)
(* by ID, by a name that matches that item only, by a name that matches both,*)
(* by an ID that does not exist, and by nothing that exists.                 *)
EXTENDS OrderDesk, TLC

CONSTANTS c1, c2, c3, i1, i2

MCClients == {c1, c2}
MCItems == {i1, i2}
MCStock == (i1 :> 2) @@ (i2 :> 1)
MCQueries == {[match |-> {}, id |-> i1],
              [match |-> {i2}, id |-> i2],
              [match |-> {i1, i2}, id |-> i1],
              [match |-> {i1}, id |-> NoItem],
              [match |-> {}, id |-> NoItem]}
\* Three clients, who ask for one thing only: on Windows it takes three for one
\* to leave the mutex abandoned, one to lock it twice and one to wait for it.
MCThreeClients == {c1, c2, c3}
MCOneQuery == {[match |-> {}, id |-> i1]}
===============================================================================
