-------------------------------- MODULE MCQueues -------------------------------
(***************************************************************************)
(* The queues and the condition variable, small.  They do not touch each    *)
(* other: a behaviour is one of one of them, and the others rest.           *)
(***************************************************************************)
EXTENDS CommandQueue, CompletedQueue, ConditionBase

CONSTANTS a1, a2, r1, r2, o1, o2, w1, w2, w3, n1

\* Two threads add and two remove, two orders.
MCAdders == {a1, a2}
MCRemovers == {r1, r2}
MCOrders == {o1, o2}

\* Three threads wait; nobody with a timeout, or two of them while only
\* notify_all is called.  With notify_one, a mix is another matter.
MCWaiters == {w1, w2, w3}
MCNotifiers == {n1}
MCUses == {[timed |-> {}, calls |-> {"one", "all"}], [timed |-> {w1, w2}, calls |-> {"all"}]}

VARIABLE part

partsVars == <<part, vars, compVars, cvVars>>

PartsInit ==
  /\ part \in {"command", "completed", "condition"}
  /\ Init /\ CompInit /\ CvInit
  /\ part # "condition" => use = CHOOSE u \in Uses : TRUE

Command(A) == part = "command" /\ A /\ UNCHANGED <<part, compVars, cvVars>>
Completed(A) == part = "completed" /\ A /\ UNCHANGED <<part, vars, cvVars>>
Condition(A) == part = "condition" /\ A /\ UNCHANGED <<part, vars, compVars>>

PartsNext == Command(Next) \/ Completed(CompNext) \/ Condition(CvNext)

\* The fairness of the parts.  A mutex that is free again and again is got by a
\* robot, which polls for ever (in a behaviour of the command queue), and by a
\* thread woken in cv_.wait; only one of the two can be enabled.  Nobody has to
\* call add, nor remove of the completed orders, nor to wake spuriously.
PartsSpec == /\ PartsInit /\ [][PartsNext]_partsVars
             /\ CallsGoOn /\ CompCallsGoOn /\ CvFairness
             /\ \A r \in Removers :
                  SF_partsVars(\/ Command(RemoveLock(r))
                               \/ Completed(place[r] = "woken" /\ CompRemoveLock(r)))
===============================================================================
