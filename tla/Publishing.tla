------------------------------ MODULE Publishing ------------------------------
(***************************************************************************)
(* What publishApiHits promises the HTTP layer, whatever becomes of the    *)
(* breaker, the channel and the connection underneath: every call gets at  *)
(* most one answer, and the answer says something about the queue.         *)
(*   "accepted" with publisher confirms: the queue has the event;          *)
(*   "rejected": the queue does not have it and never will;                *)
(*   "failed":   the queue may have it, but will not get it any more.      *)
(* Without confirms an accepted event may still be on its way, or lost.    *)
(***************************************************************************)
EXTENDS Naturals

CONSTANTS
    Calls,
    MaxAttempts    \* the first attempt and its retries

VARIABLES
    answer,     \* what each call has been answered, "open" until then
    copies,     \* copies of each call's event that the queue has received
    confirms    \* are publisher confirms on?

vars == <<answer, copies, confirms>>

Init ==
    /\ answer = [c \in Calls |-> "open"]
    /\ copies = [c \in Calls |-> 0]
    /\ confirms \in BOOLEAN

\* May the queue still receive the event of this call?
Deliverable(c) ==
    \/ answer[c] = "open"
    \/ answer[c] = "accepted" /\ ~confirms

Deliver(c) ==
    /\ Deliverable(c)
    /\ copies[c] < MaxAttempts
    /\ copies' = [copies EXCEPT ![c] = @ + 1]
    /\ UNCHANGED <<answer, confirms>>

Justified(c, a) ==
    CASE a = "accepted" -> confirms => copies[c] > 0
      [] a = "rejected" -> copies[c] = 0
      [] a = "failed" -> TRUE

Answer(c, a) ==
    /\ answer[c] = "open"
    /\ Justified(c, a)
    /\ answer' = [answer EXCEPT ![c] = a]
    /\ UNCHANGED <<copies, confirms>>

Next == \E c \in Calls :
            Deliver(c) \/ \E a \in {"accepted", "rejected", "failed"} : Answer(c, a)

Spec == Init /\ [][Next]_vars
=============================================================================
