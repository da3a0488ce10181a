------------------------------ MODULE Processing ------------------------------
(***************************************************************************)
(* What the consumer does to the stores with each event, whatever becomes  *)
(* of deliveries, copies, retries, channels and processes: every event     *)
(* goes one way, once, and on its own.                                     *)
(*   "unseen":   no raw document, nothing counted, no key;                 *)
(*   "counting": the raw document is there, one upsert is at work on it;   *)
(*   "settled":  what has been counted by now is what will be.             *)
(* An event may be settled uncounted, if a process ends or a reply is      *)
(* lost, or counted more than once, if replies of Postgres are lost.       *)
(***************************************************************************)
EXTENDS Naturals

CONSTANTS
    Events,
    MaxCounts    \* the attempts of one upsert

VARIABLE life    \* the raw document, the count and the key of each event

vars == <<life>>

Life == [stage : {"unseen", "counting", "settled"}, counted : Nat,
         key : {"absent", "written"}]

Init == life = [e \in Events |-> [stage |-> "unseen", counted |-> 0, key |-> "absent"]]

\* Event e, which is at stage `from', is now as r says.
Moves(e, from, r) == life[e].stage = from /\ life'[e] = r

\* The raw document is inserted, the reply perhaps lost.
Insert(e) ==
    \E s \in {"counting", "settled"} :
        Moves(e, "unseen", [life[e] EXCEPT !.stage = s])

\* The event is counted, perhaps not for the last time.
Count(e) ==
    /\ life[e].counted < MaxCounts
    /\ \E s \in {"counting", "settled"} :
         Moves(e, "counting", [life[e] EXCEPT !.stage = s, !.counted = @ + 1])

\* The upsert ends, or its process does.
GiveUp(e) == Moves(e, "counting", [life[e] EXCEPT !.stage = "settled"])

\* The key is written when there is nothing left to do.
Mark(e) == Moves(e, "settled", [life[e] EXCEPT !.key = "written"])

\* The key expires, or Redis loses it.
Forget(e) ==
    life[e].key = "written" /\ life'[e] = [life[e] EXCEPT !.key = "absent"]

\* Events do not wait for each other: many can be given up at once.
Next ==
    /\ life' \in [Events -> Life]
    /\ \A e \in Events :
         \/ life'[e] = life[e]
         \/ Insert(e) \/ Count(e) \/ GiveUp(e) \/ Mark(e) \/ Forget(e)

Spec == Init /\ [][Next]_vars
=============================================================================
