---------------------------- MODULE MCAsyncEngine ----------------------------
(* Instances of the asynchronous engine for model checking.                *)
EXTENDS AsyncEngine

CONSTANTS c1, c2, c3, d1, d2, x1, k1, k2

(* Who is of which key, and on which shard. *)
ByName == [c \in Clients |-> IF c \in {d1, d2} THEN k2 ELSE k1]
OneShard == [k \in Keys |-> 1]
TwoLanes == 1..2

Engine(clients, admins, dynamic, lanes, maxQueues, maxStops) ==
    [clients |-> clients, admins |-> admins, dynamic |-> dynamic,
     lanes |-> 1..lanes, maxQueues |-> maxQueues, maxStops |-> maxStops]

(* Lanes created, retired and refused at the queue limit; operations of    *)
(* one key and stops that may time out; a section among two keys, and one  *)
(* beside a stop; a section and a stop on one shard.                       *)
Engines == {Engine({d1, c2, c3}, {}, TRUE, 2, 1, 0),
            Engine({c1, c2, c3}, {}, TRUE, 1, 0, 1),
            Engine({c1, c2}, {}, TRUE, 2, 0, 2),
            Engine({c2, d2}, {x1}, TRUE, 2, 1, 0),
            Engine({c2}, {x1}, TRUE, 2, 0, 1),
            Engine({c1, d2}, {x1}, FALSE, 1, 0, 1)}

(* Two operations of one key and a stop; a section, an operation, a stop. *)
Few == {Engine({c1, c2}, {}, TRUE, 2, 0, 1),
        Engine({c2}, {x1}, TRUE, 2, 0, 1)}

=============================================================================
