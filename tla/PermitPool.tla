------------------------------ MODULE PermitPool ------------------------------
(***************************************************************************)
(* What a Resource entity promises to whoever uses it: a pool of `permits' *)
(* that are handed out first come, first served (resources.py:21-58).      *)
(*                                                                         *)
(* There is no deque here, no future and no event loop, only who has a     *)
(* permit, who waits for one, and who queued before whom.  A permit that   *)
(* comes back is promised at once to the user who waited longest.  A user  *)
(* cancelled while it waits, or before it has seen what it was promised,   *)
(* leaves without having entered.  The promise is lost then, and a spare   *)
(* permit goes with it: that is what the handler of acquire() does         *)
(* (resources.py:39-45), and no other step loses a permit.                 *)
(***************************************************************************)
EXTENDS Naturals

CONSTANTS
  User,
  Permits

VARIABLES
  spare,     \* permits that nobody has
  inside,    \* users that have a permit and use it
  promised,  \* users that a permit is on its way to
  waiting,   \* users that wait and have not been cancelled
  ahead,     \* pairs of waiting users: the first queued before the second
  leaving    \* users cancelled before they entered, and not gone yet

vars == <<spare, inside, promised, waiting, ahead, leaving>>

Init ==
  /\ spare = Permits
  /\ inside = {}
  /\ promised = {}
  /\ waiting = {}
  /\ ahead = {}
  /\ leaving = {}

Outside(u) == u \notin inside \union promised \union waiting \union leaving
First(u) == u \in waiting /\ \A v \in waiting : <<v, u>> \notin ahead

(* What is left of the order when only these users go on waiting.          *)
Among(users) == ahead \intersect (users \X users)

-----------------------------------------------------------------------------
(* A spare permit is taken only when nobody waits for it.                  *)
Take(u) ==
  /\ Outside(u)
  /\ waiting = {}
  /\ spare > 0
  /\ spare' = spare - 1
  /\ inside' = inside \union {u}
  /\ UNCHANGED <<promised, waiting, ahead, leaving>>

Queue(u) ==
  /\ Outside(u)
  /\ spare = 0
  /\ waiting' = waiting \union {u}
  /\ ahead' = ahead \union (waiting \X {u})
  /\ UNCHANGED <<spare, inside, promised, leaving>>

Enter(u) ==
  /\ u \in promised \ leaving
  /\ promised' = promised \ {u}
  /\ inside' = inside \union {u}
  /\ UNCHANGED <<spare, waiting, ahead, leaving>>

(* The permit of u goes back, or is promised to the first in the queue.    *)
Return(u) ==
  /\ u \in inside
  /\ waiting = {}
  /\ spare' = spare + 1
  /\ inside' = inside \ {u}
  /\ UNCHANGED <<promised, waiting, ahead, leaving>>

HandOver(u, v) ==
  /\ u \in inside
  /\ First(v)
  /\ inside' = inside \ {u}
  /\ promised' = promised \union {v}
  /\ waiting' = waiting \ {v}
  /\ ahead' = Among(waiting \ {v})
  /\ UNCHANGED <<spare, leaving>>

(* u hands its permit over and queues again, behind everybody.             *)
Renew(u, v) ==
  /\ u \in inside
  /\ First(v)
  /\ inside' = inside \ {u}
  /\ promised' = promised \union {v}
  /\ waiting' = (waiting \ {v}) \union {u}
  /\ ahead' = Among(waiting \ {v}) \union ((waiting \ {v}) \X {u})
  /\ UNCHANGED <<spare, leaving>>

(* A user that is inside is never thrown out.                              *)
Cancel(users) ==
  /\ users \subseteq waiting \union promised
  /\ waiting' = waiting \ users
  /\ ahead' = Among(waiting \ users)
  /\ leaving' = leaving \union users
  /\ UNCHANGED <<spare, inside, promised>>

Leave(u) ==
  /\ u \in leaving
  /\ leaving' = leaving \ {u}
  /\ promised' = promised \ {u}
  /\ spare' = IF spare > 0 THEN spare - 1 ELSE 0
  /\ UNCHANGED <<inside, waiting, ahead>>

Next ==
  \/ \E u \in User : Take(u) \/ Queue(u) \/ Enter(u) \/ Return(u) \/ Leave(u)
  \/ \E u, v \in User : HandOver(u, v) \/ Renew(u, v)
  \/ \E users \in SUBSET User : Cancel(users)

Spec == Init /\ [][Next]_vars
=============================================================================
