-------------------------------- MODULE DagRuns --------------------------------
(***************************************************************************)
(* What DagController promises about the runs of DAGs and their rows: a    *)
(* DAG has one run at a time, a run belongs to one DAG for ever and is     *)
(* driven from one place, and the row of a run says "running" from the     *)
(* moment it is opened until it is closed (dag_controller.py:589-720).     *)
(*                                                                         *)
(* There are no calls here, no locks, no tasks and no event loop.  A run   *)
(* may be taken up again after it ended, on its own DAG; its row may be    *)
(* closed twice, the second time because it was cancelled after it had     *)
(* been closed.  A run that ends while its row says "running" is left      *)
(* behind: nobody closes the row of such a run unless it is taken up again.*)
(***************************************************************************)
CONSTANTS
  Dag, Run,
  None,     \* no run, no DAG
  Final     \* what a row says of a run that has ended

VARIABLES
  current,  \* the run that goes on, for each DAG
  open,     \* DAGs whose current run has opened its row
  status,   \* what the row of a run says
  home,     \* the DAG that the row of a run names
  left      \* runs that ended before their row was closed

vars == <<current, open, status, home, left>>

Init ==
  /\ current = [d \in Dag |-> None]
  /\ open = {}
  /\ status = [r \in Run |-> "absent"]
  /\ home = [r \in Run |-> None]
  /\ left = {}

Ends(d) ==
  /\ current' = [current EXCEPT ![d] = None]
  /\ open' = open \ {d}

-----------------------------------------------------------------------------
(* A new run, or one that the DAG has had before.                          *)
Admit(d, r) ==
  /\ current[d] = None
  /\ \A e \in Dag : current[e] # r
  /\ status[r] = "absent" \/ home[r] = d
  /\ current' = [current EXCEPT ![d] = r]
  /\ UNCHANGED <<open, status, home, left>>

Open(d) ==
  /\ current[d] # None
  /\ d \notin open
  /\ open' = open \union {d}
  /\ status' = [status EXCEPT ![current[d]] = "running"]
  /\ home' = [home EXCEPT ![current[d]] = d]
  /\ left' = left \ {current[d]}
  /\ UNCHANGED current

(* The row is closed, and the run goes on or ends with it.                 *)
Close(d, s) ==
  /\ d \in open
  /\ status' = [status EXCEPT ![current[d]] = s]
  /\ Ends(d) \/ UNCHANGED <<current, open>>
  /\ UNCHANGED <<home, left>>

(* Ends without an open row, or with one that has been closed.             *)
End(d) ==
  /\ current[d] # None
  /\ d \in open => status[current[d]] # "running"
  /\ Ends(d)
  /\ UNCHANGED <<status, home, left>>

Lose(d) ==
  /\ d \in open
  /\ status[current[d]] = "running"
  /\ Ends(d)
  /\ left' = left \union {current[d]}
  /\ UNCHANGED <<status, home>>

(* The process dies.                                                       *)
LoseAll ==
  /\ current' = [d \in Dag |-> None]
  /\ open' = {}
  /\ left' = {r \in Run : status[r] = "running"}
  /\ UNCHANGED <<status, home>>

Next ==
  \/ \E d \in Dag, r \in Run : Admit(d, r)
  \/ \E d \in Dag : Open(d) \/ End(d) \/ Lose(d)
  \/ \E d \in Dag, s \in Final : Close(d, s)
  \/ LoseAll

Spec == Init /\ [][Next]_vars
=============================================================================
