-------------------------- MODULE ExecutorService ---------------------------
(***************************************************************************)
(* What the execution manager promises about one executor, without threads *)
(* or instruction lists: it is accepted while the shop is open, begins at  *)
(* most once, runs and sleeps in turn, and ends for good.                  *)
(***************************************************************************)
CONSTANT ExecutorIDs

VARIABLES open,   \* whether executors are still accepted
          phase   \* where each executor is in its life

svcVars == <<open, phase>>

Phases == {"unknown", "accepted", "running", "suspended", "ended"}

ServiceInit ==
  /\ open = TRUE
  /\ phase = [e \in ExecutorIDs |-> "unknown"]

Move(e, from, to) ==
  /\ phase[e] = from
  /\ phase' = [phase EXCEPT ![e] = to]

Accept(e)  == open /\ Move(e, "unknown", "accepted") /\ UNCHANGED open
Begin(e)   == Move(e, "accepted", "running") /\ UNCHANGED open
Suspend(e) == Move(e, "running", "suspended") /\ UNCHANGED open
End(e)     == Move(e, "running", "ended") /\ UNCHANGED open

\* A signal wakes one executor, or all those of a thread.
Wake(S) ==
  /\ \A e \in S : phase[e] = "suspended"
  /\ phase' = [e \in ExecutorIDs |-> IF e \in S THEN "running" ELSE phase[e]]
  /\ UNCHANGED open

Close == open' = FALSE /\ UNCHANGED phase

ServiceNext ==
  \/ \E e \in ExecutorIDs : Accept(e) \/ Begin(e) \/ Suspend(e) \/ End(e)
  \/ \E S \in SUBSET ExecutorIDs : Wake(S)
  \/ Close

ServiceSpec == ServiceInit /\ [][ServiceNext]_svcVars
=============================================================================
