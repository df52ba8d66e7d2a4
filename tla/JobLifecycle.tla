---------------------------- MODULE JobLifecycle ----------------------------
(***************************************************************************)
(* What the durable confirmation of cloud actions promises to the operator *)
(* who submitted the actions, without loops, guards, tables or restarts.   *)
(*                                                                         *)
(* An action accepted by the provider may be written down as a job, once.  *)
(* An open job is tried again and again. It is completed only when, since  *)
(* acceptance, its resource was shown as the action asked for, and given   *)
(* up only after MaxAttempts tries. After that it does not change any      *)
(* more; only the deletion of its account removes it.                      *)
(*                                                                         *)
(* What is shown is what the provider's answers let the server see.        *)
(* Evidence says which of it counts for an action, a list that leaves out  *)
(* an existing resource included: the promise is as good as the lists are, *)
(* and no better.                                                          *)
(*                                                                         *)
(* ActionJobs implements this specification.                               *)
(***************************************************************************)
EXTENDS Naturals

CONSTANTS Job, Goal, Status, MaxAttempts, Evidence(_)

VARIABLES
  phase,  \* [Job -> {"none", "open", "completed", "unconfirmed"}]
  tries,  \* [Job -> Nat]: tries begun on the job that is written down
  goal,   \* [Job -> Goal \cup {"?"}]: what was asked for, once it was asked
  over,   \* requests that have ended: they write no job any more
  shown   \* [Job -> what was shown of its resource since acceptance]

vars == <<phase, tries, goal, over, shown>>

Init ==
  /\ phase = [j \in Job |-> "none"]
  /\ tries = [j \in Job |-> 0]
  /\ goal = [j \in Job |-> "?"]
  /\ over = {}
  /\ shown = [j \in Job |-> {}]

Ask(j, g) ==
  /\ j \notin over
  /\ goal[j] = "?"
  /\ goal' = [goal EXCEPT ![j] = g]
  /\ UNCHANGED <<phase, tries, over, shown>>

\* The provider accepts the action, its resource being in status s.
Accept(j, s) ==
  /\ j \notin over
  /\ goal[j] # "?"
  /\ shown[j] = {}
  /\ shown' = [shown EXCEPT ![j] = {s}]
  /\ UNCHANGED <<phase, tries, goal, over>>

\* A resource changes to s, and every accepted action on it can see that; or a list
\* shows s to one job alone.
Show(S, s) ==
  /\ \A j \in S : shown[j] # {}
  /\ shown' = [j \in Job |-> IF j \in S THEN shown[j] \cup {s} ELSE shown[j]]
  /\ UNCHANGED <<phase, tries, goal, over>>

\* The accepted action is written down; its request ends.
WriteDown(j) ==
  /\ j \notin over
  /\ shown[j] # {}
  /\ phase' = [phase EXCEPT ![j] = "open"]
  /\ over' = over \cup {j}
  /\ UNCHANGED <<tries, goal, shown>>

\* Requests end without a job: refused, failed, or cut off by a restart.
EndWithout(S) ==
  /\ over' = over \cup S
  /\ UNCHANGED <<phase, tries, goal, shown>>

Try(j) ==
  /\ phase[j] = "open"
  /\ tries' = [tries EXCEPT ![j] = @ + 1]
  /\ UNCHANGED <<phase, goal, over, shown>>

\* n tries have been made, the one that decides included; that one may not have
\* been counted before.
Decide(j, n, verdict) ==
  /\ phase[j] = "open"
  /\ n \in {tries[j], tries[j] + 1}
  /\ phase' = [phase EXCEPT ![j] = verdict]
  /\ tries' = [tries EXCEPT ![j] = n]
  /\ UNCHANGED <<goal, over, shown>>

Complete(j, n) ==
  /\ shown[j] \cap Evidence(goal[j]) # {}
  /\ Decide(j, n, "completed")

GiveUp(j, n) ==
  /\ n >= MaxAttempts
  /\ Decide(j, n, "unconfirmed")

\* An account is deleted and its jobs with it.
Drop(S) ==
  /\ phase' = [j \in Job |-> IF j \in S THEN "none" ELSE phase[j]]
  /\ tries' = [j \in Job |-> IF j \in S THEN 0 ELSE tries[j]]
  /\ UNCHANGED <<goal, over, shown>>

Next ==
  \/ \E j \in Job, g \in Goal : Ask(j, g)
  \/ \E j \in Job, s \in Status : Accept(j, s)
  \/ \E S \in SUBSET Job, s \in Status : Show(S, s)
  \/ \E j \in Job : WriteDown(j) \/ Try(j)
  \/ \E j \in Job : \E n \in {tries[j], tries[j] + 1} : Complete(j, n) \/ GiveUp(j, n)
  \/ \E S \in SUBSET Job : EndWithout(S) \/ Drop(S)

Spec == Init /\ [][Next]_vars
=============================================================================
