------------------------------ MODULE JobStatus ------------------------------
(***************************************************************************)
(* What the table download_jobs promises to everything that reads it (the  *)
(* per-user cap, the cleanup sweep, the dashboards), with no queue, no      *)
(* worker and no status_version: the statuses of a job and the order they  *)
(* may come in. JobLifecycle implements it.                                *)
(*                                                                         *)
(* It is weaker than the state diagram of docs/09 section 6 in two places, *)
(* and has to be: the verdict of the reaper is provisional (Revive, Seal), *)
(* and any FAILED gives way to a delivery that did happen (Succeed).       *)
(***************************************************************************)
CONSTANT Jobs

VARIABLES
  status,     \* the JobStatus of every job, "NONE" before its row exists
  sent,       \* jobs whose media reached the user
  abandoned   \* FAILED jobs whose verdict is the reaper's

vars == <<status, sent, abandoned>>

Active   == {"PENDING", "PROCESSING"}
Terminal == {"DONE", "FAILED"}

TypeOK ==
  /\ status \in [Jobs -> {"NONE"} \cup Active \cup Terminal]
  /\ sent \subseteq Jobs
  /\ abandoned \subseteq Jobs

Init ==
  /\ status = [j \in Jobs |-> "NONE"]
  /\ sent = {}
  /\ abandoned = {}

Insert(j) ==
  /\ status[j] = "NONE"
  /\ status' = [status EXCEPT ![j] = "PENDING"]
  /\ UNCHANGED <<sent, abandoned>>

Start(j) ==
  /\ status[j] = "PENDING"
  /\ status' = [status EXCEPT ![j] = "PROCESSING"]
  /\ UNCHANGED <<sent, abandoned>>

Send(j) ==
  /\ status[j] # "NONE"
  /\ sent' = sent \cup {j}
  /\ UNCHANGED <<status, abandoned>>

Succeed(j) ==
  /\ status[j] \in {"PROCESSING", "FAILED"}
  /\ j \in sent
  /\ status' = [status EXCEPT ![j] = "DONE"]
  /\ abandoned' = abandoned \ {j}
  /\ UNCHANGED sent

Fail(j) ==
  /\ status[j] \in Active
  /\ status' = [status EXCEPT ![j] = "FAILED"]
  /\ UNCHANGED <<sent, abandoned>>

\* The reaper gives up on any number of jobs at once.
Abandon(S) ==
  /\ \A j \in S : status[j] \in Active
  /\ status' = [j \in Jobs |-> IF j \in S THEN "FAILED" ELSE status[j]]
  /\ abandoned' = abandoned \cup S
  /\ UNCHANGED sent

\* A worker that was still alive takes the job back.
Revive(j) ==
  /\ j \in abandoned
  /\ status' = [status EXCEPT ![j] = "PROCESSING"]
  /\ abandoned' = abandoned \ {j}
  /\ UNCHANGED sent

\* A worker or the bot that was still alive fails the job for good.
Seal(j) ==
  /\ j \in abandoned
  /\ abandoned' = abandoned \ {j}
  /\ UNCHANGED <<status, sent>>

Next ==
  \/ \E j \in Jobs : Insert(j) \/ Start(j) \/ Send(j) \/ Succeed(j) \/ Fail(j)
                     \/ Revive(j) \/ Seal(j)
  \/ \E S \in SUBSET Jobs : Abandon(S)

Spec == Init /\ [][Next]_vars
=============================================================================
