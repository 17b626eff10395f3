-------------------------------- MODULE Ticket --------------------------------
(***************************************************************************)
(* What each temporary link promises to the user who holds it, with no      *)
(* rows, requests, attempts or cleanup cycles: how long its file stays, how *)
(* many downloads it is good for, and that none is spent on nothing.        *)
(* TempLinks implements it, with every step of the system a step, or none,  *)
(* of each ticket.                                                          *)
(*                                                                         *)
(* The directory of a job has one file, whichever attempt filled it. Once   *)
(* the job delivers again a ticket is doubled, and its file may come and go *)
(* while it still has time: all that is left is the count.                  *)
(***************************************************************************)
EXTENDS Naturals

CONSTANTS
  Tickets,
  Max        \* downloads a ticket is good for

VARIABLES
  life,      \* not issued yet, due, or over: expired or revoked
  used,      \* downloads spent
  kept,      \* its file is there
  doubled    \* its job delivers, or has delivered, more than once

vars == <<life, used, kept, doubled>>

TypeOK ==
  /\ life \in [Tickets -> {"none", "due", "over"}]
  /\ used \in [Tickets -> 0..Max]
  /\ kept \in [Tickets -> BOOLEAN]
  /\ doubled \in [Tickets -> BOOLEAN]

Init ==
  /\ life = [t \in Tickets |-> "none"]
  /\ used = [t \in Tickets |-> 0]
  /\ kept = [t \in Tickets |-> FALSE]
  /\ doubled = [t \in Tickets |-> FALSE]

Rests(t) ==
  life'[t] = life[t] /\ used'[t] = used[t] /\ kept'[t] = kept[t] /\ doubled'[t] = doubled[t]

\* Only of a file that is there; the job may have issued another before.
Issue(t) ==
  /\ life[t] = "none" /\ life'[t] = "due"
  /\ kept'[t] = TRUE
  /\ used'[t] = used[t]

Spend(t) ==
  /\ life[t] = "due" /\ (kept[t] \/ doubled[t]) /\ used[t] < Max
  /\ used'[t] = used[t] + 1
  /\ life'[t] = life[t] /\ kept'[t] = kept[t] /\ doubled'[t] = doubled[t]

End(t) ==
  /\ life[t] = "due" /\ life'[t] = "over"
  /\ used'[t] = used[t] /\ kept'[t] = kept[t] /\ doubled'[t] = doubled[t]

\* Another attempt empties the directory, or another ticket means its file.
Double(t) ==
  /\ life[t] # "none"
  /\ doubled'[t] = TRUE
  /\ life'[t] = life[t] /\ used'[t] = used[t]

Lose(t) ==
  /\ life[t] = "over" \/ doubled[t]
  /\ kept'[t] = FALSE
  /\ life'[t] = life[t] /\ used'[t] = used[t] /\ doubled'[t] = doubled[t]

Refill(t) ==
  /\ life[t] # "none" /\ doubled[t]
  /\ kept'[t] = TRUE
  /\ life'[t] = life[t] /\ used'[t] = used[t] /\ doubled'[t] = doubled[t]

Step(t) ==
  \/ Rests(t) \/ Issue(t) \/ Spend(t) \/ End(t) \/ Double(t) \/ Lose(t) \/ Refill(t)

Next == TypeOK' /\ \A t \in Tickets : Step(t)

Spec == Init /\ [][Next]_vars
=============================================================================
