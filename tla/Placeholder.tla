----------------------------- MODULE Placeholder -----------------------------
(***************************************************************************)
(* What the placeholder message of one download job promises to the user    *)
(* who looks at it, with no Redis, no updater and no worker: which words it *)
(* may come to read, what has to have happened first, and which of them     *)
(* stay. Progress implements it.                                            *)
(*                                                                         *)
(* It is weaker than one would like in two places, and has to be: a late    *)
(* report may put a working stage over any other, and "failed" may be said  *)
(* of media an attempt could not tell it had sent.                          *)
(***************************************************************************)
VARIABLES
  screen,    \* the stage the message reads
  sent,      \* the media reached the user
  unsure,    \* an attempt could not tell, or not tell the next, that it sent it
  asked,     \* the user tapped the cancel button
  spoiled    \* something happened that may take a failure off the screen

vars == <<screen, sent, unsure, asked, spoiled>>

Working == {"analyzing", "downloading", "uploading", "stale"}
Ended   == {"done", "cancelled", "failed"}
Final   == {"refused", "gone"}

TypeOK ==
  /\ screen \in Working \cup Ended \cup Final
  /\ {sent, unsure, asked, spoiled} \subseteq BOOLEAN

Init ==
  /\ screen = "analyzing"
  /\ sent = FALSE /\ unsure = FALSE /\ asked = FALSE /\ spoiled = FALSE

Changes == screen \notin Final /\ (screen = "failed" => spoiled)

Earned(stage) ==
  /\ stage = "done" => sent
  /\ stage = "failed" => ~sent \/ unsure
  /\ stage = "cancelled" => asked

\* A failure may already be in danger as it is shown.
Show(stage) ==
  /\ Changes /\ Earned(stage)
  /\ screen' = stage
  /\ UNCHANGED spoiled \/ (stage = "failed" /\ spoiled' = TRUE)
  /\ UNCHANGED <<sent, unsure, asked>>

\* The job never was: its first words give way to the reason.
Refuse ==
  /\ screen = "analyzing" /\ ~sent /\ ~asked
  /\ screen' = "refused"
  /\ UNCHANGED <<sent, unsure, asked, spoiled>>

Remove ==
  /\ Changes
  /\ screen' = "gone"
  /\ UNCHANGED <<sent, unsure, asked, spoiled>>

Press ==
  /\ screen \notin Final /\ ~asked
  /\ asked' = TRUE
  /\ UNCHANGED <<screen, sent, unsure, spoiled>>

Deliver ==
  /\ screen # "refused"
  /\ sent' = TRUE
  /\ UNCHANGED unsure \/ unsure' = TRUE
  /\ UNCHANGED <<screen, asked, spoiled>>

Doubt ==
  /\ sent
  /\ unsure' = TRUE
  /\ UNCHANGED <<screen, sent, asked, spoiled>>

Spoil ==
  /\ screen # "refused"
  /\ spoiled' = TRUE
  /\ UNCHANGED <<screen, sent, unsure, asked>>

Next ==
  \/ \E stage \in Working \cup Ended : Show(stage)
  \/ Refuse \/ Remove
  \/ Press \/ Deliver \/ Doubt \/ Spoil

Spec == Init /\ [][Next]_vars
=============================================================================
