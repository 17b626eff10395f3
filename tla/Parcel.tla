-------------------------------- MODULE Parcel --------------------------------
(***************************************************************************)
(* What one job brings to the chat of its user, with no attempts, uploads   *)
(* or ledger: the files of a post one after the other, or one link to all   *)
(* of them. Attempt implements it.                                          *)
(*                                                                         *)
(* Until something excuses it the user gets nothing twice, nothing out of   *)
(* order and never a link beside files; after that a later attempt may      *)
(* begin anew, and send what was sent, or send it in the other form. Once   *)
(* the job is over nothing arrives.                                         *)
(***************************************************************************)
EXTENDS Naturals

CONSTANTS
  MaxFiles,  \* the most files a post has
  Link       \* what arrives in place of files too big for the chat

VARIABLES
  fate,      \* of the job, as its row tells it
  got,       \* how often each file, and the link, arrived: never, once, again
  owed,      \* the files of the attempt that holds itself for delivered
  excused    \* an attempt could not know what had arrived, or not tell the next

vars == <<fate, got, owed, excused>>

Files == 1 .. MaxFiles

TypeOK ==
  /\ fate \in {"open", "done", "failed"}
  /\ got \in [Files \cup {Link} -> 0 .. 2]
  /\ owed \in Files
  /\ excused \in BOOLEAN

Init ==
  /\ fate = "open" /\ got = [f \in Files \cup {Link} |-> 0]
  /\ owed = 1 /\ excused = FALSE

\* All of a post of n files, or of that and nothing else.
Whole(n)   == got[Link] > 0 \/ \A f \in 1 .. n : got[f] > 0
Exactly(n) ==
  \/ got[Link] = 1 /\ \A f \in Files : got[f] = 0
  \/ got[Link] = 0 /\ \A f \in Files : got[f] = IF f <= n THEN 1 ELSE 0

Delivered(n) == Whole(n) /\ (~excused => Exactly(n))

InTurn(f) ==
  /\ got[f] = 0 /\ got[Link] = 0
  /\ \A g \in Files : IF f # Link /\ g < f THEN got[g] = 1 ELSE got[g] = 0

\* It may be the last thing an attempt does, which then is told it did not.
Arrive(f) ==
  /\ fate = "open"
  /\ ~excused => InTurn(f)
  /\ got' = [got EXCEPT ![f] = IF @ < 2 THEN @ + 1 ELSE @]
  /\ \/ UNCHANGED <<fate, excused>>
     \/ fate' \in {"open", "failed"} /\ excused' = TRUE
  /\ UNCHANGED owed

\* An attempt fails, dies or is cut off.
Falter ==
  /\ fate = "open"
  /\ fate' \in {"open", "failed"}
  /\ excused' \in {excused, TRUE}
  /\ UNCHANGED <<got, owed>>

\* What an attempt goes by in holding itself for delivered; the entry that
\* tells the next one may be lost.
Settle(n) ==
  /\ fate = "open"
  /\ Delivered(n)
  /\ owed' = n
  /\ excused' \in {excused, TRUE}
  /\ UNCHANGED <<fate, got>>

Finish ==
  /\ fate = "open"
  /\ Delivered(owed)
  /\ fate' = "done"
  /\ UNCHANGED <<got, owed, excused>>

Next ==
  \/ \E f \in Files \cup {Link} : Arrive(f)
  \/ \E n \in Files : Settle(n)
  \/ Falter \/ Finish

Spec == Init /\ [][Next]_vars
=============================================================================
