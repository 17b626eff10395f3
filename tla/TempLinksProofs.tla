--------------------------- MODULE TempLinksProofs ---------------------------
(***************************************************************************)
(* What TempLinks promises about links, files and slots, proved for any     *)
(* number of jobs, links and requests and any ages that keep               *)
(* SweepAgeAssumption.                                                     *)
(***************************************************************************)
EXTENDS TempLinks, TLAPS

USE ConstantsAssumption, SweepAgeAssumption DEF Api, Cleanup, Worker

-----------------------------------------------------------------------------
(***************************************************************************)
(* Type correctness.                                                       *)
(***************************************************************************)

LEMMA InitTypeOK == Init => TypeOK
  BY DEF Init, TypeOK, Run, Disk, NoRow, Row, NoRequest, Request, AtRest, Cleaner

LEMMA WorkerTypeOK ==
  ASSUME TypeOK, NEW j \in Jobs, WorkerStep(j) PROVE TypeOK'
<1> USE DEF TypeOK, To, At
<1>1. CASE StartRun(j)
  BY <1>1 DEF StartRun, Run, Disk
<1>2. CASE Resume(j)
  <2>1. \A a \in Run : [[a EXCEPT !.pc = "complete"] EXCEPT !.ran = 0] \in Run
    BY DEF Run
  <2>2. run' = [run EXCEPT ![j] = [[run[j] EXCEPT !.pc = "complete"] EXCEPT !.ran = 0]]
    BY <1>2 DEF Resume
  <2>3. run' \in [Jobs -> Run]
    BY <2>1, <2>2
  <2>4. QED
    BY <1>2, <2>3 DEF Resume
<1>3. CASE WriteFile(j)
  BY <1>3 DEF WriteFile, Run, Disk
<1>4. CASE SendMedia(j)
  BY <1>4 DEF SendMedia, Run
<1>5. CASE SendLink(j)
  BY <1>5 DEF SendLink, Run
<1>6. CASE RunFails(j)
  BY <1>6 DEF RunFails, Run
<1>7. CASE Complete(j)
  BY <1>7 DEF Complete, Run
<1>8. CASE CutRun(j)
  BY <1>8 DEF CutRun, Run
<1>9. CASE ReapJob(j)
  BY <1>9 DEF ReapJob
<1>10. ASSUME NEW l \in Links, IssueLink(j, l) PROVE TypeOK'
  BY <1>10 DEF IssueLink, Run, Row
<1>11. QED
  BY <1>1, <1>2, <1>3, <1>4, <1>5, <1>6, <1>7, <1>8, <1>9, <1>10 DEF WorkerStep

(* What the assignments of the longer actions come to, field by field. *)
LEMMA PassEffect ==
  ASSUME TypeOK, NEW r \in Requests, NEW pc \in {"registering", "serving"}, Pass(r, pc)
  PROVE  /\ req' \in [Requests -> Request]
         /\ \A q \in Requests : req'[q].link = req[q].link /\ req'[q].active = req[q].active
         /\ req'[r].pc = pc /\ \A q \in Requests \ {r} : req'[q] = req[q]
  BY DEF TypeOK, Pass, Request

LEMMA RefuseEffect ==
  ASSUME TypeOK, NEW r \in Requests, Refuse(r)
  PROVE  /\ req' \in [Requests -> Request]
         /\ req'[r].pc = "idle" /\ \A q \in Requests \ {r} : req'[q] = req[q]
<1>1. NoRequest \in Request /\ NoRequest.pc = "idle"
  BY DEF NoRequest, Request
<1>2. QED
  BY <1>1 DEF TypeOK, Refuse

LEMMA RegisterEffect ==
  ASSUME TypeOK, NEW l, link' = [link EXCEPT ![l].uses = @ + 1]
  PROVE  link' \in [Links -> Row]
<1>1. \A a \in Row : [a EXCEPT !.uses = a.uses + 1] \in Row
  BY DEF Row
<1>2. QED
  BY <1>1 DEF TypeOK

LEMMA DeactivateEffect ==
  ASSUME TypeOK, Deactivate
  PROVE  /\ link' \in [Links -> Row]
         /\ \A l \in Links :
              /\ link'[l].job = link[l].job /\ link'[l].try = link[l].try
              /\ link'[l].age = link[l].age /\ link'[l].uses = link[l].uses
              /\ link'[l].active <=> link[l].active /\ ~Expired(l)
<1>1. ASSUME NEW l \in Links
      PROVE  /\ link'[l] = [link[l] EXCEPT !.active = FALSE] \/ link'[l] = link[l]
             /\ link'[l].active <=> link[l].active /\ ~Expired(l)
  <2>1. link[l] \in Row /\ link[l].active \in BOOLEAN
    BY DEF TypeOK, Row
  <2>2. link'[l] = [link[l] EXCEPT !.active = link[l].active /\ ~Expired(l)]
    BY DEF Deactivate
  <2>3. CASE link[l].active /\ ~Expired(l)
    <3>1. (link[l].active /\ ~Expired(l)) = link[l].active
      BY <2>1, <2>3
    <3>2. link'[l] = link[l]
      BY <2>1, <2>2, <3>1 DEF Row
    <3>3. QED
      BY <3>2, <2>3
  <2>4. CASE ~(link[l].active /\ ~Expired(l))
    <3>1. (link[l].active /\ ~Expired(l)) = FALSE
      BY <2>1, <2>4
    <3>2. link'[l] = [link[l] EXCEPT !.active = FALSE]
      BY <2>2, <3>1
    <3>3. QED
      BY <2>1, <3>2, <2>4 DEF Row
  <2>5. QED
    BY <2>3, <2>4
<1>2. ASSUME NEW l \in Links PROVE link[l] \in Row /\ link'[l] \in Row
  <2>1. link[l] \in Row
    BY DEF TypeOK
  <2>2. [link[l] EXCEPT !.active = FALSE] \in Row
    BY <2>1 DEF Row
  <2>3. QED
    BY <1>1, <2>1, <2>2
<1>3. link' \in [Links -> Row]
  BY <1>2 DEF Deactivate
<1>4. QED
  BY <1>1, <1>2, <1>3 DEF Row

LEMMA RemoveFileEffect ==
  ASSUME TypeOK, NEW l \in Links, RemoveFile(l)
  PROVE  /\ disk' \in [Jobs -> Disk]
         /\ \A j \in Jobs : \/ disk'[j] = disk[j]
                            \/ j = link[l].job /\ disk'[j].age = 0 /\ disk'[j].file = FALSE
<1>1. CASE HasFile(l)
  <2> DEFINE i == link[l].job
  <2>1. disk' = [disk EXCEPT ![i].file = FALSE, ![i].age = 0]
    BY <1>1 DEF RemoveFile
  <2>2. ASSUME NEW j \in Jobs
        PROVE  /\ j # i => disk'[j] = disk[j]
               /\ j = i => disk'[j] = [[disk[j] EXCEPT !.file = FALSE] EXCEPT !.age = 0]
    BY <2>1 DEF TypeOK
  <2>3. \A j \in Jobs : disk[j] \in Disk
    BY DEF TypeOK
  <2>4. \A d \in Disk : [[d EXCEPT !.file = FALSE] EXCEPT !.age = 0] \in Disk
    BY DEF Disk
  <2>5. disk' \in [Jobs -> Disk]
    BY <2>1, <2>2, <2>3, <2>4 DEF TypeOK
  <2>6. ASSUME NEW j \in Jobs, j = i PROVE disk'[j].age = 0 /\ disk'[j].file = FALSE
    <3>1. disk[j] \in Disk /\ disk'[j] = [[disk[j] EXCEPT !.file = FALSE] EXCEPT !.age = 0]
      BY <2>2, <2>3, <2>6
    <3>2. QED
      BY <3>1 DEF Disk
  <2>7. QED
    BY <2>2, <2>5, <2>6
<1>2. CASE ~HasFile(l)
  BY <1>2 DEF RemoveFile, TypeOK
<1>3. QED
  BY <1>1, <1>2

LEMMA JudgeEffect ==
  ASSUME TypeOK, Judge
  PROVE  /\ disk' \in [Jobs -> Disk]
         /\ \A j \in Jobs : \/ disk'[j] = disk[j]
                            \/ j = cleaner.dir /\ disk'[j].age = 0
<1>1. CASE status[cleaner.dir] = "terminal"
  <2>1. disk' = [disk EXCEPT ![cleaner.dir] = [dir |-> FALSE, file |-> FALSE, age |-> 0]]
    BY <1>1 DEF Judge
  <2>2. QED
    BY <2>1 DEF TypeOK, Disk
<1>2. CASE status[cleaner.dir] # "terminal"
  BY <1>2 DEF Judge, TypeOK
<1>3. QED
  BY <1>1, <1>2

LEMMA TickEffect ==
  ASSUME TypeOK, Tick
  PROVE  /\ run' \in [Jobs -> Run]
         /\ disk' \in [Jobs -> Disk]
         /\ link' \in [Links -> Row]
         /\ \A j \in Jobs :
              /\ run'[j].pc = run[j].pc /\ run'[j].tries = run[j].tries
              /\ run[j].pc = "idle" => run'[j].ran = run[j].ran
              /\ run[j].pc # "idle" => run'[j].ran = run[j].ran + 1 /\ run[j].ran < JobTimeout
              /\ disk'[j].file = disk[j].file
              /\ disk'[j].age \in {disk[j].age, Older(disk[j].age, SweepAge)}
         /\ \A l \in Links :
              /\ link'[l].job = link[l].job /\ link'[l].try = link[l].try
              /\ link'[l].uses = link[l].uses /\ link'[l].active = link[l].active
              /\ Issued(l) => link'[l].age = Older(link[l].age, TTL + SweepAge)
<1>1. \A n, cap \in Nat : Older(n, cap) \in Nat
  BY DEF Older
<1>2. ASSUME NEW j \in Jobs
      PROVE  /\ run'[j] \in Run
             /\ run'[j].pc = run[j].pc /\ run'[j].tries = run[j].tries
             /\ run[j].pc = "idle" => run'[j].ran = run[j].ran
             /\ run[j].pc # "idle" => run'[j].ran = run[j].ran + 1 /\ run[j].ran < JobTimeout
  <2>1. run[j] \in Run
    BY DEF TypeOK
  <2>2. CASE run[j].pc = "idle"
    <3>1. run'[j] = run[j]
      BY <2>2 DEF Tick, At
    <3>2. QED
      BY <2>1, <2>2, <3>1
  <2>3. CASE run[j].pc # "idle"
    <3>1. run'[j] = [run[j] EXCEPT !.ran = run[j].ran + 1] /\ run[j].ran < JobTimeout
      BY <2>3 DEF Tick, At
    <3>2. QED
      BY <2>1, <2>3, <3>1 DEF Run
  <2>4. QED
    BY <2>2, <2>3
<1>3. ASSUME NEW j \in Jobs
      PROVE  /\ disk'[j] \in Disk
             /\ disk'[j].file = disk[j].file
             /\ disk'[j].age \in {disk[j].age, Older(disk[j].age, SweepAge)}
  <2>1. disk[j] \in Disk
    BY DEF TypeOK
  <2>2. \/ disk'[j] = disk[j]
        \/ disk'[j] = [disk[j] EXCEPT !.age = Older(disk[j].age, SweepAge)]
    BY DEF Tick
  <2>3. QED
    BY <1>1, <2>1, <2>2 DEF Disk
<1>4. ASSUME NEW l \in Links
      PROVE  /\ link'[l] \in Row
             /\ link'[l].job = link[l].job /\ link'[l].try = link[l].try
             /\ link'[l].uses = link[l].uses /\ link'[l].active = link[l].active
             /\ Issued(l) => link'[l].age = Older(link[l].age, TTL + SweepAge)
  <2>1. link[l] \in Row
    BY DEF TypeOK
  <2>2. CASE Issued(l)
    <3>1. link'[l] = [link[l] EXCEPT !.age = Older(link[l].age, TTL + SweepAge)]
      BY <2>2 DEF Tick
    <3>2. QED
      BY <1>1, <2>1, <3>1 DEF Row
  <2>3. CASE ~Issued(l)
    BY <2>1, <2>3 DEF Tick
  <2>4. QED
    BY <2>2, <2>3
<1>5. /\ run' = [j \in Jobs |-> run'[j]] /\ disk' = [j \in Jobs |-> disk'[j]]
      /\ link' = [l \in Links |-> link'[l]]
  BY DEF Tick
<1>6. QED
  BY <1>2, <1>3, <1>4, <1>5

LEMMA ApiTypeOK ==
  ASSUME TypeOK, NEW r \in Requests, ApiStep(r) PROVE TypeOK'
<1> USE DEF TypeOK
<1>1. ASSUME NEW l \in Links, NEW counted \in BOOLEAN, Arrive(r, l, counted) PROVE TypeOK'
  BY <1>1 DEF Arrive, Request, Row
<1>2. CASE CheckFile(r)
  <2>1. Refuse(r) \/ \E pc \in {"registering", "serving"} : Pass(r, pc)
    BY <1>2 DEF CheckFile
  <2>2. req' \in [Requests -> Request]
    BY <2>1, PassEffect, RefuseEffect
  <2>3. QED
    BY <2>2, <1>2 DEF CheckFile
<1>3. CASE Register(r)
  <2>1. Refuse(r) \/ Pass(r, "serving")
    BY <1>3 DEF Register
  <2>2. req' \in [Requests -> Request]
    BY <2>1, PassEffect, RefuseEffect
  <2>3. link' \in [Links -> Row]
    BY <1>3, RegisterEffect DEF Register
  <2>4. grants' \in [Links -> Nat]
    BY <1>3 DEF Register
  <2>5. QED
    BY <2>2, <2>3, <2>4, <1>3 DEF Register
<1>4. CASE Serve(r)
  BY <1>4, RefuseEffect DEF Serve
<1>5. QED
  BY <1>1, <1>2, <1>3, <1>4 DEF ApiStep

LEMMA CleanupTypeOK ==
  ASSUME TypeOK, CleanupStep PROVE TypeOK'
<1> USE DEF TypeOK, AtRest
<1>1. CASE Deactivate
  BY <1>1, DeactivateEffect DEF Deactivate, Cleaner
<1>2. CASE ListInactive
  BY <1>2 DEF ListInactive, Cleaner, Inactive
<1>3. CASE StartSweep
  BY <1>3 DEF StartSweep, Cleaner
<1>4. CASE Judge
  BY <1>4, JudgeEffect DEF Judge, Cleaner
<1>5. CASE EndCycle
  BY <1>5 DEF EndCycle, Cleaner
<1>6. CASE CycleFails
  BY <1>6 DEF CycleFails, Cleaner
<1>7. ASSUME NEW l \in Links, RemoveFile(l) PROVE TypeOK'
  BY <1>7, RemoveFileEffect DEF RemoveFile, Cleaner
<1>8. ASSUME NEW l \in Links, RemoveFails(l) PROVE TypeOK'
  BY <1>8 DEF RemoveFails, Cleaner
<1>9. ASSUME NEW j \in Jobs, Look(j) PROVE TypeOK'
  <2>1. \A c \in Cleaner : /\ [c EXCEPT !.dirs = @ \ {j}] \in Cleaner
                         /\ [c EXCEPT !.pc = "judging", !.dirs = @ \ {j}, !.dir = j] \in Cleaner
    BY DEF Cleaner
  <2>2. QED
    BY <1>9, <2>1 DEF Look
<1>10. QED
  BY <1>1, <1>2, <1>3, <1>4, <1>5, <1>6, <1>7, <1>8, <1>9 DEF CleanupStep

LEMMA NextTypeOK == TypeOK /\ [Next]_vars => TypeOK'
<1> SUFFICES ASSUME TypeOK, [Next]_vars PROVE TypeOK'
  OBVIOUS
<1>1. ASSUME NEW j \in Jobs, WorkerStep(j) PROVE TypeOK'
  BY <1>1, WorkerTypeOK
<1>2. ASSUME NEW r \in Requests, ApiStep(r) PROVE TypeOK'
  BY <1>2, ApiTypeOK
<1>3. CASE CleanupStep
  BY <1>3, CleanupTypeOK
<1>4. ASSUME NEW l \in Links, Revoke(l) PROVE TypeOK'
  BY <1>4 DEF Revoke, TypeOK, Row
<1>5. CASE Tick
  BY <1>5, TickEffect DEF Tick, TypeOK
<1>6. CASE UNCHANGED vars
  BY <1>6 DEF vars, TypeOK
<1>7. QED
  BY <1>1, <1>2, <1>3, <1>4, <1>5, <1>6 DEF Next

(* The variables keep their types: rows, directories, requests and the cycle. *)
THEOREM TypeCorrect == Spec => []TypeOK
<1>1. QED
  BY InitTypeOK, NextTypeOK, PTL DEF Spec

-----------------------------------------------------------------------------
(***************************************************************************)
(* What never goes back: rows stay, attempts grow, an expired link stays   *)
(* expired, a row switched off stays off.                                  *)
(***************************************************************************)

LinkGrows(l) ==
  /\ Issued(l)'
  /\ link'[l].job = link[l].job /\ link'[l].try = link[l].try
  /\ Tick \/ link'[l].age = link[l].age
  /\ Expired(l) => Expired(l)'
  /\ link'[l].active => link[l].active
  /\ l \in revoked => l \in revoked'

Grows ==
  /\ \A l \in Links : Issued(l) => LinkGrows(l)
  /\ \A j \in Jobs : run'[j].tries >= run[j].tries

(* A step that leaves both tables alone. *)
LEMMA StandsStill ==
  ASSUME TypeOK, UNCHANGED <<link, revoked>>,
         \A j \in Jobs : run'[j].tries >= run[j].tries
  PROVE  Grows
  BY DEF Grows, LinkGrows, Issued, Expired

LEMMA WorkerGrows ==
  ASSUME TypeOK, NEW j \in Jobs, WorkerStep(j) PROVE Grows
<1> USE DEF TypeOK, To, At, Run
<1>1. CASE StartRun(j)
  BY <1>1, StandsStill DEF StartRun
<1>2. CASE Resume(j)
  BY <1>2, StandsStill DEF Resume
<1>3. CASE WriteFile(j)
  BY <1>3, StandsStill DEF WriteFile
<1>4. CASE SendMedia(j)
  BY <1>4, StandsStill DEF SendMedia
<1>5. CASE SendLink(j)
  BY <1>5, StandsStill DEF SendLink
<1>6. CASE RunFails(j)
  BY <1>6, StandsStill DEF RunFails
<1>7. CASE Complete(j)
  BY <1>7, StandsStill DEF Complete
<1>8. CASE CutRun(j)
  BY <1>8, StandsStill DEF CutRun
<1>9. CASE ReapJob(j)
  BY <1>9, StandsStill DEF ReapJob
<1>10. ASSUME NEW l \in Links, IssueLink(j, l) PROVE Grows
  <2>1. \A k \in Links : Issued(k) => link'[k] = link[k]
    BY <1>10 DEF IssueLink
  <2>2. \A k \in Jobs : run'[k].tries = run[k].tries
    BY <1>10 DEF IssueLink
  <2>3. QED
    BY <1>10, <2>1, <2>2 DEF Grows, LinkGrows, Issued, Expired, IssueLink
<1>11. QED
  BY <1>1, <1>2, <1>3, <1>4, <1>5, <1>6, <1>7, <1>8, <1>9, <1>10 DEF WorkerStep

LEMMA ApiGrows ==
  ASSUME TypeOK, NEW r \in Requests, ApiStep(r) PROVE Grows
<1>1. CASE UNCHANGED link /\ UNCHANGED run /\ UNCHANGED revoked
  BY <1>1, StandsStill DEF TypeOK, Run
<1>2. CASE Register(r)
  <2>1. UNCHANGED run /\ UNCHANGED revoked
    BY <1>2 DEF Register
  <2>2. CASE UNCHANGED link
    BY <2>1, <2>2, <1>1
  <2>3. CASE link' = [link EXCEPT ![req[r].link].uses = @ + 1]
    <3>1. \A k \in Links : /\ link'[k].job = link[k].job /\ link'[k].try = link[k].try
                           /\ link'[k].age = link[k].age /\ link'[k].active = link[k].active
      BY <2>3 DEF TypeOK, Row
    <3>2. QED
      BY <2>1, <3>1 DEF Grows, LinkGrows, Issued, Expired, TypeOK, Run
  <2>4. QED
    BY <1>2, <2>2, <2>3 DEF Register
<1>3. QED
  BY <1>1, <1>2 DEF ApiStep, Arrive, CheckFile, Serve

LEMMA CleanupGrows ==
  ASSUME TypeOK, CleanupStep PROVE Grows
<1>1. CASE Deactivate
  <2>1. /\ UNCHANGED run /\ UNCHANGED revoked
        /\ \A j \in Jobs : run[j].tries \in Nat
    BY <1>1 DEF Deactivate, TypeOK, Run
  <2>2. ASSUME NEW l \in Links, Issued(l) PROVE LinkGrows(l)
    BY <1>1, <2>1, <2>2, DeactivateEffect DEF LinkGrows, Issued, Expired
  <2>3. QED
    BY <2>1, <2>2 DEF Grows
<1>2. CASE ~Deactivate
  <2>1. UNCHANGED link /\ UNCHANGED run /\ UNCHANGED revoked
    BY <1>2 DEF CleanupStep, ListInactive, StartSweep, Judge, EndCycle, CycleFails,
                RemoveFile, RemoveFails, Look
  <2>2. QED
    BY <2>1, StandsStill DEF TypeOK, Run
<1>3. QED
  BY <1>1, <1>2

LEMMA TickGrows == ASSUME TypeOK, Tick PROVE Grows
<1>1. \A n, cap \in Nat : Older(n, cap) >= n /\ Older(n, cap) \in Nat
  BY DEF Older
<1>2. ASSUME NEW l \in Links, Issued(l) PROVE link'[l].age >= link[l].age
  <2>1. link[l].age \in Nat /\ TTL + SweepAge \in Nat
    BY DEF TypeOK, Row
  <2>2. link'[l].age = Older(link[l].age, TTL + SweepAge)
    BY <1>2, TickEffect
  <2>3. QED
    BY <1>1, <2>1, <2>2
<1>3. ASSUME NEW l \in Links, Issued(l) PROVE LinkGrows(l)
  <2>1. link[l].age \in Nat /\ link'[l].age \in Nat /\ link'[l].age >= link[l].age
    BY <1>2, <1>3, TickEffect DEF TypeOK, Row
  <2>2. UNCHANGED revoked
    BY DEF Tick
  <2>3. Expired(l) => Expired(l)'
    BY <2>1 DEF Expired
  <2>4. QED
    BY <1>3, <2>2, <2>3, TickEffect DEF LinkGrows, Issued
<1>4. QED
  BY <1>3, TickEffect DEF Grows, TypeOK, Run

LEMMA StepGrows == ASSUME TypeOK, [Next]_vars PROVE Grows
<1>1. ASSUME NEW j \in Jobs, WorkerStep(j) PROVE Grows
  BY <1>1, WorkerGrows
<1>2. ASSUME NEW r \in Requests, ApiStep(r) PROVE Grows
  BY <1>2, ApiGrows
<1>3. CASE CleanupStep
  BY <1>3, CleanupGrows
<1>4. ASSUME NEW l \in Links, Revoke(l) PROVE Grows
  <2>1. \A k \in Links : /\ link'[k].job = link[k].job /\ link'[k].try = link[k].try
                         /\ link'[k].age = link[k].age
                         /\ link'[k].active => link[k].active
    BY <1>4 DEF Revoke, TypeOK, Row
  <2>2. QED
    BY <1>4, <2>1 DEF Revoke, Grows, LinkGrows, Issued, Expired, TypeOK, Run
<1>5. CASE Tick
  BY <1>5, TickGrows
<1>6. CASE UNCHANGED vars
  BY <1>6, StandsStill DEF vars, TypeOK, Run
<1>7. QED
  BY <1>1, <1>2, <1>3, <1>4, <1>5, <1>6 DEF Next

(* A link that is due was due before, and one that was rerun stays so. *)
LEMMA DueWasDue ==
  ASSUME Grows, NEW l \in Links, Issued(l), Due(l)' PROVE Due(l)
  BY DEF Grows, LinkGrows, Due

LEMMA RerunStays ==
  ASSUME TypeOK, TypeOK', Grows, NEW l \in Links, Issued(l), Rerun(l) PROVE Rerun(l)'
<1>1. /\ link[l].job \in Jobs /\ link[l].try \in Nat /\ link'[l].job = link[l].job
      /\ link'[l].try = link[l].try /\ \A j \in Jobs : run[j].tries \in Nat /\ run'[j].tries \in Nat
  BY DEF TypeOK, Row, Run, Issued, Grows, LinkGrows
<1>2. CASE link[l].try < run[link[l].job].tries
  BY <1>1, <1>2 DEF Grows, Rerun
<1>3. CASE \E k \in Links \ {l} : Issued(k) /\ link[k].job = link[l].job
  <2>1. PICK k \in Links \ {l} : Issued(k) /\ link[k].job = link[l].job
    BY <1>3
  <2>2. Issued(k)' /\ link'[k].job = link'[l].job
    BY <1>1, <2>1 DEF Grows, LinkGrows
  <2>3. QED
    BY <2>2 DEF Rerun
<1>4. QED
  BY <1>2, <1>3 DEF Rerun

-----------------------------------------------------------------------------
(***************************************************************************)
(* The age of a directory: its mtime is never further back than the attempt *)
(* in it began, and what the sweep has judged old stays old.               *)
(***************************************************************************)

InHand(j) == run[j].pc \in {"writing", "delivering", "sending"}

AttemptOK(j) == run[j].ran <= JobTimeout /\ (InHand(j) => disk[j].age <= run[j].ran)

JudgingOK ==
  cleaner.pc = "judging" => cleaner.dir \in Jobs /\ disk[cleaner.dir].age >= SweepAge

DiskInv == (\A j \in Jobs : AttemptOK(j)) /\ JudgingOK

LEMMA InitDiskInv == Init => DiskInv
  BY DEF Init, DiskInv, AttemptOK, InHand, JudgingOK, AtRest

LEMMA WorkerDiskInv ==
  ASSUME TypeOK, DiskInv, NEW j \in Jobs, WorkerStep(j) PROVE DiskInv'
<1> USE DEF To, At
<1>1. /\ \A i \in Jobs : /\ run[i] \in Run /\ run[i].ran \in Nat
                         /\ disk[i] \in Disk /\ disk[i].age \in Nat
      /\ run \in [Jobs -> Run] /\ disk \in [Jobs -> Disk]
  BY DEF TypeOK, Run, Disk
<1>2. UNCHANGED cleaner
  BY DEF WorkerStep, StartRun, Resume, WriteFile, SendMedia, SendLink, RunFails, Complete,
         CutRun, ReapJob, IssueLink
<1>3. \A i \in Jobs \ {j} : run'[i] = run[i] /\ disk'[i] = disk[i]
  BY <1>1 DEF WorkerStep, StartRun, Resume, WriteFile, SendMedia, SendLink, RunFails, Complete,
         CutRun, ReapJob, IssueLink
<1>4. AttemptOK(j)' /\ (cleaner.pc = "judging" /\ cleaner.dir = j => disk'[j].age >= SweepAge)
  <2>1. CASE StartRun(j)
    <3>1. run'[j].ran = 0 /\ disk'[j].age = 0 /\ disk[j].age < SweepAge
      BY <1>1, <2>1 DEF StartRun, Retryable
    <3>2. QED
      BY <3>1, <1>1 DEF AttemptOK, DiskInv, JudgingOK
  <2>2. CASE Resume(j)
    <3>1. run'[j].ran = 0 /\ run'[j].pc = "complete" /\ UNCHANGED disk
      BY <1>1, <2>2 DEF Resume, Run
    <3>2. QED
      BY <3>1, <1>1 DEF AttemptOK, InHand, DiskInv, JudgingOK
  <2>3. CASE WriteFile(j)
    <3>1. /\ run'[j].ran = run[j].ran /\ disk'[j].age \in {0, disk[j].age}
          /\ InHand(j)
      BY <1>1, <2>3 DEF WriteFile, InHand, Run
    <3>2. disk[j].age <= run[j].ran /\ run[j].ran <= JobTimeout /\ disk[j].age < SweepAge
      BY <1>1, <3>1 DEF DiskInv, AttemptOK
    <3>3. QED
      BY <1>1, <3>1, <3>2 DEF AttemptOK, DiskInv, JudgingOK
  <2>4. CASE \/ SendMedia(j) \/ SendLink(j) \/ RunFails(j) \/ Complete(j) \/ CutRun(j)
             \/ ReapJob(j) \/ \E l \in Links : IssueLink(j, l)
    <3>1. UNCHANGED disk /\ run'[j].ran = run[j].ran /\ (InHand(j)' => InHand(j))
      BY <1>1, <2>4 DEF SendMedia, SendLink, RunFails, Complete, CutRun, ReapJob, IssueLink,
                        InHand, Run
    <3>2. QED
      BY <1>1, <3>1 DEF AttemptOK, DiskInv, JudgingOK
  <2>5. QED
    BY <2>1, <2>2, <2>3, <2>4 DEF WorkerStep
<1>5. QED
  BY <1>2, <1>3, <1>4 DEF DiskInv, AttemptOK, InHand, JudgingOK

LEMMA CleanupDiskInv ==
  ASSUME TypeOK, DiskInv, CleanupStep PROVE DiskInv'
<1>1. \A i \in Jobs : run[i].ran \in Nat /\ disk[i].age \in Nat
  BY DEF TypeOK, Run, Disk
<1>2. UNCHANGED run
  BY DEF CleanupStep, Deactivate, ListInactive, StartSweep, Judge, EndCycle, CycleFails,
         RemoveFile, RemoveFails, Look
<1>3. \A i \in Jobs : disk'[i] = disk[i] \/ disk'[i].age = 0
  <2>1. CASE Judge
    BY <2>1, JudgeEffect
  <2>2. ASSUME NEW l \in Links, RemoveFile(l) PROVE \A i \in Jobs : disk'[i] = disk[i] \/ disk'[i].age = 0
    BY <2>2, RemoveFileEffect
  <2>3. QED
    BY <2>1, <2>2 DEF CleanupStep, Deactivate, ListInactive, StartSweep, EndCycle, CycleFails,
                      RemoveFails, Look
<1>4. JudgingOK'
  <2>1. ASSUME NEW j \in Jobs, Look(j), cleaner'.pc = "judging" PROVE JudgingOK'
    <3>1. UNCHANGED disk
      BY <2>1 DEF Look
    <3>2. cleaner'.dir = j /\ disk[j].age >= SweepAge
      BY <2>1 DEF Look, TypeOK, Cleaner
    <3>3. QED
      BY <3>1, <3>2 DEF JudgingOK
  <2>2. CASE ~\E j \in Jobs : Look(j)
    <3>1. cleaner' # AtRest => cleaner'.pc # "judging"
      BY <2>2 DEF CleanupStep, Deactivate, ListInactive, StartSweep, Judge, EndCycle, CycleFails,
                  RemoveFile, RemoveFails, TypeOK, Cleaner
    <3>2. QED
      BY <3>1 DEF JudgingOK, AtRest
  <2>3. CASE cleaner'.pc # "judging"
    BY <2>3 DEF JudgingOK
  <2>4. QED
    BY <2>1, <2>2, <2>3
<1>5. QED
  BY <1>1, <1>2, <1>3, <1>4 DEF DiskInv, AttemptOK, InHand

LEMMA TickDiskInv == ASSUME TypeOK, DiskInv, Tick PROVE DiskInv'
<1>1. ASSUME NEW j \in Jobs
      PROVE  /\ run[j].ran \in Nat /\ disk[j].age \in Nat /\ disk'[j].age <= disk[j].age + 1
             /\ disk[j].age >= SweepAge => disk'[j].age = disk[j].age
  <2>1. run[j].ran \in Nat /\ disk[j].age \in Nat
    BY DEF TypeOK, Run, Disk
  <2>2. disk'[j].age \in {disk[j].age, Older(disk[j].age, SweepAge)}
    BY TickEffect
  <2>3. QED
    BY <2>1, <2>2 DEF Older
<1>2. ASSUME NEW j \in Jobs PROVE AttemptOK(j)'
  <2>1. CASE run[j].pc = "idle"
    BY <1>1, <2>1, TickEffect DEF AttemptOK, DiskInv, InHand
  <2>2. CASE run[j].pc # "idle"
    <3>1. /\ run'[j].pc = run[j].pc /\ run'[j].ran = run[j].ran + 1 /\ run[j].ran < JobTimeout
          /\ run[j].ran \in Nat /\ disk[j].age \in Nat /\ disk'[j].age <= disk[j].age + 1
          /\ disk'[j].age \in Nat
      BY <1>1, <2>2, TickEffect DEF Disk
    <3>2. InHand(j)' => disk[j].age <= run[j].ran
      BY <3>1 DEF AttemptOK, DiskInv, InHand
    <3>3. QED
      BY <3>1, <3>2 DEF AttemptOK
  <2>3. QED
    BY <2>1, <2>2
<1>3. JudgingOK'
  BY <1>1 DEF JudgingOK, DiskInv, Tick
<1>4. QED
  BY <1>2, <1>3 DEF DiskInv

LEMMA NextDiskInv == ASSUME TypeOK, DiskInv, [Next]_vars PROVE DiskInv'
<1>1. ASSUME NEW j \in Jobs, WorkerStep(j) PROVE DiskInv'
  BY <1>1, WorkerDiskInv
<1>2. CASE CleanupStep
  BY <1>2, CleanupDiskInv
<1>3. CASE Tick
  BY <1>3, TickDiskInv
<1>4. CASE UNCHANGED <<run, disk, cleaner>>
  BY <1>4 DEF DiskInv, AttemptOK, InHand, JudgingOK
<1>5. QED
  BY <1>1, <1>2, <1>3, <1>4
     DEF Next, ApiStep, Arrive, CheckFile, Register, Serve, Revoke, vars

-----------------------------------------------------------------------------
(***************************************************************************)
(* Links and their files.                                                  *)
(***************************************************************************)

\* Inactive means expired or revoked, and an attempt issued the link.
RowOK(l) ==
  Issued(l) =>
    /\ link[l].active \/ Expired(l) \/ l \in revoked
    /\ link[l].try <= run[link[l].job].tries

\* The one file of a link whose job delivered once was dated by its attempt.
SoleOK(l) ==
  Issued(l) /\ ~Rerun(l) =>
    /\ disk[link[l].job].age <= link[l].age + JobTimeout
    /\ Due(l) => HasFile(l)

LinkInv ==
  /\ \A l \in Links : RowOK(l) /\ SoleOK(l)
  /\ \A l \in cleaner.todo : Issued(l) /\ ~link[l].active

LEMMA InitLinkInv == Init => LinkInv
  BY DEF Init, LinkInv, RowOK, SoleOK, Issued, NoRow, AtRest

(* A row appears only as IssueLink writes it. *)
LEMMA FreshLink ==
  ASSUME TypeOK, [Next]_vars, NEW l \in Links, ~Issued(l), Issued(l)'
  PROVE  \E j \in Jobs : IssueLink(j, l)
<1>1. ASSUME NEW j \in Jobs, NEW k \in Links, IssueLink(j, k) PROVE IssueLink(j, l)
  <2>1. k # l => link'[l] = link[l]
    BY <1>1 DEF IssueLink, TypeOK
  <2>2. QED
    BY <1>1, <2>1 DEF Issued
<1>2. ASSUME NEW r \in Requests, Register(r) PROVE FALSE
  BY <1>2 DEF Register, TypeOK, Row, Issued
<1>3. CASE Deactivate
  BY <1>3, DeactivateEffect DEF Issued
<1>4. ASSUME NEW k \in Links, Revoke(k) PROVE FALSE
  BY <1>4 DEF Revoke, TypeOK, Row, Issued
<1>5. CASE Tick
  BY <1>5, TickEffect DEF Issued
<1>6. CASE UNCHANGED link
  BY <1>6 DEF Issued
<1>7. QED
  BY <1>1, <1>2, <1>3, <1>4, <1>5, <1>6
     DEF Next, WorkerStep, StartRun, Resume, WriteFile, SendMedia, SendLink, RunFails, Complete,
         CutRun, ReapJob, ApiStep, Arrive, CheckFile, Serve, CleanupStep, ListInactive,
         StartSweep, Judge, EndCycle, CycleFails, RemoveFile, RemoveFails, Look, vars

(* Only the expiry and the operator switch a row off. *)
LEMMA SwitchedOff ==
  ASSUME TypeOK, [Next]_vars, NEW l \in Links, Issued(l), link[l].active
  PROVE  link'[l].active \/ Expired(l) \/ l \in revoked'
<1>1. ASSUME NEW j \in Jobs, NEW k \in Links, IssueLink(j, k) PROVE link'[l].active
  BY <1>1 DEF IssueLink, TypeOK
<1>2. ASSUME NEW r \in Requests, Register(r) PROVE link'[l].active
  BY <1>2 DEF Register, TypeOK, Row
<1>3. CASE Deactivate
  BY <1>3, DeactivateEffect
<1>4. ASSUME NEW k \in Links, Revoke(k) PROVE link'[l].active \/ l \in revoked'
  BY <1>4 DEF Revoke, TypeOK, Row
<1>5. CASE Tick
  BY <1>5, TickEffect
<1>6. CASE UNCHANGED link
  BY <1>6
<1>7. QED
  BY <1>1, <1>2, <1>3, <1>4, <1>5, <1>6
     DEF Next, WorkerStep, StartRun, Resume, WriteFile, SendMedia, SendLink, RunFails, Complete,
         CutRun, ReapJob, ApiStep, Arrive, CheckFile, Serve, CleanupStep, ListInactive,
         StartSweep, Judge, EndCycle, CycleFails, RemoveFile, RemoveFails, Look, vars

(* What a step does to one directory: keep the file, or one of three resets. *)
Kept(j)    == disk'[j].age <= disk[j].age /\ (disk[j].file => disk'[j].file)
Reset(j)   == disk'[j].age = 0 /\ run'[j].tries > run[j].tries
Removed(j) == disk'[j].age = 0 /\ \E k \in cleaner.todo : link[k].job = j
Swept(j)   == disk'[j].age = 0 /\ cleaner.pc = "judging" /\ cleaner.dir = j

LEMMA DirStep ==
  ASSUME TypeOK, [Next]_vars, ~Tick, NEW j \in Jobs
  PROVE  Kept(j) \/ Reset(j) \/ Removed(j) \/ Swept(j)
<1>1. disk[j] \in Disk /\ disk[j].age \in Nat /\ run[j].tries \in Nat
  BY DEF TypeOK, Disk, Run
<1>2. ASSUME NEW i \in Jobs, StartRun(i) PROVE Kept(j) \/ Reset(j)
  <2>1. j # i => disk'[j] = disk[j]
    BY <1>2 DEF StartRun, TypeOK
  <2>2. j = i => disk'[j].age = 0 /\ run'[j].tries = run[j].tries + 1
    BY <1>2 DEF StartRun, TypeOK, Run
  <2>3. QED
    BY <1>1, <2>1, <2>2 DEF Kept, Reset
<1>3. ASSUME NEW i \in Jobs, WriteFile(i) PROVE Kept(j)
  <2>1. j # i => disk'[j] = disk[j]
    BY <1>3 DEF WriteFile, TypeOK
  <2>2. j = i => disk'[j].age \in {0, disk[j].age} /\ disk'[j].file
    BY <1>3 DEF WriteFile, TypeOK
  <2>3. QED
    BY <1>1, <2>1, <2>2 DEF Kept
<1>4. ASSUME NEW l \in Links, RemoveFile(l) PROVE Kept(j) \/ Removed(j)
  <2>1. l \in cleaner.todo
    BY <1>4 DEF RemoveFile
  <2>2. disk'[j] = disk[j] \/ (j = link[l].job /\ disk'[j].age = 0)
    BY <1>4, RemoveFileEffect
  <2>3. disk'[j] = disk[j] => Kept(j)
    BY <1>1 DEF Kept
  <2>4. j = link[l].job /\ disk'[j].age = 0 => Removed(j)
    BY <2>1 DEF Removed
  <2>5. QED
    BY <2>2, <2>3, <2>4
<1>5. CASE Judge
  <2>1. cleaner.pc = "judging"
    BY <1>5 DEF Judge
  <2>2. QED
    BY <1>1, <1>5, <2>1, JudgeEffect DEF Kept, Swept
<1>6. CASE UNCHANGED disk
  BY <1>1, <1>6 DEF Kept
<1>7. QED
  BY <1>2, <1>3, <1>4, <1>5, <1>6
     DEF Next, WorkerStep, Resume, SendMedia, SendLink, RunFails, Complete, IssueLink,
         CutRun, ReapJob, ApiStep, Arrive, CheckFile, Register, Serve, CleanupStep, Deactivate,
         ListInactive, StartSweep, EndCycle, CycleFails, RemoveFails, Look, Revoke, vars

(* A link that has just been issued is as young as can be, and has its file. *)
LEMMA FreshSoleOK ==
  ASSUME TypeOK, DiskInv, NEW j \in Jobs, NEW l \in Links, IssueLink(j, l)
  PROVE  RowOK(l)' /\ SoleOK(l)'
<1>1. /\ link'[l].job = j /\ link'[l].try = run[j].tries /\ link'[l].age = 0 /\ link'[l].active
      /\ run'[j].tries = run[j].tries /\ UNCHANGED disk
  BY DEF IssueLink, TypeOK, To, Run
<1>2. /\ run[j].tries \in Nat /\ disk[j].age \in Nat /\ run[j].ran \in Nat
      /\ disk[j].age <= run[j].ran /\ run[j].ran <= JobTimeout /\ disk[j].file
  BY DEF IssueLink, At, TypeOK, Run, Disk, DiskInv, AttemptOK, InHand
<1>3. QED
  BY <1>1, <1>2 DEF RowOK, SoleOK, HasFile

LEMMA OldRowOK ==
  ASSUME TypeOK, TypeOK', LinkInv, [Next]_vars, NEW l \in Links, Issued(l) PROVE RowOK(l)'
<1>1. Grows
  BY StepGrows
<1>2. /\ link[l].job \in Jobs /\ link[l].try \in Nat /\ run[link[l].job].tries \in Nat
      /\ run'[link[l].job].tries \in Nat /\ link'[l].job = link[l].job
      /\ link'[l].try = link[l].try
      /\ link[l].try <= run[link[l].job].tries
      /\ run'[link[l].job].tries >= run[link[l].job].tries
  BY <1>1 DEF TypeOK, Row, Run, Issued, Grows, LinkGrows, LinkInv, RowOK
<1>3. link'[l].active \/ Expired(l)' \/ l \in revoked'
  <2>1. CASE link[l].active
    BY <1>1, <2>1, SwitchedOff DEF Grows, LinkGrows
  <2>2. CASE ~link[l].active
    BY <1>1, <2>2 DEF Grows, LinkGrows, LinkInv, RowOK
  <2>3. QED
    BY <2>1, <2>2
<1>4. QED
  BY <1>2, <1>3 DEF RowOK

(* The removals meet a due link only through another attempt of its job. *)
LEMMA OldSoleOK ==
  ASSUME TypeOK, TypeOK', DiskInv, LinkInv, [Next]_vars, NEW l \in Links, Issued(l)
  PROVE  SoleOK(l)'
<1> DEFINE j == link[l].job
<1>1. Grows
  BY StepGrows
<1> SUFFICES ASSUME ~Rerun(l)'
             PROVE  /\ disk'[j].age <= link'[l].age + JobTimeout
                    /\ Due(l)' => HasFile(l)'
  <2>1. link'[l].job = j
    BY <1>1 DEF Grows, LinkGrows
  <2>2. QED
    BY <2>1 DEF SoleOK
<1>2. /\ j \in Jobs /\ link'[l].job = j /\ ~Rerun(l) /\ (Due(l)' => Due(l))
      /\ link[l].age \in Nat /\ link'[l].age \in Nat
      /\ disk[j].age \in Nat /\ disk'[j].age \in Nat
  BY <1>1, RerunStays, DueWasDue DEF TypeOK, Row, Disk, Issued, Grows, LinkGrows
<1>3. disk[j].age <= link[l].age + JobTimeout /\ (Due(l) => disk[j].file)
  BY <1>2 DEF LinkInv, SoleOK, HasFile
<1>4. CASE Tick
  <2>1. /\ disk'[j].age \in {disk[j].age, Older(disk[j].age, SweepAge)}
        /\ disk'[j].file = disk[j].file
        /\ link'[l].age = Older(link[l].age, TTL + SweepAge)
    BY <1>2, <1>4, TickEffect
  <2>2. disk'[j].age <= link'[l].age + JobTimeout
    BY <1>2, <1>3, <2>1 DEF Older
  <2>3. QED
    BY <1>2, <1>3, <2>1, <2>2 DEF HasFile
<1>5. CASE ~Tick
  <2>1. link'[l].age = link[l].age
    BY <1>1, <1>5 DEF Grows, LinkGrows
  <2>2. CASE Kept(j)
    BY <1>2, <1>3, <2>1, <2>2 DEF Kept, HasFile
  <2>3. ASSUME Reset(j) PROVE FALSE
    <3>1. link[l].try <= run[j].tries /\ run'[j].tries > run[j].tries /\ link'[l].try = link[l].try
      BY <1>1, <2>3 DEF Reset, RowOK, LinkInv, Grows, LinkGrows
    <3>2. link[l].try \in Nat /\ run[j].tries \in Nat /\ run'[j].tries \in Nat
      BY <1>2 DEF TypeOK, Row, Run
    <3>3. link'[l].try < run'[link'[l].job].tries
      BY <1>2, <3>1, <3>2
    <3>4. QED
      BY <3>3 DEF Rerun
  <2>4. ASSUME Removed(j) PROVE ~Due(l)
    <3>1. PICK k \in cleaner.todo : link[k].job = j
      BY <2>4 DEF Removed
    <3>2. k \in Links /\ Issued(k) /\ ~link[k].active
      BY <3>1 DEF LinkInv, TypeOK, Cleaner
    <3>3. k = l
      BY <1>2, <3>1, <3>2 DEF Rerun
    <3>4. QED
      BY <3>2, <3>3 DEF LinkInv, RowOK, Due
  <2>5. ASSUME Swept(j) PROVE ~Due(l)
    <3>1. disk[j].age >= SweepAge
      BY <2>5 DEF Swept, DiskInv, JudgingOK
    <3>2. QED
      BY <1>2, <1>3, <3>1 DEF Due, Expired
  <2>6. Removed(j) \/ Swept(j) => disk'[j].age = 0
    BY DEF Removed, Swept
  <2>7. QED
    BY <1>2, <1>5, <2>2, <2>3, <2>4, <2>5, <2>6, DirStep
<1>6. QED
  BY <1>4, <1>5

LEMMA TodoStays ==
  ASSUME TypeOK, LinkInv, [Next]_vars, NEW l \in cleaner'.todo PROVE Issued(l)' /\ ~link'[l].active
<1>1. Grows
  BY StepGrows
<1>2. l \in cleaner.todo \/ l \in Inactive
  <2>1. CASE ListInactive
    BY <2>1 DEF ListInactive, TypeOK, Cleaner
  <2>2. CASE EndCycle \/ CycleFails
    BY <2>2 DEF EndCycle, CycleFails, AtRest
  <2>3. ASSUME NEW k \in Links, RemoveFile(k) \/ RemoveFails(k) PROVE l \in cleaner.todo
    BY <2>3 DEF RemoveFile, RemoveFails, TypeOK, Cleaner
  <2>4. CASE Deactivate \/ StartSweep \/ Judge \/ \E j \in Jobs : Look(j)
    BY <2>4 DEF Deactivate, StartSweep, Judge, Look, TypeOK, Cleaner
  <2>5. CASE UNCHANGED cleaner
    BY <2>5
  <2>6. QED
    BY <2>1, <2>2, <2>3, <2>4, <2>5
       DEF Next, WorkerStep, StartRun, Resume, WriteFile, SendMedia, SendLink, RunFails,
           Complete, IssueLink, CutRun, ReapJob, ApiStep, Arrive, CheckFile, Register, Serve,
           CleanupStep, Revoke, Tick, vars
<1>3. l \in Links /\ Issued(l) /\ ~link[l].active
  BY <1>2 DEF LinkInv, TypeOK, Cleaner, Inactive
<1>4. QED
  BY <1>1, <1>3 DEF Grows, LinkGrows

LEMMA NextLinkInv == ASSUME TypeOK, TypeOK', DiskInv, LinkInv, [Next]_vars PROVE LinkInv'
<1>1. ASSUME NEW l \in Links PROVE RowOK(l)' /\ SoleOK(l)'
  <2>1. CASE Issued(l)
    BY <2>1, OldRowOK, OldSoleOK
  <2>2. CASE ~Issued(l) /\ Issued(l)'
    BY <2>2, FreshLink, FreshSoleOK
  <2>3. CASE ~Issued(l)'
    BY <2>3 DEF RowOK, SoleOK
  <2>4. QED
    BY <2>1, <2>2, <2>3
<1>2. QED
  BY <1>1, TodoStays DEF LinkInv

(* The invariant: types, the age of directories, links and their files. *)
THEOREM LinksCorrect == Spec => [](TypeOK /\ DiskInv /\ LinkInv)
<1>1. Init => TypeOK /\ DiskInv /\ LinkInv
  BY InitTypeOK, InitDiskInv, InitLinkInv
<1>2. TypeOK /\ DiskInv /\ LinkInv /\ [Next]_vars => (TypeOK /\ DiskInv /\ LinkInv)'
  BY NextTypeOK, NextDiskInv, NextLinkInv
<1>3. QED
  BY <1>1, <1>2, PTL DEF Spec

(* While a link is due its file is on disk, whatever cleanup, the sweep and *)
(* the other attempts do, unless its job delivered more than once.          *)
THEOREM DueLinksHaveFiles == Spec => []DueLinkHasFile
<1>1. TypeOK /\ DiskInv /\ LinkInv => DueLinkHasFile
  BY DEF LinkInv, SoleOK, DueLinkHasFile, Due
<1>2. QED
  BY <1>1, LinksCorrect, PTL

-----------------------------------------------------------------------------
(***************************************************************************)
(* Requests and the counter.                                               *)
(***************************************************************************)

\* What a request has read says no more than what has become of the link.
ReqOK(r) ==
  req[r].pc # "idle" =>
    /\ req[r].link \in Links /\ Issued(req[r].link)
    /\ req[r].active \/ ~Due(req[r].link)

ReqInv == \A r \in Requests : ReqOK(r)

CountInv ==
  \A l \in Links :
    grants[l] = link[l].uses /\ link[l].uses <= MaxDownloads /\ (~Issued(l) => link[l].uses = 0)

LEMMA ReqStays ==
  ASSUME TypeOK, Grows, NEW r \in Requests, ReqOK(r), req'[r].pc # "idle" => req[r].pc # "idle",
         req'[r].link = req[r].link, req'[r].active = req[r].active
  PROVE  ReqOK(r)'
<1>1. SUFFICES ASSUME req'[r].pc # "idle"
               PROVE  /\ req[r].link \in Links /\ Issued(req[r].link)'
                      /\ req[r].active \/ ~Due(req[r].link)'
  BY DEF ReqOK
<1> DEFINE l == req[r].link
<1>2. l \in Links /\ Issued(l) /\ (req[r].active \/ ~Due(l))
  BY <1>1 DEF ReqOK
<1>3. Issued(l)' /\ (Due(l)' => Due(l))
  BY <1>2, DueWasDue DEF Grows, LinkGrows
<1>4. QED
  BY <1>2, <1>3

LEMMA ArrivalOK ==
  ASSUME TypeOK, LinkInv, NEW r \in Requests, NEW l \in Links, NEW counted \in BOOLEAN,
         Arrive(r, l, counted)
  PROVE  ReqOK(r)'
<1>1. req'[r].link = l /\ req'[r].active = link[l].active /\ UNCHANGED link /\ UNCHANGED revoked
  BY DEF Arrive, TypeOK
<1>2. Issued(l) /\ (link[l].active \/ ~Due(l))
  BY DEF Arrive, LinkInv, RowOK, Due
<1>3. QED
  BY <1>1, <1>2 DEF ReqOK, Issued, Due, Expired

LEMMA NextReqInv == ASSUME TypeOK, LinkInv, ReqInv, [Next]_vars PROVE ReqInv'
<1>1. Grows
  BY StepGrows
<1>2. SUFFICES ASSUME NEW q \in Requests PROVE ReqOK(q)'
  BY DEF ReqInv
<1>3. ReqOK(q)
  BY DEF ReqInv
<1>4. ASSUME req'[q] = req[q] PROVE ReqOK(q)'
  BY <1>1, <1>3, <1>4, ReqStays
<1>5. ASSUME req'[q].pc = "idle" PROVE ReqOK(q)'
  BY <1>5 DEF ReqOK
<1>6. ASSUME NEW r \in Requests, NEW l \in Links, NEW counted \in BOOLEAN, Arrive(r, l, counted)
      PROVE  ReqOK(q)'
  <2>1. q # r => req'[q] = req[q]
    BY <1>6 DEF Arrive, TypeOK
  <2>2. QED
    BY <1>4, <1>6, <2>1, ArrivalOK
<1>7. ASSUME NEW r \in Requests, NEW pc \in {"registering", "serving"}, Pass(r, pc), req[r].pc # "idle"
      PROVE  ReqOK(q)'
  BY <1>1, <1>3, <1>4, <1>7, PassEffect, ReqStays
<1>8. ASSUME NEW r \in Requests, Refuse(r) PROVE ReqOK(q)'
  BY <1>4, <1>5, <1>8, RefuseEffect
<1>9. CASE UNCHANGED req
  BY <1>4, <1>9
<1>10. ASSUME NEW r \in Requests, CheckFile(r) \/ Register(r) \/ Serve(r) PROVE ReqOK(q)'
  <2>1. /\ req[r].pc # "idle"
        /\ Refuse(r) \/ \E pc \in {"registering", "serving"} : Pass(r, pc)
    BY <1>10 DEF CheckFile, Register, Serve
  <2>2. QED
    BY <1>7, <1>8, <2>1
<1>11. QED
  BY <1>6, <1>9, <1>10
     DEF Next, WorkerStep, StartRun, Resume, WriteFile, SendMedia, SendLink, RunFails, Complete,
         IssueLink, CutRun, ReapJob, ApiStep, CleanupStep, Deactivate, ListInactive, StartSweep,
         Judge, EndCycle, CycleFails, RemoveFile, RemoveFails, Look, Revoke, Tick, vars

(* The entity a request holds was a row, and is no more hopeful than it. *)
THEOREM RequestsCorrect == Spec => []ReqInv
<1>1. Init => ReqInv
  BY DEF Init, ReqInv, ReqOK, NoRequest
<1>2. QED
  BY <1>1, NextReqInv, LinksCorrect, PTL DEF Spec

\* A slot of l was taken in this step.
Taken(l) ==
  /\ \E r \in Requests : req[r].pc # "idle" /\ req[r].link = l
  /\ link[l].active /\ ~Expired(l) /\ link[l].uses < MaxDownloads
  /\ link'[l].uses = link[l].uses + 1 /\ grants'[l] = grants[l] + 1

LEMMA UseStep ==
  ASSUME TypeOK, [Next]_vars, NEW l \in Links
  PROVE  \/ link'[l].uses = link[l].uses /\ grants'[l] = grants[l]
         \/ Taken(l)
         \/ ~Issued(l) /\ link'[l].uses = 0 /\ grants'[l] = grants[l]
<1> DEFINE Same == link'[l].uses = link[l].uses /\ grants'[l] = grants[l]
<1>1. ASSUME NEW j \in Jobs, NEW k \in Links, IssueLink(j, k)
      PROVE  Same \/ (~Issued(l) /\ link'[l].uses = 0 /\ grants'[l] = grants[l])
  <2>1. k # l => link'[l] = link[l]
    BY <1>1 DEF IssueLink, TypeOK
  <2>2. k = l => link'[l].uses = 0
    BY <1>1 DEF IssueLink, TypeOK
  <2>3. QED
    BY <1>1, <2>1, <2>2 DEF IssueLink
<1>2. ASSUME NEW r \in Requests, Register(r) PROVE Same \/ Taken(l)
  <2>1. CASE UNCHANGED <<link, grants>>
    BY <2>1
  <2>2. CASE ~UNCHANGED <<link, grants>>
    <3> DEFINE k == req[r].link
    <3>1. /\ req[r].pc # "idle"
          /\ link[k].active /\ ~Expired(k) /\ link[k].uses < MaxDownloads
          /\ link' = [link EXCEPT ![k].uses = @ + 1] /\ grants' = [grants EXCEPT ![k] = @ + 1]
      BY <1>2, <2>2 DEF Register
    <3>2. k # l => Same
      BY <3>1 DEF TypeOK
    <3>3. k = l => link'[l].uses = link[l].uses + 1 /\ grants'[l] = grants[l] + 1
      BY <3>1 DEF TypeOK, Row
    <3>4. QED
      BY <3>1, <3>2, <3>3 DEF Taken
  <2>3. QED
    BY <2>1, <2>2
<1>3. CASE Deactivate
  BY <1>3, DeactivateEffect DEF Deactivate
<1>4. ASSUME NEW k \in Links, Revoke(k) PROVE Same
  BY <1>4 DEF Revoke, TypeOK, Row
<1>5. CASE Tick
  BY <1>5, TickEffect DEF Tick
<1>6. CASE UNCHANGED link /\ UNCHANGED grants
  BY <1>6
<1>7. QED
  BY <1>1, <1>2, <1>3, <1>4, <1>5, <1>6
     DEF Next, WorkerStep, StartRun, Resume, WriteFile, SendMedia, SendLink, RunFails, Complete,
         CutRun, ReapJob, ApiStep, Arrive, CheckFile, Serve, CleanupStep, ListInactive,
         StartSweep, Judge, EndCycle, CycleFails, RemoveFile, RemoveFails, Look, vars

LEMMA NextCountInv == ASSUME TypeOK, ReqInv, CountInv, [Next]_vars PROVE CountInv'
<1>1. SUFFICES ASSUME NEW l \in Links
               PROVE  /\ grants'[l] = link'[l].uses /\ link'[l].uses <= MaxDownloads
                      /\ ~Issued(l)' => link'[l].uses = 0
  BY DEF CountInv
<1>2. /\ grants[l] = link[l].uses /\ link[l].uses <= MaxDownloads
      /\ ~Issued(l) => link[l].uses = 0
      /\ link[l].uses \in Nat
  BY DEF CountInv, TypeOK, Row
<1>3. Issued(l) => Issued(l)'
  BY StepGrows DEF Grows, LinkGrows
<1>4. Taken(l) => Issued(l)
  BY DEF Taken, ReqInv, ReqOK
<1>5. Taken(l) => /\ link'[l].uses = link[l].uses + 1 /\ grants'[l] = grants[l] + 1
                  /\ link[l].uses < MaxDownloads
  BY DEF Taken
<1>6. QED
  BY <1>2, <1>3, <1>4, <1>5, UseStep

\* Revoking a row switches it off, and only IssueLink writes an active one.
RevokedOK == \A l \in revoked : Issued(l) /\ ~link[l].active

LEMMA NextRevokedOK == ASSUME TypeOK, RevokedOK, [Next]_vars PROVE RevokedOK'
<1>1. SUFFICES ASSUME NEW l \in revoked' PROVE Issued(l)' /\ ~link'[l].active
  BY DEF RevokedOK
<1>2. CASE l \in revoked
  BY <1>2, StepGrows DEF RevokedOK, Grows, LinkGrows, TypeOK
<1>3. CASE l \notin revoked
  <2>1. PICK k \in Links : Revoke(k)
    BY <1>3 DEF Next, WorkerStep, StartRun, Resume, WriteFile, SendMedia, SendLink, RunFails,
                Complete, IssueLink, CutRun, ReapJob, ApiStep, Arrive, CheckFile, Register, Serve,
                CleanupStep, Deactivate, ListInactive, StartSweep, Judge, EndCycle, CycleFails,
                RemoveFile, RemoveFails, Look, Tick, vars
  <2>2. k = l /\ l \in Links /\ Issued(l)
    BY <1>3, <2>1 DEF Revoke
  <2>3. QED
    BY <2>1, <2>2 DEF Revoke, TypeOK, Row, Issued
<1>4. QED
  BY <1>2, <1>3

(* The invariant of requests and of the counter. *)
THEOREM CountsCorrect == Spec => [](CountInv /\ RevokedOK)
<1>1. Init => CountInv /\ RevokedOK
  BY DEF Init, CountInv, RevokedOK, NoRow
<1>2. QED
  BY <1>1, NextCountInv, NextRevokedOK, TypeCorrect, RequestsCorrect, PTL DEF Spec

(* Concurrent requests never get more downloads out of a link than it has. *)
THEOREM BudgetHolds == Spec => []GrantsWithinBudget
<1>1. CountInv => GrantsWithinBudget
  BY DEF CountInv, GrantsWithinBudget
<1>2. QED
  BY <1>1, CountsCorrect, PTL

(* A slot is taken of a link that is due, and has its file or was rerun. *)
LEMMA TakenIsDue ==
  ASSUME TypeOK, LinkInv, ReqInv, RevokedOK, NEW l \in Links, Taken(l)
  PROVE  Due(l) /\ (HasFile(l) \/ Rerun(l))
<1>1. Issued(l) /\ ~Expired(l) /\ link[l].active
  BY DEF Taken, ReqInv, ReqOK
<1>2. l \notin revoked
  BY <1>1 DEF RevokedOK
<1>3. QED
  BY <1>1, <1>2 DEF Due, LinkInv, SoleOK

(* try_register_use takes a slot only of a link whose file is there. *)
THEOREM SlotsBuyFiles == Spec => SlotBuysAFile
<1>1. ASSUME TypeOK, LinkInv, ReqInv, RevokedOK, [Next]_vars, NEW l \in Links,
             link'[l].uses > link[l].uses
      PROVE  HasFile(l) \/ Rerun(l)
  <2>1. link[l].uses \in Nat
    BY <1>1 DEF TypeOK, Row
  <2>2. Taken(l)
    BY <1>1, <2>1, UseStep
  <2>3. QED
    BY <1>1, <2>2, TakenIsDue
<1>2. TypeOK /\ LinkInv /\ ReqInv /\ RevokedOK /\ [Next]_vars =>
        [\A l \in Links : link'[l].uses > link[l].uses => HasFile(l) \/ Rerun(l)]_vars
  BY <1>1
<1>3. QED
  BY <1>2, LinksCorrect, RequestsCorrect, CountsCorrect, PTL DEF Spec, SlotBuysAFile

(* A Range continuation or HEAD is refused only when its link is over, also *)
(* when every download of the link is spent.                                *)
THEOREM ContinuationsAreServed == Spec => ContinuationIsServed
<1>1. ASSUME TypeOK, LinkInv, ReqInv, [Next]_vars, NEW r \in Requests,
             req[r].pc = "checking", ~req[r].counted, req'[r].pc = "idle"
      PROVE  ~Due(req[r].link) \/ Rerun(req[r].link)
  <2> DEFINE l == req[r].link
  <2>1. l \in Links /\ Issued(l) /\ (req[r].active \/ ~Due(l))
    BY <1>1 DEF ReqInv, ReqOK
  <2>2. CheckFile(r)
    <3>1. ASSUME NEW q \in Requests, ApiStep(q) PROVE q = r
      <4>1. q # r => req'[r] = req[r]
        BY <1>1, <3>1, PassEffect, RefuseEffect
           DEF ApiStep, Arrive, CheckFile, Register, Serve, TypeOK
      <4>2. QED
        BY <1>1, <4>1
    <3>2. ApiStep(r) => CheckFile(r)
      BY <1>1 DEF ApiStep, Arrive, Register, Serve
    <3>3. ~UNCHANGED req
      BY <1>1
    <3>4. QED
      BY <1>1, <3>1, <3>2, <3>3
         DEF Next, WorkerStep, StartRun, Resume, WriteFile, SendMedia, SendLink, RunFails,
             Complete, IssueLink, CutRun, ReapJob, CleanupStep, Deactivate, ListInactive,
             StartSweep, Judge, EndCycle, CycleFails, RemoveFile, RemoveFails, Look, Revoke,
             Tick, vars
  <2>3. ~HasFile(l) \/ ~Continues(r)
    BY <1>1, <2>2, PassEffect DEF CheckFile
  <2>4. CASE ~HasFile(l)
    BY <1>1, <2>1, <2>4 DEF LinkInv, SoleOK
  <2>5. CASE ~Continues(r)
    <3>1. req[r].uses \in Nat
      BY <1>1 DEF TypeOK, Request
    <3>2. ~req[r].active \/ Expired(l)
      BY <2>5, <3>1 DEF Continues
    <3>3. QED
      BY <2>1, <3>2 DEF Due
  <2>6. QED
    BY <2>3, <2>4, <2>5
<1>2. TypeOK /\ LinkInv /\ ReqInv /\ [Next]_vars =>
        [\A r \in Requests :
           req[r].pc = "checking" /\ ~req[r].counted /\ req'[r].pc = "idle"
             => ~Due(req[r].link) \/ Rerun(req[r].link)]_vars
  BY <1>1
<1>3. QED
  BY <1>2, LinksCorrect, RequestsCorrect, PTL DEF Spec, ContinuationIsServed
-----------------------------------------------------------------------------
(***************************************************************************)
(* Every link is a Ticket.                                                 *)
(***************************************************************************)

\* The attempt that is filling the directory issued none of its links.
WritingOK ==
  \A l \in Links : Issued(l) /\ At(link[l].job, "writing") => link[l].try < run[link[l].job].tries

LEMMA StartsWriting ==
  ASSUME TypeOK, [Next]_vars, NEW j \in Jobs, run[j].pc # "writing", run'[j].pc = "writing"
  PROVE  run'[j].tries = run[j].tries + 1
<1>1. ASSUME NEW i \in Jobs, WorkerStep(i) PROVE StartRun(i) /\ i = j
  <2>1. i # j => run'[j] = run[j]
    BY <1>1 DEF WorkerStep, StartRun, Resume, WriteFile, SendMedia, SendLink, RunFails, Complete,
                IssueLink, CutRun, ReapJob, To, TypeOK
  <2>2. i = j => StartRun(i)
    BY <1>1 DEF WorkerStep, Resume, WriteFile, SendMedia, SendLink, RunFails, Complete,
                IssueLink, CutRun, ReapJob, To, TypeOK, Run
  <2>3. QED
    BY <2>1, <2>2
<1>2. StartRun(j) => run'[j].tries = run[j].tries + 1
  BY DEF StartRun, TypeOK, Run
<1>3. CASE Tick
  BY <1>3, TickEffect
<1>4. CASE UNCHANGED run
  BY <1>4
<1>5. QED
  BY <1>1, <1>2, <1>3, <1>4
     DEF Next, ApiStep, Arrive, CheckFile, Register, Serve, CleanupStep, Deactivate,
         ListInactive, StartSweep, Judge, EndCycle, CycleFails, RemoveFile, RemoveFails, Look,
         Revoke, vars

LEMMA NextWritingOK == ASSUME TypeOK, TypeOK', LinkInv, WritingOK, [Next]_vars PROVE WritingOK'
<1>1. SUFFICES ASSUME NEW l \in Links, Issued(l)', At(link[l].job, "writing")'
               PROVE  link'[l].try < run'[link'[l].job].tries
  BY DEF WritingOK
<1>2. CASE ~Issued(l)
  <2>1. PICK j \in Jobs : IssueLink(j, l)
    BY <1>1, <1>2, FreshLink
  <2>2. link'[l].job = j /\ run'[j].pc = "sending"
    BY <2>1 DEF IssueLink, To, TypeOK, Run
  <2>3. QED
    BY <1>1, <2>2 DEF At
<1>3. CASE Issued(l)
  <2> DEFINE j == link[l].job
  <2>1. /\ link'[l].job = j /\ link'[l].try = link[l].try /\ j \in Jobs
        /\ run'[j].tries >= run[j].tries
        /\ link[l].try <= run[j].tries
        /\ link[l].try \in Nat /\ run[j].tries \in Nat /\ run'[j].tries \in Nat
    BY <1>3, StepGrows DEF Grows, LinkGrows, Issued, TypeOK, Row, Run, LinkInv, RowOK
  <2>2. CASE run[j].pc = "writing"
    BY <1>3, <2>1, <2>2 DEF WritingOK, At
  <2>3. CASE run[j].pc # "writing"
    <3>1. run'[j].pc = "writing"
      BY <1>1, <2>1 DEF At
    <3>2. run'[j].tries = run[j].tries + 1
      BY <2>1, <2>3, <3>1, StartsWriting
    <3>3. QED
      BY <2>1, <3>2
  <2>4. QED
    BY <2>2, <2>3
<1>4. QED
  BY <1>2, <1>3

(* The links of a job that is not touched are rerun as before. *)
LEMMA RerunSame ==
  ASSUME TypeOK, NEW l \in Links, Issued(l),
         \A k \in Links : link'[k].job = link[k].job /\ link'[k].try = link[k].try,
         \A j \in Jobs : run'[j].tries = run[j].tries
  PROVE  Rerun(l)' <=> Rerun(l)
<1>1. link[l].job \in Jobs
  BY DEF TypeOK, Row, Issued
<1>2. \A k \in Links : Issued(k)' <=> Issued(k)
  BY DEF Issued
<1>3. (link[l].try < run[link[l].job].tries)' <=> link[l].try < run[link[l].job].tries
  BY <1>1
<1>4. (\E k \in Links \ {l} : Issued(k) /\ link[k].job = link[l].job)'
        <=> \E k \in Links \ {l} : Issued(k) /\ link[k].job = link[l].job
  BY <1>2
<1>5. QED
  BY <1>3, <1>4 DEF Rerun

\* Nothing of a ticket moves but its count or its time.
Untouched(l) ==
  /\ HasFile(l)' <=> HasFile(l)
  /\ Rerun(l)' <=> Rerun(l)

(* Whoever takes a slot does nothing else. *)
LEMMA TakenAlone ==
  ASSUME TypeOK, [Next]_vars, NEW l \in Links, Issued(l), grants'[l] # grants[l]
  PROVE  Untouched(l) /\ Issued(l)' /\ (Due(l)' <=> Due(l))
<1>1. PICK r \in Requests : Register(r)
  BY DEF Next, WorkerStep, StartRun, Resume, WriteFile, SendMedia, SendLink, RunFails,
         Complete, IssueLink, CutRun, ReapJob, ApiStep, Arrive, CheckFile, Serve,
         CleanupStep, Deactivate, ListInactive, StartSweep, Judge, EndCycle, CycleFails,
         RemoveFile, RemoveFails, Look, Revoke, Tick, vars
<1>2. UNCHANGED <<run, disk, revoked>>
  BY <1>1 DEF Register
<1>3. \A k \in Links : /\ link'[k].job = link[k].job /\ link'[k].try = link[k].try
                       /\ link'[k].age = link[k].age
  BY <1>1 DEF Register, TypeOK, Row
<1>4. Rerun(l)' <=> Rerun(l)
  BY <1>2, <1>3, RerunSame
<1>5. QED
  BY <1>2, <1>3, <1>4 DEF Untouched, HasFile, Issued, Due, Expired

(* Whatever ends a ticket does nothing else either. *)
LEMMA EndsAlone ==
  ASSUME TypeOK, [Next]_vars, NEW l \in Links, Due(l), ~Due(l)'
  PROVE  Untouched(l) /\ grants'[l] = grants[l]
<1>1. Issued(l) /\ link[l].job \in Jobs
  BY DEF Due, Issued, TypeOK, Row
<1>2. CASE Tick
  <2>1. /\ \A k \in Links : link'[k].job = link[k].job /\ link'[k].try = link[k].try
        /\ \A j \in Jobs : run'[j].tries = run[j].tries /\ disk'[j].file = disk[j].file
        /\ UNCHANGED grants
    BY <1>2, TickEffect DEF Tick
  <2>2. Rerun(l)' <=> Rerun(l)
    BY <1>1, <2>1, RerunSame
  <2>3. QED
    BY <1>1, <2>1, <2>2 DEF Untouched, HasFile
<1>3. ASSUME NEW k \in Links, Revoke(k) PROVE Untouched(l) /\ grants'[l] = grants[l]
  <2>1. /\ \A i \in Links : link'[i].job = link[i].job /\ link'[i].try = link[i].try
        /\ UNCHANGED <<run, disk, grants>>
    BY <1>3 DEF Revoke, TypeOK, Row
  <2>2. Rerun(l)' <=> Rerun(l)
    BY <1>1, <2>1, RerunSame
  <2>3. QED
    BY <2>1, <2>2 DEF Untouched, HasFile
<1>4. CASE ~Tick /\ ~\E k \in Links : Revoke(k)
  <2>1. UNCHANGED revoked
    BY <1>4 DEF Next, WorkerStep, StartRun, Resume, WriteFile, SendMedia, SendLink, RunFails,
                Complete, IssueLink, CutRun, ReapJob, ApiStep, Arrive, CheckFile, Register,
                Serve, CleanupStep, Deactivate, ListInactive, StartSweep, Judge, EndCycle,
                CycleFails, RemoveFile, RemoveFails, Look, vars
  <2>2. Issued(l)' /\ link'[l].age = link[l].age
    BY <1>1, <1>4, StepGrows DEF Grows, LinkGrows
  <2>3. QED
    BY <2>1, <2>2 DEF Due, Expired
<1>5. QED
  BY <1>2, <1>3, <1>4

(* A file comes to a directory only from the attempt that fills it. *)
LEMMA FileCome ==
  ASSUME TypeOK, [Next]_vars, NEW j \in Jobs, disk'[j].file, ~disk[j].file
  PROVE  run[j].pc = "writing" /\ run'[j].tries = run[j].tries
<1>1. ASSUME NEW i \in Jobs, StartRun(i) PROVE FALSE
  BY <1>1 DEF StartRun, TypeOK, Disk
<1>2. ASSUME NEW i \in Jobs, WriteFile(i) PROVE i = j /\ At(i, "writing") /\ run'[i].tries = run[i].tries
  BY <1>2 DEF WriteFile, TypeOK, Disk, To, Run
<1>3. ASSUME NEW l \in Links, RemoveFile(l) PROVE FALSE
  BY <1>3, RemoveFileEffect
<1>4. CASE Judge
  BY <1>4 DEF Judge, TypeOK, Disk
<1>5. CASE Tick
  BY <1>5, TickEffect
<1>6. CASE UNCHANGED disk
  BY <1>6
<1>7. QED
  BY <1>1, <1>2, <1>3, <1>4, <1>5, <1>6
     DEF At, Next, WorkerStep, Resume, SendMedia, SendLink, RunFails, Complete, IssueLink,
         CutRun, ReapJob, ApiStep, Arrive, CheckFile, Register, Serve, CleanupStep, Deactivate,
         ListInactive, StartSweep, EndCycle, CycleFails, RemoveFails, Look, Revoke, vars

\* What Promise keeps of the file of a link and of other deliveries of its job.
Has(l)   == Issued(l) /\ HasFile(l)
Twice(l) == Issued(l) /\ Rerun(l)

(* IssueLink is the one step that issues a ticket. *)
LEMMA FreshTicket ==
  ASSUME TypeOK, DiskInv, ReqInv, CountInv, RevokedOK, [Next]_vars,
         NEW l \in Links, ~Issued(l), Issued(l)'
  PROVE  Promise!Issue(l)
<1>1. PICK j \in Jobs : IssueLink(j, l)
  BY FreshLink
<1>2. /\ link'[l].job = j /\ link'[l].age = 0
      /\ UNCHANGED <<disk, grants, revoked>> /\ disk[j].file
  BY <1>1 DEF IssueLink, TypeOK
<1>3. l \notin revoked
  BY DEF RevokedOK
<1>4. Life(l) = "none" /\ Life(l)' = "due" /\ Has(l)'
  BY <1>2, <1>3 DEF Life, Due, Expired, Has, HasFile
<1>5. QED
  BY <1>2, <1>4 DEF Promise!Issue, Has

(* Register is the one that spends a download, of a due link with its file. *)
LEMMA SpentTicket ==
  ASSUME TypeOK, LinkInv, ReqInv, CountInv, RevokedOK, [Next]_vars, NEW l \in Links, Taken(l)
  PROVE  Promise!Spend(l)
<1>1. /\ Issued(l) /\ Due(l) /\ (HasFile(l) \/ Rerun(l))
      /\ grants'[l] = grants[l] + 1 /\ grants[l] < MaxDownloads
      /\ grants[l] \in Nat
  BY TakenIsDue DEF Taken, CountInv, Due, TypeOK
<1>2. /\ Issued(l)' /\ Due(l)'
      /\ HasFile(l)' <=> HasFile(l)
      /\ Rerun(l)' <=> Rerun(l)
  BY <1>1, TakenAlone DEF Untouched
<1>3. Life(l) = "due" /\ Life(l)' = "due"
  BY <1>1, <1>2 DEF Life
<1>4. QED
  BY <1>1, <1>2, <1>3 DEF Promise!Spend

(* The clock or an operator ends a ticket and does nothing else to it. *)
LEMMA EndedTicket ==
  ASSUME TypeOK, [Next]_vars, NEW l \in Links, Due(l), ~Due(l)'
  PROVE  Promise!End(l)
<1>1. Issued(l) /\ Issued(l)'
  BY StepGrows DEF Due, Grows, LinkGrows
<1>2. Life(l) = "due" /\ Life(l)' = "over"
  BY <1>1 DEF Life
<1>3. /\ HasFile(l)' <=> HasFile(l)
      /\ Rerun(l)' <=> Rerun(l)
      /\ grants'[l] = grants[l]
  BY EndsAlone DEF Untouched
<1>4. QED
  BY <1>1, <1>2, <1>3 DEF Promise!End

(* A link that neither ends nor pays: only its file comes or goes, and never *)
(* that of a due link unless its job delivers again.                        *)
LEMMA HeldTicket ==
  ASSUME TypeOK, TypeOK', LinkInv, LinkInv', WritingOK, [Next]_vars, NEW l \in Links,
         Issued(l), Issued(l)', Due(l)' <=> Due(l), grants'[l] = grants[l]
  PROVE  Promise!Step(l)
<1> DEFINE j == link[l].job
<1>1. Life(l)' = Life(l) /\ Life(l) # "none"
  BY DEF Life
<1>2. /\ Rerun(l) => Rerun(l)'
      /\ HasFile(l) \in BOOLEAN /\ HasFile(l)' \in BOOLEAN
      /\ j \in Jobs /\ link'[l].job = j
  BY StepGrows, RerunStays DEF Grows, LinkGrows, HasFile, TypeOK, Row, Issued, Disk
<1>3. CASE ~Rerun(l) /\ Rerun(l)'
  <2>1. Promise!Double(l)
    BY <1>1, <1>3 DEF Promise!Double
  <2>2. QED
    BY <2>1 DEF Promise!Step
<1>4. CASE (Rerun(l)' <=> Rerun(l)) /\ (HasFile(l)' <=> HasFile(l))
  <2>1. Promise!Rests(l)
    BY <1>1, <1>4 DEF Promise!Rests
  <2>2. QED
    BY <2>1 DEF Promise!Step
<1>5. CASE (Rerun(l)' <=> Rerun(l)) /\ HasFile(l) /\ ~HasFile(l)'
  <2>1. Life(l) = "over" \/ Rerun(l)
    BY <1>5 DEF LinkInv, SoleOK, Life
  <2>2. Promise!Lose(l)
    BY <1>1, <1>5, <2>1 DEF Promise!Lose
  <2>3. QED
    BY <2>2 DEF Promise!Step
<1>6. CASE (Rerun(l)' <=> Rerun(l)) /\ ~HasFile(l) /\ HasFile(l)'
  <2>1. run[j].pc = "writing"
    BY <1>2, <1>6, FileCome DEF HasFile
  <2>2. Rerun(l)
    BY <2>1 DEF WritingOK, At, Rerun
  <2>3. Promise!Refill(l)
    BY <1>1, <1>6, <2>2 DEF Promise!Refill
  <2>4. QED
    BY <2>3 DEF Promise!Step
<1>7. QED
  BY <1>2, <1>3, <1>4, <1>5, <1>6

(* There is no row yet, and nothing to keep or to count. *)
LEMMA NoTicket ==
  ASSUME TypeOK, ReqInv, [Next]_vars, NEW l \in Links, ~Issued(l), ~Issued(l)'
  PROVE  Promise!Rests(l)
<1>1. grants'[l] = grants[l]
  BY UseStep DEF Taken, ReqInv, ReqOK
<1>2. Life(l) = "none" /\ Life(l)' = "none"
  BY DEF Life
<1>3. QED
  BY <1>1, <1>2 DEF Promise!Rests

LEMMA TicketStep ==
  ASSUME TypeOK, TypeOK', DiskInv, LinkInv, LinkInv', ReqInv, CountInv, RevokedOK, WritingOK,
         [Next]_vars, NEW l \in Links
  PROVE  Promise!Step(l)
<1>1. Issued(l) => Issued(l)' /\ (Due(l)' => Due(l))
  BY StepGrows, DueWasDue DEF Grows, LinkGrows
<1>2. CASE ~Issued(l) /\ Issued(l)'
  BY <1>2, FreshTicket DEF Promise!Step
<1>3. CASE ~Issued(l) /\ ~Issued(l)'
  BY <1>3, NoTicket DEF Promise!Step
<1>4. CASE Issued(l) /\ grants'[l] # grants[l]
  BY <1>4, UseStep, SpentTicket DEF Promise!Step
<1>5. CASE Issued(l) /\ Due(l) /\ ~Due(l)'
  BY <1>5, EndedTicket DEF Promise!Step
<1>6. CASE Issued(l) /\ grants'[l] = grants[l] /\ (Due(l)' <=> Due(l))
  BY <1>1, <1>6, HeldTicket
<1>7. QED
  BY <1>1, <1>2, <1>3, <1>4, <1>5, <1>6

LEMMA NextTicketTypes == ASSUME TypeOK', CountInv' PROVE Promise!TypeOK'
<1>1. \A l \in Links : Life(l)' \in {"none", "due", "over"}
  BY DEF Life
<1>2. \A l \in Links : Has(l)' \in BOOLEAN /\ Twice(l)' \in BOOLEAN
  BY DEF Has, Twice, Issued, HasFile, Rerun, TypeOK, Disk, Row
<1>3. \A l \in Links : grants'[l] \in 0..MaxDownloads
  BY DEF CountInv, TypeOK, Row
<1>4. QED
  BY <1>1, <1>2, <1>3 DEF Promise!TypeOK, Has, Twice, TypeOK

LEMMA NextTickets ==
  ASSUME TypeOK, TypeOK', DiskInv, LinkInv, LinkInv', ReqInv, CountInv, CountInv', RevokedOK,
         WritingOK, [Next]_vars
  PROVE  Promise!Next
<1>1. Promise!TypeOK'
  BY NextTicketTypes
<1>2. \A l \in Links : Promise!Step(l)
  BY TicketStep
<1>3. QED
  BY <1>1, <1>2 DEF Promise!Next

(* TempLinks implements Ticket: whatever the worker, the requests, the        *)
(* cleanup worker and the clock do is a step, or none, of every single link. *)
THEOREM TicketsKept == Spec => ImplementsTicket
<1>1. Init => Promise!Init
  <2>1. SUFFICES ASSUME Init PROVE Promise!Init
    OBVIOUS
  <2>2. \A l \in Links : ~Issued(l)
    BY <2>1 DEF Init, Issued, NoRow
  <2>3. \A l \in Links : Life(l) = "none" /\ ~Has(l) /\ ~Twice(l)
    BY <2>2 DEF Life, Has, Twice
  <2>4. \A l \in Links : Has(l) = FALSE /\ Twice(l) = FALSE
    BY <2>3 DEF Has, Twice
  <2>5. QED
    BY <2>1, <2>3, <2>4 DEF Init, Promise!Init, Has, Twice
<1>2. (/\ TypeOK /\ TypeOK' /\ DiskInv /\ LinkInv /\ LinkInv' /\ ReqInv
       /\ CountInv /\ CountInv' /\ RevokedOK /\ WritingOK /\ [Next]_vars)
        => [Promise!Next]_(Promise!vars)
  BY NextTickets
<1>3. Init => WritingOK
  BY DEF Init, WritingOK, Issued, NoRow
<1>4. Spec => []WritingOK
  BY <1>3, NextWritingOK, LinksCorrect, PTL DEF Spec
<1>5. QED
  BY <1>1, <1>2, <1>4, LinksCorrect, RequestsCorrect, CountsCorrect, PTL
     DEF Spec, ImplementsTicket, Promise!Spec
=============================================================================
