------------------------- MODULE JobLifecycleProofs -------------------------
(***************************************************************************)
(* What JobLifecycle guarantees for any number of jobs, users and slots,   *)
(* any cap, any number of tries and any timeouts.                          *)
(***************************************************************************)
EXTENDS JobLifecycle, TLAPS

(***************************************************************************)
(* The effect of the operators the actions are built from, point by point. *)
(***************************************************************************)

(* JobsRepository.update writes one row and bumps its status_version. *)
LEMMA SaveEffect ==
  ASSUME row \in [Jobs -> Row], NEW j \in Jobs, NEW s \in Status, Save(j, s)
  PROVE  /\ row' \in [Jobs -> Row]
         /\ row'[j].status = s /\ ~row'[j].by_reaper
         /\ row'[j].version = row[j].version + 1
         /\ row'[j].age = 0
         /\ \A k \in Jobs \ {j} : row'[k] = row[k]
<1>1. row[j].version + 1 \in Nat
  BY DEF Row
<1>2. [status |-> s, version |-> row[j].version + 1, age |-> 0, by_reaper |-> FALSE] \in Row
  BY <1>1 DEF Row
<1>3. QED
  BY <1>2 DEF Save

(* Moving a run to its next await changes nothing but its label. *)
LEMMA GotoEffect ==
  ASSUME run \in [Slots -> Run], NEW w \in Slots, NEW l \in Labels, Goto(w, l)
  PROVE  /\ run' \in [Slots -> Run]
         /\ run'[w].pc = l /\ run'[w].job = run[w].job
         /\ run'[w].version = run[w].version /\ run'[w].attempt = run[w].attempt
         /\ run'[w].hop = run[w].hop
         /\ \A v \in Slots \ {w} : run'[v] = run[v]
  BY DEF Goto, Run

LEMMA HoldEffect ==
  ASSUME run \in [Slots -> Run], NEW w \in Slots, NEW l \in Labels, NEW n \in Nat,
         Hold(w, l, n)
  PROVE  /\ run' \in [Slots -> Run]
         /\ run'[w].pc = l /\ run'[w].job = run[w].job
         /\ run'[w].version = n /\ run'[w].attempt = run[w].attempt
         /\ run'[w].hop = run[w].hop
         /\ \A v \in Slots \ {w} : run'[v] = run[v]
  BY DEF Hold, Run

LEMMA StopEffect ==
  ASSUME run \in [Slots -> Run], NEW w \in Slots, Stop(w)
  PROVE  /\ run' \in [Slots -> Run]
         /\ run'[w] = Idle /\ run'[w].pc = "idle"
         /\ \A v \in Slots \ {w} : run'[v] = run[v]
  BY DEF Stop, Idle, Run, Labels

LEMMA FinishedEffect ==
  ASSUME arq \in [Jobs -> Entry], NEW j \in Jobs, Finished(j)
  PROVE  /\ arq' \in [Jobs -> Entry]
         /\ ~arq'[j].queued /\ ~arq'[j].lease
         /\ \A k \in Jobs \ {j} : arq'[k] = arq[k]
<1>1. arq[j].tries \in Nat
  BY DEF Entry
<1>2. [queued |-> FALSE, lease |-> FALSE, tries |-> arq[j].tries] \in Entry
  BY <1>1 DEF Entry
<1>3. QED
  BY <1>2 DEF Finished

-----------------------------------------------------------------------------
(***************************************************************************)
(* Type correctness.                                                       *)
(***************************************************************************)

LEMMA InitTypeOK == Init => TypeOK
  BY DEF Init, TypeOK, Row, Status, Idle, Run, Entry, Labels

LEMMA BotTypeOK ==
  ASSUME TypeOK, NEW j \in Jobs, BotStep(j) PROVE TypeOK'
<1> USE DEF TypeOK, redis, history
<1>1. CASE CreateIfUnderCap(j)
  BY <1>1 DEF CreateIfUnderCap, Row, Status, Active
<1>2. CASE Publish(j)
  BY <1>2 DEF Publish, Entry
<1>3. CASE PublishRaises(j)
  BY <1>3 DEF PublishRaises, Entry
<1>4. CASE Release(j)
  <2>1. row' \in [Jobs -> Row]
    BY <1>4, SaveEffect DEF Release, Status, Terminal
  <2>2. QED
    BY <2>1, <1>4 DEF Release
<1>5. CASE BotStops(j)
  BY <1>5 DEF BotStops
<1>6. CASE RequestCancel(j)
  BY <1>6 DEF RequestCancel
<1>7. QED
  BY <1>1, <1>2, <1>3, <1>4, <1>5, <1>6 DEF BotStep

LEMMA QueueTypeOK ==
  ASSUME TypeOK, NEW j \in Jobs, QueueStep(j) PROVE TypeOK'
<1> USE DEF TypeOK, redis, history
<1>1. CASE GiveUp(j)
  BY <1>1, FinishedEffect DEF GiveUp
<1>2. CASE LeaseLapses(j)
  BY <1>2 DEF LeaseLapses, Entry
<1>3. CASE QueueLoses(j)
  BY <1>3 DEF QueueLoses, Entry
<1>4. CASE FlagExpires(j)
  BY <1>4 DEF FlagExpires
<1>5. ASSUME NEW w \in Slots, PickUp(w, j) PROVE TypeOK'
  <2>1. arq[j].tries + 1 \in Nat
    BY DEF Entry
  <2>2. [Idle EXCEPT !.pc = "get", !.job = j, !.attempt = arq[j].tries + 1] \in Run
    BY <2>1 DEF Idle, Run, Labels, Reading
  <2>3. arq' \in [Jobs -> Entry]
    BY <1>5, <2>1 DEF PickUp, Entry
  <2>4. run' \in [Slots -> Run] /\ \A v \in Slots : run'[v].pc # "idle" => run'[v].job \in Jobs
    BY <1>5, <2>2 DEF PickUp, Idle, Run
  <2>5. QED
    BY <1>5, <2>3, <2>4 DEF PickUp
<1>6. QED
  BY <1>1, <1>2, <1>3, <1>4, <1>5 DEF QueueStep

LEMMA RunTypeOK ==
  ASSUME TypeOK, NEW w \in Slots, RunStep(w) PROVE TypeOK'
<1> USE DEF TypeOK, redis, history
<1> DEFINE j == run[w].job
<1> DEFINE Slot == run' \in [Slots -> Run] /\ \A v \in Slots : run'[v].pc # "idle" => run'[v].job \in Jobs
<1>l. /\ {"idle", "raised", "clearing", "notifying"} \subseteq Labels
      /\ Working \subseteq Labels /\ Saving \subseteq Labels /\ Reading \subseteq Labels
  BY DEF Labels
<1>g. ASSUME run[w].pc # "idle" PROVE j \in Jobs
  BY <1>g
<1>a. ASSUME NEW l \in Labels, Goto(w, l), run[w].pc # "idle" PROVE Slot
  BY <1>a, GotoEffect
<1>b. ASSUME NEW l \in Labels, NEW n \in Nat, Hold(w, l, n), run[w].pc # "idle" PROVE Slot
  BY <1>b, HoldEffect
<1>c. ASSUME Stop(w) PROVE Slot
  BY <1>c, StopEffect
<1>d. ASSUME Finish(w), run[w].pc # "idle" PROVE Slot /\ arq' \in [Jobs -> Entry]
  BY <1>c, <1>d, <1>g, FinishedEffect DEF Finish
<1>e. ASSUME run[w].pc # "idle" PROVE row[j].version \in Nat
  BY <1>g, <1>e DEF Row
<1>s. {"DONE", "FAILED", "PROCESSING"} \subseteq Status
  BY DEF Status, Active, Terminal
<1> HIDE DEF j, Slot
<1>1. CASE Load(w)
  BY <1>1, <1>b, <1>d, <1>e, <1>l DEF Load, j, Slot, Reading, Saving
<1>2. CASE Transition(w)
  <2>1. CASE Current(j, run[w].version)
    <3>1. run[w].version + 1 \in Nat
      BY <1>2 DEF Transition, Run
    <3>2. Slot
      BY <1>2, <2>1, <3>1, <1>g, <1>l DEF Transition, Current, j, Slot, Run, Reading, Working
    <3>3. row' \in [Jobs -> Row]
      BY <1>2, <2>1, <1>g, <1>s, SaveEffect DEF Transition, j
    <3>4. QED
      BY <1>2, <3>2, <3>3, <1>g DEF Transition, j, Slot
  <2>2. CASE ~Current(j, run[w].version)
    BY <1>2, <2>2, <1>a, <1>l DEF Transition, j, Slot, Reading
  <2>3. QED
    BY <2>1, <2>2
<1>3. CASE LostRace(w)
  BY <1>3, <1>a, <1>d, <1>l DEF LostRace, j, Slot, Reading
<1>4. CASE CheckLedger(w)
  BY <1>4, <1>a, <1>l, <1>g DEF CheckLedger, j, Slot, Reading, Saving, Working
<1>5. CASE Analyze(w)
  BY <1>5, <1>a, <1>l DEF Analyze, j, Slot, Working
<1>6. CASE Download(w)
  BY <1>6, <1>a, <1>l DEF Download, j, Slot, Working
<1>7. CASE SeesCancel(w)
  BY <1>7, <1>a, <1>l DEF SeesCancel, j, Slot, Saving
<1>8. CASE Deliver(w)
  BY <1>8, <1>a, <1>l, <1>g DEF Deliver, j, Slot, Working
<1>9. CASE DeliverRaises(w)
  BY <1>9, <1>a, <1>l, <1>g DEF DeliverRaises, j, Slot
<1>10. CASE Record(w)
  BY <1>10, <1>a, <1>l, <1>g DEF Record, j, Slot, Saving
<1>11. CASE FailsForGood(w)
  BY <1>11, <1>a, <1>l DEF FailsForGood, j, Slot, Saving
<1>12. CASE FailsRetryably(w)
  BY <1>12, <1>a, <1>l DEF FailsRetryably, j, Slot
<1>13. CASE PersistDone(w)
  BY <1>13, <1>a, <1>d, <1>l, <1>g, <1>s, SaveEffect DEF PersistDone, j, Slot, Reading
<1>14. CASE DoneConflict(w)
  BY <1>14, <1>a, <1>b, <1>d, <1>e, <1>l DEF DoneConflict, j, Slot, Saving
<1>15. CASE Overwrite(w)
  BY <1>15, <1>a, <1>d, <1>l, <1>g, <1>s, SaveEffect DEF Overwrite, j, Slot
<1>16. CASE SaveCancelled(w)
  BY <1>16, <1>a, <1>l, <1>g, <1>s, SaveEffect DEF SaveCancelled, j, Slot, SaveFailed, Reading
<1>17. CASE SavePermanent(w)
  BY <1>17, <1>a, <1>l, <1>g, <1>s, SaveEffect DEF SavePermanent, j, Slot, SaveFailed, Reading
<1>18. CASE SaveExhausted(w)
  BY <1>18, <1>a, <1>l, <1>g, <1>s, SaveEffect DEF SaveExhausted, j, Slot, SaveFailed, Reading
<1>19. CASE SaveConflict(w)
  BY <1>19, <1>a, <1>d, <1>l DEF SaveConflict, j, Slot
<1>20. CASE ClearFlag(w)
  BY <1>20, <1>d DEF ClearFlag, j, Slot
<1>21. CASE Notify(w)
  BY <1>21, <1>d, <1>g DEF Notify, j, Slot
<1>22. CASE Raised(w)
  <2>1. row' \in [Jobs -> Row]
    BY <1>22, <1>g DEF Raised, j, Row
  <2>2. Slot
    BY <1>22, <1>a, <1>c, <1>l DEF Raised, Reading
  <2>3. arq' \in [Jobs -> Entry]
    <3>0. j \in Jobs
      BY <1>22, <1>g DEF Raised
    <3>1. [arq[j] EXCEPT !.lease = FALSE] \in Entry
      BY <3>0 DEF Entry
    <3>2. arq' = arq \/ arq' = [arq EXCEPT ![j].lease = FALSE]
      BY <1>22 DEF Raised, j
    <3>3. QED
      BY <3>0, <3>1, <3>2
  <2>4. QED
    BY <1>22, <2>1, <2>2, <2>3 DEF Raised, Slot
<1>23. CASE TerminalGet(w)
  BY <1>23, <1>b, <1>d, <1>e, <1>l DEF TerminalGet, j, Slot, Saving
<1>24. CASE DbError(w)
  BY <1>24, <1>a, <1>d, <1>l DEF DbError, j, Slot, Saving, Reading
<1>25. QED
  BY <1>1, <1>2, <1>3, <1>4, <1>5, <1>6, <1>7, <1>8, <1>9, <1>10, <1>11, <1>12, <1>13, <1>14, <1>15, <1>16, <1>17, <1>18, <1>19, <1>20, <1>21, <1>22, <1>23, <1>24 DEF RunStep

LEMMA CutTypeOK ==
  ASSUME TypeOK, NEW w \in Slots, Cut(w) PROVE TypeOK'
<1> USE DEF TypeOK, redis, history
<1>1. run[w].job \in Jobs /\ Stop(w) /\ CutShort(w)
  BY DEF Cut, Crash, Shutdown, TimesOut, CutShort, Live
<1>2. run' \in [Slots -> Run] /\ \A v \in Slots : run'[v].pc # "idle" => run'[v].job \in Jobs
  BY <1>1, StopEffect
<1>3. arq' \in [Jobs -> Entry]
  <2>1. CASE Crash(w)
    BY <2>1 DEF Crash
  <2>2. CASE Shutdown(w)
    BY <1>1, <2>2 DEF Shutdown, Entry
  <2>3. CASE TimesOut(w)
    BY <1>1, <2>3, FinishedEffect DEF TimesOut
  <2>4. QED
    BY <2>1, <2>2, <2>3 DEF Cut
<1>4. QED
  BY <1>1, <1>2, <1>3 DEF CutShort

(* The reapers touch only rows of the status they look for. *)
LEMMA ReapEffect ==
  ASSUME row \in [Jobs -> Row], NEW s, NEW threshold, Reap(s, threshold)
  PROVE  /\ row' \in [Jobs -> Row]
         /\ \A j \in Jobs :
              \/ row'[j] = row[j]
              \/ /\ row[j].status = s /\ row'[j].status = "FAILED" /\ row'[j].by_reaper
                 /\ row'[j].version = row[j].version
         /\ UNCHANGED <<enq, redis, run, history>>
<1>1. ASSUME NEW j \in Jobs
      PROVE [row[j] EXCEPT !.status = "FAILED", !.age = 0, !.by_reaper = TRUE] \in Row
  BY DEF Row, Status, Terminal
<1>2. QED
  BY <1>1 DEF Reap, Row

(* Time changes only ages and elapsed times. *)
LEMMA TickEffect ==
  ASSUME TypeOK, Tick
  PROVE  /\ row' \in [Jobs -> Row] /\ run' \in [Slots -> Run]
         /\ \A j \in Jobs : /\ row'[j].status = row[j].status
                            /\ row'[j].version = row[j].version
                            /\ row'[j].by_reaper = row[j].by_reaper
         /\ \A w \in Slots : /\ run'[w].pc = run[w].pc /\ run'[w].job = run[w].job
                             /\ run'[w].version = run[w].version
                             /\ run'[w].hop = run[w].hop
<1>1. ASSUME NEW j \in Jobs
      PROVE [row[j] EXCEPT !.age = IF @ < AgeLimit(j) THEN @ + 1 ELSE @] \in Row
  <2>1. row[j] \in Row /\ row[j].age + 1 \in Nat
    BY DEF TypeOK, Row
  <2>2. QED
    BY <2>1 DEF Row
<1>2. ASSUME NEW w \in Slots
      PROVE [run[w] EXCEPT !.ran = @ + 1] \in Run
  BY DEF TypeOK, Run
<1>3. row' \in [Jobs -> Row] /\ run' \in [Slots -> Run]
  BY <1>1, <1>2 DEF TypeOK, Tick
<1>4. QED
  BY <1>3 DEF TypeOK, Tick, Row, Run

LEMMA NextTypeOK == TypeOK /\ [Next]_vars => TypeOK'
<1> SUFFICES ASSUME TypeOK, [Next]_vars PROVE TypeOK'
  OBVIOUS
<1>1. ASSUME NEW j \in Jobs, BotStep(j) \/ QueueStep(j) PROVE TypeOK'
  BY <1>1, BotTypeOK, QueueTypeOK
<1>2. ASSUME NEW w \in Slots, RunStep(w) \/ Cut(w) PROVE TypeOK'
  BY <1>2, RunTypeOK, CutTypeOK
<1>3. CASE CleanupStep
  <2>1. row' \in [Jobs -> Row] /\ UNCHANGED <<enq, redis, run, history>>
    BY <1>3, ReapEffect DEF CleanupStep, ReapOrphanProcessing, ReapOrphanPending, TypeOK
  <2>2. QED
    BY <2>1 DEF TypeOK, redis, history
<1>4. CASE Tick
  <2>1. UNCHANGED <<enq, redis, history>>
    BY <1>4 DEF Tick
  <2>2. QED
    BY <1>4, <2>1, TickEffect DEF TypeOK, redis, history
<1>5. CASE UNCHANGED vars
  BY <1>5 DEF TypeOK, vars, redis, history
<1>6. QED
  BY <1>1, <1>2, <1>3, <1>4, <1>5 DEF Next

(* Every reachable state has the types the columns and keys declare. *)
THEOREM TypeCorrect == Spec => []TypeOK
  BY InitTypeOK, NextTypeOK, PTL DEF Spec

-----------------------------------------------------------------------------
(***************************************************************************)
(* The inductive invariant. CurrentEntityIsTrue is not inductive by        *)
(* itself: that a stale entity cannot be current again rests on versions   *)
(* never being ahead of the row (EntityOK), that a run about to write      *)
(* PROCESSING cannot resurrect a row the code itself failed rests on       *)
(* version 0 being left by every write of update() (RowOK).                *)
(***************************************************************************)

RowOK(j) ==
  /\ row[j].status = "NONE" => ~arq[j].queued /\ enq[j] = "no"
  /\ row[j].status \in {"NONE", "PENDING"} => row[j].version = 0
  /\ row[j].status \in {"PROCESSING", "DONE"} => row[j].version >= 1
  /\ row[j].by_reaper => row[j].status = "FAILED"
  /\ row[j].status = "FAILED" /\ ~row[j].by_reaper => row[j].version >= 1

Holding == Owning \cup {"transition", "terminal_failing", "overwriting"}

EntityOK(w) ==
  Live(w) =>
    /\ row[run[w].job].status # "NONE"
    /\ run[w].pc \in Holding => run[w].version <= row[run[w].job].version
    /\ run[w].pc = "transition" => run[w].version = 0
    /\ run[w].pc \in Owning => run[w].version >= 1
    /\ run[w].version = row[run[w].job].version =>
         /\ run[w].pc \in Owning =>
              row[run[w].job].status = "PROCESSING" \/ row[run[w].job].by_reaper
         /\ run[w].pc = "terminal_failing" =>
              row[run[w].job].status \in Active \/ row[run[w].job].by_reaper
         /\ run[w].pc = "overwriting" => row[run[w].job].status = "FAILED"

Delivered == {"recording", "persisting", "done_conflict", "overwriting"}

DeliveryOK ==
  /\ \A j \in Jobs : j \in ledger \/ row[j].status = "DONE" => deliveries[j] >= 1
  /\ \A w \in Slots : run[w].pc \in Delivered => deliveries[run[w].job] >= 1

LockInv ==
  /\ \A j \in Jobs : RowOK(j)
  /\ \A w \in Slots : EntityOK(w)
  /\ DeliveryOK

(* Every change a step can make to one row. *)
Unmoved(j) ==
  /\ row'[j].status = row[j].status /\ row'[j].version = row[j].version
  /\ row'[j].by_reaper = row[j].by_reaper
Inserted(j) ==
  /\ row[j].status = "NONE" /\ row'[j].status = "PENDING"
  /\ row'[j].version = row[j].version /\ row'[j].by_reaper = row[j].by_reaper
Reaped(j) ==
  /\ row[j].status \in Active /\ row'[j].status = "FAILED"
  /\ row'[j].version = row[j].version /\ row'[j].by_reaper
Written(j) == row'[j].version = row[j].version + 1 /\ ~row'[j].by_reaper
Started(j) ==
  /\ Written(j) /\ row'[j].status = "PROCESSING"
  /\ row[j].status = "PENDING" \/ row[j].by_reaper
Failed(j) ==
  /\ Written(j) /\ row'[j].status = "FAILED"
  /\ row[j].status \in Active \/ row[j].by_reaper
Succeeded(j) ==
  /\ Written(j) /\ row'[j].status = "DONE"
  /\ row[j].status \in {"PROCESSING", "FAILED"} /\ deliveries[j] >= 1

Moves(j) ==
  Unmoved(j) \/ Inserted(j) \/ Reaped(j) \/ Started(j) \/ Failed(j) \/ Succeeded(j)

(* A step moves no row, or one, or it is the reaper's, which may move many. *)
Rest    == \A j \in Jobs : Unmoved(j)
OneMove == \E j \in Jobs : Moves(j) /\ \A k \in Jobs \ {j} : Unmoved(k)
Sweep   == \A j \in Jobs : Unmoved(j) \/ Reaped(j)
Shape   == Rest \/ (UNCHANGED deliveries /\ (OneMove \/ Sweep))

(* A save by a run is one of the three writes, because its entity is true. *)
LEMMA SavesMove ==
  ASSUME TypeOK, LockInv, NEW w \in Slots, NEW s \in Status,
         Current(run[w].job, run[w].version), Save(run[w].job, s),
         \/ run[w].pc = "transition" /\ s = "PROCESSING"
         \/ run[w].pc \in {"cancelling", "failing", "terminal_failing"} /\ s = "FAILED"
         \/ run[w].pc \in {"persisting", "overwriting"} /\ s = "DONE"
  PROVE  OneMove
<1> DEFINE i == run[w].job
<1>1. i \in Jobs /\ Live(w) /\ EntityOK(w) /\ RowOK(i) /\ row[i] \in Row
  BY DEF TypeOK, Live, LockInv
<1>2. /\ Written(i) /\ row'[i].status = s
      /\ \A k \in Jobs \ {i} : Unmoved(k)
  BY <1>1, SaveEffect DEF TypeOK, Written, Unmoved
<1>3. /\ run[w].pc = "transition" => row[i].status = "PENDING" \/ row[i].by_reaper
      /\ run[w].pc \in {"cancelling", "failing", "terminal_failing"} =>
           row[i].status \in Active \/ row[i].by_reaper
      /\ run[w].pc \in {"persisting", "overwriting"} =>
           row[i].status \in {"PROCESSING", "FAILED"} /\ deliveries[i] >= 1
  BY <1>1 DEF EntityOK, RowOK, Current, Owning, Active, Status, Terminal, Row,
              LockInv, DeliveryOK, Delivered
<1>4. Moves(i)
  BY <1>2, <1>3 DEF Moves, Started, Failed, Succeeded
<1>5. QED
  BY <1>1, <1>2, <1>4 DEF OneMove

LEMMA RowRests == UNCHANGED row => Rest
  BY DEF Rest, Unmoved

LEMMA StepShape ==
  ASSUME TypeOK, LockInv, [Next]_vars PROVE Shape
<1>1. ASSUME NEW j \in Jobs, BotStep(j) PROVE Shape
  <2>1. CASE CreateIfUnderCap(j)
    BY <2>1 DEF CreateIfUnderCap, TypeOK, Row, Moves, Unmoved, Inserted, OneMove, Shape, history
  <2>2. CASE Release(j)
    <3>1. CASE Current(j, 0) /\ Save(j, "FAILED")
      <4>1. RowOK(j) /\ row[j] \in Row /\ enq[j] # "no"
        BY <2>2 DEF LockInv, TypeOK, Release
      <4>2. row[j].status \in Active \/ row[j].by_reaper
        BY <4>1, <3>1 DEF RowOK, Current, Row, Status, Active, Terminal
      <4>3. Written(j) /\ row'[j].status = "FAILED" /\ \A k \in Jobs \ {j} : Unmoved(k)
        BY <3>1, SaveEffect DEF TypeOK, Written, Unmoved, Status, Terminal
      <4>4. QED
        BY <2>2, <4>2, <4>3 DEF Moves, Failed, OneMove, Shape, Release, history
    <3>2. QED
      BY <2>2, <3>1, RowRests DEF Release, Shape
  <2>3. CASE Publish(j) \/ PublishRaises(j) \/ BotStops(j) \/ RequestCancel(j)
    BY <2>3, RowRests DEF Publish, PublishRaises, BotStops, RequestCancel, Shape
  <2>4. QED
    BY <1>1, <2>1, <2>2, <2>3 DEF BotStep
<1>2. ASSUME NEW j \in Jobs, QueueStep(j) PROVE Shape
  BY <1>2, RowRests
     DEF QueueStep, GiveUp, LeaseLapses, QueueLoses, FlagExpires, PickUp, Shape
<1>3. ASSUME NEW w \in Slots, RunStep(w) PROVE Shape
  <2>0. {"PROCESSING", "FAILED", "DONE"} \subseteq Status
    BY DEF Status, Active, Terminal
  <2>1. CASE Transition(w)
    BY <2>0, <2>1, SavesMove, RowRests DEF Transition, Shape
  <2>2. CASE PersistDone(w) \/ Overwrite(w)
    BY <2>0, <2>2, SavesMove, RowRests DEF PersistDone, Overwrite, history, Shape
  <2>3. CASE SaveCancelled(w) \/ SavePermanent(w) \/ SaveExhausted(w)
    BY <2>0, <2>3, SavesMove, RowRests
       DEF SaveCancelled, SavePermanent, SaveExhausted, SaveFailed, history, Shape
  <2>4. CASE Raised(w)
    BY <2>4, RowRests DEF Raised, TypeOK, Row, Unmoved, Rest, Shape
  <2>5. CASE \/ Load(w) \/ LostRace(w) \/ CheckLedger(w) \/ Analyze(w) \/ Download(w)
             \/ SeesCancel(w) \/ Deliver(w) \/ DeliverRaises(w) \/ Record(w)
             \/ FailsForGood(w) \/ FailsRetryably(w) \/ DoneConflict(w)
             \/ SaveConflict(w) \/ ClearFlag(w) \/ Notify(w) \/ TerminalGet(w) \/ DbError(w)
    BY <2>5, RowRests
       DEF Load, LostRace, CheckLedger, Analyze, Download, SeesCancel, Deliver, DeliverRaises,
           Record, FailsForGood, FailsRetryably, DoneConflict, SaveConflict, ClearFlag,
           Notify, TerminalGet, DbError, Shape
  <2>6. QED
    BY <1>3, <2>1, <2>2, <2>3, <2>4, <2>5 DEF RunStep
<1>4. ASSUME NEW w \in Slots, Cut(w) PROVE Shape
  BY <1>4, RowRests DEF Cut, Crash, Shutdown, TimesOut, CutShort, Shape
<1>5. CASE CleanupStep
  BY <1>5, ReapEffect
     DEF CleanupStep, ReapOrphanProcessing, ReapOrphanPending, TypeOK, Active,
         Unmoved, Reaped, Sweep, Shape, history
<1>6. CASE Tick
  BY <1>6, TickEffect DEF Unmoved, Rest, Shape
<1>7. CASE UNCHANGED vars
  BY <1>7, RowRests DEF vars, Shape
<1>8. QED
  BY <1>1, <1>2, <1>3, <1>4, <1>5, <1>6, <1>7 DEF Next

LEMMA StepMoves ==
  ASSUME TypeOK, LockInv, [Next]_vars PROVE \A j \in Jobs : Moves(j)
  BY StepShape DEF Shape, Rest, OneMove, Sweep, Moves

(* A row that moved leaves every entity that did not move with it truthful. *)
LEMMA MovesKeepRowOK ==
  ASSUME TypeOK, TypeOK', NEW j \in Jobs, RowOK(j), Moves(j),
         row'[j].status = "NONE" => ~arq'[j].queued /\ enq'[j] = "no"
  PROVE  RowOK(j)'
<1>1. row[j] \in Row /\ row'[j] \in Row
  BY DEF TypeOK
<1>2. QED
  BY <1>1 DEF RowOK, Moves, Unmoved, Inserted, Reaped, Started, Failed, Succeeded, Written,
              Row, Active

LEMMA MovesKeepEntityOK ==
  ASSUME TypeOK, TypeOK', NEW w \in Slots, EntityOK(w),
         run'[w].pc = run[w].pc, run'[w].job = run[w].job, run'[w].version = run[w].version,
         run[w].pc # "idle" => Moves(run[w].job) /\ RowOK(run[w].job)
  PROVE  EntityOK(w)'
<1> SUFFICES ASSUME Live(w) PROVE EntityOK(w)'
  BY DEF EntityOK, Live
<1> DEFINE i == run[w].job
<1>1. i \in Jobs /\ row[i] \in Row /\ row'[i] \in Row /\ run[w].version \in Nat
  BY DEF TypeOK, Live, Run
<1>2. Moves(i) /\ RowOK(i)
  BY DEF Live
<1>3. CASE Unmoved(i)
  BY <1>1, <1>3 DEF EntityOK, Live, Unmoved
<1>4. CASE Written(i)
  BY <1>1, <1>2, <1>4
     DEF EntityOK, Live, Row, Written, Holding, Moves, Unmoved, Inserted, Reaped, Started,
         Failed, Succeeded
<1>5. CASE Inserted(i)
  BY <1>1, <1>5 DEF EntityOK, Live, Inserted
<1>6. CASE Reaped(i)
  BY <1>1, <1>6 DEF EntityOK, Live, Reaped, Active
<1>7. QED
  BY <1>2, <1>3, <1>4, <1>5, <1>6 DEF Moves, Started, Failed, Succeeded

(* Nothing is queued, and no bot coroutine is under way, before the insert. *)
LEMMA QueueAfterInsert ==
  ASSUME TypeOK, [Next]_vars, NEW j \in Jobs, RowOK(j),
         row[j].status = "NONE", row'[j].status = "NONE",
         \A w \in Slots : EntityOK(w)
  PROVE  ~arq'[j].queued /\ enq'[j] = "no"
<1>1. ~arq[j].queued /\ enq[j] = "no" /\ arq[j] \in Entry
  BY DEF RowOK, TypeOK
<1>2. ASSUME NEW k \in Jobs, BotStep(k) PROVE ~arq'[j].queued /\ enq'[j] = "no"
  <2>1. CASE CreateIfUnderCap(k)
    BY <1>1, <2>1 DEF CreateIfUnderCap, TypeOK, Row, redis
  <2>2. CASE Publish(k) \/ PublishRaises(k) \/ Release(k) \/ BotStops(k) \/ RequestCancel(k)
    BY <1>1, <2>2 DEF Publish, PublishRaises, Release, BotStops, RequestCancel, TypeOK, redis
  <2>3. QED
    BY <1>2, <2>1, <2>2 DEF BotStep
<1>3. ASSUME NEW k \in Jobs, QueueStep(k) PROVE ~arq'[j].queued /\ enq'[j] = "no"
  <2>1. enq' = enq
    BY <1>3 DEF QueueStep, GiveUp, LeaseLapses, QueueLoses, FlagExpires, PickUp
  <2>2. CASE GiveUp(k)
    BY <1>1, <2>2, FinishedEffect DEF GiveUp, TypeOK
  <2>3. CASE LeaseLapses(k) \/ QueueLoses(k) \/ FlagExpires(k)
    BY <1>1, <2>3 DEF LeaseLapses, QueueLoses, FlagExpires, TypeOK, Entry
  <2>4. CASE \E w \in Slots : PickUp(w, k)
    <3>1. arq' = [arq EXCEPT ![k].lease = TRUE, ![k].tries = @ + 1] /\ arq[k].queued
      BY <2>4 DEF PickUp
    <3>2. QED
      BY <1>1, <3>1, <2>1 DEF TypeOK
  <2>5. QED
    BY <1>1, <1>3, <2>1, <2>2, <2>3, <2>4 DEF QueueStep
<1>4. ASSUME NEW w \in Slots, RunStep(w) PROVE ~arq'[j].queued /\ enq'[j] = "no"
  <2>1. run[w].pc # "idle" /\ run[w].job \in Jobs /\ run[w].job # j
    BY <1>4 DEF RunStep, Load, Transition, LostRace, CheckLedger, Analyze, Download,
         SeesCancel, Deliver, DeliverRaises, Record, FailsForGood, FailsRetryably,
         PersistDone, DoneConflict, Overwrite, SaveCancelled, SavePermanent, SaveExhausted,
         SaveFailed, SaveConflict, ClearFlag, Notify, Raised, TerminalGet, DbError,
         TypeOK, EntityOK, Live, Saving, Reading
  <2>2. /\ enq' = enq
        /\ arq' = arq \/ Finished(run[w].job) \/ arq' = [arq EXCEPT ![run[w].job].lease = FALSE]
    BY <1>4 DEF RunStep, Load, Transition, LostRace, CheckLedger, Analyze, Download,
         SeesCancel, Deliver, DeliverRaises, Record, FailsForGood, FailsRetryably,
         PersistDone, DoneConflict, Overwrite, SaveCancelled, SavePermanent, SaveExhausted,
         SaveFailed, SaveConflict, ClearFlag, Notify, Raised, TerminalGet, DbError,
         Finish, redis
  <2>3. QED
    BY <1>1, <2>1, <2>2 DEF Finished, TypeOK
<1>5. ASSUME NEW w \in Slots, Cut(w) PROVE ~arq'[j].queued /\ enq'[j] = "no"
  <2>1. run[w].job \in Jobs /\ enq' = enq
    BY <1>5 DEF Cut, Crash, Shutdown, TimesOut, CutShort, Live, TypeOK
  <2>2. CASE Crash(w)
    BY <1>1, <2>1, <2>2 DEF Crash
  <2>3. CASE Shutdown(w)
    BY <1>1, <2>1, <2>3 DEF Shutdown, TypeOK
  <2>4. CASE TimesOut(w)
    BY <1>1, <2>1, <2>4, FinishedEffect DEF TimesOut, TypeOK
  <2>5. QED
    BY <1>5, <2>2, <2>3, <2>4 DEF Cut
<1>6. CASE CleanupStep
  BY <1>1, <1>6, ReapEffect DEF CleanupStep, ReapOrphanProcessing, ReapOrphanPending, TypeOK, redis
<1>7. CASE Tick \/ UNCHANGED vars
  BY <1>1, <1>7 DEF Tick, vars, redis
<1>8. QED
  BY <1>2, <1>3, <1>4, <1>5, <1>6, <1>7 DEF Next

LEMMA RowsStayOK ==
  ASSUME TypeOK, TypeOK', LockInv, [Next]_vars PROVE \A j \in Jobs : RowOK(j)'
<1> SUFFICES ASSUME NEW j \in Jobs PROVE RowOK(j)'
  OBVIOUS
<1>1. RowOK(j) /\ Moves(j) /\ row[j] \in Row
  BY StepMoves DEF LockInv, TypeOK
<1>2. row'[j].status = "NONE" => row[j].status = "NONE"
  BY <1>1 DEF Moves, Unmoved, Inserted, Reaped, Started, Failed, Succeeded
<1>3. QED
  BY <1>1, <1>2, QueueAfterInsert, MovesKeepRowOK DEF LockInv

(* The steps of a run leave the run itself holding a truthful entity. *)
LEMMA OwnStepEntityOK ==
  ASSUME TypeOK, TypeOK', LockInv, NEW w \in Slots, RunStep(w) PROVE EntityOK(w)'
<1> DEFINE i == run[w].job
<1>0. /\ Live(w) /\ i \in Jobs /\ EntityOK(w) /\ RowOK(i)
      /\ row[i] \in Row /\ run[w] \in Run /\ run \in [Slots -> Run] /\ row \in [Jobs -> Row]
  <2>1. Live(w)
    BY DEF RunStep, Load, Transition, LostRace, CheckLedger, Analyze, Download,
         SeesCancel, Deliver, DeliverRaises, Record, FailsForGood, FailsRetryably,
         PersistDone, DoneConflict, Overwrite, SaveCancelled, SavePermanent, SaveExhausted,
         SaveFailed, SaveConflict, ClearFlag, Notify, Raised, TerminalGet, DbError,
         Live, Saving, Reading
  <2>2. QED
    BY <2>1 DEF TypeOK, LockInv, Live
<1>l. /\ {"idle", "raised", "clearing", "notifying"} \subseteq Labels
      /\ Working \subseteq Labels /\ Saving \subseteq Labels /\ Reading \subseteq Labels
  BY DEF Labels
<1>a. ASSUME Stop(w) PROVE EntityOK(w)'
  BY <1>0, <1>a, StopEffect DEF EntityOK, Live
<1>b. ASSUME NEW l \in Labels \ Holding, Goto(w, l),
             row'[i].status # "NONE"
      PROVE  EntityOK(w)'
  BY <1>0, <1>b, GotoEffect DEF EntityOK, Live, Holding
<1>c. ASSUME NEW l \in Labels, Goto(w, l), run[w].pc \in Owning, l \in Owning, UNCHANGED row
      PROVE  EntityOK(w)'
  BY <1>0, <1>c, GotoEffect DEF EntityOK, Live, Holding, Owning, Working
<1>d. row[i].status # "NONE"
  BY <1>0 DEF EntityOK
<1>e. ASSUME NEW s \in Status \ {"NONE"}, Save(i, s) PROVE row'[i].status # "NONE"
  BY <1>0, <1>e, SaveEffect
<1> HIDE DEF i
<1>1. CASE Load(w)
  <2>1. CASE Finish(w)
    BY <2>1, <1>a DEF Finish
  <2>2. CASE /\ row[i].status = "PROCESSING" /\ Hold(w, "ledger", row[i].version)
             /\ UNCHANGED row
    <3>1. "ledger" \in Labels /\ row[i].version \in Nat
      BY <1>0, <1>l DEF Row, Reading
    <3>2. QED
      BY <1>0, <2>2, <3>1, HoldEffect DEF EntityOK, RowOK, Live, i
  <2>3. CASE /\ row[i].status = "PENDING" /\ Hold(w, "transition", row[i].version)
             /\ UNCHANGED row
    <3>1. "transition" \in Labels /\ row[i].version \in Nat
      BY <1>0, <1>l DEF Row, Saving
    <3>2. QED
      BY <1>0, <2>3, <3>1, HoldEffect DEF EntityOK, RowOK, Live, Owning, Working, i
  <2>4. QED
    BY <1>1, <2>1, <2>2, <2>3 DEF Load, i
<1>2. CASE Transition(w)
  <2>1. CASE Current(i, run[w].version) /\ Save(i, "PROCESSING")
    <3>1. /\ run'[w].pc \in {"ledger", "analyzing"} /\ run'[w].job = i
          /\ run'[w].version = run[w].version + 1
      BY <1>0, <1>2, <2>1 DEF Transition, i, Run, Current
    <3>2. row'[i].status = "PROCESSING" /\ row'[i].version = run[w].version + 1
      BY <1>0, <2>1, SaveEffect DEF Current, Status, Active
    <3>3. run[w].version \in Nat
      BY <1>0 DEF Run
    <3>4. QED
      BY <3>1, <3>2, <3>3 DEF EntityOK, Live
  <2>2. CASE Goto(w, "lost_race") /\ UNCHANGED row
    BY <2>2, <1>b, <1>d, <1>l DEF Reading, Holding, Owning, Working
  <2>3. QED
    BY <1>2, <2>1, <2>2 DEF Transition, i
<1>3. CASE LostRace(w)
  BY <1>3, <1>a, <1>b, <1>d, <1>l DEF LostRace, Finish, Holding, Owning, Working
<1>4. CASE \/ CheckLedger(w) \/ Analyze(w) \/ Download(w) \/ SeesCancel(w) \/ Deliver(w)
           \/ Record(w) \/ FailsForGood(w)
  <2>1. /\ run[w].pc \in Owning /\ UNCHANGED row
        /\ \E l \in Owning : Goto(w, l)
    BY <1>4 DEF CheckLedger, Analyze, Download, SeesCancel, Deliver, Record, FailsForGood,
               Owning, Working
  <2>2. Owning \subseteq Labels
    BY <1>l DEF Owning, Reading, Saving
  <2>3. QED
    BY <2>1, <2>2, <1>c
<1>5. CASE DeliverRaises(w) \/ FailsRetryably(w)
  BY <1>5, <1>b, <1>d, <1>l DEF DeliverRaises, FailsRetryably, Holding, Owning, Working
<1>6. CASE PersistDone(w) \/ Overwrite(w)
  BY <1>6, <1>a, <1>b, <1>d, <1>l
     DEF PersistDone, Overwrite, Finish, Holding, Owning, Working, Reading
<1>7. CASE DoneConflict(w)
  <2>1. CASE Finish(w)
    BY <2>1, <1>a DEF Finish
  <2>2. CASE /\ row[i].status = "FAILED" /\ Hold(w, "overwriting", row[i].version)
             /\ UNCHANGED row
    <3>1. "overwriting" \in Labels /\ row[i].version \in Nat
      BY <1>0, <1>l DEF Row, Saving
    <3>2. QED
      BY <1>0, <2>2, <3>1, HoldEffect DEF EntityOK, Live, Owning, Working, i
  <2>3. CASE Goto(w, "raised") /\ UNCHANGED row
    BY <2>3, <1>b, <1>d, <1>l DEF Holding, Owning, Working
  <2>4. QED
    BY <1>7, <2>1, <2>2, <2>3 DEF DoneConflict, i
<1>8. CASE SaveCancelled(w) \/ SavePermanent(w) \/ SaveExhausted(w)
  <2>1. PICK saved \in {"clearing", "notifying"},
             conflict \in {"cancel_conflict", "fail_conflict", "terminal_conflict"} :
          \/ Save(i, "FAILED") /\ Goto(w, saved)
          \/ Goto(w, conflict) /\ UNCHANGED row
    BY <1>8 DEF SaveCancelled, SavePermanent, SaveExhausted, SaveFailed, i
  <2>2. saved \in Labels \ Holding /\ conflict \in Labels \ Holding
    BY <1>l DEF Reading, Holding, Owning, Working
  <2>3. "FAILED" \in Status \ {"NONE"}
    BY DEF Status, Terminal
  <2>4. QED
    BY <2>1, <2>2, <2>3, <1>b, <1>d, <1>e
<1>9. CASE SaveConflict(w) \/ ClearFlag(w) \/ Notify(w) \/ DbError(w)
  BY <1>9, <1>a, <1>b, <1>d, <1>l
     DEF SaveConflict, ClearFlag, Notify, DbError, Finish, Holding, Owning, Working
<1>10. CASE Raised(w)
  <2>1. row'[i].status # "NONE"
    BY <1>0, <1>10, <1>d DEF Raised, Row, i
  <2>2. QED
    BY <1>10, <2>1, <1>a, <1>b, <1>l DEF Raised, Holding, Owning, Working, Reading
<1>11. CASE TerminalGet(w)
  <2>1. CASE Finish(w)
    BY <2>1, <1>a DEF Finish
  <2>2. CASE /\ row[i].status \in Active /\ Hold(w, "terminal_failing", row[i].version)
             /\ UNCHANGED row
    <3>1. "terminal_failing" \in Labels /\ row[i].version \in Nat
      BY <1>0, <1>l DEF Row, Saving
    <3>2. QED
      BY <1>0, <2>2, <3>1, HoldEffect DEF EntityOK, Live, Owning, Working, i
  <2>3. QED
    BY <1>11, <2>1, <2>2 DEF TerminalGet, i
<1>12. QED
  BY <1>1, <1>2, <1>3, <1>4, <1>5, <1>6, <1>7, <1>8, <1>9, <1>10, <1>11 DEF RunStep

(* A step of one slot leaves the other slots alone. *)
LEMMA OtherSlotsRest ==
  ASSUME TypeOK, NEW w \in Slots, RunStep(w) \/ Cut(w), NEW v \in Slots \ {w}
  PROVE  run'[v] = run[v]
<1>1. \/ \E l \in Labels : Goto(w, l)
      \/ \E l \in Labels, n \in Nat : Hold(w, l, n)
      \/ Stop(w) \/ Transition(w)
  BY DEF RunStep, Load, Transition, LostRace, CheckLedger, Analyze, Download,
       SeesCancel, Deliver, DeliverRaises, Record, FailsForGood, FailsRetryably,
       PersistDone, DoneConflict, Overwrite, SaveCancelled, SavePermanent, SaveExhausted,
       SaveFailed, SaveConflict, ClearFlag, Notify, Raised, TerminalGet, DbError, Finish,
       Cut, Crash, Shutdown, TimesOut, CutShort, Labels, Saving, Reading, Working, TypeOK,
       Row, Live
<1>2. run \in [Slots -> Run]
  BY DEF TypeOK
<1>3. CASE Transition(w)
  BY <1>2, <1>3 DEF Transition, Goto
<1>4. QED
  BY <1>1, <1>2, <1>3, GotoEffect, HoldEffect, StopEffect

LEMMA EntitiesStayOK ==
  ASSUME TypeOK, TypeOK', LockInv, [Next]_vars PROVE \A w \in Slots : EntityOK(w)'
<1> SUFFICES ASSUME NEW w \in Slots PROVE EntityOK(w)'
  OBVIOUS
<1>1. /\ EntityOK(w) /\ run \in [Slots -> Run]
      /\ run[w].pc # "idle" => Moves(run[w].job) /\ RowOK(run[w].job)
  BY StepMoves DEF LockInv, TypeOK
<1>2. CASE run'[w].pc = run[w].pc /\ run'[w].job = run[w].job /\ run'[w].version = run[w].version
  BY <1>1, <1>2, MovesKeepEntityOK
<1>3. ASSUME NEW j \in Jobs, PickUp(w, j) PROVE EntityOK(w)'
  <2>1. row[j].status # "NONE" /\ row' = row
    BY <1>3 DEF PickUp, LockInv, RowOK
  <2>2. run'[w].pc = "get" /\ run'[w].job = j
    BY <1>1, <1>3 DEF PickUp, Idle
  <2>3. QED
    BY <2>1, <2>2 DEF EntityOK, Live, Holding, Owning, Working
<1>4. ASSUME NEW v \in Slots, NEW j \in Jobs, PickUp(v, j), v # w PROVE run'[w] = run[w]
  BY <1>1, <1>4 DEF PickUp
<1>5. ASSUME NEW j \in Jobs, BotStep(j) \/ QueueStep(j), ~ \E v \in Slots : PickUp(v, j)
      PROVE  run' = run
  BY <1>5 DEF BotStep, QueueStep, CreateIfUnderCap, Publish, PublishRaises, Release, BotStops,
             RequestCancel, GiveUp, LeaseLapses, QueueLoses, FlagExpires
<1>6. CASE Cut(w)
  BY <1>1, <1>6, StopEffect DEF Cut, Crash, Shutdown, TimesOut, CutShort, EntityOK, Live
<1>7. CASE RunStep(w)
  BY <1>7, OwnStepEntityOK
<1>8. ASSUME NEW v \in Slots \ {w}, RunStep(v) \/ Cut(v) PROVE run'[w] = run[w]
  BY <1>8, OtherSlotsRest
<1>9. CASE CleanupStep \/ UNCHANGED vars
  BY <1>2, <1>9 DEF CleanupStep, ReapOrphanProcessing, ReapOrphanPending, Reap, vars
<1>10. CASE Tick
  BY <1>1, <1>2, <1>10, TickEffect
<1>11. QED
  BY <1>2, <1>3, <1>4, <1>5, <1>6, <1>7, <1>8, <1>9, <1>10 DEF Next, QueueStep

(* Media is sent by a run that is delivering, once per step. *)
Sends(w) ==
  /\ run[w].pc = "delivering"
  /\ deliveries' = [deliveries EXCEPT ![run[w].job] = @ + 1]

LEMMA OnlyRunsSend ==
  ASSUME [Next]_vars PROVE UNCHANGED deliveries \/ \E w \in Slots : Sends(w)
<1>2. ASSUME NEW w \in Slots, Deliver(w) \/ DeliverRaises(w) PROVE Sends(w)
  BY <1>2 DEF Deliver, DeliverRaises, Sends
<1>4. ASSUME NEW k \in Jobs, BotStep(k) \/ QueueStep(k) PROVE UNCHANGED deliveries
  BY <1>4 DEF BotStep, QueueStep, CreateIfUnderCap, Publish, PublishRaises, Release, BotStops,
             RequestCancel, GiveUp, LeaseLapses, QueueLoses, FlagExpires, PickUp, history
<1>5. ASSUME NEW w \in Slots, RunStep(w), ~(Deliver(w) \/ DeliverRaises(w))
      PROVE  UNCHANGED deliveries
  BY <1>5 DEF RunStep, Load, Transition, LostRace, CheckLedger, Analyze, Download,
       SeesCancel, Record, FailsForGood, FailsRetryably, PersistDone, DoneConflict, Overwrite,
       SaveCancelled, SavePermanent, SaveExhausted, SaveFailed, SaveConflict, ClearFlag,
       Notify, Raised, TerminalGet, DbError, history
<1>6. ASSUME NEW w \in Slots, Cut(w) PROVE UNCHANGED deliveries
  BY <1>6 DEF Cut, Crash, Shutdown, TimesOut, CutShort
<1>7. CASE CleanupStep \/ Tick \/ UNCHANGED vars
  BY <1>7 DEF CleanupStep, ReapOrphanProcessing, ReapOrphanPending, Reap, Tick, vars, history
<1>8. QED
  BY <1>2, <1>4, <1>5, <1>6, <1>7 DEF Next

(* Media that reached the user stays reached. *)
LEMMA DeliveriesGrow ==
  ASSUME TypeOK, [Next]_vars, NEW j \in Jobs PROVE deliveries'[j] >= deliveries[j]
  BY OnlyRunsSend DEF Sends, TypeOK


(* A run past its delivery, a ledger key and a DONE row all stand for media sent. *)
LEMMA DeliveryStaysOK ==
  ASSUME TypeOK, TypeOK', LockInv, [Next]_vars PROVE DeliveryOK'
<1>0. /\ DeliveryOK /\ run \in [Slots -> Run] /\ deliveries \in [Jobs -> Nat]
      /\ \A w \in Slots : run[w].pc \in Delivered => run[w].job \in Jobs
  BY DEF LockInv, TypeOK, Delivered
<1>g. \A j \in Jobs : deliveries'[j] \in Nat /\ deliveries'[j] >= deliveries[j]
  BY DeliveriesGrow DEF TypeOK
<1>k. \A j \in Jobs : deliveries[j] >= 1 => deliveries'[j] >= 1
  BY <1>0, <1>g
<1>1. ASSUME NEW j \in Jobs, row'[j].status = "DONE" PROVE deliveries'[j] >= 1
  BY <1>0, <1>k, <1>1, StepMoves
     DEF Moves, Unmoved, Inserted, Reaped, Started, Failed, Succeeded, DeliveryOK
<1>2. \/ ledger' = ledger
      \/ \E w \in Slots : ledger' = ledger \cup {run[w].job} /\ run[w].pc = "recording"
  <2>1. ASSUME NEW w \in Slots, Record(w)
        PROVE  \/ ledger' = ledger
               \/ ledger' = ledger \cup {run[w].job} /\ run[w].pc = "recording"
    BY <2>1 DEF Record
  <2>2. ASSUME NEW w \in Slots, RunStep(w), ~Record(w) PROVE ledger' = ledger
    BY <2>2 DEF RunStep, Load, Transition, LostRace, CheckLedger, Analyze, Download,
         SeesCancel, Deliver, DeliverRaises, FailsForGood, FailsRetryably,
         PersistDone, DoneConflict, Overwrite, SaveCancelled, SavePermanent, SaveExhausted,
         SaveFailed, SaveConflict, ClearFlag, Notify, Raised, TerminalGet, DbError, redis
  <2>3. ASSUME NEW w \in Slots, Cut(w) PROVE ledger' = ledger
    BY <2>3 DEF Cut, Crash, Shutdown, TimesOut, CutShort
  <2>4. ASSUME NEW j \in Jobs, BotStep(j) \/ QueueStep(j) PROVE ledger' = ledger
    BY <2>4 DEF BotStep, QueueStep, CreateIfUnderCap, Publish, PublishRaises, Release, BotStops,
         RequestCancel, GiveUp, LeaseLapses, QueueLoses, FlagExpires, PickUp, redis
  <2>5. CASE CleanupStep \/ Tick \/ UNCHANGED vars
    BY <2>5 DEF CleanupStep, ReapOrphanProcessing, ReapOrphanPending, Reap, Tick, vars, redis
  <2>6. QED
    BY <2>1, <2>2, <2>3, <2>4, <2>5 DEF Next
<1>3. ASSUME NEW j \in Jobs, j \in ledger' PROVE deliveries'[j] >= 1
  BY <1>0, <1>k, <1>2, <1>3 DEF DeliveryOK, Delivered
<1>4. ASSUME NEW w \in Slots, run'[w].pc \in Delivered PROVE deliveries'[run'[w].job] >= 1
  <2>1. CASE run'[w].pc = run[w].pc /\ run'[w].job = run[w].job
    BY <1>0, <1>k, <1>4, <2>1 DEF DeliveryOK
  <2>2. CASE RunStep(w)
    <3>1. run[w].job \in Jobs
      BY <2>2 DEF RunStep, Load, Transition, LostRace, CheckLedger, Analyze, Download,
           SeesCancel, Deliver, DeliverRaises, Record, FailsForGood, FailsRetryably,
           PersistDone, DoneConflict, Overwrite, SaveCancelled, SavePermanent, SaveExhausted,
           SaveFailed, SaveConflict, ClearFlag, Notify, Raised, TerminalGet, DbError,
           TypeOK, Saving, Reading
    <3>2. CASE Deliver(w)
      BY <1>0, <3>1, <3>2 DEF Deliver, Goto
    <3>3. CASE Record(w) \/ PersistDone(w) \/ DoneConflict(w)
      <4>1. run[w].pc \in Delivered /\ (run'[w].job = run[w].job \/ run'[w].pc = "idle")
        <5>1. /\ run[w].pc \in Delivered
              /\ Stop(w) \/ (\E l \in Labels : Goto(w, l)) \/ Hold(w, "overwriting", row[run[w].job].version)
          BY <3>3 DEF Record, PersistDone, DoneConflict, Finish, Delivered, Labels, Saving, Reading
        <5>2. row[run[w].job].version \in Nat /\ "overwriting" \in Labels
          BY <3>1 DEF TypeOK, Row, Labels, Saving
        <5>3. QED
          BY <1>0, <5>1, <5>2, StopEffect, GotoEffect, HoldEffect
      <4>2. QED
        BY <1>0, <1>k, <1>4, <3>1, <4>1 DEF DeliveryOK, Delivered
    <3>4. CASE CheckLedger(w)
      <4>1. run[w].job \in ledger /\ run'[w].job = run[w].job
        <5>1. \/ Goto(w, "persisting") /\ run[w].job \in ledger
              \/ Goto(w, "analyzing")
          BY <3>4 DEF CheckLedger
        <5>2. {"persisting", "analyzing"} \subseteq Labels
          BY DEF Labels, Saving, Working
        <5>3. QED
          BY <1>0, <1>4, <5>1, <5>2, GotoEffect DEF Delivered
      <4>2. QED
        BY <1>0, <1>k, <3>1, <4>1 DEF DeliveryOK
    <3>5. ASSUME ~(Deliver(w) \/ Record(w) \/ PersistDone(w) \/ DoneConflict(w) \/ CheckLedger(w))
          PROVE  run'[w].pc \notin Delivered
      <4>1. \/ Stop(w) \/ Transition(w)
            \/ \E l \in Labels \ Delivered : Goto(w, l)
            \/ \E l \in Labels \ Delivered, n \in Nat : Hold(w, l, n)
        BY <2>2, <3>1, <3>5
           DEF RunStep, Load, LostRace, Analyze, Download, SeesCancel, DeliverRaises,
               FailsForGood, FailsRetryably, Overwrite, SaveCancelled, SavePermanent,
               SaveExhausted, SaveFailed, SaveConflict, ClearFlag, Notify, Raised, TerminalGet,
               DbError, Finish, Delivered, Labels, Saving, Reading, Working, TypeOK, Row
      <4>2. CASE Transition(w)
        <5>1. run'[w].pc \in {"ledger", "analyzing", "lost_race"}
          BY <1>0, <4>2 DEF Transition, Goto, Run
        <5>2. QED
          BY <5>1 DEF Delivered
      <4>3. QED
        BY <1>0, <4>1, <4>2, StopEffect, GotoEffect, HoldEffect DEF Delivered
    <3>6. QED
      BY <1>4, <3>2, <3>3, <3>4, <3>5
  <2>3. ASSUME NEW v \in Slots \ {w}, RunStep(v) \/ Cut(v) PROVE run'[w] = run[w]
    BY <2>3, OtherSlotsRest
  <2>4. CASE Cut(w)
    BY <1>0, <1>4, <2>4, StopEffect DEF Cut, Crash, Shutdown, TimesOut, CutShort, Delivered
  <2>5. ASSUME NEW j \in Jobs, BotStep(j) \/ QueueStep(j)
        PROVE  run'[w] = run[w] \/ run'[w].pc = "get"
    <3>1. ASSUME NEW v \in Slots, PickUp(v, j) PROVE run'[w] = run[w] \/ run'[w].pc = "get"
      BY <1>0, <3>1 DEF PickUp, Idle
    <3>2. ASSUME ~ \E v \in Slots : PickUp(v, j) PROVE run' = run
      BY <2>5, <3>2 DEF BotStep, QueueStep, CreateIfUnderCap, Publish, PublishRaises, Release,
           BotStops, RequestCancel, GiveUp, LeaseLapses, QueueLoses, FlagExpires
    <3>3. QED
      BY <3>1, <3>2
  <2>6. CASE CleanupStep \/ UNCHANGED vars
    BY <2>1, <2>6 DEF CleanupStep, ReapOrphanProcessing, ReapOrphanPending, Reap, vars
  <2>7. CASE Tick
    BY <1>0, <2>1, <2>7, TickEffect
  <2>8. QED
    BY <1>4, <2>1, <2>2, <2>3, <2>4, <2>5, <2>6, <2>7 DEF Next, Delivered
<1>5. QED
  BY <1>1, <1>3, <1>4 DEF DeliveryOK

LEMMA InitLockInv == Init => LockInv
  BY DEF Init, LockInv, RowOK, EntityOK, DeliveryOK, Delivered, Live, Idle

(* The rows, the entities in flight and the deliveries agree in every state. *)
THEOREM LockingCorrect == Spec => [](TypeOK /\ LockInv)
<1>1. Init => TypeOK /\ LockInv
  BY InitTypeOK, InitLockInv
<1>2. (TypeOK /\ LockInv) /\ [Next]_vars => (TypeOK /\ LockInv)'
  BY NextTypeOK, RowsStayOK, EntitiesStayOK, DeliveryStaysOK DEF LockInv
<1>3. QED
  BY <1>1, <1>2, PTL DEF Spec

(* A row reads DONE only if its media reached the user: neither a retry that   *)
(* trusts the ledger nor the overwrite of a FAILED row makes a delivery up.    *)
THEOREM DoneIsEarned == Spec => []DoneOnlyIfDelivered
<1>1. TypeOK /\ LockInv => DoneOnlyIfDelivered
  BY DEF LockInv, DeliveryOK, DoneOnlyIfDelivered
<1>2. QED
  BY <1>1, LockingCorrect, PTL

(* An entity whose status_version still matches its row describes that row, up *)
(* to what the reaper did: what every guarded save of the worker relies on.    *)
THEOREM EntitiesAreTrue == Spec => []CurrentEntityIsTrue
<1>1. TypeOK /\ LockInv => CurrentEntityIsTrue
  <2> SUFFICES ASSUME TypeOK, LockInv, NEW w \in Slots, Live(w),
                      run[w].version = row[run[w].job].version
               PROVE  /\ run[w].pc = "transition" =>
                           row[run[w].job].status = "PENDING" \/ row[run[w].job].by_reaper
                      /\ run[w].pc \in Owning =>
                           row[run[w].job].status = "PROCESSING" \/ row[run[w].job].by_reaper
                      /\ run[w].pc = "terminal_failing" =>
                           row[run[w].job].status \in Active \/ row[run[w].job].by_reaper
                      /\ run[w].pc = "overwriting" => row[run[w].job].status = "FAILED"
    BY DEF CurrentEntityIsTrue
  <2>1. /\ run[w].job \in Jobs /\ EntityOK(w) /\ RowOK(run[w].job)
        /\ row[run[w].job] \in Row
    BY DEF TypeOK, LockInv, Live
  <2>2. QED
    BY <2>1 DEF EntityOK, RowOK, Row, Status, Active, Terminal
<1>2. QED
  BY <1>1, LockingCorrect, PTL

(* DONE is never left, whoever holds a stale entity. *)
THEOREM DoneStays == Spec => DoneIsFinal
<1>1. TypeOK /\ LockInv /\ [Next]_vars =>
        [\A j \in Jobs : row[j].status = "DONE" =>
           row'[j].status = "DONE" /\ row'[j].version = row[j].version]_vars
  <2> SUFFICES ASSUME TypeOK, LockInv, [Next]_vars, NEW j \in Jobs, row[j].status = "DONE"
               PROVE  row'[j].status = "DONE" /\ row'[j].version = row[j].version
    OBVIOUS
  <2>1. Moves(j) /\ RowOK(j)
    BY StepMoves DEF LockInv
  <2>2. QED
    BY <2>1 DEF Moves, Unmoved, Inserted, Reaped, Started, Failed, Succeeded, RowOK, Active
<1>2. QED
  BY <1>1, LockingCorrect, PTL DEF Spec, DoneIsFinal

(* A FAILED that update() wrote is left only for DONE, and only for delivered media. *)
THEOREM FailedIsLeftOnlyForDone == Spec => FailedIsLeftOnlyForDelivery
<1>1. TypeOK /\ LockInv /\ [Next]_vars =>
        [\A j \in Jobs :
           /\ row[j].status = "FAILED" /\ ~row[j].by_reaper
           /\ row'[j].status # "FAILED"
           => row'[j].status = "DONE" /\ deliveries[j] >= 1]_vars
  <2> SUFFICES ASSUME TypeOK, LockInv, [Next]_vars, NEW j \in Jobs,
                      row[j].status = "FAILED", ~row[j].by_reaper, row'[j].status # "FAILED"
               PROVE  row'[j].status = "DONE" /\ deliveries[j] >= 1
    OBVIOUS
  <2>1. Moves(j)
    BY StepMoves
  <2>2. QED
    BY <2>1 DEF Moves, Unmoved, Inserted, Reaped, Started, Failed, Succeeded, Active
<1>2. QED
  BY <1>1, LockingCorrect, PTL DEF Spec, FailedIsLeftOnlyForDelivery

-----------------------------------------------------------------------------
(***************************************************************************)
(* The refinement of JobStatus.                                            *)
(***************************************************************************)

statusBar    == [j \in Jobs |-> row[j].status]
sentBar      == {j \in Jobs : deliveries[j] >= 1}
abandonedBar == {j \in Jobs : row[j].by_reaper}

(* A step that moves no row is a delivery or nothing. *)
LEMMA RestRefines ==
  ASSUME TypeOK, LockInv, [Next]_vars, Rest PROVE [Promise!Next]_(Promise!vars)
<1>1. statusBar' = statusBar /\ abandonedBar' = abandonedBar
  BY DEF Rest, Unmoved, statusBar, abandonedBar
<1>2. CASE UNCHANGED deliveries
  BY <1>1, <1>2 DEF Promise!vars, statusBar, abandonedBar
<1>3. ASSUME NEW w \in Slots, Sends(w) PROVE \E j \in Jobs : Promise!Send(j)
  <2>1. run[w].job \in Jobs /\ row[run[w].job].status # "NONE"
    BY <1>3 DEF Sends, TypeOK, LockInv, EntityOK, Live
  <2>2. PICK j \in Jobs : j = run[w].job
    BY <2>1
  <2>3. sentBar' = sentBar \cup {j}
    BY <1>3, <2>2 DEF Sends, sentBar, TypeOK
  <2>4. Promise!Send(j)
    BY <1>1, <2>1, <2>2, <2>3 DEF Promise!Send, statusBar, sentBar, abandonedBar
  <2>5. QED
    BY <2>4
<1>4. QED
  BY <1>2, <1>3, OnlyRunsSend DEF Promise!Next

LEMMA OneMoveRefines ==
  ASSUME TypeOK, TypeOK', LockInv, NEW j \in Jobs, Moves(j),
         \A k \in Jobs \ {j} : Unmoved(k), UNCHANGED deliveries
  PROVE  [Promise!Next]_(Promise!vars)
<1>1. /\ statusBar' = [statusBar EXCEPT ![j] = row'[j].status]
      /\ sentBar' = sentBar
      /\ abandonedBar' = IF row'[j].by_reaper THEN abandonedBar \cup {j} ELSE abandonedBar \ {j}
  BY DEF statusBar, sentBar, abandonedBar, Unmoved
<1>2. row[j].by_reaper <=> j \in abandonedBar
  BY DEF abandonedBar
<1>3. row[j].by_reaper => row[j].status = "FAILED"
  BY DEF LockInv, RowOK
<1>4. CASE Unmoved(j)
  <2>1. statusBar' = statusBar /\ abandonedBar' = abandonedBar
    BY <1>4 DEF Unmoved, statusBar, abandonedBar
  <2>2. QED
    BY <1>1, <2>1 DEF Promise!vars, statusBar, sentBar, abandonedBar
<1>5. CASE Inserted(j)
  <2>1. abandonedBar' = abandonedBar
    BY <1>5 DEF Inserted, abandonedBar, Unmoved
  <2>2. Promise!Insert(j)
    BY <1>1, <1>5, <2>1 DEF Inserted, Promise!Insert, statusBar, sentBar, abandonedBar
  <2>3. QED
    BY <2>2 DEF Promise!Next
<1>6. CASE Reaped(j)
  <2>1. \A k \in {j} : statusBar[k] \in Promise!Active
    BY <1>6 DEF Reaped, Active, Promise!Active, statusBar
  <2>2. statusBar' = [k \in Jobs |-> IF k \in {j} THEN "FAILED" ELSE statusBar[k]]
    BY <1>1, <1>6 DEF Reaped, statusBar
  <2>3. abandonedBar' = abandonedBar \cup {j}
    BY <1>1, <1>6 DEF Reaped
  <2>4. Promise!Abandon({j})
    BY <1>1, <2>1, <2>2, <2>3 DEF Promise!Abandon, statusBar, sentBar, abandonedBar
  <2>5. QED
    BY <2>4 DEF Promise!Next
<1>7. CASE Started(j)
  <2>1. CASE row[j].by_reaper
    <3>1. Promise!Revive(j)
      BY <1>1, <1>2, <1>7, <2>1
         DEF Started, Written, Promise!Revive, statusBar, sentBar, abandonedBar
    <3>2. QED
      BY <3>1 DEF Promise!Next
  <2>2. CASE ~row[j].by_reaper
    <3>1. abandonedBar' = abandonedBar
      BY <1>1, <1>2, <1>7, <2>2 DEF Started, Written
    <3>2. Promise!Start(j)
      BY <1>1, <1>7, <2>2, <3>1
         DEF Started, Promise!Start, statusBar, sentBar, abandonedBar
    <3>3. QED
      BY <3>2 DEF Promise!Next
  <2>3. QED
    BY <2>1, <2>2
<1>8. CASE Failed(j)
  <2>1. CASE row[j].by_reaper
    <3>1. statusBar' = statusBar
      BY <1>1, <1>3, <1>8, <2>1 DEF Failed, statusBar
    <3>2. Promise!Seal(j)
      BY <1>1, <1>2, <1>8, <2>1, <3>1
         DEF Failed, Written, Promise!Seal, statusBar, sentBar, abandonedBar
    <3>3. QED
      BY <3>2 DEF Promise!Next
  <2>2. CASE ~row[j].by_reaper
    <3>1. abandonedBar' = abandonedBar
      BY <1>1, <1>2, <1>8, <2>2 DEF Failed, Written
    <3>2. Promise!Fail(j)
      BY <1>1, <1>8, <2>2, <3>1
         DEF Failed, Active, Promise!Fail, Promise!Active, statusBar, sentBar, abandonedBar
    <3>3. QED
      BY <3>2 DEF Promise!Next
  <2>3. QED
    BY <2>1, <2>2
<1>9. CASE Succeeded(j)
  <2>1. j \in sentBar /\ abandonedBar' = abandonedBar \ {j}
    BY <1>1, <1>9 DEF Succeeded, Written, sentBar
  <2>2. Promise!Succeed(j)
    BY <1>1, <1>9, <2>1
       DEF Succeeded, Promise!Succeed, statusBar, sentBar, abandonedBar
  <2>3. QED
    BY <2>2 DEF Promise!Next
<1>10. QED
  BY <1>4, <1>5, <1>6, <1>7, <1>8, <1>9 DEF Moves

LEMMA SweepRefines ==
  ASSUME TypeOK, LockInv, Sweep, UNCHANGED deliveries
  PROVE  [Promise!Next]_(Promise!vars)
<1>0. PICK S \in SUBSET Jobs : S = {j \in Jobs : Reaped(j)}
  OBVIOUS
<1>1. \A j \in S : statusBar[j] \in Promise!Active
  BY <1>0 DEF Reaped, Active, Promise!Active, statusBar
<1>2. statusBar' = [j \in Jobs |-> IF j \in S THEN "FAILED" ELSE statusBar[j]]
  BY <1>0 DEF Reaped, Sweep, Unmoved, statusBar
<1>3. abandonedBar' = abandonedBar \cup S
  BY <1>0 DEF Reaped, Sweep, Unmoved, abandonedBar
<1>4. sentBar' = sentBar
  BY DEF sentBar
<1>5. Promise!Abandon(S)
  BY <1>1, <1>2, <1>3, <1>4 DEF Promise!Abandon, statusBar, sentBar, abandonedBar
<1>6. QED
  BY <1>5 DEF Promise!Next

(* Whatever the queue, the workers, the bot and the reaper do to each other,   *)
(* the readers of download_jobs see a run of JobStatus.                        *)
THEOREM StatusPromiseKept == Spec => ImplementsJobStatus
<1>1. Init => Promise!Init
  BY DEF Init, Promise!Init
<1>2. TypeOK /\ TypeOK' /\ LockInv /\ [Next]_vars => [Promise!Next]_(Promise!vars)
  BY StepShape, RestRefines, OneMoveRefines, SweepRefines DEF Shape, OneMove
<1>3. QED
  BY <1>1, <1>2, LockingCorrect, PTL DEF Spec, ImplementsJobStatus, Promise!Spec

-----------------------------------------------------------------------------
(***************************************************************************)
(* The failure message is sent once. A job is sealed when its terminal     *)
(* status went through update(): only the run that seals a job may tell    *)
(* the user, and a sealed job is never sealed again.                       *)
(***************************************************************************)

Sealed(j) == row[j].status \in Terminal /\ ~row[j].by_reaper
Telling(w, j) == run[w].pc = "notifying" /\ run[w].job = j

NoticeOK(j) ==
  /\ notices[j] <= 1
  /\ notices[j] # 0 => Sealed(j)
  /\ \A w \in Slots : Telling(w, j) => Sealed(j) /\ notices[j] = 0
  /\ \A v, w \in Slots : Telling(v, j) /\ Telling(w, j) => v = w

NoticeInv == \A j \in Jobs : NoticeOK(j)

Quiet ==
  /\ UNCHANGED notices
  /\ \A w \in Slots : run'[w].pc = "notifying" =>
       run[w].pc = "notifying" /\ run'[w].job = run[w].job
Seals(w) ==
  /\ run[w].pc \in {"failing", "terminal_failing"}
  /\ Current(run[w].job, run[w].version)
  /\ Save(run[w].job, "FAILED")
  /\ Goto(w, "notifying")
  /\ UNCHANGED notices

LEMMA StepNotifiesOrSeals ==
  ASSUME TypeOK, [Next]_vars PROVE Quiet \/ \E w \in Slots : Notify(w) \/ Seals(w)
<1>0. run \in [Slots -> Run] /\ \A w \in Slots : run[w] \in Run
  BY DEF TypeOK
<1>1. ASSUME NEW j \in Jobs, BotStep(j) PROVE Quiet
  BY <1>1 DEF BotStep, CreateIfUnderCap, Publish, PublishRaises, Release, BotStops,
             RequestCancel, Quiet, history
<1>2. ASSUME NEW j \in Jobs, QueueStep(j) PROVE Quiet
  <2>1. CASE GiveUp(j) \/ LeaseLapses(j) \/ QueueLoses(j) \/ FlagExpires(j)
    BY <2>1 DEF GiveUp, LeaseLapses, QueueLoses, FlagExpires, Quiet, history
  <2>2. ASSUME NEW w \in Slots, PickUp(w, j) PROVE Quiet
    <3>1. run'[w].pc = "get" /\ \A v \in Slots \ {w} : run'[v] = run[v]
      BY <1>0, <2>2 DEF PickUp, Idle
    <3>2. QED
      BY <2>2, <3>1 DEF PickUp, Quiet, history
  <2>3. QED
    BY <1>2, <2>1, <2>2 DEF QueueStep
<1>3. ASSUME NEW w \in Slots, RunStep(w) PROVE Quiet \/ Notify(w) \/ Seals(w)
  <2>1. CASE SavePermanent(w) \/ SaveExhausted(w)
    <3>1. Seals(w) \/ \E l \in Labels \ {"notifying"} : Goto(w, l) /\ UNCHANGED notices
      BY <2>1 DEF SavePermanent, SaveExhausted, SaveFailed, Seals, history, Labels, Reading
    <3>2. QED
      BY <1>0, <3>1, GotoEffect DEF Quiet
  <2>2. CASE Transition(w)
    <3>1. /\ run'[w].pc \in {"ledger", "analyzing", "lost_race"}
          /\ \A v \in Slots \ {w} : run'[v] = run[v]
      BY <1>0, <2>2 DEF Transition, Goto, Run
    <3>2. QED
      BY <2>2, <3>1 DEF Transition, Quiet
  <2>3. ASSUME ~(SavePermanent(w) \/ SaveExhausted(w) \/ Transition(w) \/ Notify(w))
        PROVE  Quiet
    <3>1. run[w].pc # "idle"
      BY <1>3, <2>3 DEF RunStep, Load, LostRace, CheckLedger, Analyze, Download,
           SeesCancel, Deliver, DeliverRaises, Record, FailsForGood, FailsRetryably,
           PersistDone, DoneConflict, Overwrite, SaveCancelled, SaveFailed, SaveConflict,
           ClearFlag, Raised, TerminalGet, DbError, Saving, Reading
    <3>2. \/ Stop(w)
          \/ \E l \in Labels \ {"notifying"} : Goto(w, l)
          \/ \E l \in Labels \ {"notifying"}, n \in Nat : Hold(w, l, n)
      BY <1>3, <2>3, <3>1 DEF RunStep, Load, LostRace, CheckLedger, Analyze, Download,
           SeesCancel, Deliver, DeliverRaises, Record, FailsForGood, FailsRetryably,
           PersistDone, DoneConflict, Overwrite, SaveCancelled, SaveFailed, SaveConflict,
           ClearFlag, Raised, TerminalGet, DbError, Finish, Labels, Saving, Reading, Working,
           TypeOK, Row
    <3>3. UNCHANGED notices
      BY <1>3, <2>3 DEF RunStep, Load, LostRace, CheckLedger, Analyze, Download,
           SeesCancel, Deliver, DeliverRaises, Record, FailsForGood, FailsRetryably,
           PersistDone, DoneConflict, Overwrite, SaveCancelled, SaveFailed, SaveConflict,
           ClearFlag, Raised, TerminalGet, DbError, history
    <3>4. QED
      BY <1>0, <3>2, <3>3, StopEffect, GotoEffect, HoldEffect DEF Quiet
  <2>5. QED
    BY <2>1, <2>2, <2>3
<1>4. ASSUME NEW w \in Slots, Cut(w) PROVE Quiet
  BY <1>0, <1>4, StopEffect DEF Cut, Crash, Shutdown, TimesOut, CutShort, Quiet
<1>5. CASE CleanupStep \/ UNCHANGED vars
  BY <1>5 DEF CleanupStep, ReapOrphanProcessing, ReapOrphanPending, Reap, vars, history, Quiet
<1>6. CASE Tick
  BY <1>0, <1>6, TickEffect DEF Tick, history, Quiet
<1>7. QED
  BY <1>1, <1>2, <1>3, <1>4, <1>5, <1>6 DEF Next

LEMMA SealedStays ==
  ASSUME TypeOK, LockInv, [Next]_vars, NEW j \in Jobs, Sealed(j) PROVE Sealed(j)'
<1>1. Moves(j)
  BY StepMoves
<1>2. QED
  BY <1>1 DEF Moves, Unmoved, Inserted, Reaped, Started, Failed, Succeeded, Written,
              Sealed, Active, Terminal

LEMMA NoticesStayOK ==
  ASSUME TypeOK, LockInv, NoticeInv, [Next]_vars PROVE NoticeInv'
<1> SUFFICES ASSUME NEW j \in Jobs PROVE NoticeOK(j)'
  BY DEF NoticeInv
<1>0. /\ NoticeOK(j) /\ notices \in [Jobs -> Nat] /\ run \in [Slots -> Run]
      /\ row \in [Jobs -> Row]
      /\ Sealed(j) => Sealed(j)'
  BY SealedStays DEF NoticeInv, TypeOK
<1>1. CASE Quiet
  <2>1. \A w \in Slots : Telling(w, j)' => Telling(w, j)
    BY <1>1 DEF Quiet, Telling
  <2>2. QED
    BY <1>0, <1>1, <2>1 DEF NoticeOK, Quiet
<1>2. ASSUME NEW w \in Slots, Notify(w) PROVE NoticeOK(j)'
  <2>1. /\ run[w].pc = "notifying" /\ run[w].job \in Jobs /\ Stop(w)
        /\ \/ notices' = [notices EXCEPT ![run[w].job] = @ + 1]
           \/ UNCHANGED notices
    BY <1>2 DEF Notify, Finish, TypeOK
  <2>2. \A v \in Slots : Telling(v, j)' => v # w /\ Telling(v, j)
    BY <1>0, <2>1, StopEffect DEF Telling
  <2>3. CASE run[w].job = j
    <3>1. Telling(w, j) /\ notices[j] = 0 /\ Sealed(j)
      BY <1>0, <2>1, <2>3 DEF Telling, NoticeOK
    <3>2. \A v \in Slots : ~Telling(v, j)'
      BY <1>0, <2>2, <3>1 DEF NoticeOK
    <3>3. notices'[j] <= 1
      BY <1>0, <2>1, <3>1
    <3>4. QED
      BY <1>0, <3>1, <3>2, <3>3 DEF NoticeOK
  <2>4. CASE run[w].job # j
    <3>1. notices'[j] = notices[j]
      BY <1>0, <2>1, <2>4
    <3>2. QED
      BY <1>0, <2>2, <3>1 DEF NoticeOK
  <2>5. QED
    BY <2>3, <2>4
<1>3. ASSUME NEW w \in Slots, Seals(w) PROVE NoticeOK(j)'
  <2>1. /\ run'[w].job = run[w].job /\ run[w].job \in Jobs
        /\ \A v \in Slots \ {w} : run'[v] = run[v]
    BY <1>0, <1>3, GotoEffect DEF Seals, Labels, TypeOK
  <2>2. \A v \in Slots : v # w /\ Telling(v, j)' => Telling(v, j)
    BY <2>1 DEF Telling
  <2>3. CASE run[w].job = j
    <3>1. ~Sealed(j)
      <4>1. EntityOK(w) /\ Live(w)
        BY <1>3 DEF Seals, LockInv, Live
      <4>2. row[j].status \in Active \/ row[j].by_reaper
        BY <1>3, <2>3, <4>1 DEF Seals, EntityOK, Current, Owning, Active
      <4>3. QED
        BY <4>2 DEF Sealed, Active, Terminal
    <3>2. /\ notices[j] = 0 /\ \A v \in Slots : ~Telling(v, j)
      BY <1>0, <3>1 DEF NoticeOK
    <3>3. Sealed(j)'
      BY <1>0, <1>3, <2>3, SaveEffect DEF Seals, Sealed, Terminal, Status
    <3>4. QED
      BY <1>3, <2>2, <3>2, <3>3 DEF NoticeOK, Seals
  <2>4. CASE run[w].job # j
    <3>1. ~Telling(w, j)'
      BY <2>1, <2>4 DEF Telling
    <3>2. QED
      BY <1>0, <1>3, <2>2, <3>1 DEF NoticeOK, Seals
  <2>5. QED
    BY <2>3, <2>4
<1>4. QED
  BY <1>1, <1>2, <1>3, StepNotifiesOrSeals

(* The user reads at most one failure message per job, however many runs       *)
(* overlap, are retried or are reaped on the way.                              *)
THEOREM OneNotice == Spec => []AtMostOneNotice
<1>1. Init => NoticeInv
  BY DEF Init, NoticeInv, NoticeOK, Telling, Idle
<1>2. TypeOK /\ LockInv /\ NoticeInv /\ [Next]_vars => NoticeInv'
  BY NoticesStayOK
<1>3. NoticeInv => AtMostOneNotice
  BY DEF NoticeInv, NoticeOK, AtMostOneNotice
<1>4. QED
  BY <1>1, <1>2, <1>3, LockingCorrect, PTL DEF Spec
=============================================================================
