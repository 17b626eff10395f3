------------------------- MODULE JobLifecycleLimits -------------------------
(***************************************************************************)
(* The three limits of the download job that rest on more than optimistic  *)
(* locking: the per-user cap, the age of a running job's row, and the      *)
(* number of times the media is sent. Proved for any number of jobs,       *)
(* users and slots, any cap, any number of tries and any timeouts.         *)
(***************************************************************************)
EXTENDS JobLifecycleProofs, FiniteSetTheorems

(***************************************************************************)
(* The per-user cap. A row becomes active again only when a late worker    *)
(* takes a reaped row back to PROCESSING, and that worker is why the job   *)
(* is counted as revived.                                                  *)
(***************************************************************************)

(* At most one row becomes active in a step that is not an insert, and its *)
(* job is revived by that step.                                            *)
OnlyRevives ==
  \E i : \A j \in Jobs :
    row'[j].status \in Active => row[j].status \in Active \/ (j = i /\ j \in revived')

LEMMA RowsRestRevive == UNCHANGED row => OnlyRevives
  BY DEF OnlyRevives

(* A save of a terminal status activates nothing. *)
LEMMA TerminalSaveRevives ==
  ASSUME TypeOK, NEW i \in Jobs, NEW s \in {"DONE", "FAILED"}, Save(i, s)
  PROVE  OnlyRevives
<1>1. s \in Status /\ s \notin Active
  BY DEF Status, Terminal, Active
<1>2. row'[i].status = s /\ \A k \in Jobs \ {i} : row'[k] = row[k]
  BY <1>1, SaveEffect DEF TypeOK
<1>3. QED
  BY <1>1, <1>2 DEF OnlyRevives

LEMMA TransitionRevives ==
  ASSUME TypeOK, LockInv, NEW w \in Slots, Transition(w) PROVE OnlyRevives
<1> DEFINE i == run[w].job
<1>0. i \in Jobs /\ Live(w)
  BY DEF Transition, TypeOK, Live
<1>1. CASE Current(i, run[w].version) /\ Save(i, "PROCESSING")
  <2>1. \A k \in Jobs \ {i} : row'[k] = row[k]
    BY <1>0, <1>1, SaveEffect DEF TypeOK, Status, Active
  <2>2. run[w].version = row[i].version /\ run[w].pc = "transition"
    BY <1>1 DEF Current, Transition
  <2>3. EntityOK(w) /\ RowOK(i) /\ row[i] \in Row
    BY <1>0 DEF LockInv, TypeOK
  <2>4. row[i].status = "PENDING" \/ row[i].by_reaper
    BY <1>0, <2>2, <2>3 DEF EntityOK, RowOK, Row, Status, Active, Terminal
  <2>5. row[i].status \in Active \/ i \in revived'
    <3>1. CASE row[i].by_reaper
      <4>1. revived' = IF row[i].by_reaper THEN revived \cup {i} ELSE revived
        BY <1>1 DEF Transition, Current
      <4>2. QED
        BY <3>1, <4>1
    <3>2. CASE row[i].status = "PENDING"
      BY <3>2 DEF Active
    <3>3. QED
      BY <2>4, <3>1, <3>2
  <2>6. QED
    BY <1>0, <2>1, <2>5 DEF OnlyRevives
<1>2. CASE UNCHANGED row
  BY <1>2, RowsRestRevive
<1>3. QED
  BY <1>1, <1>2 DEF Transition

LEMMA RunRevives ==
  ASSUME TypeOK, LockInv, NEW w \in Slots, RunStep(w) PROVE OnlyRevives
<1>0. run[w].pc # "idle" => run[w].job \in Jobs
  BY DEF TypeOK
<1>1. CASE Transition(w)
  BY <1>1, TransitionRevives
<1>2. CASE PersistDone(w) \/ Overwrite(w)
  BY <1>0, <1>2, TerminalSaveRevives, RowsRestRevive DEF PersistDone, Overwrite
<1>3. CASE SaveCancelled(w) \/ SavePermanent(w) \/ SaveExhausted(w)
  BY <1>0, <1>3, TerminalSaveRevives, RowsRestRevive
     DEF SaveCancelled, SavePermanent, SaveExhausted, SaveFailed
<1>4. CASE Raised(w)
  <2>1. CASE row' = [row EXCEPT ![run[w].job].age = 0]
    <3>1. \A j \in Jobs : row'[j].status = row[j].status
      BY <2>1 DEF TypeOK, Row
    <3>2. QED
      BY <3>1 DEF OnlyRevives
  <2>2. QED
    BY <1>4, <2>1, RowsRestRevive DEF Raised
<1>5. CASE Load(w) \/ LostRace(w) \/ CheckLedger(w) \/ Analyze(w) \/ Download(w)
           \/ SeesCancel(w) \/ Deliver(w) \/ DeliverRaises(w) \/ Record(w)
           \/ FailsForGood(w) \/ FailsRetryably(w) \/ DoneConflict(w) \/ SaveConflict(w)
           \/ ClearFlag(w) \/ Notify(w) \/ TerminalGet(w) \/ DbError(w)
  <2>1. UNCHANGED row
    BY <1>5 DEF Load, LostRace, CheckLedger, Analyze, Download, SeesCancel, Deliver,
       DeliverRaises, Record, FailsForGood, FailsRetryably, DoneConflict, SaveConflict,
       ClearFlag, Notify, TerminalGet, DbError
  <2>2. QED
    BY <2>1, RowsRestRevive
<1>6. QED
  BY <1>1, <1>2, <1>3, <1>4, <1>5 DEF RunStep

LEMMA StepRevives ==
  ASSUME TypeOK, LockInv, [Next]_vars PROVE OnlyRevives \/ \E j \in Jobs : CreateIfUnderCap(j)
<1>1. ASSUME NEW j \in Jobs, Release(j) PROVE OnlyRevives
  BY <1>1, TerminalSaveRevives, RowsRestRevive DEF Release
<1>2. ASSUME NEW j \in Jobs, BotStep(j) \/ QueueStep(j), ~CreateIfUnderCap(j), ~Release(j)
      PROVE  OnlyRevives
  BY <1>2, RowsRestRevive DEF BotStep, Publish, PublishRaises, BotStops, RequestCancel,
     QueueStep, GiveUp, LeaseLapses, QueueLoses, FlagExpires, PickUp
<1>3. ASSUME NEW w \in Slots, Cut(w) PROVE OnlyRevives
  BY <1>3, RowsRestRevive DEF Cut, Crash, Shutdown, TimesOut, CutShort
<1>4. CASE CleanupStep
  <2>1. \A j \in Jobs : row'[j] = row[j] \/ row'[j].status = "FAILED"
    BY <1>4, ReapEffect DEF CleanupStep, ReapOrphanProcessing, ReapOrphanPending, TypeOK
  <2>2. QED
    BY <2>1 DEF OnlyRevives, Active
<1>5. CASE Tick
  BY <1>5, TickEffect DEF OnlyRevives
<1>6. CASE UNCHANGED vars
  BY <1>6, RowsRestRevive DEF vars
<1>7. QED
  BY <1>1, <1>2, <1>3, <1>4, <1>5, <1>6, RunRevives DEF Next

(* revived only grows. *)
LEMMA RevivedGrows ==
  ASSUME [Next]_vars PROVE revived \subseteq revived'
<1>1. ASSUME NEW j \in Jobs, BotStep(j) \/ QueueStep(j) PROVE revived' = revived
  BY <1>1 DEF BotStep, CreateIfUnderCap, Publish, PublishRaises, Release, BotStops,
     RequestCancel, QueueStep, GiveUp, LeaseLapses, QueueLoses, FlagExpires, PickUp, history
<1>2. ASSUME NEW w \in Slots, RunStep(w) PROVE revived \subseteq revived'
  <2>1. CASE Transition(w)
    BY <2>1 DEF Transition
  <2>2. CASE ~Transition(w)
    BY <1>2, <2>2 DEF RunStep, Load, LostRace, CheckLedger, Analyze, Download, SeesCancel,
       Deliver, DeliverRaises, Record, FailsForGood, FailsRetryably, PersistDone, DoneConflict,
       Overwrite, SaveCancelled, SavePermanent, SaveExhausted, SaveFailed, SaveConflict,
       ClearFlag, Notify, Raised, TerminalGet, DbError, history
  <2>3. QED
    BY <2>1, <2>2
<1>3. ASSUME NEW w \in Slots, Cut(w) PROVE revived' = revived
  BY <1>3 DEF Cut, Crash, Shutdown, TimesOut, CutShort
<1>4. CASE CleanupStep \/ Tick \/ UNCHANGED vars
  BY <1>4 DEF CleanupStep, ReapOrphanProcessing, ReapOrphanPending, Reap, Tick, vars, history
<1>5. QED
  BY <1>1, <1>2, <1>3, <1>4 DEF Next

CapInv ==
  /\ \A u \in Users : IsFiniteSet(ActiveOf(u))
  /\ CapHoldsForUnrevived

(* An insert takes the slot it found free. *)
LEMMA InsertKeepsCap ==
  ASSUME TypeOK, CapInv, NEW i \in Jobs, CreateIfUnderCap(i), NEW u \in Users
  PROVE  IsFiniteSet(ActiveOf(u))' /\ Cardinality(ActiveOf(u) \ revived)' <= MaxPerUser
<1>1. UNCHANGED <<revived>>
  BY DEF CreateIfUnderCap, history
<1>2. \A j \in Jobs : row'[j].status = IF j = i THEN "PENDING" ELSE row[j].status
  BY DEF CreateIfUnderCap, TypeOK, Row
<1>3. IsFiniteSet(ActiveOf(u)) /\ Cardinality(ActiveOf(u) \ revived) <= MaxPerUser
  BY DEF CapInv, CapHoldsForUnrevived
<1>4. CASE Owner[i] # u
  <2>1. ActiveOf(u)' = ActiveOf(u)
    BY <1>2, <1>4 DEF ActiveOf
  <2>2. QED
    BY <1>1, <1>3, <2>1
<1>5. CASE Owner[i] = u
  <2>1. ActiveOf(u)' = ActiveOf(u) \cup {i}
    BY <1>2, <1>5 DEF ActiveOf, Active
  <2>0. Cardinality(ActiveOf(u)) \in Nat
    BY <1>3, FS_CardinalityType
  <2>2. /\ IsFiniteSet(ActiveOf(u) \cup {i})
        /\ Cardinality(ActiveOf(u) \cup {i}) <= Cardinality(ActiveOf(u)) + 1
    <3>1. /\ IsFiniteSet(ActiveOf(u) \cup {i})
          /\ Cardinality(ActiveOf(u) \cup {i}) =
               IF i \in ActiveOf(u) THEN Cardinality(ActiveOf(u)) ELSE Cardinality(ActiveOf(u)) + 1
      BY <1>3, FS_AddElement
    <3>2. QED
      BY <2>0, <3>1
  <2>3. /\ Cardinality(ActiveOf(u)) \in Nat
        /\ Cardinality(ActiveOf(u)) < MaxPerUser
    BY <1>3, <1>5, FS_CardinalityType DEF CreateIfUnderCap
  <2>4. (ActiveOf(u) \cup {i}) \ revived \in SUBSET (ActiveOf(u) \cup {i})
    OBVIOUS
  <2>5. /\ Cardinality((ActiveOf(u) \cup {i}) \ revived) <= Cardinality(ActiveOf(u) \cup {i})
        /\ Cardinality((ActiveOf(u) \cup {i}) \ revived) \in Nat
    BY <2>2, <2>4, FS_Subset, FS_CardinalityType
  <2>6. Cardinality(ActiveOf(u) \cup {i}) \in Nat
    BY <2>2, FS_CardinalityType
  <2>7. MaxPerUser \in Nat
    BY ConstantsAssumption
  <2>8. Cardinality((ActiveOf(u) \cup {i}) \ revived) <= MaxPerUser
    BY <2>2, <2>3, <2>5, <2>6, <2>7
  <2>9. QED
    BY <1>1, <2>1, <2>2, <2>8
<1>6. QED
  BY <1>4, <1>5

(* No other step adds a job to the unrevived ones. *)
LEMMA RevivalKeepsCap ==
  ASSUME TypeOK, CapInv, OnlyRevives, revived \subseteq revived', NEW u \in Users
  PROVE  IsFiniteSet(ActiveOf(u))' /\ Cardinality(ActiveOf(u) \ revived)' <= MaxPerUser
<1>1. PICK i : \A j \in Jobs :
        row'[j].status \in Active => row[j].status \in Active \/ (j = i /\ j \in revived')
  BY DEF OnlyRevives
<1>2. IsFiniteSet(ActiveOf(u)) /\ Cardinality(ActiveOf(u) \ revived) <= MaxPerUser
  BY DEF CapInv, CapHoldsForUnrevived
<1>3. ActiveOf(u)' \in SUBSET (ActiveOf(u) \cup {i})
  BY <1>1 DEF ActiveOf
<1>4. IsFiniteSet(ActiveOf(u)')
  BY <1>2, <1>3, FS_AddElement, FS_Subset
<1>5. (ActiveOf(u)' \ revived') \in SUBSET (ActiveOf(u) \ revived)
  BY <1>1 DEF ActiveOf
<1>6. ActiveOf(u) \ revived \in SUBSET ActiveOf(u)
  OBVIOUS
<1>7. IsFiniteSet(ActiveOf(u) \ revived)
  BY <1>2, <1>6, FS_Subset
<1>8. /\ Cardinality(ActiveOf(u)' \ revived') <= Cardinality(ActiveOf(u) \ revived)
      /\ Cardinality(ActiveOf(u)' \ revived') \in Nat
      /\ Cardinality(ActiveOf(u) \ revived) \in Nat
  BY <1>5, <1>7, FS_Subset, FS_CardinalityType
<1>9. MaxPerUser \in Nat
  BY ConstantsAssumption
<1>10. Cardinality(ActiveOf(u)' \ revived') <= MaxPerUser
  BY <1>2, <1>8, <1>9
<1>11. QED
  BY <1>4, <1>10

LEMMA NextCapInv == TypeOK /\ LockInv /\ CapInv /\ [Next]_vars => CapInv'
<1> SUFFICES ASSUME TypeOK, LockInv, CapInv, [Next]_vars, NEW u \in Users
             PROVE  IsFiniteSet(ActiveOf(u))' /\ Cardinality(ActiveOf(u) \ revived)' <= MaxPerUser
  BY DEF CapInv, CapHoldsForUnrevived
<1>1. QED
  BY StepRevives, RevivedGrows, InsertKeepsCap, RevivalKeepsCap

LEMMA InitCapInv == Init => CapInv
<1> SUFFICES ASSUME Init PROVE CapInv
  OBVIOUS
<1>1. \A u \in Users : ActiveOf(u) = {} /\ ActiveOf(u) \ revived = {}
  BY DEF Init, ActiveOf, Active
<1>2. 0 <= MaxPerUser
  BY ConstantsAssumption
<1>3. QED
  BY <1>1, <1>2, FS_EmptySet DEF CapInv, CapHoldsForUnrevived

(* MAX_CONCURRENT_JOBS_PER_USER bounds the jobs no late worker revived, whatever *)
(* the reapers, the retries and the stale entities do to the rows.               *)
THEOREM CapKept == Spec => []CapHoldsForUnrevived
<1>1. CapInv => CapHoldsForUnrevived
  BY DEF CapInv
<1>2. QED
  BY <1>1, InitCapInv, NextCapInv, LockingCorrect, PTL DEF Spec

-----------------------------------------------------------------------------
(***************************************************************************)
(* The age of a running job's row. Every write that leaves a row in        *)
(* PROCESSING refreshes updated_at, so since a run took the row there, the *)
(* row cannot have aged longer than the run has lasted, and arq's timeout  *)
(* bounds that. ORPHAN_JOB_AGE_SECONDS is larger by validate_runtime.      *)
(***************************************************************************)

AgeOK(w) ==
  Live(w) =>
    /\ run[w].ran <= JobTimeout
    /\ run[w].hop /\ row[run[w].job].status = "PROCESSING"
         => row[run[w].job].age <= run[w].ran

AgeInv == \A w \in Slots : AgeOK(w)

(* What a step other than the clock's does to a row and to a slot. *)
Fresh(j) ==
  row'[j].status = "PROCESSING" =>
    row'[j].age = 0 \/ (row[j].status = "PROCESSING" /\ row'[j].age = row[j].age)
Lasting(w) ==
  \/ run'[w].pc = "idle"
  \/ run'[w].ran = 0 /\ ~run'[w].hop
  \/ /\ Live(w)
     /\ run'[w].job = run[w].job /\ run'[w].ran = run[w].ran
     /\ run'[w].hop => run[w].hop \/ row'[run[w].job].age = 0

Timeless == (\A j \in Jobs : Fresh(j)) /\ (\A w \in Slots : Lasting(w))

LEMMA RowsRestFresh == UNCHANGED row => \A j \in Jobs : Fresh(j)
  BY DEF Fresh

LEMMA SlotsRestLasting == UNCHANGED run => \A w \in Slots : Lasting(w)
  BY DEF Lasting, Live

LEMMA SaveFresh ==
  ASSUME TypeOK, NEW i \in Jobs, NEW s \in Status, Save(i, s) PROVE \A j \in Jobs : Fresh(j)
  BY SaveEffect DEF TypeOK, Fresh

LEMMA GotoLasting ==
  ASSUME TypeOK, NEW w \in Slots, Live(w), NEW l, Goto(w, l) PROVE \A v \in Slots : Lasting(v)
  BY DEF TypeOK, Goto, Run, Lasting, Live

LEMMA HoldLasting ==
  ASSUME TypeOK, NEW w \in Slots, Live(w), NEW l, NEW n, Hold(w, l, n)
  PROVE  \A v \in Slots : Lasting(v)
  BY DEF TypeOK, Hold, Run, Lasting, Live

LEMMA StopLasting ==
  ASSUME TypeOK, NEW w \in Slots, Stop(w) PROVE \A v \in Slots : Lasting(v)
  BY DEF TypeOK, Stop, Idle, Lasting, Live

LEMMA TransitionTimeless ==
  ASSUME TypeOK, NEW w \in Slots, Transition(w) PROVE Timeless
<1> DEFINE i == run[w].job
<1>0. i \in Jobs /\ Live(w) /\ run[w] \in Run
  BY DEF Transition, TypeOK, Live
<1>1. CASE Save(i, "PROCESSING")
              /\ run' = [run EXCEPT ![w].pc = IF run[w].attempt > 1 THEN "ledger" ELSE "analyzing",
                                    ![w].version = @ + 1, ![w].hop = TRUE]
  <2>1. \A j \in Jobs : Fresh(j)
    BY <1>0, <1>1, SaveFresh DEF Status, Active
  <2>2. row'[i].age = 0
    BY <1>0, <1>1, SaveEffect DEF TypeOK, Status, Active
  <2>3. /\ run'[w].job = i /\ run'[w].ran = run[w].ran
        /\ \A v \in Slots \ {w} : run'[v] = run[v]
    BY <1>0, <1>1 DEF TypeOK, Run
  <2>4. \A v \in Slots : Lasting(v)
    BY <1>0, <2>2, <2>3 DEF Lasting, Live
  <2>5. QED
    BY <2>1, <2>4 DEF Timeless
<1>2. CASE UNCHANGED row /\ Goto(w, "lost_race")
  BY <1>0, <1>2, RowsRestFresh, GotoLasting DEF Timeless
<1>3. QED
  BY <1>1, <1>2 DEF Transition

LEMMA RunTimeless ==
  ASSUME TypeOK, NEW w \in Slots, RunStep(w) PROVE Timeless
<1>0. run[w].pc # "idle" => run[w].job \in Jobs /\ Live(w)
  BY DEF TypeOK, Live
<1>s. "DONE" \in Status /\ "FAILED" \in Status
  BY DEF Status, Terminal
<1>1. CASE Transition(w)
  BY <1>1, TransitionTimeless
<1>2. CASE PersistDone(w) \/ Overwrite(w)
  <2>1. run[w].job \in Jobs /\ Live(w)
    BY <1>0, <1>2 DEF PersistDone, Overwrite
  <2>2. \A j \in Jobs : Fresh(j)
    BY <1>2, <2>1, <1>s, SaveFresh, RowsRestFresh DEF PersistDone, Overwrite
  <2>3. \A v \in Slots : Lasting(v)
    BY <1>2, <2>1, GotoLasting, StopLasting DEF PersistDone, Overwrite, Finish
  <2>4. QED
    BY <2>2, <2>3 DEF Timeless
<1>3. CASE SaveCancelled(w) \/ SavePermanent(w) \/ SaveExhausted(w)
  <2>1. run[w].job \in Jobs /\ Live(w)
    BY <1>0, <1>3 DEF SaveCancelled, SavePermanent, SaveExhausted, SaveFailed
  <2>2. \A j \in Jobs : Fresh(j)
    BY <1>3, <2>1, <1>s, SaveFresh, RowsRestFresh
       DEF SaveCancelled, SavePermanent, SaveExhausted, SaveFailed
  <2>3. \A v \in Slots : Lasting(v)
    BY <1>3, <2>1, GotoLasting DEF SaveCancelled, SavePermanent, SaveExhausted, SaveFailed
  <2>4. QED
    BY <2>2, <2>3 DEF Timeless
<1>4. CASE Raised(w)
  <2>1. run[w].job \in Jobs /\ Live(w)
    BY <1>0, <1>4 DEF Raised
  <2>2. ASSUME row' = [row EXCEPT ![run[w].job].age = 0] PROVE \A j \in Jobs : Fresh(j)
    <3>1. row[run[w].job] \in Row
      BY <2>1 DEF TypeOK
    <3>2. row'[run[w].job] = [row[run[w].job] EXCEPT !.age = 0]
      BY <2>1, <2>2 DEF TypeOK
    <3>3. row'[run[w].job].age = 0
      BY <3>1, <3>2 DEF Row
    <3>4. \A k \in Jobs \ {run[w].job} : row'[k] = row[k]
      BY <2>1, <2>2 DEF TypeOK
    <3>5. QED
      BY <3>3, <3>4 DEF Fresh
  <2>3. \A j \in Jobs : Fresh(j)
    <3>1. row' = [row EXCEPT ![run[w].job].age = 0] \/ UNCHANGED row
      BY <1>4 DEF Raised
    <3>2. QED
      BY <2>2, <3>1, RowsRestFresh
  <2>4. \A v \in Slots : Lasting(v)
    BY <1>4, <2>1, GotoLasting, StopLasting DEF Raised
  <2>5. QED
    BY <2>3, <2>4 DEF Timeless
<1>5. CASE Load(w) \/ LostRace(w) \/ CheckLedger(w) \/ Analyze(w) \/ Download(w)
           \/ SeesCancel(w) \/ Deliver(w) \/ DeliverRaises(w) \/ Record(w)
           \/ FailsForGood(w) \/ FailsRetryably(w) \/ DoneConflict(w) \/ SaveConflict(w)
           \/ ClearFlag(w) \/ Notify(w) \/ TerminalGet(w) \/ DbError(w)
  <2>1. UNCHANGED row
    BY <1>5 DEF Load, LostRace, CheckLedger, Analyze, Download, SeesCancel, Deliver,
       DeliverRaises, Record, FailsForGood, FailsRetryably, DoneConflict, SaveConflict,
       ClearFlag, Notify, TerminalGet, DbError
  <2>2. Live(w)
    BY <1>0, <1>5 DEF Load, LostRace, CheckLedger, Analyze, Download, SeesCancel, Deliver,
       DeliverRaises, Record, FailsForGood, FailsRetryably, DoneConflict, SaveConflict,
       ClearFlag, Notify, TerminalGet, DbError, Saving, Reading
  <2>3. (\E l : Goto(w, l)) \/ (\E l, n : Hold(w, l, n)) \/ Stop(w)
    <3>1. CASE Load(w) \/ LostRace(w) \/ ClearFlag(w) \/ Notify(w)
      BY <3>1 DEF Load, LostRace, ClearFlag, Notify, Finish
    <3>2. CASE DoneConflict(w) \/ SaveConflict(w)
      BY <3>2 DEF DoneConflict, SaveConflict, Finish
    <3>3. CASE TerminalGet(w) \/ DbError(w)
      BY <3>3 DEF TerminalGet, DbError, Finish
    <3>4. CASE CheckLedger(w) \/ Analyze(w) \/ Download(w) \/ SeesCancel(w) \/ Deliver(w)
      BY <3>4 DEF CheckLedger, Analyze, Download, SeesCancel, Deliver
    <3>5. CASE DeliverRaises(w) \/ Record(w) \/ FailsForGood(w) \/ FailsRetryably(w)
      BY <3>5 DEF DeliverRaises, Record, FailsForGood, FailsRetryably
    <3>6. QED
      BY <1>5, <3>1, <3>2, <3>3, <3>4, <3>5
  <2>5. \A v \in Slots : Lasting(v)
    BY <2>2, <2>3, GotoLasting, HoldLasting, StopLasting
  <2>6. QED
    BY <2>1, <2>5, RowsRestFresh DEF Timeless
<1>6. QED
  BY <1>1, <1>2, <1>3, <1>4, <1>5 DEF RunStep

LEMMA BotTimeless ==
  ASSUME TypeOK, NEW i \in Jobs, BotStep(i) \/ QueueStep(i) PROVE Timeless
<1>1. CASE CreateIfUnderCap(i)
  <2>1. \A j \in Jobs : Fresh(j)
    BY <1>1 DEF CreateIfUnderCap, Fresh, TypeOK, Row
  <2>2. QED
    BY <1>1, <2>1, SlotsRestLasting DEF CreateIfUnderCap, Timeless
<1>2. CASE Release(i)
  <2>1. \A j \in Jobs : Fresh(j)
    BY <1>2, SaveFresh, RowsRestFresh DEF Release, Status, Terminal
  <2>2. QED
    BY <1>2, <2>1, SlotsRestLasting DEF Release, Timeless
<1>3. ASSUME NEW w \in Slots, PickUp(w, i) PROVE Timeless
  <2>1. run' = [run EXCEPT ![w] = [Idle EXCEPT !.pc = "get", !.job = i,
                                               !.attempt = arq[i].tries + 1]]
    BY <1>3 DEF PickUp
  <2>2. run'[w].ran = 0 /\ ~run'[w].hop /\ \A v \in Slots \ {w} : run'[v] = run[v]
    BY <2>1 DEF TypeOK, Idle
  <2>3. \A v \in Slots : Lasting(v)
    BY <2>2 DEF Lasting, Live
  <2>4. QED
    BY <1>3, <2>3, RowsRestFresh DEF PickUp, Timeless
<1>4. CASE Publish(i) \/ PublishRaises(i) \/ BotStops(i) \/ RequestCancel(i) \/ GiveUp(i)
           \/ LeaseLapses(i) \/ QueueLoses(i) \/ FlagExpires(i)
  <2>1. UNCHANGED <<row, run>>
    BY <1>4 DEF Publish, PublishRaises, BotStops, RequestCancel, GiveUp, LeaseLapses,
       QueueLoses, FlagExpires
  <2>2. QED
    BY <2>1, RowsRestFresh, SlotsRestLasting DEF Timeless
<1>5. QED
  BY <1>1, <1>2, <1>3, <1>4 DEF BotStep, QueueStep

LEMMA StepTimeless ==
  ASSUME TypeOK, [Next]_vars, ~Tick PROVE Timeless
<1>1. ASSUME NEW w \in Slots, Cut(w) PROVE Timeless
  <2>1. UNCHANGED row /\ Stop(w)
    BY <1>1 DEF Cut, Crash, Shutdown, TimesOut, CutShort
  <2>2. QED
    BY <2>1, StopLasting, RowsRestFresh DEF Timeless
<1>2. CASE CleanupStep
  <2>1. \A j \in Jobs : row'[j] = row[j] \/ row'[j].status = "FAILED"
    BY <1>2, ReapEffect DEF CleanupStep, ReapOrphanProcessing, ReapOrphanPending, TypeOK
  <2>2. UNCHANGED run
    BY <1>2 DEF CleanupStep, ReapOrphanProcessing, ReapOrphanPending, Reap
  <2>3. QED
    BY <2>1, <2>2, SlotsRestLasting DEF Fresh, Timeless
<1>3. CASE UNCHANGED vars
  BY <1>3, RowsRestFresh, SlotsRestLasting DEF vars, Timeless
<1>4. QED
  BY <1>1, <1>2, <1>3, BotTimeless, RunTimeless DEF Next

LEMMA TimelessKeepsAge ==
  ASSUME TypeOK, TypeOK', AgeInv, Timeless, NEW w \in Slots PROVE AgeOK(w)'
<1> SUFFICES ASSUME Live(w)'
             PROVE  /\ run'[w].ran <= JobTimeout
                    /\ run'[w].hop /\ row'[run'[w].job].status = "PROCESSING"
                         => row'[run'[w].job].age <= run'[w].ran
  BY DEF AgeOK
<1>0. JobTimeout \in Nat /\ run'[w].ran \in Nat /\ run'[w].job \in Jobs
  BY ConstantsAssumption DEF TypeOK, Run, Live
<1>1. CASE run'[w].ran = 0 /\ ~run'[w].hop
  BY <1>0, <1>1
<1>2. CASE /\ Live(w)
           /\ run'[w].job = run[w].job /\ run'[w].ran = run[w].ran
           /\ run'[w].hop => run[w].hop \/ row'[run[w].job].age = 0
  <2>1. AgeOK(w) /\ Fresh(run[w].job)
    BY <1>0, <1>2 DEF AgeInv, Timeless
  <2>2. QED
    BY <1>0, <1>2, <2>1 DEF AgeOK, Fresh
<1>3. QED
  BY <1>1, <1>2 DEF Timeless, Lasting, Live

(* One tick ages the row and the run alike, and waits for arq's timeout. *)
LEMMA TickKeepsAge ==
  ASSUME TypeOK, AgeInv, Tick, NEW w \in Slots PROVE AgeOK(w)'
<1> SUFFICES ASSUME Live(w)'
             PROVE  /\ run'[w].ran <= JobTimeout
                    /\ run'[w].hop /\ row'[run'[w].job].status = "PROCESSING"
                         => row'[run'[w].job].age <= run'[w].ran
  BY DEF AgeOK
<1> DEFINE i == run[w].job
<1>0. /\ Live(w) /\ run'[w].job = i /\ run'[w].hop = run[w].hop
      /\ row'[i].status = row[i].status
      /\ i \in Jobs
  BY TickEffect DEF Live, TypeOK
<1>1. run[w].ran \in Nat /\ row[i].age \in Nat /\ JobTimeout \in Nat
  BY <1>0, ConstantsAssumption DEF TypeOK, Run, Row
<1>2. run'[w].ran = run[w].ran + 1 /\ run[w].ran < JobTimeout
  <2>1. run'[w] = [run[w] EXCEPT !.ran = @ + 1]
    BY <1>0 DEF Tick
  <2>2. QED
    BY <1>0, <2>1 DEF Tick, TypeOK, Run
<1>3. row'[i].age <= row[i].age + 1
  <2>1. row'[i] = [row[i] EXCEPT !.age = IF @ < AgeLimit(i) THEN @ + 1 ELSE @]
    BY <1>0 DEF Tick
  <2>2. row'[i].age = row[i].age \/ row'[i].age = row[i].age + 1
    BY <1>0, <2>1 DEF TypeOK, Row
  <2>3. QED
    BY <1>1, <2>2
<1>4. row'[i].age \in Nat
  BY <1>0, TickEffect DEF Row
<1>5. AgeOK(w)
  BY DEF AgeInv
<1>6. QED
  BY <1>0, <1>1, <1>2, <1>3, <1>4, <1>5 DEF AgeOK

LEMMA NextAgeInv == TypeOK /\ TypeOK' /\ AgeInv /\ [Next]_vars => AgeInv'
<1> SUFFICES ASSUME TypeOK, TypeOK', AgeInv, [Next]_vars, NEW w \in Slots PROVE AgeOK(w)'
  BY DEF AgeInv
<1>1. QED
  BY StepTimeless, TimelessKeepsAge, TickKeepsAge

LEMMA InitAgeInv == Init => AgeInv
  BY DEF Init, AgeInv, AgeOK, Live, Idle

(* A row its own run took to PROCESSING is never old enough for the reaper. *)
THEOREM OwnAttemptSafe == Spec => []OwnAttemptIsNotReaped
<1>1. TypeOK /\ AgeInv => OwnAttemptIsNotReaped
  <2> SUFFICES ASSUME TypeOK, AgeInv, NEW w \in Slots,
                      Live(w), run[w].hop, row[run[w].job].status = "PROCESSING"
               PROVE  row[run[w].job].age < OrphanAge
    BY DEF OwnAttemptIsNotReaped
  <2>1. row[run[w].job].age <= run[w].ran /\ run[w].ran <= JobTimeout
    BY DEF AgeInv, AgeOK
  <2>2. row[run[w].job].age \in Nat /\ run[w].ran \in Nat
    BY DEF TypeOK, Row, Run, Live
  <2>3. JobTimeout \in Nat \ {0} /\ OrphanAge \in Nat
    BY ConstantsAssumption
  <2>4. QED
    BY <2>1, <2>2, <2>3, OrphanAgeAssumption
<1>2. TypeOK /\ TypeOK' /\ AgeInv /\ [Next]_vars => AgeInv'
  BY NextAgeInv
<1>3. QED
  BY <1>1, <1>2, InitAgeInv, TypeCorrect, PTL DEF Spec

-----------------------------------------------------------------------------
(***************************************************************************)
(* One delivery. While no run of a job was cut in the window and none      *)
(* overlapped another, at most one run exists, it holds the in-progress    *)
(* key, and once the media was sent either the ledger knows or the run     *)
(* that sent it is about to tell it. A later run is a retry, and a retry   *)
(* reads the ledger before it works.                                       *)
(***************************************************************************)

Early == {"analyzing", "downloading", "delivering"}

RunsOn(w, j) == Live(w) /\ run[w].job = j

\* A run that may still work on a job whose media was sent is a retry.
Careful(w) == run[w].pc \notin Early /\ (run[w].pc \in {"get", "transition"} => run[w].attempt > 1)

Once(j) ==
  /\ \A w \in Slots : RunsOn(w, j) => arq[j].lease /\ arq[j].tries >= 1
  /\ \A v, w \in Slots : RunsOn(v, j) /\ RunsOn(w, j) => v = w
  /\ deliveries[j] <= 1
  /\ deliveries[j] = 1 =>
       /\ arq[j].tries >= 1
       /\ j \in ledger \/ \E w \in Slots : RunsOn(w, j) /\ run[w].pc = "recording"
       /\ \A w \in Slots : RunsOn(w, j) => Careful(w)

OnceInv == \A j \in Jobs : j \notin excused => Once(j)

(* What Once(j) reads is as before. *)
Elsewhere(j) ==
  /\ arq'[j].lease = arq[j].lease /\ arq'[j].tries = arq[j].tries
  /\ deliveries'[j] = deliveries[j]
  /\ j \in ledger => j \in ledger'
  /\ \A v \in Slots :
       \/ /\ run'[v].pc = run[v].pc /\ run'[v].job = run[v].job
          /\ run'[v].attempt = run[v].attempt
       \/ ~RunsOn(v, j) /\ ~RunsOn(v, j)'

LEMMA ElsewhereKeepsOnce ==
  ASSUME NEW j \in Jobs, Once(j), Elsewhere(j) PROVE Once(j)'
<1>1. \A v \in Slots : RunsOn(v, j)' => /\ RunsOn(v, j) /\ run'[v].pc = run[v].pc
                                        /\ run'[v].attempt = run[v].attempt
  BY DEF Elsewhere, RunsOn, Live
<1>2. \A v \in Slots : RunsOn(v, j) => RunsOn(v, j)' /\ run'[v].pc = run[v].pc
  BY DEF Elsewhere, RunsOn, Live
<1>3. \A v \in Slots : RunsOn(v, j)' => arq'[j].lease /\ arq'[j].tries >= 1
  BY <1>1 DEF Once, Elsewhere
<1>4. \A v, w \in Slots : RunsOn(v, j)' /\ RunsOn(w, j)' => v = w
  BY <1>1 DEF Once
<1>5. ASSUME deliveries'[j] = 1
      PROVE  /\ arq'[j].tries >= 1
             /\ j \in ledger' \/ \E w \in Slots : RunsOn(w, j)' /\ run'[w].pc = "recording"
             /\ \A w \in Slots : RunsOn(w, j)' => Careful(w)'
  BY <1>1, <1>2, <1>5 DEF Once, Elsewhere, Careful
<1>6. deliveries'[j] <= 1
  BY DEF Once, Elsewhere
<1>7. QED
  BY <1>3, <1>4, <1>5, <1>6 DEF Once

(* The run of the job ends, outside the window. *)
LEMMA EndKeepsOnce ==
  ASSUME NEW w \in Slots, NEW j \in Jobs, Once(j), RunsOn(w, j),
         run[w].pc # "recording", run'[w].pc = "idle",
         \A v \in Slots \ {w} : run'[v] = run[v],
         arq'[j].tries = arq[j].tries, deliveries'[j] = deliveries[j],
         j \in ledger => j \in ledger'
  PROVE  Once(j)'
<1>1. \A v \in Slots : ~RunsOn(v, j)'
  BY DEF Once, RunsOn, Live
<1>2. deliveries'[j] <= 1
  BY DEF Once
<1>3. ASSUME deliveries'[j] = 1 PROVE arq'[j].tries >= 1 /\ j \in ledger'
  BY <1>3 DEF Once
<1>4. QED
  BY <1>1, <1>2, <1>3 DEF Once

(* The run of the job moves on. *)
LEMMA MoveKeepsOnce ==
  ASSUME NEW w \in Slots, NEW j \in Jobs, Once(j), RunsOn(w, j), NEW l \in Labels,
         run'[w].pc = l, run'[w].job = run[w].job, run'[w].attempt = run[w].attempt,
         \A v \in Slots \ {w} : run'[v] = run[v],
         arq' = arq, deliveries' = deliveries, ledger \subseteq ledger',
         run[w].pc = "recording" => j \in ledger',
         deliveries[j] = 1 => l \notin Early /\ (l \in {"get", "transition"} => run[w].attempt > 1)
  PROVE  Once(j)'
<1>1. \A v \in Slots : RunsOn(v, j)' => v = w
  BY DEF Once, RunsOn, Live
<1>2. arq'[j].lease /\ arq'[j].tries >= 1 /\ deliveries'[j] <= 1
  BY DEF Once
<1>3. ASSUME deliveries'[j] = 1
      PROVE  j \in ledger' /\ Careful(w)'
  <2>1. j \in ledger \/ run[w].pc = "recording"
    BY <1>3 DEF Once
  <2>2. QED
    BY <1>3, <2>1 DEF Careful
<1>4. QED
  BY <1>1, <1>2, <1>3 DEF Once

LEMMA GotoKeepsOnce ==
  ASSUME TypeOK, NEW w \in Slots, NEW j \in Jobs, Once(j), RunsOn(w, j), NEW l \in Labels,
         Goto(w, l) \/ \E n \in Nat : Hold(w, l, n),
         arq' = arq, deliveries' = deliveries, ledger \subseteq ledger',
         run[w].pc = "recording" => j \in ledger',
         deliveries[j] = 1 => l \notin Early /\ (l \in {"get", "transition"} => run[w].attempt > 1)
  PROVE  Once(j)'
<1>1. /\ run'[w].pc = l /\ run'[w].job = run[w].job /\ run'[w].attempt = run[w].attempt
      /\ \A v \in Slots \ {w} : run'[v] = run[v]
  BY GotoEffect, HoldEffect DEF TypeOK
<1>2. QED
  BY <1>1, MoveKeepsOnce

LEMMA FinishKeepsOnce ==
  ASSUME TypeOK, NEW w \in Slots, NEW j \in Jobs, Once(j), RunsOn(w, j),
         run[w].pc # "recording", Stop(w),
         \/ arq' = arq
         \/ Finished(j)
         \/ arq' = [arq EXCEPT ![j].lease = FALSE],
         deliveries' = deliveries, j \in ledger => j \in ledger'
  PROVE  Once(j)'
<1>1. run'[w].pc = "idle" /\ \A v \in Slots \ {w} : run'[v] = run[v]
  BY StopEffect DEF TypeOK
<1>2. arq'[j].tries = arq[j].tries
  BY DEF TypeOK, Finished, Entry
<1>3. QED
  BY <1>1, <1>2, EndKeepsOnce

(* A run's step, seen from its own job. *)
LEMMA RunKeepsOwnOnce ==
  ASSUME TypeOK, NEW w \in Slots, RunStep(w), NEW j \in Jobs, j = run[w].job,
         Once(j), j \notin excused'
  PROVE  Once(j)'
<1> USE DEF redis, history
<1>l. /\ {"idle", "raised", "clearing", "notifying"} \subseteq Labels
      /\ Working \subseteq Labels /\ Saving \subseteq Labels /\ Reading \subseteq Labels
  BY DEF Labels
<1>0. RunsOn(w, j)
  BY DEF RunsOn, Live, RunStep, Load, Transition, LostRace, CheckLedger, Analyze, Download,
     SeesCancel, Deliver, DeliverRaises, Record, FailsForGood, FailsRetryably, PersistDone,
     DoneConflict, Overwrite, SaveCancelled, SavePermanent, SaveExhausted, SaveFailed,
     SaveConflict, ClearFlag, Notify, Raised, TerminalGet, DbError, Saving, Reading
<1>v. row[j].version \in Nat /\ row[j] \in Row
  BY DEF TypeOK, Row
<1>c. deliveries[j] = 1 => Careful(w)
  BY <1>0 DEF Once
\* A label where nothing can be sent any more.
<1>a. ASSUME NEW l \in Labels, Goto(w, l) \/ \E n \in Nat : Hold(w, l, n),
             l \notin Early, l \notin {"get", "transition"}, run[w].pc # "recording",
             arq' = arq, deliveries' = deliveries, ledger' = ledger
      PROVE  Once(j)'
  BY <1>0, <1>a, GotoKeepsOnce
<1>b. ASSUME Finish(w), run[w].pc # "recording", deliveries' = deliveries, ledger' = ledger
      PROVE  Once(j)'
  BY <1>0, <1>b, FinishKeepsOnce DEF Finish
<1>1. CASE Load(w)
  <2>1. CASE Hold(w, "transition", row[j].version) /\ arq' = arq
    <3>1. deliveries[j] = 1 => run[w].attempt > 1
      BY <1>1, <1>c DEF Load, Careful
    <3>2. "transition" \in Labels /\ "transition" \notin Early
      BY <1>l DEF Saving, Early
    <3>3. \E n \in Nat : Hold(w, "transition", n)
      BY <1>v, <2>1
    <3>4. run[w].pc # "recording" /\ deliveries' = deliveries /\ ledger' = ledger
      BY <1>1 DEF Load
    <3>5. QED
      BY <1>0, <2>1, <3>1, <3>2, <3>3, <3>4, GotoKeepsOnce
  <2>2. CASE Hold(w, "ledger", row[j].version) /\ arq' = arq
    BY <1>1, <1>a, <1>l, <1>v, <2>2 DEF Load, Reading, Early
  <2>3. CASE Finish(w)
    BY <1>1, <1>b, <2>3 DEF Load
  <2>4. QED
    BY <1>1, <2>1, <2>2, <2>3 DEF Load
<1>2. CASE Transition(w)
  <2>1. CASE Goto(w, "lost_race")
    BY <1>2, <1>a, <1>l, <2>1 DEF Transition, Reading, Early
  <2>2. CASE run' = [run EXCEPT ![w].pc = IF run[w].attempt > 1 THEN "ledger" ELSE "analyzing",
                                ![w].version = @ + 1, ![w].hop = TRUE]
    <3>1. PICK l \in {"ledger", "analyzing"} :
            l = IF run[w].attempt > 1 THEN "ledger" ELSE "analyzing"
      OBVIOUS
    <3>2. run' = [run EXCEPT ![w].pc = l, ![w].version = @ + 1, ![w].hop = TRUE]
      BY <2>2, <3>1
    <3>3. /\ run'[w].pc = l /\ run'[w].job = run[w].job /\ run'[w].attempt = run[w].attempt
          /\ \A v \in Slots \ {w} : run'[v] = run[v]
      BY <3>2 DEF TypeOK, Run
    <3>4. deliveries[j] = 1 => run[w].attempt > 1
      BY <1>2, <1>c DEF Transition, Careful
    <3>5. deliveries[j] = 1 => l = "ledger"
      BY <3>1, <3>4
    <3>6. l \in Labels
      BY <1>l DEF Reading, Working
    <3>7. arq' = arq /\ deliveries' = deliveries /\ ledger' = ledger /\ run[w].pc # "recording"
      BY <1>2 DEF Transition
    <3>8. deliveries[j] = 1 =>
            l \notin Early /\ (l \in {"get", "transition"} => run[w].attempt > 1)
      BY <3>5 DEF Early
    <3>9. QED
      BY <1>0, <3>3, <3>6, <3>7, <3>8, MoveKeepsOnce
  <2>3. QED
    BY <1>2, <2>1, <2>2 DEF Transition
<1>3. CASE LostRace(w)
  BY <1>3, <1>a, <1>b, <1>l DEF LostRace, Early
<1>4. CASE CheckLedger(w)
  <2>1. CASE Goto(w, "persisting")
    BY <1>4, <1>a, <1>l, <2>1 DEF CheckLedger, Saving, Early
  <2>2. CASE Goto(w, "analyzing") /\ excused' = IF j \in ledger THEN excused \cup {j} ELSE excused
    <3>1. j \notin ledger
      BY <2>2
    <3>2. deliveries[j] # 1
      <4>1. run[w].pc = "ledger"
        BY <1>4 DEF CheckLedger
      <4>2. QED
        BY <1>0, <3>1, <4>1 DEF Once
    <3>3. arq' = arq /\ deliveries' = deliveries /\ ledger' = ledger /\ run[w].pc # "recording"
      BY <1>4 DEF CheckLedger
    <3>4. "analyzing" \in Labels
      BY <1>l DEF Working
    <3>5. QED
      BY <1>0, <2>2, <3>2, <3>3, <3>4, GotoKeepsOnce
  <2>3. QED
    BY <1>4, <2>1, <2>2 DEF CheckLedger
<1>5. CASE Analyze(w) \/ Download(w)
  <2>1. run[w].pc \in Early
    BY <1>5 DEF Analyze, Download, Early
  <2>2. deliveries[j] # 1
    BY <1>c, <2>1 DEF Careful
  <2>3. PICK l \in {"downloading", "delivering"} : Goto(w, l)
    BY <1>5 DEF Analyze, Download
  <2>4. l \in Labels
    BY <1>l DEF Working
  <2>5. arq' = arq /\ deliveries' = deliveries /\ ledger' = ledger /\ run[w].pc # "recording"
    BY <1>5 DEF Analyze, Download
  <2>6. QED
    BY <1>0, <2>2, <2>3, <2>4, <2>5, GotoKeepsOnce
<1>6. CASE SeesCancel(w) \/ FailsForGood(w)
  BY <1>6, <1>a, <1>l DEF SeesCancel, FailsForGood, Saving, Early
<1>7. CASE FailsRetryably(w)
  BY <1>7, <1>a, <1>l DEF FailsRetryably, Early
<1>8. CASE Deliver(w)
  <2>1. run[w].pc \in Early /\ run[w].pc # "recording"
    BY <1>8 DEF Deliver, Early
  <2>2. deliveries[j] = 0
    BY <1>c, <2>1 DEF Careful, Once, TypeOK
  <2>3. deliveries'[j] = 1 /\ arq' = arq
    BY <1>8, <2>2 DEF Deliver, TypeOK
  <2>4. /\ run'[w].pc = "recording" /\ run'[w].job = run[w].job
        /\ \A v \in Slots \ {w} : run'[v] = run[v]
    BY <1>8, <1>l, GotoEffect DEF Deliver, Working, TypeOK
  <2>5. RunsOn(w, j)' /\ Careful(w)'
    BY <2>4 DEF RunsOn, Live, Careful, Early
  <2>6. \A v \in Slots : RunsOn(v, j)' => v = w
    BY <1>0, <2>4 DEF Once, RunsOn, Live
  <2>7. arq'[j].lease /\ arq'[j].tries >= 1
    BY <1>0, <2>3 DEF Once
  <2>8. QED
    BY <2>3, <2>4, <2>5, <2>6, <2>7 DEF Once
<1>9. CASE DeliverRaises(w)
  BY <1>9 DEF DeliverRaises
<1>10. CASE Record(w)
  <2>1. ledger' = ledger \cup {j}
    BY <1>10 DEF Record
  <2>2. Goto(w, "persisting") /\ arq' = arq /\ deliveries' = deliveries
    BY <1>10 DEF Record
  <2>3. "persisting" \in Labels /\ "persisting" \notin Early
    BY <1>l DEF Saving, Early
  <2>4. QED
    BY <1>0, <2>1, <2>2, <2>3, GotoKeepsOnce
<1>11. CASE PersistDone(w) \/ Overwrite(w)
  BY <1>11, <1>a, <1>b, <1>l DEF PersistDone, Overwrite, Reading, Early
<1>12. CASE DoneConflict(w)
  BY <1>12, <1>a, <1>b, <1>l, <1>v DEF DoneConflict, Saving, Early
<1>13. CASE SaveCancelled(w) \/ SavePermanent(w) \/ SaveExhausted(w)
  BY <1>13, <1>a, <1>l
     DEF SaveCancelled, SavePermanent, SaveExhausted, SaveFailed, Reading, Early
<1>14. CASE SaveConflict(w)
  BY <1>14, <1>a, <1>b, <1>l DEF SaveConflict, Early
<1>15. CASE ClearFlag(w) \/ Notify(w)
  BY <1>15, <1>b DEF ClearFlag, Notify
<1>16. CASE Raised(w)
  <2>1. CASE Goto(w, "terminal_get") /\ arq' = arq
    BY <1>16, <1>a, <1>l, <2>1 DEF Raised, Reading, Early
  <2>2. CASE Stop(w) /\ arq' = [arq EXCEPT ![j].lease = FALSE]
    <3>1. run[w].pc # "recording" /\ deliveries' = deliveries /\ ledger' = ledger
      BY <1>16 DEF Raised
    <3>2. QED
      BY <1>0, <2>2, <3>1, FinishKeepsOnce
  <2>3. QED
    BY <1>16, <2>1, <2>2 DEF Raised
<1>17. CASE TerminalGet(w)
  BY <1>17, <1>a, <1>b, <1>l, <1>v DEF TerminalGet, Saving, Early
<1>18. CASE DbError(w)
  BY <1>18, <1>a, <1>b, <1>l DEF DbError, Saving, Reading, Early
<1>19. QED
  BY <1>1, <1>2, <1>3, <1>4, <1>5, <1>6, <1>7, <1>8, <1>9, <1>10, <1>11, <1>12, <1>13,
     <1>14, <1>15, <1>16, <1>17, <1>18 DEF RunStep

(* A cut, seen from its own job. *)
LEMMA CutKeepsOwnOnce ==
  ASSUME TypeOK, NEW w \in Slots, Cut(w), NEW j \in Jobs, j = run[w].job,
         Once(j), j \notin excused'
  PROVE  Once(j)'
<1>1. CutShort(w)
  BY DEF Cut, Crash, Shutdown, TimesOut
<1>2. RunsOn(w, j) /\ Stop(w) /\ run[w].pc # "recording"
  BY <1>1 DEF CutShort, RunsOn
<1>3. deliveries' = deliveries /\ ledger' = ledger
  BY <1>1 DEF CutShort
<1>4. arq' = arq \/ Finished(j) \/ arq' = [arq EXCEPT ![j].lease = FALSE]
  BY DEF Cut, Crash, Shutdown, TimesOut
<1>5. QED
  BY <1>2, <1>3, <1>4, FinishKeepsOnce

(* A run keeps its job until it ends. *)
LEMMA SlotKeepsJob ==
  ASSUME TypeOK, NEW w \in Slots, RunStep(w) \/ Cut(w)
  PROVE  run'[w].pc = "idle" \/ run'[w].job = run[w].job
<1>1. \/ \E l \in Labels : Goto(w, l)
      \/ \E l \in Labels, n \in Nat : Hold(w, l, n)
      \/ Stop(w) \/ Transition(w)
  BY DEF RunStep, Load, Transition, LostRace, CheckLedger, Analyze, Download,
       SeesCancel, Deliver, DeliverRaises, Record, FailsForGood, FailsRetryably,
       PersistDone, DoneConflict, Overwrite, SaveCancelled, SavePermanent, SaveExhausted,
       SaveFailed, SaveConflict, ClearFlag, Notify, Raised, TerminalGet, DbError, Finish,
       Cut, Crash, Shutdown, TimesOut, CutShort, Labels, Saving, Reading, Working, TypeOK,
       Row, Live
<1>2. CASE Transition(w)
  BY <1>2 DEF Transition, Goto, TypeOK, Run
<1>3. QED
  BY <1>1, <1>2, GotoEffect, HoldEffect, StopEffect DEF TypeOK

(* What a run changes in Redis and in the user's chat is its own job's. *)
LEMMA RunChangesOwn ==
  ASSUME NEW w \in Slots, RunStep(w) \/ Cut(w)
  PROVE  /\ \/ arq' = arq
            \/ Finished(run[w].job)
            \/ arq' = [arq EXCEPT ![run[w].job].lease = FALSE]
         /\ \/ deliveries' = deliveries
            \/ deliveries' = [deliveries EXCEPT ![run[w].job] = @ + 1]
         /\ ledger \subseteq ledger'
         /\ excused \subseteq excused'
<1> USE DEF redis, history
<1>1. CASE Load(w) \/ Transition(w) \/ LostRace(w) \/ CheckLedger(w) \/ Analyze(w)
           \/ Download(w) \/ SeesCancel(w)
  BY <1>1 DEF Load, Transition, LostRace, CheckLedger, Analyze, Download, SeesCancel, Finish
<1>2. CASE Deliver(w) \/ DeliverRaises(w) \/ Record(w) \/ FailsForGood(w) \/ FailsRetryably(w)
  BY <1>2 DEF Deliver, DeliverRaises, Record, FailsForGood, FailsRetryably
<1>3. CASE PersistDone(w) \/ DoneConflict(w) \/ Overwrite(w) \/ SaveCancelled(w)
           \/ SavePermanent(w) \/ SaveExhausted(w) \/ SaveConflict(w)
  BY <1>3 DEF PersistDone, DoneConflict, Overwrite, SaveCancelled, SavePermanent, SaveExhausted,
     SaveFailed, SaveConflict, Finish
<1>4. CASE ClearFlag(w) \/ Notify(w) \/ Raised(w) \/ TerminalGet(w) \/ DbError(w)
  BY <1>4 DEF ClearFlag, Notify, Raised, TerminalGet, DbError, Finish
<1>5. CASE Cut(w)
  BY <1>5 DEF Cut, Crash, Shutdown, TimesOut, CutShort
<1>6. QED
  BY <1>1, <1>2, <1>3, <1>4, <1>5 DEF RunStep

(* A run touches nothing of the other jobs. *)
LEMMA RunLeavesOthers ==
  ASSUME TypeOK, NEW w \in Slots, RunStep(w) \/ Cut(w), NEW j \in Jobs, j # run[w].job
  PROVE  Elsewhere(j)
<1>1. \A v \in Slots \ {w} : run'[v] = run[v]
  BY OtherSlotsRest
<1>2. ~RunsOn(w, j) /\ ~RunsOn(w, j)'
  BY SlotKeepsJob DEF RunsOn, Live
<1>3. arq'[j] = arq[j]
  BY RunChangesOwn DEF Finished, TypeOK
<1>4. deliveries'[j] = deliveries[j] /\ (j \in ledger => j \in ledger')
  BY RunChangesOwn DEF TypeOK
<1>5. QED
  BY <1>1, <1>2, <1>3, <1>4 DEF Elsewhere

LEMMA RunKeepsOnce ==
  ASSUME TypeOK, OnceInv, NEW w \in Slots, RunStep(w) \/ Cut(w),
         NEW j \in Jobs, j \notin excused'
  PROVE  Once(j)'
<1>1. Once(j)
  BY RunChangesOwn DEF OnceInv
<1>2. CASE j = run[w].job
  BY <1>1, <1>2, RunKeepsOwnOnce, CutKeepsOwnOnce
<1>3. CASE j # run[w].job
  BY <1>1, <1>3, RunLeavesOthers, ElsewhereKeepsOnce
<1>4. QED
  BY <1>2, <1>3

(* arq starts a job only when no run of it holds the key. *)
LEMMA PickUpKeepsOnce ==
  ASSUME TypeOK, NEW w \in Slots, NEW i \in Jobs, PickUp(w, i), NEW j \in Jobs, Once(j)
  PROVE  Once(j)'
<1>1. /\ run'[w].pc = "get" /\ run'[w].job = i /\ run'[w].attempt = arq[i].tries + 1
      /\ \A v \in Slots \ {w} : run'[v] = run[v]
  <2>1. run' = [run EXCEPT ![w] = [Idle EXCEPT !.pc = "get", !.job = i,
                                               !.attempt = arq[i].tries + 1]]
    BY DEF PickUp
  <2>2. QED
    BY <2>1 DEF TypeOK, Idle
<1>2. ~RunsOn(w, j) /\ UNCHANGED <<deliveries, ledger>>
  BY DEF PickUp, RunsOn, history
<1>3. arq[i] \in Entry /\ arq[i].tries \in Nat /\ ~arq[i].lease
  BY DEF TypeOK, Entry, PickUp
<1>4. arq'[i].lease /\ arq'[i].tries = arq[i].tries + 1 /\ \A k \in Jobs \ {i} : arq'[k] = arq[k]
  BY <1>3 DEF PickUp, TypeOK, Entry
<1>5. CASE j # i
  <2>1. ~RunsOn(w, j)'
    BY <1>1, <1>5 DEF RunsOn
  <2>2. Elsewhere(j)
    BY <1>1, <1>2, <1>4, <1>5, <2>1 DEF Elsewhere
  <2>3. QED
    BY <2>2, ElsewhereKeepsOnce
<1>6. CASE j = i
  <2>1. \A v \in Slots : ~RunsOn(v, j)
    BY <1>3, <1>6 DEF Once
  <2>2. \A v \in Slots : RunsOn(v, j)' => v = w
    BY <1>1, <2>1 DEF RunsOn, Live
  <2>3. arq'[j].lease /\ arq'[j].tries >= 1 /\ deliveries'[j] <= 1
    BY <1>2, <1>3, <1>4, <1>6 DEF Once
  <2>4. ASSUME deliveries'[j] = 1 PROVE j \in ledger' /\ Careful(w)'
    <3>1. arq[j].tries >= 1 /\ j \in ledger
      BY <1>2, <2>1, <2>4 DEF Once
    <3>2. run'[w].attempt > 1
      BY <1>1, <1>3, <1>6, <3>1
    <3>3. QED
      BY <1>1, <1>2, <3>1, <3>2 DEF Careful, Early
  <2>5. QED
    BY <2>2, <2>3, <2>4 DEF Once
<1>7. QED
  BY <1>5, <1>6

(* The in-progress key may go only while nobody runs the job, or the job is excused. *)
LEMMA LapseKeepsOnce ==
  ASSUME TypeOK, NEW i \in Jobs, LeaseLapses(i), NEW j \in Jobs, Once(j), j \notin excused'
  PROVE  Once(j)'
<1>1. UNCHANGED <<run, deliveries, ledger>>
  BY DEF LeaseLapses
<1>2. arq'[j].tries = arq[j].tries /\ (j # i => arq'[j] = arq[j])
  BY DEF LeaseLapses, TypeOK, Entry
<1>3. CASE j # i
  BY <1>1, <1>2, <1>3, ElsewhereKeepsOnce DEF Elsewhere
<1>4. CASE j = i
  <2>1. LiveOn(j) = {}
    BY <1>4 DEF LeaseLapses
  <2>2. \A v \in Slots : ~RunsOn(v, j) /\ ~RunsOn(v, j)'
    BY <1>1, <2>1 DEF LiveOn, RunsOn, Live
  <2>3. QED
    BY <1>1, <1>2, <2>2 DEF Once
<1>5. QED
  BY <1>3, <1>4

(* arq gives up a job nobody runs. *)
LEMMA GiveUpKeepsOnce ==
  ASSUME TypeOK, NEW i \in Jobs, GiveUp(i), NEW j \in Jobs, Once(j)
  PROVE  Once(j)'
<1>1. UNCHANGED <<run, deliveries, ledger>>
  BY DEF GiveUp, history
<1>2. ~arq[i].lease /\ Finished(i)
  BY DEF GiveUp
<1>3. arq'[j].tries = arq[j].tries /\ (j # i => arq'[j] = arq[j]) /\ ~arq'[i].lease
  BY <1>2 DEF Finished, TypeOK, Entry
<1>4. arq'[j].lease = arq[j].lease
  <2>1. CASE j = i
    <3>1. arq[i].lease = FALSE /\ arq'[i].lease = FALSE
      BY <1>2 DEF Finished, TypeOK, Entry
    <3>2. QED
      BY <2>1, <3>1
  <2>2. CASE j # i
    BY <1>3, <2>2
  <2>3. QED
    BY <2>1, <2>2
<1>5. QED
  BY <1>1, <1>3, <1>4, ElsewhereKeepsOnce DEF Elsewhere

LEMMA BotQueueKeepsOnce ==
  ASSUME TypeOK, OnceInv, NEW i \in Jobs, BotStep(i) \/ QueueStep(i),
         NEW j \in Jobs, j \notin excused'
  PROVE  Once(j)'
<1> USE DEF redis, history
<1>1. Once(j)
  BY DEF OnceInv, BotStep, QueueStep, CreateIfUnderCap, Publish, PublishRaises, Release,
     BotStops, RequestCancel, GiveUp, LeaseLapses, QueueLoses, FlagExpires, PickUp
<1>2. CASE \E w \in Slots : PickUp(w, i)
  BY <1>1, <1>2, PickUpKeepsOnce
<1>3. CASE GiveUp(i)
  BY <1>1, <1>3, GiveUpKeepsOnce
<1>4. CASE LeaseLapses(i)
  BY <1>1, <1>4, LapseKeepsOnce
<1>5. CASE CreateIfUnderCap(i) \/ Release(i) \/ BotStops(i) \/ RequestCancel(i) \/ FlagExpires(i)
  <2>1. UNCHANGED <<arq, run, deliveries, ledger>>
    BY <1>5 DEF CreateIfUnderCap, Release, BotStops, RequestCancel, FlagExpires
  <2>2. QED
    BY <1>1, <2>1, ElsewhereKeepsOnce DEF Elsewhere
<1>6. CASE Publish(i) \/ PublishRaises(i) \/ QueueLoses(i)
  <2>1. UNCHANGED <<run, deliveries, ledger>>
    BY <1>6 DEF Publish, PublishRaises, QueueLoses
  <2>2. PICK q \in BOOLEAN : arq' = [arq EXCEPT ![i].queued = q]
    BY <1>6 DEF Publish, PublishRaises, QueueLoses
  <2>3. arq'[j].lease = arq[j].lease /\ arq'[j].tries = arq[j].tries
    BY <2>2 DEF TypeOK, Entry
  <2>4. QED
    BY <1>1, <2>1, <2>3, ElsewhereKeepsOnce DEF Elsewhere
<1>7. QED
  BY <1>2, <1>3, <1>4, <1>5, <1>6 DEF BotStep, QueueStep

(* The cleanup worker and the clock move no run. *)
LEMMA CleanupKeepsOnce ==
  ASSUME TypeOK, OnceInv, CleanupStep \/ Tick \/ UNCHANGED vars, NEW j \in Jobs, j \notin excused'
  PROVE  Once(j)'
<1>1. UNCHANGED <<arq, deliveries, ledger, excused>>
  BY DEF CleanupStep, ReapOrphanProcessing, ReapOrphanPending, Reap, Tick, vars, redis, history
<1>2. \A v \in Slots : /\ run'[v].pc = run[v].pc /\ run'[v].job = run[v].job
                       /\ run'[v].attempt = run[v].attempt
  <2>1. CASE Tick
    BY <2>1 DEF Tick, TypeOK, Run
  <2>2. CASE CleanupStep \/ UNCHANGED vars
    BY <2>2 DEF CleanupStep, ReapOrphanProcessing, ReapOrphanPending, Reap, vars
  <2>3. QED
    BY <2>1, <2>2
<1>3. Once(j)
  BY <1>1 DEF OnceInv
<1>4. QED
  BY <1>1, <1>2, <1>3, ElsewhereKeepsOnce DEF Elsewhere

LEMMA NextOnceInv == TypeOK /\ OnceInv /\ [Next]_vars => OnceInv'
<1> SUFFICES ASSUME TypeOK, OnceInv, [Next]_vars, NEW j \in Jobs, j \notin excused'
             PROVE  Once(j)'
  BY DEF OnceInv
<1>1. QED
  BY RunKeepsOnce, BotQueueKeepsOnce, CleanupKeepsOnce DEF Next

LEMMA InitOnceInv == Init => OnceInv
  BY DEF Init, OnceInv, Once, RunsOn, Live, Idle

(* The media of a job is sent at most once, unless a run of it was cut in the *)
(* window, its ledger entry was lost, a send failed half way or runs overlapped. *)
THEOREM SentOnce == Spec => []SecondDeliveryIsExcused
<1>1. TypeOK /\ OnceInv => SecondDeliveryIsExcused
  <2> SUFFICES ASSUME TypeOK, OnceInv, NEW j \in Jobs, deliveries[j] > 1 PROVE j \in excused
    BY DEF SecondDeliveryIsExcused
  <2>1. deliveries[j] \in Nat
    BY DEF TypeOK
  <2>2. QED
    BY <2>1 DEF OnceInv, Once
<1>2. QED
  BY <1>1, InitOnceInv, NextOnceInv, TypeCorrect, PTL DEF Spec
=============================================================================
