--------------------------- MODULE Services_proofs ---------------------------
(***************************************************************************)
(* Theorems about three services that run in the background:               *)
(* BackgroundTasks for any number of tasks, Relay for any number of tunnels *)
(* and requests, any size of a poll and any number of tasks of a request,  *)
(* and Updater for any number of servers and releases; and that what is    *)
(* proved of a service holds in the instance that checks them together.    *)
(***************************************************************************)
EXTENDS MCStandalone, UnifiedIndexing_proofs, Files_proofs, Updater

-----------------------------------------------------------------------------
(* Background tasks.                                                       *)

\* The row follows the thread up to its end; it gets its status and its result
\* in one step, after which only the webhook is left.
QaInv ==
    \A t \in QaTasks :
        /\ thread[t] = "none" => row[t] = "none"
        /\ thread[t] \in {"never", "start"} => row[t] = "pending"
        /\ thread[t] \in {"test", "save", "finish"} => row[t] = "running"
        /\ thread[t] = "error" => row[t] \in {"pending", "running"}
        /\ thread[t] = "notify" => row[t] = StatusOf(t) /\ found[t] = "value"
        /\ thread[t] \notin {"notify", "end", "dead"} => found[t] = "none"
        /\ thread[t] \notin {"end", "dead"} => notified[t] = "none"

LEMMA RunTyped ==
  ASSUME BackgroundTypeOK, NEW t \in Background, NEW from,
         NEW to \in {"none", "never", "start", "test", "save", "finish", "store",
                     "notify", "error", "storeError", "end", "dead"}, Run(t, from, to)
  PROVE  thread' \in [Background -> {"none", "never", "start", "test", "save", "finish", "store",
                                     "notify", "error", "storeError", "end", "dead"}]
  BY DEF BackgroundTypeOK, Run

(* Every variable of the background tasks keeps its type.                  *)
THEOREM BackgroundTypeCorrect == BackgroundSpec => []BackgroundTypeOK
  <1>1. BackgroundInit => BackgroundTypeOK
    BY DEF BackgroundInit, BackgroundTypeOK
  <1>2. BackgroundTypeOK /\ [BackgroundNext]_backgroundVars => BackgroundTypeOK'
    <2>. SUFFICES ASSUME BackgroundTypeOK, [BackgroundNext]_backgroundVars
                  PROVE  BackgroundTypeOK'
      OBVIOUS
    <2>. USE DEF Ended, StatusOf
    <2>1. ASSUME NEW t \in Background, RequestQA(t)
          PROVE  BackgroundTypeOK'
      BY <2>1, RunTyped DEF RequestQA, BackgroundTypeOK
    <2>2. ASSUME NEW t \in Background, RequestTest(t)
          PROVE  BackgroundTypeOK'
      BY <2>2, RunTyped DEF RequestTest, BackgroundTypeOK
    <2>3. ASSUME NEW t \in Background, StartQA(t)
          PROVE  BackgroundTypeOK'
      BY <2>3, RunTyped DEF StartQA, BackgroundTypeOK
    <2>4. ASSUME NEW t \in Background, StartTest(t)
          PROVE  BackgroundTypeOK'
      BY <2>4, RunTyped DEF StartTest, BackgroundTypeOK
    <2>5. ASSUME NEW t \in Background, RunAdapter(t)
          PROVE  BackgroundTypeOK'
      BY <2>5, RunTyped DEF RunAdapter, BackgroundTypeOK
    <2>6. ASSUME NEW t \in Background, SaveTestResult(t)
          PROVE  BackgroundTypeOK'
      BY <2>6, RunTyped DEF SaveTestResult, BackgroundTypeOK
    <2>7. ASSUME NEW t \in Background, FinishQA(t)
          PROVE  BackgroundTypeOK'
      BY <2>7, RunTyped DEF FinishQA, BackgroundTypeOK
    <2>8. ASSUME NEW t \in Background, FinishTest(t)
          PROVE  BackgroundTypeOK'
      BY <2>8, RunTyped DEF FinishTest, BackgroundTypeOK
    <2>9. ASSUME NEW t \in Background, StoreTest(t)
          PROVE  BackgroundTypeOK'
      BY <2>9, RunTyped DEF StoreTest, BackgroundTypeOK
    <2>10. ASSUME NEW t \in Background, Notify(t)
           PROVE  BackgroundTypeOK'
      BY <2>10, RunTyped DEF Notify, BackgroundTypeOK
    <2>11. ASSUME NEW t \in Background, Raise(t) \/ HandlerFails(t)
           PROVE  BackgroundTypeOK'
      BY <2>11, RunTyped DEF Raise, HandlerFails, BackgroundTypeOK
    <2>12. ASSUME NEW t \in Background, HandleError(t)
           PROVE  BackgroundTypeOK'
      BY <2>12, RunTyped DEF HandleError, BackgroundTypeOK
    <2>13. CASE KillServer
      BY <2>13 DEF KillServer, BackgroundTypeOK
    <2>14. CASE UNCHANGED backgroundVars
      BY <2>14 DEF backgroundVars, BackgroundTypeOK
    <2>. QED
      BY <2>1, <2>2, <2>3, <2>4, <2>5, <2>6, <2>7, <2>8, <2>9, <2>10, <2>11, <2>12, <2>13, <2>14
      DEF BackgroundNext, ThreadStep
  <1>. QED
    BY <1>1, <1>2, PTL DEF BackgroundSpec

LEMMA QaInvStep ==
  ASSUME BackgroundTypeOK, QaInv, [BackgroundNext]_backgroundVars
  PROVE  QaInv'
  <1>. USE DEF BackgroundTypeOK, QaInv, Run, Ended, StatusOf
  <1>0. \A t \in QaTasks : t \in Background /\ t \notin TesterTasks
    BY BackgroundAssumption DEF Background
  <1>1. ASSUME NEW t \in Background, RequestQA(t) \/ StartQA(t)
        PROVE  QaInv'
    BY <1>0, <1>1 DEF RequestQA, StartQA
  <1>2. ASSUME NEW t \in Background,
               RequestTest(t) \/ StartTest(t) \/ FinishTest(t) \/ StoreTest(t)
        PROVE  QaInv'
    BY <1>0, <1>2 DEF RequestTest, StartTest, FinishTest, StoreTest
  <1>3. ASSUME NEW t \in Background, RunAdapter(t) \/ SaveTestResult(t)
        PROVE  QaInv'
    BY <1>0, <1>3 DEF RunAdapter, SaveTestResult
  <1>4. ASSUME NEW t \in Background, FinishQA(t)
        PROVE  QaInv'
    BY <1>0, <1>4 DEF FinishQA
  <1>5. ASSUME NEW t \in Background, Notify(t)
        PROVE  QaInv'
    BY <1>0, <1>5 DEF Notify
  <1>6. ASSUME NEW t \in Background, Raise(t) \/ HandlerFails(t)
        PROVE  QaInv'
    BY <1>0, <1>6 DEF Raise, HandlerFails
  <1>7. ASSUME NEW t \in Background, HandleError(t)
        PROVE  QaInv'
    BY <1>0, <1>7 DEF HandleError
  <1>8. CASE KillServer
    BY <1>0, <1>8 DEF KillServer
  <1>9. CASE UNCHANGED backgroundVars
    BY <1>9 DEF backgroundVars
  <1>. QED
    BY <1>1, <1>2, <1>3, <1>4, <1>5, <1>6, <1>7, <1>8, <1>9 DEF BackgroundNext, ThreadStep

LEMMA QaInvariant == BackgroundSpec => []QaInv
  <1>1. BackgroundInit => QaInv
    BY DEF BackgroundInit, QaInv, Background
  <1>. QED
    BY <1>1, BackgroundTypeCorrect, QaInvStep, PTL DEF BackgroundSpec

\* The columns of the tasks of QA, when one cell or none of them changes.
LEMMA CellOfQA ==
  ASSUME NEW T, NEW column \in [Background -> T], NEW t \in QaTasks, NEW v
  PROVE  OfQA([column EXCEPT ![t] = v]) = [OfQA(column) EXCEPT ![t] = v]
  BY DEF OfQA, Background

LEMMA CellOfTester ==
  ASSUME NEW T, NEW column \in [Background -> T], NEW t \in TesterTasks, NEW v
  PROVE  OfQA([column EXCEPT ![t] = v]) = OfQA(column)
  BY BackgroundAssumption DEF OfQA, Background

\* Every step of a thread is one of the promise, or none of its business.
LEMMA QaStepRefines ==
  ASSUME BackgroundTypeOK, QaInv, [BackgroundNext]_backgroundVars
  PROVE  [Promise!Next]_<<OfQA(row), OfQA(found), OfQA(notified)>>
  <1>. DEFINE answers == <<OfQA(row), OfQA(found), OfQA(notified)>>
              status == {"none", "pending", "running"} \cup Ended
  <1>1. /\ row \in [Background -> status]
        /\ found \in [Background -> {"none", "value", "error"}]
        /\ notified \in [Background -> {"none"} \cup Ended]
    BY DEF BackgroundTypeOK
  <1>. HIDE DEF status
  <1>r. \A v : \A t \in QaTasks : OfQA([row EXCEPT ![t] = v]) = [OfQA(row) EXCEPT ![t] = v]
    BY <1>1, CellOfQA
  <1>f. /\ \A v : \A t \in QaTasks : OfQA([found EXCEPT ![t] = v]) = [OfQA(found) EXCEPT ![t] = v]
        /\ \A v : \A t \in TesterTasks : OfQA([found EXCEPT ![t] = v]) = OfQA(found)
    <2>1. ASSUME NEW v, NEW t \in QaTasks
          PROVE  OfQA([found EXCEPT ![t] = v]) = [OfQA(found) EXCEPT ![t] = v]
      BY <1>1, CellOfQA
    <2>2. ASSUME NEW v, NEW t \in TesterTasks
          PROVE  OfQA([found EXCEPT ![t] = v]) = OfQA(found)
      BY <1>1, CellOfTester
    <2>. QED  BY <2>1, <2>2
  <1>n. /\ \A v : \A t \in QaTasks : OfQA([notified EXCEPT ![t] = v]) = [OfQA(notified) EXCEPT ![t] = v]
        /\ \A v : \A t \in TesterTasks : OfQA([notified EXCEPT ![t] = v]) = OfQA(notified)
    <2>1. ASSUME NEW v, NEW t \in QaTasks
          PROVE  OfQA([notified EXCEPT ![t] = v]) = [OfQA(notified) EXCEPT ![t] = v]
      BY <1>1, CellOfQA
    <2>2. ASSUME NEW v, NEW t \in TesterTasks
          PROVE  OfQA([notified EXCEPT ![t] = v]) = OfQA(notified)
      BY <1>1, CellOfTester
    <2>. QED  BY <2>1, <2>2
  <1>2. \A t \in QaTasks : /\ OfQA(row)[t] = row[t]
                           /\ OfQA(found)[t] = found[t]
                           /\ OfQA(notified)[t] = notified[t]
    BY DEF OfQA
  <1>3. \A t \in QaTasks : t \in Background /\ t \notin TesterTasks
    BY BackgroundAssumption DEF Background
  <1>4. ASSUME NEW t \in Background, RequestQA(t)
        PROVE  Promise!Submit(t) /\ t \in QaTasks
    <2>1. row[t] = "none" /\ t \in QaTasks
      BY <1>4 DEF RequestQA, Run, QaInv
    <2>2. OfQA(row)' = [OfQA(row) EXCEPT ![t] = "pending"]
      BY <1>r, <1>4, <2>1 DEF RequestQA
    <2>3. UNCHANGED <<OfQA(found), OfQA(notified)>>
      BY <1>4 DEF RequestQA, OfQA
    <2>. QED
      BY <1>2, <2>1, <2>2, <2>3 DEF Promise!Submit, Promise!Advance
  <1>5. ASSUME NEW t \in Background, StartQA(t)
        PROVE  Promise!Begin(t) /\ t \in QaTasks
    <2>1. row[t] = "pending" /\ t \in QaTasks
      BY <1>5 DEF StartQA, Run, QaInv
    <2>2. OfQA(row)' = [OfQA(row) EXCEPT ![t] = "running"]
      BY <1>r, <1>5, <2>1 DEF StartQA
    <2>3. UNCHANGED <<OfQA(found), OfQA(notified)>>
      BY <1>5 DEF StartQA, OfQA
    <2>. QED
      BY <1>2, <2>1, <2>2, <2>3 DEF Promise!Begin, Promise!Advance
  <1>6. ASSUME NEW t \in Background, FinishQA(t)
        PROVE  Promise!Finish(t) /\ t \in QaTasks
    <2>1. row[t] = "running" /\ t \in QaTasks
      BY <1>6 DEF FinishQA, Run, QaInv
    <2>2. /\ \/ OfQA(row)' = [OfQA(row) EXCEPT ![t] = "completed"]
             \/ OfQA(row)' = [OfQA(row) EXCEPT ![t] = "failed"]
          /\ OfQA(found)' = [OfQA(found) EXCEPT ![t] = "value"]
      BY <1>r, <1>f, <1>6, <2>1 DEF FinishQA, StatusOf
    <2>3. UNCHANGED OfQA(notified)
      BY <1>6 DEF FinishQA, OfQA
    <2>. QED
      BY <1>2, <2>1, <2>2, <2>3 DEF Promise!Finish, Promise!Advance
  <1>7. ASSUME NEW t \in QaTasks, HandleError(t)
        PROVE  Promise!Break(t)
    <2>1. row[t] \in {"pending", "running"}
      BY <1>7 DEF HandleError, Run, QaInv
    <2>2. /\ OfQA(row)' = [OfQA(row) EXCEPT ![t] = "failed"]
          /\ OfQA(found)' = [OfQA(found) EXCEPT ![t] = "error"]
      <3>1. /\ row' = [row EXCEPT ![t] = "failed"]
            /\ found' = [found EXCEPT ![t] = "error"]
        BY <1>7 DEF HandleError
      <3>. QED
        BY <1>r, <1>f, <3>1
    <2>3. UNCHANGED OfQA(notified)
      BY <1>7 DEF HandleError, OfQA
    <2>. QED
      BY <1>2, <2>1, <2>2, <2>3 DEF Promise!Break, Promise!Advance
  <1>8. ASSUME NEW t \in QaTasks, Notify(t)
        PROVE  Promise!Tell(t) \/ UNCHANGED answers
    <2>1. row[t] = StatusOf(t) /\ found[t] = "value" /\ notified[t] = "none"
      BY <1>8 DEF Notify, Run, QaInv
    <2>2. UNCHANGED <<OfQA(row), OfQA(found)>>
      BY <1>8 DEF Notify, OfQA
    <2>3. CASE notified' = notified
      BY <2>2, <2>3 DEF OfQA
    <2>4. CASE notified' = [notified EXCEPT ![t] = StatusOf(t)]
      <3>1. OfQA(notified)' = [OfQA(notified) EXCEPT ![t] = StatusOf(t)]
        BY <1>n, <2>4
      <3>. QED
        BY <1>2, <2>1, <2>2, <3>1 DEF Promise!Tell
    <2>. QED
      BY <1>8, <2>3, <2>4 DEF Notify
  <1>9. ASSUME NEW t \in TesterTasks,
               \/ StoreTest(t) \/ Notify(t) \/ HandleError(t)
        PROVE  UNCHANGED answers
    <2>1. t \in Background /\ t \notin QaTasks
      BY BackgroundAssumption DEF Background
    <2>2. /\ UNCHANGED row
          /\ UNCHANGED found \/ \E v : found' = [found EXCEPT ![t] = v]
          /\ UNCHANGED notified \/ notified' = [notified EXCEPT ![t] = StatusOf(t)]
      BY <1>9, <2>1 DEF StoreTest, Notify, HandleError
    <2>3. UNCHANGED OfQA(found) /\ UNCHANGED OfQA(notified)
      BY <1>f, <1>n, <2>2
    <2>. QED
      BY <2>2, <2>3 DEF OfQA
  <1>10. ASSUME NEW t \in Background,
                \/ RequestTest(t) \/ StartTest(t) \/ FinishTest(t) \/ RunAdapter(t)
                \/ SaveTestResult(t) \/ Raise(t) \/ HandlerFails(t)
         PROVE  UNCHANGED answers
    <2>1. UNCHANGED <<row, found, notified>>
      BY <1>10 DEF RequestTest, StartTest, FinishTest, RunAdapter, SaveTestResult, Raise, HandlerFails
    <2>. QED
      BY <2>1 DEF OfQA
  <1>11. CASE KillServer
    BY <1>1, <1>3, <1>11 DEF KillServer, OfQA
  <1>12. CASE UNCHANGED backgroundVars
    BY <1>12 DEF backgroundVars, OfQA
  <1>13. ASSUME NEW t \in Background, StoreTest(t)
         PROVE  t \in TesterTasks
    BY <1>13 DEF StoreTest
  <1>14. \A t \in Background : t \in QaTasks \/ t \in TesterTasks
    BY DEF Background
  <1>. DEFINE same == UNCHANGED answers
  <1>15. ASSUME NEW t \in Background, RequestQA(t) \/ RequestTest(t) \/ ThreadStep(t)
         PROVE  Promise!Next \/ same
    <2>1. CASE RequestQA(t) \/ StartQA(t) \/ FinishQA(t)
      BY <2>1, <1>4, <1>5, <1>6 DEF Promise!Next
    <2>2. CASE HandleError(t) \/ Notify(t) \/ StoreTest(t)
      BY <2>2, <1>7, <1>8, <1>9, <1>13, <1>14 DEF Promise!Next
    <2>3. CASE \/ RequestTest(t) \/ StartTest(t) \/ FinishTest(t) \/ RunAdapter(t)
               \/ SaveTestResult(t) \/ Raise(t) \/ HandlerFails(t)
      BY <2>3, <1>10
    <2>. QED
      BY <1>15, <2>1, <2>2, <2>3 DEF ThreadStep
  <1>. QED
    BY <1>11, <1>12, <1>15 DEF BackgroundNext

(* What qa_status answers of a task, its result and what the webhook heard *)
(* of it behave as TestRun says, between any two transactions, through     *)
(* every error path and after a kill.                                      *)
THEOREM QaImplementsTestRun == BackgroundSpec => ImplementsTestRun
  <1>1. BackgroundInit => Promise!Init
    BY DEF BackgroundInit, Promise!Init, OfQA, Background
  <1>. QED
    BY <1>1, BackgroundTypeCorrect, QaInvariant, QaStepRefines, PTL
    DEF BackgroundSpec, ImplementsTestRun, Promise!Spec

(* Hence a row has its result exactly when it has ended, and what the      *)
(* webhook heard is what the row says from then on: that holds of every    *)
(* TestRun.                                                                *)
THEOREM QaAnswersAgree == BackgroundSpec => []Promise!AnswersAgree
  <1>. DEFINE answer == OfQA(row)  result == OfQA(found)  heard == OfQA(notified)
              Typed == /\ answer \in [QaTasks -> {"none", "pending", "running", "completed", "failed"}]
                       /\ result \in [QaTasks -> {"none", "value", "error"}]
                       /\ heard \in [QaTasks -> {"none", "completed", "failed"}]
              Agree == Typed /\ Promise!AnswersAgree
  <1>1. Promise!Init => Agree
    BY DEF Promise!Init, Promise!AnswersAgree
  <1>2. Agree /\ [Promise!Next]_<<answer, result, heard>> => Agree'
    <2>. SUFFICES ASSUME Agree, [Promise!Next]_<<answer, result, heard>> PROVE Agree'
      OBVIOUS
    <2>1. CASE UNCHANGED <<answer, result, heard>>
      BY <2>1 DEF Promise!AnswersAgree
    <2>2. ASSUME NEW t \in QaTasks, Promise!Submit(t) \/ Promise!Begin(t)
          PROVE  Agree'
      BY <2>2 DEF Promise!Submit, Promise!Begin, Promise!Advance, Promise!AnswersAgree
    <2>3. ASSUME NEW t \in QaTasks, Promise!Finish(t) \/ Promise!Break(t)
          PROVE  Agree'
      BY <2>3 DEF Promise!Finish, Promise!Break, Promise!Advance, Promise!AnswersAgree
    <2>4. ASSUME NEW t \in QaTasks, Promise!Tell(t)
          PROVE  Agree'
      BY <2>4 DEF Promise!Tell, Promise!AnswersAgree
    <2>. QED
      BY <2>1, <2>2, <2>3, <2>4 DEF Promise!Next
  <1>. QED
    BY <1>1, <1>2, QaImplementsTestRun, PTL DEF ImplementsTestRun, Promise!Spec

\* The steps the thread of a task has still to make, at most.
StepsToGo(t) ==
    CASE thread[t] = "start" -> 6
      [] thread[t] = "test" -> 5
      [] thread[t] = "save" -> 4
      [] thread[t] = "finish" -> 3
      [] thread[t] = "error" -> 2
      [] thread[t] \in {"store", "storeError", "notify"} -> 1
      [] OTHER -> 0

HasResult(t) == found[t] # "none" /\ (row[t] \in Ended \/ entry[t] \in Ended)

\* The entry of a Tester task has its status before its result, and the stages
\* of the two services differ.
TesterInv ==
    /\ \A t \in TesterTasks :
          /\ thread[t] \notin {"never", "save", "notify"}
          /\ thread[t] \in {"store", "storeError"} => entry[t] \in Ended
    /\ \A t \in QaTasks : thread[t] \notin {"store", "storeError"}

LEMMA TesterInvStep ==
  ASSUME BackgroundTypeOK, TesterInv, [BackgroundNext]_backgroundVars
  PROVE  TesterInv'
  <1>. USE DEF BackgroundTypeOK, TesterInv, Run, Ended
  <1>0. /\ \A t \in TesterTasks : t \in Background /\ t \notin QaTasks
        /\ \A t \in QaTasks : t \in Background /\ t \notin TesterTasks
    BY BackgroundAssumption DEF Background
  <1>1. ASSUME NEW t \in Background, RequestQA(t) \/ StartQA(t) \/ FinishQA(t) \/ HandlerFails(t)
        PROVE  TesterInv'
    BY <1>0, <1>1 DEF RequestQA, StartQA, FinishQA, HandlerFails
  <1>2. ASSUME NEW t \in Background, RequestTest(t) \/ StartTest(t) \/ FinishTest(t) \/ StoreTest(t)
        PROVE  TesterInv'
    BY <1>0, <1>2 DEF RequestTest, StartTest, FinishTest, StoreTest
  <1>3. ASSUME NEW t \in Background, RunAdapter(t) \/ SaveTestResult(t) \/ Notify(t) \/ Raise(t)
        PROVE  TesterInv'
    BY <1>0, <1>3 DEF RunAdapter, SaveTestResult, Notify, Raise
  <1>4. ASSUME NEW t \in Background, HandleError(t)
        PROVE  TesterInv'
    BY <1>0, <1>4 DEF HandleError
  <1>5. CASE KillServer
    BY <1>0, <1>5 DEF KillServer, Background
  <1>6. CASE UNCHANGED backgroundVars
    BY <1>6 DEF backgroundVars
  <1>. QED
    BY <1>1, <1>2, <1>3, <1>4, <1>5, <1>6 DEF BackgroundNext, ThreadStep

\* What a step does to a task that was accepted.
RunsOut(t) ==
    /\ thread[t] # "none" => StepsToGo(t)' <= StepsToGo(t)
    /\ ThreadStep(t) => StepsToGo(t)' < StepsToGo(t)
    /\ StepsToGo(t) > 0 /\ StepsToGo(t)' = 0 => HasResult(t)' \/ thread'[t] = "dead"

LEMMA RunsOutStep ==
  ASSUME BackgroundTypeOK, QaInv, TesterInv, [BackgroundNext]_backgroundVars, NEW t \in Background
  PROVE  RunsOut(t)
  <1>. USE DEF BackgroundTypeOK, Run, Ended, StepsToGo
  <1>. DEFINE Done == HasResult(t)' \/ thread'[t] = "dead"
  <1>0. t \in QaTasks \/ t \in TesterTasks
    BY DEF Background
  <1>1. ASSUME NEW u \in Background, u # t,
               RequestQA(u) \/ RequestTest(u) \/ ThreadStep(u)
        PROVE  UNCHANGED thread[t]
    BY <1>1 DEF RequestQA, RequestTest, ThreadStep, StartQA, StartTest, RunAdapter, SaveTestResult,
                FinishQA, FinishTest, StoreTest, Notify, Raise, HandleError, HandlerFails
  <1>2. ASSUME RequestQA(t) \/ RequestTest(t)
        PROVE  thread[t] = "none"
    BY <1>2 DEF RequestQA, RequestTest
  <1>3. ASSUME StartQA(t) \/ StartTest(t) \/ RunAdapter(t) \/ SaveTestResult(t)
               \/ FinishQA(t) \/ FinishTest(t) \/ Raise(t)
        PROVE  StepsToGo(t)' < StepsToGo(t) /\ StepsToGo(t)' > 0
    BY <1>3 DEF StartQA, StartTest, RunAdapter, SaveTestResult, FinishQA, FinishTest, Raise
  <1>4. ASSUME StoreTest(t)
        PROVE  StepsToGo(t)' < StepsToGo(t) /\ Done
    BY <1>4 DEF StoreTest, TesterInv, HasResult
  <1>5. ASSUME Notify(t)
        PROVE  StepsToGo(t)' < StepsToGo(t) /\ Done
    BY <1>0, <1>5 DEF Notify, TesterInv, QaInv, StatusOf, HasResult
  <1>6. ASSUME HandleError(t)
        PROVE  StepsToGo(t)' < StepsToGo(t) /\ (StepsToGo(t)' = 0 => Done)
    BY <1>6 DEF HandleError, HasResult
  <1>7. ASSUME HandlerFails(t)
        PROVE  StepsToGo(t)' < StepsToGo(t) /\ Done
    BY <1>7 DEF HandlerFails
  <1>8. ASSUME KillServer
        PROVE  StepsToGo(t)' <= StepsToGo(t) /\ (StepsToGo(t) > 0 => Done)
    BY <1>8 DEF KillServer
  <1>9. ThreadStep(t) => StepsToGo(t)' < StepsToGo(t) /\ (StepsToGo(t)' = 0 => Done)
    BY <1>3, <1>4, <1>5, <1>6, <1>7 DEF ThreadStep
  <1>10. ASSUME UNCHANGED thread[t]
         PROVE  StepsToGo(t)' = StepsToGo(t) /\ StepsToGo(t) \in Nat
    BY <1>10
  <1>11. StepsToGo(t) \in Nat /\ StepsToGo(t)' \in Nat
    OBVIOUS
  <1>12. ThreadStep(t) => thread[t] # "none" /\ thread'[t] # thread[t]
    BY DEF ThreadStep, StartQA, StartTest, RunAdapter, SaveTestResult,
           FinishQA, FinishTest, StoreTest, Notify, Raise, HandleError, HandlerFails
  <1>13. thread[t] = "none" => StepsToGo(t) = 0
    OBVIOUS
  <1>15. CASE ThreadStep(t)
    BY <1>9, <1>11, <1>15 DEF RunsOut
  <1>16. CASE KillServer /\ ~ThreadStep(t)
    BY <1>8, <1>16 DEF RunsOut
  <1>17. CASE UNCHANGED thread[t]
    BY <1>10, <1>11, <1>12, <1>17 DEF RunsOut
  <1>18. CASE RequestQA(t) \/ RequestTest(t)
    BY <1>2, <1>11, <1>12, <1>13, <1>18 DEF RunsOut
  <1>19. CASE UNCHANGED backgroundVars
    BY <1>17, <1>19 DEF backgroundVars
  <1>. QED
    BY <1>1, <1>15, <1>16, <1>17, <1>18, <1>19 DEF BackgroundNext

(* A task that was accepted is brought to its end: each step of its thread *)
(* leaves it fewer, nothing adds one, and when none is left the task has a *)
(* status and a result, or its thread died.                                *)
THEOREM TasksRunOut ==
  BackgroundSpec => [][\A t \in Background : RunsOut(t)]_backgroundVars
  <1>1. BackgroundInit => TesterInv
    BY DEF BackgroundInit, TesterInv, Background
  <1>2. BackgroundTypeOK /\ QaInv /\ TesterInv /\ [BackgroundNext]_backgroundVars
            => \A t \in Background : RunsOut(t)
    BY RunsOutStep
  <1>. QED
    BY <1>1, <1>2, BackgroundTypeCorrect, QaInvariant, TesterInvStep, PTL DEF BackgroundSpec

-----------------------------------------------------------------------------
(* The relay.                                                              *)

(* Every variable of the relay keeps its type.                             *)
THEOREM RelayTypeCorrect == RelaySpec => []RelayTypeOK
  <1>. USE RelayAssumption
  <1>1. RelayInit => RelayTypeOK
    BY DEF RelayInit, RelayTypeOK
  <1>2. RelayTypeOK /\ [RelayNext]_relayVars => RelayTypeOK'
    <2>. SUFFICES ASSUME RelayTypeOK, [RelayNext]_relayVars
                  PROVE  RelayTypeOK'
      OBVIOUS
    <2>. USE DEF RelayTypeOK, relayAnswers, relayTasks, relayHistory
    <2>1. ASSUME NEW t \in Tunnels, RegisterTunnel(t) \/ EndTunnel(t)
          PROVE  RelayTypeOK'
      BY <2>1 DEF RegisterTunnel, EndTunnel
    <2>2. ASSUME NEW t \in Tunnels, SendRequest(t)
          PROVE  RelayTypeOK'
      BY <2>2 DEF SendRequest
    <2>3. ASSUME NEW t \in Tunnels, Poll(t)
          PROVE  RelayTypeOK'
      <3>1. AddTasks(Batch(t)) \in [Asked -> 0..MaxCopies]
        BY DEF AddTasks
      <3>. QED
        BY <2>3, <3>1 DEF Poll
    <2>4. ASSUME NEW r \in Asked, Execute(r)
          PROVE  RelayTypeOK'
      BY <2>4 DEF Execute
    <2>5. ASSUME NEW r \in Asked, ExecuteFails(r)
          PROVE  RelayTypeOK'
      BY <2>5 DEF ExecuteFails
    <2>6. ASSUME NEW r \in Asked, Respond(r) \/ LoseAnswer(r)
          PROVE  RelayTypeOK'
      BY <2>6 DEF Respond, LoseAnswer, PostResult, Post502
    <2>7. ASSUME NEW t \in Tunnels, StopClient(t)
          PROVE  RelayTypeOK'
      BY <2>7 DEF StopClient
    <2>8. CASE UNCHANGED relayVars
      BY <2>8 DEF relayVars
    <2>. QED
      BY <2>1, <2>2, <2>3, <2>4, <2>5, <2>6, <2>7, <2>8 DEF RelayNext
  <1>. QED
    BY <1>1, <1>2, PTL DEF RelaySpec

\* A task works on a request that was sent, a result that is on its way comes
\* from the local server, and a 502 from a task that failed.
TasksInv ==
    \A r \in Asked : /\ fetched[r] > 0 => sentTo[r] # {}
                     /\ executed[r] > 0 => r \in ran
                     /\ failed[r] > 0 => r \in refused

LEMMA TasksInvStep ==
  ASSUME RelayTypeOK, TasksInv, [RelayNext]_relayVars
  PROVE  TasksInv'
  <1>. USE RelayAssumption DEF RelayTypeOK, TasksInv, relayTasks, relayHistory
  <1>1. ASSUME NEW t \in Tunnels, RegisterTunnel(t) \/ EndTunnel(t) \/ SendRequest(t)
        PROVE  TasksInv'
    BY <1>1 DEF RegisterTunnel, EndTunnel, SendRequest
  <1>2. ASSUME NEW t \in Tunnels, Poll(t)
        PROVE  TasksInv'
    BY <1>2 DEF Poll, AddTasks, Batch, Unresponded, SentTo
  <1>3. ASSUME NEW r \in Asked, Execute(r) \/ ExecuteFails(r)
        PROVE  TasksInv'
    BY <1>3 DEF Execute, ExecuteFails
  <1>4. ASSUME NEW r \in Asked, Respond(r) \/ LoseAnswer(r)
        PROVE  TasksInv'
    BY <1>4 DEF Respond, LoseAnswer, PostResult, Post502
  <1>5. ASSUME NEW t \in Tunnels, StopClient(t)
        PROVE  TasksInv'
    BY <1>5 DEF StopClient
  <1>6. CASE UNCHANGED relayVars
    BY <1>6 DEF relayVars
  <1>. QED
    BY <1>1, <1>2, <1>3, <1>4, <1>5, <1>6 DEF RelayNext

LEMMA RelayStepRefines ==
  ASSUME RelayTypeOK, TasksInv, [RelayNext]_relayVars
  PROVE  [Promised!Next]_<<sentTo, ran, refused, responded, results>>
  <1>. USE DEF relayAnswers, relayHistory
  <1>1. ASSUME NEW t \in Tunnels, SendRequest(t)
        PROVE  \E r \in Asked : Promised!Send(r)
    <2>1. PICK r \in Asked : (\A q \in Asked : sentTo[q] = {} <=> q >= r)
                             /\ sentTo' = [sentTo EXCEPT ![r] = {t}]
      BY <1>1 DEF SendRequest
    <2>2. sentTo[r] = {}
      BY <2>1 DEF Asked
    <2>. QED
      BY <1>1, <2>1, <2>2 DEF SendRequest, Promised!Send
  <1>2. ASSUME NEW r \in Asked, Execute(r)
        PROVE  Promised!Do(r)
    BY <1>2 DEF Execute, TasksInv, Promised!Do
  <1>3. ASSUME NEW r \in Asked, ExecuteFails(r)
        PROVE  Promised!Fail(r)
    BY <1>3 DEF ExecuteFails, TasksInv, Promised!Fail
  <1>4. ASSUME NEW r \in Asked, Respond(r)
        PROVE  Promised!Answer(r)
    BY <1>4 DEF Respond, PostResult, Post502, TasksInv, Promised!Answer
  <1>5. ASSUME NEW t \in Tunnels, RegisterTunnel(t) \/ EndTunnel(t) \/ Poll(t) \/ StopClient(t)
        PROVE  UNCHANGED <<sentTo, ran, refused, responded, results>>
    BY <1>5 DEF RegisterTunnel, EndTunnel, Poll, StopClient
  <1>6. ASSUME NEW r \in Asked, LoseAnswer(r)
        PROVE  UNCHANGED <<sentTo, ran, refused, responded, results>>
    BY <1>6 DEF LoseAnswer, PostResult, Post502
  <1>7. CASE UNCHANGED relayVars
    BY <1>7 DEF relayVars
  <1>. QED
    BY <1>1, <1>2, <1>3, <1>4, <1>5, <1>6, <1>7 DEF RelayNext, Promised!Next

(* However polls and answers overlap, fail, get lost or die with the       *)
(* client, the requests of the relay are those of AtLeastOnce.             *)
THEOREM RelayImplementsAtLeastOnce == RelaySpec => ImplementsAtLeastOnce
  <1>1. RelayInit => Promised!Init /\ TasksInv
    BY RelayAssumption DEF RelayInit, Promised!Init, TasksInv
  <1>. QED
    BY <1>1, RelayTypeCorrect, TasksInvStep, RelayStepRefines, PTL
    DEF RelaySpec, ImplementsAtLeastOnce, Promised!Spec

(* Hence an answer can be relied on: a request whose stored answer is a    *)
(* result was executed, one whose answer is a 502 was not left out but     *)
(* tried and failed at, and only what was sent was executed or tried.      *)
THEOREM AnswersAreTrue ==
  RelaySpec => [](/\ results \subseteq ran \cap responded
                  /\ responded \ results \subseteq refused
                  /\ \A r \in ran \cup refused : sentTo[r] # {})
  <1>. DEFINE Chain == /\ results \subseteq ran \cap responded
                       /\ responded \ results \subseteq refused
                       /\ ran \cup refused \subseteq Asked /\ DOMAIN sentTo = Asked
                       /\ \A r \in ran \cup refused : sentTo[r] # {}
  <1>1. Promised!Init => Chain
    BY DEF Promised!Init
  <1>2. Chain /\ [Promised!Next]_<<sentTo, ran, refused, responded, results>> => Chain'
    BY DEF Promised!Next, Promised!Send, Promised!Do, Promised!Fail, Promised!Answer
  <1>. QED
    BY <1>1, <1>2, RelayImplementsAtLeastOnce, PTL DEF ImplementsAtLeastOnce, Promised!Spec

\* The requests in line for tunnel t before request r.
Ahead(t, r) == {q \in Unresponded(t) : q < r}

\* Requests are sent in the order of their numbers.
SentInOrder == \A q, r \in Asked : q < r /\ sentTo[r] # {} => sentTo[q] # {}

LEMMA SentInOrderStep ==
  ASSUME RelayTypeOK, SentInOrder, [RelayNext]_relayVars
  PROVE  SentInOrder'
  <1>1. ASSUME NEW t \in Tunnels, SendRequest(t)
        PROVE  SentInOrder'
    <2>1. PICK r \in Asked : (\A q \in Asked : sentTo[q] = {} <=> q >= r)
                             /\ sentTo' = [sentTo EXCEPT ![r] = {t}]
      BY <1>1 DEF SendRequest
    <2>2. \A q \in Asked : sentTo'[q] = IF q = r THEN {t} ELSE sentTo[q]
      BY <2>1 DEF RelayTypeOK
    <2>3. \A q \in Asked : sentTo'[q] # {} <=> ~(q > r)
      BY <2>1, <2>2, RelayAssumption DEF Asked
    <2>. QED
      BY <2>3, RelayAssumption DEF SentInOrder, Asked
  <1>2. ASSUME UNCHANGED sentTo
        PROVE  SentInOrder'
    BY <1>2 DEF SentInOrder
  <1>. QED
    BY <1>1, <1>2 DEF RelayNext, relayVars, RegisterTunnel, EndTunnel, Poll, StopClient,
                      Execute, ExecuteFails, Respond, LoseAnswer, PostResult, Post502,
                      relayAnswers

\* Nothing leaves the line of a tunnel unanswered, and a request joins at its end.
LEMMA LineStep ==
  ASSUME RelayTypeOK, SentInOrder, [RelayNext]_relayVars, NEW t \in Tunnels, NEW r \in Unresponded(t)
  PROVE  /\ r \in Unresponded(t)' \cup responded'
         /\ Ahead(t, r)' \subseteq Ahead(t, r)
  <1>. USE RelayAssumption DEF RelayTypeOK, Unresponded, SentTo, Ahead
  <1>1. ASSUME NEW u \in Tunnels, SendRequest(u)
        PROVE  /\ r \in Unresponded(t)' \cup responded'
               /\ Ahead(t, r)' \subseteq Ahead(t, r)
    <2>1. PICK s \in Asked : (\A q \in Asked : sentTo[q] = {} <=> q >= s)
                             /\ sentTo' = [sentTo EXCEPT ![s] = {u}]
      BY <1>1 DEF SendRequest
    <2>2. r \in Asked /\ sentTo[r] = {t} /\ r < s
      <3>1. r \in Asked /\ sentTo[r] = {t} /\ ~(r >= s)
        BY <2>1
      <3>. QED
        BY <3>1 DEF Asked
    <2>3. \A q \in Asked : q < s => sentTo'[q] = sentTo[q]
      BY <2>1 DEF Asked
    <2>4. UNCHANGED responded
      BY <1>1 DEF SendRequest, relayAnswers
    <2>5. r \in Unresponded(t)'
      BY <2>2, <2>3, <2>4
    <2>6. \A q \in Asked : q < r => sentTo'[q] = sentTo[q]
      BY <2>2, <2>3 DEF Asked
    <2>. QED
      BY <2>4, <2>5, <2>6
  <1>2. ASSUME UNCHANGED sentTo, responded \subseteq responded'
        PROVE  /\ r \in Unresponded(t)' \cup responded'
               /\ Ahead(t, r)' \subseteq Ahead(t, r)
    BY <1>2
  <1>. QED
    BY <1>1, <1>2 DEF RelayNext, relayVars, RegisterTunnel, EndTunnel, Poll, StopClient,
                      Execute, ExecuteFails, Respond, LoseAnswer, PostResult, Post502,
                      relayAnswers

LEMMA LineIsFinite ==
  ASSUME NEW t, NEW r
  PROVE  IsFiniteSet(Ahead(t, r)) /\ Cardinality(Ahead(t, r)) \in Nat
  <1>1. IsFiniteSet(Asked)
    BY RelayAssumption, FS_Interval DEF Asked
  <1>2. Ahead(t, r) \in SUBSET Asked
    BY DEF Ahead, Unresponded, SentTo
  <1>. QED
    BY <1>1, <1>2, FS_Subset, FS_CardinalityType

\* A request that is polled stays in what is polled until it is answered.
LEMMA BatchStep ==
  ASSUME RelayTypeOK, SentInOrder, [RelayNext]_relayVars, NEW t \in Tunnels, NEW r \in Batch(t)
  PROVE  r \in Batch(t)' \cup responded'
  <1>1. r \in Unresponded(t) /\ Cardinality(Ahead(t, r)) < PollLimit
    BY DEF Batch, Ahead
  <1>2. /\ r \in Unresponded(t)' \cup responded'
        /\ Ahead(t, r)' \subseteq Ahead(t, r)
    BY <1>1, LineStep
  <1>3. Cardinality(Ahead(t, r)') <= Cardinality(Ahead(t, r)) /\ Cardinality(Ahead(t, r)') \in Nat
    BY <1>2, LineIsFinite, FS_Subset, FS_CardinalityType
  <1>4. Cardinality(Ahead(t, r)') < PollLimit
    BY <1>1, <1>3, LineIsFinite, RelayAssumption
  <1>. QED
    BY <1>2, <1>4 DEF Batch, Ahead

\* A task of the request that has still to post its answer.
Tried(r) == executed[r] > 0 \/ failed[r] > 0

\* What a step does to a request that waits for an answer.
MovesUp(t, r) ==
    /\ Ahead(t, r)' \subseteq Ahead(t, r)
    /\ Ahead(t, r) = {} => r \in Batch(t)
    /\ r \in Batch(t) => r \in Batch(t)' \cup responded'
    /\ Poll(t) /\ r \in Batch(t) => fetched'[r] > 0
    /\ fetched[r] > 0 => fetched'[r] > 0 \/ Tried(r)' \/ device'[t] # "polling"
    /\ Tried(r) => Tried(r)' \/ PostResult(r) \/ Post502(r) \/ device'[t] # "polling"

LEMMA TasksStep ==
  ASSUME RelayTypeOK, [RelayNext]_relayVars, NEW t \in Tunnels, NEW r \in Unresponded(t)
  PROVE  /\ fetched[r] > 0 => fetched'[r] > 0 \/ Tried(r)' \/ device'[t] # "polling"
         /\ Tried(r) => Tried(r)' \/ PostResult(r) \/ Post502(r) \/ device'[t] # "polling"
  <1>. DEFINE Goal == /\ fetched[r] > 0 => fetched'[r] > 0 \/ Tried(r)' \/ device'[t] # "polling"
                      /\ Tried(r) => Tried(r)' \/ PostResult(r) \/ Post502(r) \/ device'[t] # "polling"
  <1>. USE RelayAssumption DEF RelayTypeOK, Tried
  <1>0. r \in Asked /\ sentTo[r] = {t}
    BY DEF Unresponded, SentTo
  <1>1. ASSUME UNCHANGED relayTasks
        PROVE  Goal
    BY <1>1 DEF relayTasks
  <1>2. ASSUME NEW u \in Tunnels, Poll(u)
        PROVE  Goal
    BY <1>0, <1>2 DEF Poll, AddTasks
  <1>3. ASSUME NEW q \in Asked, Execute(q) \/ ExecuteFails(q)
        PROVE  Goal
    BY <1>0, <1>3 DEF Execute, ExecuteFails
  <1>4. ASSUME NEW q \in Asked, PostResult(q) \/ Post502(q)
        PROVE  Goal
    BY <1>0, <1>4 DEF PostResult, Post502
  <1>5. ASSUME NEW u \in Tunnels, StopClient(u)
        PROVE  Goal
    <2>1. CASE u = t
      BY <1>5, <2>1 DEF StopClient
    <2>2. CASE u # t
      BY <1>0, <1>5, <2>2 DEF StopClient, SentTo
    <2>. QED
      BY <2>1, <2>2
  <1>. QED
    BY <1>1, <1>2, <1>3, <1>4, <1>5
    DEF RelayNext, relayVars, relayTasks, RegisterTunnel, EndTunnel, SendRequest, Respond, LoseAnswer

(* No request is passed over or forgotten, however small a poll is: a      *)
(* later request never gets before it, the first in line is in the next    *)
(* poll and stays in every poll until it is answered, and its copies only  *)
(* turn into answers that are posted, unless the client stops.             *)
THEOREM RequestsMoveUp ==
  RelaySpec => [][\A t \in Tunnels : \A r \in Unresponded(t) : MovesUp(t, r)]_relayVars
  <1>1. RelayInit => SentInOrder
    BY DEF RelayInit, SentInOrder
  <1>2. ASSUME RelayTypeOK, SentInOrder, [RelayNext]_relayVars
        PROVE  \A t \in Tunnels : \A r \in Unresponded(t) : MovesUp(t, r)
    <2>. SUFFICES ASSUME NEW t \in Tunnels, NEW r \in Unresponded(t)
                  PROVE  MovesUp(t, r)
      OBVIOUS
    <2>1. Ahead(t, r)' \subseteq Ahead(t, r)
      BY <1>2, LineStep
    <2>2. Ahead(t, r) = {} => r \in Batch(t)
      BY RelayAssumption, FS_EmptySet DEF Ahead, Batch
    <2>3. r \in Batch(t) => r \in Batch(t)' \cup responded'
      BY <1>2, BatchStep
    <2>4. Poll(t) /\ r \in Batch(t) => fetched'[r] > 0
      BY <1>2, RelayAssumption DEF Poll, AddTasks, Batch, Unresponded, SentTo, RelayTypeOK
    <2>5. /\ fetched[r] > 0 => fetched'[r] > 0 \/ Tried(r)' \/ device'[t] # "polling"
          /\ Tried(r) => Tried(r)' \/ PostResult(r) \/ Post502(r) \/ device'[t] # "polling"
      BY <1>2, TasksStep
    <2>. QED
      BY <2>1, <2>2, <2>3, <2>4, <2>5 DEF MovesUp
  <1>. QED
    BY <1>1, <1>2, RelayTypeCorrect, SentInOrderStep, PTL DEF RelaySpec

-----------------------------------------------------------------------------
(* The updater.                                                            *)

Points == {"idle", "ask", "signal", "fetch", "merge", "sync", "dismiss", "dead"}
Stages == {"checking", "downloading", "applying"}
Working == {"ask", "fetch", "merge", "sync"}

\* A stage is shown only while one of the two is at work, which sets another
\* status when it ends; whose stage it is does not matter.
StageIsWorked ==
    \A u \in Updaters :
        updateStatus[u] \in Stages => {upc[Tool(u)], upc[Thread(u)]} \cap Working # {}

UpdaterInv == UpdaterTypeOK /\ StageIsWorked

LEMMA ActorsOf ==
  /\ \A u \in Updaters : Tool(u) \in Actors /\ Thread(u) \in Actors /\ Tool(u) # Thread(u)
  /\ \A u \in Updaters : Tool(u)[1] = u /\ Thread(u)[1] = u
  /\ \A a \in Actors : a[1] \in Updaters /\ a \in {Tool(a[1]), Thread(a[1])}
  /\ \A u, v \in Updaters : u # v => {Tool(u), Thread(u)} \cap {Tool(v), Thread(v)} = {}
  BY DEF Actors, Tool, Thread

\* One step of one actor, which may set the status of its updater.
LEMMA WalkKeepsStages ==
  ASSUME UpdaterInv, NEW a \in Actors, NEW from \in Points, NEW to \in Points, Walk(a, from, to),
         \/ to \in Working /\ (UNCHANGED updateStatus \/ \E s \in Stages : Became(a[1], s))
         \/ \E s \in {"error", "up_to_date", "update_available"} : Became(a[1], s)
         \/ from \notin Working /\ UNCHANGED updateStatus
  PROVE  /\ StageIsWorked'
         /\ upc' \in [Actors -> Points]
         /\ updateStatus' \in [Updaters -> Stages \cup {"idle", "error", "up_to_date", "update_available"}]
  <1>1. upc \in [Actors -> Points]
        /\ updateStatus \in [Updaters -> Stages \cup {"idle", "error", "up_to_date", "update_available"}]
    BY DEF UpdaterInv, UpdaterTypeOK, Points, Stages
  <1>2. upc' \in [Actors -> Points] /\ upc'[a] = to /\ upc[a] = from
        /\ \A b \in Actors : b # a => upc'[b] = upc[b]
    BY <1>1 DEF Walk
  <1>3. updateStatus' \in [Updaters -> Stages \cup {"idle", "error", "up_to_date", "update_available"}]
        /\ \A u \in Updaters : u # a[1] => updateStatus'[u] = updateStatus[u]
    BY <1>1, ActorsOf DEF Became, Stages
  <1>4. ASSUME NEW u \in Updaters, updateStatus'[u] \in Stages
        PROVE  upc'[Tool(u)] \in Working \/ upc'[Thread(u)] \in Working
    <2>0. updateStatus[u] \in Stages => upc[Tool(u)] \in Working \/ upc[Thread(u)] \in Working
      BY DEF UpdaterInv, StageIsWorked
    <2>1. CASE u # a[1]
      <3>1. Tool(u) # a /\ Thread(u) # a
        BY <2>1, ActorsOf
      <3>. QED  BY <3>1, <2>0, <2>1, <1>2, <1>3, <1>4, ActorsOf
    <2>2. CASE u = a[1]
      <3>1. CASE to \in Working
        BY <3>1, <2>2, <1>2, ActorsOf
      <3>2. CASE \E s \in {"error", "up_to_date", "update_available"} : Became(a[1], s)
        BY <3>2, <2>2, <1>1, <1>4 DEF Became, Stages
      <3>3. CASE from \notin Working /\ UNCHANGED updateStatus
        BY <3>3, <2>0, <2>2, <1>2, <1>4, ActorsOf
      <3>. QED  BY <3>1, <3>2, <3>3
    <2>. QED  BY <2>1, <2>2
  <1>. QED  BY <1>2, <1>3, <1>4 DEF StageIsWorked

LEMMA UpdaterInvStep == UpdaterInv /\ [UpdaterNext]_updaterVars => UpdaterInv'
  <1>. SUFFICES ASSUME UpdaterInv, [UpdaterNext]_updaterVars
                PROVE  UpdaterInv'
    OBVIOUS
  <1>. USE UpdaterAssumption DEF UpdaterInv, UpdaterTypeOK, Stages, Points, Working
  <1>1. CASE Publish
    BY <1>1 DEF Publish, StageIsWorked
  <1>2. ASSUME NEW a \in Actors, BeginCheck(a)
        PROVE  UpdaterInv'
    BY <1>2, WalkKeepsStages, ActorsOf DEF BeginCheck, trees
  <1>3. ASSUME NEW a \in Actors, CheckFails(a)
        PROVE  UpdaterInv'
    BY <1>3, WalkKeepsStages, ActorsOf DEF CheckFails, trees
  <1>4. ASSUME NEW a \in Actors, CheckAnswers(a)
        PROVE  UpdaterInv'
    BY <1>4, WalkKeepsStages, ActorsOf DEF CheckAnswers, Offer, trees
  <1>5. ASSUME NEW a \in Actors, WriteSignal(a)
        PROVE  UpdaterInv'
    BY <1>5, WalkKeepsStages, ActorsOf DEF WriteSignal, Offer, trees
  <1>6. ASSUME NEW a \in Actors, WriteSignalFails(a)
        PROVE  UpdaterInv'
    BY <1>6, WalkKeepsStages, ActorsOf DEF WriteSignalFails, trees
  <1>7. ASSUME NEW u \in Updaters, Download(u)
        PROVE  UpdaterInv'
    BY <1>7, WalkKeepsStages, ActorsOf DEF Download, trees
  <1>8. ASSUME NEW u \in Updaters, FetchOK(u) \/ FetchFails(u)
        PROVE  UpdaterInv'
    <2>1. CASE FetchOK(u)
      BY <2>1, WalkKeepsStages, ActorsOf DEF FetchOK
    <2>2. CASE FetchFails(u)
      <3>1. StageIsWorked' /\ upc' \in [Actors -> Points]
            /\ updateStatus' \in [Updaters -> Stages \cup {"idle", "error", "up_to_date", "update_available"}]
        BY <2>2, WalkKeepsStages, ActorsOf DEF FetchFails
      <3>2. {released, downloaded, installed}' \subseteq 0..MaxRelease
        BY <2>2 DEF FetchFails
      <3>. QED  BY <2>2, <3>1, <3>2 DEF FetchFails
    <2>. QED  BY <1>8, <2>1, <2>2
  <1>9. ASSUME NEW u \in Updaters, Apply(u)
        PROVE  UpdaterInv'
    BY <1>9, WalkKeepsStages, ActorsOf DEF Apply, trees
  <1>10. ASSUME NEW u \in Updaters, MergeOK(u)
         PROVE  UpdaterInv'
    BY <1>10, WalkKeepsStages, ActorsOf DEF MergeOK
  <1>11. ASSUME NEW u \in Updaters, SyncOK(u)
         PROVE  UpdaterInv'
    BY <1>11, WalkKeepsStages, ActorsOf DEF SyncOK
  <1>12. ASSUME NEW u \in Updaters, ApplyFails(u)
         PROVE  UpdaterInv'
    BY <1>12, WalkKeepsStages, ActorsOf DEF ApplyFails, trees
  <1>13. ASSUME NEW u \in Updaters, CallDismiss(u) \/ Dismiss(u)
         PROVE  UpdaterInv'
    <2>1. CASE CallDismiss(u)
      BY <2>1, WalkKeepsStages, ActorsOf DEF CallDismiss, trees
    <2>2. CASE Dismiss(u)
      BY <2>2, WalkKeepsStages, ActorsOf DEF Dismiss, trees
    <2>. QED  BY <1>13, <2>1, <2>2
  <1>14. ASSUME NEW u \in Updaters, ServerEnds(u)
         PROVE  UpdaterInv'
    <2>1. UpdaterTypeOK'
      <3>1. upc' \in [Actors -> Points]
        BY <1>14 DEF ServerEnds
      <3>2. seen' \in [Actors -> (0..MaxRelease) \X (0..MaxRelease)]
        <4>1. <<0, 0>> \in (0..MaxRelease) \X (0..MaxRelease)
          OBVIOUS
        <4>2. seen \in [Actors -> (0..MaxRelease) \X (0..MaxRelease)]
          OBVIOUS
        <4>3. seen' = [seen EXCEPT ![Tool(u)] = <<0, 0>>, ![Thread(u)] = <<0, 0>>]
          BY <1>14 DEF ServerEnds
        <4> HIDE DEF UpdaterInv, UpdaterTypeOK
        <4>. DEFINE pairs == (0..MaxRelease) \X (0..MaxRelease)
        <4>4. seen \in [Actors -> pairs] /\ <<0, 0>> \in pairs
          BY <4>1, <4>2
        <4>. HIDE DEF pairs
        <4>5. seen' \in [Actors -> pairs]
          BY <4>3, <4>4
        <4>. QED  BY <4>5 DEF pairs
      <3>. QED  BY <1>14, <3>1, <3>2 DEF ServerEnds, trees
    <2>2. ASSUME NEW v \in Updaters, updateStatus'[v] \in Stages
          PROVE  upc'[Tool(v)] \in Working \/ upc'[Thread(v)] \in Working
      <3>1. v # u
        BY <1>14, <2>2 DEF ServerEnds
      <3>2. updateStatus[v] \in Stages /\ upc'[Tool(v)] = upc[Tool(v)] /\ upc'[Thread(v)] = upc[Thread(v)]
        BY <1>14, <2>2, <3>1, ActorsOf DEF ServerEnds
      <3>. QED  BY <3>2 DEF StageIsWorked
    <2>. QED  BY <2>1, <2>2 DEF StageIsWorked
  <1>15. CASE UNCHANGED updaterVars
    <2>1. UpdaterTypeOK'
      BY <1>15 DEF updaterVars
    <2>2. StageIsWorked'
      BY <1>15 DEF updaterVars, StageIsWorked, Tool, Thread
    <2>. QED  BY <2>1, <2>2
  <1>. QED
    BY <1>1, <1>2, <1>3, <1>4, <1>5, <1>6, <1>7, <1>8, <1>9, <1>10, <1>11, <1>12, <1>13,
       <1>14, <1>15 DEF UpdaterNext, CheckStep

(* Every variable of the updater keeps its type, and its status settles:   *)
(* however checks, downloads and applies overwrite each other's status,    *)
(* none leaves a stage behind.                                             *)
THEOREM UpdateStatusSettles == UpdaterSpec => []StatusSettles
  <1>1. UpdaterInit => UpdaterInv
    BY UpdaterAssumption, ActorsOf DEF UpdaterInit, UpdaterInv, UpdaterTypeOK, StageIsWorked,
       NoSignal, Stages
  <1>2. UpdaterInv => StatusSettles
    BY DEF UpdaterInv, StageIsWorked, StatusSettles, Stages, Working
  <1>. QED
    BY <1>1, <1>2, UpdaterInvStep, PTL DEF UpdaterSpec

\* The tree follows what was fetched, and that the releases; what a check has
\* read of either was true once.
VersionsInOrder ==
    /\ released \in Nat /\ downloaded \in Nat /\ installed \in Nat
    /\ installed <= downloaded /\ downloaded <= released
    /\ seen \in [Actors -> Nat \X Nat]
    /\ \A a \in Actors : seen[a][1] <= installed /\ seen[a][2] <= released

\* No check was misled by more than its age.
NoneIsMissed ==
    \A a \in Actors :
        upc[a] = "signal" /\ seen[a][2] = released /\ ~Offer(a) => installed = released

LEMMA VersionsStep ==
  ASSUME VersionsInOrder, [UpdaterNext]_updaterVars
  PROVE  VersionsInOrder' /\ installed' >= installed
  <1>. USE DEF VersionsInOrder, trees
  <1>0. ASSUME UNCHANGED trees, seen' = seen
        PROVE  VersionsInOrder' /\ installed' >= installed
    BY <1>0
  <1>1. ASSUME UNCHANGED trees, NEW a \in Actors, NEW x \in Nat, NEW y \in Nat,
               seen' = [seen EXCEPT ![a] = <<x, y>>], x <= installed, y <= released
        PROVE  VersionsInOrder' /\ installed' >= installed
    <2>1. seen' \in [Actors -> Nat \X Nat]
      BY <1>1
    <2>2. \A b \in Actors : seen'[b] = IF b = a THEN <<x, y>> ELSE seen[b]
      BY <1>1
    <2>. QED
      BY <1>1, <2>1, <2>2
  <1>2. CASE Publish
    BY <1>2 DEF Publish
  <1>3. ASSUME NEW a \in Actors, CheckStep(a)
        PROVE  VersionsInOrder' /\ installed' >= installed
    <2>1. UNCHANGED trees
      BY <1>3 DEF CheckStep, BeginCheck, CheckFails, CheckAnswers, WriteSignal, WriteSignalFails
    <2>2. \E x, y \in Nat : /\ seen' = [seen EXCEPT ![a] = <<x, y>>]
                            /\ x <= installed /\ y <= released
      <3>1. CASE BeginCheck(a)
        <4>1. seen' = [seen EXCEPT ![a] = <<installed, 0>>]
          BY <3>1 DEF BeginCheck
        <4>2. 0 \in Nat /\ installed \in Nat /\ installed <= installed /\ 0 <= released
          BY DEF VersionsInOrder
        <4>. QED
          BY <4>1, <4>2
      <3>2. CASE CheckAnswers(a)
        <4>1. /\ seen[a][1] \in Nat /\ seen[a][1] <= installed
              /\ released \in Nat /\ released <= released
          BY DEF VersionsInOrder
        <4>2. seen' = [seen EXCEPT ![a] = <<seen[a][1], released>>]
          BY <3>2 DEF CheckAnswers
        <4>. QED
          BY <4>1, <4>2
      <3>3. CASE CheckFails(a) \/ WriteSignal(a) \/ WriteSignalFails(a)
        <4>1. seen' = [seen EXCEPT ![a] = <<0, 0>>]
          BY <3>3 DEF CheckFails, WriteSignal, WriteSignalFails
        <4>2. 0 \in Nat /\ 0 <= installed /\ 0 <= released
          BY DEF VersionsInOrder
        <4>. QED
          BY <4>1, <4>2
      <3>. QED
        BY <1>3, <3>1, <3>2, <3>3 DEF CheckStep
    <2>. QED
      BY <1>1, <2>1, <2>2
  <1>4. ASSUME NEW u \in Updaters, FetchOK(u) \/ FetchFails(u) \/ MergeOK(u)
        PROVE  VersionsInOrder' /\ installed' >= installed
    <2>1. /\ seen' = seen /\ released' = released
          /\ \/ installed' = installed /\ downloaded' \in {downloaded, released}
             \/ installed' = downloaded /\ downloaded' = downloaded
      BY <1>4 DEF FetchOK, FetchFails, MergeOK
    <2>. QED
      BY <2>1
  <1>5. ASSUME NEW u \in Updaters, Download(u) \/ Apply(u) \/ SyncOK(u) \/ ApplyFails(u)
                                     \/ CallDismiss(u) \/ Dismiss(u)
        PROVE  VersionsInOrder' /\ installed' >= installed
    BY <1>0, <1>5 DEF Download, Apply, SyncOK, ApplyFails, CallDismiss, Dismiss
  <1>6. ASSUME NEW u \in Updaters, ServerEnds(u)
        PROVE  VersionsInOrder' /\ installed' >= installed
    <2>1. UNCHANGED trees /\ \A b \in Actors : seen'[b] = <<0, 0>> \/ seen'[b] = seen[b]
      BY <1>6 DEF ServerEnds
    <2>2. seen' \in [Actors -> Nat \X Nat]
      BY <1>6 DEF ServerEnds
    <2>. QED
      BY <2>1, <2>2
  <1>7. CASE UNCHANGED updaterVars
    BY <1>0, <1>7 DEF updaterVars
  <1>. QED
    BY <1>2, <1>3, <1>4, <1>5, <1>6, <1>7 DEF UpdaterNext

(* No server downgrades the tree, however checks, downloads and applies of *)
(* several servers overlap: versions only go up.                           *)
THEOREM NeverDowngraded == UpdaterSpec => [][installed' >= installed]_updaterVars
  <1>1. UpdaterInit => VersionsInOrder
    BY DEF UpdaterInit, VersionsInOrder
  <1>2. VersionsInOrder /\ [UpdaterNext]_updaterVars
        => VersionsInOrder' /\ [installed' >= installed]_updaterVars
    BY VersionsStep
  <1>. QED
    BY <1>1, <1>2, PTL DEF UpdaterSpec

(* A check that has seen the latest release and offers nothing is right,   *)
(* though the tree may have changed since it read the version: no release  *)
(* is taken for installed that is not.                                     *)
THEOREM NoReleaseMissed == UpdaterSpec => []NoneIsMissed
  <1>1. UpdaterInit => VersionsInOrder
    BY DEF UpdaterInit, VersionsInOrder
  <1>2. VersionsInOrder /\ [UpdaterNext]_updaterVars => VersionsInOrder'
    BY VersionsStep
  <1>3. VersionsInOrder => NoneIsMissed
    <2>. SUFFICES ASSUME VersionsInOrder, NEW a \in Actors, seen[a][2] = released, ~Offer(a)
                  PROVE  installed = released
      BY DEF NoneIsMissed
    <2>1. seen[a][1] \in Nat /\ seen[a][2] \in Nat /\ seen[a][1] <= installed
      BY DEF VersionsInOrder
    <2>2. seen[a][2] <= seen[a][1]
      BY <2>1 DEF Offer
    <2>. QED
      BY <2>1, <2>2 DEF VersionsInOrder
  <1>. QED
    BY <1>1, <1>2, <1>3, PTL DEF UpdaterSpec

-----------------------------------------------------------------------------
(* The instance.                                                           *)

(* A behaviour of the instance is one of each of its services, of which    *)
(* all but one stand still.                                                *)
THEOREM StandaloneCompose ==
  Spec => /\ IndexingSpec /\ SchedulerSpec /\ RelaySpec
          /\ BackgroundSpec /\ WatcherSpec /\ WriterSpec
  <1>1. Init => /\ IndexingInit /\ SchedulerInit /\ RelayInit
                /\ BackgroundInit /\ WatcherInit /\ WriterInit
    BY DEF Init
  <1>2. [Next]_vars => /\ [IndexingNext]_indexingVars /\ [SchedulerNext]_schedulerVars
                       /\ [RelayNext]_relayVars /\ [BackgroundNext]_backgroundVars
                       /\ [WatcherNext]_watcherVars /\ [WriterNext]_writerVars
    BY DEF Next, NextOf, vars, engineVars, otherVars
  <1>. QED
    BY <1>1, <1>2, PTL
    DEF Spec, IndexingSpec, SchedulerSpec, RelaySpec, BackgroundSpec, WatcherSpec, WriterSpec

(* Every variable of the instance keeps its type.                          *)
THEOREM StandaloneTypeCorrect == Spec => []TypeOK
  <1>1. /\ IndexingTypeOK /\ SchedulerTypeOK /\ RelayTypeOK
        /\ BackgroundTypeOK /\ WatcherTypeOK /\ WriterTypeOK
        => TypeOK
    BY DEF TypeOK
  <1>. QED
    BY <1>1, StandaloneCompose, IndexingTypeCorrect, SchedulerTypeCorrect, RelayTypeCorrect,
       BackgroundTypeCorrect, WatcherTypeCorrect, WriterTypeCorrect, PTL
=============================================================================
