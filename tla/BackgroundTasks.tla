--------------------------- MODULE BackgroundTasks ---------------------------
(***************************************************************************)
(* codetester/services/qa.py and codetester/services/tester.py: test runs  *)
(* in background threads.  QA keeps a task in a row of execution_tasks and *)
(* calls a webhook; Tester keeps it in a dictionary of an object that      *)
(* code_tester drops after the call.  qa_status reads the table.           *)
(***************************************************************************)
CONSTANTS QaTasks, TesterTasks      \* tasks of QA and of Tester

ASSUME BackgroundAssumption == QaTasks \cap TesterTasks = {}

Background == QaTasks \cup TesterTasks

VARIABLES
    thread,      \* program point of the thread of each task
    row,         \* status in execution_tasks, "none" without a row
    entry,       \* status in _task_store
    found,       \* result in the row or the entry: "none", "value" or "error"
    verdict,     \* what the adapter said: "none", "passed" or "failed"
    testRow,     \* status in test_results
    notified     \* status the webhook was told

backgroundVars == <<thread, row, entry, found, verdict, testRow, notified>>

Ended == {"completed", "failed"}

BackgroundInit ==
    /\ thread = [t \in Background |-> "none"]
    /\ row = [t \in Background |-> "none"]
    /\ entry = [t \in Background |-> "none"]
    /\ found = [t \in Background |-> "none"]
    /\ verdict = [t \in Background |-> "none"]
    /\ testRow = [t \in Background |-> "none"]
    /\ notified = [t \in Background |-> "none"]

Run(t, from, to) == thread[t] = from /\ thread' = [thread EXCEPT ![t] = to]

-----------------------------------------------------------------------------
(* run_qa_task: the row is committed before the root of the repository is  *)
(* looked up; without a repository the call raises and leaves it pending.  *)
RequestQA(t) ==
    /\ t \in QaTasks
    /\ Run(t, "none", "start") \/ Run(t, "none", "never")
    /\ row' = [row EXCEPT ![t] = "pending"]
    /\ UNCHANGED <<entry, found, verdict, testRow, notified>>

(* run_async_task. *)
RequestTest(t) ==
    /\ t \in TesterTasks
    /\ Run(t, "none", "start")
    /\ entry' = [entry EXCEPT ![t] = "pending"]
    /\ UNCHANGED <<row, found, verdict, testRow, notified>>

(* _execute_and_update and _execute_async, up to the adapter. *)
StartQA(t) ==
    /\ t \in QaTasks
    /\ Run(t, "start", "test")
    /\ row' = [row EXCEPT ![t] = "running"]
    /\ UNCHANGED <<entry, found, verdict, testRow, notified>>

StartTest(t) ==
    /\ t \in TesterTasks
    /\ Run(t, "start", "test")
    /\ entry' = [entry EXCEPT ![t] = "running"]
    /\ UNCHANGED <<row, found, verdict, testRow, notified>>

RunAdapter(t) ==
    /\ Run(t, "test", IF t \in QaTasks THEN "save" ELSE "finish")
    /\ \E v \in {"passed", "failed"} : verdict' = [verdict EXCEPT ![t] = v]
    /\ UNCHANGED <<row, entry, found, testRow, notified>>

(* _save_test_result, which drops every exception. *)
SaveTestResult(t) ==
    /\ Run(t, "save", "finish")
    /\ testRow' \in {testRow, [testRow EXCEPT ![t] = verdict[t]]}
    /\ UNCHANGED <<row, entry, found, verdict, notified>>

StatusOf(t) == IF verdict[t] = "passed" THEN "completed" ELSE "failed"

(* Status and result of the row, in one transaction. *)
FinishQA(t) ==
    /\ t \in QaTasks
    /\ Run(t, "finish", "notify")
    /\ row' = [row EXCEPT ![t] = StatusOf(t)]
    /\ found' = [found EXCEPT ![t] = "value"]
    /\ UNCHANGED <<entry, verdict, testRow, notified>>

(* Status and result of the entry, one after the other. *)
FinishTest(t) ==
    /\ t \in TesterTasks
    /\ Run(t, "finish", "store")
    /\ entry' = [entry EXCEPT ![t] = "completed"]
    /\ UNCHANGED <<row, found, verdict, testRow, notified>>

StoreTest(t) ==
    /\ t \in TesterTasks
    /\ Run(t, "store", "end") \/ Run(t, "storeError", "end")
    /\ found' = [found EXCEPT ![t] = IF thread[t] = "store" THEN "value" ELSE "error"]
    /\ UNCHANGED <<row, entry, verdict, testRow, notified>>

\* Mutant: a webhook that fails goes the way of a failed task.
NotifyUnguarded(t) ==
    /\ \/ /\ Run(t, "notify", "end")
          /\ notified' = [notified EXCEPT ![t] = StatusOf(t)]
       \/ /\ Run(t, "notify", "error")
          /\ notified' \in {notified, [notified EXCEPT ![t] = StatusOf(t)]}
    /\ UNCHANGED <<row, entry, found, verdict, testRow>>

(* The webhook, if there is one and it can be reached. *)
Notify(t) ==
    /\ Run(t, "notify", "end")
    /\ notified' \in {notified, [notified EXCEPT ![t] = StatusOf(t)]}
    /\ UNCHANGED <<row, entry, found, verdict, testRow>>

-----------------------------------------------------------------------------
(* The adapter or a transaction raises. *)
Raise(t) ==
    /\ Run(t, "test", "error")
       \/ (t \in QaTasks /\ (Run(t, "start", "error") \/ Run(t, "finish", "error")))
    /\ UNCHANGED <<row, entry, found, verdict, testRow, notified>>

\* Mutant: the handler only logs.
HandleQuietly(t) ==
    /\ Run(t, "error", IF t \in QaTasks THEN "end" ELSE "storeError")
    /\ UNCHANGED <<row, entry, found, verdict, testRow, notified>>

(* The handlers of the two services: "failed", and the error as result. *)
HandleError(t) ==
    /\ IF t \in QaTasks
       THEN /\ Run(t, "error", "end")
            /\ row' = [row EXCEPT ![t] = "failed"]
            /\ found' = [found EXCEPT ![t] = "error"]
            /\ UNCHANGED entry
       ELSE /\ Run(t, "error", "storeError")
            /\ entry' = [entry EXCEPT ![t] = "failed"]
            /\ UNCHANGED <<row, found>>
    /\ UNCHANGED <<verdict, testRow, notified>>

(* The transaction of the handler fails too: the thread dies. *)
HandlerFails(t) ==
    /\ t \in QaTasks
    /\ Run(t, "error", "dead")
    /\ UNCHANGED <<row, entry, found, verdict, testRow, notified>>

(* The server is killed: nothing takes a task up again, and the tables of  *)
(* Tester are gone.                                                        *)
KillServer ==
    /\ thread' = [t \in Background |->
                     IF thread[t] \in {"none", "never", "end"} THEN thread[t] ELSE "dead"]
    /\ entry' = [t \in Background |-> "none"]
    /\ found' = [t \in Background |-> IF t \in QaTasks THEN found[t] ELSE "none"]
    /\ thread' # thread \/ entry' # entry
    /\ UNCHANGED <<row, verdict, testRow, notified>>

ThreadStep(t) ==
    \/ StartQA(t) \/ StartTest(t) \/ RunAdapter(t) \/ SaveTestResult(t)
    \/ FinishQA(t) \/ FinishTest(t) \/ StoreTest(t) \/ Notify(t)
    \/ Raise(t) \/ HandleError(t) \/ HandlerFails(t)

BackgroundNext ==
    \/ \E t \in Background : RequestQA(t) \/ RequestTest(t) \/ ThreadStep(t)
    \/ KillServer

BackgroundFairness == \A t \in Background : WF_backgroundVars(ThreadStep(t))
BackgroundSpec == BackgroundInit /\ [][BackgroundNext]_backgroundVars /\ BackgroundFairness

-----------------------------------------------------------------------------
(* Type correctness. *)
BackgroundTypeOK ==
    LET status == {"none", "pending", "running"} \cup Ended IN
    /\ thread \in [Background -> {"none", "never", "start", "test", "save", "finish", "store",
                                  "notify", "error", "storeError", "end", "dead"}]
    /\ row \in [Background -> status]
    /\ entry \in [Background -> status]
    /\ found \in [Background -> {"none", "value", "error"}]
    /\ verdict \in [Background -> {"none", "passed", "failed"}]
    /\ testRow \in [Background -> {"none", "passed", "failed"}]
    /\ notified \in [Background -> {"none"} \cup Ended]

\* The columns of execution_tasks, of the tasks of QA.
OfQA(column) == [t \in QaTasks |-> column[t]]

Promise == INSTANCE TestRun WITH
    Tasks <- QaTasks, answer <- OfQA(row), result <- OfQA(found), heard <- OfQA(notified)

(* Through qa_status a QA task is a TestRun, between any two transactions  *)
(* of its thread, through every error path and after a kill.               *)
ImplementsTestRun == Promise!Spec

(* A task that was accepted ends with a result, unless the server is       *)
(* killed or the database refuses even the error.                          *)
BackgroundTasksEnd ==
    \A t \in Background :
        thread[t] = "start" ~> (thread[t] = "dead" \/ (found[t] # "none"
                                   /\ (row[t] \in Ended \/ entry[t] \in Ended)))
=============================================================================
