--------------------------- MODULE SwarmingTrigger ----------------------------
(***************************************************************************)
(* `swarming trigger` (src/client/cmd/swarming/trigger.go, triggerRun.main) *)
(* against a Swarming server, with the RPC helpers of common.go:          *)
(* retryGoogleRPC, which retries a call while it fails with an HTTP code  *)
(* >= 500, and cancelExtraTasks, which counts the tasks carrying the       *)
(* invocation's tag, lists them if there are more than were returned, and *)
(* cancels every one it did not get back, all at once in a work pool.      *)
(*                                                                         *)
(* The server commits a new task before it answers, so an answer can fail *)
(* after the task exists: a 5xx that is retried (a duplicate task under   *)
(* the same invocation tag), or a connection error, which retryGoogleRPC  *)
(* does not tag transient.  Bots run and finish tasks meanwhile.           *)
(***************************************************************************)
EXTENDS Naturals, FiniteSets, Bitwise

CONSTANTS
    MaxAttempts,   \* attempts retry.Default allows one RPC
    CancelFlags,   \* values of -cancel-extra-tasks to check
    DumpFlags      \* whether -dump-json names a file, the values to check

ASSUME MaxAttempts \in Nat \ {0} /\ CancelFlags \subseteq BOOLEAN
       /\ DumpFlags \subseteq BOOLEAN

(* taskState values, a bit each; maskAlive marks PENDING and RUNNING.     *)
maskAlive == 1
stateNone == 0     \* no task with this id (not a Swarming state)
stateCancelled == 4
stateCompleted == 8
statePending == 32 + maskAlive
stateRunning == 64 + maskAlive
stateKilled == 512

(* taskState.Alive                                                        *)
Alive(t) == (t & maskAlive) # 0

TaskIds == 1..MaxAttempts   \* at most one task per NewTask attempt
NoTask == 0

(* Answers of an RPC as retryGoogleRPC sees them.                         *)
Ok == "ok"
Http5xx == "5xx"      \* googleapi.Error with Code >= 500: transient
Http4xx == "4xx"      \* googleapi.Error with Code < 500: fatal
NetErr == "net"       \* any other error: not tagged transient, fatal

VARIABLES
    tasks,        \* server: task id -> taskState; all carry the invocation tag
    cancelExtra,  \* c.cancelExtraTasks
    dumpJSON,     \* c.dumpJSON != ""
    pc,           \* where main is
    attempts,     \* NewTask attempts made by retryGoogleRPC
    result,       \* the task NewTask returned
    cancelling,   \* task ids whose CancelTask is running in the work pool
    cancelErr,    \* some CancelTask of the pool failed
    exit          \* what main returned: "none", "ok" or "err"

vars == <<tasks, cancelExtra, dumpJSON, pc, attempts, result, cancelling, cancelErr, exit>>

Created == {t \in TaskIds : tasks[t] # stateNone}

Init ==
    /\ tasks = [t \in TaskIds |-> stateNone]
    /\ cancelExtra \in CancelFlags
    /\ dumpJSON \in DumpFlags
    /\ pc = "new"
    /\ attempts = 0
    /\ result = NoTask
    /\ cancelling = {}
    /\ cancelErr = FALSE
    /\ exit = "none"

(* main returns.                                                          *)
Return(how) ==
    /\ pc' = "done"
    /\ exit' = how

(* The task is triggered and its duplicates dealt with: write the         *)
(* -dump-json file if one is named, else return nil.                      *)
Triggered ==
    \/ dumpJSON /\ pc' = "dump" /\ exit' = "none"
    \/ ~dumpJSON /\ Return("ok")

(* Mutant: an attempt is counted twice.                                   *)
NextAttemptTwice(a) == a + 2

(* retry.Default gives up after MaxAttempts attempts.                     *)
NextAttempt(a) == a + 1

(* One attempt of service.NewTask inside retryGoogleRPC.  The server may  *)
(* commit the task whatever it answers, except for a 4xx.                 *)
NewTaskAttempt ==
    /\ pc = "new"
    /\ attempts < MaxAttempts
    /\ attempts' = NextAttempt(attempts)
    /\ \E created \in BOOLEAN, answer \in {Ok, Http5xx, Http4xx, NetErr} :
          /\ answer = Ok => created
          /\ answer = Http4xx => ~created
          /\ LET id == attempts + 1 IN
             /\ tasks' = IF created THEN [tasks EXCEPT ![id] = statePending]
                                    ELSE tasks
             /\ \/ /\ answer = Ok
                   /\ result' = id
                   /\ \/ cancelExtra /\ pc' = "count" /\ exit' = "none"
                      \/ ~cancelExtra /\ Triggered
                \/ /\ answer = Http5xx /\ attempts' < MaxAttempts
                   /\ UNCHANGED <<pc, exit, result>>
                \/ /\ answer = Http5xx /\ attempts' >= MaxAttempts
                   /\ Return("err") /\ UNCHANGED result
                \/ /\ answer \in {Http4xx, NetErr}
                   /\ Return("err") /\ UNCHANGED result
    /\ UNCHANGED <<cancelExtra, dumpJSON, cancelling, cancelErr>>

(* Mutant: `taskCount <= len(results) + 1`.                               *)
NoExtraOffByOne(count) == count <= 2

(* taskCount <= int64(len(results)), with one result.                     *)
NoExtra(count) == count <= 1

(* cancelExtraTasks: service.CountTasks(createStart, invocationTag).      *)
CountTasks ==
    /\ pc = "count"
    /\ \/ Return("err")
       \/ NoExtra(Cardinality(Created)) /\ Triggered
       \/ ~NoExtra(Cardinality(Created)) /\ pc' = "list" /\ UNCHANGED exit
    /\ UNCHANGED <<tasks, cancelExtra, dumpJSON, attempts, result, cancelling, cancelErr>>

(* The listed tasks that NewTask did not return.                          *)
InvalidTaskIds(listed) == listed \ {result}

(* service.ListTasks, then parallel.WorkPool(8, ...) over the invalid ids *)
ListTasks ==
    /\ pc = "list"
    /\ \/ Return("err") /\ UNCHANGED cancelling
       \/ /\ cancelling' = InvalidTaskIds(Created)
          /\ pc' = "cancel"
          /\ UNCHANGED exit
    /\ UNCHANGED <<tasks, cancelExtra, dumpJSON, attempts, result, cancelErr>>

(* One worker: service.CancelTask(t, KillRunning: true).  A finished task *)
(* is left as it is; a cancel that fails is an error of the pool.         *)
CancelTask(t) ==
    /\ pc = "cancel"
    /\ t \in cancelling
    /\ cancelling' = cancelling \ {t}
    /\ \/ /\ tasks' = [tasks EXCEPT ![t] =
                  CASE @ = statePending -> stateCancelled
                    [] @ = stateRunning -> stateKilled
                    [] OTHER -> @]
          /\ UNCHANGED cancelErr
       \/ cancelErr' = TRUE /\ UNCHANGED tasks
    /\ UNCHANGED <<cancelExtra, dumpJSON, pc, attempts, result, exit>>

(* WorkPool returns once every worker has; its errors fail main.          *)
CancelDone ==
    /\ pc = "cancel"
    /\ cancelling = {}
    /\ \/ cancelErr /\ Return("err")
       \/ ~cancelErr /\ Triggered
    /\ UNCHANGED <<tasks, cancelExtra, dumpJSON, attempts, result, cancelling, cancelErr>>

(* os.Create, json.MarshalIndent and Write of the triggered task's       *)
(* metadata: any of them failing fails main after the task was created.   *)
WriteDump ==
    /\ pc = "dump"
    /\ \E how \in {"ok", "err"} : Return(how)
    /\ UNCHANGED <<tasks, cancelExtra, dumpJSON, attempts, result, cancelling, cancelErr>>

(* A bot picks up a pending task, or finishes a running one.              *)
BotRun(t) ==
    /\ tasks[t] = statePending
    /\ tasks' = [tasks EXCEPT ![t] = stateRunning]
    /\ UNCHANGED <<cancelExtra, dumpJSON, pc, attempts, result, cancelling, cancelErr, exit>>

BotComplete(t) ==
    /\ tasks[t] = stateRunning
    /\ tasks' = [tasks EXCEPT ![t] = stateCompleted]
    /\ UNCHANGED <<cancelExtra, dumpJSON, pc, attempts, result, cancelling, cancelErr, exit>>

(* main has returned and no bot has anything left to do.                  *)
Terminating ==
    /\ pc = "done"
    /\ \A t \in TaskIds : ~Alive(tasks[t])
    /\ UNCHANGED vars

Next ==
    \/ NewTaskAttempt \/ CountTasks \/ ListTasks \/ CancelDone \/ WriteDump
    \/ \E t \in TaskIds : CancelTask(t) \/ BotRun(t) \/ BotComplete(t)
    \/ Terminating

Spec == Init /\ [][Next]_vars

-----------------------------------------------------------------------------
(* Properties.                                                            *)

States == {stateNone, stateCancelled, stateCompleted, statePending,
           stateRunning, stateKilled}

TypeOK ==
    /\ tasks \in [TaskIds -> States]
    /\ cancelExtra \in BOOLEAN
    /\ dumpJSON \in BOOLEAN
    /\ pc \in {"new", "count", "list", "cancel", "dump", "done"}
    /\ attempts \in 0..MaxAttempts
    /\ result \in {NoTask} \cup TaskIds
    /\ cancelling \subseteq TaskIds
    /\ cancelErr \in BOOLEAN
    /\ exit \in {"none", "ok", "err"}

(* With -cancel-extra-tasks, when trigger succeeds every duplicate that   *)
(* retried NewTask attempts left on the server is cancelled, killed or    *)
(* finished: cancelExtraTasks' count, list and parallel cancels, racing   *)
(* bots that start and finish the duplicates, leave none alive.           *)
ExtraTasksCancelled ==
    exit = "ok" /\ cancelExtra =>
        \A t \in Created \ {result} : ~Alive(tasks[t])

(* "Cancel extra spawned tasks" (trigger.go:185): "if Swarming triggered *)
(* the same task twice in a single invocation by accident" (common.go:325) *)
(* the extra tasks are cancelled.  With -cancel-extra-tasks, once main    *)
(* has returned, at most one task carrying the invocation's tag is alive,  *)
(* however the NewTask attempts, count, list and cancels ended.           *)
NoExtraTasksAlive ==
    pc = "done" /\ cancelExtra =>
        Cardinality({t \in Created : Alive(tasks[t])}) <= 1

=============================================================================
