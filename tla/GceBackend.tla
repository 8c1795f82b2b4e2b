------------------------------ MODULE GceBackend ------------------------------
(***************************************************************************)
(* The task-queue handlers of the GCE backend (src/unnamed/part_003,       *)
(* package backend): expand turns a VMs block of the config into one      *)
(* ensure task per VM; ensure creates or updates the VM's datastore       *)
(* entity in a transaction; create gives the VM a hostname, recorded in a *)
(* transaction that double-checks it, and inserts the GCE instance with a *)
(* request id derived from the hostname.                                  *)
(*                                                                         *)
(* The task queue delivers at least once: a task whose handler fails is   *)
(* delivered again, and a task may be running on two workers at once.     *)
(* expand and ensure are each one datastore or queue call and are one     *)
(* step; create takes a Get, a transaction and an Insert, on a worker.    *)
(* Datastore, task queue and GCE calls may fail, up to MaxFailures times. *)
(***************************************************************************)
EXTENDS Naturals, FiniteSets

CONSTANTS
    Workers,      \* task-queue workers running create
    Amount,       \* vms.Amount of the expanded VMs block
    Suffixes,     \* what getSuffix may return
    MaxFailures,  \* bound: failed datastore, queue and GCE calls
    None          \* model value

VMIds == 0..Amount - 1   \* "<block id>-<i>"

(* A GCE instance, by hostname "<vm id>-<suffix>".                        *)
Hostname(id, suf) == <<id, suf>>

Tasks == {[kind |-> "expand"]}
           \cup [kind : {"ensure", "create"}, id : VMIds]

VARIABLES
    vms,        \* datastore: VM id -> entity, or None
    pending,    \* task-queue tasks not yet done
    instances,  \* GCE instances, by hostname
    pc,         \* where each worker is in create
    task,       \* the create task a worker runs
    vm,         \* the worker's copy of the VM entity's hostname
    failures    \* failed calls so far

vars == <<vms, pending, instances, pc, task, vm, failures>>

(* Tasks enqueued from outside this file: the expand of the config block, *)
(* and a create for each VM.                                              *)
Init ==
    /\ vms = [id \in VMIds |-> None]
    /\ pending = {[kind |-> "expand"]} \cup [kind : {"create"}, id : VMIds]
    /\ instances = {}
    /\ pc = [w \in Workers |-> "idle"]
    /\ task = [w \in Workers |-> None]
    /\ vm = [w \in Workers |-> None]
    /\ failures = 0

CanFail == failures < MaxFailures

Fail == failures' = failures + 1

(* Mutant: `for i := int32(0); i <= vms.Amount; i++`.                     *)
EnsureIdsPastEnd == 0..Amount

(* Mutant: one VM short.                                                  *)
EnsureIdsShort == 0..Amount - 2

(* The ids expand makes ensure tasks for.                                 *)
EnsureIds == 0..Amount - 1

(* expand: GetVMs, then AddTask of one ensure per VM.  AddTask of a batch *)
(* may fail after adding some; the failed expand is delivered again.      *)
Expand ==
    /\ [kind |-> "expand"] \in pending
    /\ \/ /\ CanFail /\ Fail
          /\ \E added \in SUBSET EnsureIds :
                pending' = pending \cup [kind : {"ensure"}, id : added]
       \/ pending' = (pending \ {[kind |-> "expand"]})
                        \cup [kind : {"ensure"}, id : EnsureIds]
          /\ UNCHANGED failures
    /\ UNCHANGED <<vms, instances, pc, task, vm>>

(* Mutant: ensure Puts a fresh entity without reading the stored one, so *)
(* the hostname create recorded is lost.                                  *)
EnsureOverwrites(id) ==
    /\ [kind |-> "ensure", id |-> id] \in pending
    /\ \/ CanFail /\ Fail /\ UNCHANGED <<vms, pending>>
       \/ /\ vms' = [vms EXCEPT ![id] = [hostname |-> ""]]
          /\ pending' = pending \ {[kind |-> "ensure", id |-> id]}
          /\ UNCHANGED failures
    /\ UNCHANGED <<instances, pc, task, vm>>

(* ensure: in a transaction, Get (a missing entity is new) and Put it     *)
(* with the task's attributes; the hostname is kept.                      *)
Ensure(id) ==
    /\ [kind |-> "ensure", id |-> id] \in pending
    /\ \/ CanFail /\ Fail /\ UNCHANGED <<vms, pending>>
       \/ /\ vms' = [vms EXCEPT ![id] =
                [hostname |-> IF @ = None THEN "" ELSE @.hostname]]
          /\ pending' = pending \ {[kind |-> "ensure", id |-> id]}
          /\ UNCHANGED failures
    /\ UNCHANGED <<instances, pc, task, vm>>

(* The worker's create returns an error (or panics): the task stays.      *)
CreateFails(w) ==
    /\ pc' = [pc EXCEPT ![w] = "idle"]
    /\ task' = [task EXCEPT ![w] = None]
    /\ vm' = [vm EXCEPT ![w] = None]

(* The queue hands a create task to an idle worker, even one another     *)
(* worker is running.                                                     *)
DeliverCreate(w, t) ==
    /\ pc[w] = "idle"
    /\ t \in pending /\ t.kind = "create"
    /\ pc' = [pc EXCEPT ![w] = "get"]
    /\ task' = [task EXCEPT ![w] = t]
    /\ UNCHANGED <<vms, pending, instances, vm, failures>>

(* datastore.Get outside a transaction; a missing entity is an error.     *)
CreateGet(w) ==
    /\ pc[w] = "get"
    /\ LET e == vms[task[w].id] IN
       \/ (e = None \/ CanFail) /\ CreateFails(w)
          /\ failures' = IF e = None THEN failures ELSE failures + 1
       \/ /\ e # None
          /\ vm' = [vm EXCEPT ![w] = e.hostname]
          /\ pc' = [pc EXCEPT ![w] = IF e.hostname = "" THEN "tx" ELSE "insert"]
          /\ UNCHANGED <<task, failures>>
    /\ UNCHANGED <<vms, pending, instances>>

(* Mutant: the transaction stores its hostname without double-checking.  *)
CreateTxNoRecheck(w) ==
    /\ pc[w] = "tx"
    /\ \E suf \in Suffixes :
          /\ vms' = [vms EXCEPT ![task[w].id].hostname = suf]
          /\ vm' = [vm EXCEPT ![w] = suf]
          /\ pc' = [pc EXCEPT ![w] = "insert"]
    /\ UNCHANGED <<pending, instances, task, failures>>

(* getSuffix, then the transaction: Get the entity again into vm, and     *)
(* only if it still has no hostname store the new one.                    *)
CreateTx(w) ==
    /\ pc[w] = "tx"
    /\ \/ CanFail /\ Fail /\ CreateFails(w) /\ UNCHANGED vms
       \/ \E suf \in Suffixes :
             LET stored == vms[task[w].id].hostname
                 h == IF stored = "" THEN suf ELSE stored
             IN /\ vms' = [vms EXCEPT ![task[w].id].hostname = h]
                /\ vm' = [vm EXCEPT ![w] = h]
                /\ pc' = [pc EXCEPT ![w] = "insert"]
                /\ UNCHANGED <<task, failures>>
    /\ UNCHANGED <<pending, instances>>

(* Instances.Insert with RequestId SHA1(hostname): GCE ignores a request  *)
(* id it has completed.  A googleapi.Error fails create; any other error  *)
(* (a timeout, possibly after GCE created the instance) panics on the     *)
(* type assertion to a googleapi.Error pointer.  The queue sees either   *)
(* as a failed delivery and delivers the task again.                     *)
CreateInsert(w) ==
    /\ pc[w] = "insert"
    /\ LET h == Hostname(task[w].id, vm[w]) IN
       \/ /\ instances' = instances \cup {h}
          /\ pending' = pending \ {task[w]}
          /\ CreateFails(w)
          /\ UNCHANGED failures
       \/ /\ CanFail /\ Fail /\ CreateFails(w)
          /\ \/ UNCHANGED instances
             \/ instances' = instances \cup {h}
          /\ UNCHANGED pending
    /\ UNCHANGED vms

(* Every task is done and every worker idle.                              *)
Terminating ==
    /\ pending = {}
    /\ \A w \in Workers : pc[w] = "idle"
    /\ UNCHANGED vars

Next ==
    \/ Expand
    \/ \E id \in VMIds : Ensure(id)
    \/ \E w \in Workers :
          \/ \E t \in pending : DeliverCreate(w, t)
          \/ CreateGet(w) \/ CreateTx(w) \/ CreateInsert(w)
    \/ Terminating

(* The queue keeps delivering pending tasks; a running handler finishes.  *)
Fairness ==
    /\ WF_vars(Expand)
    /\ \A id \in VMIds : WF_vars(Ensure(id))
    /\ \A w \in Workers :
          /\ WF_vars(\E t \in pending : DeliverCreate(w, t))
          /\ WF_vars(CreateGet(w)) /\ WF_vars(CreateTx(w))
          /\ WF_vars(CreateInsert(w))

Spec == Init /\ [][Next]_vars /\ Fairness

-----------------------------------------------------------------------------
(* Properties.                                                            *)

TypeOK ==
    /\ vms \in [VMIds -> {None} \cup [hostname : {""} \cup Suffixes]]
    /\ pending \subseteq Tasks
    /\ instances \subseteq VMIds \X Suffixes
    /\ pc \in [Workers -> {"idle", "get", "tx", "insert"}]
    /\ task \in [Workers -> {None} \cup Tasks]
    /\ vm \in [Workers -> {None, ""} \cup Suffixes]
    /\ failures \in 0..MaxFailures

(* The handlers as GceVMs sees them: the entity's hostname, "" for an    *)
(* entity that has none yet, and the instances.                          *)
Abstract == INSTANCE GceVMs WITH
    hostname <- [id \in VMIds |-> IF vms[id] = None THEN None
                                                     ELSE vms[id].hostname],
    instances <- instances

(* ensure and create implement GceVMs: however create's deliveries        *)
(* interleave, fail after Insert and are retried, a VM's hostname is set  *)
(* once by the transaction's double-check and never changed by ensure's   *)
(* Get and Put, and every Insert, with the request id SHA1(hostname),     *)
(* uses the hostname the entity holds, so a VM never gets two instances.  *)
ImplementsGceVMs == Abstract!Spec

(* Every VM of the expanded block eventually has its instance, once the   *)
(* failures stop: expand, ensure and create, redelivered until they       *)
(* succeed, get there.                                                    *)
AllVMsCreated ==
    <>(\A id \in VMIds :
          vms[id] # None /\ Hostname(id, vms[id].hostname) \in instances)

=============================================================================
