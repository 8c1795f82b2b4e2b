--------------------------- MODULE SwarmingRequest ---------------------------
(***************************************************************************)
(* The task request `swarming trigger` builds from its flags               *)
(* (src/client/cmd/swarming/trigger.go): triggerRun.Parse checks the flags *)
(* and processTriggerOptions turns them into a NewTaskRequest, sorting the *)
(* dimension map with mapToArray and naming the task from the user, the   *)
(* dimensions and the isolated hash.                                       *)
(*                                                                         *)
(* Flag values come from small sets.  Dimension keys are strings; Go's    *)
(* string order on them is given by KeyRank.  Flags that are copied       *)
(* through unchanged (env, priority, tags, containment, outputs) and the  *)
(* CIPD package split are left out.                                       *)
(***************************************************************************)
EXTENDS Integers, Sequences, SequencesExt, TLC

CONSTANTS
    Options,   \* the flag combinations to check, as records
    KeyRank,   \* dimension key -> its position in Go's string order
    EnvUser,   \* os.Getenv("USER")
    None       \* model value: nil

VARIABLES
    opts,      \* the parsed command line
    exitCode,  \* what Run returned, or None while it runs
    request    \* the NewTaskRequest built, or None

vars == <<opts, exitCode, request>>

Init ==
    /\ opts \in Options
    /\ exitCode = None
    /\ request = None

(* array.Less: by Key, then by Value.                                     *)
Less(a, b) ==
    \/ KeyRank[a.Key] < KeyRank[b.Key]
    \/ KeyRank[a.Key] = KeyRank[b.Key] /\ a.Value < b.Value

(* mapToArray: the map's pairs, sort.Sort'ed with array.Less.             *)
MapToArray(m) ==
    SortSeq(SetToSeq({[Key |-> k, Value |-> m[k]] : k \in DOMAIN m}), Less)

(* namePartFromDimensions: "k=v" for each sorted pair, joined by "_".     *)
NamePartFromDimensions(m) ==
    LET a == MapToArray(m)
        pair(i) == a[i].Key \o "=" \o a[i].Value
    IN FoldLeft(LAMBDA acc, i : IF acc = "" THEN pair(i) ELSE acc \o "_" \o pair(i),
                "", [i \in 1..Len(a) |-> i])

(* commonFlags.Parse and triggerRun.Parse: the checks that fail Run.      *)
ParseOK(o) ==
    /\ o.server # ""
    /\ o.dimensions # None
    /\ ~(o.rawCmd /\ o.args = <<>>)
    /\ (o.rawCmd \/ o.isolated # "")

(* triggerRun.Parse: c.user defaults to $USER.                            *)
UserOf(o) == IF o.user = "" THEN EnvUser ELSE o.user

(* processTriggerOptions's task name: the first rule runs when a name was *)
(* given, the second appends the isolated hash when the name is empty.    *)
TaskName(o) ==
    LET n1 == IF o.taskName # ""
              THEN UserOf(o) \o "/" \o NamePartFromDimensions(o.dimensions)
              ELSE o.taskName
    IN IF o.isolated # "" /\ n1 = "" THEN n1 \o "/" \o o.isolated ELSE n1

ProcessTriggerOptions(o) ==
    [Command              |-> IF o.rawCmd THEN o.args ELSE <<>>,
     ExtraArgs            |-> IF o.rawCmd THEN <<>> ELSE o.args,
     Name                 |-> TaskName(o),
     InputsRef            |-> IF o.isolated # "" THEN o.isolated ELSE None,
     Dimensions           |-> MapToArray(o.dimensions),
     ExecutionTimeoutSecs |-> o.hardTimeout,
     ExpirationSecs       |-> o.hardTimeout,
     User                 |-> UserOf(o)]

(* triggerRun.Run up to the NewTask call: parse, or build the request.    *)
Run ==
    /\ exitCode = None
    /\ request = None
    /\ \/ ~ParseOK(opts) /\ exitCode' = 1 /\ UNCHANGED request
       \/ ParseOK(opts) /\ request' = ProcessTriggerOptions(opts)
          /\ UNCHANGED exitCode
    /\ UNCHANGED opts

(* Run has failed, or the request is handed to the server.                *)
Done ==
    /\ exitCode # None \/ request # None
    /\ UNCHANGED vars

Next == Run \/ Done

Spec == Init /\ [][Next]_vars

-----------------------------------------------------------------------------
(* Properties.                                                            *)

(* The request honours the flags' help texts.  -expiration: "Seconds to   *)
(* allow the task to be pending for a bot to run before this task request *)
(* expires", so ExpirationSecs is that flag; -task-name: "Display name of *)
(* the task", so a name given on the command line is the task's name.     *)
RequestHonoursFlags ==
    request # None =>
        /\ request.ExpirationSecs = opts.expiration
        /\ opts.taskName # "" => request.Name = opts.taskName

=============================================================================
