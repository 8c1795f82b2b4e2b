--------------------------- MODULE IsolatedDownload ---------------------------
(***************************************************************************)
(* Downloading an isolated tree and listing the files it wrote, as two     *)
(* commands do it: `isolated download` (src/client/cmd/isolated/          *)
(* download.go: Run, Parse, main, outputResults) and the swarming         *)
(* client's GetTaskOutputs (src/client/cmd/swarming/common.go).  Both      *)
(* start a downloader whose goroutines call FileCallback once per file    *)
(* written; the callback appends the name to a slice under filesMu, and   *)
(* the caller reads the slice after dl.Wait().                            *)
(*                                                                         *)
(* The downloader itself is not in this repository: its goroutines are    *)
(* Jobs, each taking a file of the tree, writing it or failing, then      *)
(* running the callback.  `files = append(files, name)` reads the slice   *)
(* and writes it back, two steps, both under the lock.  An interrupt      *)
(* (signals.HandleInterrupt(cancel)) drops the files not yet fetched and  *)
(* makes Wait fail.  Every other call that can fail (flag parsing,        *)
(* tracing, auth, the directories, the cache, the writes) may fail, up to *)
(* MaxFailures times.                                                     *)
(***************************************************************************)
EXTENDS Naturals, Sequences, SequencesExt, FiniteSets

CONSTANTS
    Jobs,         \* the downloader's goroutines
    Trees,        \* the file names of the isolated trees that may be fetched
    Flags,        \* the command lines of `isolated download` to consider
    Stale,        \* a name left in the task directory by an earlier attempt
    MaxFailures,  \* bound: failed calls
    None          \* model value

NL == "\n"

VARIABLES
    mode,         \* "download" (isolated download) or "outputs" (GetTaskOutputs)
    flags,        \* downloadRun's flags
    tree,         \* the files of the isolated tree, or None for a nil FilesRef
    phase,        \* where the command is
    queue,        \* files the downloader has not fetched yet
    disk,         \* names in the output (task) directory
    wpc,          \* each goroutine: "idle", "lock", "append" or "unlock"
    wfile,        \* the file a goroutine is reporting
    tmp,          \* the slice a goroutine read under the lock
    lock,         \* filesMu: the goroutine holding it, or None
    files,        \* the slice FileCallback builds
    dlErr,        \* dl.Wait() will return an error
    out,          \* contents of the -output-files file, or None
    resultJSON,   \* the -fetch-and-map-result-json file was written
    ret,          \* download: the exit code; outputs: [files, err]; or None
    failures      \* failed calls so far

vars == <<mode, flags, tree, phase, queue, disk, wpc, wfile, tmp, lock,
          files, dlErr, out, resultJSON, ret, failures>>

Names == UNION {t : t \in Trees} \cup {Stale}

CanFail == failures < MaxFailures

Fail == failures' = failures + 1

(* The command picks mode, flags and tree; a task directory may hold what *)
(* an earlier attempt of the caller left.                                 *)
Init ==
    /\ mode \in {"download", "outputs"}
    /\ flags \in Flags
    /\ tree \in Trees \cup (IF mode = "outputs" THEN {None} ELSE {})
    /\ phase = "parse"
    /\ queue = {}
    /\ disk \in {{}, {Stale}}
    /\ wpc = [j \in Jobs |-> "idle"]
    /\ wfile = [j \in Jobs |-> None]
    /\ tmp = [j \in Jobs |-> <<>>]
    /\ lock = None
    /\ files = <<>>
    /\ dlErr = FALSE
    /\ out = None
    /\ resultJSON = FALSE
    /\ ret = None
    /\ failures = 0

(* downloadRun.Parse: no positional arguments, -isolated given, and the   *)
(* cache policies only with -cache-dir.                                   *)
ParseOK(fl) ==
    /\ ~fl.args
    /\ fl.isolated
    /\ fl.cacheDir \/ ~fl.cacheFlags

(* The command ends with exit code 1.                                     *)
Exit1 ==
    /\ phase' = "exit"
    /\ ret' = 1

(* Run: Parse (commonFlags.Parse may fail too), then StartTracing.         *)
Parse ==
    /\ mode = "download" /\ phase = "parse"
    /\ \/ ~ParseOK(flags) /\ Exit1 /\ UNCHANGED failures
       \/ ParseOK(flags) /\ CanFail /\ Fail /\ Exit1
       \/ ParseOK(flags) /\ phase' = "setup" /\ UNCHANGED <<ret, failures>>
    /\ UNCHANGED <<mode, flags, tree, queue, disk, wpc, wfile, tmp, lock,
                   files, dlErr, out, resultJSON>>

(* main up to downloader.New: the auth client, with -cache-dir the cache  *)
(* directory and cache.NewDisk, the output directory; any may fail.       *)
Setup ==
    /\ mode = "download" /\ phase = "setup"
    /\ \/ CanFail /\ Fail /\ Exit1 /\ UNCHANGED queue
       \/ phase' = "fetch" /\ queue' = tree /\ UNCHANGED <<ret, failures>>
    /\ UNCHANGED <<mode, flags, tree, disk, wpc, wfile, tmp, lock,
                   files, dlErr, out, resultJSON>>

(* Mutant: the task directory is reused (MkdirAll) instead of removed.    *)
PrepareDirKeep(d) == d

(* os.RemoveAll then os.Mkdir: the task directory starts empty.           *)
PrepareDir(d) == {}

(* GetTaskOutputs up to downloader.New: RemoveAll and Mkdir may fail; a   *)
(* nil FilesRef returns no files and no error.                            *)
StartOutputs ==
    /\ mode = "outputs" /\ phase = "parse"
    /\ \/ /\ CanFail /\ Fail
          /\ phase' = "exit" /\ ret' = [files |-> <<>>, err |-> TRUE]
          /\ UNCHANGED <<disk, queue>>
       \/ /\ disk' = PrepareDir(disk)
          /\ \/ tree = None /\ phase' = "exit" /\ ret' = [files |-> <<>>, err |-> FALSE]
                /\ UNCHANGED queue
             \/ tree # None /\ phase' = "fetch" /\ queue' = tree /\ UNCHANGED ret
          /\ UNCHANGED failures
    /\ UNCHANGED <<mode, flags, tree, wpc, wfile, tmp, lock, files, dlErr,
                   out, resultJSON>>

(* A downloader goroutine fetches a file: it writes it to the directory   *)
(* and calls FileCallback, or the fetch fails and Wait will fail.         *)
Fetch(j) ==
    /\ phase = "fetch" /\ wpc[j] = "idle"
    /\ \E f \in queue :
          /\ queue' = queue \ {f}
          /\ \/ /\ disk' = disk \cup {f}
                /\ wpc' = [wpc EXCEPT ![j] = "lock"]
                /\ wfile' = [wfile EXCEPT ![j] = f]
                /\ UNCHANGED <<dlErr, failures>>
             \/ CanFail /\ Fail /\ dlErr' = TRUE /\ UNCHANGED <<disk, wpc, wfile>>
    /\ UNCHANGED <<mode, flags, tree, phase, tmp, lock, files, out,
                   resultJSON, ret>>

(* Ctrl-C: the context is cancelled, the files not fetched are dropped.   *)
Interrupt ==
    /\ phase = "fetch" /\ queue # {} /\ CanFail /\ Fail
    /\ queue' = {}
    /\ dlErr' = TRUE
    /\ UNCHANGED <<mode, flags, tree, phase, disk, wpc, wfile, tmp, lock,
                   files, out, resultJSON, ret>>

(* Mutant: filesMu.Lock() does not exclude the other goroutines.          *)
LockTakenAnyway(j) ==
    /\ wpc[j] = "lock"
    /\ lock' = j
    /\ wpc' = [wpc EXCEPT ![j] = "append"]

(* FileCallback: filesMu.Lock().                                          *)
Lock(j) ==
    /\ wpc[j] = "lock" /\ lock = None
    /\ lock' = j
    /\ wpc' = [wpc EXCEPT ![j] = "append"]

TakeLock(j) ==
    /\ Lock(j)
    /\ UNCHANGED <<mode, flags, tree, phase, queue, disk, wfile, tmp, files,
                   dlErr, out, resultJSON, ret, failures>>

(* FileCallback: `files = append(files, name)` reads the slice ...        *)
ReadFiles(j) ==
    /\ wpc[j] = "append"
    /\ tmp' = [tmp EXCEPT ![j] = files]
    /\ wpc' = [wpc EXCEPT ![j] = "unlock"]
    /\ UNCHANGED <<mode, flags, tree, phase, queue, disk, wfile, lock, files,
                   dlErr, out, resultJSON, ret, failures>>

(* ... stores it with the name appended, and filesMu.Unlock().            *)
WriteFiles(j) ==
    /\ wpc[j] = "unlock"
    /\ files' = Append(tmp[j], wfile[j])
    /\ lock' = IF lock = j THEN None ELSE lock
    /\ wpc' = [wpc EXCEPT ![j] = "idle"]
    /\ wfile' = [wfile EXCEPT ![j] = None]
    /\ UNCHANGED <<mode, flags, tree, phase, queue, disk, tmp, dlErr, out,
                   resultJSON, ret, failures>>

(* Mutant: the caller goes on once every file is taken, not done.         *)
WaitReturnedEarly == queue = {}

(* dl.Wait() returns when every goroutine is done.                        *)
WaitReturned == queue = {} /\ \A j \in Jobs : wpc[j] = "idle"

(* Mutant: the error of dl.Wait() is dropped.                             *)
WaitDoneUnchecked ==
    /\ mode = "download" /\ phase = "fetch" /\ WaitReturned
    /\ phase' = "write" /\ UNCHANGED ret

(* main: a failed dl.Wait() ends the command.                             *)
WaitDone ==
    /\ mode = "download" /\ phase = "fetch" /\ WaitReturned
    /\ IF dlErr THEN Exit1 ELSE phase' = "write" /\ UNCHANGED ret

AfterWait ==
    /\ WaitDone
    /\ UNCHANGED <<mode, flags, tree, queue, disk, wpc, wfile, tmp, lock,
                   files, dlErr, out, resultJSON, failures>>

(* strings.Join(files, "\n"), as a sequence of names and newlines.        *)
RECURSIVE Join(_)
Join(fs) == IF Len(fs) <= 1 THEN fs ELSE <<Head(fs), NL>> \o Join(Tail(fs))

(* Mutant: the newline is added to an empty list too.                     *)
FilesDataAlwaysNL(fs) == Join(fs) \o <<NL>>

(* filesData: the joined names, ending in a newline when there are any.   *)
FilesData(fs) == IF Len(fs) > 0 THEN Join(fs) \o <<NL>> ELSE Join(fs)

(* main: with -output-files, write filesData there.                       *)
WriteOutputFiles ==
    /\ phase = "write"
    /\ \/ ~flags.outputFiles /\ phase' = "results" /\ UNCHANGED <<out, ret, failures>>
       \/ flags.outputFiles /\ CanFail /\ Fail /\ Exit1 /\ UNCHANGED out
       \/ /\ flags.outputFiles
          /\ out' = FilesData(files)
          /\ phase' = "results"
          /\ UNCHANGED <<ret, failures>>
    /\ UNCHANGED <<mode, flags, tree, queue, disk, wpc, wfile, tmp, lock,
                   files, dlErr, resultJSON>>

(* outputResults, and Run's exit code: without -fetch-and-map-result-json *)
(* nothing to do; else GetCacheStats, RootIsolated, json.Marshal and      *)
(* WriteFile, any of which may fail.                                      *)
OutputResults ==
    /\ phase = "results"
    /\ \/ ~flags.resultJSON /\ phase' = "exit" /\ ret' = 0
          /\ UNCHANGED <<resultJSON, failures>>
       \/ flags.resultJSON /\ CanFail /\ Fail /\ Exit1 /\ UNCHANGED resultJSON
       \/ /\ flags.resultJSON
          /\ resultJSON' = TRUE
          /\ phase' = "exit" /\ ret' = 0
          /\ UNCHANGED failures
    /\ UNCHANGED <<mode, flags, tree, queue, disk, wpc, wfile, tmp, lock,
                   files, dlErr, out>>

(* GetTaskOutputs: `return files, dl.Wait()`.  The Go spec leaves open    *)
(* whether files is read before or after the call; the gc compiler reads  *)
(* it after.                                                              *)
ReturnOutputs ==
    /\ mode = "outputs" /\ phase = "fetch" /\ WaitReturned
    /\ phase' = "exit"
    /\ ret' = [files |-> files, err |-> dlErr]
    /\ UNCHANGED <<mode, flags, tree, queue, disk, wpc, wfile, tmp, lock,
                   files, dlErr, out, resultJSON, failures>>

(* The command has returned.                                              *)
Terminating ==
    /\ phase = "exit"
    /\ UNCHANGED vars

Next ==
    \/ Parse \/ Setup \/ StartOutputs \/ Interrupt
    \/ \E j \in Jobs : Fetch(j) \/ TakeLock(j) \/ ReadFiles(j) \/ WriteFiles(j)
    \/ AfterWait \/ WriteOutputFiles \/ OutputResults \/ ReturnOutputs
    \/ Terminating

Spec == Init /\ [][Next]_vars

-----------------------------------------------------------------------------
(* Properties.                                                            *)

(* How a reader of the -output-files file sees it: newline-terminated     *)
(* lines, each a sequence of names (a name is one line when it is alone). *)
RECURSIVE LinesOf(_, _)
LinesOf(s, cur) ==
    IF s = <<>> THEN (IF cur = <<>> THEN <<>> ELSE <<cur>>)
    ELSE IF Head(s) = NL THEN <<cur>> \o LinesOf(Tail(s), <<>>)
    ELSE LinesOf(Tail(s), cur \o <<Head(s)>>)

(* A list names the files of a set exactly once each.                     *)
ListsExactly(lines, fs) ==
    /\ Len(lines) = Cardinality(fs)
    /\ ToSet(lines) = {<<f>> : f \in fs}

(* The file list is complete: however the downloader's goroutines         *)
(* interleave in FileCallback, the -output-files file has one line per    *)
(* file of the tree, and a GetTaskOutputs that returns no error returns   *)
(* every file once and leaves exactly those in the task directory, even   *)
(* one an earlier attempt had left files in.                              *)
FilesListedOnce ==
    /\ out # None => ListsExactly(LinesOf(out, <<>>), tree)
    /\ mode = "outputs" /\ ret # None /\ ~ret.err =>
          LET expected == IF tree = None THEN {} ELSE tree IN
          /\ ListsExactly([i \in DOMAIN ret.files |-> <<ret.files[i]>>], expected)
          /\ disk = expected

(* `isolated download` exits 0 only when the whole tree is on disk and    *)
(* each output its flags ask for was written.                             *)
ExitZeroComplete ==
    mode = "download" /\ ret = 0 =>
        /\ tree \subseteq disk
        /\ flags.outputFiles => out # None
        /\ flags.resultJSON => resultJSON

=============================================================================
