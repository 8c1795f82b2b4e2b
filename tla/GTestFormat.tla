----------------------------- MODULE GTestFormat ------------------------------
(***************************************************************************)
(* The GTest launcher format of the ResultDB recorder                     *)
(* (src/resultdb/cmd/recorder/chromium/formats/gtest.go): ConvertFromJSON  *)
(* checks the decoded summary, and ToProtos walks every iteration, its    *)
(* test names in sorted order and each name's runs, turning a run into a  *)
(* TestResult; after the loop it marks the invocation INTERRUPTED if a    *)
(* run was NOTRUN and adds its tags.  One run is one step.                *)
(*                                                                         *)
(* A test name is its regexp structure: \w+ words and the separators       *)
(* "/", "." and "#" between them.  A word is a sequence of pieces, so that *)
(* the "MANUAL_" and "PRE_" prefixes can be trimmed from it.  Go's string *)
(* order on names is NameRank; testPathPrefix, durations, snippets and     *)
(* locations are data no property tells apart and are left out.           *)
(***************************************************************************)
EXTENDS Naturals, Sequences, SequencesExt, TLC

CONSTANTS
    Inputs,     \* the GTestResults to convert
    NameRank,   \* test name -> its position in Go's string order
    None        \* model value: nil

(* prefixes, in the order they are trimmed.                               *)
prefixes == <<"MANUAL_", "PRE_">>

InitInv == [state |-> "ACTIVE", tags |-> {}]

VARIABLES
    input,        \* r: all_tests given, per_iteration_data, global_tags
    phase,        \* "decode", "convert", "ok" or "err"
    it,           \* index of the iteration being converted
    names,        \* the iteration's sorted test names still to convert
    cur,          \* extractGTestParameters of the current name
    runs,         \* the current name's runs still to convert
    interrupted,  \* some run was NOTRUN
    ret,          \* the TestResults built
    inv           \* the invocation: state and tags

vars == <<input, phase, it, names, cur, runs, interrupted, ret, inv>>

Init ==
    /\ input \in Inputs
    /\ phase = "decode"
    /\ it = 0
    /\ names = <<>>
    /\ cur = None
    /\ runs = <<>>
    /\ interrupted = FALSE
    /\ ret = <<>>
    /\ inv = InitInv

(* The regexps, on a name's separators.                                   *)
JavaPath(p) ==      \* ^[\w.]+#[\w]+$
    /\ Len(p.seps) > 0 /\ Last(p.seps) = "#"
    /\ \A i \in 1..Len(p.seps) - 1 : p.seps[i] = "."
TypeParam(p) == p.seps \in {<<"/", "/", ".">>, <<"/", ".">>}    \* typeParamRE
ValueParam(p) == p.seps \in {<<"/", ".", "/">>, <<".", "/">>}   \* valueParamRE
BasePath(p) == p.seps = <<".">>                                  \* basePathRE

(* strings.TrimPrefix                                                     *)
TrimPrefix(w, pre) == IF w # <<>> /\ Head(w) = pre THEN Tail(w) ELSE w

(* One pass of the inner loop: trim each prefix in turn.                  *)
StripOnce(w) == FoldLeft(TrimPrefix, w, prefixes)

(* Mutant: the inner loop runs once.                                      *)
StripPrefixesOnce(w) == StripOnce(w)

(* The outer loop: trim until a pass changes nothing.                     *)
RECURSIVE StripPrefixes(_)
StripPrefixes(w) ==
    IF StripOnce(w) = w THEN w ELSE StripPrefixes(StripOnce(w))

(* extractGTestParameters: the base path "<suite>.<name>" and the params, *)
(* or an error.  A Java name is its own base path, without params.        *)
ExtractGTestParameters(p) ==
    LET w == p.words
        n == Len(p.seps)
        inst == IF n = 3 THEN w[1] ELSE <<>>   \* match[2], "" if absent
        base(suite, name) ==
            [words |-> <<suite, StripPrefixes(name)>>, seps |-> <<".">>]
    IN CASE JavaPath(p) -> [err |-> FALSE, base |-> p, params |-> None]
         [] TypeParam(p) ->
              [err |-> FALSE, base |-> base(w[n - 1], w[n + 1]),
               params |-> [instantiation |-> inst, id |-> w[n]]]
         [] ValueParam(p) ->
              [err |-> FALSE, base |-> base(w[n - 1], w[n]),
               params |-> [instantiation |-> inst, id |-> w[n + 1]]]
         [] BasePath(p) ->
              [err |-> FALSE, base |-> base(w[1], w[2]), params |-> <<>>]
         [] OTHER -> [err |-> TRUE, base |-> None, params |-> None]

(* Mutant: an unknown status converts to STATUS_UNSPECIFIED, no error.   *)
FromGTestStatusLenient(s) ==
    CASE s = "SUCCESS" -> "PASS"
      [] s \in {"FAILURE", "FAILURE_ON_EXIT", "EXCESSIVE_OUTPUT"} -> "FAIL"
      [] s = "TIMEOUT" -> "ABORT"
      [] s = "CRASH" -> "CRASH"
      [] s \in {"SKIPPED", "NOTRUN"} -> "SKIP"
      [] OTHER -> "STATUS_UNSPECIFIED"

(* fromGTestStatus; "" stands for STATUS_UNSPECIFIED with an error.       *)
FromGTestStatus(s) ==
    CASE s = "SUCCESS" -> "PASS"
      [] s \in {"FAILURE", "FAILURE_ON_EXIT", "EXCESSIVE_OUTPUT"} -> "FAIL"
      [] s = "TIMEOUT" -> "ABORT"
      [] s = "CRASH" -> "CRASH"
      [] s \in {"SKIPPED", "NOTRUN"} -> "SKIP"
      [] OTHER -> ""

(* convertTestResult, with the Variant ToProtos sets when there are       *)
(* params.                                                                *)
ConvertTestResult(x, s) ==
    [testPath |-> x.base,
     variant  |-> IF x.params \in {None, <<>>} THEN None ELSE x.params,
     status   |-> FromGTestStatus(s),
     expected |-> FromGTestStatus(s) = "PASS"]

(* ToProtos returns nil and an error.                                     *)
Failed ==
    /\ phase' = "err"
    /\ ret' = <<>>

(* ConvertFromJSON: a summary without all_tests is an error.              *)
Decode ==
    /\ phase = "decode"
    /\ phase' = IF input.allTests THEN "convert" ELSE "err"
    /\ UNCHANGED <<input, it, names, cur, runs, interrupted, ret, inv>>

(* Mutant: interrupted is declared inside the iteration loop.             *)
NextIterationResets ==
    /\ phase = "convert" /\ names = <<>> /\ runs = <<>>
    /\ it < Len(input.iterations)
    /\ it' = it + 1
    /\ names' = SortSeq(SetToSeq(DOMAIN input.iterations[it + 1]),
                        LAMBDA a, b : NameRank[a] < NameRank[b])
    /\ interrupted' = FALSE
    /\ UNCHANGED <<input, phase, cur, runs, ret, inv>>

(* The next iteration: its test names, sort.Strings'ed.                   *)
NextIteration ==
    /\ phase = "convert" /\ names = <<>> /\ runs = <<>>
    /\ it < Len(input.iterations)
    /\ it' = it + 1
    /\ names' = SortSeq(SetToSeq(DOMAIN input.iterations[it + 1]),
                        LAMBDA a, b : NameRank[a] < NameRank[b])
    /\ UNCHANGED <<input, phase, cur, runs, interrupted, ret, inv>>

(* The next name: extractGTestParameters, then its runs.                  *)
NextName ==
    /\ phase = "convert" /\ names # <<>> /\ runs = <<>>
    /\ LET x == ExtractGTestParameters(Head(names)) IN
       \/ x.err /\ Failed /\ UNCHANGED <<names, cur, runs>>
       \/ /\ ~x.err
          /\ cur' = x
          /\ runs' = input.iterations[it][Head(names)]
          /\ names' = Tail(names)
          /\ UNCHANGED <<phase, ret>>
    /\ UNCHANGED <<input, it, interrupted, inv>>

(* Mutant: a NOTRUN run marks the invocation at once.                     *)
ConvertRunEager ==
    /\ phase = "convert" /\ runs # <<>>
    /\ LET s == Head(runs) IN
       \/ FromGTestStatus(s) = "" /\ Failed /\ UNCHANGED <<runs, inv>>
       \/ /\ FromGTestStatus(s) # ""
          /\ ret' = Append(ret, ConvertTestResult(cur, s))
          /\ runs' = Tail(runs)
          /\ inv' = IF s = "NOTRUN" THEN [inv EXCEPT !.state = "INTERRUPTED"]
                                    ELSE inv
          /\ UNCHANGED phase
    /\ UNCHANGED <<input, it, names, cur, interrupted>>

(* One run: convertTestResult, an unknown status failing ToProtos.        *)
ConvertRun ==
    /\ phase = "convert" /\ runs # <<>>
    /\ LET s == Head(runs) IN
       \/ FromGTestStatus(s) = "" /\ Failed /\ UNCHANGED <<runs, interrupted>>
       \/ /\ FromGTestStatus(s) # ""
          /\ ret' = Append(ret, ConvertTestResult(cur, s))
          /\ runs' = Tail(runs)
          /\ interrupted' = (interrupted \/ s = "NOTRUN")
          /\ UNCHANGED phase
    /\ UNCHANGED <<input, it, names, cur, inv>>

(* After the loop: INTERRUPTED, the global tags and the format tag.  The  *)
(* tag list is a set: NormalizeInvocation sorts it and drops duplicates.  *)
Finish ==
    /\ phase = "convert" /\ names = <<>> /\ runs = <<>>
    /\ it = Len(input.iterations)
    /\ inv' = [state |-> IF interrupted THEN "INTERRUPTED" ELSE inv.state,
               tags  |-> inv.tags \cup {<<"orig_format", "gtest">>}
                          \cup {<<"gtest_global_tag", t>> : t \in input.globalTags}]
    /\ phase' = "ok"
    /\ UNCHANGED <<input, it, names, cur, runs, interrupted, ret>>

(* ToProtos has returned.                                                 *)
Done ==
    /\ phase \in {"ok", "err"}
    /\ UNCHANGED vars

Next ==
    Decode \/ NextIteration \/ NextName \/ ConvertRun \/ Finish \/ Done

Spec == Init /\ [][Next]_vars

-----------------------------------------------------------------------------
(* Properties.                                                            *)

TypeOK ==
    /\ input \in Inputs
    /\ phase \in {"decode", "convert", "ok", "err"}
    /\ it \in 0..Len(input.iterations)
    /\ names \in Seq(DOMAIN NameRank)
    /\ runs \in Seq(STRING)
    /\ interrupted \in BOOLEAN
    /\ \A k \in DOMAIN ret :
          /\ ret[k].status \in {"PASS", "FAIL", "ABORT", "CRASH", "SKIP"}
          /\ ret[k].expected = (ret[k].status = "PASS")
    /\ inv.state \in {"ACTIVE", "INTERRUPTED"}

(* "If an error is returned, inv is left unchanged": however far the loop *)
(* got, with whatever NOTRUN runs before the bad name or status, a failed *)
(* ToProtos leaves the invocation as it was.                              *)
InvUnchangedOnError == phase = "err" => inv = InitInv

(* The invocation ends INTERRUPTED exactly when a run of any iteration    *)
(* was NOTRUN.                                                            *)
InterruptedIffNotRun ==
    phase = "ok" =>
        ((inv.state = "INTERRUPTED") <=>
            \E i \in DOMAIN input.iterations :
                \E n \in DOMAIN input.iterations[i] :
                    "NOTRUN" \in ToSet(input.iterations[i][n]))

(* A name with every leading "MANUAL_" and "PRE_" removed.                *)
RECURSIVE Unprefixed(_)
Unprefixed(w) ==
    IF w # <<>> /\ Head(w) \in ToSet(prefixes) THEN Unprefixed(Tail(w)) ELSE w

(* Every result's base path names its test by a word of an input name    *)
(* with all its leading "MANUAL_" and "PRE_" pieces removed, in whatever  *)
(* order and number they came: the fixed-point loop computes Unprefixed.  *)
BasePathsUnprefixed ==
    \A k \in DOMAIN ret :
        ret[k].testPath.seps = <<".">> =>
            \E i \in 1..it : \E n \in DOMAIN input.iterations[i] :
                \E j \in DOMAIN n.words :
                    ret[k].testPath.words[2] = Unprefixed(n.words[j])

=============================================================================
