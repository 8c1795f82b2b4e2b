----------------------------- MODULE QpsSampler ------------------------------
(***************************************************************************)
(* The trace sampler of the GCE service, qpsSampler.Sampler in            *)
(* src/gce/appengine/model/model.go (package internal).                    *)
(*                                                                         *)
(* Sampler(p) is called concurrently by every traced request.  A request   *)
(* whose parent is sampled is sampled.  Otherwise the goroutine reads the  *)
(* clock, checks under the read lock whether s.next is zero or passed,     *)
(* and if so checks again under the write lock and moves s.next one       *)
(* period past its own clock reading.  The clock is read before either     *)
(* lock: by the time a goroutine holds one, the reading may be old.       *)
(*                                                                         *)
(* A critical section of the RWMutex is one step; the clock reading, the   *)
(* read-locked check and the write-locked check are separate steps.        *)
(* Times are whole ticks; 0 stands for the zero time.Time.                 *)
(***************************************************************************)
EXTENDS Naturals, Sequences

CONSTANTS
    Procs,     \* goroutines calling Sampler
    Period,    \* s.period: time.Second / qps, in ticks
    MaxTime,   \* bound: the last clock value
    MaxCalls   \* bound: Sampler calls made by all goroutines together

ASSUME Period \in Nat /\ MaxTime \in Nat \ {0} /\ MaxCalls \in Nat

Zero == 0

VARIABLES
    clock,     \* time.Now()
    next,      \* s.next
    pc,        \* where each goroutine is in Sampler
    now,       \* the goroutine's local now
    decisions, \* every SamplingDecision returned, in order
    calls      \* Sampler calls so far

vars == <<clock, next, pc, now, decisions, calls>>

Decision == [now : Nat, parent : BOOLEAN, sample : BOOLEAN]

Init ==
    /\ clock = 1
    /\ next = Zero
    /\ pc = [p \in Procs |-> "idle"]
    /\ now = [p \in Procs |-> Zero]
    /\ decisions = <<>>
    /\ calls = 0

(* s.next.IsZero() || now.After(s.next)                                   *)
Due(t) == next = Zero \/ t > next

(* Mutant: the next sample is two periods away.                           *)
NextSampleDoubled(t) == t + 2 * Period

(* now.Add(s.period)                                                      *)
NextSample(t) == t + Period

(* Sampler returns decision sample for goroutine p.                       *)
Return(p, sample) ==
    /\ pc' = [pc EXCEPT ![p] = "idle"]
    /\ decisions' = Append(decisions, [now |-> now[p], parent |-> FALSE,
                                       sample |-> sample])

(* Sampler is entered.  With a sampled parent it returns at once;         *)
(* otherwise it reads the clock.                                          *)
Call(p) ==
    /\ pc[p] = "idle"
    /\ calls < MaxCalls
    /\ calls' = calls + 1
    /\ \/ /\ decisions' = Append(decisions, [now |-> clock, parent |-> TRUE,
                                             sample |-> TRUE])
          /\ UNCHANGED <<pc, now>>
       \/ /\ now' = [now EXCEPT ![p] = clock]
          /\ pc' = [pc EXCEPT ![p] = "rlock"]
          /\ UNCHANGED decisions
    /\ UNCHANGED <<clock, next>>

(* RLock; sample := due; RUnlock.  Not due: return false.                 *)
ReadCheck(p) ==
    /\ pc[p] = "rlock"
    /\ \/ Due(now[p]) /\ pc' = [pc EXCEPT ![p] = "lock"] /\ UNCHANGED decisions
       \/ ~Due(now[p]) /\ Return(p, FALSE)
    /\ UNCHANGED <<clock, next, now, calls>>

(* Mutant: the write lock does not check again (single-checked locking).  *)
WriteCheckNoRecheck(p) ==
    /\ pc[p] = "lock"
    /\ next' = NextSample(now[p])
    /\ Return(p, TRUE)
    /\ UNCHANGED <<clock, now, calls>>

(* Lock; if still due, s.next := now + period; Unlock; return.            *)
WriteCheck(p) ==
    /\ pc[p] = "lock"
    /\ \/ Due(now[p]) /\ next' = NextSample(now[p]) /\ Return(p, TRUE)
       \/ ~Due(now[p]) /\ UNCHANGED next /\ Return(p, FALSE)
    /\ UNCHANGED <<clock, now, calls>>

(* Time passes.                                                           *)
Tick ==
    /\ clock < MaxTime
    /\ clock' = clock + 1
    /\ UNCHANGED <<next, pc, now, decisions, calls>>

(* All calls have been made and have returned.                            *)
Terminating ==
    /\ calls = MaxCalls
    /\ \A p \in Procs : pc[p] = "idle"
    /\ UNCHANGED vars

Next ==
    \/ \E p \in Procs : Call(p) \/ ReadCheck(p) \/ WriteCheck(p)
    \/ Tick
    \/ Terminating

Spec == Init /\ [][Next]_vars

-----------------------------------------------------------------------------
(* Properties.                                                            *)

TypeOK ==
    /\ clock \in 1..MaxTime
    /\ next \in {Zero} \cup 1..MaxTime + Period
    /\ pc \in [Procs -> {"idle", "rlock", "lock"}]
    /\ now \in [Procs -> 0..MaxTime]
    /\ decisions \in Seq(Decision)
    /\ calls \in 0..MaxCalls

Sampled(i) == decisions[i].sample /\ ~decisions[i].parent

(* The rate limit: of the requests without a sampled parent, any two that *)
(* Sampler sampled read clocks more than one period apart, in the order   *)
(* they were sampled, however the goroutines' clock readings, read locks  *)
(* and write locks interleave.                                            *)
SamplesSpaced ==
    \A i, j \in DOMAIN decisions :
        i < j /\ Sampled(i) /\ Sampled(j) =>
            decisions[j].now > decisions[i].now + Period

(* No request is refused for nothing: a request Sampler did not sample   *)
(* read a clock within one period of an earlier sample's clock reading.   *)
UnsampledCovered ==
    \A i \in DOMAIN decisions :
        ~decisions[i].sample =>
            \E j \in 1..i - 1 :
                Sampled(j) /\ decisions[i].now <= decisions[j].now + Period

=============================================================================
