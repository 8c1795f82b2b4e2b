---------------------------- MODULE AtomicSampler ----------------------------
(***************************************************************************)
(* What qpsSampler.Sampler promises (src/gce/appengine/model/model.go),   *)
(* as if each call were one atomic step: a request with a sampled parent  *)
(* is sampled; any other request is decided on a clock reading taken no   *)
(* later than the decision, sampled exactly when s.next is zero or has   *)
(* passed that reading, and a sample moves s.next one period past it.     *)
(***************************************************************************)
EXTENDS Naturals, Sequences

CONSTANTS Period, MaxTime

VARIABLES clock, next, decisions

Zero == 0

Init ==
    /\ clock = 1
    /\ next = Zero
    /\ decisions = <<>>

Due(t) == next = Zero \/ t > next

ParentSampled ==
    /\ decisions' = Append(decisions, [now |-> clock, parent |-> TRUE,
                                       sample |-> TRUE])
    /\ UNCHANGED <<clock, next>>

(* One call decided at once on a reading t no later than the clock.      *)
Decide(t) ==
    /\ decisions' = Append(decisions, [now |-> t, parent |-> FALSE,
                                       sample |-> Due(t)])
    /\ next' = IF Due(t) THEN t + Period ELSE next
    /\ UNCHANGED clock

Tick ==
    /\ clock < MaxTime
    /\ clock' = clock + 1
    /\ UNCHANGED <<next, decisions>>

Next == ParentSampled \/ (\E t \in 1..clock : Decide(t)) \/ Tick

Spec == Init /\ [][Next]_<<clock, next, decisions>>
=============================================================================
