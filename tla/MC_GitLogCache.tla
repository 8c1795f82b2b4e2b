--------------------------- MODULE MC_GitLogCache ---------------------------
(***************************************************************************)
(* A repository for GitLogCache with PageSize 4 standing for 100:         *)
(*                                                                         *)
(*        1 <- 2 <- 3 <----- 5 <- 6 <- 7        5 merges 3 and 4;          *)
(*              \--- 4 <--/                     4 is newer than 3.         *)
(*                                                                         *)
(* The log of 7 is 7 6 5 4, so pointers go to 6 and 5 (distance 1, 2) and  *)
(* stop at the merge 5; the log of 6 (6 5 4 3) gives a pointer to 5 only.  *)
(* Past the merge, log order and parent order part: the log of 5 is        *)
(* 5 4 3 2 but the history of 4 is 4 2 1.  min 0 (default 2) and 4 give *)
(* distance budgets 2 and 0.  The ref main is pushed from 6 to 7 while    *)
(* requests run.  The cache starts with values another Milo version left: *)
(* a reserved last byte under 6, an undecodable log under 4, an empty    *)
(* value under main.                                                      *)
(***************************************************************************)
EXTENDS GitLogCache, TLC

CONSTANTS p1, p2, main

MCProcs == {p1, p2}

MCParents == 1 :> {} @@ 2 :> {1} @@ 3 :> {2} @@ 4 :> {2} @@ 5 :> {3, 4}
             @@ 6 :> {5} @@ 7 :> {6}

MCCommitishes == {main, <<7, "lower">>, <<5, "lower">>, <<4, "lower">>}

(* The same requests, with 7 also spelled in upper case, as a caller      *)
(* passing a hash from a URL may.                                         *)
MCCommitishesUpper == MCCommitishes \cup {<<7, "upper">>}

(* Requests that make the pointer chase run: main (at 6) stores a pointer *)
(* under 5, and 5 follows it.                                             *)
MCCommitishesChase == {main, <<5, "lower">>}

(* Requests while main is pushed from 6 to 7: main, a hash below both    *)
(* targets, and the new target.                                           *)
MCCommitishesPush == {main, <<7, "lower">>, <<5, "lower">>}

MCInitCache ==
    (<<6, "lower">> :> [payload |-> "junk", meta |-> PageSize])
        @@ (<<4, "lower">> :> [payload |-> "junk", meta |-> 0])
        @@ (main :> Empty)
        @@ [k \in Keys |-> Missing]

(* Values another Milo version left that decode as pointers and form a  *)
(* cycle: the entry of 5 names 6 at distance 1 and the entry of 6 names 5. *)
MCInitCacheCycle ==
    (<<5, "lower">> :> PointerValue(6, 1))
        @@ (<<6, "lower">> :> PointerValue(5, 1))
        @@ [k \in Keys |-> Missing]

MCRefInit == main :> 6

Symmetry == Permutations(MCProcs)

(* One change of the repository or the cache per behaviour: an eviction  *)
(* against every request, or a push against two calls (one that reads    *)
(* the ref before it and one after, the stale-ref case).                 *)
OneEnvironmentEvent ==
    /\ evictions + pushes <= 1
    /\ pushes = 1 => calls <= 2
=============================================================================
