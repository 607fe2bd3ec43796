--------------------------------- MODULE Whale --------------------------------
(***************************************************************************)
(* The whale matching of threads/Whale.cc: males, females and matchmakers  *)
(* wait until one of each kind has come, and leave in triplets.            *)
(*                                                                         *)
(* Male, Female and Matchmaker are one procedure up to the exchange of the *)
(* three kinds.  Each thread makes one call; a thread that calls again is  *)
(* one more whale.  The lock and the conditions are those of Monitor.      *)
(***************************************************************************)
EXTENDS Monitor, FiniteSets, Functions

Kinds == {"Male", "Female", "Matchmaker"}

CONSTANTS Threads,
          Populations,  \* the kinds the threads may have
          NoKind        \* of a thread that is not a whale

\* What the constants are; ThreadTest assumes it of its own.
WhaleAssumption == /\ IsFiniteSet(Threads)
                   /\ NoThread \notin Threads
                   /\ Priority \in [Threads -> Int]
                   /\ Populations \subseteq [Threads -> Kinds \cup {NoKind}]

whaleLock == "whaleLock"

VARIABLES count,         \* numMales, numFemales, numMM: whales that ever came
          tripletsMade,  \* three for each triplet
          kind,          \* what each thread is
          pc
vars == <<owner, waitList, count, tripletsMade, kind, pc>>

Init == /\ owner = [l \in {whaleLock} |-> NoThread]
        /\ waitList = [k \in Kinds |-> <<>>]  \* maleCV, femaleCV and mmCV
        /\ count = [k \in Kinds |-> 0]
        /\ tripletsMade = 0
        /\ kind \in Populations
        /\ pc = [t \in Threads |-> "out"]

tripletsCounter == tripletsMade \div 3

Go(t, from, to) == /\ pc[t] = from
                   /\ pc' = [pc EXCEPT ![t] = to]
                   /\ UNCHANGED kind

Signal1(list) == IF list = <<>> THEN list ELSE Tail(list)

-------------------------------------------------------------------------------
Come(t) == /\ Go(t, "out", "in")
           /\ Acquire(t, whaleLock)
           /\ UNCHANGED <<count, tripletsMade>>

\* Slips: one partner is enough; a whale that is as many as its partners waits.
UnmatchedByAll(k, n) == \A other \in Kinds \ {k} : n[other] < n[k]
UnmatchedOffByOne(k, n) == \E other \in Kinds \ {k} : n[other] <= n[k]

\* The caller still lacks a partner of another kind.
Unmatched(k, n) == \E other \in Kinds \ {k} : n[other] < n[k]

\* Counted, and not matched: wait for a triplet.
WaitForMatch(t) ==
  /\ count' = [count EXCEPT ![kind[t]] = @ + 1]
  /\ Unmatched(kind[t], count')
  /\ Go(t, "in", "waiting")
  /\ Wait(t, whaleLock, kind[t])
  /\ UNCHANGED tripletsMade

\* Slip: the second Signal is missing.
CompleteSignalsOne(t) ==
  /\ count' = [count EXCEPT ![kind[t]] = @ + 1]
  /\ ~Unmatched(kind[t], count')
  /\ Go(t, "in", "leaving")
  /\ Holds(t, whaleLock)
  /\ LET other == CHOOSE k \in Kinds : k # kind[t]
     IN  waitList' = [waitList EXCEPT ![other] = Signal1(@)]
  /\ tripletsMade' = tripletsMade + 1
  /\ UNCHANGED owner

\* Counted, and the last of a triplet: wake one of each other kind, Done.  Both
\* Signals run under the lock, so no thread can tell them apart.
Complete(t) ==
  /\ count' = [count EXCEPT ![kind[t]] = @ + 1]
  /\ ~Unmatched(kind[t], count')
  /\ Go(t, "in", "leaving")
  /\ Holds(t, whaleLock)
  /\ waitList' = [k \in Kinds |-> IF k = kind[t] THEN waitList[k] ELSE Signal1(waitList[k])]
  /\ tripletsMade' = tripletsMade + 1
  /\ UNCHANGED owner

\* Wait returns: Done.
Matched(t) == /\ Go(t, "waiting", "leaving")
              /\ ReturnFromWait(t, whaleLock, kind[t])
              /\ tripletsMade' = tripletsMade + 1
              /\ UNCHANGED count

Leave(t) == /\ Go(t, "leaving", "gone")
            /\ Release(t, whaleLock)
            /\ UNCHANGED <<count, tripletsMade>>

Step(t) ==
  /\ kind[t] \in Kinds
  /\ \/ Come(t) \/ WaitForMatch(t) \/ Complete(t)
     \/ Matched(t) \/ Leave(t)

Next == \E t \in Threads : Step(t)

Spec == Init /\ [][Next]_vars
-------------------------------------------------------------------------------
\* How many triplets the whales that came make.
Triplets == CHOOSE n \in Range(count) : \A k \in Kinds : n <= count[k]

\* Of each kind as many wait as are too many for a triplet: a whale waits only
\* while a partner is missing, and the Signals of the third partner take one of
\* each other kind off their lists.
SurplusWaits == \A k \in Kinds : Len(waitList[k]) = count[k] - Triplets

\* Only complete triplets are counted, and no whale leaves outside of one.
OnlyTriplets == /\ tripletsCounter <= Triplets
                /\ tripletsMade <= 3 * Triplets
                /\ \A k \in Kinds :
                     Cardinality({t \in Threads : kind[t] = k /\ pc[t] \in {"leaving", "gone"}})
                       <= Triplets

\* Every triplet that can be made is made, its whales leave, and the others wait.
TripletsLeft ==
  LET of(k) == Cardinality({t \in Threads : kind[t] = k})
      possible == CHOOSE n \in {of(k) : k \in Kinds} : \A k \in Kinds : n <= of(k)
  IN  /\ tripletsMade = 3 * possible
      /\ \A k \in Kinds :
           /\ Cardinality({t \in Threads : kind[t] = k /\ pc[t] = "gone"}) = possible
           /\ count[k] = of(k)
===============================================================================
