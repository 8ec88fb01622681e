-------------------------- MODULE LoginLockoutProofs --------------------------
(***************************************************************************)
(* Machine-checked proofs about LoginLockout, for any set of keys, any     *)
(* limits and any window: the Map stays bounded and ordered, the limit is  *)
(* exceeded only by sign-ins that were under way, and a key gets a bounded *)
(* number of guesses in any WindowMs.                                      *)
(***************************************************************************)
EXTENDS LoginLockout, FiniteSetTheorems, WellFoundedInduction, TLAPS

-----------------------------------------------------------------------------
(* The inductive invariant, in three layers. *)

\* The counters, which need neither the order of the Map nor the history.
Record == [count : Nat, age : 0..WindowMs]
Counters ==
  /\ attempts \in [Keys -> Record]
  /\ checking \in [Keys -> 0..MaxChecking]

IndInv == Counters /\ OvershootBounded

\* The Map: `o` puts the finite set `keys` one after the other.
Orders(o, keys) ==
  /\ o \subseteq keys \X keys
  /\ \A j, k \in keys : j # k => (<<j, k>> \in o <=> <<k, j>> \notin o)
  /\ \A j \in keys : <<j, j>> \notin o
  /\ \A i, j, k \in keys : <<i, j>> \in o /\ <<j, k>> \in o => <<i, k>> \in o

MapOf(o, keys) ==
  /\ IsFiniteSet(keys) /\ Cardinality(keys) <= MaxTracked
  /\ Orders(o, keys)

MapInv == MapOf(before, TrackedKeys)

\* The history: which failures of a key fall into its current window, if it has
\* one; the numbers of these are distinct, at most the count, and number 1 opened
\* the window.  The earlier ones belong to one earlier window, whose number 1 is
\* more than WindowMs ago.
InWindow(live, record, g) == live /\ g.age <= record.age

HistoryOf(live, record, G) ==
  /\ \A g, h \in G :
       g.number = h.number /\ (InWindow(live, record, g) <=> InWindow(live, record, h)) => g = h
  /\ \A g \in G : InWindow(live, record, g) =>
       g.number <= record.count /\ (g.number = 1 => g.age = record.age)
  /\ \A g \in G : ~InWindow(live, record, g) => g.number # 1 /\ g.age > 0

History ==
  /\ guesses \in [Keys -> SUBSET Guess]
  /\ \A k \in Keys : HistoryOf(k \in Fresh, attempts[k], guesses[k])

-----------------------------------------------------------------------------
(* The counters: every step keeps them. *)

\* Forgetting some records keeps the bound of every key: a key without a record
\* has at most MaxChecking sign-ins under way.
LEMMA ForgettingKeeps ==
  ASSUME IndInv,
         checking' \in [Keys -> 0..MaxChecking],
         attempts' \in [Keys -> Record],
         \A k \in Keys : \/ attempts'[k].count = 0
                         \/ /\ attempts'[k].count = attempts[k].count
                            /\ checking'[k] <= checking[k]
  PROVE  IndInv'
<1> SUFFICES ASSUME NEW k \in Keys
             PROVE  attempts'[k].count + checking'[k] <= MaxAttempts - 1 + MaxChecking
  BY DEF IndInv, Counters, OvershootBounded
<1>1. /\ attempts[k].count \in Nat /\ attempts'[k].count \in Nat
      /\ checking[k] \in 0..MaxChecking /\ checking'[k] \in 0..MaxChecking
      /\ attempts[k].count + checking[k] <= MaxAttempts - 1 + MaxChecking
  BY DEF IndInv, Counters, Record, OvershootBounded
<1> QED
  BY <1>1, LockoutAssumption

LEMMA NoRecordIsRecord == NoRecord \in Record /\ NoRecord.count = 0
BY LockoutAssumption DEF NoRecord, Record

LEMMA AnswerLowers ==
  ASSUME IndInv, NEW k \in Keys, Answer(k)
  PROVE  /\ checking' \in [Keys -> 0..MaxChecking]
         /\ checking[k] > 0 /\ checking'[k] = checking[k] - 1
         /\ \A j \in Keys \ {k} : checking'[j] = checking[j]
BY LockoutAssumption DEF IndInv, Counters, Answer

LEMMA BeginLoginKeeps ==
  ASSUME IndInv, NEW k \in Keys, BeginLogin(k)
  PROVE  IndInv'
<1> USE DEF IndInv
<1>1. CASE Locked(k)
  BY <1>1 DEF BeginLogin, vars, Counters, OvershootBounded
<1>2. CASE ~Locked(k)
  <2>1. /\ checking[k] < MaxChecking
        /\ checking' = [checking EXCEPT ![k] = checking[k] + 1]
    BY <1>2 DEF BeginLogin
  <2>2. /\ checking' \in [Keys -> 0..MaxChecking]
        /\ checking'[k] = checking[k] + 1
        /\ \A j \in Keys \ {k} : checking'[j] = checking[j]
    BY <2>1, LockoutAssumption DEF Counters
  <2>3. \/ /\ attempts' = [attempts EXCEPT ![k] = NoRecord]
        \/ /\ attempts' = attempts
           /\ ~(Tracked(k) /\ IsExpired(k))
    BY <1>2 DEF BeginLogin, Delete
  <2>4. attempts' \in [Keys -> Record]
    BY <2>3, NoRecordIsRecord DEF Counters
  <2>5. attempts'[k].count \in Nat /\ attempts'[k].count <= MaxAttempts - 1
    <3>1. CASE attempts' = [attempts EXCEPT ![k] = NoRecord]
      BY <3>1, NoRecordIsRecord, LockoutAssumption DEF Counters
    <3>2. CASE attempts' = attempts /\ ~(Tracked(k) /\ IsExpired(k))
      <4>1. attempts[k].count \in Nat
        BY DEF Counters, Record
      <4> QED
        BY <1>2, <3>2, <4>1, LockoutAssumption DEF Locked, Tracked
    <3> QED
      BY <2>3, <3>1, <3>2
  <2>6. OvershootBounded'
    <3> SUFFICES ASSUME NEW j \in Keys
                 PROVE  attempts'[j].count + checking'[j] <= MaxAttempts - 1 + MaxChecking
      BY DEF OvershootBounded
    <3>1. CASE j = k
      <4>1. checking'[k] \in 0..MaxChecking
        BY <2>2
      <4> QED
        BY <2>5, <3>1, <4>1, LockoutAssumption
    <3>2. CASE j # k
      <4>1. attempts'[j] = attempts[j] /\ checking'[j] = checking[j]
        BY <2>2, <2>3, <3>2 DEF Counters
      <4> QED
        BY <4>1 DEF OvershootBounded
    <3> QED
      BY <3>1, <3>2
  <2> QED
    BY <2>2, <2>4, <2>6 DEF Counters
<1> QED
  BY <1>1, <1>2

\* A failure moves one sign-in from `checking` to `count`, or starts a window.
LEMMA FailLoginKeeps ==
  ASSUME IndInv, NEW k \in Keys, FailLogin(k)
  PROVE  IndInv'
<1> USE DEF IndInv
<1>1. /\ checking' \in [Keys -> 0..MaxChecking]
      /\ checking[k] > 0 /\ checking'[k] = checking[k] - 1
      /\ \A j \in Keys \ {k} : checking'[j] = checking[j]
  BY AnswerLowers DEF FailLogin
<1>2. PICK gone \in SUBSET Keys :
        attempts' = [j \in Keys |->
          IF j = k THEN IF ~Tracked(k) \/ IsExpired(k)
                        THEN [count |-> 1, age |-> 0]
                        ELSE [attempts[k] EXCEPT !.count = attempts[k].count + 1]
          ELSE IF j \in gone THEN NoRecord ELSE attempts[j]]
  <2> DEFINE kept == IF ~Tracked(k) \/ IsExpired(k) THEN EvictIfCrowded ELSE TrackedKeys
  <2>1. attempts' = [j \in Keys |->
          IF j = k THEN IF ~Tracked(k) \/ IsExpired(k)
                        THEN [count |-> 1, age |-> 0]
                        ELSE [attempts[k] EXCEPT !.count = attempts[k].count + 1]
          ELSE IF j \in Keys \ kept THEN NoRecord ELSE attempts[j]]
    BY DEF FailLogin
  <2> HIDE DEF kept
  <2> QED
    BY <2>1
<1>3. /\ attempts[k].count \in Nat /\ attempts[k] \in Record
      /\ attempts[k].count + checking[k] <= MaxAttempts - 1 + MaxChecking
      /\ checking[k] \in 0..MaxChecking
  BY DEF Counters, Record, OvershootBounded
<1>4. attempts'[k] \in Record
  BY <1>2, <1>3, LockoutAssumption DEF Record
<1>5. \A j \in Keys \ {k} : attempts'[j] = NoRecord \/ attempts'[j] = attempts[j]
  BY <1>2
<1>6. attempts' \in [Keys -> Record]
  <2>1. \A j \in Keys : attempts'[j] \in Record
    BY <1>4, <1>5, NoRecordIsRecord DEF Counters
  <2> QED
    BY <1>2, <2>1
<1>7. attempts'[k].count + checking'[k] <= MaxAttempts - 1 + MaxChecking
  <2>1. attempts'[k].count = 1 \/ attempts'[k].count = attempts[k].count + 1
    BY <1>2, <1>3
  <2> QED
    BY <1>1, <1>3, <2>1, LockoutAssumption
<1>8. OvershootBounded'
  <2> SUFFICES ASSUME NEW j \in Keys, j # k
               PROVE  attempts'[j].count + checking'[j] <= MaxAttempts - 1 + MaxChecking
    BY <1>7 DEF OvershootBounded
  <2>1. checking'[j] \in 0..MaxChecking /\ checking'[j] = checking[j]
    BY <1>1
  <2> QED
    BY <1>5, <2>1, NoRecordIsRecord, LockoutAssumption DEF OvershootBounded
<1> QED
  BY <1>1, <1>6, <1>8 DEF Counters

LEMMA PassLoginKeeps ==
  ASSUME IndInv, NEW k \in Keys, PassLogin(k)
  PROVE  IndInv'
<1>1. attempts' = [attempts EXCEPT ![k] = NoRecord] /\ Answer(k)
  BY DEF PassLogin, Delete
<1>2. attempts' \in [Keys -> Record]
  BY <1>1, NoRecordIsRecord DEF IndInv, Counters
<1>3. attempts'[k].count = 0 /\ \A j \in Keys \ {k} : attempts'[j] = attempts[j]
  BY <1>1, NoRecordIsRecord DEF IndInv, Counters
<1>4. \A j \in Keys \ {k} : checking'[j] <= checking[j]
  BY <1>1, AnswerLowers DEF IndInv, Counters
<1> QED
  BY <1>1, <1>2, <1>3, <1>4, AnswerLowers, ForgettingKeeps

LEMMA DropLoginKeeps ==
  ASSUME IndInv, NEW k \in Keys, DropLogin(k)
  PROVE  IndInv'
<1>1. attempts' = attempts /\ Answer(k)
  BY DEF DropLogin
<1>2. \A j \in Keys : checking'[j] <= checking[j]
  BY <1>1, AnswerLowers DEF IndInv, Counters
<1> QED
  BY <1>1, <1>2, AnswerLowers, ForgettingKeeps DEF IndInv, Counters

LEMMA TickKeeps ==
  ASSUME IndInv, Tick
  PROVE  IndInv'
<1>1. \A k \in Keys : /\ attempts'[k] \in Record
                      /\ attempts'[k].count = attempts[k].count
  BY LockoutAssumption DEF Tick, IndInv, Counters, Record, Tracked, IsExpired
<1>2. attempts' \in [Keys -> Record]
  BY <1>1 DEF Tick
<1>3. checking' = checking /\ \A k \in Keys : checking[k] <= checking[k]
  BY DEF Tick, IndInv, Counters
<1> QED
  BY <1>1, <1>2, <1>3, ForgettingKeeps DEF IndInv, Counters

LEMMA RestartKeeps ==
  ASSUME IndInv, Restart
  PROVE  IndInv'
<1>1. /\ attempts' \in [Keys -> Record]
      /\ \A k \in Keys : attempts'[k].count = 0
  BY NoRecordIsRecord DEF Restart
<1>2. checking' \in [Keys -> 0..MaxChecking]
  BY LockoutAssumption DEF Restart
<1> QED
  BY <1>1, <1>2, ForgettingKeeps

LEMMA NextIndInv == IndInv /\ [Next]_vars => IndInv'
<1> SUFFICES ASSUME IndInv, [Next]_vars PROVE IndInv'
  OBVIOUS
<1>1. CASE UNCHANGED vars
  BY <1>1 DEF vars, IndInv, Counters, OvershootBounded
<1>2. CASE Next
  BY <1>2, BeginLoginKeeps, FailLoginKeeps, PassLoginKeeps, DropLoginKeeps,
     TickKeeps, RestartKeeps DEF Next
<1> QED
  BY <1>1, <1>2

-----------------------------------------------------------------------------
(* The Map: every step keeps its order and its bound. *)

\* Dropping keys keeps the order of the others.
LEMMA SubMap ==
  ASSUME NEW o, NEW keys, MapOf(o, keys), NEW kept \in SUBSET keys
  PROVE  /\ MapOf(o \cap (kept \X kept), kept)
         /\ IsFiniteSet(kept) /\ Cardinality(kept) \in Nat
<1>1. /\ IsFiniteSet(kept) /\ Cardinality(kept) \in Nat
      /\ Cardinality(keys) \in Nat /\ Cardinality(kept) <= Cardinality(keys)
  BY FS_Subset, FS_CardinalityType DEF MapOf
<1>2. Orders(o \cap (kept \X kept), kept)
  BY DEF MapOf, Orders
<1> QED
  BY <1>1, <1>2, LockoutAssumption DEF MapOf

\* Appending a key that is not there, to a Map that has room.
LEMMA AppendedMap ==
  ASSUME NEW o, NEW keys, MapOf(o, keys), NEW k, k \notin keys,
         Cardinality(keys) < MaxTracked
  PROVE  MapOf(o \cup (keys \X {k}), keys \cup {k})
<1>1. /\ IsFiniteSet(keys \cup {k}) /\ Cardinality(keys) \in Nat
      /\ Cardinality(keys \cup {k}) = Cardinality(keys) + 1
  BY FS_AddElement, FS_CardinalityType DEF MapOf
<1>2. Orders(o \cup (keys \X {k}), keys \cup {k})
  BY DEF MapOf, Orders
<1> QED
  BY <1>1, <1>2, LockoutAssumption DEF MapOf

\* Some keys of the Map have a first one: the one with the fewest before it.
LEMMA FirstIsFirst ==
  ASSUME MapInv, NEW keys \in SUBSET TrackedKeys, keys # {}
  PROVE  /\ First(keys) \in keys
         /\ \A j \in keys \ {First(keys)} : <<First(keys), j>> \in before
<1> DEFINE Ahead(k) == {j \in keys : <<j, k>> \in before}
           aheads == {Ahead(k) : k \in keys}
<1>1. IsFiniteSet(keys)
  BY SubMap DEF MapInv
<1>2. aheads \subseteq FiniteSubsetsOf(keys) /\ aheads # {}
  <2>1. \A k \in keys : Ahead(k) \in SUBSET keys /\ IsFiniteSet(Ahead(k))
    BY <1>1, FS_Subset
  <2> QED
    BY <2>1 DEF FiniteSubsetsOf
<1> HIDE DEF aheads
<1>3. \E x \in aheads : \A y \in aheads : <<y, x>> \notin StrictSubsetOrdering(keys)
  BY <1>2, FS_StrictSubsetOrderingWellFounded, WFMin
<1>4. PICK k \in keys : \A j \in keys : <<Ahead(j), Ahead(k)>> \notin StrictSubsetOrdering(keys)
  BY <1>3 DEF aheads
<1>5. \A j \in keys \ {k} : <<k, j>> \in before
  <2> SUFFICES ASSUME NEW j \in keys, j # k, <<k, j>> \notin before
               PROVE  FALSE
    OBVIOUS
  <2>1. <<j, k>> \in before
    BY DEF MapInv, MapOf, Orders
  <2>2. Ahead(j) \subseteq Ahead(k) /\ j \in Ahead(k) /\ j \notin Ahead(j)
    BY <2>1 DEF MapInv, MapOf, Orders
  <2>3. Ahead(j) \in SUBSET keys /\ Ahead(k) \in SUBSET keys
    OBVIOUS
  <2> HIDE DEF Ahead
  <2>4. <<Ahead(j), Ahead(k)>> \in StrictSubsetOrdering(keys)
    BY <2>2, <2>3 DEF StrictSubsetOrdering
  <2> QED
    BY <1>4, <2>4
<1> QED
  BY <1>5 DEF First

\* evictIfCrowded leaves room for one record.
LEMMA EvictionMakesRoom ==
  ASSUME MapInv
  PROVE  /\ EvictIfCrowded \in SUBSET TrackedKeys
         /\ Cardinality(EvictIfCrowded) < MaxTracked
<1>1. Fresh \in SUBSET TrackedKeys
  BY DEF Fresh
<1>2. /\ IsFiniteSet(TrackedKeys) /\ Cardinality(TrackedKeys) \in Nat
      /\ IsFiniteSet(Fresh) /\ Cardinality(Fresh) \in Nat
      /\ Cardinality(Fresh) <= Cardinality(TrackedKeys)
      /\ Cardinality(TrackedKeys) <= MaxTracked
  BY <1>1, SubMap, FS_Subset, FS_CardinalityType DEF MapInv, MapOf
<1>3. CASE Cardinality(TrackedKeys) >= MaxTracked /\ Cardinality(Fresh) >= MaxTracked
  <2>1. Fresh # {}
    BY <1>2, <1>3, FS_EmptySet, LockoutAssumption
  <2>2. First(Fresh) \in Fresh
    BY <1>1, <2>1, FirstIsFirst
  <2>3. Cardinality(Fresh \ {First(Fresh)}) = Cardinality(Fresh) - 1
    BY <1>2, <2>2, FS_RemoveElement
  <2>4. EvictIfCrowded = Fresh \ {First(Fresh)}
    BY <1>2, <1>3, LockoutAssumption DEF EvictIfCrowded
  <2> QED
    BY <1>1, <1>2, <2>3, <2>4, LockoutAssumption
<1> QED
  BY <1>1, <1>2, <1>3, LockoutAssumption DEF EvictIfCrowded

LEMMA DeleteKeepsMap ==
  ASSUME Counters, MapInv, NEW k \in Keys, Delete(k)
  PROVE  MapInv' /\ TrackedKeys' = TrackedKeys \ {k}
<1>1. TrackedKeys' = TrackedKeys \ {k}
  BY NoRecordIsRecord DEF Delete, TrackedKeys, Tracked, Counters
<1>2. before' = before \cap ((TrackedKeys \ {k}) \X (TrackedKeys \ {k}))
  BY DEF Delete, Among, MapInv, MapOf, Orders, TrackedKeys
<1>3. MapOf(before', TrackedKeys \ {k})
  BY <1>2, SubMap DEF MapInv
<1> QED
  BY <1>1, <1>3 DEF MapInv

LEMMA SameRecordsKeepMap ==
  ASSUME MapInv, TrackedKeys' = TrackedKeys, before' = before
  PROVE  MapInv'
BY DEF MapInv

LEMMA FailLoginKeepsMap ==
  ASSUME Counters, MapInv, NEW k \in Keys, FailLogin(k)
  PROVE  MapInv'
<1> DEFINE kept == IF ~Tracked(k) \/ IsExpired(k) THEN EvictIfCrowded ELSE TrackedKeys
<1>1. kept \in SUBSET TrackedKeys
  BY EvictionMakesRoom
<1>2. k \in kept \/ Cardinality(kept) < MaxTracked
  BY EvictionMakesRoom DEF TrackedKeys
<1>3. before' = (before \cap (kept \X kept)) \cup (IF k \in kept THEN {} ELSE kept \X {k})
  BY DEF FailLogin, Put, Among
<1>4. TrackedKeys' = kept \cup {k}
  <2>1. \A j \in Keys \ {k} : attempts'[j] = IF j \in kept THEN attempts[j] ELSE NoRecord
    BY DEF FailLogin
  <2>2. attempts'[k].count > 0
    <3>1. attempts[k] \in Record
      BY DEF Counters
    <3> QED
      BY <3>1 DEF FailLogin, Tracked, Record
  <2> HIDE DEF kept
  <2>3. \A j \in Keys \ {k} : attempts'[j].count > 0 <=> j \in kept
    BY <1>1, <2>1, NoRecordIsRecord DEF TrackedKeys, Tracked
  <2>4. kept \subseteq Keys
    BY <1>1 DEF TrackedKeys
  <2> QED
    BY <2>2, <2>3, <2>4 DEF TrackedKeys, Tracked
<1> HIDE DEF kept
<1>5. MapOf(before \cap (kept \X kept), kept)
  BY <1>1, SubMap DEF MapInv
<1>6. MapOf(before', kept \cup {k})
  <2>1. CASE k \in kept
    <3>1. kept \cup {k} = kept /\ before' = before \cap (kept \X kept)
      BY <1>3, <2>1
    <3> QED
      BY <1>5, <3>1
  <2>2. CASE k \notin kept
    BY <1>2, <1>3, <1>5, <2>2, AppendedMap
  <2> QED
    BY <2>1, <2>2
<1> QED
  BY <1>4, <1>6 DEF MapInv

LEMMA TickKeepsMap ==
  ASSUME Counters, MapInv, Tick
  PROVE  MapInv'
<1>1. \A k \in Keys : attempts'[k].count = attempts[k].count
  BY DEF Tick, Counters, Record
<1>2. TrackedKeys' = TrackedKeys /\ before' = before
  BY <1>1 DEF Tick, TrackedKeys, Tracked
<1> QED
  BY <1>2, SameRecordsKeepMap

LEMMA NothingTracked == MapOf({}, {})
BY FS_EmptySet, LockoutAssumption DEF MapOf, Orders

LEMMA NextMapInv == Counters /\ MapInv /\ [Next]_vars => MapInv'
<1> SUFFICES ASSUME Counters, MapInv, [Next]_vars PROVE MapInv'
  OBVIOUS
<1>1. ASSUME attempts' = attempts, before' = before PROVE MapInv'
  BY <1>1, SameRecordsKeepMap DEF TrackedKeys, Tracked
<1>2. CASE UNCHANGED vars
  BY <1>1, <1>2 DEF vars
<1>3. ASSUME NEW k \in Keys, BeginLogin(k) PROVE MapInv'
  BY <1>1, <1>3, DeleteKeepsMap DEF BeginLogin, vars
<1>4. ASSUME NEW k \in Keys, PassLogin(k) PROVE MapInv'
  BY <1>4, DeleteKeepsMap DEF PassLogin
<1>5. ASSUME NEW k \in Keys, DropLogin(k) PROVE MapInv'
  BY <1>1, <1>5 DEF DropLogin
<1>6. CASE Restart
  <2>1. TrackedKeys' = {} /\ before' = {}
    BY <1>6, NoRecordIsRecord DEF Restart, TrackedKeys, Tracked
  <2> QED
    BY <2>1, NothingTracked DEF MapInv
<1> QED
  BY <1>2, <1>3, <1>4, <1>5, <1>6, FailLoginKeepsMap, TickKeepsMap DEF Next

-----------------------------------------------------------------------------
(* The history: every step keeps it. *)

\* Only a window that is open matters: without one, the record does not.
LEMMA ClosedHistory ==
  ASSUME NEW r, NEW q, NEW G, HistoryOf(FALSE, r, G)
  PROVE  HistoryOf(FALSE, q, G)
BY DEF HistoryOf, InWindow

LEMMA NoHistory ==
  ASSUME NEW live, NEW r PROVE HistoryOf(live, r, {})
BY DEF HistoryOf

\* The first failure of a window: everything before it is older than the window.
LEMMA OpeningGuess ==
  ASSUME NEW r, NEW G \in SUBSET Guess, HistoryOf(FALSE, r, G)
  PROVE  /\ HistoryOf(TRUE, [count |-> 1, age |-> 0], G \cup {[age |-> 0, number |-> 1]})
         /\ [age |-> 0, number |-> 1] \notin G
<1> DEFINE record == [count |-> 1, age |-> 0]
           new == [age |-> 0, number |-> 1]
<1>1. \A g \in G : g.age > 0 /\ g.age \in Int /\ g.number # 1
  BY LockoutAssumption DEF HistoryOf, InWindow, Guess
<1>2. /\ \A g \in G : ~InWindow(TRUE, record, g)
      /\ InWindow(TRUE, record, new)
  BY <1>1 DEF InWindow
<1>3. \A g, h \in G : g.number = h.number => g = h
  BY DEF HistoryOf, InWindow
<1>4. HistoryOf(TRUE, record, G \cup {new})
  BY <1>1, <1>2, <1>3 DEF HistoryOf, InWindow
<1> QED
  BY <1>1, <1>4

\* A further failure of a window gets the next number.
LEMMA FurtherGuess ==
  ASSUME NEW r \in Record, r.count > 0, NEW q \in Record,
         q.count = r.count + 1, q.age = r.age,
         NEW G \in SUBSET Guess, HistoryOf(TRUE, r, G)
  PROVE  /\ HistoryOf(TRUE, q, G \cup {[age |-> 0, number |-> q.count]})
         /\ [age |-> 0, number |-> q.count] \notin G
<1> DEFINE new == [age |-> 0, number |-> q.count]
<1>1. /\ r.count \in Nat /\ r.age \in Nat /\ q.count # 1
      /\ \A g \in G : g.number \in Int /\ g.age \in Int
  BY LockoutAssumption DEF Record, Guess
<1>2. /\ \A g : InWindow(TRUE, q, g) <=> InWindow(TRUE, r, g)
      /\ InWindow(TRUE, r, new)
  BY <1>1 DEF InWindow
<1>3. \A g \in G : InWindow(TRUE, r, g) => g.number <= r.count /\ g.number # q.count
  BY <1>1 DEF HistoryOf, InWindow
<1>4. new \notin G
  BY <1>2, <1>3
<1>5. \A g, h \in G \cup {new} :
        g.number = h.number /\ (InWindow(TRUE, q, g) <=> InWindow(TRUE, q, h)) => g = h
  <2> SUFFICES ASSUME NEW g \in G \cup {new}, NEW h \in G \cup {new}, g.number = h.number,
                      InWindow(TRUE, q, g) <=> InWindow(TRUE, q, h)
               PROVE  g = h
    OBVIOUS
  <2>1. InWindow(TRUE, r, g) <=> InWindow(TRUE, r, h)
    BY DEF InWindow
  <2>2. CASE g \in G /\ h \in G
    BY <2>1, <2>2 DEF HistoryOf
  <2>3. \A x \in G : x.number = q.count => ~InWindow(TRUE, r, x)
    BY <1>3
  <2>4. new.number = q.count
    OBVIOUS
  <2> HIDE DEF new
  <2>5. CASE g = new /\ h \in G
    BY <1>2, <2>1, <2>3, <2>4, <2>5
  <2>6. CASE g \in G /\ h = new
    BY <1>2, <2>1, <2>3, <2>4, <2>6
  <2> QED
    BY <2>2, <2>5, <2>6
<1>6. \A g \in G \cup {new} : InWindow(TRUE, q, g) =>
        g.number <= q.count /\ (g.number = 1 => g.age = q.age)
  BY <1>1, <1>2, <1>3 DEF HistoryOf, InWindow
<1>7. \A g \in G \cup {new} : ~InWindow(TRUE, q, g) => g.number # 1 /\ g.age > 0
  BY <1>2 DEF HistoryOf
<1> QED
  BY <1>4, <1>5, <1>6, <1>7 DEF HistoryOf

\* What Tick makes of some guesses.
ATickLater(G) == {[g EXCEPT !.age = @ + 1] : g \in {h \in G : h.age + 1 < WindowMs}}

\* A tick: every guess gets older, those of WindowMs ago are forgotten, and the
\* window either gets older too or closes, and then only its own guesses are left.
LEMMA OlderHistory ==
  ASSUME NEW r \in Record, NEW q \in Record, NEW live \in BOOLEAN, NEW still \in BOOLEAN,
         NEW G \in SUBSET Guess, HistoryOf(live, r, G),
         live => r.age < WindowMs /\ q.age = r.age + 1 /\ q.count = r.count,
         still <=> live /\ q.age < WindowMs
  PROVE  ATickLater(G) \in SUBSET Guess /\ HistoryOf(still, q, ATickLater(G))
<1> DEFINE Older(g) == [g EXCEPT !.age = @ + 1]
           G1 == {h \in G : h.age + 1 < WindowMs}
           H == {Older(g) : g \in G1}
<1>1. /\ WindowMs \in Nat /\ r.age \in Nat /\ r.count \in Nat
      /\ q.age \in Nat /\ q.count \in Nat
  BY LockoutAssumption DEF Record
<1>2. \A g \in G1 : /\ g \in G /\ g \in Guess /\ g.age \in Nat /\ g.age + 1 < WindowMs
                   /\ Older(g).age = g.age + 1 /\ Older(g).number = g.number
                   /\ Older(g) \in Guess
  <2> SUFFICES ASSUME NEW g \in Guess, g.age + 1 < WindowMs
               PROVE  /\ g.age \in Nat /\ Older(g).age = g.age + 1
                      /\ Older(g).number = g.number /\ Older(g) \in Guess
    OBVIOUS
  <2> QED
    BY LockoutAssumption DEF Guess
<1> HIDE DEF Older
<1>3. \A g \in G1 : still => (InWindow(still, q, Older(g)) <=> InWindow(live, r, g))
  BY <1>1, <1>2 DEF InWindow
<1>4. \A g \in G1 : ~still => ~InWindow(still, q, Older(g))
  BY DEF InWindow
<1>5. ASSUME live, ~still, NEW g \in G1
      PROVE  InWindow(live, r, g) /\ g.age < r.age /\ g.number # 1
  <2>1. r.age + 1 >= WindowMs
    BY <1>1, <1>5
  <2>2. InWindow(live, r, g) /\ g.age < r.age
    BY <1>1, <1>2, <1>5, <2>1 DEF InWindow
  <2> QED
    BY <1>1, <1>2, <2>2 DEF HistoryOf
<1>6. \A g, h \in G1 :
        /\ Older(g).number = Older(h).number
        /\ InWindow(still, q, Older(g)) <=> InWindow(still, q, Older(h))
        => Older(g) = Older(h)
  <2> SUFFICES ASSUME NEW g \in G1, NEW h \in G1, g.number = h.number,
                      InWindow(still, q, Older(g)) <=> InWindow(still, q, Older(h))
               PROVE  g = h
    BY <1>2
  <2>1. InWindow(live, r, g) <=> InWindow(live, r, h)
    <3>1. CASE still
      BY <1>3, <3>1
    <3>2. CASE ~still /\ live
      BY <1>5, <3>2
    <3>3. CASE ~live
      BY <3>3 DEF InWindow
    <3> QED
      BY <3>1, <3>2, <3>3
  <2> QED
    BY <1>2, <2>1 DEF HistoryOf
<1>7. \A g \in G1 : InWindow(still, q, Older(g)) =>
        Older(g).number <= q.count /\ (Older(g).number = 1 => Older(g).age = q.age)
  BY <1>1, <1>2, <1>3, <1>4 DEF HistoryOf
<1>8. \A g \in G1 : ~InWindow(still, q, Older(g)) => Older(g).number # 1 /\ Older(g).age > 0
  <2> SUFFICES ASSUME NEW g \in G1, ~InWindow(still, q, Older(g)) PROVE g.number # 1
    BY <1>2
  <2>1. CASE live /\ ~still
    BY <1>5, <2>1
  <2>2. CASE still \/ ~live
    BY <1>2, <1>3, <2>2 DEF HistoryOf, InWindow
  <2> QED
    BY <2>1, <2>2
<1>9. H \in SUBSET Guess
  BY <1>2
<1>10. HistoryOf(still, q, H)
  <2> SUFFICES
        /\ \A x, y \in H :
             x.number = y.number /\ (InWindow(still, q, x) <=> InWindow(still, q, y)) => x = y
        /\ \A x \in H : InWindow(still, q, x) =>
             x.number <= q.count /\ (x.number = 1 => x.age = q.age)
        /\ \A x \in H : ~InWindow(still, q, x) => x.number # 1 /\ x.age > 0
    BY DEF HistoryOf
  <2> QED
    BY <1>6, <1>7, <1>8
<1> QED
  BY <1>9, <1>10 DEF Older, ATickLater

\* What a failure leaves of the keys that did not fail.
LEMMA FailLoginElsewhere ==
  ASSUME Counters, NEW k \in Keys, FailLogin(k), NEW j \in Keys, j # k
  PROVE  \/ guesses'[j] = {}
         \/ guesses'[j] = guesses[j] /\ attempts'[j] = attempts[j]
         \/ guesses'[j] = guesses[j] /\ j \notin Fresh /\ j \notin Fresh'
<1> DEFINE kept == IF ~Tracked(k) \/ IsExpired(k) THEN EvictIfCrowded ELSE TrackedKeys
<1>1. /\ attempts'[j] = IF j \in kept THEN attempts[j] ELSE NoRecord
      /\ guesses'[j] = IF j \in Fresh \ kept THEN {} ELSE guesses[j]
  BY DEF FailLogin
<1> HIDE DEF kept
<1>2. attempts'[j] = NoRecord => j \notin Fresh'
  BY NoRecordIsRecord DEF Fresh, TrackedKeys, Tracked
<1> QED
  BY <1>1, <1>2

\* The guess FailLogin records, and that it is a new one.
LEMMA FailLoginRecords ==
  ASSUME IndInv, History, NEW k \in Keys, FailLogin(k)
  PROVE  /\ HistoryOf((k \in Fresh)', attempts'[k], guesses'[k])
         /\ \E g \in Guess : g \notin guesses[k] /\ guesses'[k] = guesses[k] \cup {g}
<1> DEFINE record == IF ~Tracked(k) \/ IsExpired(k) THEN [count |-> 1, age |-> 0]
                     ELSE [attempts[k] EXCEPT !.count = attempts[k].count + 1]
           g == [age |-> 0, number |-> record.count]
<1>1. /\ attempts[k] \in Record /\ guesses[k] \in SUBSET Guess
      /\ HistoryOf(k \in Fresh, attempts[k], guesses[k])
  BY DEF IndInv, Counters, History
<1>2. attempts'[k] = record /\ guesses'[k] = guesses[k] \cup {g}
  BY DEF FailLogin
<1>3. record \in Record /\ record.count <= MaxAttempts + MaxChecking - 1 /\ record.count > 0
  <2>1. IndInv'
    BY FailLoginKeeps
  <2>2. /\ attempts'[k] \in Record /\ checking'[k] \in 0..MaxChecking
        /\ attempts'[k].count + checking'[k] <= MaxAttempts - 1 + MaxChecking
    BY <2>1 DEF IndInv, Counters, OvershootBounded
  <2>3. record.count > 0
    BY <1>1 DEF Record, Tracked
  <2> HIDE DEF record
  <2> QED
    BY <1>2, <2>2, <2>3, LockoutAssumption DEF Record
<1>4. g \in Guess
  <2> HIDE DEF record
  <2> QED
    BY <1>3, LockoutAssumption DEF Guess, Record
<1>5. CASE k \in Fresh
  <2>1. Tracked(k) /\ ~IsExpired(k) /\ attempts[k].count > 0
    BY <1>5 DEF Fresh, TrackedKeys, Tracked
  <2>2. record.count = attempts[k].count + 1 /\ record.age = attempts[k].age
    BY <1>1, <2>1 DEF Record
  <2>3. k \in Fresh'
    BY <1>2, <1>3, <2>1, <2>2 DEF Fresh, TrackedKeys, Tracked, IsExpired
  <2> HIDE DEF record
  <2>4. /\ HistoryOf(TRUE, record, guesses[k] \cup {g})
        /\ g \notin guesses[k]
    BY <1>1, <1>3, <1>5, <2>1, <2>2, FurtherGuess
  <2> HIDE DEF g
  <2> QED
    BY <1>2, <1>4, <2>3, <2>4
<1>6. CASE k \notin Fresh
  <2>1. record = [count |-> 1, age |-> 0]
    BY <1>6 DEF Fresh, TrackedKeys
  <2>2. k \in Fresh'
    <3>1. attempts'[k].count = 1 /\ attempts'[k].age = 0
      BY <1>2, <2>1
    <3> QED
      BY <3>1, LockoutAssumption DEF Fresh, TrackedKeys, Tracked, IsExpired
  <2>3. HistoryOf(FALSE, attempts[k], guesses[k])
    <3>1. (k \in Fresh) = FALSE
      BY <1>6
    <3> QED
      BY <1>1, <3>1
  <2> HIDE DEF record
  <2>4. /\ HistoryOf(TRUE, record, guesses[k] \cup {g})
        /\ g \notin guesses[k]
    BY <1>1, <2>1, <2>3, OpeningGuess
  <2> HIDE DEF g
  <2> QED
    BY <1>2, <1>4, <2>2, <2>4
<1> QED
  BY <1>5, <1>6

LEMMA FailLoginKeepsHistory ==
  ASSUME IndInv, History, NEW k \in Keys, FailLogin(k)
  PROVE  History'
<1>1. ASSUME NEW j \in Keys
      PROVE  guesses'[j] \in SUBSET Guess /\ HistoryOf((j \in Fresh)', attempts'[j], guesses'[j])
  <2>1. guesses[j] \in SUBSET Guess /\ HistoryOf(j \in Fresh, attempts[j], guesses[j])
    BY DEF History
  <2>2. CASE j = k
    BY <2>1, <2>2, FailLoginRecords
  <2>3. CASE j # k /\ guesses'[j] = {}
    BY <2>3, NoHistory
  <2>4. CASE guesses'[j] = guesses[j] /\ attempts'[j] = attempts[j]
    <3>1. (j \in Fresh)' = (j \in Fresh)
      BY <2>4 DEF Fresh, TrackedKeys, Tracked, IsExpired
    <3> QED
      BY <2>1, <2>4, <3>1
  <2>5. CASE guesses'[j] = guesses[j] /\ j \notin Fresh /\ j \notin Fresh'
    <3>1. (j \in Fresh) = FALSE /\ (j \in Fresh') = FALSE
      BY <2>5
    <3>2. HistoryOf(FALSE, attempts'[j], guesses[j])
      BY <2>1, <3>1, ClosedHistory
    <3> QED
      BY <2>1, <2>5, <3>1, <3>2
  <2> QED
    BY <2>2, <2>3, <2>4, <2>5, FailLoginElsewhere DEF IndInv
<1>2. guesses' = [j \in Keys |-> guesses'[j]]
  BY DEF FailLogin
<1> QED
  BY <1>1, <1>2 DEF History

\* Deleting an expired record, or one with its history, leaves the history right.
LEMMA DeleteKeepsHistory ==
  ASSUME IndInv, History, NEW k \in Keys, Delete(k),
         \/ guesses' = guesses /\ k \notin Fresh
         \/ guesses' = [guesses EXCEPT ![k] = {}]
  PROVE  History'
<1>1. ASSUME NEW j \in Keys
      PROVE  guesses'[j] \in SUBSET Guess /\ HistoryOf((j \in Fresh)', attempts'[j], guesses'[j])
  <2>1. guesses[j] \in SUBSET Guess /\ HistoryOf(j \in Fresh, attempts[j], guesses[j])
    BY DEF History
  <2>2. CASE j # k
    <3>1. guesses'[j] = guesses[j] /\ attempts'[j] = attempts[j]
      BY <2>2 DEF Delete, History, IndInv, Counters
    <3>2. (j \in Fresh)' = (j \in Fresh)
      BY <3>1 DEF Fresh, TrackedKeys, Tracked, IsExpired
    <3> QED
      BY <2>1, <3>1, <3>2
  <2>3. CASE j = k /\ guesses' = [guesses EXCEPT ![k] = {}]
    <3>1. guesses'[j] = {}
      BY <2>3 DEF History
    <3> QED
      BY <3>1, NoHistory
  <2>4. CASE j = k /\ guesses' = guesses /\ k \notin Fresh
    <3>1. attempts'[j] = NoRecord
      BY <2>4 DEF Delete, IndInv, Counters
    <3>2. j \notin Fresh'
      BY <3>1, NoRecordIsRecord DEF Fresh, TrackedKeys, Tracked
    <3>3. (j \in Fresh) = FALSE /\ (j \in Fresh') = FALSE
      BY <2>4, <3>2
    <3>4. HistoryOf(FALSE, attempts'[j], guesses[j])
      BY <2>1, <3>3, ClosedHistory
    <3> QED
      BY <2>1, <2>4, <3>3, <3>4
  <2> QED
    BY <2>2, <2>3, <2>4
<1>2. guesses' \in [Keys -> SUBSET Guess]
  BY <1>1 DEF History
<1> QED
  BY <1>1, <1>2 DEF History

LEMMA TickKeepsHistory ==
  ASSUME IndInv, History, Tick
  PROVE  History'
<1>1. ASSUME NEW k \in Keys
      PROVE  guesses'[k] \in SUBSET Guess /\ HistoryOf((k \in Fresh)', attempts'[k], guesses'[k])
  <2>1. /\ guesses[k] \in SUBSET Guess /\ HistoryOf(k \in Fresh, attempts[k], guesses[k])
        /\ attempts[k] \in Record
    BY DEF History, IndInv, Counters
  <2>2. attempts'[k] \in Record
    BY TickKeeps DEF IndInv, Counters
  <2>3. k \in Fresh => /\ attempts[k].age < WindowMs
                       /\ attempts'[k].age = attempts[k].age + 1
                       /\ attempts'[k].count = attempts[k].count
    BY <2>1, LockoutAssumption DEF Tick, Fresh, TrackedKeys, Tracked, IsExpired, Record
  <2>4. k \notin Fresh => attempts'[k] = attempts[k]
    BY DEF Tick, Fresh, TrackedKeys
  <2>5. (k \in Fresh)' <=> k \in Fresh /\ attempts'[k].age < WindowMs
    BY <2>1, <2>2, <2>3, <2>4, LockoutAssumption
       DEF Fresh, TrackedKeys, Tracked, IsExpired, Record
  <2>6. guesses'[k] = ATickLater(guesses[k])
    BY DEF Tick, ATickLater
  <2>7. (k \in Fresh) \in BOOLEAN /\ (k \in Fresh)' \in BOOLEAN
    OBVIOUS
  <2>8. /\ ATickLater(guesses[k]) \in SUBSET Guess
        /\ HistoryOf((k \in Fresh)', attempts'[k], ATickLater(guesses[k]))
    BY <2>1, <2>2, <2>3, <2>5, <2>7, OlderHistory
  <2> QED
    BY <2>6, <2>8
<1>2. guesses' \in [Keys -> SUBSET Guess]
  BY <1>1 DEF Tick
<1> QED
  BY <1>1, <1>2 DEF History

LEMMA NextHistory == IndInv /\ History /\ [Next]_vars => History'
<1> SUFFICES ASSUME IndInv, History, [Next]_vars PROVE History'
  OBVIOUS
<1>1. ASSUME attempts' = attempts, guesses' = guesses PROVE History'
  <2>1. Fresh' = Fresh
    BY <1>1 DEF Fresh, TrackedKeys, Tracked, IsExpired
  <2> QED
    BY <1>1, <2>1 DEF History
<1>2. CASE UNCHANGED vars
  BY <1>1, <1>2 DEF vars
<1>3. ASSUME NEW k \in Keys, BeginLogin(k) PROVE History'
  <2>1. CASE ~Locked(k) /\ Tracked(k) /\ IsExpired(k)
    BY <1>3, <2>1, DeleteKeepsHistory DEF BeginLogin, Fresh
  <2> QED
    BY <1>1, <1>3, <2>1 DEF BeginLogin, vars
<1>4. ASSUME NEW k \in Keys, PassLogin(k) PROVE History'
  BY <1>4, DeleteKeepsHistory DEF PassLogin
<1>5. ASSUME NEW k \in Keys, DropLogin(k) PROVE History'
  BY <1>1, <1>5 DEF DropLogin
<1>6. CASE Restart
  <2>1. guesses' = [k \in Keys |-> {}]
    BY <1>6 DEF Restart
  <2> QED
    BY <2>1, NoHistory DEF History
<1> QED
  BY <1>2, <1>3, <1>4, <1>5, <1>6, FailLoginKeepsHistory, TickKeepsHistory DEF Next

\* Counting: at most M + C - 1 guesses in the window, and M + C - 2 before it.
LEMMA FewGuesses ==
  ASSUME NEW live, NEW r \in Record, r.count <= MaxAttempts + MaxChecking - 1,
         NEW G \in SUBSET Guess, HistoryOf(live, r, G)
  PROVE  IsFiniteSet(G) /\ Cardinality(G) <= 2 * (MaxAttempts + MaxChecking) - 3
<1> DEFINE N == MaxAttempts + MaxChecking - 1
           In == {g \in G : InWindow(live, r, g)}
           Out == {g \in G : ~InWindow(live, r, g)}
<1>1. N \in Nat \ {0}
  BY LockoutAssumption
<1>2. \A g \in G : g.number \in 1..N
  BY DEF Guess
<1>3. IsFiniteSet(In) /\ Cardinality(In) <= N
  <2> DEFINE f == [g \in In |-> g.number]
  <2>1. f \in Injection(In, 1..N)
    BY <1>2 DEF HistoryOf, Injection, IsInjective
  <2>2. IsFiniteSet(1..N) /\ Cardinality(1..N) = N
    BY <1>1, FS_Interval
  <2> HIDE DEF f, N, In
  <2> QED
    BY <2>1, <2>2, FS_Injection
<1>4. IsFiniteSet(Out) /\ Cardinality(Out) <= N - 1
  <2> DEFINE f == [g \in Out |-> g.number]
  <2>1. \A g \in Out : g.number \in 2..N
    BY <1>1, <1>2 DEF HistoryOf
  <2>2. f \in Injection(Out, 2..N)
    BY <2>1 DEF HistoryOf, Injection, IsInjective
  <2>3. IsFiniteSet(2..N) /\ Cardinality(2..N) = N - 1
    <3> HIDE DEF N
    <3> QED
      BY <1>1, FS_Interval
  <2> HIDE DEF f, N, Out
  <2> QED
    BY <2>2, <2>3, FS_Injection
<1>5. /\ IsFiniteSet(In \cup Out)
      /\ Cardinality(In \cup Out) = Cardinality(In) + Cardinality(Out) - Cardinality(In \cap Out)
      /\ Cardinality(In) \in Nat /\ Cardinality(Out) \in Nat /\ Cardinality(In \cap Out) \in Nat
  <2> HIDE DEF In, Out
  <2>1. IsFiniteSet(In \cap Out)
    BY <1>3, FS_Subset
  <2> QED
    BY <1>3, <1>4, <2>1, FS_Union, FS_CardinalityType
<1>6. G = In \cup Out
  OBVIOUS
<1> HIDE DEF In, Out
<1> QED
  BY <1>1, <1>3, <1>4, <1>5, <1>6, LockoutAssumption

-----------------------------------------------------------------------------
(* The theorems. *)

LEMMA InitInvariants == Init => IndInv /\ MapInv /\ History
<1> SUFFICES ASSUME Init PROVE IndInv /\ MapInv /\ History
  OBVIOUS
<1>1. IndInv
  BY LockoutAssumption, NoRecordIsRecord DEF Init, IndInv, Counters, OvershootBounded
<1>2. MapInv
  <2>1. TrackedKeys = {} /\ before = {}
    BY NoRecordIsRecord DEF Init, TrackedKeys, Tracked
  <2> QED
    BY <2>1, NothingTracked DEF MapInv
<1>3. History
  BY NoHistory DEF Init, History
<1> QED
  BY <1>1, <1>2, <1>3

LEMMA Invariants == Spec => [](IndInv /\ MapInv /\ History)
<1>1. IndInv /\ MapInv /\ History /\ [Next]_vars => (IndInv /\ MapInv /\ History)'
  BY NextIndInv, NextMapInv, NextHistory DEF IndInv
<1> QED
  BY <1>1, InitInvariants, PTL DEF Spec

\* A key exceeds LOGIN_MAX_ATTEMPTS by no more than the sign-ins that were being
\* checked together with the last one that counted, whatever is evicted, expires
\* or succeeds in between.
THEOREM OvershootIsBounded == Spec => []OvershootBounded
<1>1. IndInv => OvershootBounded
  BY DEF IndInv
<1> QED
  BY <1>1, Invariants, PTL

\* The Map never holds more than maxTrackedKeys records, and its insertion order
\* orders exactly the keys that have one, however many sign-ins come and go.
THEOREM MapIsBounded == Spec => []Bounded
<1>1. IndInv /\ MapInv /\ History => Bounded
  <2> SUFFICES ASSUME IndInv, MapInv, History PROVE Bounded
    OBVIOUS
  <2>1. \A k \in Keys : attempts[k] \in
           [count : 0..(MaxAttempts + MaxChecking - 1), age : 0..WindowMs]
    <3> SUFFICES ASSUME NEW k \in Keys
                 PROVE  attempts[k] \in
                          [count : 0..(MaxAttempts + MaxChecking - 1), age : 0..WindowMs]
      OBVIOUS
    <3>1. /\ attempts[k] \in Record /\ checking[k] \in 0..MaxChecking
          /\ attempts[k].count + checking[k] <= MaxAttempts - 1 + MaxChecking
      BY DEF IndInv, Counters, OvershootBounded
    <3>2. attempts[k].count \in 0..(MaxAttempts + MaxChecking - 1)
      BY <3>1, LockoutAssumption DEF Record
    <3> QED
      BY <3>1, <3>2 DEF Record
  <2>2. TypeOK
    BY <2>1 DEF TypeOK, IndInv, Counters, MapInv, MapOf, Orders, History
  <2> QED
    BY <2>2 DEF Bounded, MapInv, MapOf, Orders
<1> QED
  BY <1>1, Invariants, PTL

\* In any WindowMs a key that is not forgiven gets at most this many wrong
\* guesses: those of the window that is open, and those of the one before it
\* without its first.
THEOREM GuessesAreBounded == Spec => []GuessesBounded
<1>1. IndInv /\ History => GuessesBounded
  <2> SUFFICES ASSUME IndInv, History, NEW k \in Keys
               PROVE  Cardinality(guesses[k]) <= 2 * (MaxAttempts + MaxChecking) - 3
    BY DEF GuessesBounded
  <2>1. /\ attempts[k] \in Record /\ checking[k] \in 0..MaxChecking
        /\ attempts[k].count + checking[k] <= MaxAttempts - 1 + MaxChecking
        /\ guesses[k] \in SUBSET Guess
        /\ HistoryOf(k \in Fresh, attempts[k], guesses[k])
    BY DEF IndInv, Counters, OvershootBounded, History
  <2>2. attempts[k].count <= MaxAttempts + MaxChecking - 1
    BY <2>1, LockoutAssumption DEF Record
  <2> QED
    BY <2>1, <2>2, FewGuesses
<1> QED
  BY <1>1, Invariants, PTL

\* Every failure counts: recording it adds one to the guesses of the last WindowMs
\* (it is never mistaken for an earlier one), so that the bound above is about
\* failures and not about their distinct ages and numbers.
THEOREM EveryFailureCounts ==
  Spec => [][\A k \in Keys :
               FailLogin(k) => Cardinality(guesses'[k]) = Cardinality(guesses[k]) + 1]_vars
<1> DEFINE Counts == \A k \in Keys :
             FailLogin(k) => Cardinality(guesses'[k]) = Cardinality(guesses[k]) + 1
<1>1. IndInv /\ History => Counts
  <2> SUFFICES ASSUME IndInv, History, NEW k \in Keys, FailLogin(k)
               PROVE  Cardinality(guesses'[k]) = Cardinality(guesses[k]) + 1
    OBVIOUS
  <2>1. PICK g \in Guess : g \notin guesses[k] /\ guesses'[k] = guesses[k] \cup {g}
    BY FailLoginRecords
  <2>2. /\ attempts[k] \in Record /\ checking[k] \in 0..MaxChecking
        /\ attempts[k].count + checking[k] <= MaxAttempts - 1 + MaxChecking
        /\ guesses[k] \in SUBSET Guess
        /\ HistoryOf(k \in Fresh, attempts[k], guesses[k])
    BY DEF IndInv, Counters, OvershootBounded, History
  <2>3. attempts[k].count <= MaxAttempts + MaxChecking - 1
    BY <2>2, LockoutAssumption DEF Record
  <2>4. IsFiniteSet(guesses[k])
    BY <2>2, <2>3, FewGuesses
  <2> QED
    BY <2>1, <2>4, FS_AddElement
<1> HIDE DEF Counts
<1>2. Spec => [][Counts]_vars
  BY <1>1, Invariants, PTL DEF Spec
<1> QED
  BY <1>2 DEF Counts

\* A record that still counts is only ever evicted by the failure of another key
\* that finds the Map full of such records, and then it is the first of the Map.
THEOREM EvictionNeedsPressure == Spec => EvictsUnderPressure
<1> DEFINE Pressed == \A k \in Keys : Evicted(k) =>
             /\ Cardinality(TrackedKeys) = MaxTracked
             /\ TrackedKeys = Fresh
             /\ \A j \in TrackedKeys : <<j, k>> \notin before
<1>1. IndInv /\ MapInv /\ [Next]_vars => Pressed
  <2> SUFFICES ASSUME IndInv, MapInv, [Next]_vars, NEW k \in Keys, Evicted(k)
               PROVE  /\ Cardinality(TrackedKeys) = MaxTracked
                      /\ TrackedKeys = Fresh
                      /\ \A j \in TrackedKeys : <<j, k>> \notin before
    OBVIOUS
  <2>1. /\ k \in TrackedKeys /\ k \in Fresh /\ Tracked(k) /\ ~IsExpired(k)
        /\ ~Tracked(k)' /\ checking'[k] = checking[k] /\ TrackedKeys' # {}
        /\ attempts[k] \in Record /\ checking[k] \in 0..MaxChecking
    BY DEF Evicted, Fresh, TrackedKeys, IndInv, Counters
  <2>2. attempts' # attempts
    BY <2>1 DEF Tracked
  <2>3. PICK m \in Keys : FailLogin(m)
    <3>1. ~Restart
      BY <2>1, NoRecordIsRecord DEF Restart, TrackedKeys, Tracked
    <3>2. ~Tick
      BY <2>1 DEF Tick, Tracked, IndInv, Counters, Record
    <3>3. ASSUME NEW m \in Keys, Delete(m), m # k PROVE FALSE
      BY <2>1, <3>3 DEF Delete, Tracked, IndInv, Counters
    <3>4. ASSUME NEW m \in Keys, BeginLogin(m) PROVE FALSE
      BY <2>1, <2>2, <3>3, <3>4 DEF BeginLogin, vars
    <3>5. ASSUME NEW m \in Keys, PassLogin(m) PROVE FALSE
      BY <2>1, <3>3, <3>5, AnswerLowers DEF PassLogin
    <3>6. ASSUME NEW m \in Keys, DropLogin(m) PROVE FALSE
      BY <2>2, <3>6 DEF DropLogin
    <3> QED
      BY <2>2, <3>1, <3>2, <3>4, <3>5, <3>6 DEF Next, vars
  <2>4. m # k
    BY <2>1, <2>3, AnswerLowers DEF FailLogin
  <2> DEFINE kept == IF ~Tracked(m) \/ IsExpired(m) THEN EvictIfCrowded ELSE TrackedKeys
  <2>5. attempts'[k] = IF k \in kept THEN attempts[k] ELSE NoRecord
    BY <2>3, <2>4 DEF FailLogin
  <2>6. k \notin kept
    BY <2>1, <2>5 DEF Tracked
  <2>7. Fresh \in SUBSET TrackedKeys
    BY DEF Fresh
  <2>8. /\ IsFiniteSet(TrackedKeys) /\ Cardinality(TrackedKeys) \in Nat
        /\ IsFiniteSet(Fresh) /\ Cardinality(Fresh) \in Nat
        /\ Cardinality(Fresh) <= Cardinality(TrackedKeys)
        /\ Cardinality(Fresh) = Cardinality(TrackedKeys) => Fresh = TrackedKeys
        /\ Cardinality(TrackedKeys) <= MaxTracked
    BY <2>7, SubMap, FS_Subset, FS_CardinalityType DEF MapInv, MapOf
  <2>9. /\ Cardinality(TrackedKeys) >= MaxTracked /\ Cardinality(Fresh) >= MaxTracked
        /\ k = First(Fresh)
    BY <2>1, <2>6, <2>8, LockoutAssumption DEF EvictIfCrowded
  <2>10. Cardinality(TrackedKeys) = MaxTracked /\ TrackedKeys = Fresh
    BY <2>8, <2>9, LockoutAssumption
  <2>11. \A j \in TrackedKeys \ {k} : <<k, j>> \in before
    BY <2>1, <2>7, <2>9, <2>10, FirstIsFirst
  <2>12. \A j \in TrackedKeys : <<j, k>> \notin before
    BY <2>1, <2>11 DEF MapInv, MapOf, Orders
  <2> QED
    BY <2>10, <2>12
<1> HIDE DEF Pressed
<1>2. Spec => [][Pressed]_vars
  BY <1>1, Invariants, PTL DEF Spec
<1> QED
  BY <1>2 DEF Pressed, EvictsUnderPressure

\* A lock only ages: as long as a locked key keeps its record, no attempt starts its
\* window again or lowers its count, and each tick of the clock brings its end nearer.
\* It is what LocksEnd needs besides the clock going on.
THEOREM LocksOnlyAge ==
  Spec => [][\A k \in Keys : Locked(k) /\ Tracked(k)' =>
               /\ attempts'[k].age = IF Tick THEN attempts[k].age + 1 ELSE attempts[k].age
               /\ attempts'[k].count >= attempts[k].count]_vars
<1> DEFINE Ages == \A k \in Keys : Locked(k) /\ Tracked(k)' =>
             /\ attempts'[k].age = IF Tick THEN attempts[k].age + 1 ELSE attempts[k].age
             /\ attempts'[k].count >= attempts[k].count
<1>1. IndInv /\ [Next]_vars => Ages
  <2> SUFFICES ASSUME IndInv, [Next]_vars, NEW k \in Keys, Locked(k), Tracked(k)'
               PROVE  /\ attempts'[k].age = IF Tick THEN attempts[k].age + 1
                                                    ELSE attempts[k].age
                      /\ attempts'[k].count >= attempts[k].count
    OBVIOUS
  <2>1. /\ attempts \in [Keys -> Record] /\ attempts[k] \in Record
        /\ Tracked(k) /\ ~IsExpired(k) /\ attempts'[k].count > 0
    BY DEF Locked, Tracked, IndInv, Counters
  <2>2. CASE Tick
    <3>1. attempts'[k] = [attempts[k] EXCEPT !.age = @ + 1]
      BY <2>1, <2>2 DEF Tick
    <3> QED
      BY <2>1, <2>2, <3>1 DEF Record
  <2>3. ASSUME ~Tick, attempts'[k] = attempts[k]
        PROVE  /\ attempts'[k].age = attempts[k].age
               /\ attempts'[k].count >= attempts[k].count
    BY <2>1, <2>3 DEF Record
  <2>4. ASSUME NEW m \in Keys, Delete(m)
        PROVE  attempts'[k] = attempts[k]
    BY <2>1, <2>4, NoRecordIsRecord DEF Delete
  <2>5. ASSUME NEW m \in Keys, FailLogin(m)
        PROVE  \/ attempts'[k] = attempts[k]
               \/ attempts'[k] = [attempts[k] EXCEPT !.count = @ + 1]
    <3>1. CASE m = k
      BY <2>1, <2>5, <3>1 DEF FailLogin
    <3>2. CASE m # k
      BY <2>1, <2>5, <3>2, NoRecordIsRecord DEF FailLogin
    <3> QED
      BY <3>1, <3>2
  <2>6. ASSUME ~Tick
        PROVE  \/ attempts'[k] = attempts[k]
               \/ attempts'[k] = [attempts[k] EXCEPT !.count = @ + 1]
    <3>1. ~Restart
      BY <2>1, NoRecordIsRecord DEF Restart
    <3>2. ASSUME NEW m \in Keys, BeginLogin(m) PROVE attempts'[k] = attempts[k]
      BY <2>4, <3>2 DEF BeginLogin, vars
    <3> QED
      BY <2>4, <2>5, <2>6, <3>1, <3>2 DEF Next, vars, PassLogin, DropLogin
  <2> QED
    BY <2>1, <2>2, <2>3, <2>6 DEF Record
<1> HIDE DEF Ages
<1>2. Spec => [][Ages]_vars
  BY <1>1, Invariants, PTL DEF Spec
<1> QED
  BY <1>2 DEF Ages
=============================================================================
