----------------------------- MODULE LoginLockout -----------------------------
(***************************************************************************)
(* LoginAttemptsService, and AuthService.login as its only caller: failed  *)
(* sign-ins are counted per key, a key being one account on one address.   *)
(*                                                                         *)
(* login asks assertNotLocked, then awaits the database and bcrypt, and    *)
(* only then records a failure or resets the key.  Each of the three calls *)
(* is synchronous; what is in between is `checking`.                       *)
(*                                                                         *)
(* The code reads the clock only as Date.now() - windowStartedAt, so a     *)
(* record keeps that difference, its age, up to WindowMs.                  *)
(***************************************************************************)
EXTENDS Integers, FiniteSets

CONSTANTS
  Keys,        \* what buildKey returns
  MaxAttempts, \* LOGIN_MAX_ATTEMPTS
  WindowMs,    \* LOGIN_LOCKOUT_MS, in ticks of the clock
  MaxTracked,  \* maxTrackedKeys
  MaxChecking  \* bound: sign-ins of one key whose password is being checked

ASSUME LockoutAssumption ==
  /\ MaxAttempts \in Nat \ {0} /\ WindowMs \in Nat \ {0}
  /\ MaxTracked \in Nat \ {0} /\ MaxChecking \in Nat \ {0}

VARIABLES
  attempts, \* the record of each key; a count of 0 is "no record"
  before,   \* the insertion order of the Map: <<j, k>> when j comes before k
  checking, \* how many sign-ins of a key are between check and verdict
  guesses   \* history: a key's failures in the last WindowMs since it was last
            \* forgiven, each with its age and its number in its own window

vars == <<attempts, before, checking, guesses>>

NoRecord == [count |-> 0, age |-> 0]

Tracked(k) == attempts[k].count > 0
TrackedKeys == {k \in Keys : Tracked(k)}
\* Fault: the window closes a tick early.
IsExpiredEarly(k) == attempts[k].age >= WindowMs - 1
IsExpired(k) == attempts[k].age >= WindowMs
\* Fault: > for >= in assertNotLocked.
LockedLate(k) == Tracked(k) /\ ~IsExpired(k) /\ attempts[k].count > MaxAttempts
Locked(k) == Tracked(k) /\ ~IsExpired(k) /\ attempts[k].count >= MaxAttempts

\* The keys whose records still count, and the first of some keys in the Map.
Fresh == {k \in TrackedKeys : ~IsExpired(k)}
First(keys) == CHOOSE k \in keys : \A j \in keys \ {k} : <<k, j>> \in before

Guess == [age : 0..(WindowMs - 1), number : 1..(MaxAttempts + MaxChecking - 1)]

TypeOK ==
  /\ attempts \in [Keys -> [count : 0..(MaxAttempts + MaxChecking - 1), age : 0..WindowMs]]
  /\ before \subseteq TrackedKeys \X TrackedKeys
  /\ checking \in [Keys -> 0..MaxChecking]
  /\ guesses \in [Keys -> SUBSET Guess]

Init ==
  /\ attempts = [k \in Keys |-> NoRecord]
  /\ before = {}
  /\ checking = [k \in Keys |-> 0]
  /\ guesses = [k \in Keys |-> {}]

\* What is left of the order when only some keys stay in the Map.
Among(keys) == before \cap (keys \X keys)

\* Map.delete.
Delete(k) ==
  /\ attempts' = [attempts EXCEPT ![k] = NoRecord]
  /\ before' = Among(Keys \ {k})

Answer(k) == checking[k] > 0 /\ checking' = [checking EXCEPT ![k] = @ - 1]

-----------------------------------------------------------------------------
(* A sign-in. *)

\* Faults: assertNotLocked is not called; an attempt made while locked starts the
\* window again.
BeginLoginUnasked(k) ==
  /\ checking[k] < MaxChecking
  /\ checking' = [checking EXCEPT ![k] = @ + 1]
  /\ UNCHANGED <<attempts, before, guesses>>
BeginLoginExtending(k) ==
  IF Locked(k)
  THEN attempts' = [attempts EXCEPT ![k].age = 0] /\ UNCHANGED <<before, checking, guesses>>
  ELSE BeginLoginUnasked(k)

\* assertNotLocked: a locked key is refused and nothing changes, an expired
\* record is dropped.
BeginLogin(k) ==
  IF Locked(k)
  THEN UNCHANGED vars
  ELSE /\ checking[k] < MaxChecking
       /\ checking' = [checking EXCEPT ![k] = @ + 1]
       /\ IF Tracked(k) /\ IsExpired(k) THEN Delete(k) ELSE UNCHANGED <<attempts, before>>
       /\ UNCHANGED guesses

\* Faults: the limit is off by one; a record is evicted although
\* the sweep made room.
EvictIfOvercrowded ==
  IF Cardinality(TrackedKeys) <= MaxTracked THEN TrackedKeys
  ELSE IF Cardinality(Fresh) <= MaxTracked THEN Fresh ELSE Fresh \ {First(Fresh)}
EvictAnyway ==
  IF Cardinality(TrackedKeys) < MaxTracked THEN TrackedKeys
  ELSE IF Fresh = {} THEN {} ELSE Fresh \ {First(Fresh)}

\* evictIfCrowded, as the keys it leaves: at the limit the expired records go, and
\* if that frees nothing, the first key of the Map does.
EvictIfCrowded ==
  IF Cardinality(TrackedKeys) < MaxTracked THEN TrackedKeys
  ELSE IF Cardinality(Fresh) < MaxTracked THEN Fresh ELSE Fresh \ {First(Fresh)}

\* Map.set leaves a key that is there where it is, and appends any other.
Put(k, kept) == Among(kept) \cup (IF k \in kept THEN {} ELSE kept \X {k})

\* recordFailure: unknown email or wrong password.
FailLogin(k) ==
  LET opens == ~Tracked(k) \/ IsExpired(k)
      kept == IF opens THEN EvictIfCrowded ELSE TrackedKeys
      record == IF opens THEN [count |-> 1, age |-> 0]
                         ELSE [attempts[k] EXCEPT !.count = @ + 1] IN
  /\ Answer(k)
  /\ before' = Put(k, kept)
  /\ attempts' = [j \in Keys |-> IF j = k THEN record
                                 ELSE IF j \in kept THEN attempts[j] ELSE NoRecord]
  /\ guesses' =
       [j \in Keys |->
          IF j = k THEN guesses[k] \cup {[age |-> 0, number |-> record.count]}
          ELSE IF j \in Fresh \ kept THEN {} ELSE guesses[j]]

\* reset: the right password of an active account.
PassLogin(k) ==
  /\ Answer(k)
  /\ Delete(k)
  /\ guesses' = [guesses EXCEPT ![k] = {}]

\* The right password of a deactivated account, or a database call that throws:
\* neither recordFailure nor reset is reached.
DropLogin(k) ==
  /\ Answer(k)
  /\ UNCHANGED <<attempts, before, guesses>>

-----------------------------------------------------------------------------
(* The clock and the process. *)

Tick ==
  /\ attempts' = [k \in Keys |->
       IF Tracked(k) /\ ~IsExpired(k) THEN [attempts[k] EXCEPT !.age = @ + 1] ELSE attempts[k]]
  /\ guesses' = [k \in Keys |->
       {[g EXCEPT !.age = @ + 1] : g \in {h \in guesses[k] : h.age + 1 < WindowMs}}]
  /\ UNCHANGED <<before, checking>>

\* State is in memory: "a restart simply forgives everyone".
Restart ==
  /\ attempts' = [k \in Keys |-> NoRecord]
  /\ before' = {}
  /\ checking' = [k \in Keys |-> 0]
  /\ guesses' = [k \in Keys |-> {}]

Next ==
  \/ \E k \in Keys : BeginLogin(k) \/ FailLogin(k) \/ PassLogin(k) \/ DropLogin(k)
  \/ Tick
  \/ Restart

\* Time passes.
Spec == Init /\ [][Next]_vars /\ WF_vars(Tick)

-----------------------------------------------------------------------------
(* Properties. *)

\* The map and its order fit together: the order puts exactly the keys with a
\* record one after the other, the counts stay in their range, and there are
\* never more than maxTrackedKeys records, although recordFailure of an expired
\* record overwrites it in place.
Bounded ==
  /\ TypeOK
  /\ Cardinality(TrackedKeys) <= MaxTracked
  /\ \A j, k \in TrackedKeys : j # k => (<<j, k>> \in before <=> <<k, j>> \notin before)
  /\ \A j \in TrackedKeys : <<j, j>> \notin before
  /\ \A i, j, k \in TrackedKeys :
       <<i, j>> \in before /\ <<j, k>> \in before => <<i, k>> \in before

\* Sign-ins that passed assertNotLocked together all count, so a key may exceed
\* the limit, but only by those that were under way when it was reached.
OvershootBounded ==
  \A k \in Keys : attempts[k].count + checking[k] <= MaxAttempts - 1 + MaxChecking

\* What the lockout buys: in any WindowMs a key that is not forgiven (right
\* password, restart, eviction) gets at most this many wrong guesses.  It is not
\* MaxAttempts: the window starts with its first failure, so the end of one
\* window and the start of the next fit into the same WindowMs.
GuessesBounded ==
  \A k \in Keys : Cardinality(guesses[k]) <= 2 * (MaxAttempts + MaxChecking) - 3

\* A record that still counts is evicted only from a full map in which every
\* record still counts, and it is the first of the Map.
Evicted(k) ==
  /\ k \in Fresh
  /\ ~Tracked(k)' /\ checking'[k] = checking[k] /\ TrackedKeys' # {}
EvictsUnderPressure ==
  [][\A k \in Keys : Evicted(k) =>
       /\ Cardinality(TrackedKeys) = MaxTracked
       /\ TrackedKeys = Fresh
       /\ \A j \in TrackedKeys : <<j, k>> \notin before]_vars

\* No key is locked for ever, whatever goes on being tried with it.
LocksEnd == \A k \in Keys : Locked(k) ~> ~Locked(k)
===============================================================================
