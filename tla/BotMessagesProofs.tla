-------------------------- MODULE BotMessagesProofs --------------------------
(***************************************************************************)
(* Machine-checked proofs about BotMessages, for any set of updates, any   *)
(* bound of the list and whatever the order is at first: the messages of a *)
(* chat never lead into a dead end, and /clear reaches every id it should. *)
(***************************************************************************)
EXTENDS BotMessages, SequenceTheorems, TLAPS

-----------------------------------------------------------------------------
(* The inductive invariant: what is shown and done, and the list of ids. *)

\* What a handler knows at each place: what it does, the message it works on, the
\* row it got.
JobOK(j) ==
  /\ j \in Job
  /\ j.at = "idle" => j = Idle
  /\ j.at # "deleting" => j.ids = <<>>
  /\ j.at = "service" => /\ j.does \in {"tasks", "my"} \cup Buttons
                         /\ j.does \in Buttons => j.on \in Updates
  /\ j.at = "edit" => /\ j.does \in Buttons /\ j.on \in Updates
                      /\ j.does \notin {"list", "cancel"} => j.got \in Row
  /\ j.at = "send" => j.got = Nobody \/ j.does \in {"tasks", "my"}
  /\ j.at = "deleting" => j.got = Nobody

\* What a message shows, whatever has become of the order: one that shows an order
\* has a button, and one's own open order can be carried on from its card.
FaceOK(f) ==
  /\ f \in Face
  /\ f.buttons # {} => f.row \in Row
  /\ f.row # Nobody =>
       /\ f.buttons # {}
       /\ f.head # "page" /\ f.row.assignee = Me =>
            /\ f.row.status = "NEW" => "start" \in f.buttons
            /\ f.row.status = "IN_PROGRESS" => "complete" \in f.buttons

Scene ==
  /\ order \in Row
  /\ job \in [Updates -> Job] /\ \A u \in Updates : JobOK(job[u])
  /\ face \in [Updates -> Face] /\ \A u \in Updates : FaceOK(face[u])

\* The ids that a /clear has in hand, and those that have been remembered once.
Pending == UNION {ToSet(job[u].ids) : u \in Updates}
WasRemembered(id) ==
  IF id[2] = "in" THEN job[id[1]].at # "idle" ELSE job[id[1]].at \in {"notice", "over"}

\* `t` is the end of `s`; nothing is in `s` twice.
Ends(t, s) == Len(t) <= Len(s) /\ \A i \in 1..Len(t) : t[i] = s[Len(s) - Len(t) + i]
Distinct(s) == \A i, j \in 1..Len(s) : s[i] = s[j] => i = j

\* The list is the end of what is owed; no id comes into it twice, so what a /clear
\* deletes is not in it; what is owed and not in it is in hand.
Lists ==
  /\ tracked \in Seq(Ids) /\ Len(tracked) <= MaxTracked
  /\ owed \in Seq(Ids) /\ Len(owed) <= MaxTracked
  /\ Ends(tracked, owed) /\ Distinct(owed)
  /\ \A id \in ToSet(owed) \cup Pending : WasRemembered(id)
  /\ ToSet(tracked) \cap Pending = {}
  /\ NothingEscapesClear

-----------------------------------------------------------------------------
(* Lists of ids. *)

LEMMA ToSetIs ==
  ASSUME NEW S, NEW s \in Seq(S)
  PROVE  ToSet(s) = {s[i] : i \in 1..Len(s)} /\ ToSet(s) \subseteq S
BY DEF ToSet

\* rememberMessage: the new id is the last, and those before it stay, the oldest of
\* a full list excepted.
LEMMA NewestAppended ==
  ASSUME NEW s \in Seq(Ids), Len(s) <= MaxTracked, NEW id \in Ids
  PROVE  LET n == Newest(Append(s, id))
             k == IF Len(s) < MaxTracked THEN 0 ELSE 1
         IN  /\ n \in Seq(Ids) /\ Len(n) <= MaxTracked
             /\ Len(n) = Len(s) + 1 - k /\ n[Len(n)] = id
             /\ \A i \in 1..(Len(n) - 1) : n[i] = s[i + k]
<1> DEFINE a == Append(s, id)
<1>1. /\ a \in Seq(Ids) /\ Len(a) = Len(s) + 1 /\ a # <<>>
      /\ \A i \in 1..Len(s) : a[i] = s[i]
      /\ a[Len(s) + 1] = id
  BY AppendProperties
<1>2. MaxTracked \in Nat \ {0} /\ Len(s) \in Nat
  BY RowsAssumption
<1> HIDE DEF a
<1>3. CASE Len(s) < MaxTracked
  <2>1. Newest(a) = a
    BY <1>1, <1>2, <1>3 DEF Newest
  <2> QED
    BY <1>1, <1>2, <1>3, <2>1 DEF a
<1>4. CASE ~(Len(s) < MaxTracked)
  <2>1. Newest(a) = Tail(a)
    BY <1>1, <1>2, <1>4 DEF Newest
  <2>2. /\ Tail(a) \in Seq(Ids) /\ Len(Tail(a)) = Len(s)
        /\ \A i \in 1..Len(s) : Tail(a)[i] = a[i + 1]
    BY <1>1, <1>2, HeadTailProperties
  <2>3. Len(s) = MaxTracked
    BY <1>2, <1>4
  <2> QED
    BY <1>1, <1>2, <1>4, <2>1, <2>2, <2>3 DEF a
<1> QED
  BY <1>3, <1>4

\* Remembered in both, an id is the end of both.
LEMMA EndsNewest ==
  ASSUME NEW t \in Seq(Ids), NEW s \in Seq(Ids), Len(t) <= MaxTracked, Len(s) <= MaxTracked,
         NEW id \in Ids, Ends(t, s)
  PROVE  Ends(Newest(Append(t, id)), Newest(Append(s, id)))
<1> DEFINE n == Newest(Append(t, id))
           m == Newest(Append(s, id))
           k == IF Len(t) < MaxTracked THEN 0 ELSE 1
           l == IF Len(s) < MaxTracked THEN 0 ELSE 1
<1>1. /\ Len(n) = Len(t) + 1 - k /\ n[Len(n)] = id
      /\ \A i \in 1..(Len(n) - 1) : n[i] = t[i + k]
  BY NewestAppended
<1>2. /\ Len(m) = Len(s) + 1 - l /\ m[Len(m)] = id
      /\ \A i \in 1..(Len(m) - 1) : m[i] = s[i + l]
  BY NewestAppended
<1>3. /\ Len(t) \in Nat /\ Len(s) \in Nat /\ MaxTracked \in Nat \ {0}
      /\ Len(t) <= Len(s) /\ \A i \in 1..Len(t) : t[i] = s[Len(s) - Len(t) + i]
  BY RowsAssumption DEF Ends
<1> HIDE DEF n, m
<1>4. Len(n) <= Len(m) /\ Len(n) \in Nat /\ Len(m) \in Nat
  BY <1>1, <1>2, <1>3
<1>5. ASSUME NEW i \in 1..Len(n) PROVE n[i] = m[Len(m) - Len(n) + i]
  <2>1. CASE i = Len(n)
    BY <1>1, <1>2, <1>4, <2>1
  <2>2. CASE i # Len(n)
    <3>1. i \in 1..(Len(n) - 1) /\ i + k \in 1..Len(t)
      BY <1>1, <1>3, <1>4, <2>2
    <3>2. n[i] = t[i + k] /\ t[i + k] = s[Len(s) - Len(t) + (i + k)]
      BY <1>1, <1>3, <3>1
    <3>3. Len(m) - Len(n) + i \in 1..(Len(m) - 1)
      BY <1>4, <3>1
    <3>4. m[Len(m) - Len(n) + i] = s[(Len(m) - Len(n) + i) + l]
      BY <1>2, <3>3
    <3>5. (Len(m) - Len(n) + i) + l = Len(s) - Len(t) + (i + k)
      <4>1. Len(n) = Len(t) + 1 - k /\ Len(m) = Len(s) + 1 - l /\ k \in Int /\ l \in Int
        BY <1>1, <1>2
      <4> HIDE DEF k, l
      <4> QED
        BY <1>3, <4>1
    <3> QED
      BY <3>2, <3>4, <3>5
  <2> QED
    BY <2>1, <2>2
<1> QED
  BY <1>4, <1>5 DEF Ends, n, m

\* What a list owes after a new id is the new id, what was in the shorter list and
\* still is, and what was only in the longer one.
LEMMA NewestCovers ==
  ASSUME NEW t \in Seq(Ids), NEW s \in Seq(Ids), Len(t) <= MaxTracked, Len(s) <= MaxTracked,
         NEW id \in Ids, Ends(t, s)
  PROVE  /\ ToSet(Newest(Append(s, id))) \subseteq ToSet(s) \cup {id}
         /\ ToSet(Newest(Append(s, id)))
              \subseteq ToSet(Newest(Append(t, id))) \cup (ToSet(s) \ ToSet(t))
<1> DEFINE n == Newest(Append(t, id))
           m == Newest(Append(s, id))
           k == IF Len(t) < MaxTracked THEN 0 ELSE 1
           l == IF Len(s) < MaxTracked THEN 0 ELSE 1
<1>1. /\ n \in Seq(Ids) /\ Len(n) = Len(t) + 1 - k /\ n[Len(n)] = id
      /\ \A i \in 1..(Len(n) - 1) : n[i] = t[i + k]
  BY NewestAppended
<1>2. /\ m \in Seq(Ids) /\ Len(m) = Len(s) + 1 - l /\ m[Len(m)] = id
      /\ \A i \in 1..(Len(m) - 1) : m[i] = s[i + l]
  BY NewestAppended
<1>3. /\ Len(t) \in Nat /\ Len(s) \in Nat /\ MaxTracked \in Nat \ {0}
      /\ Len(t) <= Len(s) /\ \A i \in 1..Len(t) : t[i] = s[Len(s) - Len(t) + i]
  BY RowsAssumption DEF Ends
<1> HIDE DEF n, m
<1>4. /\ ToSet(n) = {n[i] : i \in 1..Len(n)} /\ ToSet(m) = {m[i] : i \in 1..Len(m)}
      /\ ToSet(t) = {t[i] : i \in 1..Len(t)} /\ ToSet(s) = {s[i] : i \in 1..Len(s)}
  BY <1>1, <1>2, ToSetIs
<1>5. id \in ToSet(n)
  <2>1. Len(n) \in 1..Len(n)
    BY <1>1, <1>3
  <2> QED
    BY <1>1, <1>4, <2>1
<1>6. ASSUME NEW x \in ToSet(m), x # id
      PROVE  x \in ToSet(s) /\ (x \in ToSet(t) => x \in ToSet(n))
  <2>1. PICK i \in 1..Len(m) : x = m[i]
    BY <1>4
  <2>2. i \in 1..(Len(m) - 1) /\ i + l \in 1..Len(s) /\ x = s[i + l]
    BY <1>2, <1>3, <1>6, <2>1
  <2>3. ASSUME x \in ToSet(t) PROVE x \in ToSet(n)
    <3>1. CASE Len(t) < MaxTracked
      <4>1. PICK j \in 1..Len(t) : x = t[j]
        BY <1>4, <2>3
      <4>2. j \in 1..(Len(n) - 1) /\ n[j] = t[j]
        BY <1>1, <1>3, <3>1
      <4> QED
        BY <1>3, <1>4, <4>1, <4>2
    <3>2. CASE ~(Len(t) < MaxTracked)
      <4>1. Len(t) = MaxTracked /\ Len(s) = MaxTracked /\ k = 1 /\ l = 1
        BY <1>3, <3>2
      <4>2. i \in 1..(Len(n) - 1) /\ i + 1 \in 1..Len(t)
        BY <1>1, <1>2, <1>3, <2>2, <4>1
      <4>3. n[i] = t[i + 1] /\ t[i + 1] = s[Len(s) - Len(t) + (i + 1)]
        BY <1>1, <1>3, <4>1, <4>2
      <4>4. Len(s) - Len(t) + (i + 1) = i + l
        BY <1>3, <4>1
      <4>5. n[i] = x
        BY <2>2, <4>3, <4>4
      <4> QED
        BY <1>4, <4>2, <4>5
    <3> QED
      BY <3>1, <3>2
  <2> QED
    BY <1>4, <2>2, <2>3
<1> QED
  BY <1>5, <1>6 DEF n, m

LEMMA DistinctNewest ==
  ASSUME NEW s \in Seq(Ids), Len(s) <= MaxTracked, NEW id \in Ids, id \notin ToSet(s),
         Distinct(s)
  PROVE  Distinct(Newest(Append(s, id)))
<1> DEFINE n == Newest(Append(s, id))
           k == IF Len(s) < MaxTracked THEN 0 ELSE 1
<1>1. /\ Len(n) = Len(s) + 1 - k /\ n[Len(n)] = id
      /\ \A i \in 1..(Len(n) - 1) : n[i] = s[i + k]
  BY NewestAppended
<1>2. Len(s) \in Nat /\ MaxTracked \in Nat \ {0}
  BY RowsAssumption
<1> HIDE DEF n
<1>3. \A i \in 1..(Len(n) - 1) : i + k \in 1..Len(s) /\ n[i] # id
  BY <1>1, <1>2, ToSetIs
<1>4. \A i, j \in 1..Len(n) : n[i] = n[j] => i = j
  <2> SUFFICES ASSUME NEW i \in 1..Len(n), NEW j \in 1..Len(n), n[i] = n[j]
               PROVE  i = j
    OBVIOUS
  <2>1. CASE i = Len(n) \/ j = Len(n)
    <3>1. Len(n) \in Nat
      BY <1>1, <1>2
    <3>2. \A m \in 1..Len(n) : m # Len(n) => n[m] # n[Len(n)]
      BY <1>1, <1>3, <3>1
    <3> QED
      BY <2>1, <3>2
  <2>2. CASE i # Len(n) /\ j # Len(n)
    <3>1. i \in 1..(Len(n) - 1) /\ j \in 1..(Len(n) - 1)
      BY <1>1, <1>2, <2>2
    <3>2. i + k = j + k
      BY <1>1, <1>3, <3>1 DEF Distinct
    <3> QED
      BY <3>1, <3>2
  <2> QED
    BY <2>1, <2>2
<1> QED
  BY <1>4 DEF Distinct, n

\* An id that has been tried is owed no more.
LEMMA OwedWithout ==
  ASSUME NEW s \in Seq(Ids), Distinct(s), NEW x
  PROVE  LET w == RemoveFirst(s, x)
         IN  /\ w \in Seq(Ids) /\ Len(w) <= Len(s) /\ Distinct(w)
             /\ ToSet(w) = ToSet(s) \ {x}
             /\ \A t \in Seq(Ids) : Ends(t, s) /\ x \notin ToSet(t) => Ends(t, w)
<1>1. CASE ~\E i \in 1..Len(s) : s[i] = x
  <2>1. RemoveFirst(s, x) = s
    BY <1>1 DEF RemoveFirst
  <2>2. x \notin ToSet(s)
    BY <1>1, ToSetIs
  <2> QED
    BY <2>1, <2>2
<1>2. ASSUME NEW p \in 1..Len(s), s[p] = x
      PROVE  LET w == RemoveFirst(s, x)
             IN  /\ w \in Seq(Ids) /\ Len(w) <= Len(s) /\ Distinct(w)
                 /\ ToSet(w) = ToSet(s) \ {x}
                 /\ \A t \in Seq(Ids) : Ends(t, s) /\ x \notin ToSet(t) => Ends(t, w)
  <2> DEFINE w == SubSeq(s, 1, p - 1) \o SubSeq(s, p + 1, Len(s))
  <2>1. \A i \in 1..Len(s) : s[i] = x <=> i = p
    BY <1>2 DEF Distinct
  <2>2. RemoveFirst(s, x) = w
    <3>1. {i \in 1..Len(s) : s[i] = x} = {p}
      BY <2>1
    <3>2. SelectInSeq(s, LAMBDA v : v = x) = Min({p})
      BY <3>1 DEF SelectInSeq
    <3>3. Min({p}) = p
      BY DEF Min
    <3> QED
      BY <1>2, <3>2, <3>3 DEF RemoveFirst, RemoveAt
  <2>3. /\ Len(s) \in Nat /\ p \in Nat /\ p > 0 /\ p <= Len(s)
        /\ \A i \in 1..Len(s) : s[i] \in Ids
    BY <1>2, ElementOfSeq
  <2>4. /\ SubSeq(s, 1, p - 1) \in Seq(Ids) /\ Len(SubSeq(s, 1, p - 1)) = p - 1
        /\ \A i \in 1..(p - 1) : SubSeq(s, 1, p - 1)[i] = s[i]
    <3>1. \A i \in 1..(p - 1) : s[i] \in Ids
      BY <2>3
    <3> QED
      BY <2>3, <3>1, SubSeqProperties
  <2>5. /\ SubSeq(s, p + 1, Len(s)) \in Seq(Ids) /\ Len(SubSeq(s, p + 1, Len(s))) = Len(s) - p
        /\ \A i \in 1..(Len(s) - p) : SubSeq(s, p + 1, Len(s))[i] = s[p + i]
    <3>1. \A i \in (p + 1)..Len(s) : s[i] \in Ids
      BY <2>3
    <3> QED
      BY <2>3, <3>1, SubSeqProperties
  <2>6. /\ w \in Seq(Ids) /\ Len(w) = Len(s) - 1
        /\ \A i \in 1..Len(w) : w[i] = IF i < p THEN s[i] ELSE s[i + 1]
    <3> DEFINE a == SubSeq(s, 1, p - 1)
               b == SubSeq(s, p + 1, Len(s))
    <3> HIDE DEF a, b
    <3>1. /\ a \in Seq(Ids) /\ Len(a) = p - 1 /\ \A i \in 1..(p - 1) : a[i] = s[i]
          /\ b \in Seq(Ids) /\ Len(b) = Len(s) - p /\ \A i \in 1..(Len(s) - p) : b[i] = s[p + i]
      BY <2>4, <2>5 DEF a, b
    <3>2. /\ a \o b \in Seq(Ids) /\ Len(a \o b) = Len(a) + Len(b)
          /\ \A i \in 1..(Len(a) + Len(b)) : (a \o b)[i] = IF i <= Len(a) THEN a[i] ELSE b[i - Len(a)]
      BY <3>1, ConcatProperties
    <3>3. Len(a) + Len(b) = Len(s) - 1
      BY <2>3, <3>1
    <3>4. ASSUME NEW i \in 1..(Len(s) - 1)
          PROVE  (a \o b)[i] = IF i < p THEN s[i] ELSE s[i + 1]
      <4>1. CASE i < p
        <5>1. i <= Len(a) /\ i \in 1..(p - 1)
          BY <2>3, <3>1, <4>1
        <5> QED
          BY <3>1, <3>2, <3>3, <4>1, <5>1
      <4>2. CASE ~(i < p)
        <5>1. ~(i <= Len(a)) /\ i - Len(a) \in 1..(Len(s) - p) /\ p + (i - Len(a)) = i + 1
          BY <2>3, <3>1, <4>2
        <5>2. (a \o b)[i] = b[i - Len(a)] /\ b[i - Len(a)] = s[p + (i - Len(a))]
          BY <3>1, <3>2, <3>3, <5>1
        <5> QED
          BY <4>2, <5>1, <5>2
      <4> QED
        BY <4>1, <4>2
    <3> QED
      BY <3>2, <3>3, <3>4 DEF a, b
  <2> HIDE DEF w
  <2>7. Distinct(w)
    <3> SUFFICES ASSUME NEW i \in 1..Len(w), NEW j \in 1..Len(w), w[i] = w[j]
                 PROVE  i = j
      BY DEF Distinct
    <3> DEFINE ii == IF i < p THEN i ELSE i + 1
               jj == IF j < p THEN j ELSE j + 1
    <3>1. ii \in 1..Len(s) /\ jj \in 1..Len(s) /\ w[i] = s[ii] /\ w[j] = s[jj]
      BY <2>3, <2>6
    <3>2. ii = jj
      BY <3>1 DEF Distinct
    <3> QED
      BY <2>3, <2>6, <3>2
  <2>8. ToSet(w) = ToSet(s) \ {x}
    <3>1. ToSet(w) = {w[i] : i \in 1..Len(w)} /\ ToSet(s) = {s[i] : i \in 1..Len(s)}
      BY <2>6, ToSetIs
    <3>2. ASSUME NEW i \in 1..Len(w) PROVE w[i] \in ToSet(s) /\ w[i] # x
      BY <2>1, <2>3, <2>6, <3>1
    <3>3. ASSUME NEW i \in 1..Len(s), s[i] # x PROVE s[i] \in ToSet(w)
      <4>1. CASE i < p
        <5>1. i \in 1..Len(w) /\ w[i] = s[i]
          BY <2>3, <2>6, <4>1
        <5> QED
          BY <3>1, <5>1
      <4>2. CASE i > p
        <5>1. i - 1 \in 1..Len(w) /\ w[i - 1] = s[i]
          BY <2>3, <2>6, <4>2
        <5> QED
          BY <3>1, <5>1
      <4> QED
        BY <2>1, <2>3, <3>3, <4>1, <4>2
    <3> QED
      BY <3>1, <3>2, <3>3
  <2>9. ASSUME NEW t \in Seq(Ids), Ends(t, s), x \notin ToSet(t) PROVE Ends(t, w)
    <3>1. /\ Len(t) \in Nat /\ Len(t) <= Len(s)
          /\ \A i \in 1..Len(t) : t[i] = s[Len(s) - Len(t) + i] /\ t[i] # x
      BY <2>9, ToSetIs DEF Ends
    <3>2. p <= Len(s) - Len(t)
      <4> SUFFICES ASSUME p > Len(s) - Len(t) PROVE FALSE
        BY <2>3, <3>1
      <4> DEFINE i == p - (Len(s) - Len(t))
      <4>1. i \in 1..Len(t) /\ Len(s) - Len(t) + i = p
        BY <2>3, <3>1
      <4> HIDE DEF i
      <4> QED
        BY <1>2, <3>1, <4>1
    <3>3. ASSUME NEW i \in 1..Len(t) PROVE t[i] = w[Len(w) - Len(t) + i]
      <4>1. /\ Len(w) - Len(t) + i \in 1..Len(w) /\ ~(Len(w) - Len(t) + i < p)
            /\ (Len(w) - Len(t) + i) + 1 = Len(s) - Len(t) + i
        BY <2>3, <2>6, <3>1, <3>2
      <4> QED
        BY <2>6, <3>1, <4>1
    <3> QED
      BY <2>3, <2>6, <3>1, <3>2, <3>3 DEF Ends
  <2> QED
    BY <2>2, <2>3, <2>6, <2>7, <2>8, <2>9
<1> QED
  BY <1>1, <1>2

-----------------------------------------------------------------------------
(* What is shown and done: every step keeps it. *)

LEMMA PlainFaces == FaceOK(Plain) /\ FaceOK(Gone) /\ FaceOK(AskReason)
BY DEF FaceOK, Plain, Gone, AskReason, Face

\* A card, or the details of an order, shows buttons that suit what it shows.
LEMMA CardOK ==
  ASSUME NEW head \in {"card", "taken", "started", "completed"}, NEW row \in Row,
         NEW asker, NEW listed \in BOOLEAN
  PROVE  FaceOK(ShowCard(head, row, asker, listed))
<1> DEFINE f == ShowCard(head, row, asker, listed)
           keys == Keyboard(row, asker, "card", listed)
<1>1. /\ keys \subseteq Buttons /\ "details" \in keys
      /\ row.status = "NEW" /\ row.assignee # Nobody => "start" \in keys
      /\ row.status = "IN_PROGRESS" => "complete" \in keys
  BY DEF Keyboard, Buttons
<1> HIDE DEF keys
<1>2. f = [head |-> head, row |-> row, buttons |-> keys, listed |-> listed]
  BY DEF ShowCard, keys
<1> HIDE DEF f
<1> QED
  BY <1>1, <1>2, NamesAssumption DEF FaceOK, Face, f

LEMMA DetailsOK ==
  ASSUME NEW row \in Row, NEW asker, NEW listed \in BOOLEAN
  PROVE  FaceOK(ShowDetails(row, asker, listed))
<1> DEFINE f == ShowDetails(row, asker, listed)
           keys == Keyboard(row, asker, "details", listed)
<1>1. /\ keys \subseteq Buttons /\ keys # {}
      /\ row.status = "NEW" /\ row.assignee # Nobody => "start" \in keys
      /\ row.status = "IN_PROGRESS" => "complete" \in keys
  <2>1. (IF listed THEN "open" ELSE "back") \in keys
    BY DEF Keyboard, Buttons
  <2> QED
    BY <2>1 DEF Keyboard, Buttons
<1> HIDE DEF keys
<1>2. f = [head |-> "details", row |-> row, buttons |-> keys, listed |-> listed]
  BY DEF ShowDetails, keys
<1> HIDE DEF f
<1> QED
  BY <1>1, <1>2, NamesAssumption DEF FaceOK, Face, f

LEMMA PageOK ==
  ASSUME NEW row \in Row
  PROVE  FaceOK(ShowPage(row))
BY DEF FaceOK, ShowPage, Face, Buttons

LEMMA IdleIsJob == Idle \in Job
<1>1. <<>> \in Seq(Ids)
  BY EmptySeq
<1> QED
  BY <1>1 DEF Job, Idle, Commands

LEMMA IdleOK ==
  /\ JobOK(Idle) /\ JobOK(Over) /\ JobOK([Idle EXCEPT !.at = "send"])
  /\ \A does \in {"clear", "other"} : JobOK([Idle EXCEPT !.at = "sent", !.does = does])
<1>1. /\ Idle \in Job /\ Over \in Job /\ [Idle EXCEPT !.at = "send"] \in Job
      /\ \A does \in {"clear", "other"} : [Idle EXCEPT !.at = "sent", !.does = does] \in Job
  BY IdleIsJob DEF Job, Over, Commands
<1> QED
  BY <1>1 DEF JobOK, Idle, Over

\* One handler moves, to a job that is in order; the rest of the scene stays.
LEMMA MovesKeep ==
  ASSUME Scene, NEW u \in Updates, NEW j, job' = [job EXCEPT ![u] = j], JobOK(j),
         UNCHANGED <<order, face>>
  PROVE  Scene'
<1>1. \A v \in Updates : job'[v] = IF v = u THEN j ELSE job[v]
  BY DEF Scene
<1>2. j \in Job
  BY DEF JobOK
<1> QED
  BY <1>1, <1>2 DEF Scene

LEMMA FailMoves ==
  ASSUME NEW u \in Updates, NEW does, Fail(u, does)
  PROVE  \E j : job' = [job EXCEPT ![u] = j] /\ JobOK(j) /\ j.at # "idle" /\ j.ids = <<>>
<1>1. CASE Answer(u)
  <2> DEFINE j == [Idle EXCEPT !.at = "send"]
  <2>1. job' = [job EXCEPT ![u] = j] /\ JobOK(j)
    BY <1>1, IdleOK DEF Answer
  <2>2. j.at # "idle" /\ j.ids = <<>>
    BY DEF Idle
  <2> QED
    BY <2>1, <2>2
<1>2. CASE End(u)
  <2>1. Over.at # "idle" /\ Over.ids = <<>>
    BY DEF Over, Idle
  <2> QED
    BY <1>2, <2>1, IdleOK DEF End
<1> QED
  BY <1>1, <1>2 DEF Fail

LEMMA CommandKeeps ==
  ASSUME Scene, NEW u \in Updates, Command(u)
  PROVE  Scene'
<1>1. job[u] = Idle /\ UNCHANGED <<order, face>>
  BY DEF Scene, JobOK, Command
<1>2. PICK j : job' = [job EXCEPT ![u] = j] /\ JobOK(j)
  <2>1. CASE Answer(u)
    BY <2>1, IdleOK DEF Answer
  <2>2. ASSUME NEW c \in {"tasks", "my"}, NEW r \in {"MANAGER", "WORKER"},
               job' = [job EXCEPT ![u] = [@ EXCEPT !.at = "service", !.does = c, !.who = r]]
        PROVE  \E j : job' = [job EXCEPT ![u] = j] /\ JobOK(j)
    <3> DEFINE j == [Idle EXCEPT !.at = "service", !.does = c, !.who = r]
    <3>1. job' = [job EXCEPT ![u] = j]
      BY <1>1, <2>2
    <3>2. j \in Job
      BY IdleIsJob DEF Job, Commands, Roles
    <3>3. JobOK(j)
      BY <3>2 DEF JobOK, Idle, Buttons
    <3> QED
      BY <3>1, <3>3
  <2> QED
    BY <2>1, <2>2 DEF Command
<1> QED
  BY <1>1, <1>2, MovesKeep

LEMMA ClearKeeps ==
  ASSUME Scene, tracked \in Seq(Ids), Len(tracked) <= MaxTracked, NEW u \in Updates, Clear(u)
  PROVE  Scene'
<1> DEFINE all == Newest(Append(tracked, <<u, "in">>))
           j == [Idle EXCEPT !.at = "deleting", !.does = "clear", !.ids = all]
<1>1. job[u] = Idle /\ UNCHANGED <<order, face>>
  BY DEF Scene, JobOK, Clear
<1>2. job' = [job EXCEPT ![u] = j]
  BY <1>1 DEF Clear
<1>3. all \in Seq(Ids)
  BY NewestAppended DEF Ids
<1> HIDE DEF all
<1>4. j \in Job
  BY <1>3, IdleIsJob DEF Job, Commands
<1>5. JobOK(j)
  BY <1>4 DEF JobOK, Idle
<1> HIDE DEF j
<1> QED
  BY <1>1, <1>2, <1>5, MovesKeep

LEMMA PressKeeps ==
  ASSUME Scene, NEW u \in Updates, Press(u)
  PROVE  Scene'
<1>1. job[u].at = "idle" /\ UNCHANGED <<order, face>>
  BY DEF Press
<1>2. job[u] = Idle
  BY <1>1 DEF Scene, JobOK
<1>3. PICK m \in Updates : \E b \in face[m].buttons :
        \/ \E r \in {"MANAGER", "WORKER"} :
             job' = [job EXCEPT ![u] = [@ EXCEPT
                       !.at = IF b = "cancel" THEN "edit" ELSE "service", !.does = b,
                       !.on = m, !.listed = face[m].listed, !.who = r]]
        \/ Fail(u, b)
  BY DEF Press
<1>4. PICK b \in face[m].buttons :
        \/ \E r \in {"MANAGER", "WORKER"} :
             job' = [job EXCEPT ![u] = [@ EXCEPT
                       !.at = IF b = "cancel" THEN "edit" ELSE "service", !.does = b,
                       !.on = m, !.listed = face[m].listed, !.who = r]]
        \/ Fail(u, b)
  BY <1>3
<1>5. CASE Fail(u, b)
  BY <1>1, <1>5, FailMoves, MovesKeep
<1>6. ASSUME NEW r \in {"MANAGER", "WORKER"},
             job' = [job EXCEPT ![u] = [@ EXCEPT
                       !.at = IF b = "cancel" THEN "edit" ELSE "service", !.does = b,
                       !.on = m, !.listed = face[m].listed, !.who = r]]
      PROVE  Scene'
  <2> DEFINE j == [Idle EXCEPT !.at = IF b = "cancel" THEN "edit" ELSE "service", !.does = b,
                       !.on = m, !.listed = face[m].listed, !.who = r]
  <2>1. job' = [job EXCEPT ![u] = j]
    BY <1>2, <1>6
  <2>2. /\ face[m] \in Face /\ face[m].row \in Row /\ b \in Buttons
    BY DEF Scene, FaceOK, Face
  <2>3. face[m].listed \in BOOLEAN
    BY <2>2 DEF Face
  <2>4. JobOK(j)
    <3>1. j \in Job
      BY <2>2, <2>3, IdleIsJob DEF Job, Roles
    <3> QED
      BY <2>2, <3>1 DEF JobOK, Idle
  <2> HIDE DEF j
  <2> QED
    BY <1>1, <2>1, <2>4, MovesKeep
<1> QED
  BY <1>4, <1>5, <1>6

\* The calls keep the order a row.
LEMMA ResultIsRow ==
  ASSUME order \in Row, NEW b
  PROVE  Result(b) \in Row
BY DEF Result, Row, Closed

LEMMA CallServiceKeeps ==
  ASSUME Scene, NEW u \in Updates, CallService(u)
  PROVE  Scene'
<1> DEFINE b == job[u].does
<1>1. /\ job[u].at = "service" /\ b \in Buttons /\ b # "list" /\ UNCHANGED face
      /\ JobOK(job[u]) /\ job[u] \in Job
  BY DEF CallService, Pressed, Scene
<1>2. PICK j : job' = [job EXCEPT ![u] = j] /\ JobOK(j)
  <2>1. CASE Fail(u, b)
    BY <2>1, FailMoves
  <2>2. CASE job' = [job EXCEPT ![u] = [@ EXCEPT !.at = "edit", !.got = Result(b)]]
    <3> DEFINE j == [job[u] EXCEPT !.at = "edit", !.got = Result(b)]
    <3>1. Result(b) \in Row
      BY ResultIsRow DEF Scene
    <3>2. JobOK(j)
      BY <1>1, <3>1 DEF JobOK, Job
    <3> QED
      BY <2>2, <3>2
  <2> QED
    BY <2>1, <2>2 DEF CallService
<1>3. order' \in Row
  BY ResultIsRow DEF CallService, Scene
<1>4. \A v \in Updates : job'[v] = IF v = u THEN j ELSE job[v]
  BY <1>2 DEF Scene
<1>5. j \in Job
  BY <1>2 DEF JobOK
<1> HIDE DEF b
<1> QED
  BY <1>1, <1>2, <1>3, <1>4, <1>5 DEF Scene

LEMMA ListOrdersKeeps ==
  ASSUME Scene, NEW u \in Updates, ListOrders(u)
  PROVE  Scene'
<1>1. /\ job[u].at = "service" /\ job[u].does \in {"tasks", "my", "list"}
      /\ JobOK(job[u]) /\ job[u] \in Job /\ order \in Row
      /\ UNCHANGED <<order, face>>
  BY DEF ListOrders, Scene
<1>2. CASE Fail(u, job[u].does)
  BY <1>1, <1>2, FailMoves, MovesKeep
<1>3. ASSUME NEW got \in {order, Nobody},
             job' = [job EXCEPT ![u] = [@ EXCEPT
                       !.at = IF job[u].does = "list" THEN "edit" ELSE "send", !.got = got]]
      PROVE  Scene'
  <2> DEFINE j == [job[u] EXCEPT !.at = IF job[u].does = "list" THEN "edit" ELSE "send",
                                 !.got = got]
  <2>1. job' = [job EXCEPT ![u] = j]
    BY <1>3
  <2>2. JobOK(j)
    BY <1>1 DEF JobOK, Job, Buttons
  <2> HIDE DEF j
  <2> QED
    BY <1>1, <2>1, <2>2, MovesKeep
<1> QED
  BY <1>2, <1>3 DEF ListOrders

LEMMA FaceAfterOK ==
  ASSUME Scene, NEW u \in Updates, job[u].at = "edit"
  PROVE  FaceOK(FaceAfter(u))
<1> DEFINE j == job[u]
<1>1. /\ JobOK(j) /\ j \in Job /\ j.does \in Buttons /\ j.listed \in BOOLEAN
      /\ j.does \notin {"list", "cancel"} => j.got \in Row
      /\ j.got \in Row \cup {Nobody}
  BY DEF Scene, JobOK, Job
<1> HIDE DEF j
<1>2. CASE j.does = "take"
  BY <1>1, <1>2, CardOK DEF FaceAfter, j
<1>3. CASE j.does = "start"
  BY <1>1, <1>3, CardOK DEF FaceAfter, j
<1>4. CASE j.does = "complete"
  BY <1>1, <1>4, CardOK DEF FaceAfter, j
<1>5. CASE j.does \in {"back", "open"}
  BY <1>1, <1>5, CardOK DEF FaceAfter, j
<1>6. CASE j.does = "details"
  BY <1>1, <1>6, DetailsOK DEF FaceAfter, j
<1>7. CASE j.does = "list"
  BY <1>1, <1>7, PlainFaces, PageOK DEF FaceAfter, j
<1>8. CASE j.does = "cancel"
  BY <1>1, <1>8, PlainFaces DEF FaceAfter, j
<1> QED
  BY <1>1, <1>2, <1>3, <1>4, <1>5, <1>6, <1>7, <1>8 DEF Buttons

\* One message changes, and one handler moves.
LEMMA ShowsKeep ==
  ASSUME Scene, NEW u \in Updates, NEW j, job' = [job EXCEPT ![u] = j], JobOK(j),
         NEW m \in Updates, NEW f, face' = [face EXCEPT ![m] = f], FaceOK(f),
         UNCHANGED order
  PROVE  Scene'
<1>1. \A v \in Updates : /\ job'[v] = IF v = u THEN j ELSE job[v]
                         /\ face'[v] = IF v = m THEN f ELSE face[v]
  BY DEF Scene
<1>2. j \in Job /\ f \in Face
  BY DEF JobOK, FaceOK
<1>3. job' \in [Updates -> Job] /\ face' \in [Updates -> Face]
  BY <1>2 DEF Scene
<1>4. \A v \in Updates : JobOK(job'[v]) /\ FaceOK(face'[v])
  BY <1>1 DEF Scene
<1> QED
  BY <1>3, <1>4 DEF Scene

LEMMA EditKeeps ==
  ASSUME Scene, NEW u \in Updates, Edit(u)
  PROVE  Scene'
<1> DEFINE m == job[u].on
<1>1. job[u].at = "edit" /\ m \in Updates /\ UNCHANGED order
  BY DEF Edit, Scene, JobOK
<1>2. CASE face' = [face EXCEPT ![m] = FaceAfter(u)] /\ End(u)
  <2>1. FaceOK(FaceAfter(u))
    BY <1>1, FaceAfterOK
  <2> HIDE DEF m
  <2> QED
    BY <1>1, <1>2, <2>1, IdleOK, ShowsKeep DEF End
<1>3. CASE Fail(u, job[u].does) /\ UNCHANGED face
  BY <1>1, <1>3, FailMoves, MovesKeep
<1> QED
  BY <1>2, <1>3 DEF Edit

LEMMA ReplyKeeps ==
  ASSUME Scene, NEW u \in Updates, Reply(u)
  PROVE  Scene'
<1> DEFINE f == IF job[u].got = Nobody THEN Plain
                ELSE IF job[u].does = "my" THEN ShowCard("card", job[u].got, job[u].who, FALSE)
                ELSE ShowPage(job[u].got)
           j == [Idle EXCEPT !.at = "sent", !.does =
                   IF job[u].does = "clear" THEN "clear" ELSE "other"]
<1>1. /\ job[u].at = "send" /\ JobOK(job[u]) /\ job[u] \in Job
      /\ UNCHANGED order
  BY DEF Reply, Scene
<1>2. CASE face' = [face EXCEPT ![u] = f] /\ job' = [job EXCEPT ![u] = j]
  <2>1. JobOK(j)
    BY IdleOK
  <2>2. job[u].got \in Row \cup {Nobody}
    BY <1>1 DEF Job
  <2>3. FaceOK(f)
    BY <2>2, PlainFaces, CardOK, PageOK
  <2> HIDE DEF f, j
  <2> QED
    BY <1>1, <1>2, <2>1, <2>3, ShowsKeep
<1>3. CASE (End(u) \/ Answer(u)) /\ UNCHANGED face
  BY <1>1, <1>3, IdleOK, MovesKeep DEF End, Answer
<1> QED
  BY <1>2, <1>3 DEF Reply

LEMMA RememberReplyKeeps ==
  ASSUME Scene, NEW u \in Updates, RememberReply(u)
  PROVE  Scene'
<1> DEFINE j == [job[u] EXCEPT !.at = "notice"]
<1>1. /\ job[u].at = "sent" /\ JobOK(job[u]) /\ job[u] \in Job
      /\ UNCHANGED <<order, face>>
  BY DEF RememberReply, Scene
<1>2. CASE End(u)
  BY <1>1, <1>2, IdleOK, MovesKeep DEF End
<1>3. CASE job' = [job EXCEPT ![u].at = "notice"]
  <2>1. job' = [job EXCEPT ![u] = j]
    BY <1>3
  <2>2. JobOK(j)
    BY <1>1 DEF JobOK, Job
  <2> HIDE DEF j
  <2> QED
    BY <1>1, <2>1, <2>2, MovesKeep
<1> QED
  BY <1>2, <1>3 DEF RememberReply, Goto

\* Messages vanish, and one handler moves.
LEMMA VanishingKeeps ==
  ASSUME Scene, NEW u \in Updates, NEW j, job' = [job EXCEPT ![u] = j], JobOK(j),
         NEW ids, Vanish(ids), UNCHANGED order
  PROVE  Scene'
<1>1. CASE UNCHANGED face
  BY <1>1, MovesKeep
<1>2. CASE face' = [v \in Updates |-> IF <<v, "out">> \in ids THEN Gone ELSE face[v]]
  <2>1. \A v \in Updates : /\ job'[v] = IF v = u THEN j ELSE job[v]
                           /\ face'[v] = Gone \/ face'[v] = face[v]
    BY <1>2 DEF Scene
  <2>2. j \in Job /\ Gone \in Face
    BY PlainFaces DEF JobOK, FaceOK
  <2>3. job' \in [Updates -> Job] /\ face' \in [Updates -> Face]
    BY <1>2, <2>2 DEF Scene
  <2>4. \A v \in Updates : JobOK(job'[v]) /\ FaceOK(face'[v])
    BY <2>1, PlainFaces DEF Scene
  <2> QED
    BY <2>3, <2>4 DEF Scene
<1> QED
  BY <1>1, <1>2 DEF Vanish

LEMMA DeleteKeeps ==
  ASSUME Scene, NEW u \in Updates, Delete(u)
  PROVE  Scene'
<1> DEFINE ids == job[u].ids
<1>1. /\ job[u].at = "deleting" /\ JobOK(job[u]) /\ job[u] \in Job /\ ids \in Seq(Ids)
      /\ UNCHANGED order
  BY DEF Delete, Scene, Job
<1>2. CASE ids = <<>>
  <2> DEFINE j == [job[u] EXCEPT !.at = "send"]
  <2>1. job' = [job EXCEPT ![u] = j] /\ UNCHANGED face
    BY <1>2 DEF Delete, Goto
  <2>2. JobOK(j)
    BY <1>1, <1>2 DEF JobOK, Job
  <2> HIDE DEF j
  <2> QED
    BY <1>1, <2>1, <2>2, MovesKeep
<1>3. CASE ids # <<>>
  <2> DEFINE j == [job[u] EXCEPT !.ids = Tail(ids)]
  <2>1. job' = [job EXCEPT ![u] = j] /\ Vanish({Head(ids)})
    BY <1>3 DEF Delete
  <2>2. Tail(ids) \in Seq(Ids)
    BY <1>1, <1>3
  <2>3. JobOK(j)
    BY <1>1, <2>2 DEF JobOK, Job
  <2> HIDE DEF j
  <2> QED
    BY <1>1, <2>1, <2>3, VanishingKeeps
<1> QED
  BY <1>2, <1>3

LEMMA TimerKeeps ==
  ASSUME Scene, NEW u \in Updates, Timer(u)
  PROVE  Scene'
BY IdleOK, VanishingKeeps DEF Timer, End

LEMMA ElsewhereKeeps ==
  ASSUME Scene, Elsewhere
  PROVE  Scene'
<1>1. order' \in Row
  BY DEF Scene, Elsewhere, Row, Closed
<1> QED
  BY <1>1 DEF Scene, Elsewhere

LEMMA RestartKeeps ==
  ASSUME Scene, Restart
  PROVE  Scene'
<1>1. \A u \in Updates : job'[u] \in {Idle, Over}
  BY DEF Restart
<1>2. Idle \in Job /\ Over \in Job
  BY IdleOK DEF JobOK
<1>3. job' \in [Updates -> Job] /\ \A u \in Updates : JobOK(job'[u])
  BY <1>1, <1>2, IdleOK DEF Restart
<1> QED
  BY <1>3 DEF Scene, Restart

-----------------------------------------------------------------------------
(* The list of ids: every step keeps it. *)

\* What the other handlers have in hand.
Others(u) == UNION {ToSet(job[v].ids) : v \in Updates \ {u}}

LEMMA Pieces ==
  ASSUME Scene, Lists
  PROVE  /\ \A id \in Ids : id[1] \in Updates
         /\ ToSet(tracked) \subseteq ToSet(owed) /\ ToSet(owed) \subseteq Ids
         /\ Pending \subseteq Ids
         /\ ToSet(owed) \subseteq ToSet(tracked) \cup Pending
<1>1. \A id \in Ids : id[1] \in Updates
  BY DEF Ids
<1>2. tracked \in Seq(Ids) /\ owed \in Seq(Ids) /\ Ends(tracked, owed)
  BY DEF Lists
<1>3. ToSet(tracked) \subseteq ToSet(owed)
  <2>1. /\ ToSet(tracked) = {tracked[i] : i \in 1..Len(tracked)}
        /\ ToSet(owed) = {owed[i] : i \in 1..Len(owed)}
    BY <1>2, ToSetIs
  <2>2. /\ Len(tracked) \in Nat /\ Len(owed) \in Nat /\ Len(tracked) <= Len(owed)
        /\ \A i \in 1..Len(tracked) : tracked[i] = owed[Len(owed) - Len(tracked) + i]
    BY <1>2 DEF Ends
  <2>3. \A i \in 1..Len(tracked) : Len(owed) - Len(tracked) + i \in 1..Len(owed)
    BY <2>2
  <2> QED
    BY <2>1, <2>2, <2>3
<1>4. ToSet(owed) \subseteq Ids
  BY <1>2, ToSetIs
<1>5. Pending \subseteq Ids
  <2>1. \A v \in Updates : job[v].ids \in Seq(Ids)
    BY DEF Scene, Job
  <2>2. \A v \in Updates : ToSet(job[v].ids) \subseteq Ids
    BY <2>1, ToSetIs
  <2> QED
    BY <2>2 DEF Pending
<1> QED
  BY <1>1, <1>3, <1>4, <1>5 DEF Lists, NothingEscapesClear, Pending

\* When one handler moves, what is in hand is what the others have, and what it has.
LEMMA PendingAfter ==
  ASSUME Scene, NEW u \in Updates, NEW j, job' = [job EXCEPT ![u] = j]
  PROVE  /\ Pending = Others(u) \cup ToSet(job[u].ids)
         /\ Pending' = Others(u) \cup ToSet(j.ids)
<1>1. job'[u] = j /\ \A v \in Updates \ {u} : job'[v] = job[v]
  BY DEF Scene
<1>2. Pending = Others(u) \cup ToSet(job[u].ids)
  BY DEF Pending, Others
<1>3. Pending' = UNION {ToSet(job'[v].ids) : v \in Updates}
  BY DEF Pending
<1>4. \A v \in Updates \ {u} : ToSet(job'[v].ids) = ToSet(job[v].ids)
  BY <1>1
<1>5. ToSet(job'[u].ids) = ToSet(j.ids)
  BY <1>1
<1> QED
  BY <1>2, <1>3, <1>4, <1>5 DEF Others

\* A job that follows another: what has been remembered stays so.
Follows(j, old) ==
  /\ old.at # "idle" => j.at # "idle"
  /\ old.at \in {"notice", "over"} => j.at \in {"notice", "over"}

LEMMA StillRemembered ==
  ASSUME Scene, NEW u \in Updates, NEW j, job' = [job EXCEPT ![u] = j], Follows(j, job[u]),
         NEW id \in Ids, WasRemembered(id)
  PROVE  WasRemembered(id)'
<1>1. id[1] \in Updates
  BY DEF Ids
<1>2. job'[id[1]] = IF id[1] = u THEN j ELSE job[id[1]]
  BY <1>1 DEF Scene
<1> QED
  BY <1>2 DEF WasRemembered, Follows

\* A handler goes on, and nothing is remembered or deleted.
LEMMA QuietKeeps ==
  ASSUME Scene, Lists, NEW u \in Updates, NEW j, job' = [job EXCEPT ![u] = j],
         Follows(j, job[u]), j.ids = job[u].ids, UNCHANGED <<tracked, owed>>
  PROVE  Lists'
<1>1. Pending' = Pending
  BY PendingAfter
<1>2. \A id \in ToSet(owed) \cup Pending : WasRemembered(id)'
  BY Pieces, StillRemembered DEF Lists
<1>3. ToSet(owed)' = ToSet(owed) /\ ToSet(tracked)' = ToSet(tracked)
  OBVIOUS
<1>4. \A id \in ToSet(owed)' \cup Pending' : WasRemembered(id)'
  BY <1>1, <1>2, <1>3
<1>5. NothingEscapesClear'
  BY <1>1, <1>3, Pieces DEF NothingEscapesClear, Pending
<1>6. (ToSet(tracked) \cap Pending = {})'
  BY <1>1, <1>3 DEF Lists
<1> QED
  BY <1>4, <1>5, <1>6 DEF Lists

\* An id is remembered, for the first time.
LEMMA RememberingKeeps ==
  ASSUME Scene, Lists, NEW u \in Updates, NEW j, job' = [job EXCEPT ![u] = j],
         Follows(j, job[u]), j.ids = job[u].ids,
         NEW kind \in {"in", "out"}, Remember(<<u, kind>>), ~WasRemembered(<<u, kind>>),
         kind = "in" => j.at # "idle", kind = "out" => j.at \in {"notice", "over"}
  PROVE  Lists'
<1> DEFINE id == <<u, kind>>
<1>1. /\ tracked \in Seq(Ids) /\ Len(tracked) <= MaxTracked
      /\ owed \in Seq(Ids) /\ Len(owed) <= MaxTracked
      /\ Ends(tracked, owed) /\ Distinct(owed) /\ ToSet(tracked) \cap Pending = {}
  BY DEF Lists
<1>2. id \in Ids /\ id \notin ToSet(owed) /\ id \notin Pending
  BY DEF Lists, Ids
<1>3. tracked' = Newest(Append(tracked, id)) /\ owed' = Newest(Append(owed, id))
  BY DEF Remember
<1>4. WasRemembered(id)'
  <2>1. job'[u] = j
    BY DEF Scene
  <2> QED
    BY <2>1 DEF WasRemembered
<1> HIDE DEF id
<1>5. Pending' = Pending
  BY PendingAfter
<1>6. /\ tracked' \in Seq(Ids) /\ Len(tracked') <= MaxTracked
      /\ owed' \in Seq(Ids) /\ Len(owed') <= MaxTracked
  BY <1>1, <1>2, <1>3, NewestAppended
<1>7. Ends(tracked', owed') /\ Distinct(owed')
  BY <1>1, <1>2, <1>3, EndsNewest, DistinctNewest
<1>8. /\ ToSet(owed') \subseteq ToSet(owed) \cup {id}
      /\ ToSet(owed') \subseteq ToSet(tracked') \cup (ToSet(owed) \ ToSet(tracked))
  BY <1>1, <1>2, <1>3, NewestCovers
<1>9. ToSet(tracked') \subseteq ToSet(tracked) \cup {id}
  <2>1. Ends(tracked, tracked)
    BY <1>1 DEF Ends
  <2> QED
    BY <1>1, <1>2, <1>3, <2>1, NewestCovers
<1>10. \A x \in ToSet(owed') \cup Pending' : WasRemembered(x)'
  <2>1. \A x \in ToSet(owed) \cup Pending : WasRemembered(x)'
    BY Pieces, StillRemembered DEF Lists
  <2> QED
    BY <1>4, <1>5, <1>8, <2>1
<1>11. ToSet(tracked') \cap Pending' = {}
  BY <1>1, <1>2, <1>5, <1>9
<1>12. NothingEscapesClear'
  <2>1. ToSet(owed') \subseteq ToSet(tracked') \cup Pending'
    BY <1>5, <1>8, Pieces
  <2> QED
    BY <2>1 DEF NothingEscapesClear, Pending
<1> QED
  BY <1>6, <1>7, <1>10, <1>11, <1>12 DEF Lists

LEMMA CommandKeepsLists ==
  ASSUME Scene, Lists, NEW u \in Updates, Command(u)
  PROVE  Lists'
<1>1. job[u].at = "idle" /\ Remember(<<u, "in">>)
  BY DEF Command
<1>2. job[u] = Idle
  BY <1>1 DEF Scene, JobOK
<1>3. PICK j : job' = [job EXCEPT ![u] = j] /\ j.at # "idle" /\ j.ids = <<>>
  <2>1. CASE Answer(u)
    <3> DEFINE j == [Idle EXCEPT !.at = "send"]
    <3>1. j.at # "idle" /\ j.ids = <<>>
      BY DEF Idle
    <3> QED
      BY <2>1, <3>1 DEF Answer
  <2>2. ASSUME NEW c \in {"tasks", "my"}, NEW r \in {"MANAGER", "WORKER"},
               job' = [job EXCEPT ![u] = [@ EXCEPT !.at = "service", !.does = c, !.who = r]]
        PROVE  \E j : job' = [job EXCEPT ![u] = j] /\ j.at # "idle" /\ j.ids = <<>>
    <3> DEFINE j == [Idle EXCEPT !.at = "service", !.does = c, !.who = r]
    <3>1. job' = [job EXCEPT ![u] = j]
      BY <1>2, <2>2
    <3>2. j.at # "idle" /\ j.ids = <<>>
      BY DEF Idle
    <3> QED
      BY <3>1, <3>2
  <2> QED
    BY <2>1, <2>2 DEF Command
<1>4. ~WasRemembered(<<u, "in">>)
  BY <1>1 DEF WasRemembered
<1>5. Follows(j, job[u]) /\ j.ids = job[u].ids
  BY <1>1, <1>2, <1>3 DEF Follows, Idle
<1> QED
  BY <1>1, <1>3, <1>4, <1>5, RememberingKeeps

LEMMA RememberReplyKeepsLists ==
  ASSUME Scene, Lists, NEW u \in Updates, RememberReply(u)
  PROVE  Lists'
<1>1. job[u].at = "sent" /\ Remember(<<u, "out">>) /\ job[u] \in Job /\ JobOK(job[u])
  BY DEF RememberReply, Scene
<1>2. job[u].ids = <<>>
  BY <1>1 DEF JobOK
<1>3. PICK j : job' = [job EXCEPT ![u] = j] /\ j.at \in {"notice", "over"} /\ j.ids = <<>>
  <2>1. CASE End(u)
    <3>1. Over.at = "over" /\ Over.ids = <<>>
      BY DEF Over, Idle
    <3> QED
      BY <2>1, <3>1 DEF End
  <2>2. CASE job' = [job EXCEPT ![u].at = "notice"]
    <3> DEFINE j == [job[u] EXCEPT !.at = "notice"]
    <3>1. j.at = "notice" /\ j.ids = <<>>
      BY <1>1, <1>2 DEF Job
    <3> QED
      BY <2>2, <3>1
  <2> QED
    BY <2>1, <2>2 DEF RememberReply, Goto
<1>4. ~WasRemembered(<<u, "out">>)
  BY <1>1 DEF WasRemembered
<1>5. Follows(j, job[u]) /\ j.ids = job[u].ids
  BY <1>1, <1>2, <1>3 DEF Follows
<1> QED
  BY <1>1, <1>3, <1>4, <1>5, RememberingKeeps

\* What a /clear takes in hand is the list; nothing of it is left there.
LEMMA ClearKeepsLists ==
  ASSUME Scene, Lists, NEW u \in Updates, Clear(u)
  PROVE  Lists'
<1> DEFINE id == <<u, "in">>
           all == Newest(Append(tracked, id))
           j == [Idle EXCEPT !.at = "deleting", !.does = "clear", !.ids = all]
<1>1. /\ tracked \in Seq(Ids) /\ Len(tracked) <= MaxTracked
      /\ owed \in Seq(Ids) /\ Len(owed) <= MaxTracked
      /\ Ends(tracked, owed) /\ Distinct(owed)
  BY DEF Lists
<1>2. job[u].at = "idle"
  BY DEF Clear
<1>3. job[u] = Idle
  BY <1>2 DEF Scene, JobOK
<1>4. job' = [job EXCEPT ![u] = j] /\ tracked' = <<>> /\ owed' = Newest(Append(owed, id))
  BY <1>3 DEF Clear
<1>5. id \in Ids /\ id \notin ToSet(owed) /\ id \notin Pending
  <2>1. ~WasRemembered(id)
    BY <1>2 DEF WasRemembered
  <2> QED
    BY <2>1 DEF Lists, Ids
<1>6. j.ids = all /\ Follows(j, job[u]) /\ j.at = "deleting"
  BY <1>2 DEF Follows, Idle
<1>7. WasRemembered(id)'
  <2>1. job'[u] = j
    BY <1>4 DEF Scene
  <2> HIDE DEF j
  <2> QED
    BY <1>6, <2>1 DEF WasRemembered
<1> HIDE DEF id, all, j
<1>8. Pending' = Pending \cup ToSet(all)
  <2>1. ToSet(job[u].ids) = {}
    <3>1. job[u].ids = <<>>
      BY <1>3 DEF Idle
    <3> QED
      BY <3>1 DEF ToSet
  <2> QED
    BY <1>4, <1>6, <2>1, PendingAfter
<1>9. owed' \in Seq(Ids) /\ Len(owed') <= MaxTracked /\ Distinct(owed')
  BY <1>1, <1>4, <1>5, NewestAppended, DistinctNewest
<1>10. /\ tracked' \in Seq(Ids) /\ Len(tracked') <= MaxTracked
       /\ Ends(tracked', owed') /\ ToSet(tracked') = {}
  <2>1. <<>> \in Seq(Ids) /\ Len(<<>>) = 0 /\ ToSet(<<>>) = {}
    BY EmptySeq DEF ToSet
  <2>2. MaxTracked \in Nat /\ Len(owed') \in Nat
    BY <1>9, RowsAssumption
  <2>3. Len(<<>>) <= MaxTracked /\ Ends(<<>>, owed')
    BY <2>1, <2>2 DEF Ends
  <2> QED
    BY <1>4, <2>1, <2>3
<1>11. /\ ToSet(owed') \subseteq ToSet(owed) \cup {id}
       /\ ToSet(owed') \subseteq ToSet(all) \cup (ToSet(owed) \ ToSet(tracked))
  BY <1>1, <1>4, <1>5, NewestCovers DEF all
<1>12. ToSet(all) \subseteq ToSet(owed) \cup {id}
  <2>1. Ends(tracked, tracked)
    BY <1>1 DEF Ends
  <2>2. ToSet(all) \subseteq ToSet(tracked) \cup {id}
    BY <1>1, <1>5, <2>1, NewestCovers DEF all
  <2> QED
    BY <2>2, Pieces
<1>13. \A x \in ToSet(owed') \cup Pending' : WasRemembered(x)'
  <2>1. \A x \in ToSet(owed) \cup Pending : WasRemembered(x)'
    BY <1>4, <1>6, Pieces, StillRemembered DEF Lists
  <2> QED
    BY <1>7, <1>8, <1>11, <1>12, <2>1
<1>14. NothingEscapesClear'
  <2>1. ToSet(owed') \subseteq Pending'
    BY <1>8, <1>11, Pieces
  <2> QED
    BY <2>1 DEF NothingEscapesClear, Pending
<1> QED
  BY <1>9, <1>10, <1>13, <1>14 DEF Lists

LEMMA DeleteKeepsLists ==
  ASSUME Scene, Lists, NEW u \in Updates, Delete(u)
  PROVE  Lists'
<1> DEFINE ids == job[u].ids
<1>1. /\ job[u].at = "deleting" /\ job[u] \in Job /\ ids \in Seq(Ids)
      /\ UNCHANGED tracked
  BY DEF Delete, Scene, Job
<1>2. CASE ids = <<>>
  <2> DEFINE j == [job[u] EXCEPT !.at = "send"]
  <2>1. job' = [job EXCEPT ![u] = j] /\ UNCHANGED owed
    BY <1>2 DEF Delete, Goto
  <2>2. j.ids = job[u].ids /\ Follows(j, job[u])
    BY <1>1 DEF Job, Follows
  <2> HIDE DEF j
  <2> QED
    BY <1>1, <2>1, <2>2, QuietKeeps
<1>3. CASE ids # <<>>
  <2> DEFINE x == Head(ids)
             j == [job[u] EXCEPT !.ids = Tail(ids)]
  <2>1. job' = [job EXCEPT ![u] = j] /\ owed' = RemoveFirst(owed, x)
    BY <1>3 DEF Delete
  <2>2. j.ids = Tail(ids) /\ Follows(j, job[u])
    BY <1>1 DEF Job, Follows
  <2>3. ToSet(Tail(ids)) \cup {x} = ToSet(ids)
    <3>1. /\ Tail(ids) \in Seq(Ids) /\ Len(Tail(ids)) = Len(ids) - 1 /\ x = ids[1]
          /\ \A i \in 1..Len(Tail(ids)) : Tail(ids)[i] = ids[i + 1]
          /\ Len(ids) \in Nat /\ Len(ids) > 0
      BY <1>1, <1>3, HeadTailProperties
    <3>2. /\ ToSet(ids) = {ids[i] : i \in 1..Len(ids)}
          /\ ToSet(Tail(ids)) = {Tail(ids)[i] : i \in 1..Len(Tail(ids))}
      BY <1>1, <3>1, ToSetIs
    <3> HIDE DEF ids, x
    <3>3. ASSUME NEW i \in 1..Len(ids) PROVE ids[i] = x \/ ids[i] \in ToSet(Tail(ids))
      <4>1. CASE i = 1
        BY <3>1, <4>1
      <4>2. CASE i # 1
        <5>1. i - 1 \in 1..Len(Tail(ids)) /\ (i - 1) + 1 = i
          BY <3>1, <4>2
        <5> QED
          BY <3>1, <3>2, <5>1
      <4> QED
        BY <4>1, <4>2
    <3>4. ASSUME NEW i \in 1..Len(Tail(ids)) PROVE Tail(ids)[i] \in ToSet(ids)
      <4>1. i + 1 \in 1..Len(ids)
        BY <3>1
      <4> QED
        BY <3>1, <3>2, <4>1
    <3>5. x \in ToSet(ids)
      <4>1. 1 \in 1..Len(ids)
        BY <3>1
      <4> QED
        BY <3>1, <3>2, <4>1
    <3> QED
      BY <3>2, <3>3, <3>4, <3>5
  <2> HIDE DEF x, j, ids
  <2>4. /\ Pending = Others(u) \cup ToSet(ids)
        /\ Pending' = Others(u) \cup ToSet(Tail(ids))
    BY <2>1, <2>2, PendingAfter DEF ids
  <2>5. /\ tracked \in Seq(Ids) /\ Len(tracked) <= MaxTracked
        /\ owed \in Seq(Ids) /\ Len(owed) <= MaxTracked
        /\ Ends(tracked, owed) /\ Distinct(owed) /\ ToSet(tracked) \cap Pending = {}
    BY DEF Lists
  <2>6. x \in Pending /\ x \notin ToSet(tracked)
    BY <2>3, <2>4, <2>5
  <2>7. /\ owed' \in Seq(Ids) /\ Len(owed') <= Len(owed) /\ Distinct(owed')
        /\ ToSet(owed') = ToSet(owed) \ {x} /\ Ends(tracked, owed')
    BY <2>1, <2>5, <2>6, OwedWithout
  <2>8. Len(owed') <= MaxTracked
    BY <2>5, <2>7, RowsAssumption
  <2>9. \A y \in ToSet(owed') \cup Pending' : WasRemembered(y)'
    <3>1. \A y \in ToSet(owed) \cup Pending : WasRemembered(y)'
      BY <2>1, <2>2, Pieces, StillRemembered DEF Lists
    <3> QED
      BY <2>3, <2>4, <2>7, <3>1
  <2>10. ToSet(tracked) \cap Pending' = {}
    BY <2>3, <2>4, <2>5
  <2>11. NothingEscapesClear'
    <3>1. ToSet(owed') \subseteq ToSet(tracked) \cup Pending'
      BY <2>3, <2>4, <2>7, Pieces
    <3>2. ToSet(owed') \subseteq ToSet(tracked') \cup Pending'
      BY <1>1, <3>1
    <3> QED
      BY <3>2 DEF NothingEscapesClear, Pending
  <2> QED
    BY <1>1, <2>5, <2>7, <2>8, <2>9, <2>10, <2>11 DEF Lists
<1> QED
  BY <1>2, <1>3

\* The handlers that neither remember nor delete.
LEMMA OthersKeepLists ==
  ASSUME Scene, Lists, NEW u \in Updates,
         Press(u) \/ CallService(u) \/ ListOrders(u) \/ Edit(u) \/ Reply(u) \/ Timer(u)
  PROVE  Lists'
<1>1. /\ job[u].at \in {"idle", "service", "edit", "send", "notice"}
      /\ UNCHANGED <<tracked, owed>>
  BY DEF Press, CallService, ListOrders, Edit, Reply, Timer
<1>2. job[u] \in Job /\ job[u].ids = <<>>
  BY <1>1 DEF Scene, JobOK
<1>3. Over.at = "over" /\ Over.ids = <<>>
  BY DEF Over, Idle
<1>4. [Idle EXCEPT !.at = "send"].at = "send" /\ [Idle EXCEPT !.at = "send"].ids = <<>>
  BY DEF Idle
<1>5. ASSUME NEW j, job' = [job EXCEPT ![u] = j], j.ids = <<>>, j.at # "idle",
             job[u].at # "notice" \/ j.at = "over"
      PROVE  Lists'
  <2>1. Follows(j, job[u])
    BY <1>1, <1>5 DEF Follows
  <2> QED
    BY <1>1, <1>2, <1>5, <2>1, QuietKeeps
<1>6. CASE End(u)
  BY <1>3, <1>5, <1>6 DEF End
<1>7. CASE Answer(u) /\ job[u].at # "notice"
  BY <1>4, <1>5, <1>7 DEF Answer
<1>8. ASSUME NEW does, Fail(u, does), job[u].at # "notice"
      PROVE  Lists'
  BY <1>6, <1>7, <1>8 DEF Fail
<1>9. CASE Press(u)
  <2>1. PICK m \in Updates : \E b \in face[m].buttons :
          \/ \E r \in {"MANAGER", "WORKER"} :
               job' = [job EXCEPT ![u] = [@ EXCEPT
                         !.at = IF b = "cancel" THEN "edit" ELSE "service", !.does = b,
                         !.on = m, !.listed = face[m].listed, !.who = r]]
          \/ Fail(u, b)
    BY <1>9 DEF Press
  <2>2. ASSUME NEW b, NEW r,
               job' = [job EXCEPT ![u] = [@ EXCEPT
                         !.at = IF b = "cancel" THEN "edit" ELSE "service", !.does = b,
                         !.on = m, !.listed = face[m].listed, !.who = r]]
        PROVE  Lists'
    <3> DEFINE j == [job[u] EXCEPT
                       !.at = IF b = "cancel" THEN "edit" ELSE "service", !.does = b,
                       !.on = m, !.listed = face[m].listed, !.who = r]
    <3>1. job' = [job EXCEPT ![u] = j]
      BY <2>2
    <3>2. j.ids = <<>> /\ j.at # "idle"
      BY <1>2 DEF Job
    <3>3. job[u].at # "notice"
      BY <1>9 DEF Press
    <3> HIDE DEF j
    <3> QED
      BY <1>5, <3>1, <3>2, <3>3
  <2>3. job[u].at # "notice"
    BY <1>9 DEF Press
  <2> QED
    BY <1>8, <2>1, <2>2, <2>3
<1>10. CASE CallService(u)
  <2>1. job[u].at # "notice"
    BY <1>10 DEF CallService
  <2>2. CASE job' = [job EXCEPT ![u] = [@ EXCEPT !.at = "edit", !.got = Result(job[u].does)]]
    <3> DEFINE j == [job[u] EXCEPT !.at = "edit", !.got = Result(job[u].does)]
    <3>1. job' = [job EXCEPT ![u] = j]
      BY <2>2
    <3>2. j.ids = <<>> /\ j.at # "idle"
      BY <1>2 DEF Job
    <3> HIDE DEF j
    <3> QED
      BY <1>5, <2>1, <3>1, <3>2
  <2> QED
    BY <1>8, <1>10, <2>1, <2>2 DEF CallService
<1>11. CASE ListOrders(u)
  <2>1. job[u].at # "notice"
    BY <1>11 DEF ListOrders
  <2>2. ASSUME NEW got,
               job' = [job EXCEPT ![u] = [@ EXCEPT
                         !.at = IF job[u].does = "list" THEN "edit" ELSE "send", !.got = got]]
        PROVE  Lists'
    <3> DEFINE j == [job[u] EXCEPT !.at = IF job[u].does = "list" THEN "edit" ELSE "send",
                                   !.got = got]
    <3>1. job' = [job EXCEPT ![u] = j]
      BY <2>2
    <3>2. j.ids = <<>> /\ j.at # "idle"
      BY <1>2 DEF Job
    <3> HIDE DEF j
    <3> QED
      BY <1>5, <2>1, <3>1, <3>2
  <2> QED
    BY <1>8, <1>11, <2>1, <2>2 DEF ListOrders
<1>12. CASE Edit(u)
  <2>1. job[u].at # "notice"
    BY <1>12 DEF Edit
  <2> QED
    BY <1>6, <1>8, <1>12, <2>1 DEF Edit
<1>13. CASE Reply(u)
  <2>1. job[u].at # "notice"
    BY <1>13 DEF Reply
  <2> DEFINE j == [Idle EXCEPT !.at = "sent", !.does =
                     IF job[u].does = "clear" THEN "clear" ELSE "other"]
  <2>2. j.ids = <<>> /\ j.at # "idle"
    BY DEF Idle
  <2>3. job' = [job EXCEPT ![u] = j] \/ End(u) \/ Answer(u)
    BY <1>13 DEF Reply
  <2> HIDE DEF j
  <2> QED
    BY <1>5, <1>6, <1>7, <2>1, <2>2, <2>3
<1>14. CASE Timer(u)
  BY <1>6, <1>14 DEF Timer
<1> QED
  BY <1>9, <1>10, <1>11, <1>12, <1>13, <1>14

\* A restart forgets the list, and what was in hand.
LEMMA RestartKeepsLists ==
  ASSUME Scene, Lists, Restart
  PROVE  Lists'
<1>1. tracked' = <<>> /\ owed' = <<>> /\ ToSet(<<>>) = {}
  BY DEF Restart, ToSet
<1>2. \A u \in Updates : job'[u].ids = <<>>
  BY DEF Restart, Idle, Over
<1>3. Pending' = {}
  <2>1. Pending' = UNION {ToSet(job'[u].ids) : u \in Updates}
    BY DEF Pending
  <2>2. \A u \in Updates : ToSet(job'[u].ids) = {}
    BY <1>1, <1>2
  <2> QED
    BY <2>1, <2>2
<1>4. <<>> \in Seq(Ids) /\ Len(<<>>) = 0 /\ MaxTracked \in Nat
  BY EmptySeq, RowsAssumption
<1>5. Ends(<<>>, <<>>) /\ Distinct(<<>>)
  BY <1>4 DEF Ends, Distinct
<1> QED
  BY <1>1, <1>3, <1>4, <1>5 DEF Lists, NothingEscapesClear

-----------------------------------------------------------------------------
(* Every behaviour. *)

LEMMA InitInvariant == Init => Scene /\ Lists
<1> SUFFICES ASSUME Init PROVE Scene /\ Lists
  OBVIOUS
<1>1. Scene
  <2>1. Idle \in Job /\ JobOK(Idle) /\ FaceOK(Gone) /\ Gone \in Face
    BY IdleIsJob, IdleOK, PlainFaces DEF FaceOK
  <2>2. order \in Row
    BY RowsAssumption DEF Init
  <2> QED
    BY <2>1, <2>2 DEF Init, Scene
<1>2. Lists
  <2>1. <<>> \in Seq(Ids) /\ Len(<<>>) = 0 /\ MaxTracked \in Nat /\ ToSet(<<>>) = {}
    BY EmptySeq, RowsAssumption DEF ToSet
  <2>2. Ends(<<>>, <<>>) /\ Distinct(<<>>)
    BY <2>1 DEF Ends, Distinct
  <2>3. Pending = {}
    <3>1. \A u \in Updates : job[u].ids = <<>>
      BY DEF Init, Idle
    <3> QED
      BY <2>1, <3>1 DEF Pending
  <2> QED
    BY <2>1, <2>2, <2>3 DEF Init, Lists, NothingEscapesClear
<1> QED
  BY <1>1, <1>2

LEMMA StepInvariant == Scene /\ Lists /\ [Next]_vars => (Scene /\ Lists)'
<1> SUFFICES ASSUME Scene, Lists, [Next]_vars
             PROVE  Scene' /\ Lists'
  OBVIOUS
<1>1. ASSUME NEW u \in Updates, Command(u) PROVE Scene' /\ Lists'
  BY <1>1, CommandKeeps, CommandKeepsLists
<1>2. ASSUME NEW u \in Updates, Clear(u) PROVE Scene' /\ Lists'
  BY <1>2, ClearKeeps, ClearKeepsLists DEF Lists
<1>3. ASSUME NEW u \in Updates, Press(u) PROVE Scene' /\ Lists'
  BY <1>3, PressKeeps, OthersKeepLists
<1>4. ASSUME NEW u \in Updates, CallService(u) PROVE Scene' /\ Lists'
  BY <1>4, CallServiceKeeps, OthersKeepLists
<1>5. ASSUME NEW u \in Updates, ListOrders(u) PROVE Scene' /\ Lists'
  BY <1>5, ListOrdersKeeps, OthersKeepLists
<1>6. ASSUME NEW u \in Updates, Edit(u) PROVE Scene' /\ Lists'
  BY <1>6, EditKeeps, OthersKeepLists
<1>7. ASSUME NEW u \in Updates, Reply(u) PROVE Scene' /\ Lists'
  BY <1>7, ReplyKeeps, OthersKeepLists
<1>8. ASSUME NEW u \in Updates, RememberReply(u) PROVE Scene' /\ Lists'
  BY <1>8, RememberReplyKeeps, RememberReplyKeepsLists
<1>9. ASSUME NEW u \in Updates, Delete(u) PROVE Scene' /\ Lists'
  BY <1>9, DeleteKeeps, DeleteKeepsLists
<1>10. ASSUME NEW u \in Updates, Timer(u) PROVE Scene' /\ Lists'
  BY <1>10, TimerKeeps, OthersKeepLists
<1>11. CASE Elsewhere
  <2>1. Lists'
    BY <1>11 DEF Elsewhere, Lists, NothingEscapesClear, Pending, WasRemembered
  <2> QED
    BY <1>11, <2>1, ElsewhereKeeps
<1>12. CASE Restart
  BY <1>12, RestartKeeps, RestartKeepsLists
<1>13. CASE UNCHANGED vars
  BY <1>13 DEF vars, Scene, Lists, NothingEscapesClear, Pending, WasRemembered
<1> QED
  BY <1>1, <1>2, <1>3, <1>4, <1>5, <1>6, <1>7, <1>8, <1>9, <1>10, <1>11, <1>12, <1>13
     DEF Next, Handle

\* What is shown is in order, and so is the list, in every state the bot reaches.
THEOREM Invariance == Spec => [](Scene /\ Lists)
<1> QED
  BY InitInvariant, StepInvariant, PTL DEF Spec

\* Every variable keeps its type, and neither list outgrows MAX_TRACKED_PER_CHAT.
THEOREM TypesHold == Spec => []TypeOK
<1>1. Scene /\ Lists => TypeOK
  BY DEF Scene, Lists, TypeOK
<1> QED
  BY <1>1, Invariance, PTL

\* A message that shows an order keeps buttons whatever became of it, and the card of
\* an open order of one's own has one that carries it on: what FaceOK says of any row
\* is said of the order itself when the message shows it as it is.
THEOREM CardsLeadOn == Spec => []NoDeadEnds
<1>1. Scene => NoDeadEnds
  <2> SUFFICES ASSUME Scene, NEW u \in Updates, face[u].row # Nobody
               PROVE  /\ face[u].buttons # {}
                      /\ face[u].head # "page" /\ face[u].row = order
                           /\ order.assignee = Me /\ order.status \notin Closed
                           => \E b \in face[u].buttons \cap {"start", "complete"} :
                                Allowed(b, "WORKER")
    BY DEF NoDeadEnds
  <2>1. FaceOK(face[u]) /\ face[u].buttons # {}
    BY DEF Scene, FaceOK
  <2>2. ASSUME face[u].head # "page", face[u].row = order, order.assignee = Me,
               order.status \notin Closed
        PROVE  \E b \in face[u].buttons \cap {"start", "complete"} : Allowed(b, "WORKER")
    <3>1. order.status \in {"NEW", "IN_PROGRESS"}
      BY <2>2 DEF Scene, Row
    <3>2. CASE order.status = "NEW"
      <4>1. "start" \in face[u].buttons
        BY <2>1, <2>2, <3>2 DEF FaceOK
      <4>2. Allowed("start", "WORKER")
        BY <2>2, <3>2 DEF Allowed, MayMove
      <4> QED
        BY <4>1, <4>2
    <3>3. CASE order.status = "IN_PROGRESS"
      <4>1. "complete" \in face[u].buttons
        BY <2>1, <2>2, <3>3 DEF FaceOK
      <4>2. Allowed("complete", "WORKER")
        BY <2>2, <3>3 DEF Allowed, MayMove
      <4> QED
        BY <4>1, <4>2
    <3> QED
      BY <3>1, <3>2, <3>3
  <2> QED
    BY <2>1, <2>2
<1> QED
  BY <1>1, Invariance, PTL

\* Every id that rememberMessage keeps and no /clear has tried is in the list of the
\* chat or in the hands of a /clear, whatever comes while one is deleting.
THEOREM ClearReachesEveryMessage == Spec => []NothingEscapesClear
<1>1. Lists => NothingEscapesClear
  BY DEF Lists
<1> QED
  BY <1>1, Invariance, PTL
=============================================================================
