-------------------------- MODULE EventStoreProofs ---------------------------
(***************************************************************************)
(* Proofs about EventStore, for any users, events and senders whose texts  *)
(* survive their way (TextsSurvive): savedEvents is what was reported, by  *)
(* date, and a summary that no message disturbed is exact.                 *)
(*                                                                         *)
(* The argument: a permutation p puts the messages in order.  While the    *)
(* reader sorts one more in, the vector is p with a hole; a shift moves    *)
(* the hole one place down, past a later date, and filling it gives the    *)
(* permutation of one message more.  That an order has one permutation is  *)
(* SortsOrders.                                                            *)
(***************************************************************************)
EXTENDS EventStore, FiniteSetTheorems, SequenceTheorems, TLAPS

Stored == {Expected(r) : r \in Sent}

Posted == UNION {TextsOf(r) : r \in Sent}

Date(r, i) == r[i].event.date

\* p has the places of the first n by date, and at the same date by arrival.
Sorts(r, p, n) ==
  /\ p \in [1..n -> 1..n]
  /\ \A i \in 1..n : \E k \in 1..n : p[k] = i
  /\ \A j, k \in 1..n : j < k => Precedes(r, p[j], p[k])

Kept(r, p, n) == [k \in 1..n |-> Expected(r[p[k]])]
-----------------------------------------------------------------------------
(* Events *)

\* Expected only sets the owner and the information.
LEMMA OfSent ==
  ASSUME NEW r \in Sent
  PROVE  /\ Expected(r) \in Stored /\ Expected(r) # Null
         /\ Expected(r).date = r.event.date /\ r.event.date \in Int
<1>1. r.event \in Reports /\ "date" \in DOMAIN r.event /\ r.event.date \in Int
  BY EventAssumption DEF Sent
<1>2. Expected(r).date = r.event.date
  BY <1>1 DEF Expected
<1> QED
  BY <1>1, <1>2, NullIsNoEvent DEF Stored

LEMMA Dates ==
  ASSUME NEW r \in Seq(Sent), NEW i \in 1..Len(r)
  PROVE  /\ Date(r, i) \in Int /\ r[i] \in Sent /\ Expected(r[i]) \in Stored
         /\ Expected(r[i]).date = Date(r, i)
<1>1. r[i] \in Sent
  OBVIOUS
<1> QED
  BY <1>1, OfSent DEF Date

LEMMA NullNotStored == Null \notin Stored
BY OfSent DEF Stored

\* In terms of dates.
LEMMA PrecedesIs ==
  \A r, i, j : Precedes(r, i, j)
                 <=> Date(r, i) < Date(r, j) \/ (Date(r, i) = Date(r, j) /\ i < j)
BY DEF Precedes, Date
-----------------------------------------------------------------------------
(* The order of the first n of r messages *)

\* The order is strict, so a permutation of it repeats no place.
LEMMA SortsOnce ==
  ASSUME NEW r \in Seq(Sent), NEW n \in 0..Len(r), NEW p, Sorts(r, p, n),
         NEW j \in 1..n, NEW k \in 1..n
  PROVE  /\ p[j] = p[k] => j = k
         /\ Precedes(r, p[j], p[k]) <=> j < k
<1>1. /\ p[j] \in 1..n /\ p[k] \in 1..n
      /\ j < k => Precedes(r, p[j], p[k])
      /\ k < j => Precedes(r, p[k], p[j])
  BY DEF Sorts
<1>2. p[j] \in 1..Len(r) /\ p[k] \in 1..Len(r)
  BY <1>1, LenProperties
<1>3. Date(r, p[j]) \in Int /\ Date(r, p[k]) \in Int
  BY <1>2, Dates
<1>4. /\ ~ (Precedes(r, p[j], p[k]) /\ Precedes(r, p[k], p[j]))
      /\ p[j] = p[k] => ~ Precedes(r, p[j], p[k]) /\ ~ Precedes(r, p[k], p[j])
  BY <1>1, <1>3, PrecedesIs
<1> QED
  BY <1>1, <1>4

\* The image of a set under a map that repeats nothing is as large.
LEMMA SameSize ==
  ASSUME NEW S, IsFiniteSet(S), NEW T, NEW f,
         \A j, k \in S : f[j] = f[k] => j = k,
         \A k \in S : f[k] \in T, \A t \in T : \E k \in S : f[k] = t
  PROVE  Cardinality(T) = Cardinality(S)
<1> DEFINE g == [k \in S |-> f[k]]
<1>1. g \in [S -> T] /\ \A k \in S : g[k] = f[k]
  OBVIOUS
<1>2. \A j, k \in S : g[j] = g[k] => j = k
  OBVIOUS
<1>3. \A t \in T : \E k \in S : g[k] = t
  OBVIOUS
<1>4. g \in Bijection(S, T)
  <2> HIDE DEF g
  <2>1. g \in Injection(S, T)
    BY <1>1, <1>2 DEF Injection, IsInjective
  <2>2. g \in Surjection(S, T)
    BY <1>1, <1>3 DEF Surjection
  <2> QED
    BY <2>1, <2>2 DEF Bijection
<1> HIDE DEF g
<1> QED
  BY <1>4, FS_Bijection DEF ExistsBijection

\* As many come before the k-th as there are before k, so InOrder finds it.
LEMMA SortsOrders ==
  ASSUME NEW r \in Seq(Sent), NEW n \in 0..Len(r), NEW p, Sorts(r, p, n)
  PROVE  InOrder(r, n) = Kept(r, p, n)
<1> DEFINE B(i) == {j \in 1..n : Precedes(r, j, i)}
<1>0. n \in Nat /\ p \in [1..n -> 1..n] /\ \A i \in 1..n : \E k \in 1..n : p[k] = i
  BY LenProperties DEF Sorts
<1>1. ASSUME NEW k \in 1..n
      PROVE  Cardinality(B(p[k])) = k - 1
  <2>1. B(p[k]) = {p[j] : j \in 1..k - 1}
    <3>1. ASSUME NEW j \in 1..k - 1
          PROVE  p[j] \in B(p[k])
      <4>1. j \in 1..n /\ j < k
        BY <1>0
      <4> QED
        BY <1>0, <4>1, SortsOnce
    <3>2. ASSUME NEW i \in B(p[k])
          PROVE  \E j \in 1..k - 1 : i = p[j]
      <4>1. PICK j \in 1..n : p[j] = i
        BY <1>0
      <4>2. j < k
        BY <4>1, SortsOnce
      <4> QED
        BY <1>0, <4>1, <4>2
    <3> QED
      BY <3>1, <3>2
  <2>2. 1..k - 1 \subseteq 1..n /\ \A i, j \in 1..k - 1 : p[i] = p[j] => i = j
    <3>1. 1..k - 1 \subseteq 1..n
      BY <1>0
    <3> QED
      BY <3>1, SortsOnce
  <2>3. Cardinality(B(p[k])) = Cardinality(1..k - 1)
    <3> DEFINE S == 1..k - 1
               T == B(p[k])
    <3>1. IsFiniteSet(S) /\ \A i, j \in S : p[i] = p[j] => i = j
      BY <1>0, <2>2, FS_Interval
    <3>2. (\A i \in S : p[i] \in T) /\ \A i \in T : \E j \in S : p[j] = i
      BY <2>1
    <3> HIDE DEF S, T
    <3>3. Cardinality(T) = Cardinality(S)
      BY <3>1, <3>2, SameSize
    <3> QED
      BY <3>3 DEF S, T
  <2>4. Cardinality(1..k - 1) = k - 1
    BY <1>0, FS_Interval
  <2> QED
    BY <2>3, <2>4
<1>2. ASSUME NEW k \in 1..n
      PROVE  (CHOOSE i \in 1..n : Cardinality(B(i)) = k - 1) = p[k]
  <2>1. p[k] \in 1..n /\ Cardinality(B(p[k])) = k - 1
    BY <1>0, <1>1
  <2>2. ASSUME NEW i \in 1..n, Cardinality(B(i)) = k - 1
        PROVE  i = p[k]
    <3>1. PICK j \in 1..n : p[j] = i
      BY <1>0
    <3>2. Cardinality(B(p[j])) = j - 1
      BY <1>1
    <3>3. j - 1 = k - 1
      BY <2>2, <3>1, <3>2
    <3> QED
      BY <3>1, <3>3
  <2> HIDE DEF B
  <2> QED
    BY <2>1, <2>2
<1>3. InOrder(r, n) = [k \in 1..n |->
                         Expected(r[CHOOSE i \in 1..n : Cardinality(B(i)) = k - 1])]
  BY DEF InOrder
<1> HIDE DEF B
<1> QED
  BY <1>2, <1>3, Zenon DEF Kept

\* The order of the first n depends on nothing else.
LEMMA OrderOfFirst ==
  ASSUME NEW r \in Seq(Sent), NEW x \in Sent, NEW n \in 0..Len(r), NEW p, Sorts(r, p, n)
  PROVE  /\ Sorts(Append(r, x), p, n)
         /\ Kept(Append(r, x), p, n) = Kept(r, p, n)
         /\ InOrder(Append(r, x), n) = InOrder(r, n)
<1> DEFINE s == Append(r, x)
<1>1. n \in Nat /\ \A i \in 1..n : s[i] = r[i]
  BY LenProperties, AppendProperties
<1> HIDE DEF s
<1>2. \A i, j \in 1..n : Precedes(s, i, j) <=> Precedes(r, i, j)
  BY <1>1 DEF Precedes
<1>3. \A k \in 1..n : p[k] \in 1..n
  BY DEF Sorts
<1>4. Sorts(s, p, n)
  BY <1>2, <1>3 DEF Sorts
<1>5. Kept(s, p, n) = Kept(r, p, n)
  BY <1>1, <1>3 DEF Kept
<1>6. s \in Seq(Sent) /\ n \in 0..Len(s)
  BY LenProperties, AppendProperties DEF s
<1>7. InOrder(s, n) = InOrder(r, n)
  BY <1>4, <1>5, <1>6, SortsOrders
<1> QED
  BY <1>4, <1>5, <1>7 DEF s

\* Message n put at place h: those before it are not later, those after it are.
LEMMA SortsOneMore ==
  ASSUME NEW r \in Seq(Sent), NEW n \in 1..Len(r), NEW p, Sorts(r, p, n - 1),
         NEW h \in 1..n,
         h > 1 => Date(r, p[h - 1]) \leq Date(r, n),
         \A k \in h..n - 1 : Date(r, n) < Date(r, p[k])
  PROVE  LET q == [k \in 1..n |-> IF k < h THEN p[k] ELSE IF k = h THEN n ELSE p[k - 1]]
         IN  Sorts(r, q, n)
<1> DEFINE q == [k \in 1..n |-> IF k < h THEN p[k] ELSE IF k = h THEN n ELSE p[k - 1]]
<1>0. n \in Nat /\ n - 1 \in 0..Len(r) /\ Len(r) \in Nat
  BY LenProperties
<1>1. /\ p \in [1..n - 1 -> 1..n - 1]
      /\ \A i \in 1..n - 1 : \E k \in 1..n - 1 : p[k] = i
      /\ \A j, k \in 1..n - 1 : j < k => Precedes(r, p[j], p[k])
  BY DEF Sorts
<1>2. \A i \in 1..n : Date(r, i) \in Int
  BY <1>0, Dates
<1>3. q \in [1..n -> 1..n]
  <2>1. ASSUME NEW k \in 1..n
        PROVE  q[k] \in 1..n
    <3>1. k < h \/ k > h => IF k < h THEN k \in 1..n - 1 ELSE k - 1 \in 1..n - 1
      BY <1>0
    <3>2. ASSUME NEW i \in 1..n - 1
          PROVE  p[i] \in 1..n
      <4>1. p[i] \in 1..n - 1
        BY <1>1
      <4> QED
        BY <1>0, <4>1
    <3> QED
      BY <3>1, <3>2
  <2> QED
    BY <2>1
<1>4. ASSUME NEW i \in 1..n
      PROVE  \E k \in 1..n : q[k] = i
  <2>1. CASE i = n
    <3>1. q[h] = n
      OBVIOUS
    <3> QED
      BY <2>1, <3>1
  <2>2. CASE i # n
    <3>1. PICK k \in 1..n - 1 : p[k] = i
      BY <1>0, <1>1, <2>2
    <3>2. k \in 1..n /\ k + 1 \in 1..n /\ k = (k + 1) - 1
      BY <1>0
    <3>3. IF k < h THEN q[k] = i ELSE q[k + 1] = i
      BY <1>0, <3>1, <3>2
    <3> QED
      BY <3>2, <3>3
  <2> QED
    BY <2>1, <2>2
<1>5. ASSUME NEW j \in 1..n, NEW k \in 1..n, j < k
      PROVE  Precedes(r, q[j], q[k])
  <2>1. CASE k < h \/ j > h \/ (j < h /\ h < k)
    <3> DEFINE jj == IF j < h THEN j ELSE j - 1
               kk == IF k < h THEN k ELSE k - 1
    <3>1. q[j] = p[jj] /\ q[k] = p[kk] /\ jj \in 1..n - 1 /\ kk \in 1..n - 1 /\ jj < kk
      BY <1>0, <1>5, <2>1
    <3> QED
      BY <1>1, <3>1
  <2>2. CASE k = h
    <3>1. q[j] = p[j] /\ q[k] = n /\ j \in 1..n - 1 /\ h - 1 \in 1..n - 1 /\ h > 1
      BY <1>0, <1>5, <2>2
    <3>2. p[j] \in 1..n - 1 /\ p[h - 1] \in 1..n - 1
      BY <1>1, <3>1
    <3>3. Date(r, p[j]) \leq Date(r, p[h - 1])
      <4>1. j = h - 1 \/ Precedes(r, p[j], p[h - 1])
        BY <1>0, <1>1, <1>5, <2>2, <3>1
      <4>2. Date(r, p[j]) \in Int /\ Date(r, p[h - 1]) \in Int
        BY <1>0, <1>2, <3>2
      <4> QED
        BY <4>1, <4>2, PrecedesIs
    <3>4. Date(r, p[j]) \in Int /\ Date(r, p[h - 1]) \in Int /\ Date(r, n) \in Int
      BY <1>0, <1>2, <3>2
    <3>5. p[j] < n
      BY <1>0, <3>2
    <3> QED
      BY <3>1, <3>3, <3>4, <3>5, PrecedesIs
  <2>3. CASE j = h
    <3>1. q[j] = n /\ q[k] = p[k - 1] /\ k - 1 \in h..n - 1
      BY <1>0, <1>5, <2>3
    <3> QED
      BY <3>1, PrecedesIs
  <2> QED
    BY <1>0, <2>1, <2>2, <2>3
<1> QED
  BY <1>3, <1>4, <1>5 DEF Sorts
-----------------------------------------------------------------------------
(* The inductive invariant *)

StoreTypes ==
  /\ reports \in Seq(Sent)
  /\ mail \in Seq(Posted)
  /\ saved \in Seq(Stored)

\* The reader sorts the event that it put at the end.
ReaderTypes ==
  /\ reader \in [at : {"get", "sort", "print", "aborted"}, text : Posted \cup {<<>>},
                 event : Stored \cup {Null}, hole : Nat]
  /\ reader.at = "sort" => reader.event \in Stored /\ reader.hole \in 1..Len(saved)

SummaryRecord ==
  [at : {"none", "count", "list", "done"}, user : Users \cup {<<>>}, i : Nat, end : Nat,
   stale : BOOLEAN, total : Nat, active : Nat, forces : Nat, listed : Seq(Stored),
   quiet : BOOLEAN]

\* The vector never shrinks, so the keyboard thread stays inside it.
SummaryTypes ==
  /\ summary \in SummaryRecord
  /\ summary.at \in {"count", "list"} =>
       summary.i \in 1..summary.end + 1 /\ summary.end \leq Len(saved)

EventTypes == StoreTypes /\ ReaderTypes /\ SummaryTypes

\* What is on its way are the texts of the messages not yet handled.
MailInv ==
  /\ Len(mail) \leq Len(reports)
  /\ \A k \in 1..Len(mail) : mail[k] \in TextsOf(reports[Handled + k])

\* Of the first n messages all but the last are in order, but for a hole at h;
\* those above it are later than the last.
Holed(s, r, p, n, h) ==
  /\ \A k \in 1..h - 1 : s[k] = Expected(r[p[k]])
  /\ \A k \in h..n - 1 : s[k + 1] = Expected(r[p[k]]) /\ Date(r, n) < Date(r, p[k])

Sorted == \E p : Sorts(reports, p, Handled) /\ saved = Kept(reports, p, Handled)

Sorting ==
  /\ Handled \in 1..Len(reports)
  /\ Len(saved) = Handled
  /\ reader.event = Expected(reports[Handled])
  /\ \E p : /\ Sorts(reports, p, Handled - 1)
            /\ Holed(saved, reports, p, Handled, reader.hole)

SortInv ==
  /\ reader.at \in {"get", "print"} => Sorted
  /\ reader.at = "sort" => Sorting

MineIn(m, s, n) == {k \in 1..n : s[k].owner = m.user}

Flagged(m, s, n, key) == {k \in 1..n : s[k].owner = m.user /\ Says(s[k], key)}

\* The numbers of m are those of the first n of s.
Counts(m, s, n) ==
  /\ m.total = Cardinality(MineIn(m, s, n))
  /\ m.active = Cardinality(Flagged(m, s, n, "active"))
  /\ m.forces = Cardinality(Flagged(m, s, n, "forces_arrival_at_scene"))

\* While no message comes in between, the keyboard thread sees one vector.
Steady == reader.at \in {"get", "print"} /\ ~ summary.stale /\ summary.end = Len(saved)

QuietInv ==
  summary.quiet =>
    /\ summary.at = "count" /\ Alive =>
         Steady /\ Counts(summary, saved, summary.i - 1) /\ summary.listed = <<>>
    /\ summary.at = "list" /\ Alive =>
         /\ Steady
         /\ Counts(summary, saved, Len(saved))
         /\ Lists(summary.listed, saved, summary.user, summary.i - 1)
    /\ summary.at = "done" =>
         \E n \in 0..Len(reports) : \E p :
           /\ Sorts(reports, p, n)
           /\ Counts(summary, Kept(reports, p, n), n)
           /\ Lists(summary.listed, Kept(reports, p, n), summary.user, n)

EventInv == EventTypes /\ MailInv /\ SortInv /\ QuietInv
-----------------------------------------------------------------------------
(* Initially *)

LEMMA NothingSorted == \A r : \E p : Sorts(r, p, 0) /\ Kept(r, p, 0) = <<>>
<1> TAKE r
<1> DEFINE p == [k \in 1..0 |-> k]
<1>1. p \in [1..0 -> 1..0] /\ \A k \in 1..0 : FALSE
  OBVIOUS
<1>2. Sorts(r, p, 0)
  BY <1>1 DEF Sorts
<1>3. Kept(r, p, 0) = <<>>
  BY <1>1 DEF Kept
<1> QED
  BY <1>2, <1>3

LEMMA EventsInit == Init => EventInv
<1> SUFFICES ASSUME Init PROVE EventInv
  OBVIOUS
<1>1. StoreTypes
  BY DEF Init, StoreTypes
<1>2. ReaderTypes
  BY DEF Init, ReaderTypes, Waiting
<1>3. SummaryTypes
  BY DEF Init, SummaryTypes, SummaryRecord, NoSummary
<1>4. MailInv
  BY DEF Init, MailInv
<1>5. SortInv
  <2>1. Handled = 0
    BY DEF Init, Handled
  <2>2. PICK p : Sorts(reports, p, 0) /\ Kept(reports, p, 0) = <<>>
    BY NothingSorted
  <2>3. Sorted
    BY <2>1, <2>2 DEF Init, Sorted
  <2> QED
    BY <2>3 DEF Init, SortInv, Waiting
<1>6. QuietInv
  BY DEF Init, QuietInv, NoSummary
<1> QED
  BY <1>1, <1>2, <1>3, <1>4, <1>5, <1>6 DEF EventInv, EventTypes
-----------------------------------------------------------------------------
(* The fields of a summary after each step on it *)

LEMMA SummariseFields ==
  ASSUME NEW u \in Users, Summarise(u), Len(saved) \in Nat
  PROVE  /\ summary' \in SummaryRecord /\ summary'.at = "count" /\ summary'.user = u
         /\ summary'.i = 1 /\ summary'.end = Len(saved) /\ summary'.stale = FALSE
         /\ summary'.total = 0 /\ summary'.active = 0 /\ summary'.forces = 0
         /\ summary'.listed = <<>> /\ summary'.quiet = (reader.at \in {"get", "print"})
<1> DEFINE m == NoSummary
           n == Len(saved)
           b == reader.at \in {"get", "print"}
           k == [m EXCEPT !.at = "count", !.user = u, !.end = n]
<1>1. summary' = [k EXCEPT !.quiet = b] /\ n \in Nat
  BY DEF Summarise
<1>2. /\ m \in SummaryRecord /\ m.i = 1 /\ m.stale = FALSE
      /\ m.total = 0 /\ m.active = 0 /\ m.forces = 0
      /\ m.listed = <<>>
  BY DEF NoSummary, SummaryRecord
<1>3. b \in BOOLEAN
  OBVIOUS
<1> HIDE DEF m, n, b
<1>4. k \in SummaryRecord
  BY <1>1, <1>2 DEF SummaryRecord
<1>5. /\ k.at = "count" /\ k.user = u /\ k.i = 1 /\ k.end = n
      /\ k.stale = FALSE /\ k.total = 0 /\ k.active = 0 /\ k.forces = 0 /\ k.listed = <<>>
  BY <1>2 DEF SummaryRecord
<1> HIDE DEF k
<1>6. summary' \in SummaryRecord
  BY <1>1, <1>3, <1>4 DEF SummaryRecord
<1>7. /\ summary'.at = "count" /\ summary'.user = u /\ summary'.i = 1 /\ summary'.end = n
      /\ summary'.stale = FALSE /\ summary'.total = 0 /\ summary'.active = 0
      /\ summary'.forces = 0 /\ summary'.listed = <<>>
  BY <1>1, <1>4, <1>5 DEF SummaryRecord
<1>8. summary'.quiet = b
  BY <1>1, <1>4 DEF SummaryRecord
<1> QED
  BY <1>6, <1>7, <1>8 DEF n, b

LEMMA RecordDisturbed ==
  ASSUME summary \in SummaryRecord, NEW b \in BOOLEAN,
         summary' = [summary EXCEPT !.quiet = FALSE, !.stale = @ \/ b]
  PROVE  /\ summary' \in SummaryRecord
         /\ summary'.at = summary.at /\ summary'.i = summary.i /\ summary'.end = summary.end
         /\ summary'.quiet = FALSE
<1> DEFINE k == [summary EXCEPT !.quiet = FALSE]
           c == summary.stale \/ b
<1>1. k \in SummaryRecord
  BY Zenon DEF SummaryRecord
<1>2. summary' = [k EXCEPT !.stale = c]
  BY Zenon DEF SummaryRecord
<1>3. k.at = summary.at /\ k.i = summary.i /\ k.end = summary.end /\ k.quiet = FALSE
  BY DEF SummaryRecord
<1>4. c \in BOOLEAN
  BY DEF SummaryRecord
<1> HIDE DEF k, c
<1>5. summary' \in SummaryRecord
  BY <1>1, <1>2, <1>4 DEF SummaryRecord
<1>6. summary'.at = k.at /\ summary'.i = k.i /\ summary'.end = k.end /\ summary'.quiet = k.quiet
  BY <1>1, <1>2 DEF SummaryRecord
<1> QED
  BY <1>3, <1>5, <1>6

LEMMA CountFields ==
  ASSUME summary \in SummaryRecord, Count
  PROVE  /\ summary' \in SummaryRecord /\ summary'.at = "count" /\ summary'.user = summary.user
         /\ summary'.i = summary.i + 1 /\ summary'.end = summary.end
         /\ summary'.stale = summary.stale /\ summary'.quiet = summary.quiet
         /\ summary'.listed = summary.listed
         /\ \E e \in Reads(summary.i) :
              /\ summary'.total = summary.total + (IF Mine(e) THEN 1 ELSE 0)
              /\ summary'.active = summary.active + (IF Mine(e) /\ Says(e, "active") THEN 1 ELSE 0)
              /\ summary'.forces = summary.forces
                   + (IF Mine(e) /\ Says(e, "forces_arrival_at_scene") THEN 1 ELSE 0)
<1> DEFINE One(b) == IF b THEN 1 ELSE 0
<1>1. PICK e \in Reads(summary.i) :
        summary' = [summary EXCEPT
                      !.i = @ + 1,
                      !.total = @ + One(Mine(e)),
                      !.active = @ + One(Mine(e) /\ Says(e, "active")),
                      !.forces = @ + One(Mine(e) /\ Says(e, "forces_arrival_at_scene"))]
  BY DEF Count
<1> DEFINE i == summary.i + 1
           t == summary.total + One(Mine(e))
           a == summary.active + One(Mine(e) /\ Says(e, "active"))
           f == summary.forces + One(Mine(e) /\ Says(e, "forces_arrival_at_scene"))
<1>2. i \in Nat /\ t \in Nat /\ a \in Nat /\ f \in Nat
  <2>1. \A b : One(b) \in {0, 1}
    OBVIOUS
  <2> HIDE DEF One
  <2>2. /\ summary.i \in Nat /\ summary.total \in Nat /\ summary.active \in Nat
        /\ summary.forces \in Nat
    BY DEF SummaryRecord
  <2>3. /\ One(Mine(e)) \in Nat /\ One(Mine(e) /\ Says(e, "active")) \in Nat
        /\ One(Mine(e) /\ Says(e, "forces_arrival_at_scene")) \in Nat
    BY <2>1
  <2> QED
    BY <2>2, <2>3
<1>3. summary' = [summary EXCEPT !.i = i, !.total = t, !.active = a, !.forces = f]
  BY <1>1
<1>4. summary.at = "count"
  BY DEF Count
<1> HIDE DEF i, t, a, f
<1>5. summary' \in SummaryRecord
  BY <1>2, <1>3 DEF SummaryRecord
<1>6. /\ summary'.at = summary.at /\ summary'.user = summary.user
      /\ summary'.i = i /\ summary'.end = summary.end
      /\ summary'.total = t /\ summary'.active = a /\ summary'.forces = f
      /\ summary'.listed = summary.listed
  BY <1>3 DEF SummaryRecord
<1>7. summary'.stale = summary.stale /\ summary'.quiet = summary.quiet
  BY <1>3 DEF SummaryRecord
<1> QED
  BY <1>4, <1>5, <1>6, <1>7 DEF i, t, a, f

LEMMA CountedFields ==
  ASSUME summary \in SummaryRecord, Counted, Len(saved) \in Nat
  PROVE  /\ summary' \in SummaryRecord /\ summary'.at = "list" /\ summary'.user = summary.user
         /\ summary'.i = 1 /\ summary'.end = Len(saved) /\ summary'.stale = FALSE
         /\ summary'.total = summary.total /\ summary'.active = summary.active
         /\ summary'.forces = summary.forces /\ summary'.listed = summary.listed
         /\ summary'.quiet = summary.quiet
<1> DEFINE n == Len(saved)
<1>1. n \in Nat /\ summary' = [summary EXCEPT !.at = "list", !.i = 1, !.end = n, !.stale = FALSE]
  BY DEF Counted
<1> HIDE DEF n
<1>2. summary' \in SummaryRecord
  BY <1>1 DEF SummaryRecord
<1>3. /\ summary'.at = "list" /\ summary'.user = summary.user /\ summary'.i = 1
      /\ summary'.end = n /\ summary'.total = summary.total /\ summary'.active = summary.active
      /\ summary'.forces = summary.forces /\ summary'.listed = summary.listed
  BY <1>1 DEF SummaryRecord
<1>4. summary'.stale = FALSE /\ summary'.quiet = summary.quiet
  BY <1>1 DEF SummaryRecord
<1> QED
  BY <1>2, <1>3, <1>4 DEF n

LEMMA ListFields ==
  ASSUME summary \in SummaryRecord, List, \A e \in Reads(summary.i) : Mine(e) => e \in Stored
  PROVE  /\ summary' \in SummaryRecord /\ summary'.at = "list" /\ summary'.user = summary.user
         /\ summary'.i = summary.i + 1 /\ summary'.end = summary.end
         /\ summary'.stale = summary.stale /\ summary'.quiet = summary.quiet
         /\ summary'.total = summary.total /\ summary'.active = summary.active
         /\ summary'.forces = summary.forces
         /\ \E e \in Reads(summary.i) :
              summary'.listed = IF Mine(e) THEN Append(summary.listed, e) ELSE summary.listed
<1>1. PICK e \in Reads(summary.i) :
        summary' = [summary EXCEPT !.i = @ + 1,
                                   !.listed = IF Mine(e) THEN Append(@, e) ELSE @]
  BY DEF List
<1> DEFINE i == summary.i + 1
           l == IF Mine(e) THEN Append(summary.listed, e) ELSE summary.listed
<1>2. i \in Nat /\ l \in Seq(Stored)
  <2>1. summary.i \in Nat /\ summary.listed \in Seq(Stored)
    BY DEF SummaryRecord
  <2>2. Mine(e) => e \in Stored
    BY <1>1
  <2> QED
    BY <2>1, <2>2
<1>3. summary' = [summary EXCEPT !.i = i, !.listed = l]
  BY <1>1
<1>4. summary.at = "list"
  BY DEF List
<1> HIDE DEF i, l
<1>5. summary' \in SummaryRecord
  BY <1>2, <1>3 DEF SummaryRecord
<1>6. /\ summary'.at = summary.at /\ summary'.user = summary.user
      /\ summary'.i = i /\ summary'.end = summary.end /\ summary'.total = summary.total
      /\ summary'.active = summary.active /\ summary'.forces = summary.forces
      /\ summary'.listed = l
  BY <1>3 DEF SummaryRecord
<1>7. summary'.stale = summary.stale /\ summary'.quiet = summary.quiet
  BY <1>3 DEF SummaryRecord
<1> QED
  BY <1>1, <1>4, <1>5, <1>6, <1>7 DEF i, l

LEMMA ListedFields ==
  ASSUME summary \in SummaryRecord, Listed
  PROVE  /\ summary' \in SummaryRecord /\ summary'.at = "done" /\ summary'.user = summary.user
         /\ summary'.total = summary.total /\ summary'.active = summary.active
         /\ summary'.forces = summary.forces /\ summary'.listed = summary.listed
         /\ summary'.quiet = summary.quiet
<1>1. summary' = [summary EXCEPT !.at = "done"]
  BY DEF Listed
<1>2. summary' \in SummaryRecord
  BY <1>1 DEF SummaryRecord
<1>3. /\ summary'.at = "done" /\ summary'.user = summary.user
      /\ summary'.total = summary.total /\ summary'.active = summary.active
      /\ summary'.forces = summary.forces /\ summary'.listed = summary.listed
  BY <1>1 DEF SummaryRecord
<1>4. summary'.quiet = summary.quiet
  BY <1>1 DEF SummaryRecord
<1> QED
  BY <1>2, <1>3, <1>4
-----------------------------------------------------------------------------
(* Types, and what is on its way *)

\* The text that arrives is that of the next message, and is read as it.
LEMMA ReceiveFacts ==
  ASSUME TextsSurvive, StoreTypes, MailInv, Receive
  PROVE  /\ Handled \in Nat /\ Handled + 1 \in 1..Len(reports) /\ Handled' = Handled + 1
         /\ Head(mail) \in Posted /\ mail' \in Seq(Posted)
         /\ ParseEvent(Head(mail)) = Expected(reports[Handled + 1])
         /\ reports[Handled + 1] \in Sent
         /\ Expected(reports[Handled + 1]) \in Stored
<1>1. /\ mail # <<>> /\ ~ Undated(Head(mail)) /\ mail' = Tail(mail) /\ reports' = reports
      /\ mail \in Seq(Posted) /\ reports \in Seq(Sent) /\ Len(mail) \leq Len(reports)
  BY DEF Receive, StoreTypes, MailInv
<1>2. /\ Len(mail) \in Nat \ {0} /\ Head(mail) = mail[1] /\ Head(mail) \in Posted
      /\ Tail(mail) \in Seq(Posted) /\ Len(Tail(mail)) = Len(mail) - 1
      /\ Len(reports) \in Nat
  BY <1>1
<1>3. Handled \in Nat /\ Handled + 1 \in 1..Len(reports) /\ Handled' = Handled + 1
  BY <1>1, <1>2 DEF Handled
<1> DEFINE r == reports[Handled + 1]
<1>4. r \in Sent
  BY <1>1, <1>3
<1>5. mail[1] \in TextsOf(r)
  BY <1>2 DEF MailInv
<1>6. ParseEvent(Head(mail)) = Expected(r)
  BY <1>1, <1>2, <1>4, <1>5 DEF TextsSurvive
<1>7. Expected(r) \in Stored
  BY <1>4, OfSent
<1> HIDE DEF r
<1> QED
  BY <1>1, <1>2, <1>3, <1>4, <1>6, <1>7 DEF r

\* Only the flags of a summary are disturbed.
LEMMA DisturbedFacts ==
  ASSUME SummaryTypes, Receive \/ Shift \/ Place,
         Len(saved) \in Nat, Len(saved') \in Nat, Len(saved) \leq Len(saved')
  PROVE  /\ SummaryTypes'
         /\ AtPrompt => summary' = summary
         /\ ~ AtPrompt => summary'.quiet = FALSE /\ summary'.at = summary.at
<1>0. PICK moved \in BOOLEAN : Disturbed(moved)
  <2>1. CASE Receive
    <3>1. Disturbed(Len(saved) + 1 > capacity)
      BY <2>1 DEF Receive
    <3> DEFINE m == Len(saved) + 1 > capacity
    <3>2. Disturbed(m) /\ m \in BOOLEAN
      BY <3>1
    <3> HIDE DEF m
    <3> QED
      BY <3>2
  <2>2. CASE Shift \/ Place
    <3>1. Disturbed(FALSE) /\ FALSE \in BOOLEAN
      BY <2>2 DEF Shift, Place
    <3> QED
      BY <3>1, Zenon
  <2> QED
    BY <2>1, <2>2
<1>1. CASE AtPrompt
  BY <1>0, <1>1 DEF SummaryTypes, Disturbed, AtPrompt
<1>2. CASE ~ AtPrompt
  <2>1. summary' = [summary EXCEPT !.quiet = FALSE, !.stale = @ \/ moved]
    BY <1>0, <1>2 DEF Disturbed
  <2>2. summary \in SummaryRecord
    BY DEF SummaryTypes
  <2>3. /\ summary' \in SummaryRecord
        /\ summary'.at = summary.at /\ summary'.i = summary.i /\ summary'.end = summary.end
        /\ summary'.quiet = FALSE
    BY <2>1, <2>2, RecordDisturbed
  <2>4. summary.end \in Nat
    BY <2>2 DEF SummaryRecord
  <2> QED
    BY <1>2, <2>3, <2>4 DEF SummaryTypes
<1> QED
  BY <1>1, <1>2

\* What a step of the keyboard thread reads is stored, or nobody's.
LEMMA ReadsFacts ==
  ASSUME EventTypes, summary.at \in {"count", "list"}, summary.i \leq summary.end,
         NEW e \in Reads(summary.i)
  PROVE  /\ summary.i \in 1..Len(saved) /\ saved[summary.i] \in Stored
         /\ e \in Stored \/ e = Null
         /\ ~ summary.stale => e = saved[summary.i] /\ e \in Stored /\ e # Null
         /\ Mine(e) => e \in Stored
<1>1. summary.i \in 1..Len(saved) /\ saved \in Seq(Stored)
  <2>1. saved \in Seq(Stored) /\ summary.i \in 1..summary.end + 1 /\ summary.end \leq Len(saved)
    BY DEF EventTypes, StoreTypes, SummaryTypes
  <2>2. summary \in SummaryRecord
    BY DEF EventTypes, SummaryTypes
  <2>3. summary.end \in Nat /\ Len(saved) \in Nat
    BY <2>1, <2>2, LenProperties DEF SummaryRecord
  <2> QED
    BY <2>1, <2>3
<1>2. saved[summary.i] \in Stored
  BY <1>1
<1> QED
  BY <1>1, <1>2, NullNotStored DEF Reads, Mine

LEMMA NextTypes ==
  ASSUME TextsSurvive, EventTypes, MailInv, Next
  PROVE  EventTypes'
<1> USE DEF EventTypes
<1>0. Len(saved) \in Nat /\ summary \in SummaryRecord /\ summary.end \in Nat /\ summary.i \in Nat
  <2>1. Len(saved) \in Nat
    BY LenProperties DEF StoreTypes
  <2>2. summary \in SummaryRecord
    BY DEF SummaryTypes
  <2> QED
    BY <2>1, <2>2 DEF SummaryRecord
<1>1. CASE Join \/ Exit
  BY <1>1 DEF Join, Exit, StoreTypes, ReaderTypes, SummaryTypes
<1>2. ASSUME NEW u \in Users, Summarise(u) PROVE EventTypes'
  <2>4. summary' \in SummaryRecord /\ summary'.i = 1 /\ summary'.end = Len(saved)
    BY <1>0, <1>2, SummariseFields
  <2>5. saved' = saved
    BY <1>2 DEF Summarise
  <2>2. SummaryTypes'
    BY <1>0, <2>4, <2>5 DEF SummaryTypes
  <2> QED
    BY <1>2, <2>2 DEF Summarise, StoreTypes, ReaderTypes
<1>3. ASSUME NEW u \in Users, NEW e \in Reports, Report(u, e) PROVE EventTypes'
  <2> DEFINE x == [user |-> u, event |-> e]
  <2>1. PICK t \in TextsOf(x) : mail' = Append(mail, t)
    BY <1>3 DEF Report, TextsOf
  <2>2. x \in Sent /\ reports' = Append(reports, x) /\ saved' = saved
    BY <1>3 DEF Report, Sent
  <2> HIDE DEF x
  <2>3. t \in Posted
    BY <2>2 DEF Posted
  <2>4. StoreTypes'
    BY <2>1, <2>2, <2>3 DEF StoreTypes
  <2> QED
    BY <1>3, <2>4 DEF Report, ReaderTypes, SummaryTypes
<1>4. CASE Receive
  <2> DEFINE e == ParseEvent(Head(mail))
             n == Len(saved) + 1
  <2>1. e \in Stored /\ Head(mail) \in Posted /\ mail' \in Seq(Posted)
    BY <1>4, ReceiveFacts
  <2>2. /\ saved' = Append(saved, e) /\ reports' = reports
        /\ reader' = [at |-> "sort", text |-> Head(mail), event |-> e, hole |-> n]
        /\ Disturbed(n > capacity)
    BY <1>4 DEF Receive
  <2> HIDE DEF e
  <2>3. saved' \in Seq(Stored) /\ Len(saved') = n
    BY <2>1, <2>2 DEF StoreTypes
  <2>4. ReaderTypes'
    BY <1>0, <2>1, <2>2, <2>3 DEF ReaderTypes
  <2>5. SummaryTypes'
    <3>1. Len(saved') \in Nat /\ Len(saved) \leq Len(saved')
      BY <1>0, <2>3
    <3> QED
      BY <1>0, <1>4, <3>1, DisturbedFacts
  <2> QED
    BY <2>1, <2>2, <2>3, <2>4, <2>5 DEF StoreTypes
<1>5. CASE ReceiveThrows \/ SummaryCrashes
  BY <1>5 DEF ReceiveThrows, SummaryCrashes, StoreTypes, ReaderTypes, SummaryTypes
<1>6. CASE Shift
  <2>1. /\ reader.hole \in 1..Len(saved) /\ reader.hole > 1 /\ saved \in Seq(Stored)
        /\ saved' = [saved EXCEPT ![reader.hole] = saved[reader.hole - 1]]
        /\ reader' = [reader EXCEPT !.hole = @ - 1]
        /\ reports' = reports /\ mail' = mail /\ Disturbed(FALSE)
    BY <1>6 DEF Shift, Later, ReaderTypes, StoreTypes
  <2>2. saved[reader.hole - 1] \in Stored
    BY <2>1
  <2>3. saved' \in Seq(Stored) /\ Len(saved') = Len(saved)
    BY <2>1, <2>2
  <2>4. ReaderTypes'
    BY <1>0, <1>6, <2>1, <2>3 DEF ReaderTypes, Shift
  <2>5. SummaryTypes'
    BY <1>0, <1>6, <2>3, DisturbedFacts
  <2> QED
    BY <2>1, <2>3, <2>4, <2>5 DEF StoreTypes
<1>7. CASE Place
  <2>1. /\ reader.hole \in 1..Len(saved) /\ saved \in Seq(Stored) /\ reader.event \in Stored
        /\ saved' = [saved EXCEPT ![reader.hole] = reader.event]
        /\ reader' = [reader EXCEPT !.at = "print"]
        /\ reports' = reports /\ mail' = mail /\ Disturbed(FALSE)
    BY <1>7 DEF Place, ReaderTypes, StoreTypes
  <2>3. saved' \in Seq(Stored) /\ Len(saved') = Len(saved)
    BY <2>1
  <2>4. ReaderTypes'
    BY <2>1 DEF ReaderTypes
  <2>5. SummaryTypes'
    BY <1>0, <1>7, <2>3, DisturbedFacts
  <2> QED
    BY <2>1, <2>3, <2>4, <2>5 DEF StoreTypes
<1>8. CASE Show
  BY <1>8 DEF Show, Waiting, StoreTypes, ReaderTypes, SummaryTypes
<1>9. CASE Count
  <2>1. /\ summary' \in SummaryRecord /\ summary'.i = summary.i + 1
        /\ summary'.end = summary.end /\ summary'.at = summary.at
    BY <1>0, <1>9, CountFields DEF Count
  <2>2. SummaryTypes'
    BY <1>0, <1>9, <2>1 DEF Count, SummaryTypes
  <2> QED
    BY <1>9, <2>2 DEF Count, StoreTypes, ReaderTypes
<1>10. CASE Counted
  <2>1. summary' \in SummaryRecord /\ summary'.i = 1 /\ summary'.end = Len(saved)
    BY <1>0, <1>10, CountedFields
  <2>2. SummaryTypes'
    BY <1>0, <1>10, <2>1 DEF Counted, SummaryTypes
  <2> QED
    BY <1>10, <2>2 DEF Counted, StoreTypes, ReaderTypes
<1>11. CASE List
  <2>1. \A e \in Reads(summary.i) : Mine(e) => e \in Stored
    BY <1>11, ReadsFacts DEF List
  <2>2. /\ summary' \in SummaryRecord /\ summary'.i = summary.i + 1
        /\ summary'.end = summary.end /\ summary'.at = summary.at
    BY <1>0, <1>11, <2>1, ListFields DEF List
  <2>3. SummaryTypes'
    BY <1>0, <1>11, <2>2 DEF List, SummaryTypes
  <2> QED
    BY <1>11, <2>3 DEF List, StoreTypes, ReaderTypes
<1>12. CASE Listed
  <2>1. summary' \in SummaryRecord /\ summary'.at = "done"
    BY <1>0, <1>12, ListedFields
  <2>2. SummaryTypes'
    BY <2>1 DEF SummaryTypes
  <2> QED
    BY <1>12, <2>2 DEF Listed, StoreTypes, ReaderTypes
<1> QED
  BY <1>1, <1>2, <1>3, <1>4, <1>5, <1>6, <1>7, <1>8, <1>9, <1>10, <1>11, <1>12 DEF Next

LEMMA NextMail ==
  ASSUME StoreTypes, MailInv, Next
  PROVE  MailInv'
<1>0. /\ mail \in Seq(Posted) /\ reports \in Seq(Sent) /\ Len(mail) \in Nat /\ Len(reports) \in Nat
      /\ Len(mail) \leq Len(reports)
  BY LenProperties DEF StoreTypes, MailInv
<1>1. CASE UNCHANGED <<mail, reports>>
  BY <1>1 DEF MailInv, Handled
<1>2. ASSUME NEW u \in Users, NEW e \in Reports, Report(u, e) PROVE MailInv'
  <2> DEFINE x == [user |-> u, event |-> e]
  <2>1. PICK t \in TextsOf(x) : mail' = Append(mail, t)
    BY <1>2 DEF Report, TextsOf
  <2>2. reports' = Append(reports, x) /\ t \in Posted /\ x \in Sent
    BY <1>2 DEF Report, Posted, Sent
  <2> HIDE DEF x
  <2>3. /\ Len(mail') = Len(mail) + 1 /\ Len(reports') = Len(reports) + 1
        /\ \A k \in 1..Len(mail) : mail'[k] = mail[k]
        /\ mail'[Len(mail) + 1] = t
        /\ \A k \in 1..Len(reports) : reports'[k] = reports[k]
        /\ reports'[Len(reports) + 1] = x
    BY <1>0, <2>1, <2>2
  <2>4. Handled' = Handled /\ Handled = Len(reports) - Len(mail)
    BY <1>0, <2>3 DEF Handled
  <2>5. ASSUME NEW k \in 1..Len(mail')
        PROVE  mail'[k] \in TextsOf(reports'[Handled' + k])
    <3>1. CASE k = Len(mail) + 1
      <4>1. Handled' + k = Len(reports) + 1
        BY <1>0, <2>4, <3>1
      <4> QED
        BY <2>2, <2>3, <3>1, <4>1
    <3>2. CASE k # Len(mail) + 1
      <4>1. k \in 1..Len(mail) /\ Handled + k \in 1..Len(reports)
        BY <1>0, <2>3, <2>4, <3>2
      <4>2. mail[k] \in TextsOf(reports[Handled + k])
        BY <4>1 DEF MailInv
      <4> QED
        BY <2>3, <2>4, <4>1, <4>2
    <3> QED
      BY <3>1, <3>2
  <2>6. Len(mail') \leq Len(reports')
    BY <1>0, <2>3
  <2> QED
    BY <2>5, <2>6 DEF MailInv
<1>3. CASE Receive
  <2>1. mail' = Tail(mail) /\ reports' = reports /\ mail # <<>>
    BY <1>3 DEF Receive
  <2>2. /\ Len(mail') = Len(mail) - 1
        /\ \A k \in 1..Len(mail') : k + 1 \in 1..Len(mail) /\ mail'[k] = mail[k + 1]
    BY <1>0, <2>1, HeadTailProperties
  <2>3. Handled' = Handled + 1 /\ Handled \in Int
    BY <1>0, <2>1, <2>2 DEF Handled
  <2>4. ASSUME NEW k \in 1..Len(mail')
        PROVE  mail'[k] \in TextsOf(reports'[Handled' + k])
    <3>1. /\ k + 1 \in 1..Len(mail) /\ mail'[k] = mail[k + 1]
          /\ Handled' + k = Handled + (k + 1)
      <4>1. k + 1 \in 1..Len(mail) /\ mail'[k] = mail[k + 1]
        BY <2>2, Zenon
      <4>2. k \in Int
        OBVIOUS
      <4>3. Handled' + k = Handled + (k + 1)
        BY <2>3, <4>2
      <4> QED
        BY <4>1, <4>3
    <3>2. mail[k + 1] \in TextsOf(reports[Handled + (k + 1)])
      BY <3>1 DEF MailInv
    <3> QED
      BY <2>1, <3>1, <3>2
  <2>5. Len(mail') \leq Len(reports')
    BY <1>0, <2>1, <2>2
  <2> QED
    BY <2>4, <2>5 DEF MailInv
<1> QED
  BY <1>1, <1>2, <1>3 DEF Next, Join, Exit, Summarise, ReceiveThrows, Shift, Place, Show, Count,
     Counted, List, Listed, SummaryCrashes
-----------------------------------------------------------------------------
(* The vector is in order, but for the hole *)

LEMMA HandledFacts ==
  ASSUME StoreTypes, MailInv
  PROVE  /\ Handled \in Nat /\ Handled \in 0..Len(reports) /\ Len(reports) \in Nat
         /\ reports \in Seq(Sent) /\ saved \in Seq(Stored) /\ Len(saved) \in Nat
<1>1. /\ Len(mail) \in Nat /\ Len(reports) \in Nat /\ reports \in Seq(Sent)
      /\ saved \in Seq(Stored) /\ Len(saved) \in Nat
  BY LenProperties DEF StoreTypes
<1> QED
  BY <1>1 DEF Handled, MailInv

LEMMA ReportFacts ==
  ASSUME StoreTypes, MailInv, NEW u \in Users, NEW e \in Reports, Report(u, e)
  PROVE  /\ Handled' = Handled
         /\ \E x \in Sent : reports' = Append(reports, x)
<1>1. PICK t : mail' = Append(mail, t)
  BY DEF Report
<1> DEFINE x == [user |-> u, event |-> e]
<1>2. reports' = Append(reports, x) /\ x \in Sent
  BY DEF Report, Sent
<1> HIDE DEF x
<1>3. Len(mail') = Len(mail) + 1 /\ Len(reports') = Len(reports) + 1
  BY <1>1, <1>2 DEF StoreTypes
<1>4. Len(mail) \in Nat /\ Len(reports) \in Nat
  BY LenProperties DEF StoreTypes
<1> QED
  BY <1>2, <1>3, <1>4 DEF Handled

\* A sequence of the events in the order p.
LEMMA KeptFacts ==
  ASSUME NEW r \in Seq(Sent), NEW n \in 0..Len(r), NEW p, Sorts(r, p, n)
  PROVE  /\ Kept(r, p, n) \in Seq(Stored) /\ Len(Kept(r, p, n)) = n
         /\ \A k \in 1..n : /\ p[k] \in 1..n /\ p[k] \in 1..Len(r)
                            /\ Kept(r, p, n)[k] = Expected(r[p[k]])
<1>1. n \in Nat /\ Len(r) \in Nat /\ \A k \in 1..n : p[k] \in 1..n
  <2>1. Len(r) \in Nat
    BY LenProperties
  <2>2. p \in [1..n -> 1..n]
    BY DEF Sorts
  <2> QED
    BY <2>1, <2>2
<1>2. \A k \in 1..n : p[k] \in 1..Len(r) /\ Expected(r[p[k]]) \in Stored
  BY <1>1, Dates
<1>3. Kept(r, p, n) \in [1..n -> Stored]
  BY <1>2 DEF Kept
<1>4. Kept(r, p, n) \in Seq(Stored) /\ Len(Kept(r, p, n)) = n
  BY <1>1, <1>3
<1> QED
  BY <1>1, <1>2, <1>4 DEF Kept

LEMMA ReportSorts ==
  ASSUME EventTypes, MailInv, SortInv, NEW u \in Users, NEW e \in Reports, Report(u, e)
  PROVE  SortInv'
<1>1. PICK x \in Sent : reports' = Append(reports, x)
  BY ReportFacts DEF EventTypes
<1>2. /\ Handled' = Handled /\ Handled \in 0..Len(reports) /\ Handled \in Nat
      /\ reports \in Seq(Sent) /\ Len(reports) \in Nat
  BY ReportFacts, HandledFacts DEF EventTypes
<1>3. saved' = saved /\ reader' = reader
  BY DEF Report
<1>4. ASSUME reader.at \in {"get", "print"} PROVE Sorted'
  <2>1. PICK p : Sorts(reports, p, Handled) /\ saved = Kept(reports, p, Handled)
    BY <1>4 DEF SortInv, Sorted
  <2>2. Sorts(reports', p, Handled) /\ Kept(reports', p, Handled) = Kept(reports, p, Handled)
    BY <1>1, <1>2, <2>1, OrderOfFirst
  <2> QED
    BY <1>2, <1>3, <2>1, <2>2 DEF Sorted
<1>5. ASSUME reader.at = "sort" PROVE Sorting'
  <2> DEFINE n == Handled
  <2>1. /\ n \in 1..Len(reports) /\ Len(saved) = n /\ reader.event = Expected(reports[n])
        /\ reader.hole \in 1..n
    BY <1>5 DEF SortInv, Sorting, EventTypes, ReaderTypes
  <2>2. PICK p : Sorts(reports, p, n - 1) /\ Holed(saved, reports, p, n, reader.hole)
    BY <1>5 DEF SortInv, Sorting
  <2>3. n - 1 \in 0..Len(reports) /\ n \in Nat
    BY <1>2, <2>1
  <2>4. Sorts(reports', p, n - 1)
    BY <1>1, <1>2, <2>2, <2>3, OrderOfFirst
  <2>5. \A i \in 1..Len(reports) : reports'[i] = reports[i]
    BY <1>1, <1>2, AppendProperties
  <2>6. \A k \in 1..n - 1 : p[k] \in 1..Len(reports)
    BY <1>2, <2>2, <2>3, KeptFacts
  <2>7. Holed(saved, reports', p, n, reader.hole)
    <3>1. reader.hole \in 1..n
      BY <2>1
    <3>2. \A k \in 1..reader.hole - 1 : k \in 1..n - 1
      BY <2>3, <3>1
    <3>3. \A k \in reader.hole..n - 1 : k \in 1..n - 1
      BY <2>3, <3>1
    <3> HIDE DEF n
    <3> QED
      BY <2>1, <2>2, <2>5, <2>6, <3>2, <3>3 DEF Holed, Date
  <2>8. n \in 1..Len(reports') /\ reports'[n] = reports[n]
    BY <1>1, <1>2, <2>1, <2>5, AppendProperties
  <2> HIDE DEF n
  <2>9. Handled' = n
    BY <1>2 DEF n
  <2> QED
    BY <1>3, <2>1, <2>4, <2>7, <2>8, <2>9 DEF Sorting
<1> QED
  BY <1>3, <1>4, <1>5 DEF SortInv

LEMMA ReceiveSorts ==
  ASSUME TextsSurvive, EventTypes, MailInv, SortInv, Receive
  PROVE  SortInv'
<1> DEFINE n == Handled + 1
           h == Len(saved) + 1
           e == ParseEvent(Head(mail))
<1>1. /\ Handled \in Nat /\ n \in 1..Len(reports) /\ Handled' = n
      /\ e = Expected(reports[n]) /\ e \in Stored
  BY ReceiveFacts DEF EventTypes
<1>2. /\ reader.at = "get" /\ saved' = Append(saved, e) /\ reports' = reports
      /\ reader' = [at |-> "sort", text |-> Head(mail), event |-> e, hole |-> h]
  BY DEF Receive
<1>3. PICK p : Sorts(reports, p, Handled) /\ saved = Kept(reports, p, Handled)
  BY <1>2 DEF SortInv, Sorted
<1>4. /\ saved \in Seq(Stored) /\ Len(saved) = Handled
      /\ \A k \in 1..Handled : saved[k] = Expected(reports[p[k]])
  BY <1>3, HandledFacts, KeptFacts DEF EventTypes
<1> HIDE DEF e
<1>5. /\ Len(saved') = n /\ h = n /\ n - 1 = Handled
      /\ \A k \in 1..Handled : saved'[k] = saved[k]
  BY <1>1, <1>2, <1>4, AppendProperties
<1>6. Holed(saved', reports, p, n, n)
  <2>1. \A k \in n..n - 1 : FALSE
    BY <1>1
  <2> QED
    BY <1>4, <1>5, <2>1 DEF Holed
<1>7. /\ reader'.at = "sort" /\ reader'.event = e /\ reader'.hole = n
  BY <1>2, <1>5
<1> HIDE DEF n, h
<1>8. Sorting'
  BY <1>1, <1>2, <1>3, <1>5, <1>6, <1>7 DEF Sorting
<1> QED
  BY <1>7, <1>8 DEF SortInv

LEMMA ShiftSorts ==
  ASSUME EventTypes, MailInv, SortInv, Shift
  PROVE  SortInv'
<1> DEFINE n == Handled
           h == reader.hole
<1>1. /\ reader.at = "sort" /\ h > 1 /\ reader.event.date < saved[h - 1].date
      /\ saved' = [saved EXCEPT ![h] = saved[h - 1]]
      /\ reader' = [reader EXCEPT !.hole = h - 1]
      /\ reports' = reports /\ mail' = mail
  BY DEF Shift, Later
<1>2. /\ n \in 1..Len(reports) /\ Len(saved) = n /\ reader.event = Expected(reports[n])
      /\ h \in 1..n
  BY <1>1 DEF SortInv, Sorting, EventTypes, ReaderTypes
<1>3. PICK p : Sorts(reports, p, n - 1) /\ Holed(saved, reports, p, n, h)
  BY <1>1 DEF SortInv, Sorting
<1>4. /\ saved \in Seq(Stored) /\ reports \in Seq(Sent) /\ n \in Nat /\ Len(reports) \in Nat
  BY HandledFacts DEF EventTypes
<1>5. /\ reader'.at = "sort" /\ reader'.event = reader.event /\ reader'.hole = h - 1
  BY <1>1 DEF EventTypes, ReaderTypes
<1>6. /\ saved'[h] = saved[h - 1] /\ Len(saved') = n
      /\ \A k \in 1..n : k # h => saved'[k] = saved[k]
  BY <1>1, <1>2, <1>4
<1>7. Handled' = n
  BY <1>1 DEF Handled
<1> HIDE DEF n, h
<1>8. n - 1 \in 0..Len(reports) /\ h - 1 \in 1..n - 1 /\ h \in Nat
  BY <1>1, <1>2, <1>4
<1>9. p[h - 1] \in 1..Len(reports)
  BY <1>3, <1>4, <1>8, KeptFacts
<1>10. saved[h - 1] = Expected(reports[p[h - 1]])
  <2>1. h - 1 \in 1..h - 1
    BY <1>8
  <2> QED
    BY <1>3, <2>1 DEF Holed
<1>11. Date(reports, n) < Date(reports, p[h - 1])
  <2>1. reader.event.date = Date(reports, n)
    BY <1>2, <1>4, Dates
  <2>2. saved[h - 1].date = Date(reports, p[h - 1])
    BY <1>4, <1>9, <1>10, Dates
  <2> QED
    BY <1>1, <2>1, <2>2
<1>12. Holed(saved', reports, p, n, h - 1)
  <2>1. ASSUME NEW k \in 1..(h - 1) - 1
        PROVE  saved'[k] = Expected(reports[p[k]])
    <3>1. k \in 1..h - 1 /\ k \in 1..n /\ k # h
      BY <1>2, <1>4, <1>8
    <3> QED
      BY <1>3, <1>6, <3>1 DEF Holed
  <2>2. ASSUME NEW k \in h - 1..n - 1
        PROVE  saved'[k + 1] = Expected(reports[p[k]]) /\ Date(reports, n) < Date(reports, p[k])
    <3>1. CASE k = h - 1
      <4>1. k + 1 = h
        BY <1>8, <3>1
      <4> QED
        BY <1>6, <1>10, <1>11, <3>1, <4>1
    <3>2. CASE k # h - 1
      <4>1. k \in h..n - 1 /\ k + 1 \in 1..n /\ k + 1 # h
        BY <1>2, <1>4, <1>8, <3>2
      <4> QED
        BY <1>3, <1>6, <4>1 DEF Holed
    <3> QED
      BY <3>1, <3>2
  <2> QED
    BY <2>1, <2>2 DEF Holed
<1>13. Sorting'
  BY <1>1, <1>2, <1>3, <1>5, <1>6, <1>7, <1>12 DEF Sorting
<1> QED
  BY <1>5, <1>13 DEF SortInv

LEMMA PlaceSorts ==
  ASSUME EventTypes, MailInv, SortInv, Place
  PROVE  SortInv'
<1> DEFINE n == Handled
           h == reader.hole
<1>1. /\ reader.at = "sort" /\ ~ (h > 1 /\ reader.event.date < saved[h - 1].date)
      /\ saved' = [saved EXCEPT ![h] = reader.event]
      /\ reader' = [reader EXCEPT !.at = "print"]
      /\ reports' = reports /\ mail' = mail
  BY DEF Place, Later
<1>2. /\ n \in 1..Len(reports) /\ Len(saved) = n /\ reader.event = Expected(reports[n])
      /\ h \in 1..n
  BY <1>1 DEF SortInv, Sorting, EventTypes, ReaderTypes
<1>3. PICK p : Sorts(reports, p, n - 1) /\ Holed(saved, reports, p, n, h)
  BY <1>1 DEF SortInv, Sorting
<1>4. /\ saved \in Seq(Stored) /\ reports \in Seq(Sent) /\ n \in Nat /\ Len(reports) \in Nat
  BY HandledFacts DEF EventTypes
<1>5. reader'.at = "print"
  BY <1>1 DEF EventTypes, ReaderTypes
<1>6. /\ saved'[h] = reader.event /\ Len(saved') = n /\ DOMAIN saved' = 1..n
      /\ \A k \in 1..n : k # h => saved'[k] = saved[k]
      /\ saved' = [k \in 1..n |-> saved'[k]]
  <2>1. saved \in [1..n -> Stored] /\ h \in 1..n
    BY <1>2, <1>4, LenProperties
  <2>2. saved' \in [1..n -> Stored \cup {reader.event}]
    BY <1>1, <2>1
  <2>3. saved' \in Seq(Stored \cup {reader.event}) /\ Len(saved') = n
    BY <1>4, <2>2
  <2>4. saved'[h] = reader.event /\ \A k \in 1..n : k # h => saved'[k] = saved[k]
    BY <1>1, <2>1
  <2>5. saved' = [k \in 1..n |-> saved'[k]] /\ DOMAIN saved' = 1..n
    BY <2>2
  <2> QED
    BY <2>3, <2>4, <2>5
<1>7. Handled' = n
  BY <1>1 DEF Handled
<1> HIDE DEF n, h
<1>8. n - 1 \in 0..Len(reports) /\ h \in Nat /\ n \in 0..Len(reports)
  BY <1>2, <1>4
<1>9. ASSUME h > 1
      PROVE  Date(reports, p[h - 1]) \leq Date(reports, n)
  <2>1. h - 1 \in 1..n - 1 /\ h - 1 \in 1..h - 1
    BY <1>2, <1>4, <1>8, <1>9
  <2>2. p[h - 1] \in 1..Len(reports)
    BY <1>3, <1>4, <1>8, <2>1, KeptFacts
  <2>3. saved[h - 1] = Expected(reports[p[h - 1]])
    BY <1>3, <2>1 DEF Holed
  <2>4. saved[h - 1].date = Date(reports, p[h - 1]) /\ Date(reports, p[h - 1]) \in Int
    BY <1>4, <2>2, <2>3, Dates
  <2>5. reader.event.date = Date(reports, n) /\ Date(reports, n) \in Int
    BY <1>2, <1>4, Dates
  <2> QED
    BY <1>1, <1>9, <2>4, <2>5
<1>10. \A k \in h..n - 1 : Date(reports, n) < Date(reports, p[k])
  BY <1>3 DEF Holed
<1> DEFINE q == [k \in 1..n |-> IF k < h THEN p[k] ELSE IF k = h THEN n ELSE p[k - 1]]
<1>11. Sorts(reports, q, n)
  BY <1>2, <1>3, <1>4, <1>9, <1>10, SortsOneMore
<1>12. ASSUME NEW k \in 1..n
       PROVE  saved'[k] = Expected(reports[q[k]])
  <2>1. CASE k < h
    <3>1. k \in 1..h - 1 /\ k # h /\ q[k] = p[k]
      BY <1>4, <1>8, <2>1
    <3> QED
      BY <1>3, <1>6, <3>1 DEF Holed
  <2>2. CASE k = h
    <3>1. q[k] = n
      BY <2>2
    <3> QED
      BY <1>2, <1>6, <2>2, <3>1
  <2>3. CASE k > h
    <3>1. k - 1 \in h..n - 1 /\ (k - 1) + 1 = k /\ k # h /\ q[k] = p[k - 1]
      BY <1>4, <1>8, <2>3
    <3> QED
      BY <1>3, <1>6, <3>1 DEF Holed
  <2> QED
    BY <1>4, <1>8, <2>1, <2>2, <2>3
<1> HIDE DEF q
<1>13. saved' = Kept(reports, q, n)
  BY <1>6, <1>12 DEF Kept
<1>14. Sorted'
  BY <1>1, <1>7, <1>11, <1>13 DEF Sorted
<1> QED
  BY <1>5, <1>14 DEF SortInv

LEMMA NextSort ==
  ASSUME TextsSurvive, EventTypes, MailInv, SortInv, Next
  PROVE  SortInv'
<1>1. CASE UNCHANGED <<mail, reports, saved, reader>>
  BY <1>1 DEF SortInv, Sorted, Sorting, Handled
<1>2. CASE ReceiveThrows \/ SummaryCrashes
  <2>1. reader' = [reader EXCEPT !.at = "aborted"]
    BY <1>2 DEF ReceiveThrows, SummaryCrashes
  <2>2. reader'.at = "aborted"
    BY <2>1 DEF EventTypes, ReaderTypes
  <2> QED
    BY <2>2 DEF SortInv
<1>3. CASE Show
  <2>1. Sorted
    BY <1>3 DEF Show, SortInv
  <2>2. Sorted'
    BY <1>3, <2>1 DEF Show, Sorted, Handled
  <2>3. reader'.at = "get"
    BY <1>3 DEF Show, Waiting
  <2> QED
    BY <2>2, <2>3 DEF SortInv
<1> QED
  BY <1>1, <1>2, <1>3, ReportSorts, ReceiveSorts, ShiftSorts, PlaceSorts
  DEF Next, Join, Exit, Summarise, Count, Counted, List, Listed
-----------------------------------------------------------------------------
(* What a summary counts and lists *)

LEMMA LastCounts ==
  ASSUME NEW i \in Nat \ {0}, NEW A, A \subseteq 1..i
  PROVE  Cardinality(A) = Cardinality(A \ {i}) + (IF i \in A THEN 1 ELSE 0)
<1>1. IsFiniteSet(A)
  <2>1. IsFiniteSet(1..i)
    BY FS_Interval
  <2> QED
    BY <2>1, FS_Subset
<1>2. Cardinality(A \ {i}) = IF i \in A THEN Cardinality(A) - 1 ELSE Cardinality(A)
  BY <1>1, FS_RemoveElement
<1>3. Cardinality(A) \in Nat
  BY <1>1, FS_CardinalityType
<1> QED
  BY <1>2, <1>3

LEMMA CountsNext ==
  ASSUME NEW m, NEW d, NEW s, NEW i \in Nat \ {0}, Counts(m, s, i - 1), d.user = m.user,
         d.total = m.total + (IF s[i].owner = m.user THEN 1 ELSE 0),
         d.active = m.active + (IF s[i].owner = m.user /\ Says(s[i], "active") THEN 1 ELSE 0),
         d.forces = m.forces + (IF s[i].owner = m.user /\ Says(s[i], "forces_arrival_at_scene")
                                THEN 1 ELSE 0)
  PROVE  Counts(d, s, i)
<1>1. Cardinality(MineIn(d, s, i))
        = Cardinality(MineIn(m, s, i - 1)) + (IF s[i].owner = m.user THEN 1 ELSE 0)
  <2> DEFINE A == MineIn(d, s, i)
  <2>1. A \subseteq 1..i /\ A \ {i} = MineIn(m, s, i - 1) /\ (i \in A <=> s[i].owner = m.user)
    BY DEF MineIn
  <2> HIDE DEF A
  <2>2. Cardinality(A) = Cardinality(A \ {i}) + (IF i \in A THEN 1 ELSE 0)
    BY <2>1, LastCounts
  <2> QED
    BY <2>1, <2>2 DEF A
<1>2. ASSUME NEW key
      PROVE  Cardinality(Flagged(d, s, i, key))
               = Cardinality(Flagged(m, s, i - 1, key))
                   + (IF s[i].owner = m.user /\ Says(s[i], key) THEN 1 ELSE 0)
  <2> DEFINE A == Flagged(d, s, i, key)
  <2>1. /\ A \subseteq 1..i /\ A \ {i} = Flagged(m, s, i - 1, key)
        /\ i \in A <=> s[i].owner = m.user /\ Says(s[i], key)
    BY DEF Flagged
  <2> HIDE DEF A
  <2>2. Cardinality(A) = Cardinality(A \ {i}) + (IF i \in A THEN 1 ELSE 0)
    BY <2>1, LastCounts
  <2> QED
    BY <2>1, <2>2 DEF A
<1> QED
  BY <1>1, <1>2 DEF Counts

LEMMA ListsNext ==
  ASSUME NEW l \in Seq(Stored), NEW s, NEW u, NEW i \in Nat \ {0}, Lists(l, s, u, i - 1)
  PROVE  /\ s[i].owner = u => Lists(Append(l, s[i]), s, u, i)
         /\ s[i].owner # u => Lists(l, s, u, i)
<1>0. Len(l) \in Nat /\ DOMAIN l = 1..Len(l)
  BY LenProperties
<1>1. PICK q \in [DOMAIN l -> 1..i - 1] :
        /\ \A j, k \in DOMAIN l : j < k => q[j] < q[k]
        /\ {q[k] : k \in DOMAIN l} = {k \in 1..i - 1 : s[k].owner = u}
        /\ \A k \in DOMAIN l : l[k] = s[q[k]]
  BY DEF Lists
<1>2. /\ \A k \in DOMAIN l : q[k] \in 1..i - 1 /\ q[k] \in 1..i /\ q[k] < i
      /\ \A k \in 1..i - 1 : s[k].owner = u <=> \E j \in DOMAIN l : q[j] = k
  BY <1>1
<1>3. ASSUME s[i].owner # u PROVE Lists(l, s, u, i)
  <2>1. q \in [DOMAIN l -> 1..i]
    BY <1>1, <1>2
  <2>2. {q[k] : k \in DOMAIN l} = {k \in 1..i : s[k].owner = u}
    <3>1. {k \in 1..i : s[k].owner = u} = {k \in 1..i - 1 : s[k].owner = u}
      BY <1>3
    <3> QED
      BY <1>1, <3>1
  <2> QED
    BY <1>1, <2>1, <2>2 DEF Lists
<1>4. ASSUME s[i].owner = u PROVE Lists(Append(l, s[i]), s, u, i)
  <2> DEFINE m == Len(l) + 1
             a == Append(l, s[i])
             f == [k \in 1..m |-> IF k = m THEN i ELSE q[k]]
  <2>1. DOMAIN a = 1..m /\ a[m] = s[i] /\ \A k \in DOMAIN l : k \in 1..m /\ k # m /\ a[k] = l[k]
    BY <1>0, AppendProperties
  <2>2. /\ f[m] = i /\ m \in 1..m
        /\ \A k \in 1..m : k # m => k \in DOMAIN l /\ f[k] = q[k]
    BY <1>0
  <2>3. f \in [1..m -> 1..i]
    <3>1. \A k \in 1..m : f[k] \in 1..i
      BY <1>2, <2>2
    <3> QED
      BY <3>1
  <2>4. \A j, k \in 1..m : j < k => f[j] < f[k]
    <3> SUFFICES ASSUME NEW j \in 1..m, NEW k \in 1..m, j < k
                 PROVE  f[j] < f[k]
      OBVIOUS
    <3>1. j # m
      BY <1>0
    <3>2. j \in DOMAIN l /\ f[j] = q[j]
      BY <2>2, <3>1
    <3> HIDE DEF f, m
    <3>3. CASE k = m
      BY <1>2, <2>2, <3>2, <3>3
    <3>4. CASE k # m
      BY <1>1, <2>2, <3>2, <3>4
    <3> QED
      BY <3>3, <3>4
  <2> HIDE DEF f, m, a
  <2>5. {f[k] : k \in 1..m} = {k \in 1..i : s[k].owner = u}
    <3>1. ASSUME NEW k \in 1..m PROVE f[k] \in 1..i /\ s[f[k]].owner = u
      BY <1>2, <1>4, <2>2, <2>3
    <3>2. ASSUME NEW k \in 1..i, s[k].owner = u PROVE \E j \in 1..m : f[j] = k
      <4>1. CASE k = i
        BY <2>2, <4>1
      <4>2. CASE k # i
        <5>1. k \in 1..i - 1
          BY <4>2
        <5>2. PICK j \in DOMAIN l : q[j] = k
          BY <1>2, <3>2, <5>1
        <5> QED
          BY <2>1, <2>2, <5>2
      <4> QED
        BY <4>1, <4>2
    <3> QED
      BY <3>1, <3>2
  <2>6. \A k \in 1..m : a[k] = s[f[k]]
    BY <1>1, <2>1, <2>2
  <2>7. Lists(a, s, u, i)
    BY <2>1, <2>3, <2>4, <2>5, <2>6 DEF Lists
  <2> QED
    BY <2>7 DEF a
<1> QED
  BY <1>3, <1>4

\* A list has as many events as are counted, and as many of each kind.
LEMMA ListsCounts ==
  ASSUME NEW l \in Seq(Stored), NEW s, NEW n \in Nat, NEW m, Lists(l, s, m.user, n)
  PROVE  /\ Cardinality(MineIn(m, s, n)) = Len(l)
         /\ \A key : Cardinality(Flagged(m, s, n, key))
                       = Cardinality({k \in DOMAIN l : Says(l[k], key)})
<1>0. Len(l) \in Nat /\ DOMAIN l = 1..Len(l)
  BY LenProperties
<1>1. PICK q \in [DOMAIN l -> 1..n] :
        /\ \A j, k \in DOMAIN l : j < k => q[j] < q[k]
        /\ {q[k] : k \in DOMAIN l} = {k \in 1..n : s[k].owner = m.user}
        /\ \A k \in DOMAIN l : l[k] = s[q[k]]
  BY DEF Lists
<1>2. \A j, k \in DOMAIN l : q[j] = q[k] => j = k
  <2> SUFFICES ASSUME NEW j \in DOMAIN l, NEW k \in DOMAIN l, q[j] = q[k]
               PROVE  j = k
    OBVIOUS
  <2>1. q[j] \in Int /\ j \in Int /\ k \in Int
    BY <1>0, <1>1
  <2>2. ~ (j < k) /\ ~ (k < j)
    BY <1>1, <2>1
  <2> QED
    BY <2>1, <2>2
<1>3. /\ \A k \in DOMAIN l : q[k] \in 1..n /\ s[q[k]].owner = m.user /\ l[k] = s[q[k]]
      /\ \A k \in 1..n : s[k].owner = m.user => \E j \in DOMAIN l : q[j] = k
  BY <1>1
<1>4. IsFiniteSet(1..Len(l)) /\ Cardinality(1..Len(l)) = Len(l)
  <2> DEFINE size == Len(l)
  <2>1. size \in Nat
    BY <1>0
  <2> HIDE DEF size
  <2>2. IsFiniteSet(1..size) /\ Cardinality(1..size) = size
    BY <2>1, FS_Interval
  <2> QED
    BY <2>2 DEF size
<1>5. Cardinality(MineIn(m, s, n)) = Len(l)
  <2> DEFINE S == DOMAIN l
             T == MineIn(m, s, n)
  <2>1. (\A k \in S : q[k] \in T) /\ \A t \in T : \E k \in S : q[k] = t
    BY <1>3 DEF MineIn
  <2>2. IsFiniteSet(S) /\ \A j, k \in S : q[j] = q[k] => j = k
    BY <1>0, <1>2, <1>4
  <2> HIDE DEF S, T
  <2>3. Cardinality(T) = Cardinality(S)
    BY <2>1, <2>2, SameSize
  <2> QED
    BY <1>0, <1>4, <2>3 DEF S, T
<1>6. ASSUME NEW key
      PROVE  Cardinality(Flagged(m, s, n, key)) = Cardinality({k \in DOMAIN l : Says(l[k], key)})
  <2> DEFINE S == {k \in DOMAIN l : Says(l[k], key)}
             T == Flagged(m, s, n, key)
  <2>1. (\A k \in S : q[k] \in T) /\ \A t \in T : \E k \in S : q[k] = t
    BY <1>3 DEF Flagged
  <2>2. \A j, k \in S : q[j] = q[k] => j = k
    BY <1>2
  <2>3. IsFiniteSet(S)
    BY <1>0, <1>4, FS_Subset
  <2> HIDE DEF S, T
  <2>4. Cardinality(T) = Cardinality(S)
    BY <2>1, <2>2, <2>3, SameSize
  <2> QED
    BY <2>4 DEF S, T
<1> QED
  BY <1>5, <1>6
-----------------------------------------------------------------------------
(* A quiet summary *)

QuietCounting == Steady /\ Counts(summary, saved, summary.i - 1) /\ summary.listed = <<>>

QuietListing ==
  /\ Steady
  /\ Counts(summary, saved, Len(saved))
  /\ Lists(summary.listed, saved, summary.user, summary.i - 1)

QuietDone ==
  \E n \in 0..Len(reports) : \E p :
    /\ Sorts(reports, p, n)
    /\ Counts(summary, Kept(reports, p, n), n)
    /\ Lists(summary.listed, Kept(reports, p, n), summary.user, n)

LEMMA QuietIs ==
  /\ QuietInv <=> (summary.quiet => /\ summary.at = "count" /\ Alive => QuietCounting
                                    /\ summary.at = "list" /\ Alive => QuietListing
                                    /\ summary.at = "done" => QuietDone)
  /\ QuietInv' <=> (summary'.quiet => /\ summary'.at = "count" /\ Alive' => QuietCounting'
                                      /\ summary'.at = "list" /\ Alive' => QuietListing'
                                      /\ summary'.at = "done" => QuietDone')
BY DEF QuietInv, QuietCounting, QuietListing, QuietDone

LEMMA SummariseQuiet ==
  ASSUME EventTypes, MailInv, NEW u \in Users, Summarise(u)
  PROVE  QuietInv'
<1>1. /\ Len(saved) \in Nat /\ saved' = saved /\ reader' = reader
  BY HandledFacts DEF EventTypes, Summarise
<1>2. /\ summary'.at = "count" /\ summary'.i = 1 /\ summary'.end = Len(saved)
      /\ summary'.stale = FALSE /\ summary'.total = 0 /\ summary'.active = 0
      /\ summary'.forces = 0 /\ summary'.listed = <<>>
      /\ summary'.quiet = (reader.at \in {"get", "print"})
  BY <1>1, SummariseFields
<1>3. Counts(summary', saved, 0)
  <2>1. MineIn(summary', saved, 0) = {} /\ \A key : Flagged(summary', saved, 0, key) = {}
    BY DEF MineIn, Flagged
  <2> QED
    BY <1>2, <2>1, FS_EmptySet DEF Counts
<1>4. summary'.quiet => Steady'
  BY <1>1, <1>2 DEF Steady
<1>5. summary'.quiet => QuietCounting'
  BY <1>1, <1>2, <1>3, <1>4 DEF QuietCounting
<1> QED
  BY <1>2, <1>5, QuietIs

LEMMA ReportQuiet ==
  ASSUME EventTypes, MailInv, QuietInv, NEW u \in Users, NEW e \in Reports, Report(u, e)
  PROVE  QuietInv'
<1>1. PICK x \in Sent : reports' = Append(reports, x)
  BY ReportFacts DEF EventTypes
<1>2. reports \in Seq(Sent) /\ Len(reports) \in Nat
  BY HandledFacts DEF EventTypes
<1>3. summary' = summary /\ saved' = saved /\ reader' = reader
  BY DEF Report
<1>4. ASSUME QuietDone PROVE QuietDone'
  <2>0. PICK n \in 0..Len(reports) : \E p :
          /\ Sorts(reports, p, n)
          /\ Counts(summary, Kept(reports, p, n), n)
          /\ Lists(summary.listed, Kept(reports, p, n), summary.user, n)
    BY <1>4 DEF QuietDone
  <2>1. PICK p :
          /\ Sorts(reports, p, n)
          /\ Counts(summary, Kept(reports, p, n), n)
          /\ Lists(summary.listed, Kept(reports, p, n), summary.user, n)
    BY <2>0
  <2>2. Sorts(reports', p, n) /\ Kept(reports', p, n) = Kept(reports, p, n)
    BY <1>1, <1>2, <2>1, OrderOfFirst
  <2>3. n \in 0..Len(reports')
    BY <1>1, <1>2
  <2> QED
    BY <1>3, <2>1, <2>2, <2>3 DEF QuietDone
<1>5. (QuietCounting => QuietCounting') /\ (QuietListing => QuietListing') /\ Alive' = Alive
  BY <1>3 DEF QuietCounting, QuietListing, Steady, Alive
<1> QED
  BY <1>3, <1>4, <1>5, QuietIs

\* A message that comes in between ends the quiet.
LEMMA ReaderQuiet ==
  ASSUME EventTypes, MailInv, QuietInv, Receive \/ Shift \/ Place
  PROVE  QuietInv'
<1>1. reports' = reports
  BY DEF Receive, Shift, Place
<1>2. Len(saved) \in Nat /\ Len(saved') \in Nat /\ Len(saved) \leq Len(saved')
  <2>1. saved \in Seq(Stored) /\ Len(saved) \in Nat
    BY HandledFacts DEF EventTypes
  <2>2. CASE Receive
    <3>1. PICK e : saved' = Append(saved, e)
      BY <2>2 DEF Receive
    <3>2. Len(saved') = Len(saved) + 1
      BY <2>1, <3>1
    <3> QED
      BY <2>1, <3>2
  <2>3. CASE Shift \/ Place
    <3>1. PICK h, e : saved' = [saved EXCEPT ![h] = e]
      BY <2>3 DEF Shift, Place
    <3>2. Len(saved') = Len(saved)
      BY <2>1, <3>1
    <3> QED
      BY <2>1, <3>2
  <2> QED
    BY <2>2, <2>3
<1>3. /\ AtPrompt => summary' = summary
      /\ ~ AtPrompt => summary'.quiet = FALSE
  BY <1>2, DisturbedFacts DEF EventTypes
<1>4. CASE AtPrompt
  <2>1. summary' = summary /\ summary.at \in {"none", "done"}
    BY <1>3, <1>4 DEF AtPrompt
  <2>2. QuietDone => QuietDone'
    BY <1>1, <2>1 DEF QuietDone
  <2> QED
    BY <2>1, <2>2, QuietIs
<1>5. CASE ~ AtPrompt
  BY <1>3, <1>5, QuietIs
<1> QED
  BY <1>4, <1>5

\* While it is quiet the keyboard thread reads what is there.
LEMMA ReadsQuiet ==
  ASSUME EventTypes, summary.at \in {"count", "list"}, summary.i \leq summary.end,
         Steady, NEW e \in Reads(summary.i)
  PROVE  e = saved[summary.i] /\ (Mine(e) <=> saved[summary.i].owner = summary.user)
BY ReadsFacts DEF Steady, Mine

LEMMA CountQuiet ==
  ASSUME EventTypes, MailInv, QuietInv, Count
  PROVE  QuietInv'
<1>0. /\ summary \in SummaryRecord /\ summary.i \in Nat \ {0} /\ summary.at = "count" /\ Alive
      /\ summary.i \leq summary.end
      /\ saved' = saved /\ reports' = reports /\ reader' = reader
  <2>1. summary \in SummaryRecord
    BY DEF EventTypes, SummaryTypes
  <2>2. summary.at = "count" /\ summary.i \in 1..summary.end + 1 /\ summary.end \in Nat
    BY <2>1 DEF Count, EventTypes, SummaryTypes, SummaryRecord
  <2> QED
    BY <2>1, <2>2 DEF Count
<1>1. /\ summary'.at = "count" /\ summary'.user = summary.user
      /\ summary'.i = summary.i + 1 /\ summary'.end = summary.end
      /\ summary'.stale = summary.stale /\ summary'.quiet = summary.quiet
  BY <1>0, CountFields
<1>2. PICK e \in Reads(summary.i) :
        /\ summary'.total = summary.total + (IF Mine(e) THEN 1 ELSE 0)
        /\ summary'.active = summary.active + (IF Mine(e) /\ Says(e, "active") THEN 1 ELSE 0)
        /\ summary'.forces = summary.forces
             + (IF Mine(e) /\ Says(e, "forces_arrival_at_scene") THEN 1 ELSE 0)
  BY <1>0, CountFields
<1>3. summary'.listed = summary.listed
  BY <1>0, CountFields
<1>4. ASSUME QuietCounting PROVE QuietCounting'
  <2>1. Steady /\ Counts(summary, saved, summary.i - 1) /\ summary.listed = <<>>
    BY <1>4 DEF QuietCounting
  <2>2. e = saved[summary.i] /\ (Mine(e) <=> saved[summary.i].owner = summary.user)
    BY <1>0, <1>2, <2>1, ReadsQuiet
  <2>3. Counts(summary', saved, summary.i)
    BY <1>0, <1>1, <1>2, <2>1, <2>2, CountsNext
  <2>4. Steady'
    BY <1>0, <1>1, <2>1 DEF Steady
  <2>5. summary'.i - 1 = summary.i
    BY <1>0, <1>1
  <2> QED
    BY <1>0, <1>3, <2>1, <2>3, <2>4, <2>5 DEF QuietCounting
<1> QED
  BY <1>0, <1>1, <1>4, QuietIs

LEMMA CountedQuiet ==
  ASSUME EventTypes, MailInv, QuietInv, Counted
  PROVE  QuietInv'
<1>0. /\ summary \in SummaryRecord /\ summary.i \in Nat \ {0} /\ summary.end \in Nat
      /\ summary.i > summary.end /\ summary.i \leq summary.end + 1
      /\ summary.at = "count" /\ Alive /\ Len(saved) \in Nat
      /\ saved' = saved /\ reports' = reports /\ reader' = reader
  <2>1. summary \in SummaryRecord /\ Len(saved) \in Nat
    BY HandledFacts DEF EventTypes, SummaryTypes
  <2>2. summary.at = "count" /\ summary.i \in 1..summary.end + 1 /\ summary.end \in Nat
    BY <2>1 DEF Counted, EventTypes, SummaryTypes, SummaryRecord
  <2> QED
    BY <2>1, <2>2 DEF Counted
<1>1. /\ summary'.at = "list" /\ summary'.user = summary.user
      /\ summary'.i = 1 /\ summary'.end = Len(saved) /\ summary'.stale = FALSE
      /\ summary'.total = summary.total /\ summary'.active = summary.active
      /\ summary'.forces = summary.forces /\ summary'.listed = summary.listed
      /\ summary'.quiet = summary.quiet
  BY <1>0, CountedFields
<1>2. ASSUME QuietCounting PROVE QuietListing'
  <2>1. Steady /\ Counts(summary, saved, summary.i - 1) /\ summary.listed = <<>>
    BY <1>2 DEF QuietCounting
  <2>2. summary.i - 1 = Len(saved)
    BY <1>0, <2>1 DEF Steady
  <2>3. Counts(summary', saved, Len(saved))
    BY <1>1, <2>1, <2>2 DEF Counts, MineIn, Flagged
  <2>4. Lists(<<>>, saved, summary.user, 0)
    <3> DEFINE q == [k \in 1..0 |-> k]
    <3>1. DOMAIN <<>> = 1..0 /\ q \in [1..0 -> 1..0] /\ \A k \in 1..0 : FALSE
      OBVIOUS
    <3>2. {q[k] : k \in 1..0} = {k \in 1..0 : saved[k].owner = summary.user}
      BY <3>1
    <3> HIDE DEF q
    <3> QED
      BY <3>1, <3>2 DEF Lists
  <2>5. Steady'
    BY <1>0, <1>1, <2>1 DEF Steady
  <2>6. summary'.i - 1 = 0
    BY <1>1
  <2> QED
    BY <1>0, <1>1, <2>1, <2>3, <2>4, <2>5, <2>6 DEF QuietListing
<1> QED
  BY <1>0, <1>1, <1>2, QuietIs

LEMMA ListQuiet ==
  ASSUME EventTypes, MailInv, QuietInv, List
  PROVE  QuietInv'
<1>0. /\ summary \in SummaryRecord /\ summary.i \in Nat \ {0} /\ summary.at = "list" /\ Alive
      /\ summary.i \leq summary.end /\ summary.listed \in Seq(Stored)
      /\ saved' = saved /\ reports' = reports /\ reader' = reader
  <2>1. summary \in SummaryRecord
    BY DEF EventTypes, SummaryTypes
  <2>2. summary.at = "list" /\ summary.i \in 1..summary.end + 1 /\ summary.end \in Nat
    BY <2>1 DEF List, EventTypes, SummaryTypes, SummaryRecord
  <2>3. summary.listed \in Seq(Stored)
    BY <2>1 DEF SummaryRecord
  <2> QED
    BY <2>1, <2>2, <2>3 DEF List
<1>1. \A e \in Reads(summary.i) : Mine(e) => e \in Stored
  BY <1>0, ReadsFacts
<1>2. /\ summary'.at = "list" /\ summary'.user = summary.user
      /\ summary'.i = summary.i + 1 /\ summary'.end = summary.end
      /\ summary'.stale = summary.stale /\ summary'.quiet = summary.quiet
      /\ summary'.total = summary.total /\ summary'.active = summary.active
      /\ summary'.forces = summary.forces
  BY <1>0, <1>1, ListFields
<1>3. PICK e \in Reads(summary.i) :
        summary'.listed = IF Mine(e) THEN Append(summary.listed, e) ELSE summary.listed
  BY <1>0, <1>1, ListFields
<1>4. ASSUME QuietListing PROVE QuietListing'
  <2>1. /\ Steady /\ Counts(summary, saved, Len(saved))
        /\ Lists(summary.listed, saved, summary.user, summary.i - 1)
    BY <1>4 DEF QuietListing
  <2>2. e = saved[summary.i] /\ (Mine(e) <=> saved[summary.i].owner = summary.user)
    BY <1>0, <2>1, ReadsQuiet
  <2>3. Counts(summary', saved, Len(saved))
    BY <1>2, <2>1 DEF Counts, MineIn, Flagged
  <2>4. Lists(summary'.listed, saved, summary.user, summary.i)
    BY <1>0, <1>3, <2>1, <2>2, ListsNext
  <2>5. Steady'
    BY <1>0, <1>2, <2>1 DEF Steady
  <2>6. summary'.i - 1 = summary.i
    BY <1>0, <1>2
  <2> QED
    BY <1>0, <1>2, <2>3, <2>4, <2>5, <2>6 DEF QuietListing
<1> QED
  BY <1>0, <1>2, <1>4, QuietIs

LEMMA ListedQuiet ==
  ASSUME EventTypes, MailInv, SortInv, QuietInv, Listed
  PROVE  QuietInv'
<1>0. /\ summary \in SummaryRecord /\ summary.i \in Nat \ {0} /\ summary.end \in Nat
      /\ summary.i > summary.end /\ summary.i \leq summary.end + 1
      /\ summary.at = "list" /\ Alive /\ Len(saved) \in Nat
      /\ reports' = reports
  <2>1. summary \in SummaryRecord /\ Len(saved) \in Nat
    BY HandledFacts DEF EventTypes, SummaryTypes
  <2>2. summary.at = "list" /\ summary.i \in 1..summary.end + 1 /\ summary.end \in Nat
    BY <2>1 DEF Listed, EventTypes, SummaryTypes, SummaryRecord
  <2> QED
    BY <2>1, <2>2 DEF Listed
<1>1. /\ summary'.at = "done" /\ summary'.user = summary.user
      /\ summary'.total = summary.total /\ summary'.active = summary.active
      /\ summary'.forces = summary.forces /\ summary'.listed = summary.listed
      /\ summary'.quiet = summary.quiet
  BY <1>0, ListedFields
<1>2. ASSUME QuietListing PROVE QuietDone'
  <2>1. /\ Steady /\ Counts(summary, saved, Len(saved))
        /\ Lists(summary.listed, saved, summary.user, summary.i - 1)
    BY <1>2 DEF QuietListing
  <2>2. summary.i - 1 = Len(saved)
    BY <1>0, <2>1 DEF Steady
  <2>3. PICK p : Sorts(reports, p, Handled) /\ saved = Kept(reports, p, Handled)
    BY <2>1 DEF Steady, SortInv, Sorted
  <2>4. Handled \in 0..Len(reports) /\ reports \in Seq(Sent)
    BY HandledFacts DEF EventTypes
  <2>5. Len(saved) = Handled
    BY <2>3, <2>4, KeptFacts
  <2>6. Counts(summary', saved, Handled)
    BY <1>1, <2>1, <2>5 DEF Counts, MineIn, Flagged
  <2>7. Lists(summary'.listed, saved, summary'.user, Handled)
    BY <1>1, <2>1, <2>2, <2>5
  <2> QED
    BY <1>0, <2>3, <2>4, <2>6, <2>7 DEF QuietDone
<1> QED
  BY <1>0, <1>1, <1>2, QuietIs

LEMMA NextQuiet ==
  ASSUME EventTypes, MailInv, SortInv, QuietInv, Next
  PROVE  QuietInv'
<1>1. CASE Join \/ Exit
  BY <1>1 DEF Join, Exit, QuietInv, Steady, Alive
<1>2. CASE ReceiveThrows \/ SummaryCrashes
  <2>1. reader' = [reader EXCEPT !.at = "aborted"] /\ summary' = summary /\ reports' = reports
    BY <1>2 DEF ReceiveThrows, SummaryCrashes
  <2>2. ~ Alive'
    BY <2>1 DEF EventTypes, ReaderTypes, Alive
  <2>3. QuietDone => QuietDone'
    BY <2>1 DEF QuietDone
  <2> QED
    BY <2>1, <2>2, <2>3, QuietIs
<1>3. CASE Show
  <2>1. /\ summary' = summary /\ reports' = reports /\ saved' = saved /\ reader'.at = "get"
        /\ Alive
    BY <1>3 DEF Show, Waiting, Alive
  <2>2. /\ QuietCounting => QuietCounting'
        /\ QuietListing => QuietListing'
        /\ QuietDone => QuietDone'
    BY <2>1 DEF QuietCounting, QuietListing, QuietDone, Steady
  <2> QED
    BY <2>1, <2>2, QuietIs
<1> QED
  BY <1>1, <1>2, <1>3, SummariseQuiet, ReportQuiet, ReaderQuiet, CountQuiet, CountedQuiet,
     ListQuiet, ListedQuiet DEF Next
-----------------------------------------------------------------------------
(* The theorems *)

LEMMA EventsStep == TextsSurvive /\ EventInv /\ [Next]_vars => EventInv'
<1> SUFFICES ASSUME TextsSurvive, EventInv, [Next]_vars
             PROVE  EventInv'
  OBVIOUS
<1>1. EventTypes /\ MailInv /\ SortInv /\ QuietInv
  BY DEF EventInv
<1>2. CASE Next
  <2>1. EventTypes'
    BY <1>1, <1>2, NextTypes
  <2>2. MailInv'
    BY <1>1, <1>2, NextMail DEF EventTypes
  <2>3. SortInv'
    BY <1>1, <1>2, NextSort
  <2>4. QuietInv'
    BY <1>1, <1>2, NextQuiet
  <2> QED
    BY <2>1, <2>2, <2>3, <2>4 DEF EventInv
<1>3. CASE UNCHANGED vars
  BY <1>1, <1>3 DEF vars, EventInv, EventTypes, StoreTypes, ReaderTypes, SummaryTypes, MailInv,
     SortInv, Sorted, Sorting, QuietInv, Steady, Alive, Handled
<1> QED
  BY <1>2, <1>3

LEMMA EventInvSaved == EventInv => SavedAsReported
<1> SUFFICES ASSUME EventInv, reader.at \in {"get", "print"}
             PROVE  saved = InOrder(reports, Handled)
  BY DEF SavedAsReported
<1>1. PICK p : Sorts(reports, p, Handled) /\ saved = Kept(reports, p, Handled)
  BY DEF EventInv, SortInv, Sorted
<1>2. Handled \in 0..Len(reports) /\ reports \in Seq(Sent)
  BY HandledFacts DEF EventInv, EventTypes
<1> QED
  BY <1>1, <1>2, SortsOrders

LEMMA EventInvSummary == EventInv => SummaryExact
<1> SUFFICES ASSUME EventInv, summary.at = "done", summary.quiet
             PROVE  LET flagged(key) ==
                          {k \in DOMAIN summary.listed : Says(summary.listed[k], key)}
                    IN  /\ \E s \in {InOrder(reports, n) : n \in 0..Len(reports)} :
                             Lists(summary.listed, s, summary.user, Len(s))
                        /\ summary.total = Len(summary.listed)
                        /\ summary.active = Cardinality(flagged("active"))
                        /\ summary.forces = Cardinality(flagged("forces_arrival_at_scene"))
  BY DEF SummaryExact
<1>0. PICK n \in 0..Len(reports) : \E p :
        /\ Sorts(reports, p, n)
        /\ Counts(summary, Kept(reports, p, n), n)
        /\ Lists(summary.listed, Kept(reports, p, n), summary.user, n)
  BY QuietIs DEF EventInv, QuietDone
<1>1. PICK p :
        /\ Sorts(reports, p, n)
        /\ Counts(summary, Kept(reports, p, n), n)
        /\ Lists(summary.listed, Kept(reports, p, n), summary.user, n)
  BY <1>0
<1>2. /\ reports \in Seq(Sent) /\ Len(reports) \in Nat
  BY HandledFacts DEF EventInv, EventTypes
<1> DEFINE s == Kept(reports, p, n)
<1>3. s = InOrder(reports, n) /\ Len(s) = n /\ n \in Nat
  BY <1>1, <1>2, SortsOrders, KeptFacts
<1>4. summary.listed \in Seq(Stored)
  BY DEF EventInv, EventTypes, SummaryTypes, SummaryRecord
<1>5. Counts(summary, s, n) /\ Lists(summary.listed, s, summary.user, n)
  BY <1>1
<1> HIDE DEF s
<1>6. /\ Cardinality(MineIn(summary, s, n)) = Len(summary.listed)
      /\ \A key : Cardinality(Flagged(summary, s, n, key))
                    = Cardinality({k \in DOMAIN summary.listed : Says(summary.listed[k], key)})
  BY <1>3, <1>4, <1>5, ListsCounts
<1>7. \E x \in {InOrder(reports, k) : k \in 0..Len(reports)} :
        Lists(summary.listed, x, summary.user, Len(x))
  BY <1>3, <1>5
<1> QED
  BY <1>5, <1>6, <1>7 DEF Counts

LEMMA EventsInvariant == TextsSurvive => (Spec => []EventInv)
<1> SUFFICES ASSUME TextsSurvive
             PROVE  Spec => []EventInv
  OBVIOUS
<1>1. EventInv /\ [Next]_vars => EventInv'
  BY EventsStep
<1> QED
  BY <1>1, EventsInit, PTL DEF Spec

\* Whatever the users, the events and the order in which they come, if each
\* text survives its way, savedEvents has every event that was handled once,
\* with its fields, by date (the sort in StompProtocol::processServerMessages).
THEOREM SavedInOrder == TextsSurvive => (Spec => []SavedAsReported)
<1> SUFFICES ASSUME TextsSurvive
             PROVE  Spec => []SavedAsReported
  OBVIOUS
<1>1. Spec => []EventInv
  BY EventsInvariant
<1> QED
  BY <1>1, EventInvSaved, PTL

\* Under the same condition a summary that no message disturbed lists the
\* events of its user by date, and its totals are those of the list
\* (handleSummaryCommand, which goes over the vector twice).
THEOREM SummaryOfReports == TextsSurvive => (Spec => []SummaryExact)
<1> SUFFICES ASSUME TextsSurvive
             PROVE  Spec => []SummaryExact
  OBVIOUS
<1>1. Spec => []EventInv
  BY EventsInvariant
<1> QED
  BY <1>1, EventInvSummary, PTL
=============================================================================
