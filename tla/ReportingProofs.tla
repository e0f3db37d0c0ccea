-------------------------- MODULE ReportingProofs --------------------------
(***************************************************************************)
(* Proofs about Reporting for every set of streams and of tests and every  *)
(* horizon: each part of the inductive invariant is preserved by every     *)
(* step in which the parts stated before it hold.                          *)
(***************************************************************************)
EXTENDS Reporting, IperfTime, SequenceTheorems, FiniteSetTheorems, WellFoundedInduction, TLAPS

-----------------------------------------------------------------------------
(* The list of timers: each name once, in the order of time.                *)

Entry == [name : Names, at : Nat]

Sorted(list) == \A j, k \in DOMAIN list : j < k => list[j].at <= list[k].at
Unique(list) == \A j, k \in DOMAIN list : list[j].name = list[k].name => j = k

Good(list) == list \in Seq(Entry) /\ Sorted(list) /\ Unique(list)

\* The reporter's timer fires directly after that of the statistics, at the same time.
Adjacent(list) ==
  \E k \in DOMAIN list :
    /\ k + 1 \in DOMAIN list /\ list[k].name = "stats" /\ list[k + 1].name = "report"
    /\ list[k].at = list[k + 1].at

\* Nothing that stands behind a timer is of its time.
LastOfTime(list, name) ==
  \A j, k \in DOMAIN list : list[j].name = name /\ k > j => list[k].at > list[j].at

\* A timer of the code is one of the invariant's.
LEMMA EntryIs == ASSUME NEW n \in Names, NEW a \in Nat
                 PROVE  Timer(n, a) \in Entry /\ Timer(n, a).name = n /\ Timer(n, a).at = a
BY DEF Timer, Entry

\* A name that is in the list is at its place there.
LEMMA PlaceIs ==
  ASSUME NEW list, Good(list), NEW name \in Active(list)
  PROVE  /\ Place(list, name) \in 1..Len(list) /\ list[Place(list, name)].name = name
         /\ \A k \in 1..Len(list) : list[k].name = name => k = Place(list, name)
         /\ list[Place(list, name)] \in Entry /\ At(list, name) \in Nat /\ name \in Names
<1>1. DOMAIN list = 1..Len(list) /\ Len(list) \in Nat BY DEF Good
<1>2. PICK k \in DOMAIN list : list[k].name = name BY DEF Active
<1>3. Place(list, name) \in DOMAIN list /\ list[Place(list, name)].name = name
  BY <1>2 DEF Place
<1>4. list[Place(list, name)] \in Entry BY <1>1, <1>3 DEF Good
<1> QED BY <1>1, <1>3, <1>4 DEF Good, Unique, At, Entry

\* A timer is at the place where its name is.
LEMMA FoundAt ==
  ASSUME NEW list, Good(list), NEW k \in 1..Len(list)
  PROVE  /\ list[k].name \in Active(list) /\ Place(list, list[k].name) = k
         /\ At(list, list[k].name) = list[k].at /\ list[k] \in Entry
<1>1. DOMAIN list = 1..Len(list) /\ Len(list) \in Nat BY DEF Good
<1>2. list[k].name \in Active(list) BY <1>1 DEF Active
<1>3. Place(list, list[k].name) = k BY <1>2, PlaceIs
<1> QED BY <1>1, <1>2, <1>3 DEF At, Good

\* The list a test begins with.
LEMMA EmptyIsGood == Good(<<>>) /\ Active(<<>>) = {}
BY DEF Good, Sorted, Unique, Active

\* The least element of a set of numbers.
LEMMA MinIs ==
  ASSUME NEW S \in SUBSET Nat, S # {}
  PROVE  Min(S) \in S /\ \A y \in S : Min(S) <= y
<1> DEFINE R == OpToRel(<, Nat)
<1>1. IsWellFoundedOn(R, Nat) BY NatLessThanWellFounded
<1>2. PICK x \in S : \A y \in S : ~(<<y, x>> \in R)
  <2> HIDE DEF R
  <2> QED BY <1>1, WFMin
<1>3. ASSUME NEW y \in S, y < x PROVE FALSE
  <2>1. <<y, x>> \in R BY <1>3 DEF OpToRel
  <2> QED BY <2>1, <1>2
<1>4. \A y \in S : x <= y BY <1>3
<1> QED BY <1>4 DEF Min

\* list_add and list_resort keep the list sorted, and each name in it once.
LEMMA InsertIs ==
  ASSUME NEW list, Good(list), NEW t \in Entry
  PROVE  \E p \in 1..Len(list) + 1 :
           /\ Insert(list, t) \in Seq(Entry) /\ Len(Insert(list, t)) = Len(list) + 1
           /\ \A k \in 1..p - 1 : Insert(list, t)[k] = list[k] /\ list[k].at <= t.at
           /\ Insert(list, t)[p] = t
           /\ \A k \in p..Len(list) : Insert(list, t)[k + 1] = list[k] /\ list[k].at > t.at
<1> DEFINE later == {k \in DOMAIN list : list[k].at > t.at}
           p == IF later = {} THEN Len(list) + 1 ELSE Min(later)
           r == InsertAt(list, p, t)
<1>1. DOMAIN list = 1..Len(list) /\ Len(list) \in Nat /\ list \in Seq(Entry) BY DEF Good
<1>2. \A k \in 1..Len(list) : list[k] \in Entry /\ list[k].at \in Nat
  <2> TAKE k \in 1..Len(list)
  <2>1. list[k] \in Entry BY <1>1, ElementOfSeq
  <2> QED BY <2>1 DEF Entry
<1>5. t.at \in Nat BY DEF Entry
<1>3. /\ p \in 1..Len(list) + 1
      /\ \A k \in 1..p - 1 : list[k].at <= t.at
      /\ \A k \in p..Len(list) : list[k].at > t.at
  <2>1. CASE later = {}
    <3>1. p = Len(list) + 1 BY <2>1
    <3>2. \A k \in 1..Len(list) : list[k].at <= t.at BY <2>1, <1>1, <1>2, <1>5
    <3> HIDE DEF p, later
    <3> QED BY <3>1, <3>2, <1>1
  <2>2. CASE later # {}
    <3>1. later \in SUBSET Nat /\ \A k \in 1..Len(list) : k \in later <=> list[k].at > t.at
      BY <1>1
    <3>2. p = Min(later) BY <2>2
    <3>3. p \in 1..Len(list) /\ list[p].at > t.at BY <3>2, <3>1, <2>2, <1>1, MinIs
    <3>4. \A y \in later : p <= y BY <3>1, <3>2, <2>2, MinIs
    <3> HIDE DEF p, later
    <3>5. \A k \in 1..p - 1 : list[k].at <= t.at
      <4> TAKE k \in 1..p - 1
      <4>1. k \in 1..Len(list) /\ k \notin later BY <3>3, <3>4, <1>1
      <4> QED BY <4>1, <3>1, <1>2, <1>5
    <3>6. \A k \in p..Len(list) : list[k].at > t.at
      <4> TAKE k \in p..Len(list)
      <4>1. list[p].at <= list[k].at BY <3>3, <1>1, <1>2 DEF Good, Sorted
      <4> QED BY <4>1, <3>3, <1>2, <1>5
    <3> QED BY <3>3, <3>5, <3>6, <1>1
  <2> QED BY <2>1, <2>2
<1> HIDE DEF p
<1>4. /\ r \in Seq(Entry) /\ Len(r) = Len(list) + 1
      /\ \A k \in 1..p - 1 : r[k] = list[k]
      /\ r[p] = t
      /\ \A k \in p..Len(list) : r[k + 1] = list[k]
  <2> DEFINE a == SubSeq(list, 1, p - 1)  b == <<t>>  c == SubSeq(list, p, Len(list))
  <2>1. /\ a \in Seq(Entry) /\ Len(a) = p - 1
        /\ \A k \in 1..p - 1 : a[k] = list[k]
    BY <1>1, <1>3
  <2>2. /\ c \in Seq(Entry) /\ Len(c) = Len(list) - p + 1
        /\ \A k \in 1..Len(list) - p + 1 : c[k] = list[p + k - 1]
    BY <1>1, <1>3
  <2>3. b \in Seq(Entry) /\ Len(b) = 1 /\ b[1] = t OBVIOUS
  <2>4. r = (a \o b) \o c BY DEF InsertAt
  <2> HIDE DEF a, b, c, r
  <2>a. /\ a \o b \in Seq(Entry) /\ Len(a \o b) = Len(a) + Len(b)
        /\ \A i \in 1..Len(a) + Len(b) : (a \o b)[i] = IF i <= Len(a) THEN a[i] ELSE b[i - Len(a)]
    BY <2>1, <2>3, ConcatProperties
  <2>5. a \o b \in Seq(Entry) /\ Len(a \o b) = p /\ (a \o b)[p] = t
        /\ \A k \in 1..p - 1 : (a \o b)[k] = list[k]
    BY <2>a, <2>1, <2>3, <1>3, <1>1
  <2>b. /\ r \in Seq(Entry) /\ Len(r) = Len(a \o b) + Len(c)
        /\ \A i \in 1..Len(a \o b) + Len(c) :
             r[i] = IF i <= Len(a \o b) THEN (a \o b)[i] ELSE c[i - Len(a \o b)]
    <3> DEFINE ab == a \o b
    <3>1. ab \in Seq(Entry) BY <2>5
    <3>2. r = ab \o c BY <2>4
    <3> HIDE DEF ab
    <3>3. /\ ab \o c \in Seq(Entry) /\ Len(ab \o c) = Len(ab) + Len(c)
          /\ \A i \in 1..Len(ab) + Len(c) : (ab \o c)[i] = IF i <= Len(ab) THEN ab[i] ELSE c[i - Len(ab)]
      BY <3>1, <2>2, ConcatProperties
    <3> QED BY <3>2, <3>3 DEF ab
  <2>6. r \in Seq(Entry) /\ Len(r) = Len(list) + 1 BY <2>b, <2>5, <2>2, <1>3, <1>1
  <2>7. \A k \in 1..p : r[k] = (a \o b)[k] BY <2>b, <2>5, <2>2, <1>3, <1>1
  <2>8. \A k \in p..Len(list) : r[k + 1] = c[k + 1 - p]
    <3> DEFINE q == Len(a \o b)
    <3>1. q = p /\ p \in Nat /\ Len(list) \in Nat /\ Len(c) = Len(list) - p + 1 BY <2>5, <2>2, <1>3, <1>1
    <3>2. \A i \in 1..q + Len(c) : r[i] = IF i <= q THEN (a \o b)[i] ELSE c[i - q] BY <2>b
    <3> HIDE DEF q
    <3> TAKE k \in p..Len(list)
    <3>3. k + 1 \in 1..q + Len(c) /\ ~(k + 1 <= q) BY <3>1, <1>3
    <3> QED BY <3>1, <3>2, <3>3
  <2>9. \A k \in p..Len(list) : c[k + 1 - p] = list[k] BY <2>2, <1>3, <1>1
  <2>c. \A k \in 1..p - 1 : r[k] = list[k]
    <3> TAKE k \in 1..p - 1
    <3>1. k \in 1..p BY <1>3, <1>1
    <3> QED BY <3>1, <2>5, <2>7
  <2>d. r[p] = t BY <2>5, <2>7, <1>3, <1>1
  <2>e. \A k \in p..Len(list) : r[k + 1] = list[k] BY <2>8, <2>9
  <2> QED BY <2>6, <2>c, <2>d, <2>e
<1>6. Insert(list, t) = r BY DEF Insert, p
<1> HIDE DEF r
<1> QED BY <1>3, <1>4, <1>6

\* tmr_cancel takes out one timer and leaves the others in order.
LEMMA CancelIs ==
  ASSUME NEW list, Good(list), NEW name \in Active(list)
  PROVE  /\ Cancel(list, name) \in Seq(Entry) /\ Len(Cancel(list, name)) = Len(list) - 1
         /\ \A k \in 1..Place(list, name) - 1 : Cancel(list, name)[k] = list[k]
         /\ \A k \in Place(list, name)..Len(list) - 1 : Cancel(list, name)[k] = list[k + 1]
<1> DEFINE p == Place(list, name)
           a == SubSeq(list, 1, p - 1)  c == SubSeq(list, p + 1, Len(list))
           r == Cancel(list, name)
<1>1. list \in Seq(Entry) /\ Len(list) \in Nat BY DEF Good
<1>2. p \in 1..Len(list) BY PlaceIs
<1>3. r = a \o c BY DEF Cancel, RemoveAt
<1> HIDE DEF p, r
<1>4. a \in Seq(Entry) /\ Len(a) = p - 1 /\ \A k \in 1..p - 1 : a[k] = list[k]
  BY <1>1, <1>2
<1>5. /\ c \in Seq(Entry) /\ Len(c) = Len(list) - p
      /\ \A k \in 1..Len(list) - p : c[k] = list[p + k]
  BY <1>1, <1>2
<1> HIDE DEF a, c
<1>6. r \in Seq(Entry) /\ Len(r) = Len(list) - 1 BY <1>1, <1>2, <1>3, <1>4, <1>5, ConcatProperties
<1>7. \A k \in 1..p - 1 : r[k] = list[k] BY <1>1, <1>2, <1>3, <1>4, <1>5, ConcatProperties
<1>8. \A k \in p..Len(list) - 1 : r[k] = c[k - (p - 1)] BY <1>1, <1>2, <1>3, <1>4, <1>5, ConcatProperties
<1>9. \A k \in p..Len(list) - 1 : c[k - (p - 1)] = list[k + 1] BY <1>1, <1>2, <1>5
<1> QED BY <1>6, <1>7, <1>8, <1>9 DEF p, r

\* What a list has after an insertion, name by name.
LEMMA InsertHas ==
  ASSUME NEW list, Good(list), NEW t \in Entry, t.name \notin Active(list)
  PROVE  /\ Good(Insert(list, t)) /\ Active(Insert(list, t)) = Active(list) \cup {t.name}
         /\ At(Insert(list, t), t.name) = t.at
         /\ \A n \in Active(list) : At(Insert(list, t), n) = At(list, n)
         /\ LastOfTime(Insert(list, t), t.name)
<1> DEFINE r == Insert(list, t)
<1>1. PICK p \in 1..Len(list) + 1 :
        /\ r \in Seq(Entry) /\ Len(r) = Len(list) + 1
        /\ \A k \in 1..p - 1 : r[k] = list[k] /\ list[k].at <= t.at
        /\ r[p] = t
        /\ \A k \in p..Len(list) : r[k + 1] = list[k] /\ list[k].at > t.at
  BY InsertIs
<1> HIDE DEF r
<1>2. DOMAIN list = 1..Len(list) /\ Len(list) \in Nat /\ DOMAIN r = 1..Len(list) + 1
  BY <1>1 DEF Good
<1>3. t.at \in Nat BY DEF Entry
<1>4. \A k \in 1..Len(list) : list[k].at \in Nat /\ list[k].name # t.name
  <2> TAKE k \in 1..Len(list)
  <2> QED BY FoundAt DEF Entry
<1>5. \A k \in DOMAIN r :
        \/ k < p /\ k \in 1..Len(list) /\ r[k] = list[k] /\ list[k].at <= t.at
        \/ k = p /\ r[k] = t
        \/ k > p /\ k - 1 \in 1..Len(list) /\ r[k] = list[k - 1] /\ list[k - 1].at > t.at
  <2> TAKE k \in DOMAIN r
  <2>1. CASE k < p BY <2>1, <1>1, <1>2
  <2>2. CASE k = p BY <2>2, <1>1
  <2>3. CASE k > p
    <3>1. k - 1 \in p..Len(list) /\ (k - 1) + 1 = k BY <2>3, <1>2
    <3> QED BY <3>1, <2>3, <1>1, <1>2
  <2> QED BY <2>1, <2>2, <2>3, <1>2
<1>6. Sorted(r)
  <2> SUFFICES ASSUME NEW j \in DOMAIN r, NEW k \in DOMAIN r, j < k PROVE r[j].at <= r[k].at
    BY DEF Sorted
  <2>1. Sorted(list) BY DEF Good
  <2> QED BY <2>1, <1>5, <1>2, <1>3, <1>4 DEF Sorted
<1>7. Unique(r)
  <2> SUFFICES ASSUME NEW j \in DOMAIN r, NEW k \in DOMAIN r, r[j].name = r[k].name PROVE j = k
    BY DEF Unique
  <2>1. Unique(list) BY DEF Good
  <2> QED BY <2>1, <1>5, <1>2, <1>4 DEF Unique
<1>8. Good(r) BY <1>1, <1>6, <1>7 DEF Good
<1>9. \A k \in 1..Len(list) : \E j \in DOMAIN r : r[j] = list[k]
  <2> TAKE k \in 1..Len(list)
  <2>1. CASE k < p BY <2>1, <1>1, <1>2
  <2>2. CASE k >= p
    <3>1. k + 1 \in DOMAIN r /\ r[k + 1] = list[k] BY <2>2, <1>1, <1>2
    <3> QED BY <3>1
  <2> QED BY <2>1, <2>2, <1>2
<1>10. p \in DOMAIN r BY <1>2
<1>11. Active(r) = Active(list) \cup {t.name}
  <2>1. \A n \in Active(r) : n \in Active(list) \cup {t.name}
    <3> TAKE n \in Active(r)
    <3>1. PICK k \in DOMAIN r : r[k].name = n BY DEF Active
    <3> QED BY <3>1, <1>5, <1>2 DEF Active
  <2>2. \A n \in Active(list) : n \in Active(r)
    <3> TAKE n \in Active(list)
    <3>1. PICK k \in 1..Len(list) : list[k].name = n BY <1>2 DEF Active
    <3> QED BY <3>1, <1>9 DEF Active
  <2>3. t.name \in Active(r) BY <1>10, <1>1 DEF Active
  <2> QED BY <2>1, <2>2, <2>3
<1>12. At(r, t.name) = t.at BY <1>8, <1>10, <1>1, <1>2, FoundAt
<1>13. \A n \in Active(list) : At(r, n) = At(list, n)
  <2> TAKE n \in Active(list)
  <2>1. PICK k \in 1..Len(list) : list[k].name = n /\ At(list, n) = list[k].at
    BY PlaceIs DEF At
  <2>2. PICK j \in DOMAIN r : r[j] = list[k] BY <1>9
  <2>3. j \in 1..Len(r) BY <1>1, <1>2
  <2> QED BY <2>1, <2>2, <2>3, <1>8, FoundAt
<1>14. LastOfTime(r, t.name)
  <2> SUFFICES ASSUME NEW j \in DOMAIN r, NEW k \in DOMAIN r, r[j].name = t.name, k > j
               PROVE  r[k].at > r[j].at
    BY DEF LastOfTime
  <2>1. j = p BY <1>7, <1>10, <1>1 DEF Unique
  <2> QED BY <2>1, <1>5, <1>2, <1>1
<1> QED BY <1>8, <1>11, <1>12, <1>13, <1>14 DEF r

\* What it has after a removal.
LEMMA CancelHas ==
  ASSUME NEW list, Good(list), NEW name
  PROVE  /\ Good(Cancel(list, name)) /\ Active(Cancel(list, name)) = Active(list) \ {name}
         /\ \A n \in Active(list) \ {name} : At(Cancel(list, name), n) = At(list, n)
         /\ \A n : LastOfTime(list, n) => LastOfTime(Cancel(list, name), n)
<1>0. CASE name \notin Active(list) BY <1>0 DEF Cancel
<1>1. CASE name \in Active(list)
  <2> DEFINE r == Cancel(list, name)  p == Place(list, name)
  <2>1. p \in 1..Len(list) /\ list[p].name = name
        /\ \A k \in 1..Len(list) : list[k].name = name => k = p
    BY <1>1, PlaceIs
  <2>2. /\ r \in Seq(Entry) /\ Len(r) = Len(list) - 1
        /\ \A k \in 1..p - 1 : r[k] = list[k]
        /\ \A k \in p..Len(list) - 1 : r[k] = list[k + 1]
    BY <1>1, CancelIs
  <2> HIDE DEF r, p
  <2>3. DOMAIN list = 1..Len(list) /\ Len(list) \in Nat /\ DOMAIN r = 1..Len(list) - 1
    BY <2>2 DEF Good
  <2>4. \A k \in DOMAIN r :
          \/ k < p /\ k \in 1..Len(list) /\ r[k] = list[k]
          \/ k >= p /\ k + 1 \in 1..Len(list) /\ r[k] = list[k + 1]
    BY <2>1, <2>2, <2>3
  <2>5. Sorted(r) BY <2>4, <2>3, <2>1 DEF Good, Sorted
  <2>6. Unique(r) BY <2>4, <2>3, <2>1 DEF Good, Unique
  <2>7. Good(r) BY <2>2, <2>5, <2>6 DEF Good
  <2>8. \A k \in 1..Len(list) : k # p => \E j \in DOMAIN r : r[j] = list[k]
    <3> TAKE k \in 1..Len(list)
    <3>1. CASE k < p BY <3>1, <2>1, <2>2, <2>3
    <3>2. CASE k > p
      <4>1. k - 1 \in p..Len(list) - 1 /\ (k - 1) + 1 = k BY <3>2, <2>1, <2>3
      <4>2. k - 1 \in DOMAIN r /\ r[k - 1] = list[k] BY <4>1, <2>1, <2>2, <2>3
      <4> QED BY <4>2
    <3> QED BY <3>1, <3>2, <2>1, <2>3
  <2>9. Active(r) = Active(list) \ {name}
    <3>1. ASSUME NEW n \in Active(r) PROVE n \in Active(list) \ {name}
      <4>1. PICK k \in DOMAIN r : r[k].name = n BY DEF Active
      <4>2. PICK j \in 1..Len(list) : j # p /\ list[j].name = n BY <4>1, <2>4, <2>3, <2>1
      <4> QED BY <4>2, <2>1, <2>3 DEF Active
    <3>2. ASSUME NEW n \in Active(list) \ {name} PROVE n \in Active(r)
      <4>1. PICK k \in DOMAIN list : list[k].name = n BY DEF Active
      <4>2. k # p BY <4>1, <2>1
      <4> QED BY <4>1, <4>2, <2>8, <2>3 DEF Active
    <3> QED BY <3>1, <3>2
  <2>10. \A n \in Active(list) \ {name} : At(r, n) = At(list, n)
    <3> TAKE n \in Active(list) \ {name}
    <3>1. PICK k \in 1..Len(list) : list[k].name = n /\ At(list, n) = list[k].at
      BY PlaceIs DEF At
    <3>2. PICK j \in DOMAIN r : r[j] = list[k] BY <2>8, <2>1, <3>1
    <3>3. j \in 1..Len(r) BY <2>2, <2>3
    <3> QED BY <3>1, <3>2, <3>3, <2>7, FoundAt
  <2>11. ASSUME NEW n, LastOfTime(list, n) PROVE LastOfTime(r, n)
    BY <2>11, <2>4, <2>3, <2>1 DEF LastOfTime
  <2> QED BY <2>7, <2>9, <2>10, <2>11 DEF r
<1> QED BY <1>0, <1>1

\* The two timers of an interval, where they are adjacent: one time, and successive places.
LEMMA AdjacentIs ==
  ASSUME NEW list, Good(list), Adjacent(list)
  PROVE  /\ "stats" \in Active(list) /\ "report" \in Active(list)
         /\ At(list, "report") = At(list, "stats")
         /\ Place(list, "report") = Place(list, "stats") + 1
         /\ Successor(list, "stats") = "report"
         /\ \A n \in Active(list) : Successor(list, n) = "report" => n = "stats"
         /\ list[1].name # "report"
<1>1. DOMAIN list = 1..Len(list) /\ Len(list) \in Nat BY DEF Good
<1>2. PICK k \in 1..Len(list) :
        /\ k + 1 \in 1..Len(list) /\ list[k].name = "stats" /\ list[k + 1].name = "report"
        /\ list[k].at = list[k + 1].at
  BY <1>1 DEF Adjacent
<1>3. /\ "stats" \in Active(list) /\ Place(list, "stats") = k /\ At(list, "stats") = list[k].at
      /\ "report" \in Active(list) /\ Place(list, "report") = k + 1
      /\ At(list, "report") = list[k + 1].at
  BY <1>2, FoundAt
<1>4. Successor(list, "stats") = "report" BY <1>2, <1>3, <1>1 DEF Successor
<1>5. ASSUME NEW n \in Active(list), Successor(list, n) = "report" PROVE n = "stats"
  <2>1. Place(list, n) \in 1..Len(list) /\ list[Place(list, n)].name = n BY PlaceIs
  <2>2. Place(list, n) # Len(list) /\ list[Place(list, n) + 1].name = "report"
    BY <1>5 DEF Successor, NoTimer
  <2>3. Place(list, n) + 1 \in 1..Len(list) BY <2>1, <2>2, <1>1
  <2>4. Place(list, n) + 1 = k + 1 BY <2>2, <2>3, <1>3, FoundAt
  <2>5. Place(list, n) = k BY <2>4, <2>1, <1>2
  <2> QED BY <2>5, <2>1, <1>2
<1>6. list[1].name # "report"
  <2>1. SUFFICES ASSUME list[1].name = "report" PROVE FALSE OBVIOUS
  <2>2. 1 \in 1..Len(list) BY <1>1, <1>2
  <2>3. 1 = k + 1 BY <2>1, <2>2, <1>3, FoundAt
  <2> QED BY <2>3, <1>2
<1> QED BY <1>2, <1>3, <1>4, <1>5, <1>6

\* What comes after a timer in the list is another one, or none.
LEMMA SuccessorIs ==
  ASSUME NEW list, Good(list), NEW n \in Active(list)
  PROVE  Successor(list, n) \in (Active(list) \ {n}) \cup {NoTimer}
<1>1. DOMAIN list = 1..Len(list) /\ Len(list) \in Nat BY DEF Good
<1>2. Place(list, n) \in 1..Len(list) /\ list[Place(list, n)].name = n BY PlaceIs
<1>3. CASE Place(list, n) = Len(list) BY <1>3 DEF Successor
<1>4. CASE Place(list, n) # Len(list)
  <2>1. Place(list, n) + 1 \in 1..Len(list) BY <1>1, <1>2, <1>4
  <2>2. Successor(list, n) = list[Place(list, n) + 1].name BY <1>4 DEF Successor
  <2>3. Place(list, list[Place(list, n) + 1].name) = Place(list, n) + 1
        /\ list[Place(list, n) + 1].name \in Active(list)
    BY <2>1, FoundAt
  <2> QED BY <2>2, <2>3, <1>2
<1> QED BY <1>3, <1>4

\* No other timer comes between the two of an interval.
LEMMA InsertOther ==
  ASSUME NEW list, Good(list), Adjacent(list), NEW t \in Entry, t.name \notin Active(list)
  PROVE  Adjacent(Insert(list, t))
<1> DEFINE r == Insert(list, t)
<1>1. PICK p \in 1..Len(list) + 1 :
        /\ r \in Seq(Entry) /\ Len(r) = Len(list) + 1
        /\ \A k \in 1..p - 1 : r[k] = list[k] /\ list[k].at <= t.at
        /\ r[p] = t
        /\ \A k \in p..Len(list) : r[k + 1] = list[k] /\ list[k].at > t.at
  BY InsertIs
<1> HIDE DEF r
<1>2. DOMAIN list = 1..Len(list) /\ Len(list) \in Nat /\ DOMAIN r = 1..Len(list) + 1
  BY <1>1 DEF Good
<1>3. PICK k \in 1..Len(list) :
        /\ k + 1 \in 1..Len(list) /\ list[k].name = "stats" /\ list[k + 1].name = "report"
        /\ list[k].at = list[k + 1].at
  BY <1>2 DEF Adjacent
<1>4. t.at \in Nat /\ list[k].at \in Nat BY <1>3, FoundAt DEF Entry
<1>5. CASE k + 1 < p
  <2>1. r[k] = list[k] /\ r[k + 1] = list[k + 1] BY <1>5, <1>1, <1>2, <1>3
  <2>2. k \in DOMAIN r /\ k + 1 \in DOMAIN r BY <1>2, <1>3
  <2> QED BY <2>1, <2>2, <1>3 DEF Adjacent, r
<1>6. CASE p <= k
  <2>1. r[k + 1] = list[k] /\ r[(k + 1) + 1] = list[k + 1] BY <1>6, <1>1, <1>2, <1>3
  <2>2. k + 1 \in DOMAIN r /\ (k + 1) + 1 \in DOMAIN r BY <1>2, <1>3
  <2> QED BY <2>1, <2>2, <1>3 DEF Adjacent, r
<1>7. CASE p = k + 1
  <2>1. list[k].at <= t.at /\ list[k + 1].at > t.at BY <1>7, <1>1, <1>2, <1>3
  <2> QED BY <2>1, <1>3, <1>4
<1> QED BY <1>5, <1>6, <1>7, <1>2, <1>3

\* Nor does taking out another timer part them.
LEMMA CancelOther ==
  ASSUME NEW list, Good(list), Adjacent(list), NEW name \in {"test", "omit"}
  PROVE  Adjacent(Cancel(list, name))
<1>0. CASE name \notin Active(list) BY <1>0 DEF Cancel
<1>1. CASE name \in Active(list)
  <2> DEFINE r == Cancel(list, name)  p == Place(list, name)
  <2>1. p \in 1..Len(list) /\ list[p].name = name BY <1>1, PlaceIs
  <2>2. /\ r \in Seq(Entry) /\ Len(r) = Len(list) - 1
        /\ \A k \in 1..p - 1 : r[k] = list[k]
        /\ \A k \in p..Len(list) - 1 : r[k] = list[k + 1]
    BY <1>1, CancelIs
  <2> HIDE DEF r, p
  <2>3. DOMAIN list = 1..Len(list) /\ Len(list) \in Nat /\ DOMAIN r = 1..Len(list) - 1
    BY <2>2 DEF Good
  <2>4. PICK k \in 1..Len(list) :
          /\ k + 1 \in 1..Len(list) /\ list[k].name = "stats" /\ list[k + 1].name = "report"
          /\ list[k].at = list[k + 1].at
    BY <2>3 DEF Adjacent
  <2>5. k # p /\ k + 1 # p BY <2>1, <2>4
  <2>6. CASE k + 1 < p
    <3>1. r[k] = list[k] /\ r[k + 1] = list[k + 1] BY <2>6, <2>2, <2>3, <2>4, <2>1
    <3>2. k \in DOMAIN r /\ k + 1 \in DOMAIN r BY <2>3, <2>4, <2>6, <2>1
    <3> QED BY <3>1, <3>2, <2>4 DEF Adjacent, r
  <2>7. CASE p < k
    <3>1. k - 1 \in p..Len(list) - 1 /\ (k - 1) + 1 = k /\ k \in p..Len(list) - 1
      BY <2>7, <2>3, <2>4, <2>1
    <3>2. r[k - 1] = list[k] /\ r[(k - 1) + 1] = list[k + 1] BY <3>1, <2>2
    <3>3. k - 1 \in DOMAIN r /\ (k - 1) + 1 \in DOMAIN r BY <2>3, <3>1, <2>1
    <3> QED BY <3>2, <3>3, <2>4 DEF Adjacent, r
  <2> QED BY <2>5, <2>6, <2>7, <2>1, <2>4, <2>3
<1> QED BY <1>0, <1>1

\* A reporter's timer that gets the time of the statistics, behind which nothing else is of
\* that time, comes directly after.
LEMMA InsertPair ==
  ASSUME NEW list, Good(list), "stats" \in Active(list), "report" \notin Active(list),
         LastOfTime(list, "stats")
  PROVE  Adjacent(Insert(list, Timer("report", At(list, "stats"))))
<1> DEFINE t == Timer("report", At(list, "stats"))  r == Insert(list, t)
<1>0. t \in Entry /\ t.name = "report" /\ t.at = At(list, "stats") BY PlaceIs, EntryIs DEF Names
<1> HIDE DEF t
<1>1. PICK p \in 1..Len(list) + 1 :
        /\ r \in Seq(Entry) /\ Len(r) = Len(list) + 1
        /\ \A k \in 1..p - 1 : r[k] = list[k] /\ list[k].at <= t.at
        /\ r[p] = t
        /\ \A k \in p..Len(list) : r[k + 1] = list[k] /\ list[k].at > t.at
  BY <1>0, InsertIs
<1> HIDE DEF r
<1>2. DOMAIN list = 1..Len(list) /\ Len(list) \in Nat /\ DOMAIN r = 1..Len(list) + 1
  BY <1>1 DEF Good
<1>3. PICK k \in 1..Len(list) : list[k].name = "stats" /\ list[k].at = At(list, "stats")
                                /\ list[k].at \in Nat
  BY PlaceIs DEF At
<1>4. \A j \in 1..Len(list) : j > k => list[j].at > t.at /\ list[j].at \in Nat
  <2> TAKE j \in 1..Len(list)
  <2>1. list[j].at \in Nat BY FoundAt DEF Entry
  <2> QED BY <2>1, <1>3, <1>0, <1>2 DEF LastOfTime
<1>5. p > k
  <2>1. SUFFICES ASSUME p <= k PROVE FALSE BY <1>2
  <2>2. list[k].at > t.at BY <2>1, <1>1, <1>2
  <2> QED BY <2>2, <1>3, <1>0
<1>6. p = k + 1
  <2>1. SUFFICES ASSUME p > k + 1 PROVE FALSE BY <1>2, <1>5
  <2>2. k + 1 \in 1..p - 1 /\ k + 1 \in 1..Len(list) BY <2>1, <1>2
  <2>3. list[k + 1].at <= t.at BY <2>2, <1>1
  <2>4. list[k + 1].at > t.at /\ list[k + 1].at \in Nat BY <2>2, <1>4
  <2> QED BY <2>3, <2>4, <1>0, <1>3
<1>7. r[k] = list[k] /\ r[k + 1] = t BY <1>1, <1>6, <1>2
<1>8. k \in DOMAIN r /\ k + 1 \in DOMAIN r BY <1>2, <1>6
<1> QED BY <1>7, <1>8, <1>3, <1>0 DEF Adjacent, r, t

\* What a list has after tmr_reset or tmr_run has queued a timer again.
LEMMA ResortHas ==
  ASSUME NEW list, Good(list), NEW name \in Active(list), NEW at \in Nat
  PROVE  /\ Good(Resort(list, name, at)) /\ Active(Resort(list, name, at)) = Active(list)
         /\ At(Resort(list, name, at), name) = at
         /\ \A n \in Active(list) \ {name} : At(Resort(list, name, at), n) = At(list, n)
         /\ LastOfTime(Resort(list, name, at), name)
<1> DEFINE c == Cancel(list, name)  t == Timer(name, at)
<1>1. Good(c) /\ Active(c) = Active(list) \ {name}
      /\ \A n \in Active(list) \ {name} : At(c, n) = At(list, n)
  BY CancelHas
<1>2. t \in Entry /\ t.name = name /\ t.at = at BY PlaceIs, EntryIs
<1>3. Resort(list, name, at) = Insert(c, t) BY DEF Resort
<1> HIDE DEF c, t
<1>4. /\ Good(Insert(c, t)) /\ Active(Insert(c, t)) = Active(c) \cup {t.name}
      /\ At(Insert(c, t), t.name) = t.at
      /\ \A n \in Active(c) : At(Insert(c, t), n) = At(c, n)
      /\ LastOfTime(Insert(c, t), t.name)
  BY <1>1, <1>2, InsertHas
<1> QED BY <1>1, <1>2, <1>3, <1>4

\* The reporter's timer that is queued again stands behind that of the statistics again.
LEMMA ReportRejoins ==
  ASSUME NEW list, Good(list), "stats" \in Active(list), "report" \in Active(list),
         LastOfTime(list, "stats")
  PROVE  Adjacent(Resort(list, "report", At(list, "stats")))
<1> DEFINE c == Cancel(list, "report")
<1>1. Good(c) /\ Active(c) = Active(list) \ {"report"} /\ At(c, "stats") = At(list, "stats")
      /\ LastOfTime(c, "stats")
  BY CancelHas
<1>2. Resort(list, "report", At(list, "stats")) = Insert(c, Timer("report", At(c, "stats")))
  BY <1>1 DEF Resort
<1> HIDE DEF c
<1> QED BY <1>1, <1>2, InsertPair

\* So does the end of the omitted part leave them.
LEMMA PairIsReset ==
  ASSUME NEW list, Good(list), "stats" \in Active(list), "report" \in Active(list), NEW at \in Nat
  PROVE  LET r == Resort(Resort(list, "stats", at), "report", at)
         IN Good(r) /\ Active(r) = Active(list) /\ Adjacent(r)
<1> DEFINE s == Resort(list, "stats", at)
<1>1. Good(s) /\ Active(s) = Active(list) /\ At(s, "stats") = at /\ LastOfTime(s, "stats")
  BY ResortHas
<1> HIDE DEF s
<1>2. Good(Resort(s, "report", at)) /\ Active(Resort(s, "report", at)) = Active(s)
  BY <1>1, ResortHas
<1>3. Adjacent(Resort(s, "report", at)) BY <1>1, ReportRejoins
<1> QED BY <1>1, <1>2, <1>3 DEF s

\* What a test's parameters are.
LEMMA TestIs ==
  ASSUME NEW p \in Tests
  PROVE  /\ p.role \in {"client", "server"} /\ p.sends \in BOOLEAN /\ p.streams \in Nat \ {0}
         /\ p.omit \in Nat /\ p.duration \in Nat /\ p.interval \in Nat /\ p.blocks \in Nat
         /\ p.rcv \in Nat \ {0} /\ p.rate \in Nat /\ p.burst \in Nat /\ p.limit \in Nat
         /\ p.window \in Nat \ {0} /\ p.cap \in Nat
BY TestsAssumption

\* The list that create_client_timers, create_server_timers and the omit timer leave.
LEMMA TimersCreated ==
  ASSUME NEW p \in Tests
  PROVE  /\ Good(CreateTimers(p))
         /\ "stats" \in Active(CreateTimers(p)) <=> p.interval # 0
         /\ "report" \in Active(CreateTimers(p)) <=> p.interval # 0
         /\ "omit" \in Active(CreateTimers(p)) => p.omit # 0
         /\ p.interval # 0 => Adjacent(CreateTimers(p))
<1> DEFINE at == p.duration + p.omit + (IF p.role = "server" THEN Grace ELSE 0)
           a == IF p.duration # 0 THEN Insert(<<>>, Timer("test", at)) ELSE <<>>
           b == IF p.interval # 0 THEN Insert(a, Timer("stats", p.interval)) ELSE a
           c == IF p.interval # 0 THEN Insert(b, Timer("report", p.interval)) ELSE b
           d == IF p.omit # 0 THEN Insert(c, Timer("omit", p.omit)) ELSE c
<1>0. CreateTimers(p) = d BY DEF CreateTimers
<1>1. at \in Nat /\ p.interval \in Nat /\ p.omit \in Nat /\ p.duration \in Nat
  BY TestIs, LimitsAssumption
<1>2. /\ Timer("test", at) \in Entry /\ Timer("test", at).name = "test"
      /\ Timer("stats", p.interval) \in Entry /\ Timer("stats", p.interval).name = "stats"
      /\ Timer("stats", p.interval).at = p.interval
      /\ Timer("report", p.interval) \in Entry /\ Timer("report", p.interval).name = "report"
      /\ Timer("omit", p.omit) \in Entry /\ Timer("omit", p.omit).name = "omit"
  BY <1>1, EntryIs DEF Names
<1> HIDE DEF at, d
<1>3. Good(a) /\ Active(a) \subseteq {"test"} BY <1>2, EmptyIsGood, InsertHas
<1> HIDE DEF a
<1>4. CASE p.interval = 0
  <2>1. Good(c) /\ Active(c) \subseteq {"test"} BY <1>3, <1>4
  <2> HIDE DEF c
  <2>2. Good(d) /\ Active(d) \subseteq {"test", "omit"} BY <2>1, <1>2, InsertHas DEF d
  <2>3. p.omit = 0 => Active(d) \subseteq {"test"} BY <2>1 DEF d
  <2> QED BY <2>2, <2>3, <1>0, <1>4
<1>5. CASE p.interval # 0
  <2>1. /\ Good(b) /\ Active(b) = Active(a) \cup {"stats"} /\ LastOfTime(b, "stats")
        /\ At(b, "stats") = p.interval
    BY <1>3, <1>5, <1>2, InsertHas
  <2> HIDE DEF b
  <2>2. Good(c) /\ Active(c) = Active(b) \cup {"report"}
    BY <2>1, <1>3, <1>5, <1>2, InsertHas
  <2>3. Adjacent(c) BY <2>1, <1>3, <1>5, InsertPair
  <2> HIDE DEF c
  <2>4. CASE p.omit = 0 BY <2>4, <1>0, <2>1, <2>2, <2>3, <1>3, <1>5 DEF d
  <2>5. CASE p.omit # 0
    <3>1. d = Insert(c, Timer("omit", p.omit)) BY <2>5 DEF d
    <3>2. Good(d) /\ Active(d) = Active(c) \cup {"omit"}
      BY <3>1, <2>1, <2>2, <1>3, <1>2, InsertHas
    <3>3. Adjacent(d) BY <3>1, <2>1, <2>2, <2>3, <1>3, <1>2, InsertOther
    <3> QED BY <3>2, <3>3, <1>0, <2>1, <2>2, <1>3, <1>5, <2>5
  <2> QED BY <2>4, <2>5
<1> QED BY <1>4, <1>5

-----------------------------------------------------------------------------
(* Sums over a finite set.  What the folds of the community modules compute *)
(* is proved by induction on the number of elements, with well-foundedness  *)
(* of the natural numbers in place of an induction rule.                    *)

LEMMA SetInduction ==
  ASSUME NEW P \in SUBSET Nat, 0 \in P, \A n \in P : n + 1 \in P
  PROVE  P = Nat
<1> DEFINE T == Nat \ P  R == OpToRel(<, Nat)
<1>1. SUFFICES ASSUME T # {} PROVE FALSE OBVIOUS
<1>2. IsWellFoundedOn(R, Nat) BY NatLessThanWellFounded
<1>3. PICK x \in T : \A y \in T : ~(<<y, x>> \in R)
  <2> HIDE DEF R
  <2> QED BY <1>1, <1>2, WFMin
<1>4. x \in Nat /\ x \notin P /\ x # 0 OBVIOUS
<1>5. x - 1 \in Nat /\ (x - 1) + 1 = x BY <1>4
<1>6. <<x - 1, x>> \in R BY <1>4, <1>5 DEF OpToRel
<1>7. x - 1 \in P BY <1>3, <1>5, <1>6
<1> QED BY <1>4, <1>5, <1>7

\* What holds of the empty set, and of a set with one element more, holds of a finite set.
LEMMA FiniteInduction ==
  ASSUME NEW S, IsFiniteSet(S), NEW F \in SUBSET SUBSET S, {} \in F,
         \A T \in F : \A x \in S : x \notin T => T \cup {x} \in F
  PROVE  S \in F
<1> DEFINE P == {n \in Nat : \A T \in SUBSET S : Cardinality(T) = n => T \in F}
<1>1. 0 \in P
  <2> SUFFICES ASSUME NEW T \in SUBSET S, Cardinality(T) = 0 PROVE T \in F OBVIOUS
  <2>1. IsFiniteSet(T) BY FS_Subset
  <2>2. T = {} BY <2>1, FS_EmptySet
  <2> QED BY <2>2
<1>2. ASSUME NEW n \in P PROVE n + 1 \in P
  <2> SUFFICES ASSUME NEW T \in SUBSET S, Cardinality(T) = n + 1 PROVE T \in F OBVIOUS
  <2>1. IsFiniteSet(T) /\ n \in Nat BY FS_Subset
  <2>2. T # {}
    <3>1. n + 1 # 0 BY <2>1
    <3> QED BY <3>1, FS_EmptySet
  <2>3. PICK x \in T : TRUE BY <2>2
  <2>4. IsFiniteSet(T \ {x}) /\ Cardinality(T \ {x}) = n
    <3>1. IsFiniteSet(T \ {x}) /\ Cardinality(T \ {x}) = Cardinality(T) - 1
      BY <2>1, <2>3, FS_RemoveElement
    <3> QED BY <3>1, <2>1
  <2>5. T \ {x} \in F BY <2>4
  <2>6. (T \ {x}) \cup {x} = T /\ x \in S /\ x \notin T \ {x} BY <2>3
  <2> QED BY <2>5, <2>6
<1> HIDE DEF P
<1>3. P = Nat
  <2>1. P \in SUBSET Nat BY DEF P
  <2> QED BY <2>1, <1>1, <1>2, SetInduction
<1>4. Cardinality(S) \in P BY <1>3, FS_CardinalityType
<1> QED BY <1>4 DEF P

Some(S) == CHOOSE x \in S : TRUE
Summing(S, f, g) ==
  g = [T \in SUBSET S |-> IF T = {} THEN 0 ELSE f[Some(T)] + g[T \ {Some(T)}]]

\* The fold takes an element of the set.
LEMMA SomeIs == ASSUME NEW S, S # {} PROVE Some(S) \in S
BY DEF Some

\* A sum is what some function on the subsets gives that follows the fold.
LEMMA SumIs ==
  ASSUME NEW f, NEW S
  PROVE  SumFunctionOnSet(f, S) = (CHOOSE g : Summing(S, f, g))[S]
BY DEF SumFunctionOnSet, FoldFunctionOnSet, MapThenFoldSet, Summing, Some

\* There is one that does,
LEMMA SummingExists ==
  ASSUME NEW f, NEW S, IsFiniteSet(S)
  PROVE  \E g : Summing(S, f, g)
<1> DEFINE Sums(n, g) == \A T \in SUBSET S : Cardinality(T) <= n =>
                            g[T] = IF T = {} THEN 0 ELSE f[Some(T)] + g[T \ {Some(T)}]
           P == {n \in Nat : \E g : Sums(n, g)}
<1>0. \A T \in SUBSET S : /\ IsFiniteSet(T) /\ Cardinality(T) \in Nat
                          /\ (Cardinality(T) = 0 <=> T = {})
                          /\ T # {} => T \ {Some(T)} \in SUBSET S
                                       /\ Cardinality(T \ {Some(T)}) = Cardinality(T) - 1
  <2> TAKE T \in SUBSET S
  <2>1. IsFiniteSet(T) BY FS_Subset
  <2>2. Cardinality(T) \in Nat /\ (Cardinality(T) = 0 <=> T = {})
    BY <2>1, FS_CardinalityType, FS_EmptySet
  <2>3. T # {} => Cardinality(T \ {Some(T)}) = Cardinality(T) - 1
    BY <2>1, SomeIs, FS_RemoveElement
  <2> QED BY <2>1, <2>2, <2>3
<1>1. 0 \in P
  <2> DEFINE g == [T \in SUBSET S |-> 0]
  <2>1. Sums(0, g)
    <3> SUFFICES ASSUME NEW T \in SUBSET S, Cardinality(T) <= 0 PROVE T = {} /\ g[T] = 0 OBVIOUS
    <3>1. Cardinality(T) \in Nat BY <1>0
    <3>2. Cardinality(T) = 0 BY <3>1
    <3> QED BY <3>2, <1>0
  <2> QED BY <2>1
<1>2. ASSUME NEW n \in P PROVE n + 1 \in P
  <2>1. PICK g : Sums(n, g) OBVIOUS
  <2> DEFINE h == [T \in SUBSET S |->
                     IF Cardinality(T) <= n THEN g[T] ELSE f[Some(T)] + g[T \ {Some(T)}]]
  <2>2. Sums(n + 1, h)
    <3> SUFFICES ASSUME NEW T \in SUBSET S, Cardinality(T) <= n + 1
                 PROVE  h[T] = IF T = {} THEN 0 ELSE f[Some(T)] + h[T \ {Some(T)}]
      OBVIOUS
    <3>1. Cardinality(T) \in Nat BY <1>0
    <3>2. CASE T = {}
      <4>1. Cardinality(T) <= n
        <5>1. Cardinality(T) = 0 /\ n \in Nat BY <3>2, <1>0
        <5> QED BY <5>1
      <4> QED BY <4>1, <3>2, <2>1
    <3>3. CASE T # {}
      <4> DEFINE U == T \ {Some(T)}
      <4>1. U \in SUBSET S /\ Cardinality(U) <= n BY <3>3, <3>1, <1>0
      <4>2. h[U] = g[U] BY <4>1
      <4> HIDE DEF U
      <4>3. h[T] = f[Some(T)] + g[U]
        <5>1. CASE Cardinality(T) <= n
          <6>1. h[T] = g[T] BY <5>1
          <6>2. g[T] = f[Some(T)] + g[U] BY <5>1, <2>1, <3>3 DEF U
          <6> QED BY <6>1, <6>2
        <5>2. CASE ~(Cardinality(T) <= n) BY <5>2 DEF U
        <5> QED BY <5>1, <5>2
      <4> QED BY <4>2, <4>3, <3>3 DEF U
    <3> QED BY <3>2, <3>3
  <2>3. n + 1 \in Nat OBVIOUS
  <2> HIDE DEF h
  <2>4. \E e : Sums(n + 1, e) BY <2>2
  <2> QED BY <2>3, <2>4
<1> HIDE DEF P, Sums
<1>3. P = Nat
  <2>1. P \in SUBSET Nat BY DEF P
  <2> QED BY <2>1, <1>1, <1>2, SetInduction
<1>4. Cardinality(S) \in P BY <1>3, FS_CardinalityType
<1>5. PICK g : Sums(Cardinality(S), g) BY <1>4 DEF P
<1> DEFINE h == [T \in SUBSET S |-> g[T]]
<1>6. \A T \in SUBSET S : h[T] = IF T = {} THEN 0 ELSE f[Some(T)] + h[T \ {Some(T)}]
  <2> TAKE T \in SUBSET S
  <2>1. Cardinality(T) <= Cardinality(S) BY FS_Subset
  <2>2. g[T] = IF T = {} THEN 0 ELSE f[Some(T)] + g[T \ {Some(T)}]
    BY <2>1, <1>5 DEF Sums
  <2> QED BY <2>2
<1>7. h = [T \in SUBSET S |-> h[T]] OBVIOUS
<1> HIDE DEF h
<1>8. Summing(S, f, h) BY <1>6, <1>7 DEF Summing
<1> QED BY <1>8

\* and any two that do agree on what both are defined on.
LEMMA SummingAgrees ==
  ASSUME NEW S, NEW R, NEW f, NEW e, NEW g, NEW h, Summing(S, f, g), Summing(R, e, h),
         NEW U, IsFiniteSet(U), U \subseteq S, U \subseteq R, \A x \in U : f[x] = e[x]
  PROVE  g[U] = h[U]
<1> DEFINE P == {n \in Nat : \A T \in SUBSET U : Cardinality(T) = n => g[T] = h[T]}
<1>0. \A T \in SUBSET U :
        /\ IsFiniteSet(T)
        /\ g[T] = IF T = {} THEN 0 ELSE f[Some(T)] + g[T \ {Some(T)}]
        /\ h[T] = IF T = {} THEN 0 ELSE e[Some(T)] + h[T \ {Some(T)}]
  <2> TAKE T \in SUBSET U
  <2>1. IsFiniteSet(T) /\ T \in SUBSET S /\ T \in SUBSET R BY FS_Subset
  <2>2. g[T] = IF T = {} THEN 0 ELSE f[Some(T)] + g[T \ {Some(T)}] BY <2>1 DEF Summing
  <2>3. h[T] = IF T = {} THEN 0 ELSE e[Some(T)] + h[T \ {Some(T)}] BY <2>1 DEF Summing
  <2> QED BY <2>1, <2>2, <2>3
<1>1. 0 \in P
  <2> SUFFICES ASSUME NEW T \in SUBSET U, Cardinality(T) = 0 PROVE g[T] = h[T] OBVIOUS
  <2>1. T = {} BY <1>0, FS_EmptySet
  <2> QED BY <2>1, <1>0
<1>2. ASSUME NEW n \in P PROVE n + 1 \in P
  <2> SUFFICES ASSUME NEW T \in SUBSET U, Cardinality(T) = n + 1 PROVE g[T] = h[T] OBVIOUS
  <2>0. n \in Nat /\ n + 1 # 0 OBVIOUS
  <2>1. T # {} BY <2>0, FS_EmptySet
  <2>2. Some(T) \in T /\ f[Some(T)] = e[Some(T)] BY <2>1, SomeIs
  <2>3. Cardinality(T \ {Some(T)}) = n
    <3>1. Cardinality(T \ {Some(T)}) = Cardinality(T) - 1 BY <2>2, <1>0, FS_RemoveElement
    <3> QED BY <3>1, <2>0
  <2>4. g[T \ {Some(T)}] = h[T \ {Some(T)}] BY <2>3
  <2>5. g[T] = f[Some(T)] + g[T \ {Some(T)}] BY <2>1, <1>0
  <2>6. h[T] = e[Some(T)] + h[T \ {Some(T)}] BY <2>1, <1>0
  <2> QED BY <2>2, <2>4, <2>5, <2>6
<1> HIDE DEF P
<1>3. P = Nat
  <2>1. P \in SUBSET Nat BY DEF P
  <2> QED BY <2>1, <1>1, <1>2, SetInduction
<1>4. Cardinality(U) \in P BY <1>3, FS_CardinalityType
<1> QED BY <1>4 DEF P

\* A sum is that of one summand and the rest, and depends on the summands alone.
LEMMA SumSame ==
  ASSUME NEW S, IsFiniteSet(S), NEW f, NEW e, \A x \in S : f[x] = e[x]
  PROVE  SumFunctionOnSet(f, S) = SumFunctionOnSet(e, S)
<1>1. Summing(S, f, CHOOSE g : Summing(S, f, g)) BY SummingExists
<1>2. Summing(S, e, CHOOSE g : Summing(S, e, g)) BY SummingExists
<1> QED BY <1>1, <1>2, SummingAgrees, SumIs

\* Nothing adds up to nothing.
LEMMA SumEmpty == ASSUME NEW f PROVE SumFunctionOnSet(f, {}) = 0
<1>1. Summing({}, f, CHOOSE g : Summing({}, f, g)) BY SummingExists, FS_EmptySet
<1>2. {} \in SUBSET {} OBVIOUS
<1> QED BY <1>1, <1>2, SumIs DEF Summing

\* A sum is that of the element the fold takes and of the rest.
LEMMA SumOfSome ==
  ASSUME NEW S, IsFiniteSet(S), S # {}, NEW f
  PROVE  SumFunctionOnSet(f, S) = f[Some(S)] + SumFunctionOnSet(f, S \ {Some(S)})
<1> DEFINE U == S \ {Some(S)}
           g == CHOOSE g : Summing(S, f, g)
           h == CHOOSE h : Summing(U, f, h)
<1>1. IsFiniteSet(U) BY FS_Subset
<1>2. Summing(S, f, g) BY SummingExists
<1>3. Summing(U, f, h) BY <1>1, SummingExists
<1> HIDE DEF g, h
<1>4. g[U] = h[U]
  <2>1. U \subseteq S /\ U \subseteq U OBVIOUS
  <2> HIDE DEF U
  <2> QED BY <1>1, <1>2, <1>3, <2>1, SummingAgrees
<1>5. g[S] = f[Some(S)] + g[U] BY <1>2 DEF Summing
<1>6. SumFunctionOnSet(f, S) = g[S] BY SumIs DEF g
<1>7. SumFunctionOnSet(f, U) = h[U] BY SumIs DEF h
<1> QED BY <1>4, <1>5, <1>6, <1>7

\* A sum of integers is one.
LEMMA SumInt ==
  ASSUME NEW S, IsFiniteSet(S), NEW f, \A x \in S : f[x] \in Int
  PROVE  SumFunctionOnSet(f, S) \in Int
<1> DEFINE P == {n \in Nat : \A T \in SUBSET S : Cardinality(T) = n => SumFunctionOnSet(f, T) \in Int}
<1>0. \A T \in SUBSET S : IsFiniteSet(T) BY FS_Subset
<1>1. 0 \in P
  <2> SUFFICES ASSUME NEW T \in SUBSET S, Cardinality(T) = 0 PROVE SumFunctionOnSet(f, T) \in Int
    OBVIOUS
  <2>1. T = {} BY <1>0, FS_EmptySet
  <2>2. SumFunctionOnSet(f, T) = 0 BY <2>1, SumEmpty
  <2> QED BY <2>2
<1>2. ASSUME NEW n \in P PROVE n + 1 \in P
  <2> SUFFICES ASSUME NEW T \in SUBSET S, Cardinality(T) = n + 1
               PROVE  SumFunctionOnSet(f, T) \in Int
    OBVIOUS
  <2>0. n \in Nat /\ n + 1 # 0 OBVIOUS
  <2>1. T # {} BY <2>0, FS_EmptySet
  <2>2. Some(T) \in T BY <2>1, SomeIs
  <2>3. Cardinality(T \ {Some(T)}) = n
    <3>1. Cardinality(T \ {Some(T)}) = Cardinality(T) - 1 BY <2>2, <1>0, FS_RemoveElement
    <3> QED BY <3>1, <2>0
  <2>4. SumFunctionOnSet(f, T \ {Some(T)}) \in Int BY <2>3
  <2>5. SumFunctionOnSet(f, T) = f[Some(T)] + SumFunctionOnSet(f, T \ {Some(T)})
    BY <2>1, <1>0, SumOfSome
  <2>6. f[Some(T)] \in Int BY <2>2
  <2> QED BY <2>4, <2>5, <2>6
<1> HIDE DEF P
<1>3. P = Nat
  <2>1. P \in SUBSET Nat BY DEF P
  <2> QED BY <2>1, <1>1, <1>2, SetInduction
<1>4. Cardinality(S) \in P BY <1>3, FS_CardinalityType
<1> QED BY <1>4 DEF P

\* Whichever element is taken out, the sum is that of it and the rest.
LEMMA SumStep ==
  ASSUME NEW S, IsFiniteSet(S), NEW f, \A x \in S : f[x] \in Int, NEW y \in S
  PROVE  SumFunctionOnSet(f, S) = f[y] + SumFunctionOnSet(f, S \ {y})
<1> DEFINE Splits(T) == \A x \in T : SumFunctionOnSet(f, T) = f[x] + SumFunctionOnSet(f, T \ {x})
           P == {n \in Nat : \A T \in SUBSET S : Cardinality(T) = n => Splits(T)}
<1>0. \A T \in SUBSET S : IsFiniteSet(T) /\ SumFunctionOnSet(f, T) \in Int
  <2> TAKE T \in SUBSET S
  <2>1. IsFiniteSet(T) BY FS_Subset
  <2> QED BY <2>1, SumInt
<1>1. 0 \in P
  <2> SUFFICES ASSUME NEW T \in SUBSET S, Cardinality(T) = 0 PROVE Splits(T)
    OBVIOUS
  <2>1. T = {} BY <1>0, FS_EmptySet
  <2> QED BY <2>1
<1>2. ASSUME NEW n \in P PROVE n + 1 \in P
  <2> SUFFICES ASSUME NEW T \in SUBSET S, Cardinality(T) = n + 1, NEW x \in T
               PROVE  SumFunctionOnSet(f, T) = f[x] + SumFunctionOnSet(f, T \ {x})
    OBVIOUS
  <2>0. n \in Nat /\ n + 1 # 0 OBVIOUS
  <2>1. T # {} OBVIOUS
  <2> DEFINE c == Some(T)
  <2>2. c \in T BY <2>1, SomeIs
  <2>3. SumFunctionOnSet(f, T) = f[c] + SumFunctionOnSet(f, T \ {c})
    BY <2>1, <1>0, SumOfSome
  <2> HIDE DEF c
  <2>4. Cardinality(T \ {c}) = n /\ Cardinality(T \ {x}) = n
    <3>1. Cardinality(T \ {c}) = Cardinality(T) - 1 BY <2>2, <1>0, FS_RemoveElement
    <3>2. Cardinality(T \ {x}) = Cardinality(T) - 1 BY <1>0, FS_RemoveElement
    <3> QED BY <3>1, <3>2, <2>0
  <2>5. Splits(T \ {c}) /\ Splits(T \ {x}) BY <2>4
  <2>6. CASE x = c BY <2>6, <2>3
  <2>7. CASE x # c
    <3> DEFINE U == (T \ {c}) \ {x}
    <3>1. SumFunctionOnSet(f, T \ {c}) = f[x] + SumFunctionOnSet(f, U) BY <2>5, <2>7
    <3>2. SumFunctionOnSet(f, T \ {x}) = f[c] + SumFunctionOnSet(f, (T \ {x}) \ {c})
      BY <2>5, <2>7, <2>2
    <3>3. (T \ {x}) \ {c} = U OBVIOUS
    <3>4. U \in SUBSET S OBVIOUS
    <3> HIDE DEF U
    <3>5. f[x] \in Int /\ f[c] \in Int /\ SumFunctionOnSet(f, U) \in Int BY <3>4, <2>2, <1>0
    <3>6. SumFunctionOnSet(f, T \ {x}) = f[c] + SumFunctionOnSet(f, U) BY <3>2, <3>3
    <3> QED BY <2>3, <3>1, <3>5, <3>6
  <2> QED BY <2>6, <2>7
<1> HIDE DEF P
<1>3. P = Nat
  <2>1. P \in SUBSET Nat BY DEF P
  <2> QED BY <2>1, <1>1, <1>2, SetInduction
<1>4. Cardinality(S) \in P BY <1>3, FS_CardinalityType
<1> QED BY <1>4 DEF P

\* The sum over a set with one element more.
LEMMA SumMore ==
  ASSUME NEW S, IsFiniteSet(S), NEW y, y \notin S, NEW f, \A x \in S : f[x] \in Int, f[y] \in Int
  PROVE  SumFunctionOnSet(f, S \cup {y}) = SumFunctionOnSet(f, S) + f[y]
<1> DEFINE T == S \cup {y}
<1>1. IsFiniteSet(T) /\ T \ {y} = S /\ y \in T BY FS_AddElement
<1>2. \A x \in T : f[x] \in Int OBVIOUS
<1> HIDE DEF T
<1>3. SumFunctionOnSet(f, T) = f[y] + SumFunctionOnSet(f, S) BY <1>1, <1>2, SumStep
<1>4. SumFunctionOnSet(f, S) \in Int BY SumInt
<1> QED BY <1>3, <1>4 DEF T

\* Summands that are greater, taken together, or at most some number each.
LEMMA SumGrows ==
  ASSUME NEW S, IsFiniteSet(S), NEW f, NEW e,
         \A x \in S : f[x] \in Int /\ e[x] \in Int /\ f[x] <= e[x]
  PROVE  SumFunctionOnSet(f, S) <= SumFunctionOnSet(e, S)
<1> DEFINE F == {T \in SUBSET S : SumFunctionOnSet(f, T) <= SumFunctionOnSet(e, T)}
<1>1. {} \in F BY SumEmpty
<1>2. ASSUME NEW T \in F, NEW x \in S, x \notin T PROVE T \cup {x} \in F
  <2>1. IsFiniteSet(T) BY FS_Subset
  <2>2. SumFunctionOnSet(f, T \cup {x}) = SumFunctionOnSet(f, T) + f[x] BY <2>1, <1>2, SumMore
  <2>3. SumFunctionOnSet(e, T \cup {x}) = SumFunctionOnSet(e, T) + e[x] BY <2>1, <1>2, SumMore
  <2>4. SumFunctionOnSet(f, T) \in Int /\ SumFunctionOnSet(e, T) \in Int BY <2>1, SumInt
  <2>5. SumFunctionOnSet(f, T) <= SumFunctionOnSet(e, T) OBVIOUS
  <2>6. SumFunctionOnSet(f, T \cup {x}) <= SumFunctionOnSet(e, T \cup {x})
    BY <2>2, <2>3, <2>4, <2>5
  <2> QED BY <2>6
<1>3. F \in SUBSET SUBSET S OBVIOUS
<1> HIDE DEF F
<1>4. S \in F BY <1>1, <1>2, <1>3, FiniteInduction
<1> QED BY <1>4 DEF F

\* The sum of sums.
LEMMA SumAdds ==
  ASSUME NEW S, IsFiniteSet(S), NEW f, NEW e, NEW g,
         \A x \in S : f[x] \in Int /\ e[x] \in Int /\ g[x] = f[x] + e[x]
  PROVE  SumFunctionOnSet(g, S) = SumFunctionOnSet(f, S) + SumFunctionOnSet(e, S)
<1> DEFINE F == {T \in SUBSET S : SumFunctionOnSet(g, T) =
                                    SumFunctionOnSet(f, T) + SumFunctionOnSet(e, T)}
<1>1. {} \in F BY SumEmpty
<1>2. ASSUME NEW T \in F, NEW x \in S, x \notin T PROVE T \cup {x} \in F
  <2>1. IsFiniteSet(T) /\ \A y \in S : g[y] \in Int BY FS_Subset
  <2>2. SumFunctionOnSet(f, T \cup {x}) = SumFunctionOnSet(f, T) + f[x] BY <2>1, <1>2, SumMore
  <2>3. SumFunctionOnSet(e, T \cup {x}) = SumFunctionOnSet(e, T) + e[x] BY <2>1, <1>2, SumMore
  <2>4. SumFunctionOnSet(g, T \cup {x}) = SumFunctionOnSet(g, T) + g[x] BY <2>1, <1>2, SumMore
  <2>5. SumFunctionOnSet(f, T) \in Int /\ SumFunctionOnSet(e, T) \in Int BY <2>1, SumInt
  <2>6. SumFunctionOnSet(g, T) = SumFunctionOnSet(f, T) + SumFunctionOnSet(e, T) OBVIOUS
  <2>7. SumFunctionOnSet(g, T \cup {x}) =
          SumFunctionOnSet(f, T \cup {x}) + SumFunctionOnSet(e, T \cup {x})
    BY <2>2, <2>3, <2>4, <2>5, <2>6
  <2> QED BY <2>7
<1>3. F \in SUBSET SUBSET S OBVIOUS
<1> HIDE DEF F
<1>4. S \in F BY <1>1, <1>2, <1>3, FiniteInduction
<1> QED BY <1>4 DEF F

\* A sum of summands that are at most c.
LEMMA SumAtMost ==
  ASSUME NEW S, IsFiniteSet(S), NEW c \in Nat, NEW f, \A x \in S : f[x] \in Int /\ f[x] <= c
  PROVE  SumFunctionOnSet(f, S) <= c * Cardinality(S)
<1> DEFINE F == {T \in SUBSET S : SumFunctionOnSet(f, T) <= c * Cardinality(T)}
<1>1. {} \in F BY SumEmpty, FS_EmptySet
<1>2. ASSUME NEW T \in F, NEW x \in S, x \notin T PROVE T \cup {x} \in F
  <2>1. IsFiniteSet(T) BY FS_Subset
  <2>2. SumFunctionOnSet(f, T \cup {x}) = SumFunctionOnSet(f, T) + f[x] BY <2>1, <1>2, SumMore
  <2>3. Cardinality(T \cup {x}) = Cardinality(T) + 1 /\ Cardinality(T) \in Nat
    BY <2>1, <1>2, FS_AddElement, FS_CardinalityType
  <2>4. SumFunctionOnSet(f, T) \in Int BY <2>1, SumInt
  <2>5. SumFunctionOnSet(f, T) <= c * Cardinality(T) OBVIOUS
  <2>6. c * (Cardinality(T) + 1) = c * Cardinality(T) + c BY <2>3
  <2>7. c * Cardinality(T) \in Int BY <2>3
  <2>8. SumFunctionOnSet(f, T \cup {x}) <= c * Cardinality(T \cup {x})
    BY <2>2, <2>3, <2>4, <2>5, <2>6, <2>7
  <2> QED BY <2>8
<1>3. F \in SUBSET SUBSET S OBVIOUS
<1> HIDE DEF F
<1>4. S \in F BY <1>1, <1>2, <1>3, FiniteInduction
<1> QED BY <1>4 DEF F

\* A sum of natural numbers is one.
LEMMA SumNat ==
  ASSUME NEW S, IsFiniteSet(S), NEW f, \A x \in S : f[x] \in Nat
  PROVE  SumFunctionOnSet(f, S) \in Nat
<1> DEFINE F == {T \in SUBSET S : SumFunctionOnSet(f, T) \in Nat}
<1>1. {} \in F BY SumEmpty
<1>2. ASSUME NEW T \in F, NEW x \in S, x \notin T PROVE T \cup {x} \in F
  <2>1. IsFiniteSet(T) /\ \A y \in S : f[y] \in Int BY FS_Subset
  <2>2. SumFunctionOnSet(f, T \cup {x}) = SumFunctionOnSet(f, T) + f[x] BY <2>1, <1>2, SumMore
  <2>3. SumFunctionOnSet(f, T \cup {x}) \in Nat BY <2>2
  <2> QED BY <2>3
<1>3. F \in SUBSET SUBSET S OBVIOUS
<1> HIDE DEF F
<1>4. S \in F BY <1>1, <1>2, <1>3, FiniteInduction
<1> QED BY <1>4 DEF F

\* The sum when one summand has changed.
LEMMA SumChange ==
  ASSUME NEW S, IsFiniteSet(S), NEW f, NEW e, NEW y \in S,
         \A x \in S : f[x] \in Int /\ e[x] \in Int /\ (x # y => e[x] = f[x])
  PROVE  SumFunctionOnSet(e, S) = SumFunctionOnSet(f, S) - f[y] + e[y]
<1> DEFINE U == S \ {y}
<1>1. IsFiniteSet(U) BY FS_Subset
<1>2. SumFunctionOnSet(f, S) = f[y] + SumFunctionOnSet(f, U) BY SumStep
<1>3. SumFunctionOnSet(e, S) = e[y] + SumFunctionOnSet(e, U) BY SumStep
<1>4. SumFunctionOnSet(f, U) = SumFunctionOnSet(e, U) BY <1>1, SumSame
<1>5. SumFunctionOnSet(f, U) \in Int BY <1>1, SumInt
<1> QED BY <1>2, <1>3, <1>4, <1>5

\* Fewer summands, none negative, are not more.
LEMMA SumOfPart ==
  ASSUME NEW S, IsFiniteSet(S), NEW U \in SUBSET S, NEW f, \A x \in S : f[x] \in Nat
  PROVE  SumFunctionOnSet(f, U) <= SumFunctionOnSet(f, S)
<1> DEFINE F == {T \in SUBSET S : SumFunctionOnSet(f, U \cap T) <= SumFunctionOnSet(f, T)}
<1>1. {} \in F
  <2>1. U \cap {} = {} OBVIOUS
  <2> QED BY <2>1, SumEmpty
<1>2. ASSUME NEW T \in F, NEW x \in S, x \notin T PROVE T \cup {x} \in F
  <2>1. IsFiniteSet(T) /\ IsFiniteSet(U \cap T) /\ \A y \in S : f[y] \in Int BY FS_Subset
  <2>2. SumFunctionOnSet(f, T \cup {x}) = SumFunctionOnSet(f, T) + f[x] BY <2>1, <1>2, SumMore
  <2>3. SumFunctionOnSet(f, T) \in Int /\ SumFunctionOnSet(f, U \cap T) \in Int BY <2>1, SumInt
  <2>7. f[x] \in Int /\ f[x] >= 0
    <3>1. f[x] \in Nat OBVIOUS
    <3> QED BY <3>1
  <2>4. SumFunctionOnSet(f, U \cap T) <= SumFunctionOnSet(f, T) OBVIOUS
  <2>5. CASE x \in U
    <3>1. U \cap (T \cup {x}) = (U \cap T) \cup {x} BY <2>5
    <3>2. x \notin U \cap T BY <1>2
    <3>3. SumFunctionOnSet(f, (U \cap T) \cup {x}) = SumFunctionOnSet(f, U \cap T) + f[x]
      BY <2>1, <3>2, SumMore
    <3>4. SumFunctionOnSet(f, U \cap (T \cup {x})) <= SumFunctionOnSet(f, T \cup {x})
      <4> DEFINE a == SumFunctionOnSet(f, U \cap T)  b == SumFunctionOnSet(f, T)
      <4>1. SumFunctionOnSet(f, U \cap (T \cup {x})) = a + f[x] BY <3>1, <3>3
      <4>2. SumFunctionOnSet(f, T \cup {x}) = b + f[x] BY <2>2
      <4>3. a \in Int /\ b \in Int /\ a <= b BY <2>3, <2>4
      <4> HIDE DEF a, b
      <4>4. a + f[x] <= b + f[x] BY <4>3, <2>7
      <4> QED BY <4>1, <4>2, <4>4
    <3> QED BY <3>4
  <2>6. CASE x \notin U
    <3>1. U \cap (T \cup {x}) = U \cap T BY <2>6
    <3>2. SumFunctionOnSet(f, U \cap (T \cup {x})) <= SumFunctionOnSet(f, T \cup {x})
      <4> DEFINE a == SumFunctionOnSet(f, U \cap T)  b == SumFunctionOnSet(f, T)
      <4>1. SumFunctionOnSet(f, U \cap (T \cup {x})) = a BY <3>1
      <4>2. SumFunctionOnSet(f, T \cup {x}) = b + f[x] BY <2>2
      <4>3. a \in Int /\ b \in Int /\ a <= b BY <2>3, <2>4
      <4> HIDE DEF a, b
      <4>4. a <= b + f[x] BY <4>3, <2>7
      <4> QED BY <4>1, <4>2, <4>4
    <3> QED BY <3>2
  <2> QED BY <2>5, <2>6
<1>3. F \in SUBSET SUBSET S OBVIOUS
<1> HIDE DEF F
<1>4. S \in F BY <1>1, <1>2, <1>3, FiniteInduction
<1>5. U \cap S = U OBVIOUS
<1> QED BY <1>4, <1>5 DEF F

-----------------------------------------------------------------------------
(* The inductive invariant, in parts that are each inductive relative to   *)
(* the ones before.  First the control loop and its timers.                *)

ControlTypes ==
  /\ params \in Tests
  /\ now \in 0..Horizon /\ clock \in 0..Horizon
  /\ pc \in {"select", "run", "temp", "total", "zero", "check", "end"}
  /\ deadline \in Nat /\ stream \in Streams
  /\ state \in {"running", "ended", "reported", "failed"}
  /\ done \in BOOLEAN /\ omitting \in BOOLEAN

\* The statistics callback runs for its timer, with the reporter's saved to come next, or
\* once at the end of the test.
Collecting == pc \in {"temp", "total", "zero"}

Turns ==
  /\ cur \in Active(timers) \cup {NoTimer} /\ next \in Active(timers) \cup {NoTimer}
  /\ pc \in {"select", "check", "end"} => cur = NoTimer
  /\ Collecting => \/ /\ cur = "stats" /\ next = "report" /\ ~done
                      /\ At(timers, "stats") <= clock
                   \/ cur = NoTimer /\ done
  /\ pc = "end" => done
  /\ state \in {"ended", "reported"} <=> pc = "end"

\* The timer of the statistics stands right before that of the reporter, except where it has
\* fired and the other is next.
Ahead == pc = "run" /\ cur = "report"

Pair ==
  /\ "stats" \in Active(timers) <=> params.interval # 0
  /\ "report" \in Active(timers) <=> params.interval # 0
  /\ params.interval # 0 =>
       IF Ahead THEN /\ At(timers, "report") <= clock
                     /\ At(timers, "stats") = At(timers, "report") + params.interval
                     /\ LastOfTime(timers, "stats")
                ELSE Adjacent(timers)

Omission ==
  /\ "omit" \in Active(timers) => omitting
  /\ omitting => params.omit # 0

Loop == ControlTypes /\ Good(timers) /\ Turns /\ Pair /\ Omission

controlVars == <<params, now, timers, clock, cur, next, pc, deadline, stream, state, done, omitting>>

\* The greater of two numbers.
LEMMA MaxOfTwo == ASSUME NEW a \in Int, NEW b \in Int
                  PROVE  Max({a, b}) = IF a >= b THEN a ELSE b
<1>1. \E x \in {a, b} : \A y \in {a, b} : x >= y OBVIOUS
<1>2. Max({a, b}) \in {a, b} /\ \A y \in {a, b} : Max({a, b}) >= y BY <1>1 DEF Max
<1> QED BY <1>2

\* What tmr_timeout returns is a time, of the first timer in the list.
LEMMA DeadlineType ==
  ASSUME params \in Tests, now \in Nat, NEW list, Good(list)
  PROVE  Deadline(list) \in Nat
<1>1. params.rcv \in Nat /\ params.sends \in BOOLEAN BY TestIs
<1>2. Never \in Nat BY LimitsAssumption DEF Never
<1>3. CASE list = <<>> BY <1>1, <1>2, <1>3 DEF Deadline
<1>4. CASE list # <<>>
  <2>1. 1 \in 1..Len(list) BY <1>4 DEF Good
  <2>2. list[1].at \in Nat BY <2>1, FoundAt DEF Entry
  <2> DEFINE wait == list[1].at - now
  <2>3. Max({0, wait}) \in Nat
    <3>1. wait \in Int BY <2>2
    <3> HIDE DEF wait
    <3>2. Max({0, wait}) = IF 0 >= wait THEN 0 ELSE wait BY <3>1, MaxOfTwo
    <3> QED BY <3>1, <3>2
  <2> QED BY <1>1, <1>2, <1>4, <2>3 DEF Deadline
<1> QED BY <1>3, <1>4

\* The loop's part of the invariant, step by step.
LEMMA LoopInit == ASSUME Init PROVE Loop
<1> USE DEF Init
<1>1. Good(timers) /\ Pair
  BY TimersCreated DEF Pair, Ahead
<1>2. "omit" \in Active(timers) => params.omit # 0 BY TimersCreated
<1>3. 1 \in Streams BY TestIs DEF Streams
<1>4. deadline \in Nat BY <1>1, DeadlineType
<1>5. ControlTypes
  <2>1. 0 \in 0..Horizon BY LimitsAssumption
  <2>2. omitting \in BOOLEAN /\ done \in BOOLEAN OBVIOUS
  <2> QED BY <1>3, <1>4, <2>1, <2>2 DEF ControlTypes
<1> QED BY <1>1, <1>2, <1>5 DEF Loop, Turns, Collecting, Omission

LEMMA LoopStutters == ASSUME Loop, UNCHANGED controlVars PROVE Loop'
BY DEF Loop, controlVars, ControlTypes, Turns, Collecting, Pair, Ahead, Omission, Streams

LEMMA ThreadsLeaveLoop == ASSUME NEW i \in Streams, Thread(i) PROVE UNCHANGED <<loopVars>>
BY DEF Thread, StartsCall, Sends, Receives, CountsInterval, CountsTest, CallEnds, Throttles, Wakes

LEMMA TickKeepsLoop == ASSUME Loop, Tick PROVE Loop'
<1>1. /\ now < Horizon /\ now' = now + 1
      /\ UNCHANGED <<params, timers, clock, cur, next, pc, deadline, stream, state, done, omitting>>
  BY DEF Tick, timerVars, waitVars, statsVars, testVars
<1>2. now' \in 0..Horizon BY <1>1, LimitsAssumption DEF Loop, ControlTypes
<1> QED
  BY <1>1, <1>2 DEF Loop, ControlTypes, Turns, Collecting, Pair, Ahead, Omission, Streams

LEMMA SelectKeepsLoop == ASSUME Loop, SelectReturns PROVE Loop'
<1>1. /\ pc = "select" /\ state = "running" /\ UNCHANGED <<params, now, timers, next, stream, done, omitting, deadline>>
      /\ \/ state' = "failed" /\ UNCHANGED <<pc, clock, cur>>
         \/ /\ state' = state /\ pc' = "run" /\ clock' = now
            /\ cur' = IF timers = <<>> THEN NoTimer ELSE timers[1].name
  BY DEF SelectReturns, timerVars, statsVars
<1>2. timers # <<>> => timers[1].name \in Active(timers)
  <2>1. SUFFICES ASSUME timers # <<>> PROVE timers[1].name \in Active(timers) OBVIOUS
  <2>2. 1 \in 1..Len(timers) BY <2>1 DEF Loop, Good
  <2> QED BY <2>2, FoundAt DEF Loop
<1>3. Good(timers) /\ ControlTypes BY DEF Loop
<1>4. params.interval # 0 => Adjacent(timers) /\ timers[1].name # "report"
  BY <1>1, <1>3, AdjacentIs DEF Loop, Pair, Ahead
<1>5. ControlTypes' BY <1>1, <1>3 DEF ControlTypes, Streams
<1>6. Turns' BY <1>1, <1>2 DEF Loop, Turns, Collecting
<1>7. cur' # "report" \/ ~Ahead' \/ params.interval = 0
  BY <1>1, <1>4 DEF Ahead, NoTimer
<1>8. Pair' BY <1>1, <1>4, <1>7 DEF Loop, Pair, Ahead
<1>9. Omission' BY <1>1 DEF Loop, Omission
<1> QED BY <1>1, <1>3, <1>5, <1>6, <1>8, <1>9 DEF Loop

LEMMA RunEndsKeepsLoop == ASSUME Loop, RunEnds PROVE Loop'
<1>1. /\ pc = "run" /\ pc' = "check" /\ cur' = NoTimer /\ next' = NoTimer /\ ~Due
      /\ UNCHANGED <<params, now, timers, clock, deadline, stream, state, done, omitting>>
  BY DEF RunEnds, waitVars, statsVars, testVars
<1>2. Good(timers) /\ ControlTypes /\ Pair /\ Turns BY DEF Loop
<1>3. params.interval # 0 => ~Ahead
  BY <1>1, <1>2 DEF Pair, Ahead, Due, NoTimer
<1>4. ControlTypes' BY <1>1, <1>2 DEF ControlTypes, Streams
<1>5. Turns' BY <1>1, <1>2 DEF Turns, Collecting
<1>6. Pair' BY <1>1, <1>2, <1>3 DEF Pair, Ahead
<1>7. Omission' BY <1>1 DEF Loop, Omission
<1> QED BY <1>1, <1>2, <1>4, <1>5, <1>6, <1>7 DEF Loop

\* What a timer that fires leaves: its successor is another one, and the reporter's only after
\* that of the statistics.
LEMMA FiringIs ==
  ASSUME Loop, NEW n \in Names, Fires(n)
  PROVE  /\ pc = "run" /\ cur = n /\ n \in Active(timers) /\ At(timers, n) <= clock
         /\ next' \in (Active(timers) \ {n}) \cup {NoTimer}
         /\ params.interval # 0 /\ n # "report" => Adjacent(timers)
         /\ params.interval # 0 /\ n \in {"test", "omit"} => next' # "report"
         /\ params.interval # 0 /\ n = "stats" => next' = "report"
<1>1. pc = "run" /\ cur = n /\ Due /\ next' = Successor(timers, n) BY DEF Fires
<1>2. Good(timers) /\ Turns /\ Pair BY DEF Loop
<1>3. n \in Active(timers) /\ At(timers, n) <= clock
  BY <1>1, <1>2 DEF Turns, Due
<1>4. params.interval # 0 /\ n # "report" => Adjacent(timers)
  BY <1>1, <1>2 DEF Pair, Ahead
<1> QED BY <1>1, <1>2, <1>3, <1>4, SuccessorIs, AdjacentIs

LEMMA TestKeepsLoop == ASSUME Loop, TestTimer PROVE Loop'
<1>1. /\ Fires("test") /\ done' = TRUE /\ timers' = Cancel(timers, "test") /\ cur' = next'
      /\ state' \in {state, "failed"}
      /\ UNCHANGED <<params, now, clock, pc, deadline, stream, omitting>>
  BY DEF TestTimer, waitVars, statsVars
<1>2. Good(timers) /\ ControlTypes /\ Pair /\ Turns BY DEF Loop
<1>3. /\ pc = "run" /\ "test" \in Active(timers)
      /\ next' \in (Active(timers) \ {"test"}) \cup {NoTimer}
      /\ params.interval # 0 => Adjacent(timers) /\ next' # "report"
  BY <1>1, FiringIs DEF Names
<1>4. Good(timers') /\ Active(timers') = Active(timers) \ {"test"}
  BY <1>1, <1>2, CancelHas
<1>5. params.interval # 0 => Adjacent(timers')
  BY <1>1, <1>2, <1>3, CancelOther
<1>6. ControlTypes' BY <1>1, <1>2 DEF ControlTypes, Streams
<1>7. Turns' BY <1>1, <1>2, <1>3, <1>4 DEF Turns, Collecting
<1>8. Pair' BY <1>1, <1>2, <1>3, <1>4, <1>5 DEF Pair, Ahead
<1>9. Omission' BY <1>1, <1>4 DEF Loop, Omission
<1> QED BY <1>4, <1>6, <1>7, <1>8, <1>9 DEF Loop

LEMMA OmitKeepsLoop == ASSUME Loop, OmitTimer PROVE Loop'
<1> DEFINE at == clock + params.interval
           s == Reset(timers, "stats", at)  r == Reset(s, "report", at)
<1>1. /\ Fires("omit") /\ omitting' = FALSE /\ timers' = Cancel(r, "omit") /\ cur' = next'
      /\ UNCHANGED <<params, now, clock, pc, deadline, stream, state, done>>
  BY DEF OmitTimer, waitVars
<1>2. Good(timers) /\ ControlTypes /\ Pair /\ Turns BY DEF Loop
<1>3. /\ pc = "run" /\ "omit" \in Active(timers)
      /\ next' \in (Active(timers) \ {"omit"}) \cup {NoTimer}
      /\ params.interval # 0 => Adjacent(timers) /\ next' # "report"
  BY <1>1, FiringIs DEF Names
<1>4. at \in Nat BY <1>2, TestIs DEF ControlTypes
<1> HIDE DEF at
<1>5. Good(r) /\ Active(r) = Active(timers) /\ (params.interval # 0 => Adjacent(r))
  <2>1. CASE params.interval = 0
    <3>1. s = timers BY <2>1, <1>2 DEF Pair, Reset
    <3>2. r = timers BY <2>1, <1>2, <3>1 DEF Pair, Reset
    <3> QED BY <2>1, <1>2, <3>2
  <2>2. CASE params.interval # 0
    <3>1. "stats" \in Active(timers) /\ "report" \in Active(timers) BY <2>2, <1>2 DEF Pair
    <3>2. s = Resort(timers, "stats", at) BY <3>1 DEF Reset
    <3>3. Active(s) = Active(timers) BY <3>1, <3>2, <1>2, <1>4, ResortHas
    <3> HIDE DEF s
    <3>4. r = Resort(s, "report", at) BY <3>1, <3>3 DEF Reset
    <3> QED BY <3>1, <3>2, <3>4, <1>2, <1>4, PairIsReset
  <2> QED BY <2>1, <2>2
<1> HIDE DEF r
<1>6. Good(timers') /\ Active(timers') = Active(timers) \ {"omit"}
  BY <1>1, <1>5, CancelHas
<1>7. params.interval # 0 => Adjacent(timers')
  BY <1>1, <1>5, CancelOther
<1>8. ControlTypes' BY <1>1, <1>2 DEF ControlTypes, Streams
<1>9. Turns' BY <1>1, <1>2, <1>3, <1>6 DEF Turns, Collecting
<1>10. Pair' BY <1>1, <1>2, <1>3, <1>6, <1>7 DEF Pair, Ahead
<1>11. Omission' BY <1>1, <1>6 DEF Loop, Omission
<1> QED BY <1>6, <1>8, <1>9, <1>10, <1>11 DEF Loop

\* What queueing the timer of the statistics again does: the reporter's is ahead of it.
LEMMA StatsRequeued ==
  ASSUME Loop, pc = "run" \/ Collecting, cur = "stats", At(timers, "stats") <= clock,
         timers' = Requeued(timers, "stats"), cur' = "report", params' = params, clock' = clock
  PROVE  /\ Good(timers') /\ Active(timers') = Active(timers) /\ "report" \in Active(timers)
         /\ params.interval # 0
         /\ At(timers', "report") <= clock'
         /\ At(timers', "stats") = At(timers', "report") + params'.interval
         /\ LastOfTime(timers', "stats")
<1>1. Good(timers) /\ ControlTypes /\ Pair /\ Turns BY DEF Loop
<1>2. "stats" \in Active(timers) /\ params.interval # 0 /\ ~Ahead
  BY <1>1 DEF Turns, Pair, NoTimer, Ahead
<1>3. "report" \in Active(timers) /\ At(timers, "report") = At(timers, "stats")
  BY <1>1, <1>2, AdjacentIs DEF Pair
<1>4. At(timers, "stats") \in Nat /\ params.interval \in Nat
  BY <1>1, <1>2, PlaceIs, TestIs DEF ControlTypes
<1> DEFINE at == At(timers, "stats") + params.interval
<1>5. timers' = Resort(timers, "stats", at) BY DEF Requeued
<1>6. at \in Nat BY <1>4
<1> HIDE DEF at
<1>7. /\ Good(timers') /\ Active(timers') = Active(timers) /\ At(timers', "stats") = at
      /\ At(timers', "report") = At(timers, "report") /\ LastOfTime(timers', "stats")
  BY <1>1, <1>2, <1>3, <1>5, <1>6, ResortHas
<1> QED BY <1>2, <1>3, <1>4, <1>7 DEF at

LEMMA StatsKeepsLoop == ASSUME Loop, StatsTimer PROVE Loop'
<1>1. /\ Fires("stats")
      /\ UNCHANGED <<params, now, clock, deadline, state, done, omitting>>
      /\ IF done THEN timers' = Requeued(timers, "stats") /\ cur' = next' /\ UNCHANGED <<pc, stream>>
                 ELSE pc' = "temp" /\ stream' = 1 /\ UNCHANGED <<timers, cur>>
  BY DEF StatsTimer, waitVars, testVars
<1>2. Good(timers) /\ ControlTypes /\ Pair /\ Turns BY DEF Loop
<1>3. /\ pc = "run" /\ cur = "stats" /\ "stats" \in Active(timers) /\ At(timers, "stats") <= clock
      /\ params.interval # 0 => Adjacent(timers) /\ next' = "report"
      /\ next' \in Active(timers) \cup {NoTimer}
  BY <1>1, FiringIs DEF Names
<1>4. params.interval # 0 /\ next' = "report" BY <1>2, <1>3 DEF Pair
<1>5. CASE done
  <2>1. /\ Good(timers') /\ Active(timers') = Active(timers) /\ "report" \in Active(timers)
        /\ At(timers', "report") <= clock'
        /\ At(timers', "stats") = At(timers', "report") + params'.interval
        /\ LastOfTime(timers', "stats")
    BY <1>1, <1>3, <1>4, <1>5, StatsRequeued
  <2>2. ControlTypes' BY <1>1, <1>2, <1>5 DEF ControlTypes, Streams
  <2>3. Turns' BY <1>1, <1>2, <1>3, <1>4, <1>5, <2>1 DEF Turns, Collecting
  <2>4. Pair' BY <1>1, <1>2, <1>3, <1>4, <1>5, <2>1 DEF Pair, Ahead
  <2>5. Omission' BY <1>1, <2>1 DEF Loop, Omission
  <2> QED BY <2>1, <2>2, <2>3, <2>4, <2>5 DEF Loop
<1>6. CASE ~done
  <2>1. 1 \in Streams BY <1>2, TestIs DEF ControlTypes, Streams
  <2>2. ControlTypes' BY <1>1, <1>2, <1>6, <2>1 DEF ControlTypes, Streams
  <2>3. Turns' BY <1>1, <1>2, <1>3, <1>4, <1>6 DEF Turns, Collecting
  <2>4. Pair' BY <1>1, <1>2, <1>3, <1>4, <1>6 DEF Pair, Ahead
  <2>5. Omission' BY <1>1, <1>6 DEF Loop, Omission
  <2> QED BY <1>1, <1>2, <1>6, <2>2, <2>3, <2>4, <2>5 DEF Loop
<1> QED BY <1>5, <1>6, <1>2 DEF ControlTypes

LEMMA ReportKeepsLoop == ASSUME Loop, ReportTimer PROVE Loop'
<1>1. /\ Fires("report") /\ timers' = Requeued(timers, "report") /\ cur' = next'
      /\ UNCHANGED <<params, now, clock, pc, deadline, stream, state, done, omitting>>
  BY DEF ReportTimer, waitVars, statsVars, testVars
<1>2. Good(timers) /\ ControlTypes /\ Pair /\ Turns BY DEF Loop
<1>3. /\ pc = "run" /\ cur = "report" /\ "report" \in Active(timers)
      /\ next' \in (Active(timers) \ {"report"}) \cup {NoTimer}
  BY <1>1, FiringIs DEF Names
<1>4. /\ params.interval # 0 /\ "stats" \in Active(timers)
      /\ At(timers, "stats") = At(timers, "report") + params.interval
      /\ LastOfTime(timers, "stats")
  BY <1>2, <1>3 DEF Pair, Ahead
<1>5. timers' = Resort(timers, "report", At(timers, "stats")) BY <1>1, <1>4 DEF Requeued
<1>6. At(timers, "stats") \in Nat BY <1>2, <1>4, PlaceIs
<1>7. Good(timers') /\ Active(timers') = Active(timers)
  BY <1>2, <1>3, <1>5, <1>6, ResortHas
<1>8. Adjacent(timers') BY <1>2, <1>3, <1>4, <1>5, ReportRejoins
<1>9. ControlTypes' BY <1>1, <1>2 DEF ControlTypes, Streams
<1>10. Turns' BY <1>1, <1>2, <1>3, <1>7 DEF Turns, Collecting
<1>11. Pair' BY <1>1, <1>2, <1>3, <1>4, <1>7, <1>8 DEF Pair, Ahead, NoTimer
<1>12. Omission' BY <1>1, <1>7 DEF Loop, Omission
<1> QED BY <1>7, <1>9, <1>10, <1>11, <1>12 DEF Loop

LEMMA CollectingKeepsLoop == ASSUME Loop, StatsReads \/ StatsTotals PROVE Loop'
<1>1. /\ Collecting /\ pc' \in {"total", "zero"}
      /\ UNCHANGED <<params, now, timers, clock, cur, next, deadline, stream, state, done, omitting>>
  BY DEF StatsReads, StatsTotals, Collecting, timerVars, waitVars, testVars
<1>2. Good(timers) /\ ControlTypes /\ Pair /\ Turns BY DEF Loop
<1>3. pc \notin {"run", "end"} /\ pc' \notin {"run", "end", "select", "check"} /\ Collecting'
  BY <1>1 DEF Collecting
<1>4. ControlTypes' BY <1>1, <1>2, <1>3 DEF ControlTypes, Streams
<1>5. Turns' BY <1>1, <1>2, <1>3 DEF Turns
<1>6. Pair' BY <1>1, <1>2, <1>3 DEF Pair, Ahead
<1>7. Omission' BY <1>1 DEF Loop, Omission
<1> QED BY <1>1, <1>2, <1>4, <1>5, <1>6, <1>7 DEF Loop

LEMMA ZeroKeepsLoop == ASSUME Loop, StatsZeroes PROVE Loop'
<1>1. /\ pc = "zero"
      /\ UNCHANGED <<params, now, deadline, done, omitting>>
      /\ IF stream < params.streams
           THEN pc' = "temp" /\ stream' = stream + 1 /\ UNCHANGED <<timers, clock, cur, next, state>>
           ELSE /\ UNCHANGED stream
                /\ IF cur = "stats"
                     THEN /\ pc' = "run" /\ timers' = Requeued(timers, "stats") /\ cur' = next
                          /\ UNCHANGED <<clock, next, state>>
                     ELSE pc' = "end" /\ state' = "ended" /\ UNCHANGED <<timers, clock, cur, next>>
  BY DEF StatsZeroes, waitVars, timerVars
<1>2. Good(timers) /\ ControlTypes /\ Pair /\ Turns /\ Omission BY DEF Loop
<1>3. /\ Collecting /\ ~Ahead
      /\ \/ cur = "stats" /\ next = "report" /\ ~done /\ At(timers, "stats") <= clock
         \/ cur = NoTimer /\ done
  BY <1>1, <1>2 DEF Turns, Collecting, Ahead
<1>4. stream \in Streams /\ params.streams \in Nat BY <1>2, TestIs DEF ControlTypes
<1>5. CASE stream < params.streams
  <2>1. stream + 1 \in Streams BY <1>4, <1>5 DEF Streams
  <2>2. ControlTypes' BY <1>1, <1>2, <1>5, <2>1 DEF ControlTypes, Streams
  <2>3. Turns' BY <1>1, <1>2, <1>3, <1>5 DEF Turns, Collecting
  <2>4. Pair' BY <1>1, <1>2, <1>3, <1>5 DEF Pair, Ahead
  <2>5. Omission' BY <1>1, <1>2, <1>5 DEF Omission
  <2> QED BY <1>1, <1>2, <1>5, <2>2, <2>3, <2>4, <2>5 DEF Loop
<1>6. CASE ~(stream < params.streams) /\ cur = "stats"
  <2>1. /\ Good(timers') /\ Active(timers') = Active(timers) /\ "report" \in Active(timers)
        /\ At(timers', "report") <= clock'
        /\ At(timers', "stats") = At(timers', "report") + params'.interval
        /\ LastOfTime(timers', "stats") /\ params.interval # 0
    BY <1>1, <1>3, <1>6, StatsRequeued DEF NoTimer
  <2>2. ControlTypes' BY <1>1, <1>2, <1>6 DEF ControlTypes, Streams
  <2>3. Turns' BY <1>1, <1>2, <1>3, <1>6, <2>1 DEF Turns, Collecting, NoTimer
  <2>4. Pair' BY <1>1, <1>2, <1>3, <1>6, <2>1 DEF Pair, Ahead, NoTimer
  <2>5. Omission' BY <1>1, <1>2, <2>1 DEF Omission
  <2> QED BY <2>1, <2>2, <2>3, <2>4, <2>5 DEF Loop
<1>7. CASE ~(stream < params.streams) /\ cur # "stats"
  <2>2. ControlTypes' BY <1>1, <1>2, <1>7 DEF ControlTypes, Streams
  <2>3. Turns' BY <1>1, <1>2, <1>3, <1>7 DEF Turns, Collecting
  <2>4. Pair' BY <1>1, <1>2, <1>3, <1>7 DEF Pair, Ahead
  <2>5. Omission' BY <1>1, <1>2, <1>7 DEF Omission
  <2> QED BY <1>1, <1>2, <1>7, <2>2, <2>3, <2>4, <2>5 DEF Loop
<1> QED BY <1>5, <1>6, <1>7

LEMMA LastStatsKeepsLoop ==
  ASSUME Loop, NEW list, LastStats(list), pc \in {"select", "check"},
         UNCHANGED <<params, now, timerVars, deadline, state, omitting>>
  PROVE  Loop'
<1>1. /\ done' = TRUE /\ pc' = "temp" /\ stream' = 1
      /\ UNCHANGED <<params, now, timers, clock, cur, next, deadline, state, omitting>>
  BY DEF LastStats, timerVars
<1>2. Good(timers) /\ ControlTypes /\ Pair /\ Turns BY DEF Loop
<1>3. 1 \in Streams BY <1>2, TestIs DEF ControlTypes, Streams
<1>4. ControlTypes' BY <1>1, <1>2, <1>3 DEF ControlTypes, Streams
<1>5. Turns' BY <1>1, <1>2 DEF Turns, Collecting
<1>6. Pair' BY <1>1, <1>2 DEF Pair, Ahead
<1>7. Omission' BY <1>1 DEF Loop, Omission
<1> QED BY <1>1, <1>2, <1>4, <1>5, <1>6, <1>7 DEF Loop

LEMMA CheckKeepsLoop == ASSUME Loop, Check PROVE Loop'
<1>1. CASE params.role = "client" /\ EndReached
  BY <1>1, LastStatsKeepsLoop DEF Check
<1>2. CASE ~(params.role = "client" /\ EndReached)
  <2>1. /\ pc = "check" /\ state = "running" /\ state' \in {state, "failed"}
        /\ pc' = "select" /\ deadline' = Deadline(timers)
        /\ UNCHANGED <<params, now, timers, clock, cur, next, stream, done, omitting>>
    BY <1>2 DEF Check, timerVars, statsVars
  <2>2. Good(timers) /\ ControlTypes /\ Pair /\ Turns BY DEF Loop
  <2>3. Deadline(timers) \in Nat BY <2>2, DeadlineType DEF ControlTypes
  <2>4. ControlTypes' BY <2>1, <2>2, <2>3 DEF ControlTypes, Streams
  <2>5. Turns' BY <2>1, <2>2 DEF Turns, Collecting
  <2>6. Pair' BY <2>1, <2>2 DEF Pair, Ahead
  <2>7. Omission' BY <2>1 DEF Loop, Omission
  <2> QED BY <2>1, <2>2, <2>4, <2>5, <2>6, <2>7 DEF Loop
<1> QED BY <1>1, <1>2

LEMMA FinalKeepsLoop == ASSUME Loop, FinalReport PROVE Loop'
<1>1. /\ pc = "end" /\ state = "ended" /\ state' = "reported"
      /\ UNCHANGED <<params, now, timers, clock, cur, next, pc, deadline, stream, done, omitting>>
  BY DEF FinalReport, timerVars, waitVars, statsVars
<1> QED
  BY <1>1 DEF Loop, ControlTypes, Turns, Collecting, Pair, Ahead, Omission, Streams

LEMMA LoopStep == ASSUME Loop, [Next]_vars PROVE Loop'
<1>1. CASE Tick BY <1>1, TickKeepsLoop
<1>2. CASE ControlLoop
  BY <1>2, SelectKeepsLoop, RunEndsKeepsLoop, TestKeepsLoop, OmitKeepsLoop, StatsKeepsLoop,
     ReportKeepsLoop, CollectingKeepsLoop, ZeroKeepsLoop, CheckKeepsLoop, FinalKeepsLoop
     DEF ControlLoop
<1>3. CASE ServerReadsTestEnd
  BY <1>3, LastStatsKeepsLoop DEF ServerReadsTestEnd, waitVars
<1>4. CASE \E i \in Streams : Thread(i)
  <2>1. UNCHANGED controlVars
    BY <1>4, ThreadsLeaveLoop
       DEF controlVars, loopVars, timerVars, waitVars, statsVars, testVars
  <2> QED BY <2>1, LoopStutters
<1>5. CASE UNCHANGED vars
  BY <1>5, LoopStutters DEF vars, controlVars, timerVars, waitVars, statsVars, testVars
<1> QED BY <1>1, <1>2, <1>3, <1>4, <1>5 DEF Next

\* The timers of the list, and where the control loop is among them, are always in order: the
\* part of the invariant that everything else rests on.
THEOREM LoopHolds == Spec => []Loop
<1>1. Init => Loop BY LoopInit
<1>2. Loop /\ [Next]_vars => Loop' BY LoopStep
<1> QED BY <1>1, <1>2, PTL DEF Spec

-----------------------------------------------------------------------------
(* The counters and what is collected of them.                             *)

Interval == [bytes : Nat, omitted : BOOLEAN, short : BOOLEAN]
Line == [interval : Nat, bytes : Nat]
ThreadState ==
  [pc : {"idle", "send", "counting", "counted", "throttle", "sleep", "off"},
   left : Nat, sent : BOOLEAN, green : BOOLEAN, until : Nat,
   bytes : Nat, omitted : Nat, interval : Nat]

DataTypes ==
  /\ lastBlocks \in Nat /\ lastTime \in 0..Horizon
  /\ temp \in Nat /\ total \in Nat /\ blocks \in Nat
  /\ str \in [Streams -> ThreadState]
  /\ DOMAIN ivals = Streams /\ \A i \in Streams : ivals[i] \in Seq(Interval)
  /\ since \in [Streams -> 0..Horizon]
  /\ printed \in Seq(Line) /\ summary \in Nat \cup {NoSummary}
  /\ ring \in [0..params.window - 1 -> Nat] /\ ringIndex \in 0..params.window - 1
  /\ statsCount \in Nat /\ exceeded \in BOOLEAN /\ totals \in Seq(Nat)

\* A thread counts a block only with a send left, and is slowed down only by a rate; what is
\* left out of the summary has been sent.
ThreadOK(t) ==
  /\ t.pc \in {"counting", "counted"} /\ params.sends => t.left > 0
  /\ t.pc \in {"send", "throttle", "sleep", "off"} => params.sends
  /\ t.pc \in {"throttle", "sleep"} => params.rate # 0
  /\ t.omitted <= t.bytes
  /\ ~params.sends => t.omitted = 0

\* The intervals of all streams, those the present round of the callback has added, and those
\* the reporter has dealt with.
Complete == IF pc \in {"temp", "total"} THEN Len(ivals[stream])
            ELSE IF pc = "zero" THEN Len(ivals[stream]) - 1
            ELSE Len(ivals[1])

Fresh(i) == (pc \in {"temp", "total"} /\ i < stream) \/ (pc = "zero" /\ i <= stream)

Unreported == (pc = "end" /\ state # "reported") \/ (Ahead /\ ~done)

Handled == IF Unreported THEN Complete - 1 ELSE Complete

Lengths ==
  /\ \A i \in Streams : Len(ivals[i]) = IF Fresh(i) THEN Complete + 1 ELSE Complete
  /\ Complete \in Nat /\ Handled \in Nat

Data == DataTypes /\ (\A i \in Streams : ThreadOK(str[i])) /\ Lengths

dataVars == <<lastBlocks, lastTime, temp, total, blocks, str, ivals, since, printed, summary, limitVars>>

\* The streams of a test are finite in number, and there is a first.
LEMMA StreamsAre ==
  ASSUME params \in Tests
  PROVE  /\ Streams = 1..params.streams /\ params.streams \in Nat \ {0}
         /\ 1 \in Streams /\ IsFiniteSet(Streams) /\ Cardinality(Streams) = params.streams
<1>1. params.streams \in Nat \ {0} BY TestIs
<1>2. Streams = 1..params.streams BY DEF Streams
<1>3. IsFiniteSet(1..params.streams) /\ Cardinality(1..params.streams) = params.streams
  BY <1>1, FS_Interval
<1> QED BY <1>1, <1>2, <1>3

\* A stream is created in a state the invariant allows.
LEMMA NewStreamIs == NewStream \in ThreadState /\ ThreadOK(NewStream)
BY DEF NewStream, ThreadState, ThreadOK

\* The part about the counters, initially.
LEMMA DataInit == ASSUME Init PROVE Data
<1> USE DEF Init
<1>1. params \in Tests /\ params.window \in Nat \ {0} BY TestIs
<1>2. 1 \in Streams BY StreamsAre
<1>3. str \in [Streams -> ThreadState] /\ \A i \in Streams : ThreadOK(str[i])
  BY NewStreamIs
<1>4. 0 \in 0..Horizon BY LimitsAssumption
<1>5. since \in [Streams -> 0..Horizon] BY <1>4
<1>6. ring \in [0..params.window - 1 -> Nat] /\ ringIndex \in 0..params.window - 1 BY <1>1
<1>7. DataTypes
  <2>1. DOMAIN ivals = Streams /\ \A i \in Streams : ivals[i] \in Seq(Interval) OBVIOUS
  <2>2. printed \in Seq(Line) /\ totals \in Seq(Nat) OBVIOUS
  <2> QED BY <2>1, <2>2, <1>3, <1>4, <1>5, <1>6 DEF DataTypes
<1>8. Complete = 0 /\ Handled = 0 BY <1>2 DEF Complete, Handled, Unreported, Ahead
<1>9. Lengths BY <1>8 DEF Lengths, Fresh
<1> QED BY <1>3, <1>7, <1>9 DEF Data

\* A step that leaves the intervals and the place in a round of the callback.
LEMMA DataStutters ==
  ASSUME Data, UNCHANGED <<params, dataVars, pc, stream, state, cur, done>>
  PROVE  Data' /\ Handled' = Handled
<1>1. UNCHANGED <<Complete, Handled, Streams>> /\ \A i \in Streams : Fresh(i)' = Fresh(i)
  BY DEF dataVars, Complete, Handled, Fresh, Unreported, Ahead, Streams
<1>2. DataTypes' BY <1>1 DEF Data, DataTypes, dataVars, limitVars
<1>3. \A i \in Streams : ThreadOK(str[i])' BY DEF Data, ThreadOK, dataVars
<1>4. Lengths' BY <1>1 DEF Data, Lengths, dataVars
<1> QED BY <1>1, <1>2, <1>3, <1>4 DEF Data

\* Outside of the callback all streams have the same intervals.
LEMMA OutsideIs ==
  ASSUME Loop, Data, ~Collecting
  PROVE  /\ Complete = Len(ivals[1]) /\ \A i \in Streams : Len(ivals[i]) = Complete
         /\ \A i \in Streams : ~Fresh(i)
BY DEF Collecting, Complete, Fresh, Data, Lengths

\* Steps outside the callback of the statistics that leave the intervals alone.
LEMMA OutsideKeeps ==
  ASSUME Loop, Data, ~Collecting, ~Collecting', UNCHANGED <<params, ivals>>,
         Unreported' <=> Unreported
  PROVE  Lengths' /\ Complete' = Complete /\ Handled' = Handled
<1>1. Complete = Len(ivals[1]) /\ Complete' = Complete BY DEF Collecting, Complete
<1>2. Handled' = Handled BY <1>1 DEF Handled
<1>3. \A i \in Streams : ~Fresh(i) /\ ~Fresh(i)' BY DEF Collecting, Fresh
<1>4. Streams' = Streams BY DEF Streams
<1>5. Lengths BY DEF Data
<1> QED BY <1>1, <1>2, <1>3, <1>4, <1>5 DEF Lengths

\* No step that leaves the list as it is gets ahead of the reporter.
LEMMA NotAhead ==
  ASSUME Loop, Loop', UNCHANGED <<params, timers>>, ~Ahead
  PROVE  ~Ahead'
<1>1. SUFFICES ASSUME Ahead' PROVE FALSE OBVIOUS
<1>2. "report" \in Active(timers) BY <1>1 DEF Loop, Turns, Ahead, NoTimer
<1>3. params.interval # 0 BY <1>2 DEF Loop, Pair
<1>4. At(timers, "report") = At(timers, "stats") /\ "stats" \in Active(timers)
  BY <1>3, AdjacentIs DEF Loop, Pair
<1>5. At(timers, "stats") = At(timers, "report") + params.interval
  BY <1>1, <1>3 DEF Loop, Pair
<1>6. At(timers, "stats") \in Nat /\ params.interval \in Nat
  BY <1>4, PlaceIs, TestIs DEF Loop, ControlTypes
<1> QED BY <1>3, <1>4, <1>5, <1>6

\* The reporter does not come next after another timer than that of the statistics.
LEMMA NotAheadAfter ==
  ASSUME Loop, Loop', NEW n \in {"test", "omit", "report"}, Fires(n), cur' = next', params' = params
  PROVE  ~Ahead'
<1>1. n \in Names /\ next' \in (Active(timers) \ {n}) \cup {NoTimer}
      /\ (params.interval # 0 /\ n \in {"test", "omit"} => next' # "report")
  BY FiringIs DEF Names
<1>2. CASE params.interval = 0
  <2>1. "report" \notin Active(timers') BY <1>2 DEF Loop, Pair
  <2> QED BY <2>1 DEF Loop, Turns, Ahead, NoTimer
<1>3. CASE params.interval # 0 BY <1>1, <1>3 DEF Ahead, NoTimer
<1> QED BY <1>2, <1>3

\* What a line of the reporter says, and when there is none.
LEMMA KeptIs ==
  ASSUME Loop, Data, ~Collecting, NEW kept \in Keeps
  PROVE  /\ kept \in BOOLEAN
         /\ kept => /\ Len(ivals[1]) > 0 /\ IntervalSum \in Nat
                    /\ \A i \in Streams : /\ Last(ivals[i]) = ivals[i][Len(ivals[1])]
                                          /\ IntervalLine(i) \in Nat
         /\ ~kept => \A i \in Streams : ~Counts(i)
<1>1. params \in Tests /\ DataTypes BY DEF Loop, ControlTypes, Data
<1>2. 1 \in Streams /\ IsFiniteSet(Streams) BY <1>1, StreamsAre
<1>3. \A i \in Streams : ivals[i] \in Seq(Interval) /\ Len(ivals[i]) = Len(ivals[1])
  BY <1>1, OutsideIs DEF DataTypes
<1>4. kept \in BOOLEAN BY DEF Keeps
<1>5. kept => Len(ivals[1]) > 0
  <2>1. SUFFICES ASSUME kept, ~(Len(ivals[1]) > 0) PROVE FALSE OBVIOUS
  <2>2. \A i \in Streams : ivals[i] = <<>> BY <2>1, <1>2, <1>3
  <2>3. ~(\E i \in Streams : Counts(i)) BY <2>2 DEF Counts
  <2> QED BY <2>1, <2>2, <2>3, <1>2 DEF Keeps
<1>6. ~kept => \A i \in Streams : ~Counts(i) BY DEF Keeps
<1>7. ASSUME Len(ivals[1]) > 0
      PROVE  \A i \in Streams : /\ Last(ivals[i]) = ivals[i][Len(ivals[1])]
                                /\ IntervalLine(i) \in Nat
  <2> TAKE i \in Streams
  <2>1. ivals[i] \in Seq(Interval) /\ Len(ivals[i]) = Len(ivals[1]) /\ Len(ivals[i]) \in Nat
    BY <1>3
  <2>2. Last(ivals[i]) = ivals[i][Len(ivals[1])] BY <2>1 DEF Last
  <2>3. ivals[i][Len(ivals[1])] \in Interval BY <2>1, <1>7, ElementOfSeq
  <2> QED BY <2>2, <2>3 DEF IntervalLine, Interval
<1>8. ASSUME Len(ivals[1]) > 0 PROVE IntervalSum \in Nat
  <2> DEFINE f == [i \in Streams |-> IntervalLine(i)]
  <2>1. \A i \in Streams : f[i] \in Nat BY <1>8, <1>7
  <2>2. IntervalSum = SumFunctionOnSet(f, Streams) BY DEF IntervalSum, SumFunction
  <2> HIDE DEF f
  <2> QED BY <2>1, <2>2, <1>2, SumNat
<1> QED BY <1>4, <1>5, <1>6, <1>7, <1>8

\* What the reporter prints is of the last interval.
LEMMA PrintType ==
  ASSUME Loop, Data, ~Collecting, PrintIntermediate
  PROVE  printed' \in Seq(Line)
<1>1. PICK kept \in Keeps :
        printed' = IF kept THEN Append(printed, [interval |-> Len(ivals[1]), bytes |-> IntervalSum])
                           ELSE printed
  BY DEF PrintIntermediate
<1>2. printed \in Seq(Line) BY DEF Data, DataTypes
<1>3. CASE ~kept BY <1>1, <1>2, <1>3
<1>4. CASE kept
  <2>1. Len(ivals[1]) \in Nat /\ IntervalSum \in Nat
    <3>1. 1 \in Streams BY StreamsAre DEF Loop, ControlTypes
    <3>2. ivals[1] \in Seq(Interval) BY <3>1 DEF Data, DataTypes
    <3>3. Len(ivals[1]) \in Nat BY <3>2
    <3>4. IntervalSum \in Nat BY <1>4, KeptIs
    <3> QED BY <3>3, <3>4
  <2>2. [interval |-> Len(ivals[1]), bytes |-> IntervalSum] \in Line BY <2>1 DEF Line
  <2> QED BY <1>1, <1>2, <1>4, <2>2
<1>5. kept \in BOOLEAN BY DEF Keeps
<1> QED BY <1>3, <1>4, <1>5

\* What a step of a thread does to the counters.
LEMMA ThreadKept ==
  ASSUME Data, NEW i \in Streams, NEW t \in ThreadState, str' = [str EXCEPT ![i] = t],
         ThreadOK(t), blocks' \in Nat, UNCHANGED loopVars
  PROVE  Data' /\ Handled' = Handled
<1>1. UNCHANGED <<params, pc, stream, state, cur, done, lastBlocks, lastTime, temp, total, ivals,
                  since, printed, summary, limitVars>>
  BY DEF loopVars, timerVars, waitVars, statsVars, testVars, reportVars
<1>2. UNCHANGED <<Complete, Handled, Streams>> /\ \A j \in Streams : Fresh(j)' = Fresh(j)
  BY <1>1 DEF Complete, Handled, Fresh, Unreported, Ahead, Streams
<1>3. str \in [Streams -> ThreadState] BY DEF Data, DataTypes
<1>4. str' \in [Streams -> ThreadState] /\ str'[i] = t
      /\ \A j \in Streams : j # i => str'[j] = str[j]
  BY <1>3
<1>5. DataTypes' BY <1>1, <1>2, <1>4 DEF Data, DataTypes, limitVars
<1>6. \A j \in Streams : ThreadOK(str[j])'
  <2> TAKE j \in Streams
  <2>1. ThreadOK(t)' BY <1>1 DEF ThreadOK
  <2>2. CASE j = i BY <2>1, <2>2, <1>4 DEF ThreadOK
  <2>3. CASE j # i BY <2>3, <1>1, <1>4 DEF Data, ThreadOK
  <2> QED BY <2>2, <2>3
<1>7. Lengths' BY <1>1, <1>2 DEF Data, Lengths
<1> QED BY <1>2, <1>5, <1>6, <1>7 DEF Data

\* The steps of the threads touch no interval.
LEMMA ThreadKeepsData ==
  ASSUME Loop, Data, NEW i \in Streams, Thread(i)
  PROVE  Data' /\ Handled' = Handled
<1> DEFINE t == str[i]
<1>0. UNCHANGED loopVars BY ThreadsLeaveLoop
<1>1. t \in ThreadState /\ ThreadOK(t) /\ blocks \in Nat /\ params \in Tests /\ now \in Nat
      /\ str \in [Streams -> ThreadState]
  BY DEF Data, DataTypes, Loop, ControlTypes
<1>2. params.rate \in Nat /\ params.burst \in Nat /\ params.sends \in BOOLEAN
      /\ SendsPerCall \in Nat
  BY <1>1, TestIs, LimitsAssumption DEF SendsPerCall
<1>3. /\ t.pc \in {"idle", "send", "counting", "counted", "throttle", "sleep", "off"}
      /\ t.left \in Nat /\ t.sent \in BOOLEAN /\ t.green \in BOOLEAN /\ t.until \in Nat
      /\ t.bytes \in Nat /\ t.omitted \in Nat /\ t.interval \in Nat
  BY <1>1 DEF ThreadState
<1>4. CASE StartsCall(i)
  <2> DEFINE u == [t EXCEPT !.pc = "send", !.left = SendsPerCall, !.sent = FALSE]
  <2>1. str' = [str EXCEPT ![i] = u] /\ blocks' \in Nat /\ params.sends
    BY <1>4, <1>1 DEF StartsCall
  <2>2. u \in ThreadState BY <1>1, <1>2 DEF ThreadState
  <2>3. ThreadOK(u) BY <1>1, <1>3, <2>1 DEF ThreadOK, ThreadState
  <2> HIDE DEF u
  <2> QED BY <1>0, <2>1, <2>2, <2>3, ThreadKept
<1>5. CASE Sends(i) \/ Receives(i)
  <2> DEFINE u == [t EXCEPT !.pc = "counting", !.bytes = @ + 1]
  <2>1. str' = [str EXCEPT ![i] = u] /\ blocks' \in Nat
        /\ (params.sends => t.pc = "send" /\ ~SendEnds(t))
    BY <1>5, <1>1 DEF Sends, Receives, ThreadAt
  <2>2. params.sends => t.left > 0 BY <2>1, <1>3 DEF SendEnds
  <2>3. u \in ThreadState
    <3>1. t.bytes + 1 \in Nat /\ t.interval + 1 \in Nat BY <1>3
    <3>2. t \in ThreadState BY <1>1
    <3> HIDE DEF t
    <3> QED BY <3>1, <3>2 DEF ThreadState
  <2>4. ThreadOK(u) BY <1>1, <1>3, <2>1, <2>2 DEF ThreadOK, ThreadState
  <2> HIDE DEF u
  <2> QED BY <1>0, <2>1, <2>3, <2>4, ThreadKept
<1>6. CASE CountsInterval(i)
  <2> DEFINE u == [t EXCEPT !.pc = "counted", !.interval = @ + 1]
  <2>1. str' = [str EXCEPT ![i] = u] /\ blocks' \in Nat /\ t.pc = "counting"
    BY <1>6, <1>1 DEF CountsInterval, ThreadAt
  <2>3. u \in ThreadState
    <3>1. t.bytes + 1 \in Nat /\ t.interval + 1 \in Nat BY <1>3
    <3>2. t \in ThreadState BY <1>1
    <3> HIDE DEF t
    <3> QED BY <3>1, <3>2 DEF ThreadState
  <2>4. ThreadOK(u) BY <1>1, <1>3, <2>1 DEF ThreadOK, ThreadState
  <2> HIDE DEF u
  <2> QED BY <1>0, <2>1, <2>3, <2>4, ThreadKept
<1>7. CASE CountsTest(i)
  <2> DEFINE u == IF params.sends
         THEN [t EXCEPT !.pc = IF PerMessage THEN "throttle" ELSE "send", !.left = @ - 1, !.sent = TRUE]
         ELSE [t EXCEPT !.pc = "idle"]
  <2>1. str' = [str EXCEPT ![i] = u] /\ blocks' \in Nat /\ t.pc = "counted"
    <3>1. str' = [str EXCEPT ![i] = u] BY <1>7 DEF CountsTest
    <3>2. blocks' \in Nat /\ t.pc = "counted" BY <1>7, <1>1 DEF CountsTest, ThreadAt
    <3> QED BY <3>1, <3>2
  <2>2. params.sends => t.left - 1 \in Nat BY <1>1, <1>3, <2>1 DEF ThreadOK
  <2>3. u \in ThreadState BY <1>1, <1>2, <1>3, <2>2 DEF ThreadState
  <2>4. ThreadOK(u) BY <1>1, <1>2, <1>3, <2>1 DEF ThreadOK, ThreadState, PerMessage
  <2> HIDE DEF u
  <2> QED BY <1>0, <2>1, <2>3, <2>4, ThreadKept
<1>8. CASE CallEnds(i)
  <2> DEFINE u == [t EXCEPT !.pc =
                     IF params.rate # 0 /\ (params.burst # 0 \/ ~t.sent) THEN "throttle" ELSE "idle"]
  <2>1. str' = [str EXCEPT ![i] = u] /\ blocks' \in Nat /\ params.sends
    BY <1>8, <1>1 DEF CallEnds
  <2>3. u \in ThreadState
    <3>1. t.bytes + 1 \in Nat /\ t.interval + 1 \in Nat BY <1>3
    <3>2. t \in ThreadState BY <1>1
    <3> HIDE DEF t
    <3> QED BY <3>1, <3>2 DEF ThreadState
  <2>4. ThreadOK(u) BY <1>1, <1>2, <1>3, <2>1 DEF ThreadOK, ThreadState
  <2> HIDE DEF u
  <2> QED BY <1>0, <2>1, <2>3, <2>4, ThreadKept
<1>9. CASE Throttles(i)
  <2> DEFINE u == IF done THEN [t EXCEPT !.pc = AfterThrottle(t)]
          ELSE IF t.bytes <= params.rate * now
                 THEN [t EXCEPT !.pc = AfterThrottle(t), !.green = t.bytes < params.rate * now]
          ELSE [t EXCEPT !.pc = "sleep", !.green = FALSE,
                         !.until = (t.bytes + params.rate - 1) \div params.rate]
  <2>1. str' = [str EXCEPT ![i] = u] /\ blocks' \in Nat /\ t.pc = "throttle"
    BY <1>9, <1>1 DEF Throttles, ThreadAt
  <2>2. params.rate # 0 /\ params.sends BY <1>1, <2>1 DEF ThreadOK
  <2>3. (t.bytes + params.rate - 1) \div params.rate \in Nat
    <3> DEFINE a == t.bytes + params.rate - 1
    <3>1. a \in Nat /\ params.rate \in Nat \ {0} BY <1>2, <1>3, <2>2
    <3> HIDE DEF a
    <3>2. a \div params.rate \in Nat BY <3>1
    <3> QED BY <3>2 DEF a
  <2>4. AfterThrottle(t) \in {"send", "idle"} BY DEF AfterThrottle
  <2>5. u \in ThreadState
    <3> DEFINE x == AfterThrottle(t)  y == t.bytes < params.rate * now
               z == (t.bytes + params.rate - 1) \div params.rate
    <3>1. x \in {"send", "idle"} /\ y \in BOOLEAN /\ z \in Nat BY <2>3, <2>4
    <3>2. t \in ThreadState BY <1>1
    <3> HIDE DEF t, x, y, z
    <3>3. [t EXCEPT !.pc = x] \in ThreadState BY <3>1, <3>2 DEF ThreadState
    <3>4. [t EXCEPT !.pc = x, !.green = y] \in ThreadState BY <3>1, <3>2 DEF ThreadState
    <3>5. [t EXCEPT !.pc = "sleep", !.green = FALSE, !.until = z] \in ThreadState
      BY <3>1, <3>2 DEF ThreadState
    <3> QED BY <3>3, <3>4, <3>5 DEF x, y, z
  <2>6. ThreadOK(u) BY <1>1, <1>2, <1>3, <2>1, <2>2, <2>4 DEF ThreadOK, ThreadState
  <2> HIDE DEF u
  <2> QED BY <1>0, <2>1, <2>5, <2>6, ThreadKept
<1>10. CASE Wakes(i)
  <2>1. PICK green \in BOOLEAN :
          str' = [str EXCEPT ![i].pc = AfterThrottle(str[i]), ![i].green = green]
    <3>1. {now >= str[i].until, FALSE} \subseteq BOOLEAN OBVIOUS
    <3> QED BY <3>1, <1>10 DEF Wakes
  <2> DEFINE u == [t EXCEPT !.pc = AfterThrottle(t), !.green = green]
  <2>2. str' = [str EXCEPT ![i] = u] /\ blocks' \in Nat /\ t.pc = "sleep"
    BY <2>1, <1>10, <1>1 DEF Wakes, ThreadAt
  <2>3. params.sends BY <1>1, <2>2 DEF ThreadOK
  <2>4. AfterThrottle(t) \in {"send", "idle"} BY DEF AfterThrottle
  <2>5. u \in ThreadState BY <1>1, <1>3, <2>4 DEF ThreadState
  <2>6. ThreadOK(u) BY <1>1, <1>3, <2>3, <2>4 DEF ThreadOK, ThreadState
  <2> HIDE DEF u
  <2> QED BY <1>0, <2>2, <2>5, <2>6, ThreadKept
<1> QED BY <1>4, <1>5, <1>6, <1>7, <1>8, <1>9, <1>10 DEF Thread

\* A step either deals with no interval and keeps all of them, or the reporter deals with the
\* last one.
Keeping ==
  /\ Handled' = Handled /\ printed' = printed
  /\ \A i \in Streams : \A k \in 1..Len(ivals[i]) :
       k \in 1..Len(ivals'[i]) /\ ivals'[i][k] = ivals[i][k]

Telling ==
  /\ ~Collecting /\ Handled' = Handled + 1 /\ Handled' = Complete /\ Complete = Len(ivals[1])
  /\ ivals' = ivals /\ PrintIntermediate

\* What the types and the loop say of the step of the callback.
LEMMA ControlFacts ==
  ASSUME Loop, Data
  PROVE  /\ params \in Tests /\ DataTypes /\ Lengths /\ Good(timers) /\ Turns /\ Pair /\ ControlTypes
         /\ IsFiniteSet(Streams) /\ 1 \in Streams /\ stream \in Streams
         /\ \A i \in Streams : ivals[i] \in Seq(Interval) /\ Len(ivals[i]) \in Nat
         /\ \A i \in Streams : ThreadOK(str[i]) /\ str[i] \in ThreadState
<1>1. params \in Tests /\ DataTypes /\ Lengths /\ Good(timers) /\ Turns /\ Pair /\ ControlTypes
  BY DEF Loop, Data, ControlTypes
<1>2. \A i \in Streams : ivals[i] \in Seq(Interval) BY <1>1 DEF DataTypes
<1>3. \A i \in Streams : Len(ivals[i]) \in Nat BY <1>2
<1> QED BY <1>1, <1>2, <1>3, StreamsAre DEF ControlTypes, Data, DataTypes

\* A step of the loop that collects and reports nothing.
LEMMA LoopQuiet ==
  ASSUME Loop, Loop', Data, ~Collecting, ~Collecting', ~Unreported, ~Unreported',
         UNCHANGED <<params, temp, total, ivals, printed, summary, limitVars>>,
         lastBlocks' \in Nat, lastTime' \in 0..Horizon, blocks' \in Nat,
         str' \in [Streams -> ThreadState], \A i \in Streams : ThreadOK(str'[i]),
         since' \in [Streams -> 0..Horizon]
  PROVE  Data' /\ Keeping
<1>1. Lengths' /\ Handled' = Handled BY OutsideKeeps
<1>2. Streams' = Streams BY DEF Streams
<1>3. DataTypes' BY <1>2 DEF Data, DataTypes, limitVars
<1>4. \A i \in Streams : ThreadOK(str[i])' BY DEF ThreadOK
<1>5. Data' BY <1>1, <1>2, <1>3, <1>4 DEF Data
<1> QED BY <1>1, <1>5 DEF Keeping

\* The counters' part of the invariant, step by step of the control loop.
LEMMA SelectKeepsData == ASSUME Loop, Loop', Data, SelectReturns PROVE Data' /\ Keeping
<1>1. /\ pc = "select" /\ pc' \in {"select", "run"}
      /\ UNCHANGED <<params, now, timers, done, temp, total, ivals, since, str, blocks, printed,
                     summary, limitVars>>
      /\ lastBlocks' \in {lastBlocks, blocks} /\ lastTime' \in {lastTime, now}
  BY DEF SelectReturns, Progress, timerVars, statsVars, threadVars, reportVars
<1>2. ~Collecting /\ ~Collecting' /\ ~Ahead BY <1>1 DEF Collecting, Ahead
<1>3. ~Ahead' BY <1>1, <1>2, NotAhead
<1>4. ~Unreported /\ ~Unreported' BY <1>1, <1>2, <1>3 DEF Unreported
<1>5. lastBlocks' \in Nat /\ lastTime' \in 0..Horizon /\ blocks' \in Nat
      /\ str' \in [Streams -> ThreadState] /\ since' \in [Streams -> 0..Horizon]
  BY <1>1, ControlFacts DEF DataTypes, ControlTypes
<1>6. \A i \in Streams : ThreadOK(str'[i]) BY <1>1, ControlFacts
<1> QED BY <1>1, <1>2, <1>4, <1>5, <1>6, LoopQuiet

LEMMA RunEndsKeepsData == ASSUME Loop, Loop', Data, RunEnds PROVE Data' /\ Keeping
<1>1. /\ pc = "run" /\ pc' = "check" /\ ~Due
      /\ UNCHANGED <<params, now, timers, done, temp, total, ivals, since, str, blocks, printed,
                     summary, limitVars, lastBlocks, lastTime>>
  BY DEF RunEnds, waitVars, statsVars, testVars, threadVars, reportVars
<1>2. ~Collecting /\ ~Collecting' BY <1>1 DEF Collecting
<1>3. ~Ahead
  <2>1. Ahead => "report" \in Active(timers) BY ControlFacts DEF Turns, Ahead, NoTimer
  <2> QED BY <2>1, <1>1, ControlFacts DEF Pair, Ahead, Due, NoTimer
<1>4. ~Unreported /\ ~Unreported' BY <1>1, <1>3 DEF Unreported, Ahead
<1>5. lastBlocks' \in Nat /\ lastTime' \in 0..Horizon /\ blocks' \in Nat
      /\ str' \in [Streams -> ThreadState] /\ since' \in [Streams -> 0..Horizon]
  BY <1>1, ControlFacts DEF DataTypes, ControlTypes
<1>6. \A i \in Streams : ThreadOK(str'[i]) BY <1>1, ControlFacts
<1> QED BY <1>1, <1>2, <1>4, <1>5, <1>6, LoopQuiet

LEMMA TestKeepsData == ASSUME Loop, Loop', Data, TestTimer PROVE Data' /\ Keeping
<1>1. /\ Fires("test") /\ cur' = next' /\ pc' = pc
      /\ UNCHANGED <<params, now, temp, total, ivals, since, str, blocks, printed,
                     summary, limitVars, lastBlocks, lastTime>>
  BY DEF TestTimer, waitVars, statsVars, threadVars, reportVars
<1>2. pc = "run" /\ cur = "test" BY <1>1, FiringIs DEF Names
<1>3. ~Ahead /\ ~Ahead' BY <1>1, <1>2, NotAheadAfter DEF Ahead
<1>4. ~Collecting /\ ~Collecting' /\ ~Unreported /\ ~Unreported'
  BY <1>1, <1>2, <1>3 DEF Unreported, Collecting
<1>5. lastBlocks' \in Nat /\ lastTime' \in 0..Horizon /\ blocks' \in Nat
      /\ str' \in [Streams -> ThreadState] /\ since' \in [Streams -> 0..Horizon]
  BY <1>1, ControlFacts DEF DataTypes, ControlTypes
<1>6. \A i \in Streams : ThreadOK(str'[i]) BY <1>1, ControlFacts
<1> QED BY <1>1, <1>4, <1>5, <1>6, LoopQuiet

\* What iperf_reset_stats does to the state of one thread.
LEMMA ResetIs ==
  ASSUME NEW t \in ThreadState, ThreadOK(t)
  PROVE  /\ ResetStats(t) \in ThreadState /\ ThreadOK(ResetStats(t))
         /\ ResetStats(t).pc = t.pc /\ ResetStats(t).left = t.left /\ ResetStats(t).interval = 0
         /\ IF params.sends THEN ResetStats(t).bytes = t.bytes /\ ResetStats(t).omitted = t.bytes
                            ELSE ResetStats(t).bytes = 0 /\ ResetStats(t).omitted = 0
<1>1. t.bytes \in Nat BY DEF ThreadState
<1>2. CASE params.sends
  <2> DEFINE u == [t EXCEPT !.omitted = t.bytes, !.interval = 0]
  <2>1. ResetStats(t) = u BY <1>2 DEF ResetStats
  <2>2. u \in ThreadState BY <1>1 DEF ThreadState
  <2>3. u.pc = t.pc /\ u.left = t.left /\ u.interval = 0 /\ u.bytes = t.bytes /\ u.omitted = t.bytes
    BY DEF ThreadState
  <2> HIDE DEF u
  <2>4. ThreadOK(u) BY <1>1, <1>2, <2>3 DEF ThreadOK
  <2> QED BY <1>2, <2>1, <2>2, <2>3, <2>4
<1>3. CASE ~params.sends
  <2> DEFINE u == [t EXCEPT !.bytes = 0, !.interval = 0]
  <2>1. ResetStats(t) = u BY <1>3 DEF ResetStats
  <2>2. u \in ThreadState BY <1>1 DEF ThreadState
  <2>3. u.pc = t.pc /\ u.left = t.left /\ u.interval = 0 /\ u.bytes = 0 /\ u.omitted = t.omitted
    BY DEF ThreadState
  <2>4. t.omitted = 0 BY <1>3 DEF ThreadOK
  <2> HIDE DEF u
  <2>5. ThreadOK(u) BY <1>1, <1>3, <2>3, <2>4 DEF ThreadOK
  <2> QED BY <1>3, <2>1, <2>2, <2>3, <2>4, <2>5
<1> QED BY <1>2, <1>3

LEMMA OmitKeepsData == ASSUME Loop, Loop', Data, OmitTimer PROVE Data' /\ Keeping
<1>1. /\ Fires("omit") /\ cur' = next' /\ pc' = pc
      /\ str' = [i \in Streams |-> ResetStats(str[i])]
      /\ blocks' \in {0, blocks}
      /\ since' = [i \in Streams |-> IF ivals[i] = <<>> THEN now ELSE since[i]]
      /\ UNCHANGED <<params, now, temp, total, ivals, printed, summary, limitVars, lastBlocks, lastTime>>
  BY DEF OmitTimer, waitVars, reportVars
<1>2. pc = "run" /\ cur = "omit" BY <1>1, FiringIs DEF Names
<1>3. ~Ahead /\ ~Ahead' BY <1>1, <1>2, NotAheadAfter DEF Ahead
<1>4. ~Collecting /\ ~Collecting' /\ ~Unreported /\ ~Unreported'
  BY <1>1, <1>2, <1>3 DEF Unreported, Collecting
<1>5. str' \in [Streams -> ThreadState] /\ \A i \in Streams : ThreadOK(str'[i])
  BY <1>1, ControlFacts, ResetIs
<1>6. since' \in [Streams -> 0..Horizon]
  BY <1>1, ControlFacts DEF DataTypes, ControlTypes
<1>7. lastBlocks' \in Nat /\ lastTime' \in 0..Horizon /\ blocks' \in Nat
  BY <1>1, ControlFacts DEF DataTypes
<1> QED BY <1>1, <1>4, <1>5, <1>6, <1>7, LoopQuiet

LEMMA StatsKeepsData == ASSUME Loop, Loop', Data, StatsTimer PROVE Data' /\ Keeping
<1>1. /\ Fires("stats")
      /\ UNCHANGED <<params, now, temp, ivals, since, str, blocks, printed, summary, limitVars,
                     lastBlocks, lastTime, done, state>>
      /\ IF done THEN UNCHANGED <<pc, stream, total>> ELSE pc' = "temp" /\ stream' = 1 /\ total' = 0
  BY DEF StatsTimer, waitVars, testVars, threadVars, reportVars
<1>2. pc = "run" /\ cur = "stats" BY <1>1, FiringIs DEF Names
<1>3. ~Collecting /\ ~Ahead /\ ~Unreported BY <1>2 DEF Collecting, Ahead, Unreported
<1>4. lastBlocks' \in Nat /\ lastTime' \in 0..Horizon /\ blocks' \in Nat
      /\ str' \in [Streams -> ThreadState] /\ since' \in [Streams -> 0..Horizon]
  BY <1>1, ControlFacts DEF DataTypes, ControlTypes
<1>5. \A i \in Streams : ThreadOK(str'[i]) BY <1>1, ControlFacts
<1>6. CASE done
  <2>1. ~Collecting' /\ ~Unreported' BY <1>1, <1>2, <1>6 DEF Collecting, Unreported
  <2> QED BY <1>1, <1>3, <1>4, <1>5, <1>6, <2>1, LoopQuiet
<1>7. CASE ~done
  <2>1. Streams' = Streams BY <1>1 DEF Streams
  <2>2. \A i \in Streams : Len(ivals[i]) = Complete /\ Complete = Len(ivals[1])
    BY <1>3, OutsideIs
  <2>3. Complete' = Complete
    <3>1. pc' = "temp" /\ stream' = 1 /\ ivals' = ivals BY <1>1, <1>7
    <3>2. Complete = Len(ivals[1]) BY <2>2, ControlFacts
    <3> QED BY <3>1, <3>2 DEF Complete
  <2>4. ~Unreported' BY <1>1, <1>7 DEF Unreported, Ahead
  <2>5. Handled' = Handled BY <1>3, <2>3, <2>4 DEF Handled
  <2>6. \A i \in Streams : ~Fresh(i)' BY <1>1, <1>7, ControlFacts, StreamsAre DEF Fresh
  <2>7. Lengths' BY <1>1, <2>1, <2>2, <2>3, <2>5, <2>6, ControlFacts DEF Lengths
  <2>8. DataTypes' BY <1>1, <1>4, <1>7, <2>1, ControlFacts DEF DataTypes, limitVars
  <2>9. \A i \in Streams : ThreadOK(str[i])' BY <1>1, <1>5 DEF ThreadOK
  <2>10. Data' BY <2>1, <2>7, <2>8, <2>9 DEF Data
  <2> QED BY <1>1, <2>5, <2>10 DEF Keeping
<1> QED BY <1>6, <1>7

\* The reporter and the final report.
LEMMA ReportTells ==
  ASSUME Loop, Loop', Data, ~Collecting, ~Collecting', ~Unreported',
         (Unreported /\ PrintIntermediate) \/ (~Unreported /\ UNCHANGED printed),
         UNCHANGED <<params, statsVars, threadVars, limitVars, lastBlocks, lastTime>>,
         summary' \in Nat \cup {NoSummary}
  PROVE  Data' /\ (Keeping \/ Telling)
<1>1. UNCHANGED <<params, temp, total, ivals, since, str, blocks, limitVars, lastBlocks, lastTime>>
      /\ Streams' = Streams
  BY DEF statsVars, threadVars, Streams
<1>2. \A i \in Streams : Len(ivals[i]) = Complete /\ Complete = Len(ivals[1])
      /\ ~Fresh(i) /\ ~Fresh(i)'
  BY OutsideIs DEF Collecting, Fresh
<1>3. Complete' = Complete BY <1>1 DEF Complete, Collecting
<1>4. Complete \in Nat /\ Handled' = Complete BY <1>3, ControlFacts DEF Lengths, Handled
<1>5. Lengths' BY <1>1, <1>2, <1>3, <1>4 DEF Lengths
<1>6. printed' \in Seq(Line)
  BY PrintType, ControlFacts DEF DataTypes
<1>7. DataTypes' BY <1>1, <1>6, ControlFacts DEF DataTypes, limitVars
<1>8. \A i \in Streams : ThreadOK(str[i])' BY <1>1, ControlFacts DEF ThreadOK
<1>9. Data' BY <1>1, <1>5, <1>7, <1>8 DEF Data
<1>10. 1 \in Streams BY ControlFacts
<1>11. CASE Unreported /\ PrintIntermediate
  <2>1. Handled = Complete - 1 BY <1>11 DEF Handled
  <2> QED BY <1>1, <1>2, <1>4, <1>9, <1>10, <1>11, <2>1 DEF Telling
<1>12. CASE ~Unreported /\ UNCHANGED printed
  <2>1. Handled = Complete BY <1>12 DEF Handled
  <2> QED BY <1>1, <1>4, <1>9, <1>12, <2>1 DEF Keeping
<1> QED BY <1>11, <1>12

LEMMA ReportKeepsData ==
  ASSUME Loop, Loop', Data, ReportTimer PROVE Data' /\ (Keeping \/ Telling)
<1>1. /\ Fires("report") /\ cur' = next' /\ pc' = pc /\ done' = done /\ state' = state
      /\ IF done THEN UNCHANGED printed ELSE PrintIntermediate
      /\ UNCHANGED <<params, statsVars, threadVars, limitVars, lastBlocks, lastTime, summary>>
  BY DEF ReportTimer, waitVars, testVars
<1>2. pc = "run" /\ cur = "report" BY <1>1, FiringIs DEF Names
<1>3. Ahead /\ ~Ahead' BY <1>1, <1>2, NotAheadAfter DEF Ahead
<1>4. ~Collecting /\ ~Collecting' /\ ~Unreported' /\ (Unreported <=> ~done)
  BY <1>1, <1>2, <1>3 DEF Collecting, Unreported
<1>5. summary' \in Nat \cup {NoSummary} BY <1>1, ControlFacts DEF DataTypes
<1>6. (Unreported /\ PrintIntermediate) \/ (~Unreported /\ UNCHANGED printed) BY <1>1, <1>4
<1>7. params' = params BY <1>1
<1> QED BY <1>1, <1>4, <1>5, <1>6, ReportTells

\* The summary is a number, since what is left out has been sent.
LEMMA SummaryType == ASSUME Loop, Data PROVE SummaryTotal \in Nat /\ \A i \in Streams : Summary(i) \in Nat
<1> DEFINE f == [i \in Streams |-> Summary(i)]
<1>1. \A i \in Streams : Summary(i) \in Nat
  <2> TAKE i \in Streams
  <2>1. str[i] \in ThreadState /\ ThreadOK(str[i]) BY ControlFacts
  <2>2. str[i].bytes \in Nat /\ str[i].omitted \in Nat BY <2>1 DEF ThreadState
  <2> QED BY <2>1, <2>2 DEF Summary, ThreadOK
<1>2. \A i \in Streams : f[i] \in Nat BY <1>1
<1>3. SummaryTotal = SumFunctionOnSet(f, Streams) BY DEF SummaryTotal, SumFunction
<1> HIDE DEF f
<1>4. SummaryTotal \in Nat BY <1>2, <1>3, ControlFacts, SumNat
<1> QED BY <1>1, <1>4

LEMMA FinalKeepsData ==
  ASSUME Loop, Loop', Data, FinalReport PROVE Data' /\ (Keeping \/ Telling)
<1>1. /\ pc = "end" /\ pc' = "end" /\ state = "ended" /\ state' = "reported"
      /\ PrintIntermediate /\ summary' = SummaryTotal
      /\ UNCHANGED <<params, statsVars, threadVars, limitVars, lastBlocks, lastTime>>
  BY DEF FinalReport, waitVars
<1>2. ~Collecting /\ ~Collecting' /\ Unreported /\ ~Unreported'
  BY <1>1 DEF Collecting, Unreported, Ahead
<1>3. summary' \in Nat \cup {NoSummary} BY <1>1, SummaryType
<1> QED BY <1>1, <1>2, <1>3, ReportTells

LEMMA ReadsKeepsData == ASSUME Loop, Loop', Data, StatsReads PROVE Data' /\ Keeping
<1>1. /\ pc = "temp" /\ pc' = "total" /\ temp' = str[stream].interval
      /\ UNCHANGED <<params, stream, total, ivals, since, str, blocks, printed, summary, limitVars,
                     lastBlocks, lastTime>>
  BY DEF StatsReads, waitVars, threadVars, reportVars
<1>2. temp' \in Nat
  <2>1. str[stream] \in ThreadState BY ControlFacts
  <2> QED BY <1>1, <2>1 DEF ThreadState
<1>3. ~Unreported /\ ~Unreported' BY <1>1 DEF Unreported, Ahead
<1>4. Complete' = Complete /\ Handled' = Handled /\ Streams' = Streams
      /\ \A i \in Streams : Fresh(i)' = Fresh(i)
  BY <1>1, <1>3 DEF Complete, Handled, Streams, Fresh
<1>5. Lengths' BY <1>1, <1>4, ControlFacts DEF Lengths
<1>6. DataTypes' BY <1>1, <1>2, <1>4, ControlFacts DEF DataTypes, limitVars
<1>7. \A i \in Streams : ThreadOK(str[i])' BY <1>1, ControlFacts DEF ThreadOK
<1>8. Data' BY <1>4, <1>5, <1>6, <1>7 DEF Data
<1> QED BY <1>1, <1>4, <1>8 DEF Keeping

\* The interval the callback adds.
NewInterval == [bytes |-> temp, omitted |-> omitting,
                short |-> 10 * (now - since[stream]) < params.interval]

\* The sum of an interval over all streams, as iperf_check_total_rate gets it.
LEMMA TotalsIs ==
  ASSUME Loop, Data, StatsTotals
  PROVE  /\ pc = "total" /\ pc' = "zero" /\ NewInterval \in Interval
         /\ Streams' = Streams /\ DOMAIN ivals' = Streams
         /\ ivals'[stream] = Append(ivals[stream], NewInterval)
         /\ ivals'[stream] \in Seq(Interval) /\ Len(ivals'[stream]) = Len(ivals[stream]) + 1
         /\ ivals'[stream][Len(ivals[stream]) + 1] = NewInterval
         /\ \A k \in 1..Len(ivals[stream]) : ivals'[stream][k] = ivals[stream][k]
         /\ \A i \in Streams : i # stream => ivals'[i] = ivals[i]
         /\ since' = [since EXCEPT ![stream] = now]
         /\ str[stream].interval \in Nat
         /\ total' = total + str[stream].interval
         /\ UNCHANGED <<params, stream, temp, str, blocks, printed, summary, limitVars,
                        lastBlocks, lastTime, cur, done, state, omitting, now>>
<1>1. /\ pc = "total" /\ pc' = "zero"
      /\ ivals' = [ivals EXCEPT ![stream] = Append(@, NewInterval)]
      /\ since' = [since EXCEPT ![stream] = now]
      /\ total' = total + str[stream].interval
      /\ UNCHANGED <<params, stream, temp, str, blocks, printed, summary, limitVars,
                     lastBlocks, lastTime, cur, done, state, omitting, now>>
  BY DEF StatsTotals, waitVars, threadVars, reportVars, NewInterval, timerVars, testVars
<1>2. NewInterval \in Interval
  BY ControlFacts DEF NewInterval, Interval, DataTypes, ControlTypes
<1>3. DOMAIN ivals = Streams /\ stream \in Streams /\ ivals[stream] \in Seq(Interval)
  BY ControlFacts DEF DataTypes
<1>4. DOMAIN ivals' = Streams /\ ivals'[stream] = Append(ivals[stream], NewInterval)
      /\ \A i \in Streams : i # stream => ivals'[i] = ivals[i]
  BY <1>1, <1>3
<1>5. Streams' = Streams BY <1>1 DEF Streams
<1>6. str[stream].interval \in Nat
  <2>1. str[stream] \in ThreadState BY ControlFacts
  <2> QED BY <2>1 DEF ThreadState
<1> HIDE DEF NewInterval
<1>7. ivals'[stream] \in Seq(Interval) /\ Len(ivals'[stream]) = Len(ivals[stream]) + 1
      /\ ivals'[stream][Len(ivals[stream]) + 1] = NewInterval
      /\ \A k \in 1..Len(ivals[stream]) : ivals'[stream][k] = ivals[stream][k]
  BY <1>2, <1>3, <1>4, AppendProperties
<1> QED BY <1>1, <1>2, <1>4, <1>5, <1>6, <1>7

LEMMA TotalsKeepsData == ASSUME Loop, Loop', Data, StatsTotals PROVE Data' /\ Keeping
<1>1. \A i \in Streams : ivals'[i] \in Seq(Interval)
  BY TotalsIs, ControlFacts
<1>2. ~Unreported /\ ~Unreported' BY TotalsIs DEF Unreported, Ahead
<1>3. Complete = Len(ivals[stream]) /\ Complete' = Complete
  BY TotalsIs, ControlFacts DEF Complete
<1>4. Handled' = Handled BY <1>2, <1>3 DEF Handled
<1>5. \A i \in Streams : Len(ivals'[i]) = IF Fresh(i)' THEN Complete' + 1 ELSE Complete'
  <2> TAKE i \in Streams
  <2>1. Fresh(i) <=> i < stream BY TotalsIs DEF Fresh
  <2>2. Fresh(i)' <=> i <= stream BY TotalsIs DEF Fresh
  <2>3. CASE i = stream
    <3>1. Fresh(i)' BY <2>2, <2>3, ControlFacts, StreamsAre
    <3> QED BY <3>1, <2>3, <1>3, TotalsIs
  <2>4. CASE i # stream
    <3>0. Streams \subseteq Nat /\ stream \in Nat BY ControlFacts, StreamsAre
    <3>1. Fresh(i)' <=> Fresh(i) BY <2>1, <2>2, <2>4, <3>0
    <3>2. Len(ivals[i]) = IF Fresh(i) THEN Complete + 1 ELSE Complete BY ControlFacts DEF Lengths
    <3> QED BY <3>1, <3>2, <2>4, <1>3, TotalsIs
  <2> QED BY <2>3, <2>4
<1>6. Lengths' BY <1>3, <1>4, <1>5, TotalsIs, ControlFacts DEF Lengths
<1>7. since' \in [Streams -> 0..Horizon] BY TotalsIs, ControlFacts DEF DataTypes, ControlTypes
<1>8. total' \in Nat
  <2>1. total' = total + str[stream].interval /\ str[stream].interval \in Nat BY TotalsIs
  <2>2. total \in Nat
    <3>1. DataTypes BY ControlFacts
    <3> QED BY <3>1 DEF DataTypes
  <2> QED BY <2>1, <2>2
<1>9. DataTypes' BY <1>1, <1>7, <1>8, TotalsIs, ControlFacts DEF DataTypes, limitVars
<1>10. \A i \in Streams : ThreadOK(str[i])' BY TotalsIs, ControlFacts DEF ThreadOK
<1>11. Data' BY <1>6, <1>9, <1>10, TotalsIs DEF Data
<1>12. \A i \in Streams : \A k \in 1..Len(ivals[i]) :
         k \in 1..Len(ivals'[i]) /\ ivals'[i][k] = ivals[i][k]
  <2> TAKE i \in Streams
  <2> TAKE k \in 1..Len(ivals[i])
  <2>1. CASE i = stream
    <3>1. k \in 1..Len(ivals[stream]) + 1 BY <2>1, ControlFacts
    <3> QED BY <2>1, <3>1, TotalsIs
  <2>2. CASE i # stream BY <2>2, TotalsIs
  <2> QED BY <2>1, <2>2
<1> QED BY <1>4, <1>11, <1>12, TotalsIs DEF Keeping

\* The ring and its place stay within the window.
LEMMA LimitTypes ==
  ASSUME Loop, Data, CheckTotalRate, params' = params
  PROVE  /\ ring' \in [0..params'.window - 1 -> Nat] /\ ringIndex' \in 0..params'.window - 1
         /\ statsCount' \in Nat /\ exceeded' \in BOOLEAN /\ totals' \in Seq(Nat)
<1>1. /\ ring \in [0..params.window - 1 -> Nat] /\ ringIndex \in 0..params.window - 1
      /\ statsCount \in Nat /\ exceeded \in BOOLEAN /\ totals \in Seq(Nat) /\ total \in Nat
  BY DEF Data, DataTypes
<1>2. params.window \in Nat \ {0} BY ControlFacts, TestIs
<1>3. CASE ~(params.role = "server" /\ ~done /\ params.limit # 0)
  BY <1>1, <1>3 DEF CheckTotalRate, limitVars
<1>4. CASE params.role = "server" /\ ~done /\ params.limit # 0
  <2> DEFINE k == IF ringIndex + 1 >= params.window THEN 0 ELSE ringIndex + 1
  <2>1. /\ ringIndex' = k /\ ring' = [ring EXCEPT ![k] = total] /\ statsCount' = statsCount + 1
        /\ exceeded' = (exceeded \/ OverLimit(ring', statsCount'))
        /\ totals' = Append(totals, total)
    BY <1>4 DEF CheckTotalRate
  <2>2. k \in 0..params.window - 1 BY <1>1, <1>2
  <2>3. exceeded' \in BOOLEAN BY <2>1
  <2> QED BY <1>1, <2>1, <2>2, <2>3
<1> QED BY <1>3, <1>4

\* One round of the callback ends with the counters of its stream.
LEMMA ZeroesIs ==
  ASSUME Loop, Data, StatsZeroes
  PROVE  /\ pc = "zero" /\ Streams' = Streams
         /\ str' = [str EXCEPT ![stream].interval = 0]
         /\ str' \in [Streams -> ThreadState] /\ \A i \in Streams : ThreadOK(str'[i])
         /\ UNCHANGED <<params, now, lastBlocks, lastTime, temp, total, ivals, since, done, omitting,
                        blocks, printed, summary>>
<1>1. /\ pc = "zero" /\ str' = [str EXCEPT ![stream].interval = 0]
      /\ UNCHANGED <<params, now, lastBlocks, lastTime, temp, total, ivals, since, done, omitting,
                     blocks, printed, summary>>
  BY DEF StatsZeroes, waitVars, reportVars
<1>2. Streams' = Streams BY <1>1 DEF Streams
<1> DEFINE t == str[stream]  u == [t EXCEPT !.interval = 0]
<1>3. t \in ThreadState /\ ThreadOK(t) /\ str \in [Streams -> ThreadState] /\ stream \in Streams
  BY ControlFacts DEF DataTypes
<1>4. str' = [str EXCEPT ![stream] = u] BY <1>1
<1> HIDE DEF t
<1>5. u \in ThreadState /\ ThreadOK(u) BY <1>3 DEF ThreadState, ThreadOK
<1> HIDE DEF u
<1>6. str' \in [Streams -> ThreadState] BY <1>3, <1>4, <1>5
<1>7. \A i \in Streams : ThreadOK(str'[i]) BY <1>3, <1>4, <1>5, ControlFacts
<1> QED BY <1>1, <1>2, <1>6, <1>7

LEMMA ZeroKeepsData == ASSUME Loop, Loop', Data, StatsZeroes PROVE Data' /\ Keeping
<1>1. /\ IF stream < params.streams
           THEN pc' = "temp" /\ stream' = stream + 1 /\ UNCHANGED limitVars
           ELSE /\ CheckTotalRate /\ UNCHANGED stream
                /\ IF cur = "stats" THEN pc' = "run" /\ cur' = next
                                    ELSE pc' = "end" /\ state' = "ended"
  BY DEF StatsZeroes
<1>2. Complete = Len(ivals[stream]) - 1 /\ ~Unreported BY ZeroesIs DEF Complete, Unreported, Ahead
<1>3. \A i \in Streams : Len(ivals[i]) = IF i <= stream THEN Complete + 1 ELSE Complete
  BY ZeroesIs, ControlFacts DEF Lengths, Fresh
<1>4. Streams = 1..params.streams /\ stream \in Streams /\ params.streams \in Nat /\ 1 \in Streams
  BY ControlFacts, StreamsAre
<1>5. Complete \in Nat /\ Handled = Complete BY <1>2, ControlFacts DEF Lengths, Handled
<1>6. Lengths' /\ Handled' = Handled
  <2>1. CASE stream < params.streams
    <3>1. pc' = "temp" /\ stream' = stream + 1 /\ stream + 1 \in Streams BY <1>1, <1>4, <2>1
    <3>2. ~(stream + 1 <= stream) BY <1>4
    <3>3. Complete' = Complete BY <1>3, <3>1, <3>2, ZeroesIs DEF Complete
    <3>4. ~Unreported' BY <3>1 DEF Unreported, Ahead
    <3>5. \A i \in Streams : Fresh(i)' <=> i <= stream BY <3>1, <1>4 DEF Fresh
    <3> QED BY <1>3, <1>5, <3>3, <3>4, <3>5, ZeroesIs DEF Lengths, Handled
  <2>2. CASE ~(stream < params.streams)
    <3>1. stream = params.streams /\ \A i \in Streams : i <= stream BY <1>4, <2>2
    <3>2. pc' \in {"run", "end"} BY <1>1, <2>2
    <3>3. Complete' = Complete + 1 BY <1>3, <1>4, <3>1, <3>2, ZeroesIs DEF Complete
    <3>4. Unreported'
      <4>1. CASE cur = "stats"
        <5>1. next = "report" /\ ~done
          BY <4>1, ZeroesIs, ControlFacts DEF Turns, Collecting, NoTimer
        <5> QED BY <5>1, <1>1, <2>2, <4>1, ZeroesIs DEF Unreported, Ahead
      <4>2. CASE cur # "stats" BY <1>1, <2>2, <4>2 DEF Unreported
      <4> QED BY <4>1, <4>2
    <3>5. \A i \in Streams : ~Fresh(i)' BY <3>2 DEF Fresh
    <3>6. Handled' = Handled BY <1>5, <3>3, <3>4 DEF Handled
    <3> QED BY <1>3, <1>5, <3>1, <3>3, <3>5, <3>6, ZeroesIs DEF Lengths
  <2> QED BY <2>1, <2>2
<1>7. /\ ring' \in [0..params'.window - 1 -> Nat] /\ ringIndex' \in 0..params'.window - 1
      /\ statsCount' \in Nat /\ exceeded' \in BOOLEAN /\ totals' \in Seq(Nat)
  BY <1>1, ZeroesIs, LimitTypes, ControlFacts DEF DataTypes, limitVars
<1>8. DataTypes' BY <1>7, ZeroesIs, ControlFacts DEF DataTypes
<1>9. \A i \in Streams : ThreadOK(str[i])' BY ZeroesIs DEF ThreadOK
<1>10. Data' BY <1>6, <1>8, <1>9, ZeroesIs DEF Data
<1> QED BY <1>6, <1>10, ZeroesIs DEF Keeping

\* The last collection of a test starts.
LEMMA LastStatsKeepsData ==
  ASSUME Loop, Loop', Data, ~Collecting, ~Unreported,
         NEW list \in [Streams -> ThreadState], LastStats(list), \A i \in Streams : ThreadOK(list[i]),
         UNCHANGED <<params, blocks, printed, summary, limitVars, lastBlocks, lastTime>>
  PROVE  Data' /\ Keeping
<1>1. /\ pc' = "temp" /\ stream' = 1 /\ total' = 0 /\ str' = list
      /\ UNCHANGED <<temp, ivals, since>> /\ Streams' = Streams
  BY DEF LastStats, Streams
<1>2. \A i \in Streams : Len(ivals[i]) = Complete BY OutsideIs
<1>3. Complete' = Complete BY <1>1, <1>2, ControlFacts DEF Complete
<1>4. ~Unreported' BY <1>1 DEF Unreported, Ahead
<1>5. Handled' = Handled BY <1>3, <1>4 DEF Handled
<1>6. \A i \in Streams : ~Fresh(i)' BY <1>1, ControlFacts, StreamsAre DEF Fresh
<1>7. Lengths' BY <1>1, <1>2, <1>3, <1>5, <1>6, ControlFacts DEF Lengths
<1>8. DataTypes' BY <1>1, ControlFacts DEF DataTypes, limitVars
<1>9. \A i \in Streams : ThreadOK(str[i])' BY <1>1 DEF ThreadOK
<1>10. Data' BY <1>1, <1>7, <1>8, <1>9 DEF Data
<1> QED BY <1>1, <1>5, <1>10 DEF Keeping

LEMMA CheckKeepsData == ASSUME Loop, Loop', Data, Check PROVE Data' /\ Keeping
<1>1. /\ pc = "check" /\ UNCHANGED <<params, now, timers, cur, blocks, printed, summary, limitVars,
                                     lastBlocks, lastTime>>
  BY DEF Check, timerVars, reportVars
<1>2. ~Collecting /\ ~Unreported BY <1>1 DEF Collecting, Unreported, Ahead
<1>3. CASE params.role = "client" /\ EndReached
  <2> DEFINE list == [i \in Streams |-> IF params.sends THEN [str[i] EXCEPT !.pc = "off"] ELSE str[i]]
  <2>1. LastStats(list) BY <1>3 DEF Check
  <2>2. ASSUME NEW i \in Streams PROVE list[i] \in ThreadState /\ ThreadOK(list[i])
    <3> DEFINE t == str[i]
    <3>1. t \in ThreadState /\ ThreadOK(t) BY ControlFacts
    <3>2. list[i] = IF params.sends THEN [t EXCEPT !.pc = "off"] ELSE t OBVIOUS
    <3> HIDE DEF t, list
    <3>3. CASE params.sends
      <4> DEFINE u == [t EXCEPT !.pc = "off"]
      <4>1. u \in ThreadState /\ ThreadOK(u) BY <3>1, <3>3 DEF ThreadState, ThreadOK
      <4> QED BY <4>1, <3>2, <3>3
    <3> QED BY <3>1, <3>2, <3>3
  <2>3. list = [i \in Streams |-> list[i]] OBVIOUS
  <2> HIDE DEF list
  <2>4. list \in [Streams -> ThreadState] BY <2>2, <2>3
  <2> QED BY <1>1, <1>2, <2>1, <2>2, <2>4, LastStatsKeepsData
<1>4. CASE ~(params.role = "client" /\ EndReached)
  <2>1. pc' = "select" /\ UNCHANGED <<temp, total, ivals, since, str>>
    BY <1>4 DEF Check, statsVars
  <2>2. ~Collecting' /\ ~Unreported' BY <2>1 DEF Collecting, Unreported, Ahead
  <2>3. lastBlocks' \in Nat /\ lastTime' \in 0..Horizon /\ blocks' \in Nat
        /\ str' \in [Streams -> ThreadState] /\ since' \in [Streams -> 0..Horizon]
    BY <1>1, <2>1, ControlFacts DEF DataTypes
  <2>4. \A i \in Streams : ThreadOK(str'[i]) BY <2>1, ControlFacts
  <2> QED BY <1>1, <1>2, <2>1, <2>2, <2>3, <2>4, LoopQuiet
<1> QED BY <1>3, <1>4

LEMMA ReadsEndKeepsData == ASSUME Loop, Loop', Data, ServerReadsTestEnd PROVE Data' /\ Keeping
<1>1. /\ pc = "select" /\ LastStats(str)
      /\ UNCHANGED <<params, blocks, printed, summary, limitVars, lastBlocks, lastTime>>
  BY DEF ServerReadsTestEnd, waitVars, reportVars
<1>2. ~Collecting /\ ~Unreported BY <1>1 DEF Collecting, Unreported, Ahead
<1>3. str \in [Streams -> ThreadState] BY ControlFacts DEF DataTypes
<1> QED BY <1>1, <1>2, <1>3, ControlFacts, LastStatsKeepsData

\* The whole step: what it leaves alone, or what the reporter has said in it.
LEMMA DataStep ==
  ASSUME Loop, Loop', Data, [Next]_vars
  PROVE  Data' /\ (Keeping \/ Telling)
<1>0. ASSUME UNCHANGED <<params, dataVars, pc, stream, state, cur, done>>
      PROVE  Data' /\ Keeping
  BY <1>0, DataStutters DEF Keeping, dataVars
<1>1. CASE Tick
  BY <1>0, <1>1 DEF Tick, dataVars, timerVars, waitVars, statsVars, testVars, threadVars, reportVars
<1>2. CASE ControlLoop
  BY <1>2, SelectKeepsData, RunEndsKeepsData, TestKeepsData, OmitKeepsData, StatsKeepsData,
     ReportKeepsData, ReadsKeepsData, TotalsKeepsData, ZeroKeepsData, CheckKeepsData,
     FinalKeepsData DEF ControlLoop
<1>3. CASE ServerReadsTestEnd BY <1>3, ReadsEndKeepsData
<1>4. CASE \E i \in Streams : Thread(i)
  <2>1. PICK i \in Streams : Thread(i) BY <1>4
  <2>2. Data' /\ Handled' = Handled BY <2>1, ThreadKeepsData
  <2>3. ivals' = ivals /\ printed' = printed
    BY <2>1, ThreadsLeaveLoop DEF loopVars, statsVars, reportVars
  <2> QED BY <2>2, <2>3 DEF Keeping
<1>5. CASE UNCHANGED vars
  BY <1>0, <1>5 DEF vars, dataVars, timerVars, waitVars, statsVars, testVars, threadVars, reportVars
<1> QED BY <1>1, <1>2, <1>3, <1>4, <1>5 DEF Next

\* Both parts hold always.
LEMMA TypedHolds == Spec => [](Loop /\ Data)
<1>1. Init => Loop /\ Data BY LoopInit, DataInit
<1>2. Loop /\ Data /\ [Next]_vars => (Loop /\ Data)' BY LoopStep, DataStep
<1> QED BY <1>1, <1>2, PTL DEF Spec

\* They give the type invariant and the timers' property.
LEMMA TypeFollows == ASSUME Loop, Data PROVE TimersAreLive
<1>1. TypeOK
  <2>1. timers \in Seq([name : Names, at : Nat]) BY ControlFacts DEF Good, Entry
  <2>2. printed \in Seq([interval : Nat, bytes : Nat]) BY ControlFacts DEF DataTypes, Line
  <2>3. \A i \in Streams : ivals[i] \in Seq([bytes : Nat, omitted : BOOLEAN, short : BOOLEAN])
    BY ControlFacts DEF DataTypes, Interval
  <2>4. str \in [Streams -> [pc : {"idle", "send", "counting", "counted", "throttle", "sleep", "off"},
                             left : Nat, sent : BOOLEAN, green : BOOLEAN, until : Nat,
                             bytes : Nat, omitted : Nat, interval : Nat]]
    BY ControlFacts DEF DataTypes, ThreadState
  <2> QED BY <2>1, <2>2, <2>3, <2>4, ControlFacts DEF TypeOK, DataTypes, ControlTypes
<1> QED BY <1>1, ControlFacts DEF TimersAreLive, Turns, Good, Sorted

\* tmr_run never goes on to a timer that a callback has cancelled, and no timer that is due
\* stands behind one that is not, for any test; and every variable has its type.
THEOREM TimersAreLiveAlways == Spec => []TimersAreLive
<1>1. Loop /\ Data => TimersAreLive BY TypeFollows
<1> QED BY <1>1, TypedHolds, PTL

\* No step changes the parameters.
LEMMA StepKeepsTest == ASSUME [Next]_vars PROVE params' = params
BY DEF Next, vars, Tick, ControlLoop, SelectReturns, RunEnds, TestTimer, OmitTimer, StatsTimer,
   ReportTimer, StatsReads, StatsTotals, StatsZeroes, Check, FinalReport, ServerReadsTestEnd,
   Thread, StartsCall, Sends, Receives, CountsInterval, CountsTest, CallEnds, Throttles, Wakes,
   loopVars

-----------------------------------------------------------------------------
(* The reporter.                                                           *)

Reported ==
  /\ \A j, k \in DOMAIN printed : j < k => printed[j].interval < printed[k].interval
  /\ \A j \in DOMAIN printed : printed[j].interval \in 1..Handled
  /\ \A k \in 1..Handled :
       \/ \E j \in DOMAIN printed : printed[j].interval = k
       \/ \A i \in Streams : ivals[i][k].short /\ ivals[i][k].bytes = 0

\* The reporter is at most one interval behind.
LEMMA HandledIs ==
  ASSUME Loop, Data
  PROVE  /\ Handled \in Nat /\ Complete \in Nat /\ Handled <= Complete /\ Complete <= Handled + 1
         /\ \A i \in Streams : \A k \in 1..Complete : k \in 1..Len(ivals[i]) /\ ivals[i][k] \in Interval
         /\ \A i \in Streams : Len(ivals[i]) \in Nat /\ Complete <= Len(ivals[i])
                               /\ Len(ivals[i]) <= Complete + 1
<1>1. Handled \in Nat /\ Complete \in Nat /\ Handled <= Complete /\ Complete <= Handled + 1
  BY ControlFacts DEF Lengths, Handled
<1>2. \A i \in Streams : Len(ivals[i]) \in Nat /\ Complete <= Len(ivals[i])
                         /\ Len(ivals[i]) <= Complete + 1
  BY <1>1, ControlFacts DEF Lengths
<1>3. ASSUME NEW i \in Streams, NEW k \in 1..Complete
      PROVE  k \in 1..Len(ivals[i]) /\ ivals[i][k] \in Interval
  <2>1. k \in 1..Len(ivals[i]) BY <1>1, <1>2
  <2>2. ivals[i] \in Seq(Interval) BY ControlFacts
  <2> QED BY <2>1, <2>2, ElementOfSeq
<1> QED BY <1>1, <1>2, <1>3

\* What the reporter prints of an interval it deals with.
LEMMA TellingIs ==
  ASSUME Loop, Data, Telling
  PROVE  \E kept \in BOOLEAN :
           IF kept
             THEN /\ printed' = Append(printed, [interval |-> Handled + 1, bytes |-> IntervalSum])
                  /\ IntervalSum \in Nat
                  /\ \A i \in Streams : IntervalLine(i) = ivals[i][Handled + 1].bytes
             ELSE /\ printed' = printed
                  /\ \A i \in Streams : /\ ivals[i][Handled + 1].short
                                        /\ ivals[i][Handled + 1].bytes = 0
<1>1. /\ ~Collecting /\ Handled + 1 = Complete /\ Complete = Len(ivals[1]) /\ PrintIntermediate
  BY DEF Telling
<1>2. PICK kept \in Keeps :
        printed' = IF kept THEN Append(printed, [interval |-> Len(ivals[1]), bytes |-> IntervalSum])
                           ELSE printed
  BY <1>1 DEF PrintIntermediate
<1>3. kept \in BOOLEAN BY <1>1, KeptIs
<1>4. CASE kept
  <2>1. printed' = Append(printed, [interval |-> Handled + 1, bytes |-> IntervalSum])
    BY <1>1, <1>2, <1>4
  <2>2. IntervalSum \in Nat /\ \A i \in Streams : Last(ivals[i]) = ivals[i][Handled + 1]
    BY <1>1, <1>4, KeptIs
  <2>3. \A i \in Streams : IntervalLine(i) = ivals[i][Handled + 1].bytes
    BY <2>2 DEF IntervalLine
  <2> QED BY <1>3, <1>4, <2>1, <2>2, <2>3
<1>5. CASE ~kept
  <2>1. \A i \in Streams : ~Counts(i) BY <1>1, <1>5, KeptIs
  <2>2. ASSUME NEW i \in Streams
        PROVE  ivals[i][Handled + 1].short /\ ivals[i][Handled + 1].bytes = 0
    <3>1. Handled + 1 \in 1..Complete /\ Len(ivals[i]) = Handled + 1
      BY <1>1, HandledIs, OutsideIs
    <3>2. ivals[i][Handled + 1] \in Interval BY <3>1, HandledIs
    <3>3. ivals[i] # <<>> BY <3>1, HandledIs
    <3>4. Last(ivals[i]) = ivals[i][Handled + 1] BY <3>1 DEF Last
    <3>5. ~(Last(ivals[i]).bytes > 0 \/ ~Last(ivals[i]).short) BY <2>1, <3>3 DEF Counts
    <3> QED BY <3>2, <3>4, <3>5 DEF Interval
  <2>3. printed' = printed BY <1>2, <1>5
  <2> QED BY <1>3, <1>5, <2>2, <2>3
<1> QED BY <1>3, <1>4, <1>5

\* Nothing has been collected or printed initially.
LEMMA ReportedInit == ASSUME Init, Loop, Data PROVE Reported
<1>1. printed = <<>> BY DEF Init
<1>2. Complete = 0
  <2>1. 1 \in Streams BY ControlFacts
  <2>2. pc = "select" /\ ivals[1] = <<>> BY <2>1 DEF Init
  <2> QED BY <2>2 DEF Complete
<1>3. Handled = 0 BY <1>2, HandledIs
<1> QED BY <1>1, <1>3 DEF Reported

\* The reporter's step, and every other, keeps what is printed in order and complete.
LEMMA ReportedStep ==
  ASSUME Loop, Data, Loop', Data', params' = params, Reported, Keeping \/ Telling
  PROVE  Reported'
<1>0. Streams' = Streams BY DEF Streams
<1>1. CASE Keeping
  <2>1. Handled' = Handled /\ printed' = printed BY <1>1 DEF Keeping
  <2>2. \A i \in Streams : \A k \in 1..Handled : ivals'[i][k] = ivals[i][k]
    <3> TAKE i \in Streams
    <3> TAKE k \in 1..Handled
    <3>1. k \in 1..Len(ivals[i]) BY HandledIs
    <3> QED BY <3>1, <1>1 DEF Keeping
  <2>3. \A k \in 1..Handled :
          \/ \E j \in DOMAIN printed : printed[j].interval = k
          \/ \A i \in Streams : ivals'[i][k].short /\ ivals'[i][k].bytes = 0
    BY <2>2 DEF Reported
  <2> QED BY <1>0, <2>1, <2>3 DEF Reported
<1>2. CASE Telling
  <2>1. ivals' = ivals /\ Handled' = Handled + 1 /\ Handled \in Nat BY <1>2, HandledIs DEF Telling
  <2>2. printed \in Seq(Line) /\ DOMAIN printed = 1..Len(printed) /\ Len(printed) \in Nat
    BY ControlFacts DEF DataTypes
  <2>3. PICK kept \in BOOLEAN :
          IF kept
            THEN /\ printed' = Append(printed, [interval |-> Handled + 1, bytes |-> IntervalSum])
                 /\ IntervalSum \in Nat
            ELSE /\ printed' = printed
                 /\ \A i \in Streams : /\ ivals[i][Handled + 1].short
                                       /\ ivals[i][Handled + 1].bytes = 0
    BY <1>2, TellingIs
  <2>4. CASE ~kept
    <3>1. printed' = printed BY <2>3, <2>4
    <3>2. \A j \in DOMAIN printed : printed[j].interval \in 1..Handled + 1
      BY <2>1 DEF Reported
    <3>3. ASSUME NEW k \in 1..Handled + 1
          PROVE  \/ \E j \in DOMAIN printed : printed[j].interval = k
                 \/ \A i \in Streams : ivals[i][k].short /\ ivals[i][k].bytes = 0
      <4>1. k \in 1..Handled \/ k = Handled + 1 BY <2>1
      <4> QED BY <4>1, <2>3, <2>4 DEF Reported
    <3> QED BY <1>0, <2>1, <3>1, <3>2, <3>3 DEF Reported
  <2>5. CASE kept
    <3> DEFINE line == [interval |-> Handled + 1, bytes |-> IntervalSum]
    <3>1. printed' = Append(printed, line) /\ line \in Line /\ line.interval = Handled + 1
      BY <2>1, <2>3, <2>5 DEF Line
    <3> HIDE DEF line
    <3>2. /\ DOMAIN printed' = 1..Len(printed) + 1 /\ printed'[Len(printed) + 1] = line
          /\ \A j \in 1..Len(printed) : printed'[j] = printed[j]
      BY <2>2, <3>1, AppendProperties
    <3>3. \A j \in DOMAIN printed : printed[j].interval \in 1..Handled BY DEF Reported
    <3>4. \A j, k \in DOMAIN printed' : j < k => printed'[j].interval < printed'[k].interval
      <4> SUFFICES ASSUME NEW j \in DOMAIN printed', NEW k \in DOMAIN printed', j < k
                   PROVE  printed'[j].interval < printed'[k].interval
        OBVIOUS
      <4>1. j \in 1..Len(printed) /\ printed'[j] = printed[j] BY <2>2, <3>2
      <4>2. CASE k \in 1..Len(printed) BY <4>1, <4>2, <2>2, <3>2 DEF Reported
      <4>3. CASE k = Len(printed) + 1
        <5>1. printed[j].interval \in 1..Handled BY <4>1, <2>2, <3>3
        <5> QED BY <5>1, <4>1, <4>3, <3>1, <3>2, <2>1
      <4> QED BY <4>2, <4>3, <2>2, <3>2
    <3>5. \A j \in DOMAIN printed' : printed'[j].interval \in 1..Handled + 1
      <4> TAKE j \in DOMAIN printed'
      <4>1. CASE j \in 1..Len(printed) BY <4>1, <2>1, <2>2, <3>2, <3>3
      <4>2. CASE j = Len(printed) + 1 BY <4>2, <2>1, <3>1, <3>2
      <4> QED BY <4>1, <4>2, <2>2, <3>2
    <3>6. ASSUME NEW k \in 1..Handled + 1
          PROVE  \/ \E j \in DOMAIN printed' : printed'[j].interval = k
                 \/ \A i \in Streams : ivals[i][k].short /\ ivals[i][k].bytes = 0
      <4>1. CASE k = Handled + 1
        <5>1. Len(printed) + 1 \in DOMAIN printed' BY <2>2, <3>2
        <5> QED BY <4>1, <5>1, <3>1, <3>2
      <4>2. CASE k \in 1..Handled
        <5>1. CASE \E j \in DOMAIN printed : printed[j].interval = k
          <6>1. PICK j \in DOMAIN printed : printed[j].interval = k BY <5>1
          <6>2. j \in DOMAIN printed' /\ printed'[j] = printed[j] BY <2>2, <3>2
          <6> QED BY <6>1, <6>2
        <5> QED BY <4>2, <5>1 DEF Reported
      <4> QED BY <4>1, <4>2, <2>1
    <3> QED BY <1>0, <2>1, <3>4, <3>5, <3>6 DEF Reported
  <2> QED BY <2>3, <2>4, <2>5
<1> QED BY <1>1, <1>2

\* Always.
LEMMA ReportedHolds == Spec => [](Loop /\ Data /\ Reported)
<1>1. Init => Loop /\ Data /\ Reported BY LoopInit, DataInit, ReportedInit
<1>2. Loop /\ Data /\ Reported /\ [Next]_vars => (Loop /\ Data /\ Reported)'
  <2> SUFFICES ASSUME Loop, Data, Reported, [Next]_vars PROVE (Loop /\ Data /\ Reported)'
    OBVIOUS
  <2>1. Loop' /\ Data' /\ (Keeping \/ Telling) BY LoopStep, DataStep
  <2>2. params' = params BY StepKeepsTest
  <2> QED BY <2>1, <2>2, ReportedStep
<1> QED BY <1>1, <1>2, PTL DEF Spec

\* The reporter finds each interval before the next one is collected, although only the last
\* one is kept: none is printed twice, and none is left out but an empty one of a fraction of
\* a tick.
THEOREM IntervalsAreReported == Spec => []EveryIntervalIsReported
<1>1. Loop /\ Data /\ Reported => EveryIntervalIsReported
  <2> SUFFICES ASSUME Loop, Data, Reported PROVE EveryIntervalIsReported OBVIOUS
  <2> DEFINE told == Len(ivals[1]) - (IF state = "reported" THEN 0 ELSE 1)
  <2>1. told <= Handled
    <3>1. 1 \in Streams BY ControlFacts
    <3>2. CASE state = "reported"
      <4>1. pc = "end" BY <3>2, ControlFacts DEF Turns
      <4>2. ~Unreported /\ ~Collecting BY <3>2, <4>1 DEF Unreported, Ahead, Collecting
      <4>3. Len(ivals[1]) = Handled BY <4>2, OutsideIs DEF Handled
      <4> QED BY <3>2, <4>3, HandledIs
    <3>3. CASE state # "reported"
      <4>1. CASE Collecting
        <5>1. ~Unreported BY <4>1 DEF Collecting, Unreported, Ahead
        <5>2. Handled = Complete BY <5>1 DEF Handled
        <5> QED BY <3>1, <3>3, <5>2, HandledIs
      <4>2. CASE ~Collecting BY <3>1, <3>3, <4>2, OutsideIs, HandledIs
      <4> QED BY <4>1, <4>2
    <3> QED BY <3>2, <3>3
  <2>2. told \in Int /\ Handled \in Nat
    <3>1. 1 \in Streams BY ControlFacts
    <3> QED BY <3>1, HandledIs
  <2>3. 1..told \subseteq 1..Handled
    <3> HIDE DEF told
    <3> QED BY <2>1, <2>2
  <2> QED BY <2>3 DEF Reported, EveryIntervalIsReported
<1> QED BY <1>1, ReportedHolds, PTL

-----------------------------------------------------------------------------
(* The bitrate limit of a server.                                          *)

\* The place in the ring of the traffic d intervals ago, when at is the place of the last.
Slot(at, d) == IF d <= at THEN at - d ELSE at - d + params.window

\* The last intervals of the first n.
Recent(n) == {k \in 1..n : k > n - params.window}

Ring ==
  /\ statsCount = Len(totals)
  /\ \A d \in 0..params.window - 1 :
       ring[Slot(ringIndex, d)] = IF d < statsCount THEN totals[statsCount - d] ELSE 0
  /\ Traffic(ring) = SumFunctionOnSet(totals, Recent(statsCount))
  /\ LimitIsAverage

\* Places of the ring.
LEMMA RingTypes ==
  ASSUME Loop, Data
  PROVE  /\ params.window \in Nat \ {0} /\ params.limit \in Nat /\ params.interval \in Nat
         /\ ring \in [0..params.window - 1 -> Nat] /\ ringIndex \in 0..params.window - 1
         /\ statsCount \in Nat /\ exceeded \in BOOLEAN /\ totals \in Seq(Nat) /\ total \in Nat
         /\ IsFiniteSet(0..params.window - 1)
<1>1. params.window \in Nat \ {0} /\ params.limit \in Nat /\ params.interval \in Nat
  BY ControlFacts, TestIs
<1>2. 0 \in Int /\ params.window - 1 \in Int BY <1>1
<1>3. IsFiniteSet(0..params.window - 1) BY <1>2, FS_Interval
<1> QED BY <1>1, <1>3, ControlFacts DEF DataTypes

\* The last intervals after one more: as before with the new one, less the oldest.
LEMMA RecentIs ==
  ASSUME NEW n \in Nat, params.window \in Nat \ {0}
  PROVE  /\ IsFiniteSet(Recent(n)) /\ Recent(n) \subseteq 1..n
         /\ n >= params.window => Recent(n) = n - params.window + 1..n
<1>1. IsFiniteSet(1..n) BY FS_Interval
<1>2. Recent(n) \subseteq 1..n BY DEF Recent
<1> QED BY <1>1, <1>2, FS_Subset DEF Recent

\* The ring is empty initially.
LEMMA RingInit == ASSUME Init, Loop, Data PROVE Ring
<1>1. totals = <<>> /\ statsCount = 0 /\ ringIndex = 0 /\ exceeded = FALSE
      /\ ring = [k \in 0..params.window - 1 |-> 0]
  BY DEF Init
<1>2. \A d \in 0..params.window - 1 : ring[Slot(ringIndex, d)] = 0
  BY <1>1, RingTypes DEF Slot
<1>3. Recent(0) = {} BY RecentIs, RingTypes
<1>4. Traffic(ring) = 0
  <2> DEFINE S == 0..params.window - 1
             g == [k \in S |-> 0]
  <2>1. Traffic(ring) = SumFunctionOnSet(g, S) BY <1>1 DEF Traffic, SumFunction
  <2>2. \A k \in S : g[k] \in Nat /\ g[k] \in Int /\ g[k] <= 0 OBVIOUS
  <2>3. IsFiniteSet(S) BY RingTypes
  <2> HIDE DEF g, S
  <2>4. SumFunctionOnSet(g, S) \in Nat BY <2>2, <2>3, SumNat
  <2>5. SumFunctionOnSet(g, S) <= 0 * Cardinality(S) BY <2>2, <2>3, SumAtMost
  <2>6. Cardinality(S) \in Nat BY <2>3, FS_CardinalityType
  <2> QED BY <2>1, <2>4, <2>5, <2>6
<1>5. LimitIsAverage
  <2>1. Len(totals) = 0 BY <1>1
  <2>2. params.window..Len(totals) = {} BY <2>1, RingTypes
  <2> QED BY <1>1, <2>2, Zenon DEF LimitIsAverage
<1>6. \A d \in 0..params.window - 1 : ~(d < statsCount) BY <1>1, RingTypes
<1>7. statsCount = Len(totals) BY <1>1
<1>8. Traffic(ring) = SumFunctionOnSet(totals, Recent(statsCount)) BY <1>1, <1>3, <1>4, SumEmpty
<1> QED BY <1>2, <1>5, <1>6, <1>7, <1>8 DEF Ring

\* Only iperf_check_total_rate writes the ring.
LEMMA RingStutters == ASSUME Ring, UNCHANGED <<params, limitVars>> PROVE Ring'
BY DEF Ring, limitVars, Slot, Recent, LimitIsAverage, Traffic

\* The average of the last intervals moves on by one.
LEMMA TotalRateKeepsRing ==
  ASSUME Loop, Data, Ring, CheckTotalRate, params' = params
  PROVE  Ring'
<1>1. CASE ~(params.role = "server" /\ ~done /\ params.limit # 0)
  BY <1>1, RingStutters DEF CheckTotalRate, limitVars
<1>2. CASE params.role = "server" /\ ~done /\ params.limit # 0
  <2> DEFINE k == IF ringIndex + 1 >= params.window THEN 0 ELSE ringIndex + 1
             w == params.window
             n == statsCount
             limit == params.limit * params.window * params.interval
             S == 0..w - 1
  <2>1. /\ ringIndex' = k /\ ring' = [ring EXCEPT ![k] = total] /\ statsCount' = n + 1
        /\ exceeded' = (exceeded \/ OverLimit(ring', statsCount'))
        /\ totals' = Append(totals, total)
    BY <1>2 DEF CheckTotalRate
  <2>2. /\ w \in Nat \ {0} /\ ring \in [S -> Nat] /\ ringIndex \in S
        /\ n \in Nat /\ total \in Nat /\ totals \in Seq(Nat) /\ IsFiniteSet(S) /\ limit \in Int
    BY RingTypes
  <2>3. k \in S /\ k = Slot(ringIndex, w - 1) BY <2>2 DEF Slot
  <2>4. ring[k] = IF w - 1 < n THEN totals[n - (w - 1)] ELSE 0
    <3>1. w - 1 \in 0..params.window - 1 BY <2>2
    <3>2. ring[Slot(ringIndex, w - 1)] = IF w - 1 < statsCount THEN totals[statsCount - (w - 1)] ELSE 0
      BY <3>1 DEF Ring
    <3> QED BY <3>2, <2>3
  <2>5. /\ n = Len(totals) /\ Len(totals') = n + 1 /\ totals' \in Seq(Nat)
        /\ totals'[n + 1] = total /\ \A j \in 1..n : totals'[j] = totals[j]
        /\ \A j \in 1..n : totals[j] \in Nat
    BY <2>1, <2>2 DEF Ring
  <2> HIDE DEF k
  <2>6. \A d \in 0..w - 1 :
          ring'[Slot(k, d)] = IF d < n + 1 THEN totals'[(n + 1) - d] ELSE 0
    <3> TAKE d \in 0..w - 1
    <3>1. CASE d = 0
      <4>1. Slot(k, d) = k BY <2>2, <2>3, <3>1 DEF Slot
      <4>2. ring'[k] = total BY <2>1, <2>2, <2>3
      <4> QED BY <4>1, <4>2, <3>1, <2>2, <2>5
    <3>2. CASE d # 0
      <4>1. d - 1 \in 0..w - 1 /\ Slot(k, d) = Slot(ringIndex, d - 1) /\ Slot(k, d) # k
            /\ Slot(k, d) \in S
        BY <2>2, <2>3, <3>2 DEF Slot, k
      <4>2. ring'[Slot(k, d)] = ring[Slot(ringIndex, d - 1)] BY <2>1, <2>2, <4>1
      <4>3. ring[Slot(ringIndex, d - 1)] = IF d - 1 < n THEN totals[n - (d - 1)] ELSE 0
        BY <4>1 DEF Ring
      <4>4. d - 1 < n => (n + 1) - d \in 1..n /\ n - (d - 1) = (n + 1) - d BY <2>2, <3>2, <4>1
      <4>5. d \in Int BY <2>2
      <4>6. CASE d - 1 < n
        <5>1. totals'[(n + 1) - d] = totals[(n + 1) - d] BY <4>4, <4>6, <2>5
        <5>2. d < n + 1 BY <4>5, <4>6, <2>2
        <5> QED BY <5>1, <5>2, <4>2, <4>3, <4>4, <4>6
      <4>7. CASE ~(d - 1 < n)
        <5>1. ~(d < n + 1) BY <4>5, <4>7, <2>2
        <5> QED BY <5>1, <4>2, <4>3, <4>7
      <4> QED BY <4>6, <4>7
    <3> QED BY <3>1, <3>2
  <2>7. Traffic(ring') = Traffic(ring) - ring[k] + total
    <3>1. DOMAIN ring = S /\ DOMAIN ring' = S /\ ring'[k] = total
          /\ \A x \in S : ring[x] \in Int /\ ring'[x] \in Int /\ (x # k => ring'[x] = ring[x])
      BY <2>1, <2>2, <2>3
    <3>2. IsFiniteSet(S) /\ k \in S BY <2>2, <2>3
    <3> HIDE DEF S
    <3>3. SumFunctionOnSet(ring', S) = SumFunctionOnSet(ring, S) - ring[k] + ring'[k]
      BY <3>1, <3>2, SumChange
    <3> QED BY <3>1, <3>3 DEF Traffic, SumFunction
  <2>8. \A T \in SUBSET (1..n) : SumFunctionOnSet(totals', T) = SumFunctionOnSet(totals, T)
    <3> TAKE T \in SUBSET (1..n)
    <3>1. IsFiniteSet(1..n) BY <2>2, FS_Interval
    <3>3. IsFiniteSet(T) BY <3>1, FS_Subset
    <3>2. \A j \in T : totals'[j] = totals[j] BY <2>5
    <3> QED BY <3>2, <3>3, SumSame
  <2>9. Traffic(ring') = SumFunctionOnSet(totals', Recent(n + 1))
    <3> DEFINE T == Recent(n)
               y == n - w + 1
               U == IF n >= w THEN T \ {y} ELSE T
    <3>1. IsFiniteSet(T) /\ T \subseteq 1..n /\ \A j \in T : totals[j] \in Int
      BY <2>2, <2>5, RecentIs
    <3>2. n >= w => y \in T BY <2>2 DEF Recent
    <3>3. Recent(n + 1) = U \cup {n + 1}
      <4>1. n \in Nat /\ w \in Nat \ {0} /\ Recent(n + 1) = {j \in 1..n + 1 : j > n + 1 - w}
            /\ T = {j \in 1..n : j > n - w}
        BY <2>2 DEF Recent
      <4> HIDE DEF T, w
      <4>2. ASSUME NEW j PROVE j \in U <=> j \in 1..n /\ j > n + 1 - w
        <5>1. CASE n >= w BY <4>1, <5>1
        <5>2. CASE ~(n >= w) BY <4>1, <5>2
        <5> QED BY <5>1, <5>2
      <4> HIDE DEF U
      <4>3. ASSUME NEW j PROVE j \in Recent(n + 1) <=> j \in U \/ j = n + 1 BY <4>1, <4>2
      <4> QED BY <4>3
    <3>4. Traffic(ring) = SumFunctionOnSet(totals, T) BY DEF Ring
    <3>5. ring[k] = IF n >= w THEN totals[y] ELSE 0 BY <2>2, <2>4
    <3>6. U \subseteq T /\ n + 1 \notin T BY <3>1, <2>2
    <3>7. y \in Int BY <2>2
    <3> HIDE DEF T, y
    <3>8. SumFunctionOnSet(totals, U) = Traffic(ring) - ring[k]
          /\ SumFunctionOnSet(totals, U) \in Int
      <4>1. IsFiniteSet(U) /\ \A j \in U : totals[j] \in Int BY <3>1, <3>6, FS_Subset
      <4>2. SumFunctionOnSet(totals, U) \in Int BY <4>1, SumInt
      <4>3. CASE n >= w
        <5>1. SumFunctionOnSet(totals, T) = totals[y] + SumFunctionOnSet(totals, T \ {y})
          BY <3>1, <3>2, <4>3, SumStep
        <5>2. totals[y] \in Int BY <3>1, <3>2, <4>3
        <5>3. SumFunctionOnSet(totals, T \ {y}) = SumFunctionOnSet(totals, U) BY <4>3
        <5>4. ring[k] = totals[y] BY <3>5, <4>3
        <5> HIDE DEF U
        <5> QED BY <5>1, <5>2, <5>3, <5>4, <4>2, <3>4
      <4>4. CASE ~(n >= w)
        <5>1. U = T /\ ring[k] = 0 BY <3>5, <4>4
        <5> HIDE DEF U
        <5> QED BY <5>1, <4>2, <3>4
      <4> QED BY <4>2, <4>3, <4>4
    <3>9. U \subseteq 1..n /\ IsFiniteSet(U) /\ n + 1 \notin U BY <3>1, <3>6, FS_Subset
    <3> HIDE DEF U
    <3>10. \A j \in U : totals'[j] \in Int BY <3>9, <2>5
    <3>11. totals'[n + 1] \in Int /\ totals'[n + 1] = total BY <2>2, <2>5
    <3>12. SumFunctionOnSet(totals', U \cup {n + 1}) = SumFunctionOnSet(totals', U) + totals'[n + 1]
      BY <3>9, <3>10, <3>11, SumMore
    <3>13. SumFunctionOnSet(totals', U) = SumFunctionOnSet(totals, U) BY <3>9, <2>8
    <3> QED BY <3>3, <3>8, <3>11, <3>12, <3>13, <2>7
  <2>10. LimitIsAverage'
    <3> DEFINE Over(list, j) == SumFunctionOnSet(list, j - w + 1..j) > limit
    <3>1. exceeded = \E j \in w..n : Over(totals, j) BY <2>5 DEF Ring, LimitIsAverage
    <3>2. \A j \in w..n : Over(totals', j) = Over(totals, j)
      <4> TAKE j \in w..n
      <4>1. (j - w + 1..j) \subseteq 1..n BY <2>2
      <4> QED BY <4>1, <2>8
    <3>3. n + 1 >= w => Recent(n + 1) = (n + 1) - w + 1..n + 1
      <4>1. n + 1 \in Nat BY <2>2
      <4>2. params.window \in Nat \ {0} BY <2>2
      <4> HIDE DEF n
      <4> DEFINE m == n + 1
      <4>3. m \in Nat BY <4>1
      <4> HIDE DEF m
      <4>4. m >= params.window => Recent(m) = m - params.window + 1..m BY <4>2, <4>3, RecentIs
      <4> QED BY <4>4 DEF m
    <3>4. OverLimit(ring', statsCount') <=> n + 1 >= w /\ Over(totals', n + 1)
      <4>1. OverLimit(ring', statsCount') <=> n + 1 >= w /\ Traffic(ring') > limit
        BY <2>1 DEF OverLimit
      <4> HIDE DEF limit
      <4> HIDE DEF n, w
      <4>2. CASE n + 1 >= w
        <5>1. Traffic(ring') = SumFunctionOnSet(totals', (n + 1) - w + 1..n + 1) BY <4>2, <2>9, <3>3
        <5> QED BY <4>1, <4>2, <5>1
      <4>3. CASE ~(n + 1 >= w) BY <4>1, <4>3
      <4> QED BY <4>2, <4>3
    <3> HIDE DEF Over
    <3>5. w..n + 1 = IF n + 1 >= w THEN (w..n) \cup {n + 1} ELSE {}
      <4>1. CASE n + 1 >= w
        <5>1. \A j : j \in w..n + 1 <=> j \in w..n \/ j = n + 1 BY <4>1, <2>2
        <5> QED BY <4>1, <5>1
      <4>2. CASE ~(n + 1 >= w) BY <4>2, <2>2
      <4> QED BY <4>1, <4>2
    <3>6. w..n = {} \/ n + 1 >= w BY <2>2
    <3>7. exceeded' = \E j \in w..n + 1 : Over(totals', j)
      BY <2>1, <2>2, <3>1, <3>2, <3>4, <3>5, <3>6
    <3>8. exceeded' = \E j \in w..Len(totals') : Over(totals', j) BY <3>7, <2>5
    <3> QED BY <3>8 DEF LimitIsAverage, Over
  <2>11. \A d \in 0..params'.window - 1 :
           ring'[Slot(ringIndex, d)'] = IF d < statsCount' THEN totals'[statsCount' - d] ELSE 0
    <3>1. params' = params /\ ringIndex' = k /\ statsCount' = n + 1 BY <2>1 DEF k
    <3>2. ASSUME NEW d \in 0..w - 1 PROVE Slot(ringIndex, d)' = Slot(k, d)
      BY <3>1 DEF Slot
    <3>3. \A d \in 0..w - 1 :
            ring'[Slot(ringIndex, d)'] = IF d < statsCount' THEN totals'[statsCount' - d] ELSE 0
      <4> TAKE d \in 0..w - 1
      <4>1. Slot(ringIndex, d)' = Slot(k, d) BY <3>2
      <4>2. ring'[Slot(k, d)] = IF d < n + 1 THEN totals'[(n + 1) - d] ELSE 0 BY <2>6
      <4> HIDE DEF n, w
      <4> QED BY <4>1, <4>2, <3>1
    <3>4. params'.window = w BY <3>1
    <3> HIDE DEF w
    <3> QED BY <3>3, <3>4
  <2>12. Recent(statsCount)' = Recent(n + 1) BY <2>1 DEF Recent
  <2>13. Traffic(ring)' = Traffic(ring') BY DEF Traffic
  <2> QED BY <2>1, <2>5, <2>9, <2>10, <2>11, <2>12, <2>13 DEF Ring
<1> QED BY <1>1, <1>2

\* Every other step leaves it alone.
LEMMA LimitLeft ==
  ASSUME [Next]_vars
  PROVE  UNCHANGED limitVars \/ (StatsZeroes /\ CheckTotalRate)
<1>1. ASSUME NEW i \in Streams, Thread(i) PROVE UNCHANGED limitVars
  BY <1>1, ThreadsLeaveLoop DEF loopVars
<1>2. CASE StatsZeroes BY <1>2 DEF StatsZeroes
<1>3. CASE ~StatsZeroes
  BY <1>1, <1>3 DEF Next, vars, Tick, ControlLoop, SelectReturns, RunEnds, TestTimer, OmitTimer,
     StatsTimer, ReportTimer, StatsReads, StatsTotals, Check, FinalReport, ServerReadsTestEnd
<1> QED BY <1>2, <1>3

\* A server refuses a test exactly when the average of some window of successive intervals is
\* over its limit: the ring always holds the last of them, from whatever place it starts.
THEOREM LimitIsAverageAlways == Spec => []LimitIsAverage
<1>1. Init => Loop /\ Data /\ Ring BY LoopInit, DataInit, RingInit
<1>2. Loop /\ Data /\ Ring /\ [Next]_vars => (Loop /\ Data /\ Ring)'
  <2> SUFFICES ASSUME Loop, Data, Ring, [Next]_vars PROVE (Loop /\ Data /\ Ring)'
    OBVIOUS
  <2>1. Loop' /\ Data' BY LoopStep, DataStep
  <2>2. params' = params BY StepKeepsTest
  <2>3. Ring' BY <2>2, LimitLeft, RingStutters, TotalRateKeepsRing
  <2> QED BY <2>1, <2>3
<1>3. Loop /\ Data /\ Ring => LimitIsAverage BY DEF Ring
<1> QED BY <1>1, <1>2, <1>3, PTL DEF Spec

-----------------------------------------------------------------------------
(* What a step does to the threads and their counters.                     *)

SameCounts(t, u) == u.bytes = t.bytes /\ u.interval = t.interval

\* A thread's step, from the state t to the state u.
Moved(t, u) ==
  /\ u \in ThreadState /\ u.omitted = t.omitted
  /\ \/ /\ t.pc = "idle" /\ params.sends /\ ~done                    \* StartsCall
        /\ u.pc = "send" /\ u.left = SendsPerCall /\ ~u.sent /\ u.green = t.green
        /\ SameCounts(t, u) /\ blocks' = blocks
     \/ /\ IF params.sends THEN t.pc = "send" /\ ~SendEnds(t) ELSE t.pc = "idle"  \* Sends, Receives
        /\ u.pc = "counting" /\ u.left = t.left /\ u.sent = t.sent /\ u.green = t.green
        /\ u.bytes = t.bytes + 1 /\ u.interval = t.interval /\ blocks' = blocks
     \/ /\ t.pc = "counting"                                         \* CountsInterval
        /\ u.pc = "counted" /\ u.left = t.left /\ u.sent = t.sent /\ u.green = t.green
        /\ u.bytes = t.bytes /\ u.interval = t.interval + 1 /\ blocks' = blocks
     \/ /\ t.pc = "counted" /\ SameCounts(t, u) /\ blocks' = blocks + 1  \* CountsTest
        /\ IF params.sends THEN /\ u.pc = IF PerMessage THEN "throttle" ELSE "send"
                                /\ u.left = t.left - 1 /\ u.sent /\ u.green = t.green
                           ELSE u.pc = "idle"
     \/ /\ t.pc = "send" /\ params.sends /\ SendEnds(t)              \* CallEnds
        /\ u.pc = IF params.rate # 0 /\ (params.burst # 0 \/ ~t.sent) THEN "throttle" ELSE "idle"
        /\ u.left = t.left /\ u.sent = t.sent /\ u.green = t.green
        /\ SameCounts(t, u) /\ blocks' = blocks
     \/ /\ t.pc = "throttle" /\ u.left = t.left /\ u.sent = t.sent   \* Throttles
        /\ SameCounts(t, u) /\ blocks' = blocks
        /\ \/ u.pc = AfterThrottle(t)
              /\ \/ done
                 \/ t.bytes <= params.rate * now /\ (u.green <=> t.bytes < params.rate * now)
           \/ ~done /\ u.pc = "sleep"
              /\ u.until = (t.bytes + params.rate - 1) \div params.rate
     \/ /\ t.pc = "sleep" /\ u.left = t.left /\ u.sent = t.sent      \* Wakes
        /\ SameCounts(t, u) /\ blocks' = blocks
        /\ u.pc = AfterThrottle(t) /\ (u.green => now >= t.until)

\* Every step of a thread is one of those listed.
LEMMA ThreadMoves ==
  ASSUME Loop, Data, NEW i \in Streams, Thread(i)
  PROVE  /\ Moved(str[i], str'[i]) /\ ThreadOK(str[i]) /\ str[i] \in ThreadState
         /\ \A j \in Streams : j # i => str'[j] = str[j]
         /\ UNCHANGED <<params, now, pc, stream, temp, total, ivals, state, done, omitting, printed,
                        summary>>
         /\ blocks' \in {blocks, blocks + 1}
<1> DEFINE t == str[i]
<1>0. UNCHANGED <<params, now, pc, stream, temp, total, ivals, state, done, omitting, printed, summary>>
  BY ThreadsLeaveLoop DEF loopVars, statsVars, testVars, reportVars
<1>1. t \in ThreadState /\ ThreadOK(t) /\ str \in [Streams -> ThreadState] /\ blocks \in Nat
  BY ControlFacts DEF DataTypes
<1>2. str' \in [Streams -> ThreadState] BY <1>0, ThreadKeepsData DEF Data, DataTypes, Streams
<1>3. SUFFICES Moved(t, str'[i]) /\ (\A j \in Streams : j # i => str'[j] = str[j])
               /\ blocks' \in {blocks, blocks + 1}
  BY <1>0, <1>1
<1>4. ASSUME NEW u, str' = [str EXCEPT ![i] = u]
      PROVE  str'[i] = u /\ u \in ThreadState /\ \A j \in Streams : j # i => str'[j] = str[j]
  BY <1>1, <1>2, <1>4
<1>5. CASE StartsCall(i)
  <2> DEFINE u == [t EXCEPT !.pc = "send", !.left = SendsPerCall, !.sent = FALSE]
  <2>1. str' = [str EXCEPT ![i] = u] BY <1>5 DEF StartsCall
  <2>2. t.pc = "idle" /\ params.sends /\ ~done /\ blocks' = blocks BY <1>5 DEF StartsCall, ThreadAt
  <2>3. /\ u.pc = "send" /\ u.left = SendsPerCall /\ ~u.sent /\ u.green = t.green
        /\ SameCounts(t, u) /\ u.omitted = t.omitted
    BY <1>1 DEF ThreadState, SameCounts
  <2> HIDE DEF u
  <2> QED BY <1>4, <2>1, <2>2, <2>3 DEF Moved
<1>6. CASE Sends(i) \/ Receives(i)
  <2> DEFINE u == [t EXCEPT !.pc = "counting", !.bytes = @ + 1]
  <2>1. str' = [str EXCEPT ![i] = u] BY <1>6 DEF Sends, Receives
  <2>2. /\ IF params.sends THEN t.pc = "send" /\ ~SendEnds(t) ELSE t.pc = "idle"
        /\ blocks' = blocks
    BY <1>6 DEF Sends, Receives, ThreadAt
  <2>3. /\ u.pc = "counting" /\ u.left = t.left /\ u.sent = t.sent /\ u.green = t.green
        /\ u.bytes = t.bytes + 1 /\ u.interval = t.interval /\ u.omitted = t.omitted
    BY <1>1 DEF ThreadState
  <2> HIDE DEF u
  <2> QED BY <1>4, <2>1, <2>2, <2>3 DEF Moved
<1>7. CASE CountsInterval(i)
  <2> DEFINE u == [t EXCEPT !.pc = "counted", !.interval = @ + 1]
  <2>1. str' = [str EXCEPT ![i] = u] BY <1>7 DEF CountsInterval
  <2>2. t.pc = "counting" /\ blocks' = blocks BY <1>7 DEF CountsInterval, ThreadAt
  <2>3. /\ u.pc = "counted" /\ u.left = t.left /\ u.sent = t.sent /\ u.green = t.green
        /\ u.bytes = t.bytes /\ u.interval = t.interval + 1 /\ u.omitted = t.omitted
    BY <1>1 DEF ThreadState
  <2> HIDE DEF u
  <2> QED BY <1>4, <2>1, <2>2, <2>3 DEF Moved
<1>8. CASE CountsTest(i)
  <2> DEFINE to == IF PerMessage THEN "throttle" ELSE "send"
             v == [t EXCEPT !.pc = to, !.left = @ - 1, !.sent = TRUE]
             w == [t EXCEPT !.pc = "idle"]
             u == IF params.sends THEN v ELSE w
  <2>1. str' = [str EXCEPT ![i] = u] BY <1>8 DEF CountsTest
  <2>2. t.pc = "counted" /\ blocks' = blocks + 1 BY <1>8 DEF CountsTest, ThreadAt
  <2>3. /\ v.pc = to /\ v.left = t.left - 1 /\ v.sent /\ v.green = t.green
        /\ SameCounts(t, v) /\ v.omitted = t.omitted
        /\ w.pc = "idle" /\ SameCounts(t, w) /\ w.omitted = t.omitted
    BY <1>1 DEF ThreadState, SameCounts
  <2> HIDE DEF v, w
  <2>4. str'[i] = u /\ u \in ThreadState /\ \A j \in Streams : j # i => str'[j] = str[j]
    BY <1>4, <2>1
  <2>5. CASE params.sends
    <3>1. str'[i] = v BY <2>4, <2>5
    <3> QED BY <2>2, <2>3, <2>4, <2>5, <3>1 DEF Moved
  <2>6. CASE ~params.sends
    <3>1. str'[i] = w BY <2>4, <2>6
    <3> QED BY <2>2, <2>3, <2>4, <2>6, <3>1 DEF Moved
  <2> QED BY <2>5, <2>6
<1>9. CASE CallEnds(i)
  <2> DEFINE to == IF params.rate # 0 /\ (params.burst # 0 \/ ~t.sent) THEN "throttle" ELSE "idle"
             u == [t EXCEPT !.pc = to]
  <2>1. str' = [str EXCEPT ![i] = u] BY <1>9 DEF CallEnds
  <2>2. t.pc = "send" /\ params.sends /\ SendEnds(t) /\ blocks' = blocks
    BY <1>9 DEF CallEnds, ThreadAt
  <2>3. /\ u.pc = to /\ u.left = t.left /\ u.sent = t.sent /\ u.green = t.green
        /\ SameCounts(t, u) /\ u.omitted = t.omitted
    BY <1>1 DEF ThreadState, SameCounts
  <2> HIDE DEF u
  <2> QED BY <1>4, <2>1, <2>2, <2>3 DEF Moved
<1>10. CASE Throttles(i)
  <2> DEFINE x == AfterThrottle(t)  y == t.bytes < params.rate * now
             z == (t.bytes + params.rate - 1) \div params.rate
             a == [t EXCEPT !.pc = x]
             b == [t EXCEPT !.pc = x, !.green = y]
             c == [t EXCEPT !.pc = "sleep", !.green = FALSE, !.until = z]
             u == IF done THEN a ELSE IF t.bytes <= params.rate * now THEN b ELSE c
  <2>1. str' = [str EXCEPT ![i] = u] BY <1>10 DEF Throttles
  <2>2. t.pc = "throttle" /\ blocks' = blocks BY <1>10 DEF Throttles, ThreadAt
  <2> HIDE DEF x, y, z
  <2>3. /\ a.pc = x /\ a.left = t.left /\ a.sent = t.sent /\ SameCounts(t, a) /\ a.omitted = t.omitted
        /\ b.pc = x /\ b.left = t.left /\ b.sent = t.sent /\ SameCounts(t, b) /\ b.omitted = t.omitted
        /\ b.green = y
        /\ c.pc = "sleep" /\ c.left = t.left /\ c.sent = t.sent /\ SameCounts(t, c)
        /\ c.omitted = t.omitted /\ c.until = z
    BY <1>1 DEF ThreadState, SameCounts
  <2> HIDE DEF a, b, c
  <2>4. str'[i] = u /\ u \in ThreadState /\ \A j \in Streams : j # i => str'[j] = str[j]
    BY <1>4, <2>1
  <2>5. CASE done
    <3>1. str'[i] = a BY <2>4, <2>5
    <3> QED BY <2>2, <2>3, <2>4, <2>5, <3>1 DEF Moved, x
  <2>6. CASE ~done /\ t.bytes <= params.rate * now
    <3>1. str'[i] = b BY <2>4, <2>6
    <3> QED BY <2>2, <2>3, <2>4, <2>6, <3>1 DEF Moved, x, y
  <2>7. CASE ~done /\ ~(t.bytes <= params.rate * now)
    <3>1. str'[i] = c BY <2>4, <2>7
    <3> QED BY <2>2, <2>3, <2>4, <2>7, <3>1 DEF Moved, z
  <2> QED BY <2>5, <2>6, <2>7
<1>11. CASE Wakes(i)
  <2>1. PICK green \in {now >= t.until, FALSE} :
          str' = [str EXCEPT ![i].pc = AfterThrottle(str[i]), ![i].green = green]
    BY <1>11 DEF Wakes
  <2> DEFINE x == AfterThrottle(t)
             u == [t EXCEPT !.pc = x, !.green = green]
  <2>2. str' = [str EXCEPT ![i] = u] /\ t.pc = "sleep" /\ blocks' = blocks
    BY <2>1, <1>11 DEF Wakes, ThreadAt
  <2> HIDE DEF x
  <2>3. /\ u.pc = x /\ u.left = t.left /\ u.sent = t.sent /\ u.green = green
        /\ SameCounts(t, u) /\ u.omitted = t.omitted
    BY <1>1 DEF ThreadState, SameCounts
  <2>4. green => now >= t.until BY <2>1
  <2> HIDE DEF u
  <2> QED BY <1>4, <2>2, <2>3, <2>4 DEF Moved, x
<1> QED BY <1>5, <1>6, <1>7, <1>8, <1>9, <1>10, <1>11 DEF Thread

\* A step of the control loop leaves the threads alone, or it is the end of the omitted part,
\* clears the counter of an interval, or stops the sending threads.
Left == UNCHANGED <<str, blocks>>
Restarted ==
  /\ OmitTimer /\ pc = "run" /\ pc' = "run" /\ omitting' = FALSE
  /\ str' = [i \in Streams |-> ResetStats(str[i])]
  /\ blocks' = IF params.sends THEN 0 ELSE blocks
  /\ UNCHANGED <<params, now, stream, temp, total, ivals, state, done, printed, summary>>
Cleared ==
  /\ StatsZeroes /\ pc = "zero" /\ str' = [str EXCEPT ![stream].interval = 0]
  /\ UNCHANGED <<params, now, temp, total, ivals, blocks, done, omitting, printed, summary>>
Stopped ==
  /\ Check /\ pc = "check" /\ pc' = "temp" /\ EndReached
  /\ str' = [i \in Streams |-> IF params.sends THEN [str[i] EXCEPT !.pc = "off"] ELSE str[i]]
  /\ UNCHANGED <<params, now, temp, ivals, blocks, state, omitting, printed, summary>>

\* The other steps leave the threads alone, start them again or clear a counter.
LEMMA ThreadsLeft ==
  ASSUME Loop, Data, [Next]_vars
  PROVE  Left \/ Restarted \/ Cleared \/ Stopped \/ \E i \in Streams : Thread(i)
<1>1. CASE OmitTimer
  <2>1. Fires("omit") BY <1>1 DEF OmitTimer
  <2>2. pc = "run" BY <2>1 DEF Fires
  <2> QED BY <1>1, <2>2 DEF OmitTimer, Restarted, reportVars
<1>2. CASE StatsZeroes BY <1>2 DEF StatsZeroes, Cleared, reportVars
<1>3. CASE Check
  BY <1>3 DEF Check, LastStats, Stopped, Left, statsVars, reportVars
<1>4. CASE ServerReadsTestEnd BY <1>4 DEF ServerReadsTestEnd, LastStats, Left
<1>5. CASE ~(OmitTimer \/ StatsZeroes \/ Check \/ ServerReadsTestEnd)
  BY <1>5 DEF Next, vars, Tick, ControlLoop, SelectReturns, RunEnds, TestTimer, StatsTimer,
     ReportTimer, StatsReads, StatsTotals, FinalReport, threadVars, Left
<1> QED BY <1>1, <1>2, <1>3, <1>4, <1>5

\* The threads after the omitted part: their counters start again.
LEMMA RestartIs ==
  ASSUME Loop, Data, Restarted, NEW i \in Streams
  PROVE  /\ str'[i] \in ThreadState /\ str'[i].pc = str[i].pc /\ str'[i].left = str[i].left
         /\ str'[i].interval = 0 /\ str'[i].bytes \in Nat /\ (params.sends => str'[i].omitted = str'[i].bytes)
         /\ str'[i].bytes - str'[i].omitted = 0
         /\ params.sends => str'[i] = [str[i] EXCEPT !.omitted = str[i].bytes, !.interval = 0]
<1>1. str'[i] = ResetStats(str[i]) BY DEF Restarted
<1>2. str[i] \in ThreadState /\ ThreadOK(str[i]) BY ControlFacts
<1>3. str[i].bytes \in Nat /\ str[i].omitted \in Nat BY <1>2 DEF ThreadState
<1>4. params.sends => ResetStats(str[i]) = [str[i] EXCEPT !.omitted = str[i].bytes, !.interval = 0]
  BY DEF ResetStats
<1> DEFINE u == ResetStats(str[i])
<1>5. /\ u \in ThreadState /\ u.pc = str[i].pc /\ u.left = str[i].left /\ u.interval = 0
      /\ IF params.sends THEN u.bytes = str[i].bytes /\ u.omitted = str[i].bytes
                         ELSE u.bytes = 0 /\ u.omitted = 0
  BY <1>2, ResetIs
<1> QED BY <1>1, <1>3, <1>4, <1>5

\* The threads after a round of the callback: one interval counter starts again.
LEMMA ClearIs ==
  ASSUME Loop, Data, Cleared
  PROVE  /\ stream \in Streams
         /\ \A i \in Streams : i # stream => str'[i] = str[i]
         /\ str'[stream] = [str[stream] EXCEPT !.interval = 0]
         /\ \A i \in Streams : /\ str'[i].bytes = str[i].bytes /\ str'[i].omitted = str[i].omitted
                               /\ str'[i].pc = str[i].pc /\ str'[i].left = str[i].left
         /\ str'[stream].interval = 0
<1>1. stream \in Streams /\ str \in [Streams -> ThreadState] BY ControlFacts DEF DataTypes
<1>2. str' = [str EXCEPT ![stream].interval = 0] BY DEF Cleared
<1>3. /\ \A i \in Streams : i # stream => str'[i] = str[i]
      /\ str'[stream] = [str[stream] EXCEPT !.interval = 0]
  BY <1>1, <1>2
<1> DEFINE t == str[stream]  u == [t EXCEPT !.interval = 0]
<1>4. t \in ThreadState BY <1>1
<1>5. u.bytes = t.bytes /\ u.omitted = t.omitted /\ u.pc = t.pc /\ u.left = t.left /\ u.interval = 0
  BY <1>4 DEF ThreadState
<1> QED BY <1>1, <1>3, <1>5

-----------------------------------------------------------------------------
(* The limits of a sender: its rate.                                       *)

\* The blocks of one call, or one.
Burst == IF params.burst >= 1 THEN params.burst ELSE 1

\* After the single send of a call the throttle has been asked, and the call is about to end.
Single(t) == params.burst = 0 /\ t.sent

PacedThread(t, due) ==
  /\ t.bytes <= due + Burst
  /\ t.left <= Burst
  /\ t.pc = "idle" => done \/ (t.green => t.bytes <= due)
  /\ t.pc = "send" => /\ t.green => t.bytes + t.left <= due + Burst
                      /\ Single(t) => t.left = 0 /\ (done \/ (t.green => t.bytes <= due))
  /\ t.pc \in {"counting", "counted"} => t.bytes + t.left <= due + Burst + 1
  /\ t.pc \in {"throttle", "sleep"} /\ Single(t) => t.left = 0
  /\ t.pc = "sleep" => t.bytes <= params.rate * t.until

Paced == params.sends /\ params.rate # 0 => \A i \in Streams : PacedThread(str[i], params.rate * now)

\* Arithmetic of the rate.
LEMMA TimesGrows ==
  ASSUME NEW r \in Nat, NEW a \in Nat, NEW b \in Nat, a <= b
  PROVE  r * a <= r * b /\ r * a \in Nat
OBVIOUS

\* A thread that sleeps until its blocks are due, in whole ticks, sleeps long enough.
LEMMA RoundedUp ==
  ASSUME NEW r \in Nat \ {0}, NEW b \in Nat
  PROVE  b <= r * ((b + r - 1) \div r)
<1> DEFINE n == b + (r - 1)
<1>1. n \in Nat BY SMT
<1> HIDE DEF n
<1>2. n = r * (n \div r) + (n % r) /\ n % r \in 0..r - 1 BY <1>1, SMT
<1>3. n \div r \in Nat BY <1>1, SMT
<1>4. r * (n \div r) \in Nat BY <1>3, SMT
<1> DEFINE m == r * (n \div r)
<1>5. m \in Nat /\ n = m + (n % r) BY <1>2, <1>4
<1> HIDE DEF m
<1>6. b <= m BY <1>2, <1>5, SMT DEF n
<1>7. b + r - 1 = n BY SMT DEF n
<1> QED BY <1>6, <1>7 DEF m

\* Types of the rate.
LEMMA PaceTypes ==
  ASSUME Loop, Data
  PROVE  /\ params.rate \in Nat /\ params.burst \in Nat /\ Burst \in Nat /\ now \in Nat
         /\ params.rate * now \in Nat
<1>1. params.rate \in Nat /\ params.burst \in Nat /\ now \in Nat
  BY ControlFacts, TestIs DEF ControlTypes
<1>2. params.rate * now \in Nat BY <1>1, TimesGrows
<1> QED BY <1>1, <1>2 DEF Burst

\* No stream has sent initially.
LEMMA PacedInit == ASSUME Init, Loop, Data PROVE Paced
<1>1. SUFFICES ASSUME NEW i \in Streams PROVE PacedThread(str[i], params.rate * now)
  BY DEF Paced
<1>2. str[i] = NewStream BY DEF Init
<1> DEFINE due == params.rate * now
<1>3. due \in Nat /\ Burst \in Nat BY PaceTypes
<1> HIDE DEF due
<1>4. PacedThread(NewStream, due) BY <1>3 DEF PacedThread, NewStream
<1> QED BY <1>2, <1>4 DEF due

\* A step of a thread.
LEMMA PacedMoves ==
  ASSUME Loop, Data, params.sends, params.rate # 0, NEW t \in ThreadState, NEW u, ThreadOK(t),
         PacedThread(t, params.rate * now), Moved(t, u)
  PROVE  PacedThread(u, params.rate * now)
<1> DEFINE due == params.rate * now
<1>1. /\ params.rate \in Nat \ {0} /\ params.burst \in Nat /\ Burst \in Nat /\ now \in Nat /\ due \in Nat
  BY PaceTypes
<1>2. /\ t.pc \in {"idle", "send", "counting", "counted", "throttle", "sleep", "off"}
      /\ t.left \in Nat /\ t.sent \in BOOLEAN /\ t.green \in BOOLEAN /\ t.until \in Nat
      /\ t.bytes \in Nat
      /\ u.left \in Nat /\ u.sent \in BOOLEAN /\ u.green \in BOOLEAN /\ u.until \in Nat
      /\ u.bytes \in Nat
  BY DEF ThreadState, Moved
<1>3. SendsPerCall = Burst BY <1>1 DEF SendsPerCall, Burst
<1>4. PerMessage <=> params.burst = 0 BY DEF PerMessage
<1>5. params.burst = 0 => Burst = 1 BY DEF Burst
<1>6. t.bytes <= params.rate * ((t.bytes + params.rate - 1) \div params.rate)
  BY <1>1, <1>2, RoundedUp
<1>7. now >= t.until => params.rate * t.until <= due BY <1>1, <1>2, TimesGrows
<1>8. t.pc = "sleep" => t.bytes <= params.rate * t.until BY DEF PacedThread
<1>9. now >= t.until /\ t.pc = "sleep" => t.bytes <= due
  <2>1. params.rate * t.until \in Nat BY <1>1, <1>2, TimesGrows
  <2> HIDE DEF due
  <2> QED BY <2>1, <1>1, <1>2, <1>7, <1>8
<1>10. AfterThrottle(t) = IF Single(t) THEN "send" ELSE "idle" BY DEF AfterThrottle, Single
<1> DEFINE wait == (t.bytes + params.rate - 1) \div params.rate
<1>11. t.pc \in {"counting", "counted"} => t.left > 0 BY DEF ThreadOK
<1>12. PacedThread(t, due) OBVIOUS
<1>13. t.bytes <= params.rate * wait BY <1>6
<1>14. t.bytes < params.rate * now <=> t.bytes < due OBVIOUS
<1>15. t.bytes <= params.rate * now <=> t.bytes <= due OBVIOUS
<1> SUFFICES PacedThread(u, due) OBVIOUS
<1> HIDE DEF due, wait
<1>16. CASE t.pc = "idle" BY <1>16, <1>1, <1>2, <1>3, <1>12 DEF Moved, SameCounts, PacedThread, Single
<1>17. CASE t.pc = "send" /\ ~SendEnds(t)
  <2>1. t.green /\ t.left # 0 BY <1>17, <1>2 DEF SendEnds
  <2>2. u.pc = "counting" /\ u.left = t.left /\ u.bytes = t.bytes + 1 BY <1>17 DEF Moved
  <2> QED BY <2>1, <2>2, <1>17, <1>1, <1>2, <1>12 DEF PacedThread
<1>18. CASE t.pc = "send" /\ SendEnds(t)
  <2>1. /\ u.pc = IF params.burst # 0 \/ ~t.sent THEN "throttle" ELSE "idle"
        /\ u.left = t.left /\ u.sent = t.sent /\ u.green = t.green /\ u.bytes = t.bytes
    BY <1>18 DEF Moved, SameCounts
  <2> QED BY <2>1, <1>18, <1>1, <1>2, <1>12 DEF PacedThread, Single
<1>19. CASE t.pc = "counting"
  <2>1. u.pc = "counted" /\ u.left = t.left /\ u.bytes = t.bytes BY <1>19 DEF Moved
  <2> QED BY <2>1, <1>19, <1>1, <1>2, <1>12 DEF PacedThread
<1>20. CASE t.pc = "counted"
  <2>1. /\ u.pc = IF params.burst = 0 THEN "throttle" ELSE "send"
        /\ u.left = t.left - 1 /\ u.sent /\ u.green = t.green /\ u.bytes = t.bytes
    BY <1>20, <1>4 DEF Moved, SameCounts
  <2> QED BY <2>1, <1>20, <1>1, <1>2, <1>5, <1>11, <1>12 DEF PacedThread, Single
<1>21. CASE t.pc = "throttle"
  <2>1. /\ u.left = t.left /\ u.sent = t.sent /\ u.bytes = t.bytes
        /\ \/ /\ u.pc = IF Single(t) THEN "send" ELSE "idle"
              /\ done \/ (t.bytes <= due /\ (u.green <=> t.bytes < due))
           \/ u.pc = "sleep" /\ u.until = wait
    BY <1>21, <1>10, <1>14, <1>15 DEF Moved, SameCounts, wait
  <2> DEFINE slept == params.rate * wait
  <2>2. u.pc = "sleep" => params.rate * u.until = slept
    BY <2>1, <1>10, <1>21
  <2>3. t.bytes <= slept BY <1>13
  <2> HIDE DEF slept
  <2>4. Single(u) <=> Single(t) BY <2>1 DEF Single
  <2>5. /\ t.bytes <= due + Burst /\ t.left <= Burst /\ (Single(t) => t.left = 0)
    BY <1>21, <1>12 DEF PacedThread
  <2>6. CASE u.pc = "sleep" BY <2>1, <2>2, <2>3, <2>4, <2>5, <2>6 DEF PacedThread
  <2>7. CASE u.pc # "sleep" /\ Single(t)
    <3>1. u.pc = "send" /\ t.left = 0 BY <2>1, <2>5, <2>7
    <3>2. done \/ (u.green => t.bytes <= due) BY <2>1, <2>7, <1>1, <1>2
    <3>3. u.green => u.bytes + u.left <= due + Burst BY <2>1, <2>5, <3>1, <1>1, <1>2
    <3> QED BY <1>2, <2>1, <2>4, <2>5, <3>1, <3>2, <3>3 DEF PacedThread
  <2>8. CASE u.pc # "sleep" /\ ~Single(t)
    <3>1. u.pc = "idle" BY <2>1, <2>8
    <3>2. done \/ (u.green => t.bytes <= due) BY <2>1, <2>8, <1>1, <1>2
    <3> QED BY <1>2, <2>1, <2>4, <2>5, <3>1, <3>2 DEF PacedThread
  <2> QED BY <2>6, <2>7, <2>8
<1>22. CASE t.pc = "sleep"
  <2>1. /\ u.left = t.left /\ u.sent = t.sent /\ u.bytes = t.bytes
        /\ u.pc = IF Single(t) THEN "send" ELSE "idle"
        /\ u.green => t.bytes <= due
    BY <1>22, <1>9, <1>10 DEF Moved, SameCounts
  <2>2. Single(u) <=> Single(t) BY <2>1 DEF Single
  <2>3. /\ t.bytes <= due + Burst /\ t.left <= Burst /\ (Single(t) => t.left = 0)
    BY <1>22, <1>12 DEF PacedThread
  <2>4. CASE Single(t)
    <3>1. u.pc = "send" /\ u.left = 0 BY <2>1, <2>3, <2>4
    <3>2. u.green => u.bytes + u.left <= due + Burst BY <2>1, <2>3, <3>1, <1>1, <1>2
    <3> QED BY <1>2, <2>1, <2>2, <2>3, <3>1, <3>2 DEF PacedThread
  <2>5. CASE ~Single(t)
    <3>1. u.pc = "idle" BY <2>1, <2>5
    <3> QED BY <1>2, <2>1, <2>2, <2>3, <3>1 DEF PacedThread
  <2> QED BY <2>4, <2>5
<1>23. CASE t.pc = "off" BY <1>23 DEF Moved
<1> QED BY <1>2, <1>16, <1>17, <1>18, <1>19, <1>20, <1>21, <1>22, <1>23

\* The end of the omitted part and the callback's clearing leave a thread where it is; to stop
\* it leaves its counters.
LEMMA PacedSame ==
  ASSUME NEW t \in ThreadState, NEW u, NEW due, PacedThread(t, due),
         \/ \E a, b : u = [t EXCEPT !.omitted = a, !.interval = b]
         \/ \E b : u = [t EXCEPT !.interval = b]
         \/ u = [t EXCEPT !.pc = "off"]
  PROVE  PacedThread(u, due)
<1>1. /\ u.bytes = t.bytes /\ u.left = t.left /\ u.sent = t.sent /\ u.green = t.green
      /\ u.until = t.until /\ u.pc \in {t.pc, "off"}
  BY DEF ThreadState
<1> QED BY <1>1 DEF PacedThread, Single

\* A step of a thread, of time and of the omitted part.
LEMMA PacedStep ==
  ASSUME Loop, Data, Paced, [Next]_vars, Loop', Data' PROVE Paced'
<1>1. params' = params /\ Streams' = Streams BY StepKeepsTest DEF Streams
<1>2. SUFFICES ASSUME params.sends, params.rate # 0, NEW i \in Streams
               PROVE  PacedThread(str[i], params.rate * now)'
  BY <1>1 DEF Paced
<1> DEFINE t == str[i]  u == str'[i]
<1>3. t \in ThreadState /\ ThreadOK(t) /\ u \in ThreadState /\ PacedThread(t, params.rate * now)
  BY <1>1, <1>2, ControlFacts DEF Paced, Data, DataTypes
<1>4. done => done' BY DEF Next, vars, testVars, Tick, ControlLoop, SelectReturns, RunEnds, TestTimer,
     OmitTimer, StatsTimer, ReportTimer, StatsReads, StatsTotals, StatsZeroes, Check, LastStats,
     FinalReport, ServerReadsTestEnd, Thread, StartsCall, Sends, Receives, CountsInterval,
     CountsTest, CallEnds, Throttles, Wakes, loopVars, statsVars
<1>5. params.rate * now <= params.rate * now' /\ params.rate * now \in Nat /\ params.rate * now' \in Nat
  <2>1. now' \in {now, now + 1}
    BY DEF Next, vars, Tick, ControlLoop, SelectReturns, RunEnds, TestTimer, OmitTimer, StatsTimer,
       ReportTimer, StatsReads, StatsTotals, StatsZeroes, Check, FinalReport, ServerReadsTestEnd,
       Thread, StartsCall, Sends, Receives, CountsInterval, CountsTest, CallEnds, Throttles, Wakes,
       loopVars
  <2>2. params.rate \in Nat /\ now \in Nat BY PaceTypes
  <2>3. now' \in Nat /\ now <= now' BY <2>1, <2>2
  <2> QED BY <2>2, <2>3, TimesGrows
<1>6. PacedThread(u, params.rate * now)
  <2>1. CASE u = t BY <2>1, <1>3
  <2>2. CASE Restarted
    <3>1. u = [t EXCEPT !.omitted = t.bytes, !.interval = 0] BY <2>2, <1>2, RestartIs
    <3>2. \E a, b : u = [t EXCEPT !.omitted = a, !.interval = b] BY <3>1
    <3> HIDE DEF t, u
    <3> QED BY <3>2, <1>3, PacedSame
  <2>3. CASE Cleared
    <3>1. u = t \/ u = [t EXCEPT !.interval = 0] BY <2>3, ClearIs
    <3>2. u = t \/ \E b : u = [t EXCEPT !.interval = b] BY <3>1
    <3> HIDE DEF t, u
    <3> QED BY <3>2, <1>3, PacedSame
  <2>4. CASE Stopped
    <3>1. u = [t EXCEPT !.pc = "off"] BY <2>4, <1>2 DEF Stopped
    <3> HIDE DEF t, u
    <3> QED BY <3>1, <1>3, PacedSame
  <2>5. ASSUME NEW j \in Streams, Thread(j) PROVE PacedThread(u, params.rate * now)
    <3>1. CASE j = i
      <4>1. Moved(t, u) BY <2>5, <3>1, ThreadMoves
      <4> QED BY <4>1, <1>2, <1>3, PacedMoves
    <3>2. CASE j # i BY <2>1, <2>5, <3>2, ThreadMoves
    <3> QED BY <3>1, <3>2
  <2> QED BY <2>1, <2>2, <2>3, <2>4, <2>5, ThreadsLeft DEF Left
<1>7. PacedThread(u, params.rate * now') /\ (done => done')
  <2> DEFINE a == params.rate * now  b == params.rate * now'
  <2>1. a \in Nat /\ b \in Nat /\ a <= b /\ PacedThread(u, a) BY <1>5, <1>6
  <2>2. u.bytes \in Nat /\ u.left \in Nat BY <1>3 DEF ThreadState
  <2>3. Burst \in Nat BY PaceTypes
  <2> HIDE DEF a, b, u
  <2>4. PacedThread(u, b) BY <2>1, <2>2, <2>3 DEF PacedThread
  <2> QED BY <2>4, <1>4 DEF b
<1> QED BY <1>1, <1>7 DEF PacedThread, Burst, Single

\* Always.
LEMMA PacedHolds == Spec => [](Loop /\ Data /\ Paced)
<1>1. Init => Loop /\ Data /\ Paced BY LoopInit, DataInit, PacedInit
<1>2. Loop /\ Data /\ Paced /\ [Next]_vars => (Loop /\ Data /\ Paced)'
  BY LoopStep, DataStep, PacedStep
<1> QED BY <1>1, <1>2, PTL DEF Spec

-----------------------------------------------------------------------------
(* The limits of a sender: its number of blocks.                           *)

\* A block of a thread that is not yet in the test's counter, and the blocks it may still add
\* to that once nobody is to start another.
Credit(t) == IF t.pc \in {"counting", "counted"} THEN 1 ELSE 0

Quota(t) ==
  IF t.pc \in {"counting", "counted"} THEN (IF t.left = 2 THEN 2 ELSE 1)
  ELSE IF t.pc = "send" /\ t.left = 1 THEN 1 ELSE 0

Credits == SumFunctionOnSet([i \in Streams |-> Credit(str[i])], Streams)
Quotas == SumFunctionOnSet([i \in Streams |-> Quota(str[i])], Streams)

Allowed == params.blocks + 2 * params.streams

Quoted == params.sends /\ params.blocks # 0 /\ SendsPerCall > 1

Spent ==
  IF \E i \in Streams : str[i].pc = "off"
    THEN (\A i \in Streams : str[i].pc = "off") /\ SummaryTotal <= Allowed
    ELSE /\ SummaryTotal <= blocks + Credits
         /\ LimitReached => blocks + Quotas <= Allowed

Blocks == Quoted => Spent

\* The credit and the quota of a thread are small numbers.
LEMMA CountIs ==
  ASSUME NEW t
  PROVE  /\ Credit(t) \in 0..1 /\ Quota(t) \in 0..2 /\ Credit(t) <= Quota(t)
BY DEF Credit, Quota

\* Their sums are numbers.
LEMMA QuotaTypes ==
  ASSUME Loop, Data
  PROVE  /\ Credits \in Nat /\ Quotas \in Nat /\ Credits <= Quotas /\ Quotas <= 2 * params.streams
         /\ Credits <= params.streams /\ SummaryTotal \in Nat /\ params.streams \in Nat
         /\ params.blocks \in Nat /\ blocks \in Nat /\ Allowed \in Nat
<1> DEFINE f == [i \in Streams |-> Credit(str[i])]
           e == [i \in Streams |-> Quota(str[i])]
<1>1. Credits = SumFunctionOnSet(f, Streams) /\ Quotas = SumFunctionOnSet(e, Streams)
  BY DEF Credits, Quotas
<1>2. \A i \in Streams : f[i] \in 0..1 /\ e[i] \in 0..2 /\ f[i] <= e[i]
  BY CountIs
<1>3. IsFiniteSet(Streams) /\ params.streams \in Nat /\ Cardinality(Streams) = params.streams
  BY ControlFacts, StreamsAre
<1> HIDE DEF f, e
<1>4. \A i \in Streams : /\ f[i] \in Nat /\ e[i] \in Nat /\ f[i] \in Int /\ e[i] \in Int
                         /\ f[i] <= 1 /\ e[i] <= 2
  BY <1>2
<1>5. SumFunctionOnSet(f, Streams) \in Nat /\ SumFunctionOnSet(e, Streams) \in Nat
  BY <1>3, <1>4, SumNat
<1>6. SumFunctionOnSet(f, Streams) <= SumFunctionOnSet(e, Streams)
  BY <1>2, <1>3, <1>4, SumGrows
<1>7. SumFunctionOnSet(e, Streams) <= 2 * Cardinality(Streams) BY <1>3, <1>4, SumAtMost
<1>8. SumFunctionOnSet(f, Streams) <= 1 * Cardinality(Streams) BY <1>3, <1>4, SumAtMost
<1>9. params.blocks \in Nat /\ blocks \in Nat /\ SummaryTotal \in Nat
  BY ControlFacts, TestIs, SummaryType DEF DataTypes
<1> QED BY <1>1, <1>3, <1>5, <1>6, <1>7, <1>8, <1>9 DEF Allowed

\* The summary is a number after a step, too.
LEMMA SummaryTypeNext == ASSUME Loop', Data' PROVE \A i \in Streams' : Summary(i)' \in Nat
<1>1. (Loop /\ Data => \A i \in Streams : Summary(i) \in Nat)' BY SummaryType, PTL
<1> QED BY <1>1

\* Nothing sent, nothing to show.
LEMMA SummaryZero ==
  ASSUME Loop, Data, \A i \in Streams : Summary(i) = 0 PROVE SummaryTotal = 0
<1> DEFINE f == [i \in Streams |-> Summary(i)]
<1>1. SummaryTotal = SumFunctionOnSet(f, Streams) BY DEF SummaryTotal, SumFunction
<1>2. \A i \in Streams : f[i] \in Int /\ f[i] <= 0 OBVIOUS
<1>3. IsFiniteSet(Streams) /\ Cardinality(Streams) \in Nat BY ControlFacts, FS_CardinalityType
<1> HIDE DEF f
<1>4. SumFunctionOnSet(f, Streams) <= 0 * Cardinality(Streams) BY <1>2, <1>3, SumAtMost
<1>5. SummaryTotal \in Nat BY SummaryType
<1> QED BY <1>1, <1>3, <1>4, <1>5

\* A stream changes, the others do not.
LEMMA CreditsChange ==
  ASSUME Loop, Data, Loop', Data', Streams' = Streams, NEW i \in Streams,
         \A j \in Streams : j # i => str'[j] = str[j]
  PROVE  /\ Credits' = Credits - Credit(str[i]) + Credit(str'[i])
         /\ Quotas' = Quotas - Quota(str[i]) + Quota(str'[i])
         /\ SummaryTotal' = SummaryTotal - Summary(i) + Summary(i)'
<1> DEFINE f == [j \in Streams |-> Credit(str[j])]   g == [j \in Streams |-> Credit(str'[j])]
           e == [j \in Streams |-> Quota(str[j])]    h == [j \in Streams |-> Quota(str'[j])]
           a == [j \in Streams |-> Summary(j)]       b == [j \in Streams |-> Summary(j)']
<1>1. IsFiniteSet(Streams) BY ControlFacts
<1>2. /\ Credits = SumFunctionOnSet(f, Streams) /\ Credits' = SumFunctionOnSet(g, Streams)
      /\ Quotas = SumFunctionOnSet(e, Streams) /\ Quotas' = SumFunctionOnSet(h, Streams)
  BY DEF Credits, Quotas, Credit, Quota
<1>3. SummaryTotal = SumFunctionOnSet(a, Streams) /\ SummaryTotal' = SumFunctionOnSet(b, Streams)
  BY DEF SummaryTotal, SumFunction, Summary
<1>4. \A j \in Streams : /\ Credit(str[j]) \in Int /\ Credit(str'[j]) \in Int
                         /\ Quota(str[j]) \in Int /\ Quota(str'[j]) \in Int
  BY CountIs
<1>5. \A j \in Streams : Summary(j) \in Int /\ Summary(j)' \in Int
  BY SummaryType, SummaryTypeNext
<1>6. \A j \in Streams : f[j] \in Int /\ g[j] \in Int /\ (j # i => g[j] = f[j])
  BY <1>4
<1>12. \A j \in Streams : e[j] \in Int /\ h[j] \in Int /\ (j # i => h[j] = e[j])
  BY <1>4
<1>7. \A j \in Streams : a[j] \in Int /\ b[j] \in Int /\ (j # i => b[j] = a[j])
  BY <1>5 DEF Summary
<1>8. f[i] = Credit(str[i]) /\ g[i] = Credit(str'[i]) /\ e[i] = Quota(str[i]) /\ h[i] = Quota(str'[i])
      /\ a[i] = Summary(i) /\ b[i] = Summary(i)'
  OBVIOUS
<1> HIDE DEF f, g, e, h, a, b
<1>9. SumFunctionOnSet(g, Streams) = SumFunctionOnSet(f, Streams) - f[i] + g[i]
  BY <1>1, <1>6, SumChange
<1>10. SumFunctionOnSet(h, Streams) = SumFunctionOnSet(e, Streams) - e[i] + h[i]
  BY <1>1, <1>12, SumChange
<1>11. SumFunctionOnSet(b, Streams) = SumFunctionOnSet(a, Streams) - a[i] + b[i]
  BY <1>1, <1>7, SumChange
<1> QED BY <1>2, <1>3, <1>8, <1>9, <1>10, <1>11

\* The sums when no stream changes what they are of.
LEMMA CreditsSame ==
  ASSUME Streams' = Streams, IsFiniteSet(Streams),
         \A i \in Streams : str'[i].pc = str[i].pc /\ str'[i].left = str[i].left
  PROVE  Credits' = Credits /\ Quotas' = Quotas
<1> DEFINE f == [j \in Streams |-> Credit(str[j])]   g == [j \in Streams |-> Credit(str'[j])]
           e == [j \in Streams |-> Quota(str[j])]    h == [j \in Streams |-> Quota(str'[j])]
<1>1. /\ Credits = SumFunctionOnSet(f, Streams) /\ Credits' = SumFunctionOnSet(g, Streams)
      /\ Quotas = SumFunctionOnSet(e, Streams) /\ Quotas' = SumFunctionOnSet(h, Streams)
  BY DEF Credits, Quotas, Credit, Quota
<1>2. \A j \in Streams : f[j] = g[j] /\ e[j] = h[j] BY DEF Credit, Quota
<1> HIDE DEF f, g, e, h
<1> QED BY <1>1, <1>2, SumSame

\* The summary depends on the counters of the streams alone.
LEMMA SummarySame ==
  ASSUME Streams' = Streams, IsFiniteSet(Streams),
         \A i \in Streams : str'[i].bytes = str[i].bytes /\ str'[i].omitted = str[i].omitted
  PROVE  SummaryTotal' = SummaryTotal
<1> DEFINE a == [j \in Streams |-> Summary(j)]  b == [j \in Streams |-> Summary(j)']
<1>1. SummaryTotal = SumFunctionOnSet(a, Streams) /\ SummaryTotal' = SumFunctionOnSet(b, Streams)
  BY DEF SummaryTotal, SumFunction, Summary
<1>2. \A j \in Streams : a[j] = b[j] BY DEF Summary
<1> HIDE DEF a, b
<1> QED BY <1>1, <1>2, SumSame

\* What is sent so far keeps to the number in any case.
LEMMA SpentIs == ASSUME Loop, Data, Quoted, Spent PROVE SummaryTotal <= Allowed
<1>1. CASE \E i \in Streams : str[i].pc = "off" BY <1>1 DEF Spent
<1>2. CASE ~(\E i \in Streams : str[i].pc = "off")
  <2>1. SummaryTotal <= blocks + Credits /\ (LimitReached => blocks + Quotas <= Allowed)
    BY <1>2 DEF Spent
  <2>2. LimitReached <=> blocks >= params.blocks BY DEF LimitReached, Quoted
  <2>3. CASE LimitReached BY <2>1, <2>3, QuotaTypes
  <2>4. CASE ~LimitReached BY <2>1, <2>2, <2>4, QuotaTypes DEF Allowed
  <2> QED BY <2>3, <2>4
<1> QED BY <1>1, <1>2

\* No block is counted initially.
LEMMA BlocksInit == ASSUME Init, Loop, Data PROVE Blocks
<1>1. \A i \in Streams : str[i] = NewStream BY DEF Init
<1>2. \A i \in Streams : str[i].pc # "off" /\ Summary(i) = 0 BY <1>1 DEF NewStream, Summary
<1>3. blocks = 0 BY DEF Init
<1>4. SummaryTotal = 0 BY <1>2, SummaryZero
<1>5. Quoted => ~LimitReached BY <1>3, QuotaTypes DEF LimitReached, Quoted
<1> QED BY <1>2, <1>3, <1>4, <1>5, QuotaTypes DEF Blocks, Spent

\* A thread that still sends keeps the balance: each of its blocks is in the test's counter or
\* about to be, and once enough is sent it starts at most the last one of its call.
LEMMA BlocksMoves ==
  ASSUME Loop, Data, Loop', Data', Blocks, NEW i \in Streams, Thread(i)
  PROVE  Blocks'
<1> DEFINE t == str[i]  u == str'[i]
<1>1. /\ Moved(t, u) /\ ThreadOK(t) /\ t \in ThreadState /\ params' = params /\ Streams' = Streams
      /\ \A j \in Streams : j # i => str'[j] = str[j]
      /\ blocks' \in {blocks, blocks + 1}
  BY ThreadMoves DEF Streams
<1>2. SUFFICES ASSUME Quoted PROVE Spent' BY <1>1 DEF Blocks, Quoted, SendsPerCall
<1>3. params.sends /\ params.blocks # 0 /\ SendsPerCall > 1 /\ Spent BY <1>2 DEF Blocks, Quoted
<1>4. t.pc # "off" BY <1>1 DEF Moved
<1>5. /\ \A j \in Streams : str[j].pc # "off"
      /\ SummaryTotal <= blocks + Credits
      /\ LimitReached => blocks + Quotas <= Allowed
  BY <1>3, <1>4 DEF Spent
<1>6. u.pc # "off" BY <1>1 DEF Moved, AfterThrottle
<1>7. \A j \in Streams' : str'[j].pc # "off" BY <1>1, <1>5, <1>6
<1>8. /\ Credits' = Credits - Credit(t) + Credit(u) /\ Quotas' = Quotas - Quota(t) + Quota(u)
      /\ SummaryTotal' = SummaryTotal - Summary(i) + Summary(i)'
  BY <1>1, CreditsChange
<1>9. Summary(i) = t.bytes - t.omitted /\ Summary(i)' = u.bytes - u.omitted BY DEF Summary
<1>10. /\ t.bytes \in Nat /\ t.omitted \in Nat /\ t.left \in Nat /\ u.left \in Nat
       /\ u.bytes \in Nat /\ u.omitted = t.omitted
       /\ t.pc \in {"idle", "send", "counting", "counted", "throttle", "sleep", "off"}
  BY <1>1 DEF ThreadState, Moved
<1>11. /\ Credits \in Nat /\ Quotas \in Nat /\ SummaryTotal \in Nat /\ blocks \in Nat
       /\ params.blocks \in Nat /\ params.streams \in Nat /\ Quotas <= 2 * params.streams
       /\ Allowed \in Nat /\ Allowed' = Allowed
  BY <1>1, QuotaTypes DEF Allowed
<1>12. ~PerMessage BY <1>3 DEF PerMessage, SendsPerCall
<1>13. SummaryTotal' <= blocks' + Credits'
  <2>1. u.bytes - t.bytes <= (blocks' - blocks) + (Credit(u) - Credit(t))
    BY <1>1, <1>3, <1>10, <1>11 DEF Moved, Credit, SameCounts, AfterThrottle
  <2>2. Credit(t) \in Int /\ Credit(u) \in Int /\ blocks' \in Int BY <1>1, <1>11, CountIs
  <2> HIDE DEF t, u
  <2> QED BY <2>1, <2>2, <1>5, <1>8, <1>9, <1>10, <1>11
<1>14. ASSUME LimitReached, params.blocks # 0
       PROVE  (blocks' - blocks) + Quota(u) <= Quota(t)
  <2>1. StopsSending(t.left) <=> t.left > 1 BY <1>14 DEF StopsSending
  <2>2. t.pc = "throttle" \/ t.pc = "sleep" => params.rate # 0 BY <1>1 DEF ThreadOK
  <2>3. t.pc = "throttle" \/ t.pc = "sleep" => AfterThrottle(t) = "idle"
    BY <2>2, <1>12 DEF AfterThrottle, PerMessage
  <2>4. CASE t.pc = "idle"
    <3>1. u.pc = "send" /\ u.left > 1 /\ blocks' = blocks BY <2>4, <1>1, <1>3 DEF Moved
    <3> QED BY <3>1, <2>4, <1>10, <1>11 DEF Quota
  <2>5. CASE t.pc = "send" /\ ~SendEnds(t)
    <3>1. t.left # 0 /\ ~(t.left > 1) BY <2>1, <2>5 DEF SendEnds
    <3>2. u.pc = "counting" /\ u.left = t.left /\ blocks' = blocks BY <2>5, <1>1 DEF Moved
    <3> QED BY <3>1, <3>2, <2>5, <1>10, <1>11 DEF Quota
  <2>6. CASE t.pc = "send" /\ SendEnds(t)
    <3>1. u.pc \in {"throttle", "idle"} /\ blocks' = blocks BY <2>6, <1>1, <1>3 DEF Moved
    <3> QED BY <3>1, <2>6, <1>10, <1>11 DEF Quota
  <2>7. CASE t.pc = "counting"
    <3>1. u.pc = "counted" /\ u.left = t.left /\ blocks' = blocks BY <2>7, <1>1 DEF Moved
    <3> QED BY <3>1, <2>7, <1>10, <1>11 DEF Quota
  <2>8. CASE t.pc = "counted"
    <3>1. u.pc = "send" /\ u.left = t.left - 1 /\ blocks' = blocks + 1
      BY <2>8, <1>1, <1>3, <1>12 DEF Moved
    <3> QED BY <3>1, <2>8, <1>10, <1>11 DEF Quota
  <2>9. CASE t.pc \in {"throttle", "sleep"}
    <3>1. u.pc \in {"idle", "sleep"} /\ blocks' = blocks BY <2>3, <2>9, <1>1 DEF Moved
    <3> QED BY <3>1, <2>9, <1>10, <1>11 DEF Quota
  <2> QED BY <2>4, <2>5, <2>6, <2>7, <2>8, <2>9, <1>4, <1>10
<1>15. LimitReached' => blocks' + Quotas' <= Allowed
  <2>1. LimitReached <=> blocks >= params.blocks BY <1>3 DEF LimitReached
  <2>2. LimitReached' <=> blocks' >= params.blocks BY <1>1, <1>3 DEF LimitReached
  <2>3. Quota(t) \in Int /\ Quota(u) \in Int BY CountIs
  <2>4. Quotas' <= 2 * params.streams
    <3>1. (Loop /\ Data => Quotas <= 2 * params.streams)' BY QuotaTypes, PTL
    <3> QED BY <3>1, <1>1
  <2>5. CASE LimitReached
    <3>1. (blocks' - blocks) + Quota(u) <= Quota(t) /\ blocks + Quotas <= Allowed
      BY <2>5, <1>3, <1>5, <1>14
    <3> HIDE DEF t, u
    <3> QED BY <3>1, <2>3, <1>1, <1>8, <1>11
  <2>6. CASE ~LimitReached
    <3>1. Quotas' \in Int BY <2>3, <1>8, <1>11
    <3> QED BY <2>1, <2>2, <2>4, <2>6, <3>1, <1>1, <1>11 DEF Allowed
  <2> QED BY <2>5, <2>6
<1> QED BY <1>7, <1>11, <1>13, <1>15 DEF Spent

\* A block changes from a thread's credit to the test's counter, never to both.
LEMMA BlocksStep ==
  ASSUME Loop, Data, Loop', Data', Blocks, [Next]_vars PROVE Blocks'
<1>1. params' = params /\ Streams' = Streams BY StepKeepsTest DEF Streams
<1>2. Quoted' <=> Quoted BY <1>1 DEF Quoted, SendsPerCall
<1>3. SUFFICES ASSUME Quoted, Spent PROVE Spent'
  BY <1>2 DEF Blocks
<1>4. Allowed' = Allowed /\ IsFiniteSet(Streams) BY <1>1, ControlFacts DEF Allowed
<1>5. CASE Left
  BY <1>1, <1>5, <1>3 DEF Left, Spent, Credits, Credit, Quotas, Quota, LimitReached, Allowed,
     SummaryTotal, Summary
<1>6. CASE Cleared
  <2>1. \A i \in Streams : /\ str'[i].bytes = str[i].bytes /\ str'[i].omitted = str[i].omitted
                           /\ str'[i].pc = str[i].pc /\ str'[i].left = str[i].left
    BY <1>6, ClearIs
  <2>2. Credits' = Credits /\ Quotas' = Quotas /\ SummaryTotal' = SummaryTotal
    BY <2>1, <1>1, <1>4, CreditsSame, SummarySame
  <2>3. blocks' = blocks /\ (LimitReached' <=> LimitReached) BY <1>1, <1>6 DEF Cleared, LimitReached
  <2> QED BY <2>1, <2>2, <2>3, <1>1, <1>3, <1>4 DEF Spent
<1>7. CASE Restarted
  <2>1. \A i \in Streams : /\ str'[i].bytes - str'[i].omitted = 0
                           /\ str'[i].pc = str[i].pc /\ str'[i].left = str[i].left
    BY <1>7, RestartIs
  <2>2. SummaryTotal' = 0
    <3>1. \A i \in Streams' : Summary(i)' = 0 BY <2>1, <1>1 DEF Summary
    <3>2. (Loop /\ Data /\ (\A i \in Streams : Summary(i) = 0) => SummaryTotal = 0)'
      BY SummaryZero, PTL
    <3> QED BY <3>1, <3>2
  <2>3. blocks' = 0 /\ ~LimitReached'
    BY <1>1, <1>3, <1>7, QuotaTypes DEF Restarted, LimitReached, Quoted
  <2>4. Credits' = Credits /\ Quotas' = Quotas BY <2>1, <1>1, <1>4, CreditsSame
  <2> QED BY <2>1, <2>2, <2>3, <2>4, <1>1, <1>3, <1>4, QuotaTypes DEF Spent
<1>8. CASE Stopped
  <2>1. ASSUME NEW i \in Streams
        PROVE  str'[i].pc = "off" /\ str'[i].bytes = str[i].bytes /\ str'[i].omitted = str[i].omitted
    <3> DEFINE t == str[i]  u == [t EXCEPT !.pc = "off"]
    <3>1. str'[i] = u BY <1>3, <1>8 DEF Stopped, Quoted
    <3>2. t \in ThreadState BY ControlFacts
    <3>3. u.pc = "off" /\ u.bytes = t.bytes /\ u.omitted = t.omitted BY <3>2 DEF ThreadState
    <3> QED BY <3>1, <3>3
  <2>2. SummaryTotal' = SummaryTotal BY <2>1, <1>1, <1>4, SummarySame
  <2>3. 1 \in Streams BY ControlFacts
  <2> QED BY <2>1, <2>2, <2>3, <1>1, <1>3, <1>4, SpentIs DEF Spent
<1>9. CASE \E i \in Streams : Thread(i)
  <2>1. Blocks BY <1>3 DEF Blocks
  <2>2. Blocks' BY <2>1, <1>9, BlocksMoves
  <2> QED BY <2>2, <1>2, <1>3 DEF Blocks
<1> QED BY <1>5, <1>6, <1>7, <1>8, <1>9, ThreadsLeft

\* A sender keeps to its limits although its threads look at them only now and then: no stream
\* is ahead of its rate by more than one burst, and a test with a number of blocks sends at
\* most two more a thread.
THEOREM KeepsToLimitsAlways == Spec => []KeepsToLimits
<1>1. Init => Loop /\ Data /\ Paced /\ Blocks BY LoopInit, DataInit, PacedInit, BlocksInit
<1>2. Loop /\ Data /\ Paced /\ Blocks /\ [Next]_vars => (Loop /\ Data /\ Paced /\ Blocks)'
  BY LoopStep, DataStep, PacedStep, BlocksStep
<1>3. Loop /\ Data /\ Paced /\ Blocks => KeepsToLimits
  <2> SUFFICES ASSUME Loop, Data, Paced, Blocks PROVE KeepsToLimits OBVIOUS
  <2>1. Max({1, params.burst}) = Burst
    <3>1. params.burst \in Int /\ 1 \in Int BY PaceTypes
    <3>2. Max({1, params.burst}) = IF 1 >= params.burst THEN 1 ELSE params.burst BY <3>1, MaxOfTwo
    <3> QED BY <3>1, <3>2, PaceTypes DEF Burst
  <2>2. ASSUME params.sends, params.rate # 0, NEW i \in Streams
        PROVE  str[i].bytes <= params.rate * now + Burst
    BY <2>2 DEF Paced, PacedThread
  <2>3. Quoted => SummaryTotal <= Allowed BY SpentIs DEF Blocks
  <2> QED BY <2>1, <2>2, <2>3 DEF KeepsToLimits, Quoted, Allowed
<1> QED BY <1>1, <1>2, <1>3, PTL DEF Spec

-----------------------------------------------------------------------------
(* The intervals and the summary.                                          *)

\* The intervals that count of the first n, and their blocks.
Kept(list, n) == {k \in 1..n : ~list[k].omitted}
KeptSum(list, n) == SumFunctionOnSet([k \in Kept(list, n) |-> list[k].bytes], Kept(list, n))

\* What the intervals that count add up to.
LEMMA KeptSumType ==
  ASSUME NEW list, NEW n \in Nat, \A k \in 1..n : list[k] \in Interval
  PROVE  /\ IsFiniteSet(Kept(list, n)) /\ KeptSum(list, n) \in Nat
         /\ (\A k \in 1..n : list[k].omitted) => KeptSum(list, n) = 0
<1> DEFINE S == Kept(list, n)  f == [k \in S |-> list[k].bytes]
<1>1. S \subseteq 1..n /\ IsFiniteSet(1..n) BY FS_Interval DEF Kept
<1>2. IsFiniteSet(S) BY <1>1, FS_Subset
<1>3. \A k \in S : f[k] \in Nat BY <1>1 DEF Interval
<1>4. KeptSum(list, n) = SumFunctionOnSet(f, S) BY DEF KeptSum
<1>5. (\A k \in 1..n : list[k].omitted) => S = {} BY DEF Kept
<1> HIDE DEF S, f
<1>6. KeptSum(list, n) \in Nat BY <1>2, <1>3, <1>4, SumNat
<1>7. S = {} => KeptSum(list, n) = 0 BY <1>4, SumEmpty
<1> QED BY <1>2, <1>5, <1>6, <1>7 DEF S

\* It depends on these intervals alone.
LEMMA KeptSumSame ==
  ASSUME NEW list, NEW n \in Nat, \A k \in 1..n : list[k] \in Interval,
         NEW other, \A k \in 1..n : other[k] = list[k]
  PROVE  KeptSum(other, n) = KeptSum(list, n)
<1>1. Kept(other, n) = Kept(list, n) BY DEF Kept
<1> DEFINE S == Kept(list, n)  f == [k \in S |-> list[k].bytes]  e == [k \in S |-> other[k].bytes]
<1>2. \A k \in S : e[k] = f[k] BY DEF Kept
<1>3. IsFiniteSet(S) BY KeptSumType
<1>4. KeptSum(list, n) = SumFunctionOnSet(f, S) /\ KeptSum(other, n) = SumFunctionOnSet(e, S)
  BY <1>1 DEF KeptSum
<1> HIDE DEF S, f, e
<1> QED BY <1>2, <1>3, <1>4, SumSame

\* One interval more.
LEMMA KeptSumStep ==
  ASSUME NEW list, NEW n \in Nat, \A k \in 1..n + 1 : list[k] \in Interval
  PROVE  KeptSum(list, n + 1) = KeptSum(list, n) + IF list[n + 1].omitted THEN 0 ELSE list[n + 1].bytes
<1> DEFINE S == Kept(list, n)  f == [k \in S |-> list[k].bytes]
           T == Kept(list, n + 1)  e == [k \in T |-> list[k].bytes]
<1>1. n + 1 \in 1..n + 1 /\ 1..n + 1 = (1..n) \cup {n + 1} /\ n + 1 \notin 1..n OBVIOUS
<1>2. IsFiniteSet(S) /\ IsFiniteSet(T) /\ KeptSum(list, n) \in Nat
  <2>1. \A k \in 1..n : list[k] \in Interval BY <1>1
  <2>2. n + 1 \in Nat OBVIOUS
  <2> QED BY <2>1, <2>2, KeptSumType
<1>3. KeptSum(list, n) = SumFunctionOnSet(f, S) /\ KeptSum(list, n + 1) = SumFunctionOnSet(e, T)
  BY DEF KeptSum
<1>4. T = IF list[n + 1].omitted THEN S ELSE S \cup {n + 1} BY <1>1 DEF Kept
<1>5. n + 1 \notin S /\ S \subseteq T BY <1>1, <1>4 DEF Kept
<1>6. \A k \in S : e[k] = f[k] /\ e[k] \in Int
  <2> TAKE k \in S
  <2>1. k \in T /\ k \in 1..n + 1 BY <1>1, <1>5 DEF Kept
  <2>2. list[k].bytes \in Int BY <2>1 DEF Interval
  <2> QED BY <2>1, <2>2
<1>7. n + 1 \in T => e[n + 1] = list[n + 1].bytes /\ e[n + 1] \in Int BY <1>1 DEF Interval
<1> HIDE DEF S, f, T, e
<1>8. SumFunctionOnSet(e, S) = SumFunctionOnSet(f, S) BY <1>2, <1>6, SumSame
<1>9. CASE list[n + 1].omitted BY <1>9, <1>2, <1>3, <1>4, <1>8
<1>10. CASE ~list[n + 1].omitted
  <2>1. T = S \cup {n + 1} /\ n + 1 \in T BY <1>4, <1>10
  <2> DEFINE y == n + 1
  <2>2. y \notin S /\ e[y] \in Int BY <1>5, <1>7, <2>1
  <2> HIDE DEF y
  <2>3. SumFunctionOnSet(e, S \cup {y}) = SumFunctionOnSet(e, S) + e[y]
    BY <2>2, <1>2, <1>6, SumMore
  <2> QED BY <2>1, <2>3, <1>3, <1>7, <1>8, <1>10 DEF y
<1> QED BY <1>9, <1>10

\* More intervals add up to more.
LEMMA KeptSumPart ==
  ASSUME NEW list, NEW n \in Nat, \A k \in 1..n : list[k] \in Interval, NEW m \in Nat, m <= n
  PROVE  KeptSum(list, m) <= KeptSum(list, n)
<1> DEFINE S == Kept(list, m)  f == [k \in S |-> list[k].bytes]
           T == Kept(list, n)  e == [k \in T |-> list[k].bytes]
<1>1. S \subseteq T /\ T \subseteq 1..n BY DEF Kept
<1>2. IsFiniteSet(S) /\ IsFiniteSet(T)
  <2>1. \A k \in 1..m : list[k] \in Interval OBVIOUS
  <2> QED BY <2>1, KeptSumType
<1>3. \A k \in T : e[k] \in Nat BY <1>1 DEF Interval
<1>4. \A k \in S : e[k] = f[k] BY <1>1
<1>5. KeptSum(list, m) = SumFunctionOnSet(f, S) /\ KeptSum(list, n) = SumFunctionOnSet(e, T)
  BY DEF KeptSum
<1> HIDE DEF S, f, T, e
<1>6. SumFunctionOnSet(e, S) = SumFunctionOnSet(f, S) BY <1>2, <1>4, SumSame
<1>7. SumFunctionOnSet(e, S) <= SumFunctionOnSet(e, T)
  <2>1. S \in SUBSET T BY <1>1
  <2> QED BY <2>1, <1>2, <1>3, SumOfPart
<1> QED BY <1>5, <1>6, <1>7

\* It is what the property compares.
LEMMA InIntervalsIs ==
  ASSUME Loop, Data, NEW i \in Streams
  PROVE  /\ InIntervals(i) = KeptSum(ivals[i], Len(ivals[i])) /\ InIntervals(i) \in Nat
         /\ Len(ivals[i]) \in Nat /\ \A k \in 1..Len(ivals[i]) : ivals[i][k] \in Interval
         /\ DOMAIN ivals[i] = 1..Len(ivals[i])
<1>1. ivals[i] \in Seq(Interval) /\ Len(ivals[i]) \in Nat BY ControlFacts
<1>2. \A k \in 1..Len(ivals[i]) : ivals[i][k] \in Interval BY <1>1, ElementOfSeq
<1>3. DOMAIN ivals[i] = 1..Len(ivals[i]) BY <1>1
<1>4. InIntervals(i) = KeptSum(ivals[i], Len(ivals[i]))
  BY <1>3 DEF InIntervals, KeptSum, Kept, SumFunction
<1> QED BY <1>1, <1>2, <1>3, <1>4, KeptSumType
-----------------------------------------------------------------------------
\* The marks of the omitted part are the same for all streams.
Marks ==
  /\ \A i \in Streams : \A k \in 1..Len(ivals[i]) :
       /\ omitting => ivals[i][k].omitted
       /\ k \in 1..Len(ivals[1]) /\ ivals[i][k].omitted = ivals[1][k].omitted
  /\ Fresh(1) => Len(ivals[1]) > 0 /\ ivals[1][Len(ivals[1])].omitted = omitting

Late == IF params.omit # 0 THEN 1 ELSE 0

\* What the callback has read of a stream and not yet cleared.
Read(i) == IF pc = "zero" /\ stream = i THEN temp ELSE 0

Counting(t) == IF t.pc = "counting" THEN 1 ELSE 0

Balanced(i) ==
  /\ pc \in {"total", "zero"} /\ stream = i => temp <= str[i].interval
  /\ ~omitting => InIntervals(i) + str[i].interval - Read(i) + Counting(str[i]) <= Summary(i) + Late

Balance == \A i \in Streams : Balanced(i)

\* No interval and no block initially.
LEMMA BalanceInit == ASSUME Init, Loop, Data PROVE Marks /\ Balance
<1>1. /\ pc = "select" /\ \A i \in Streams : ivals[i] = <<>> /\ str[i] = NewStream
      /\ 1 \in Streams
  BY ControlFacts DEF Init
<1>2. Marks BY <1>1 DEF Marks, Fresh
<1>3. ASSUME NEW i \in Streams PROVE Balanced(i)
  <2>1. Len(ivals[i]) = 0 BY <1>1
  <2>2. InIntervals(i) = 0 BY <2>1, InIntervalsIs, KeptSumType
  <2>3. str[i].interval = 0 /\ str[i].pc = "idle" /\ Summary(i) = 0
    BY <1>1 DEF NewStream, Summary
  <2>4. Read(i) = 0 /\ Counting(str[i]) = 0 /\ Late \in Nat BY <1>1, <2>3 DEF Read, Counting, Late
  <2> QED BY <1>1, <2>2, <2>3, <2>4 DEF Balanced
<1> QED BY <1>2, <1>3 DEF Balance

\* The terms of the balance are numbers.
LEMMA BalanceTypes ==
  ASSUME Loop, Data, NEW i \in Streams
  PROVE  /\ str[i].interval \in Nat /\ str[i].bytes \in Nat /\ str[i].omitted \in Nat
         /\ Counting(str[i]) \in 0..1 /\ Read(i) \in Nat /\ temp \in Nat /\ Late \in 0..1
         /\ InIntervals(i) \in Nat /\ Summary(i) \in Nat /\ Summary(i) = str[i].bytes - str[i].omitted
<1>1. str[i] \in ThreadState /\ temp \in Nat BY ControlFacts DEF DataTypes
<1>2. str[i].interval \in Nat /\ str[i].bytes \in Nat /\ str[i].omitted \in Nat
  BY <1>1 DEF ThreadState
<1> QED BY <1>1, <1>2, InIntervalsIs, SummaryType DEF Counting, Read, Late, Summary

\* The same for all streams.
LEMMA BalanceTypesAll ==
  Loop /\ Data =>
    \A j \in Streams :
      /\ str[j].interval \in Nat /\ str[j].bytes \in Nat /\ str[j].omitted \in Nat
      /\ Counting(str[j]) \in 0..1 /\ Read(j) \in Nat /\ temp \in Nat
      /\ InIntervals(j) = KeptSum(ivals[j], Len(ivals[j])) /\ InIntervals(j) \in Nat
      /\ Summary(j) = str[j].bytes - str[j].omitted
BY BalanceTypes, InIntervalsIs

\* Where the callback is, and what it leaves alone.
LEMMA CallbackIs ==
  ASSUME Loop, Data, [Next]_vars
  PROVE  \/ StatsTotals \/ StatsReads \/ Cleared \/ Restarted
         \/ /\ UNCHANGED <<ivals, omitting, params>>
            /\ \/ UNCHANGED <<pc, stream, temp>>
               \/ pc' \notin {"total", "zero"} /\ pc # "zero" /\ (pc' = "temp" => stream' = 1)
<1>1. CASE OmitTimer
  <2>1. Fires("omit") BY <1>1 DEF OmitTimer
  <2>2. pc = "run" BY <2>1 DEF Fires
  <2> QED BY <1>1, <2>2 DEF OmitTimer, Restarted, reportVars
<1>2. CASE StatsZeroes BY <1>2 DEF StatsZeroes, Cleared, reportVars
<1>3. CASE StatsReads \/ StatsTotals BY <1>3
<1>4. CASE \E i \in Streams : Thread(i) BY <1>4, ThreadMoves
<1>5. CASE StatsTimer \/ ReportTimer \/ TestTimer
  <2>1. pc = "run" BY <1>5 DEF StatsTimer, ReportTimer, TestTimer, Fires
  <2> QED BY <2>1, <1>5 DEF StatsTimer, ReportTimer, TestTimer, statsVars, testVars
<1>6. CASE Check BY <1>6 DEF Check, LastStats, statsVars
<1>7. CASE ServerReadsTestEnd BY <1>7 DEF ServerReadsTestEnd, LastStats
<1>8. CASE Tick \/ SelectReturns \/ RunEnds \/ FinalReport \/ UNCHANGED vars
  BY <1>8 DEF Tick, SelectReturns, RunEnds, FinalReport, vars, statsVars, testVars
<1> QED BY <1>1, <1>2, <1>3, <1>4, <1>5, <1>6, <1>7, <1>8 DEF Next, ControlLoop

\* Intervals are marked as omitted only before the omitted part has ended.
LEMMA MarksStep ==
  ASSUME Loop, Data, Marks, [Next]_vars, Loop', Data' PROVE Marks'
<1>1. params' = params /\ Streams' = Streams /\ 1 \in Streams
  BY StepKeepsTest, ControlFacts DEF Streams
<1>2. ASSUME UNCHANGED ivals, omitting' => omitting, Fresh(1)' => Fresh(1) /\ omitting' = omitting
      PROVE  Marks'
  BY <1>1, <1>2 DEF Marks
<1>3. CASE StatsReads
  <2>1. /\ pc = "temp" /\ pc' = "total" /\ UNCHANGED <<ivals, omitting, stream>>
    BY <1>3 DEF StatsReads, testVars
  <2> QED BY <1>2, <2>1 DEF Fresh
<1>4. CASE Cleared
  <2>1. pc = "zero" /\ UNCHANGED <<ivals, omitting>> BY <1>4 DEF Cleared
  <2>2. Fresh(1)
    <3>1. stream \in 1..params.streams /\ params.streams \in Nat BY ControlFacts, StreamsAre
    <3>2. 1 <= stream BY <3>1
    <3> QED BY <2>1, <3>2 DEF Fresh
  <2> QED BY <1>2, <2>1, <2>2
<1>5. CASE Restarted
  <2>1. pc' = "run" /\ omitting' = FALSE /\ ivals' = ivals BY <1>5 DEF Restarted
  <2> QED BY <1>2, <2>1 DEF Fresh
<1>6. CASE /\ UNCHANGED <<ivals, omitting, params>>
           /\ \/ UNCHANGED <<pc, stream, temp>>
              \/ pc' \notin {"total", "zero"} /\ pc # "zero" /\ (pc' = "temp" => stream' = 1)
  <2>1. Fresh(1)' => Fresh(1) BY <1>6 DEF Fresh
  <2> QED BY <1>2, <1>6, <2>1
<1>7. CASE StatsTotals
  <2> DEFINE n == Len(ivals[stream])
  <2>1. omitting' = omitting /\ pc = "total" /\ pc' = "zero" /\ stream' = stream
    BY <1>7 DEF StatsTotals, testVars
  <2>2. NewInterval.omitted = omitting BY DEF NewInterval
  <2>3. /\ Len(ivals'[stream]) = n + 1 /\ ivals'[stream][n + 1] = NewInterval
        /\ \A k \in 1..n : ivals'[stream][k] = ivals[stream][k]
        /\ \A i \in Streams : i # stream => ivals'[i] = ivals[i]
    BY <1>7, TotalsIs
  <2>4. stream \in Streams /\ n \in Nat BY ControlFacts
  <2>5. Len(ivals[1]) \in Nat BY <1>1, ControlFacts
  <2>6. stream # 1 => /\ Len(ivals[1]) = n + 1 /\ ivals'[1] = ivals[1]
                      /\ ivals[1][n + 1].omitted = omitting
    <3> HAVE stream # 1
    <3>1. stream \in 1..params.streams /\ params.streams \in Nat BY ControlFacts, StreamsAre
    <3>2. 1 < stream BY <3>1
    <3>3. Fresh(1) /\ ~Fresh(stream) BY <2>1, <3>1, <3>2 DEF Fresh
    <3>4. Len(ivals[1]) = Complete + 1 /\ n = Complete BY <1>1, <2>4, <3>3, ControlFacts DEF Lengths
    <3> QED BY <1>1, <2>3, <3>3, <3>4 DEF Marks
  <2>7. ivals'[1][n + 1].omitted = omitting /\ Len(ivals'[1]) = n + 1
    <3>1. CASE stream = 1 BY <2>2, <2>3, <3>1
    <3>2. CASE stream # 1 BY <2>6, <3>2
    <3> QED BY <3>1, <3>2
  <2>8. \A k \in 1..Len(ivals[1]) : k \in 1..Len(ivals'[1]) /\ ivals'[1][k] = ivals[1][k]
    <3>1. CASE stream = 1 BY <2>3, <2>4, <3>1
    <3>2. CASE stream # 1 BY <2>6, <3>2
    <3> QED BY <3>1, <3>2
  <2>9. ASSUME NEW i \in Streams, NEW k \in 1..Len(ivals'[i])
        PROVE  /\ omitting => ivals'[i][k].omitted
               /\ k \in 1..Len(ivals'[1]) /\ ivals'[i][k].omitted = ivals'[1][k].omitted
    <3>1. CASE i = stream /\ k = n + 1
      BY <2>2, <2>3, <2>4, <2>7, <3>1
    <3>2. CASE ~(i = stream /\ k = n + 1)
      <4>1. k \in 1..Len(ivals[i]) /\ ivals'[i][k] = ivals[i][k]
        BY <2>3, <2>4, <3>2
      <4> QED BY <4>1, <2>8 DEF Marks
    <3> QED BY <3>1, <3>2
  <2> QED BY <1>1, <2>1, <2>4, <2>7, <2>9 DEF Marks
<1> QED BY <1>3, <1>4, <1>5, <1>6, <1>7, CallbackIs

\* A block is counted once in a stream's intervals, or not at all: what a thread has added
\* while the callback read is cleared with what the callback has read.
LEMMA BalanceStep ==
  ASSUME Loop, Data, Marks, Balance, [Next]_vars, Loop', Data' PROVE Balance'
<1>1. params' = params /\ Streams' = Streams /\ Late' = Late
  BY StepKeepsTest DEF Streams, Late
<1>2. SUFFICES ASSUME NEW i \in Streams PROVE Balanced(i)' BY <1>1 DEF Balance
<1> DEFINE t == str[i]  u == str'[i]
<1>3. /\ t.interval \in Nat /\ t.bytes \in Nat /\ t.omitted \in Nat /\ Counting(t) \in 0..1
      /\ Read(i) \in Nat /\ temp \in Nat /\ Late \in 0..1 /\ InIntervals(i) \in Nat
      /\ Summary(i) = t.bytes - t.omitted
  BY BalanceTypes
<1>4. /\ u.interval \in Nat /\ u.bytes \in Nat /\ u.omitted \in Nat /\ Counting(u) \in 0..1
      /\ Read(i)' \in Nat /\ temp' \in Nat /\ InIntervals(i)' \in Nat
      /\ Summary(i)' = u.bytes - u.omitted
  <2>1. (\A j \in Streams :
            /\ str[j].interval \in Nat /\ str[j].bytes \in Nat /\ str[j].omitted \in Nat
            /\ Counting(str[j]) \in 0..1 /\ Read(j) \in Nat /\ temp \in Nat
            /\ InIntervals(j) = KeptSum(ivals[j], Len(ivals[j])) /\ InIntervals(j) \in Nat
            /\ Summary(j) = str[j].bytes - str[j].omitted)'
    BY BalanceTypesAll, PTL
  <2> QED BY <2>1, <1>1 DEF Counting
<1>5. Balanced(i) BY DEF Balance
<1>6. ivals' = ivals => InIntervals(i)' = InIntervals(i) BY DEF InIntervals
<1>7. Counting(t)' = Counting(u) BY DEF Counting
<1>8. CASE StatsReads
  <2>1. /\ pc = "temp" /\ pc' = "total" /\ temp' = str[stream].interval
        /\ UNCHANGED <<ivals, omitting, stream, str>>
    BY <1>8 DEF StatsReads, testVars, threadVars
  <2>2. Read(i) = 0 /\ Read(i)' = 0 BY <2>1 DEF Read
  <2>3. Summary(i)' = Summary(i) /\ u = t BY <2>1 DEF Summary
  <2>4. pc' \in {"total", "zero"} /\ stream' = i => temp' <= u.interval BY <2>1, <2>3, <1>3
  <2> QED BY <2>1, <2>2, <2>3, <2>4, <1>1, <1>5, <1>6 DEF Balanced
<1>9. CASE StatsTotals
  <2>1. /\ pc = "total" /\ pc' = "zero" /\ UNCHANGED <<omitting, stream, str, temp>>
    BY <1>9 DEF StatsTotals, testVars, threadVars
  <2>2. Summary(i)' = Summary(i) /\ u = t BY <2>1 DEF Summary
  <2>3. CASE i # stream
    <3>1. ivals'[i] = ivals[i] BY <1>9, <2>3, TotalsIs
    <3>2. InIntervals(i)' = InIntervals(i) BY <3>1 DEF InIntervals
    <3>3. Read(i) = 0 /\ Read(i)' = 0 BY <2>1, <2>3 DEF Read
    <3> QED BY <2>1, <2>2, <2>3, <3>2, <3>3, <1>1, <1>5 DEF Balanced
  <2>4. CASE i = stream
    <3> DEFINE n == Len(ivals[i])
    <3>1. /\ Len(ivals'[i]) = n + 1 /\ ivals'[i][n + 1] = NewInterval /\ NewInterval \in Interval
          /\ \A k \in 1..n : ivals'[i][k] = ivals[i][k]
      BY <1>9, <2>4, TotalsIs
    <3>2. n \in Nat /\ \A k \in 1..n : ivals[i][k] \in Interval BY InIntervalsIs
    <3>3. NewInterval.bytes = temp /\ NewInterval.omitted = omitting BY DEF NewInterval
    <3> HIDE DEF n
    <3>4. \A k \in 1..n + 1 : ivals'[i][k] \in Interval BY <3>1, <3>2
    <3>5. KeptSum(ivals'[i], n + 1) = KeptSum(ivals'[i], n)
            + IF ivals'[i][n + 1].omitted THEN 0 ELSE ivals'[i][n + 1].bytes
      BY <3>2, <3>4, KeptSumStep
    <3>6. KeptSum(ivals'[i], n) = KeptSum(ivals[i], n) BY <3>1, <3>2, KeptSumSame
    <3>7. InIntervals(i)' = KeptSum(ivals'[i], n + 1)
      <4>1. (\A j \in Streams :
                /\ str[j].interval \in Nat /\ str[j].bytes \in Nat /\ str[j].omitted \in Nat
                /\ Counting(str[j]) \in 0..1 /\ Read(j) \in Nat /\ temp \in Nat
                /\ InIntervals(j) = KeptSum(ivals[j], Len(ivals[j])) /\ InIntervals(j) \in Nat
                /\ Summary(j) = str[j].bytes - str[j].omitted)'
        BY BalanceTypesAll, PTL
      <4> QED BY <4>1, <1>1, <3>1 DEF KeptSum, Kept
    <3>8. InIntervals(i) = KeptSum(ivals[i], n) BY InIntervalsIs DEF n
    <3>9. ~omitting => InIntervals(i)' = InIntervals(i) + temp
      BY <3>1, <3>3, <3>5, <3>6, <3>7, <3>8
    <3>10. Read(i) = 0 /\ Read(i)' = temp BY <2>1, <2>4 DEF Read
    <3>11. temp <= t.interval BY <2>1, <2>4, <1>5 DEF Balanced
    <3>12. ~omitting => InIntervals(i) + t.interval + Counting(t) <= Summary(i) + Late
      BY <3>10, <1>3, <1>5 DEF Balanced
    <3>13. ~omitting' => InIntervals(i)' + u.interval - Read(i)' + Counting(u) <= Summary(i)' + Late
      <4> HIDE DEF t, u
      <4> QED BY <2>1, <2>2, <3>9, <3>10, <3>12, <1>3
    <3> QED BY <2>1, <2>2, <3>11, <3>13, <1>1, <1>7 DEF Balanced
  <2> QED BY <2>3, <2>4
<1>10. CASE Cleared
  <2>1. pc = "zero" /\ UNCHANGED <<ivals, omitting, temp>> BY <1>10 DEF Cleared
  <2>2. pc' \notin {"total", "zero"} BY <1>10 DEF Cleared, StatsZeroes
  <2>3. /\ u.bytes = t.bytes /\ u.omitted = t.omitted /\ u.pc = t.pc
        /\ IF i = stream THEN u.interval = 0 ELSE u.interval = t.interval
    BY <1>10, ClearIs
  <2>4. Read(i)' = 0 /\ Summary(i)' = Summary(i) /\ Counting(u) = Counting(t)
    BY <2>2, <2>3 DEF Read, Summary, Counting
  <2>5. u.interval <= t.interval - Read(i)
    BY <2>1, <2>3, <1>3, <1>5 DEF Balanced, Read
  <2>6. ~omitting => InIntervals(i)' + u.interval + Counting(u) <= Summary(i)' + Late
    <3>1. InIntervals(i)' = InIntervals(i) BY <2>1, <1>6
    <3>2. ~omitting => InIntervals(i) + t.interval - Read(i) + Counting(t) <= Summary(i) + Late
      BY <1>5 DEF Balanced
    <3> HIDE DEF t, u
    <3> QED BY <2>4, <2>5, <3>1, <3>2, <1>3, <1>4
  <2> QED BY <2>1, <2>2, <2>4, <2>6, <1>1, <1>4, <1>7 DEF Balanced
<1>11. CASE Restarted
  <2>1. /\ Fires("omit") /\ pc' = "run" /\ omitting' = FALSE /\ ivals' = ivals
    BY <1>11 DEF Restarted, OmitTimer
  <2>2. omitting
    <3>1. "omit" \in Active(timers) BY <2>1, FiringIs DEF Names
    <3> QED BY <3>1 DEF Loop, Omission
  <2>3. Late = 1 BY <2>2 DEF Late, Loop, Omission
  <2>4. InIntervals(i)' = 0
    <3>1. \A k \in 1..Len(ivals[i]) : ivals[i][k].omitted BY <2>2 DEF Marks
    <3>2. InIntervals(i) = 0 BY <3>1, InIntervalsIs, KeptSumType
    <3> QED BY <3>2, <2>1, <1>6
  <2>5. u.interval = 0 /\ Summary(i)' = 0 BY <1>11, RestartIs DEF Summary
  <2>6. Read(i)' = 0 BY <2>1 DEF Read
  <2> QED BY <2>1, <2>3, <2>4, <2>5, <2>6, <1>1, <1>4, <1>7 DEF Balanced
<1>12. CASE /\ ~Restarted /\ ~Cleared /\ UNCHANGED <<ivals, omitting, params>>
            /\ \/ UNCHANGED <<pc, stream, temp>>
               \/ pc' \notin {"total", "zero"} /\ pc # "zero" /\ (pc' = "temp" => stream' = 1)
  <2>1. Read(i)' = Read(i)
        /\ (pc' \in {"total", "zero"} /\ stream' = i => pc \in {"total", "zero"} /\ stream = i /\ temp' = temp)
    BY <1>12 DEF Read
  <2>2. InIntervals(i)' = InIntervals(i) /\ omitting' = omitting BY <1>12, <1>6
  <2>3. SUFFICES /\ t.interval <= u.interval
                 /\ u.interval + Counting(u) - (u.bytes - u.omitted)
                      <= t.interval + Counting(t) - (t.bytes - t.omitted)
    <3>1. Summary(i)' = u.bytes - u.omitted BY <1>4
    <3>2. pc' \in {"total", "zero"} /\ stream' = i => temp' <= t.interval
      BY <2>1, <1>5 DEF Balanced
    <3>3. ~omitting => InIntervals(i) + t.interval - Read(i) + Counting(t) <= Summary(i) + Late
      BY <1>5 DEF Balanced
    <3>4. pc' \in {"total", "zero"} /\ stream' = i => temp' <= u.interval
      <4> HIDE DEF t, u
      <4> QED BY <2>3, <3>2, <1>3, <1>4
    <3>5. ~omitting' => InIntervals(i)' + u.interval - Read(i)' + Counting(u) <= Summary(i)' + Late
      <4> HIDE DEF t, u
      <4> QED BY <2>1, <2>2, <2>3, <3>1, <3>3, <1>3, <1>4
    <3> QED BY <3>4, <3>5, <1>1, <1>7 DEF Balanced
  <2>4. CASE u = t BY <2>4, <1>3
  <2>5. CASE Stopped
    <3>1. u = t \/ u = [t EXCEPT !.pc = "off"] BY <2>5 DEF Stopped
    <3>2. t \in ThreadState BY ControlFacts
    <3> HIDE DEF t, u
    <3>3. u.bytes = t.bytes /\ u.omitted = t.omitted /\ u.interval = t.interval
          /\ u.pc \in {t.pc, "off"}
      BY <3>1, <3>2 DEF ThreadState
    <3> QED BY <3>3, <1>3 DEF Counting
  <2>6. ASSUME NEW j \in Streams, Thread(j)
        PROVE  /\ t.interval <= u.interval
               /\ u.interval + Counting(u) - (u.bytes - u.omitted)
                    <= t.interval + Counting(t) - (t.bytes - t.omitted)
    <3>1. CASE j # i BY <2>4, <2>6, <3>1, ThreadMoves
    <3>2. CASE j = i
      <4>1. Moved(t, u) BY <2>6, <3>2, ThreadMoves
      <4> HIDE DEF t, u
      <4> QED BY <4>1, <1>3, <1>4 DEF Moved, Counting, SameCounts, AfterThrottle
    <3> QED BY <3>1, <3>2
  <2> QED BY <1>12, <2>4, <2>5, <2>6, ThreadsLeft DEF Left
<1> QED BY <1>8, <1>9, <1>10, <1>11, <1>12, CallbackIs

-----------------------------------------------------------------------------
(* The lines of the reporter and the summary.                              *)

\* The lines of intervals that count, and their blocks.
Shown(lines, list) == {k \in DOMAIN lines : ~list[lines[k].interval].omitted}
ShownSum(lines, list) ==
  SumFunctionOnSet([k \in Shown(lines, list) |-> lines[k].bytes], Shown(lines, list))

\* The lines that count, and what they add up to.
LEMMA ShownIs ==
  ASSUME NEW lines \in Seq(Line), NEW list
  PROVE  /\ IsFiniteSet(Shown(lines, list)) /\ Shown(lines, list) \subseteq 1..Len(lines)
         /\ DOMAIN lines = 1..Len(lines) /\ Len(lines) \in Nat
         /\ \A k \in Shown(lines, list) : lines[k].bytes \in Nat
         /\ ShownSum(lines, list) \in Nat
<1> DEFINE S == Shown(lines, list)  f == [k \in S |-> lines[k].bytes]
<1>1. DOMAIN lines = 1..Len(lines) /\ Len(lines) \in Nat OBVIOUS
<1>2. S \subseteq 1..Len(lines) /\ IsFiniteSet(1..Len(lines)) BY <1>1, FS_Interval DEF Shown
<1>3. IsFiniteSet(S) BY <1>2, FS_Subset
<1>4. \A k \in S : lines[k].bytes \in Nat
  <2> TAKE k \in S
  <2>1. lines[k] \in Line BY <1>2, ElementOfSeq
  <2> QED BY <2>1 DEF Line
<1>5. \A k \in S : f[k] \in Nat BY <1>4
<1>6. ShownSum(lines, list) = SumFunctionOnSet(f, S) BY DEF ShownSum
<1> HIDE DEF S, f
<1>7. ShownSum(lines, list) \in Nat BY <1>3, <1>5, <1>6, SumNat
<1> QED BY <1>1, <1>2, <1>3, <1>4, <1>7 DEF S

\* It depends on these lines alone.
LEMMA ShownSame ==
  ASSUME NEW lines \in Seq(Line), NEW list, NEW other,
         \A k \in 1..Len(lines) : other[lines[k].interval] = list[lines[k].interval]
  PROVE  ShownSum(lines, other) = ShownSum(lines, list)
<1>1. DOMAIN lines = 1..Len(lines) OBVIOUS
<1>2. Shown(lines, other) = Shown(lines, list) BY <1>1 DEF Shown
<1> QED BY <1>2 DEF ShownSum

\* One line more.
LEMMA ShownStep ==
  ASSUME NEW lines \in Seq(Line), NEW list, NEW line \in Line
  PROVE  ShownSum(Append(lines, line), list) =
           ShownSum(lines, list) + IF list[line.interval].omitted THEN 0 ELSE line.bytes
<1> DEFINE more == Append(lines, line)  n == Len(lines)
           S == Shown(lines, list)  f == [k \in S |-> lines[k].bytes]
           T == Shown(more, list)   e == [k \in T |-> more[k].bytes]
<1>1. /\ more \in Seq(Line) /\ DOMAIN more = 1..n + 1 /\ more[n + 1] = line /\ n \in Nat
      /\ \A k \in 1..n : more[k] = lines[k]
  BY AppendProperties
<1>2. 1..n + 1 = (1..n) \cup {n + 1} /\ n + 1 \notin 1..n BY <1>1
<1>3. /\ IsFiniteSet(S) /\ S \subseteq 1..n /\ DOMAIN lines = 1..n /\ \A k \in S : lines[k].bytes \in Nat
      /\ ShownSum(lines, list) \in Nat
  BY ShownIs
<1>4. IsFiniteSet(T) /\ \A k \in T : more[k].bytes \in Nat BY <1>1, ShownIs
<1>5. ShownSum(lines, list) = SumFunctionOnSet(f, S) /\ ShownSum(more, list) = SumFunctionOnSet(e, T)
  BY DEF ShownSum
<1> HIDE DEF more
<1>6. T = IF list[line.interval].omitted THEN S ELSE S \cup {n + 1}
  BY <1>1, <1>2, <1>3 DEF Shown
<1>7. n + 1 \notin S /\ S \subseteq T BY <1>2, <1>3, <1>6
<1>8. \A k \in S : e[k] = f[k] /\ e[k] \in Int BY <1>1, <1>3, <1>7
<1>9. n + 1 \in T => e[n + 1] = line.bytes /\ e[n + 1] \in Int BY <1>1, <1>4
<1> HIDE DEF n, S, f, T, e
<1>10. SumFunctionOnSet(e, S) = SumFunctionOnSet(f, S) BY <1>3, <1>8, SumSame
<1>11. CASE list[line.interval].omitted BY <1>11, <1>3, <1>5, <1>6, <1>10 DEF more
<1>12. CASE ~list[line.interval].omitted
  <2>1. T = S \cup {n + 1} /\ n + 1 \in T BY <1>6, <1>12
  <2> DEFINE y == n + 1
  <2>2. y \notin S /\ e[y] \in Int BY <1>7, <1>9, <2>1
  <2> HIDE DEF y
  <2>3. SumFunctionOnSet(e, S \cup {y}) = SumFunctionOnSet(e, S) + e[y]
    BY <2>2, <1>3, <1>8, SumMore
  <2>4. ShownSum(more, list) = ShownSum(lines, list) + line.bytes
    BY <2>1, <2>3, <1>5, <1>9, <1>10 DEF y
  <2> QED BY <2>4, <1>12 DEF more
<1> QED BY <1>11, <1>12
-----------------------------------------------------------------------------
HandledSums == [i \in Streams |-> KeptSum(ivals[i], Handled)]

Prints ==
  /\ InReport <= SumFunctionOnSet(HandledSums, Streams)
  /\ summary # NoSummary <=> state = "reported"
  /\ summary # NoSummary => summary = SummaryTotal

\* It is what the property compares.
LEMMA InReportIs ==
  ASSUME Loop, Data
  PROVE  InReport = ShownSum(printed, ivals[1]) /\ InReport \in Nat /\ printed \in Seq(Line)
<1>1. printed \in Seq(Line) BY ControlFacts DEF DataTypes
<1>2. InReport = ShownSum(printed, ivals[1]) BY DEF InReport, ShownSum, Shown, SumFunction
<1> QED BY <1>1, <1>2, ShownIs

\* The first intervals of a stream, as far as the reporter has come.
LEMMA HandledSumIs ==
  ASSUME Loop, Data, NEW i \in Streams
  PROVE  /\ HandledSums[i] = KeptSum(ivals[i], Handled) /\ HandledSums[i] \in Nat
         /\ HandledSums[i] <= InIntervals(i)
<1>1. Handled \in Nat /\ Handled <= Len(ivals[i]) /\ Len(ivals[i]) \in Nat BY HandledIs
<1>2. \A k \in 1..Len(ivals[i]) : ivals[i][k] \in Interval BY InIntervalsIs
<1>3. \A k \in 1..Handled : ivals[i][k] \in Interval BY <1>1, <1>2
<1>4. KeptSum(ivals[i], Handled) \in Nat BY <1>1, <1>3, KeptSumType
<1>5. KeptSum(ivals[i], Handled) <= KeptSum(ivals[i], Len(ivals[i])) BY <1>1, <1>2, KeptSumPart
<1>6. HandledSums[i] = KeptSum(ivals[i], Handled) BY DEF HandledSums
<1> QED BY <1>4, <1>5, <1>6, InIntervalsIs

\* Nothing is printed initially.
LEMMA PrintsInit == ASSUME Init, Loop, Data PROVE Prints
<1>1. printed = <<>> /\ summary = NoSummary /\ state = "running" BY DEF Init
<1>2. Shown(printed, ivals[1]) = {} BY <1>1 DEF Shown
<1>3. InReport = 0 BY <1>2, InReportIs, SumEmpty DEF ShownSum
<1> DEFINE f == HandledSums
<1>4. \A i \in Streams : f[i] \in Nat BY HandledSumIs
<1>5. IsFiniteSet(Streams) BY ControlFacts
<1> HIDE DEF f
<1>6. SumFunctionOnSet(f, Streams) \in Nat BY <1>4, <1>5, SumNat
<1> QED BY <1>1, <1>3, <1>6 DEF Prints, f

\* Once it has printed the summary, the test is over.
LEMMA FinishedIs ==
  ASSUME Loop, Data, [Next]_vars
  PROVE  \/ FinalReport
         \/ /\ summary' = summary /\ (state' = "reported" <=> state = "reported")
            /\ state = "reported" => str' = str
<1>1. CASE state = "reported"
  <2>1. pc = "end" BY <1>1, ControlFacts DEF Turns
  <2>2. \A i \in Streams : ~Thread(i)
    BY <1>1 DEF Thread, StartsCall, Sends, Receives, CountsInterval, CountsTest, CallEnds, Throttles,
       Wakes, ThreadAt
  <2>3. ~Tick /\ ~ControlLoop /\ ~ServerReadsTestEnd
    BY <1>1, <2>1 DEF Tick, ControlLoop, SelectReturns, RunEnds, TestTimer, OmitTimer, StatsTimer,
       ReportTimer, StatsReads, StatsTotals, StatsZeroes, Check, FinalReport, ServerReadsTestEnd, Fires
  <2>4. UNCHANGED vars BY <2>2, <2>3 DEF Next
  <2> QED BY <2>4, <1>1 DEF vars, reportVars, testVars, threadVars
<1>2. CASE state # "reported"
  <2>1. CASE \E i \in Streams : Thread(i) BY <2>1, <1>2, ThreadMoves
  <2>2. CASE TestTimer
    BY <2>2, <1>2 DEF TestTimer, reportVars
  <2>3. CASE Tick \/ SelectReturns \/ RunEnds \/ OmitTimer \/ StatsTimer \/ ReportTimer \/ StatsReads
             \/ StatsTotals \/ StatsZeroes \/ Check \/ ServerReadsTestEnd \/ UNCHANGED vars
    BY <2>3, <1>2 DEF Tick, SelectReturns, RunEnds, OmitTimer, StatsTimer, ReportTimer, StatsReads,
       StatsTotals, StatsZeroes, Check, ServerReadsTestEnd, vars, reportVars, testVars
  <2> QED BY <2>1, <2>2, <2>3 DEF Next, ControlLoop
<1> QED BY <1>1, <1>2

\* The summary is printed in the last step and stays that of the counters.
LEMMA SummaryStep ==
  ASSUME Loop, Data, Prints, [Next]_vars
  PROVE  /\ summary' # NoSummary <=> state' = "reported"
         /\ summary' # NoSummary => summary' = SummaryTotal'
<1>1. Streams' = Streams BY StepKeepsTest DEF Streams
<1>2. str' = str => SummaryTotal' = SummaryTotal BY <1>1 DEF SummaryTotal, Summary
<1>3. CASE FinalReport
  <2>1. state' = "reported" /\ summary' = SummaryTotal /\ str' = str
    BY <1>3 DEF FinalReport, threadVars
  <2>2. SummaryTotal \in Nat BY SummaryType
  <2> QED BY <2>1, <2>2, <1>2 DEF NoSummary
<1>4. CASE ~FinalReport
  <2>1. /\ summary' = summary /\ (state' = "reported" <=> state = "reported")
        /\ state = "reported" => str' = str
    BY <1>4, FinishedIs
  <2> QED BY <2>1, <1>2 DEF Prints
<1> QED BY <1>3, <1>4

\* The reporter adds what it prints of an interval, which is no more than the interval.
LEMMA InReportStep ==
  ASSUME Loop, Data, Reported, Marks, Prints, Keeping \/ Telling, Loop', Data', params' = params
  PROVE  InReport' <= SumFunctionOnSet(HandledSums', Streams')
<1>0. Streams' = Streams /\ IsFiniteSet(Streams) /\ 1 \in Streams BY ControlFacts DEF Streams
<1> DEFINE f == HandledSums  g == HandledSums'
<1>1. \A i \in Streams : f[i] \in Nat /\ f[i] \in Int /\ f[i] = KeptSum(ivals[i], Handled)
  BY HandledSumIs
<1>2. \A i \in Streams : g[i] = KeptSum(ivals'[i], Handled') BY <1>0 DEF HandledSums, KeptSum, Kept
<1>3. InReport = ShownSum(printed, ivals[1]) /\ InReport \in Nat /\ printed \in Seq(Line)
      /\ InReport <= SumFunctionOnSet(f, Streams)
  BY InReportIs DEF Prints
<1>4. InReport' = ShownSum(printed', ivals'[1])
  BY DEF InReport, ShownSum, Shown, SumFunction
<1>5. Handled \in Nat /\ \A i \in Streams : Handled <= Len(ivals[i]) /\ Len(ivals[i]) \in Nat
      /\ \A k \in 1..Len(ivals[i]) : ivals[i][k] \in Interval
  BY HandledIs, InIntervalsIs
<1>6. \A i \in Streams : \A k \in 1..Handled : ivals[i][k] \in Interval BY <1>5
<1> HIDE DEF f, g
<1>7. CASE Keeping
  <2>1. Handled' = Handled /\ printed' = printed BY <1>7 DEF Keeping
  <2>2. ASSUME NEW i \in Streams PROVE g[i] = f[i]
    <3>1. \A k \in 1..Handled : ivals'[i][k] = ivals[i][k] BY <1>5, <1>7 DEF Keeping
    <3>2. KeptSum(ivals'[i], Handled) = KeptSum(ivals[i], Handled) BY <3>1, <1>5, <1>6, KeptSumSame
    <3> QED BY <3>2, <2>1, <1>1, <1>2
  <2>3. SumFunctionOnSet(g, Streams) = SumFunctionOnSet(f, Streams) BY <2>2, <1>0, SumSame
  <2>4. \A k \in 1..Len(printed) : ivals'[1][printed[k].interval] = ivals[1][printed[k].interval]
    <3> TAKE k \in 1..Len(printed)
    <3>1. k \in DOMAIN printed BY <1>3
    <3>2. printed[k].interval \in 1..Handled BY <3>1 DEF Reported
    <3>3. printed[k].interval \in 1..Len(ivals[1]) BY <3>2, <1>0, <1>5
    <3> QED BY <3>3, <1>0, <1>7 DEF Keeping
  <2>5. ShownSum(printed, ivals'[1]) = ShownSum(printed, ivals[1]) BY <2>4, <1>3, ShownSame
  <2> QED BY <2>1, <2>3, <2>5, <1>0, <1>3, <1>4 DEF g
<1>8. CASE Telling
  <2> DEFINE n == Handled + 1
  <2>1. ivals' = ivals /\ Handled' = n /\ n = Complete /\ n = Len(ivals[1]) BY <1>8 DEF Telling
  <2>2. \A i \in Streams : Len(ivals[i]) = n
    <3>1. ~Collecting BY <1>8 DEF Telling
    <3> QED BY <2>1, <3>1, OutsideIs
  <2>3. \A i \in Streams : /\ ivals[i][n] \in Interval
                           /\ ivals[i][n].omitted = ivals[1][n].omitted
    <3> TAKE i \in Streams
    <3>1. n \in 1..Len(ivals[i]) BY <2>2, <1>5
    <3> QED BY <3>1, <1>5 DEF Marks
  <2>4. ASSUME NEW i \in Streams
        PROVE  g[i] = f[i] + IF ivals[1][n].omitted THEN 0 ELSE ivals[i][n].bytes
    <3>1. \A k \in 1..Handled + 1 : ivals[i][k] \in Interval BY <2>2, <1>5
    <3>2. KeptSum(ivals[i], Handled + 1) =
            KeptSum(ivals[i], Handled) + IF ivals[i][Handled + 1].omitted THEN 0
                                         ELSE ivals[i][Handled + 1].bytes
      BY <3>1, <1>5, KeptSumStep
    <3> QED BY <3>2, <2>1, <2>3, <1>1, <1>2
  <2>5. \A i \in Streams : ivals[i][n].bytes \in Nat BY <2>3 DEF Interval
  <2> HIDE DEF n
  <2>6. PICK kept \in BOOLEAN :
          IF kept
            THEN /\ printed' = Append(printed, [interval |-> n, bytes |-> IntervalSum])
                 /\ IntervalSum \in Nat
                 /\ \A i \in Streams : IntervalLine(i) = ivals[i][n].bytes
            ELSE printed' = printed
    BY <1>8, TellingIs DEF n
  <2>7. CASE ~kept \/ ivals[1][n].omitted
    <3>1. \A i \in Streams : f[i] \in Int /\ g[i] \in Int /\ f[i] <= g[i]
      <4> TAKE i \in Streams
      <4>1. g[i] = f[i] + IF ivals[1][n].omitted THEN 0 ELSE ivals[i][n].bytes BY <2>4
      <4>2. f[i] \in Nat /\ ivals[i][n].bytes \in Nat BY <1>1, <2>5
      <4> QED BY <4>1, <4>2
    <3>2. SumFunctionOnSet(f, Streams) <= SumFunctionOnSet(g, Streams) BY <3>1, <1>0, SumGrows
    <3>3. InReport' = InReport
      <4>1. CASE ~kept BY <4>1, <2>1, <2>6, <1>3, <1>4
      <4>2. CASE kept /\ ivals[1][n].omitted
        <5> DEFINE line == [interval |-> n, bytes |-> IntervalSum]
        <5>1. line \in Line /\ line.interval = n BY <4>2, <2>1, <2>6, <1>5 DEF Line, n
        <5>2. printed' = Append(printed, line) BY <4>2, <2>6
        <5> HIDE DEF line
        <5>3. ShownSum(Append(printed, line), ivals[1]) =
                ShownSum(printed, ivals[1]) + IF ivals[1][line.interval].omitted THEN 0 ELSE line.bytes
          BY <5>1, <1>3, ShownStep
        <5> QED BY <5>1, <5>2, <5>3, <4>2, <2>1, <1>3, <1>4
      <4> QED BY <4>1, <4>2, <2>7
    <3>4. SumFunctionOnSet(f, Streams) \in Int /\ SumFunctionOnSet(g, Streams) \in Int
      BY <3>1, <1>0, SumInt
    <3> QED BY <3>2, <3>3, <3>4, <1>0, <1>3 DEF g
  <2>8. CASE kept /\ ~ivals[1][n].omitted
    <3> DEFINE line == [interval |-> n, bytes |-> IntervalSum]
               e == [i \in Streams |-> IntervalLine(i)]
    <3>1. line \in Line /\ line.interval = n /\ line.bytes = IntervalSum
      BY <2>1, <2>6, <2>8, <1>5 DEF Line, n
    <3>2. printed' = Append(printed, line) BY <2>6, <2>8
    <3>3. IntervalSum = SumFunctionOnSet(e, Streams) BY DEF IntervalSum, SumFunction
    <3>4. \A i \in Streams : e[i] = ivals[i][n].bytes /\ e[i] \in Int BY <2>5, <2>6, <2>8
    <3> HIDE DEF line, e
    <3>5. \A i \in Streams : f[i] \in Int /\ e[i] \in Int /\ g[i] = f[i] + e[i]
      BY <3>4, <2>4, <2>8, <1>1
    <3>6. SumFunctionOnSet(g, Streams) = SumFunctionOnSet(f, Streams) + SumFunctionOnSet(e, Streams)
      BY <3>5, <1>0, SumAdds
    <3>7. ShownSum(Append(printed, line), ivals[1]) =
            ShownSum(printed, ivals[1]) + IF ivals[1][line.interval].omitted THEN 0 ELSE line.bytes
      BY <3>1, <1>3, ShownStep
    <3>8. InReport' = InReport + IntervalSum
      BY <3>1, <3>2, <3>7, <2>1, <2>8, <1>3, <1>4
    <3>9. IntervalSum \in Nat BY <2>6, <2>8
    <3>10. SumFunctionOnSet(f, Streams) \in Int BY <1>0, <1>1, SumInt
    <3> QED BY <3>3, <3>6, <3>8, <3>9, <3>10, <1>0, <1>3 DEF g
  <2> QED BY <2>7, <2>8
<1> QED BY <1>7, <1>8

\* What the invariant says of a test.
LEMMA AddsUp == ASSUME Loop, Data, Marks, Balance, Prints PROVE IntervalsAddUp
<1>1. ASSUME NEW i \in Streams
      PROVE  InIntervals(i) + (IF omitting \/ (pc = "zero" /\ stream = i) THEN 0 ELSE str[i].interval)
               <= Summary(i) + Late
  <2>1. /\ str[i].interval \in Nat /\ Counting(str[i]) \in 0..1 /\ Read(i) \in Nat /\ Late \in 0..1
        /\ InIntervals(i) \in Nat /\ Summary(i) \in Nat
    BY BalanceTypes
  <2>2. CASE omitting
    <3>1. \A k \in 1..Len(ivals[i]) : ivals[i][k].omitted BY <2>2 DEF Marks
    <3>2. InIntervals(i) = 0 BY <3>1, InIntervalsIs, KeptSumType
    <3> QED BY <2>1, <2>2, <3>2
  <2>3. CASE ~omitting
    <3>1. InIntervals(i) + str[i].interval - Read(i) + Counting(str[i]) <= Summary(i) + Late
      BY <2>3 DEF Balance, Balanced
    <3>2. CASE pc = "zero" /\ stream = i
      <4>1. Read(i) <= str[i].interval BY <3>2 DEF Balance, Balanced, Read
      <4> QED BY <2>1, <2>3, <3>1, <3>2, <4>1
    <3>3. CASE ~(pc = "zero" /\ stream = i)
      <4>1. Read(i) = 0 BY <3>3 DEF Read
      <4> QED BY <2>1, <2>3, <3>1, <3>3, <4>1
    <3> QED BY <3>2, <3>3
  <2> QED BY <2>2, <2>3
<1>2. summary # NoSummary => InReport <= summary + Late * params.streams
  <2> SUFFICES ASSUME summary # NoSummary PROVE InReport <= summary + Late * params.streams
    OBVIOUS
  <2> DEFINE f == HandledSums
             e == [i \in Streams |-> Summary(i)]
             h == [i \in Streams |-> Late]
             g == [i \in Streams |-> Summary(i) + Late]
  <2>1. /\ IsFiniteSet(Streams) /\ Cardinality(Streams) = params.streams /\ params.streams \in Nat
        /\ Late \in Nat
    BY ControlFacts, StreamsAre DEF Late
  <2>2. ASSUME NEW i \in Streams
        PROVE  f[i] \in Int /\ e[i] \in Int /\ h[i] \in Int /\ g[i] \in Int
               /\ f[i] <= g[i] /\ g[i] = e[i] + h[i] /\ h[i] <= Late
    <3>1. /\ str[i].interval \in Nat /\ InIntervals(i) \in Nat /\ Summary(i) \in Nat
      BY BalanceTypes
    <3>2. f[i] \in Nat /\ f[i] <= InIntervals(i) BY HandledSumIs
    <3>3. InIntervals(i) <= Summary(i) + Late BY <1>1, <3>1, <2>1
    <3>4. e[i] = Summary(i) /\ h[i] = Late /\ g[i] = Summary(i) + Late OBVIOUS
    <3> HIDE DEF f, e, h, g
    <3> QED BY <3>1, <3>2, <3>3, <3>4, <2>1
  <2>3. summary = SumFunctionOnSet(e, Streams) BY DEF Prints, SummaryTotal, SumFunction
  <2>4. InReport <= SumFunctionOnSet(f, Streams) BY DEF Prints
  <2> HIDE DEF f, e, h, g
  <2>5. SumFunctionOnSet(f, Streams) <= SumFunctionOnSet(g, Streams) BY <2>1, <2>2, SumGrows
  <2>6. SumFunctionOnSet(g, Streams) = SumFunctionOnSet(e, Streams) + SumFunctionOnSet(h, Streams)
    BY <2>1, <2>2, SumAdds
  <2>7. SumFunctionOnSet(h, Streams) <= Late * Cardinality(Streams) BY <2>1, <2>2, SumAtMost
  <2>8. /\ SumFunctionOnSet(f, Streams) \in Int /\ SumFunctionOnSet(e, Streams) \in Int
        /\ SumFunctionOnSet(h, Streams) \in Int
    BY <2>1, <2>2, SumInt
  <2>9. InReport \in Nat /\ Late * params.streams \in Int BY <2>1, InReportIs
  <2> DEFINE all == Late * params.streams
  <2>10. SumFunctionOnSet(h, Streams) <= all /\ all \in Int BY <2>1, <2>7, <2>9
  <2> HIDE DEF all
  <2>11. InReport <= summary + all
    BY <2>3, <2>4, <2>5, <2>6, <2>8, <2>9, <2>10
  <2> QED BY <2>11 DEF all
<1> QED BY <1>1, <1>2 DEF IntervalsAddUp, Late

\* The intervals never show more than the summary but for the blocks under way when the
\* omitted part ends, one for each stream, and neither does what is printed of them.
THEOREM IntervalsAddUpAlways == Spec => []IntervalsAddUp
<1> DEFINE Inv == Loop /\ Data /\ Reported /\ Marks /\ Balance /\ Prints
<1>1. Init => Inv BY LoopInit, DataInit, ReportedInit, BalanceInit, PrintsInit
<1>2. Inv /\ [Next]_vars => Inv'
  <2> SUFFICES ASSUME Inv, [Next]_vars PROVE Inv' OBVIOUS
  <2>1. Loop' /\ Data' /\ (Keeping \/ Telling) BY LoopStep, DataStep
  <2>2. params' = params BY StepKeepsTest
  <2>3. Reported' BY <2>1, <2>2, ReportedStep
  <2>4. Marks' BY <2>1, MarksStep
  <2>5. Balance' BY <2>1, BalanceStep
  <2>6. Prints'
    <3>1. InReport' <= SumFunctionOnSet(HandledSums', Streams') BY <2>1, <2>2, InReportStep
    <3>2. /\ summary' # NoSummary <=> state' = "reported"
          /\ summary' # NoSummary => summary' = SummaryTotal'
      BY SummaryStep
    <3> QED BY <3>1, <3>2 DEF Prints, NoSummary
  <2> QED BY <2>1, <2>3, <2>4, <2>5, <2>6
<1>3. Inv => IntervalsAddUp BY AddsUp
<1> QED BY <1>1, <1>2, <1>3, PTL DEF Spec
-----------------------------------------------------------------------------
(* The clock of the timers: its two parts stand for microseconds.          *)

LEMMA Parts ==
  ASSUME Clock, NEW t \in Normal
  PROVE /\ t.secs \in Nat /\ t.secs < Word /\ t.usecs \in Nat /\ t.usecs < Million
        /\ InUsecs(t) \in Nat
<1>1. /\ t.secs \in Nat /\ t.secs < Word /\ t.usecs \in Nat /\ t.usecs < Million
  BY SMT DEF Clock, Normal, Time
<1>2. QED
  BY <1>1, SMT DEF Clock, InUsecs

LEMMA Small ==
  ASSUME NEW m \in Nat \ {0}, NEW a \in Nat, a < m
  PROVE a % m = a
  BY SMT

LEMMA SecondsCount ==
  ASSUME NEW m \in Nat \ {0}, NEW a \in Nat, NEW b \in Nat, a < b
  PROVE a * m + m <= b * m
  BY SMT

LEMMA Division ==
  ASSUME NEW m \in Nat \ {0}, NEW a \in Nat
  PROVE a \div m \in Nat /\ a % m \in Nat /\ a % m < m /\ a = (a \div m) * m + (a % m)
  BY SMT

\* list_add and tmr_run compare clock values by their two parts: that is the order of the
\* microseconds they stand for.
THEOREM CompareIsOrder ==
  ASSUME Clock, NEW s \in Normal, NEW t \in Normal
  PROVE /\ Compare(s, t) = -1 <=> InUsecs(s) < InUsecs(t)
        /\ Compare(s, t) = 0 <=> InUsecs(s) = InUsecs(t)
        /\ Compare(s, t) = 1 <=> InUsecs(s) > InUsecs(t)
<1>1. CASE s.secs < t.secs
  <2>1. s.secs * Million + Million <= t.secs * Million
    BY <1>1, Parts, SecondsCount, SMT DEF Clock
  <2>2. QED
    BY <1>1, <2>1, Parts, SMT DEF Clock, Compare, InUsecs
<1>2. CASE s.secs > t.secs
  <2>1. t.secs * Million + Million <= s.secs * Million
    BY <1>2, Parts, SecondsCount, SMT DEF Clock
  <2>2. QED
    BY <1>2, <2>1, Parts, SMT DEF Clock, Compare, InUsecs
<1>3. CASE s.secs = t.secs
  BY <1>3, Parts, SMT DEF Clock, Compare, InUsecs
<1>4. QED
  BY <1>1, <1>2, <1>3, Parts, SMT

LEMMA MinusIsExact ==
  ASSUME Clock, NEW s \in Normal, NEW t \in Normal, Compare(s, t) = 1
  PROVE Minus(s, t) \in Normal /\ InUsecs(Minus(s, t)) = InUsecs(s) - InUsecs(t)
<1>1. CASE s.usecs < t.usecs
  <2> DEFINE secs == s.secs - t.secs - 1
             usecs == s.usecs + Million - t.usecs
  <2>1. secs \in Nat /\ secs < Word /\ usecs \in Nat /\ usecs < Million /\ Million <= Word
    BY <1>1, Parts, SMT DEF Clock, Compare
  <2>2. secs % Word = secs /\ usecs % Word = usecs
    BY <2>1, Small, SMT DEF Clock
  <2>3. Minus(s, t) = [secs |-> secs, usecs |-> usecs]
    BY <1>1, <2>2, Zenon DEF Minus
  <2>4. secs * Million = s.secs * Million - t.secs * Million - Million
    BY Parts, SMT DEF Clock
  <2>5. InUsecs(Minus(s, t)) = InUsecs(s) - InUsecs(t)
    BY <2>1, <2>3, <2>4, Parts, SMT DEF InUsecs, Clock
  <2>6. QED
    BY <2>1, <2>3, <2>5, SMT DEF Normal, Time, Clock
<1>2. CASE ~(s.usecs < t.usecs)
  <2> DEFINE secs == s.secs - t.secs
             usecs == s.usecs - t.usecs
  <2>1. secs \in Nat /\ secs < Word /\ usecs \in Nat /\ usecs < Million /\ Million <= Word
    BY <1>2, Parts, SMT DEF Clock, Compare
  <2>2. secs % Word = secs /\ usecs % Word = usecs
    BY <2>1, Small, SMT DEF Clock
  <2>3. Minus(s, t) = [secs |-> secs, usecs |-> usecs]
    BY <1>2, <2>2, Zenon DEF Minus
  <2>4. secs * Million = s.secs * Million - t.secs * Million
    BY Parts, SMT DEF Clock
  <2>5. InUsecs(Minus(s, t)) = InUsecs(s) - InUsecs(t)
    BY <2>1, <2>3, <2>4, Parts, SMT DEF InUsecs, Clock
  <2>6. QED
    BY <2>1, <2>3, <2>5, SMT DEF Normal, Time, Clock
<1>3. QED
  BY <1>1, <1>2, Zenon

\* The borrowed second of iperf_time_diff never wraps: the length of an interval, the rest of
\* a timer and the time without data are the distance of the two clock values, and past
\* says whether the first one is not after the second.
THEOREM DiffIsExact ==
  ASSUME Clock, NEW s \in Normal, NEW t \in Normal
  PROVE /\ Diff(s, t).diff \in Normal
        /\ Diff(s, t).past => InUsecs(Diff(s, t).diff) = InUsecs(t) - InUsecs(s)
        /\ ~Diff(s, t).past => InUsecs(Diff(s, t).diff) = InUsecs(s) - InUsecs(t)
        /\ Diff(s, t).past <=> InUsecs(s) <= InUsecs(t)
<1>1. CASE Compare(s, t) = 0
  <2>1. Diff(s, t) = [diff |-> [secs |-> 0, usecs |-> 0], past |-> TRUE]
    BY <1>1, Zenon DEF Diff
  <2>2. InUsecs([secs |-> 0, usecs |-> 0]) = 0 /\ [secs |-> 0, usecs |-> 0] \in Normal
    BY SMT DEF InUsecs, Normal, Time, Clock
  <2>3. QED
    BY <1>1, <2>1, <2>2, CompareIsOrder, Parts, SMT
<1>2. CASE Compare(s, t) = 1
  <2>1. Diff(s, t) = [diff |-> Minus(s, t), past |-> FALSE]
    BY <1>2, SMT DEF Diff
  <2>2. QED
    BY <1>2, <2>1, CompareIsOrder, MinusIsExact, Parts, SMT
<1>3. CASE Compare(s, t) = -1
  <2>1. Diff(s, t) = [diff |-> Minus(t, s), past |-> TRUE]
    BY <1>3, SMT DEF Diff
  <2>2. Compare(t, s) = 1
    BY <1>3, Parts, SMT DEF Compare
  <2>3. QED
    BY <1>3, <2>1, <2>2, CompareIsOrder, MinusIsExact, Parts, SMT
<1>4. QED
  BY <1>1, <1>2, <1>3, CompareIsOrder, Parts, SMT

\* A periodic timer that tmr_run moves on by iperf_time_add_usecs keeps to its period without
\* drift, until the bits of the seconds are used up.
THEOREM AddIsExact ==
  ASSUME Clock, NEW t \in Normal, NEW n \in Nat, InUsecs(t) + n < Word * Million
  PROVE AddUsecs(t, n) \in Normal /\ InUsecs(AddUsecs(t, n)) = InUsecs(t) + n
<1> DEFINE usecs == t.usecs + n
           carry == usecs \div Million
           rest == usecs % Million
           secs == t.secs + carry
<1>1. usecs \in Nat
  BY Parts, SMT
<1>2. carry \in Nat /\ rest \in Nat /\ rest < Million /\ usecs = carry * Million + rest
  <2>1. Million \in Nat \ {0}
    BY Zenon DEF Clock
  <2>2. QED
    BY <1>1, <2>1, Division, Zenon
<1> HIDE DEF carry, rest
<1>3. secs \in Nat /\ secs * Million + rest = InUsecs(t) + n
  <2>1. secs \in Nat /\ secs * Million = t.secs * Million + carry * Million
    BY <1>2, Parts, SMT DEF Clock
  <2>2. QED
    BY <1>1, <1>2, <2>1, Parts, SMT DEF InUsecs, Clock
<1>4. secs < Word
  <2>1. SUFFICES ASSUME Word <= secs PROVE FALSE
    BY <1>3, SMT DEF Clock
  <2>2. Word * Million <= secs * Million
    BY <1>3, <2>1, SecondsCount, SMT DEF Clock
  <2>3. QED
    BY <1>2, <1>3, <2>2, Parts, SMT DEF Clock
<1>5. secs % Word = secs
  BY <1>3, <1>4, Small, SMT DEF Clock
<1>6. AddUsecs(t, n) = [secs |-> secs, usecs |-> rest]
  BY <1>5, Zenon DEF AddUsecs, carry, rest
<1>7. QED
  BY <1>2, <1>3, <1>4, <1>6, SMT DEF InUsecs, Normal, Time, Clock
=============================================================================
