--------------------------- MODULE ListingsProofs ---------------------------
(***************************************************************************)
(* Proofs about what is listed while it is written to, for every number of *)
(* rows, pages, limits and steps between them.                             *)
(*                                                                         *)
(* Pages: a walk through the pages of a queue at work returns no row twice *)
(* and misses none (QueuePages).  Walked says what lies before the cursor; *)
(* a page is the beginning of what lies after it (LeastFacts).             *)
(*                                                                         *)
(* Lists: the same for transactions, whose rows move in the order of the   *)
(* pages when they are dated, may come back, and are loaded after they     *)
(* were selected (TransactionLists).  What is in a place is known by its   *)
(* rank (SortedFacts, TopFacts).  WalkInv adds to Walked that a row taken  *)
(* once stays behind the cursor even if it is dated or saved again, that   *)
(* the ids still to load are new, and what the limit has left.             *)
(***************************************************************************)
EXTENDS SqliteQueueProofs, Listings

(* Pages *)

\* Of finitely many sets of keys one contains no other.
HasSmallest(T) == \E x \in T : \A y \in T : y \subseteq x => y = x

LEMMA OneHasSmallest ==
    ASSUME NEW S, IsFiniteSet(S), NEW T \in SUBSET SUBSET S, T # {}
    PROVE  HasSmallest(T)
<1> DEFINE R == StrictSubsetOrdering(S)
<1>1. IsWellFoundedOn(R, FiniteSubsetsOf(S))
  BY FS_StrictSubsetOrderingWellFounded
<1>2. T \subseteq FiniteSubsetsOf(S)
  BY FS_FiniteSubsetsOfFinite
<1> HIDE DEF R
<1>3. PICK x \in T : \A y \in T : ~(<<y, x>> \in R)
  BY <1>1, <1>2, WFMin
<1>4. \A y \in T : y \subseteq x => y = x
  BY <1>3 DEF R, StrictSubsetOrdering
<1> QED
  BY <1>4 DEF HasSmallest

LEMMA HasLeast ==
    ASSUME NEW S \in SUBSET Nat, IsFiniteSet(S), S # {}
    PROVE  \E x \in S : \A y \in S : x <= y
<1> DEFINE below(x) == {y \in S : y < x}
           sets == {below(x) : x \in S}
<1>1. sets \in SUBSET SUBSET S /\ sets # {}
  OBVIOUS
<1>2. \E b \in sets : \A c \in sets : c \subseteq b => c = b
  <2> HIDE DEF sets
  <2>1. HasSmallest(sets)
    BY <1>1, OneHasSmallest
  <2> QED
    BY <2>1 DEF HasSmallest
<1>3. PICK x \in S : \A c \in sets : c \subseteq below(x) => c = below(x)
  BY <1>2
<1>4. ASSUME NEW y \in S, y < x PROVE FALSE
  <2>1. ~(y < y) /\ \A z \in S : z < y => z < x
    BY <1>4, S \subseteq Nat
  <2>2. below(y) \subseteq below(x) /\ y \in below(x) /\ y \notin below(y)
    BY <1>4, <2>1, Zenon
  <2> QED
    BY <1>3, <2>2
<1> QED
  BY <1>4

LEMMA HasGreatest ==
    ASSUME NEW S \in SUBSET Nat, IsFiniteSet(S), S # {}
    PROVE  \E x \in S : \A y \in S : y <= x
<1> DEFINE above(x) == {y \in S : x < y}
           sets == {above(x) : x \in S}
<1>1. sets \in SUBSET SUBSET S /\ sets # {}
  OBVIOUS
<1>2. \E a \in sets : \A c \in sets : c \subseteq a => c = a
  <2> HIDE DEF sets
  <2>1. HasSmallest(sets)
    BY <1>1, OneHasSmallest
  <2> QED
    BY <2>1 DEF HasSmallest
<1>3. PICK x \in S : \A c \in sets : c \subseteq above(x) => c = above(x)
  BY <1>2
<1>4. ASSUME NEW y \in S, x < y PROVE FALSE
  <2>1. ~(y < y) /\ \A z \in S : y < z => x < z
    BY <1>4, S \subseteq Nat
  <2>2. above(y) \subseteq above(x) /\ y \in above(x) /\ y \notin above(y)
    BY <1>4, <2>1, Zenon
  <2> QED
    BY <1>3, <2>2
<1> QED
  BY <1>4

\* A page is the beginning of what is left: all of it, or up to its last key.
LEMMA LeastFacts ==
    ASSUME NEW keys \in SUBSET Nat, IsFiniteSet(keys), NEW n \in Nat \ {0}
    PROVE  /\ Least(keys, n) \subseteq keys
           /\ Cardinality(keys) <= n => Least(keys, n) = keys
           /\ Cardinality(keys) > n =>
                 /\ Last(Least(keys, n)) \in Least(keys, n)
                 /\ \A k \in keys : k <= Last(Least(keys, n)) <=> k \in Least(keys, n)
<1> DEFINE below(k) == {j \in keys : j < k}
           page == Least(keys, n)
<1>1. page = {k \in keys : Cardinality(below(k)) < n}
  BY DEF Least
<1>2. /\ Cardinality(keys) \in Nat
      /\ \A k \in keys : IsFiniteSet(below(k)) /\ Cardinality(below(k)) \in Nat
  <2>1. \A k \in keys : IsFiniteSet(below(k))
    BY FS_Subset
  <2> QED
    BY <2>1, FS_CardinalityType
<1>3. ASSUME Cardinality(keys) <= n, NEW k \in keys PROVE k \in page
  <2>1. below(k) \subseteq keys /\ k \notin below(k)
    OBVIOUS
  <2>2. Cardinality(below(k)) <= Cardinality(keys) /\ Cardinality(below(k)) # Cardinality(keys)
    BY <2>1, FS_Subset
  <2> HIDE DEF below
  <2> QED
    BY <1>1, <1>2, <1>3, <2>2
<1>4. ASSUME Cardinality(keys) > n
      PROVE  Last(page) \in page /\ \A k \in keys : k <= Last(page) <=> k \in page
  <2>1. keys # {}
    BY <1>4, FS_EmptySet
  <2>2. PICK least \in keys : \A y \in keys : least <= y
    BY <2>1, HasLeast
  <2>3. below(least) = {}
    <3>1. \A j \in keys : j \in Nat /\ ~(j < least)
      BY <2>2
    <3> QED
      BY <3>1
  <2>4. least \in page
    BY <1>1, <2>2, <2>3, FS_EmptySet
  <2>5. page \in SUBSET Nat /\ IsFiniteSet(page) /\ page # {} /\ page \subseteq keys
    BY <1>1, <2>4, FS_Subset
  <2> HIDE DEF page
  <2>6. Last(page) \in page /\ \A j \in page : j <= Last(page)
    BY <2>5, HasGreatest DEF Last
  <2>7. PICK last \in page : last = Last(page)
    BY <2>6
  <2>8. ASSUME NEW k \in keys, k <= last PROVE k \in page
    <3>1. last \in keys
      BY <2>5
    <3>2. \A j \in keys : j < k => j < last
      BY <2>8, <3>1, keys \subseteq Nat
    <3>3. below(k) \subseteq below(last)
      BY <3>2, Zenon
    <3>4. Cardinality(below(k)) <= Cardinality(below(last))
      BY <1>2, <3>1, <3>3, FS_Subset
    <3>5. Cardinality(below(last)) < n
      BY <1>1
    <3>6. Cardinality(below(k)) \in Nat /\ Cardinality(below(last)) \in Nat
      BY <1>2, <3>1
    <3> HIDE DEF below
    <3> QED
      BY <1>1, <3>4, <3>5, <3>6
  <2> QED
    BY <2>6, <2>7, <2>8
<1> QED
  BY <1>1, <1>3, <1>4

\* What a walk has behind it: nothing that it returned lies after the cursor, and of
\* what has matched since it began nothing before the cursor was passed over.
Readers == [pc : {"rest", "between", "end"}, list : Lists, filter : SUBSET Statuses,
            cursor : Nat, returned : SUBSET Nat, again : BOOLEAN, steady : SUBSET Nat]

NothingPassedOver ==
    reader.pc = "between" =>
        /\ \A k \in reader.returned : k <= reader.cursor
        /\ \A k \in reader.steady : k <= reader.cursor => k \in reader.returned
        /\ reader.steady \subseteq Keys(reader.list, reader.filter)

Walked ==
    /\ reader \in Readers
    /\ reader.pc = "rest" => reader = AtRest
    /\ ~reader.again
    /\ NothingPassedOver
    /\ reader.pc = "end" => reader.steady \subseteq reader.returned

\* Whatever is listed has finitely many keys, and none of them is before the first page.
LEMMA KeyFacts ==
    ASSUME QueueInv, NEW list \in Lists, NEW filter
    PROVE  Keys(list, filter) \in SUBSET (Nat \ {0}) /\ IsFiniteSet(Keys(list, filter))
<1>1. CASE list = <<"items", 0>>
  <2> DEFINE keys == {i \in Items : row[i].status \in filter \ {"absent"}}
  <2>1. Keys(list, filter) = keys
    BY <1>1 DEF Keys, KeysIn
  <2>2. keys \subseteq Items /\ keys \in SUBSET Items
    OBVIOUS
  <2>3. IsFiniteSet(keys)
    BY <2>2, QueueAssumption, FS_Subset
  <2> QED
    BY <2>1, <2>2, <2>3, QueueAssumption
<1>2. ASSUME NEW i \in Items, list = <<"attempts", i>>
      PROVE  Keys(list, filter) \in SUBSET (Nat \ {0}) /\ IsFiniteSet(Keys(list, filter))
  <2>1. Keys(list, filter) = DOMAIN ledger[i]
    BY <1>2 DEF Keys, KeysIn
  <2>2. Len(ledger[i]) \in Nat /\ DOMAIN ledger[i] = 1..Len(ledger[i])
    BY InvFacts
  <2>3. PICK n \in Nat : n = Len(ledger[i])
    BY <2>2
  <2>4. IsFiniteSet(1..n)
    BY FS_Interval
  <2> QED
    BY <2>1, <2>2, <2>3, <2>4
<1>3. ASSUME NEW i \in Items, list = <<"poison", i>>
      PROVE  Keys(list, filter) \in SUBSET (Nat \ {0}) /\ IsFiniteSet(Keys(list, filter))
  <2>1. Keys(list, filter) = 1..poison[i]
    BY <1>3 DEF Keys, KeysIn
  <2>2. poison[i] \in Nat
    BY DEF QueueInv, TypeOK
  <2>3. IsFiniteSet(1..poison[i])
    BY <2>2, FS_Interval
  <2> QED
    BY <2>1, <2>2, <2>3
<1> QED
  BY <1>1, <1>2, <1>3 DEF Lists

LEMMA ReadPageWalked ==
    ASSUME QueueInv, Walked,
           NEW list \in Lists, NEW filter \in FiltersOf(list), NEW limit \in Limits,
           ReadPage(list, filter, limit)
    PROVE  Walked'
<1> DEFINE keys == Keys(list, filter)
           rest == After(keys, reader.cursor)
           page == Least(rest, limit)
           steady == IF reader.pc = "rest" THEN keys ELSE reader.steady
           more == Cardinality(rest) > limit
<1>1. /\ reader \in Readers /\ ~reader.again /\ reader.cursor \in Nat
      /\ reader.returned \in SUBSET Nat
      /\ reader.pc = "rest" => reader = AtRest
      /\ reader.pc \in {"rest", "between"}
  BY DEF Walked, Readers, ReadPage
<1>2. keys \in SUBSET (Nat \ {0}) /\ keys \in SUBSET Nat /\ IsFiniteSet(keys)
  BY KeyFacts
<1>3. rest = {k \in keys : k > reader.cursor} /\ rest \in SUBSET Nat
      /\ IsFiniteSet(rest) /\ Cardinality(rest) \in Nat
  <2>1. rest = {k \in keys : k > reader.cursor}
    BY DEF After
  <2>2. rest \in SUBSET keys
    BY <2>1
  <2>3. IsFiniteSet(rest)
    BY <1>2, <2>2, FS_Subset
  <2> QED
    BY <1>2, <2>1, <2>2, <2>3, FS_CardinalityType
<1>4. limit \in Nat \ {0} /\ filter \in SUBSET Statuses
  BY PagesAssumption DEF FiltersOf
<1>5. /\ page \subseteq rest
      /\ ~more => page = rest
      /\ more => /\ Last(page) \in page
                 /\ \A k \in rest : k <= Last(page) <=> k \in page
  <2> HIDE DEF rest
  <2>1. Cardinality(rest) <= limit \/ more
    BY <1>3, <1>4
  <2> QED
    BY <1>3, <1>4, <2>1, LeastFacts
<1>6. /\ \A k \in reader.returned : k <= reader.cursor
      /\ \A k \in steady : k <= reader.cursor => k \in reader.returned
      /\ steady \subseteq keys
  <2>1. CASE reader.pc = "rest"
    <3>1. reader.returned = {} /\ reader.cursor = 0
      BY <1>1, <2>1 DEF AtRest
    <3>2. \A k \in keys : ~(k <= 0)
      BY <1>2
    <3> HIDE DEF keys
    <3> QED
      BY <2>1, <3>1, <3>2
  <2>2. CASE reader.pc = "between"
    <3>1. list = reader.list /\ filter = reader.filter
      BY <2>2 DEF ReadPage, Fits
    <3> QED
      BY <2>2, <3>1 DEF Walked, NothingPassedOver
  <2> QED
    BY <1>1, <2>1, <2>2
<1>7. reader' = [pc |-> IF more THEN "between" ELSE "end",
                 list |-> list, filter |-> filter,
                 cursor |-> IF more THEN Last(page) ELSE 0,
                 returned |-> reader.returned \cup page,
                 again |-> reader.again \/ page \cap reader.returned # {},
                 steady |-> steady]
  BY DEF ReadPage, NextCursor
<1>8. Keys(list, filter)' = keys
  BY DEF ReadPage, Keys, vars
<1> HIDE DEF keys, rest, page, steady, more
<1>9. page \cap reader.returned = {}
  BY <1>1, <1>2, <1>3, <1>5, <1>6
<1>10. page \in SUBSET Nat /\ steady \in SUBSET Nat
  BY <1>2, <1>3, <1>5, <1>6
<1>11. CASE more
  <2>1. PICK last \in page : last = Last(page)
    BY <1>5, <1>11
  <2>2. last \in Nat /\ last \in rest /\ reader.cursor < last
    BY <1>1, <1>2, <1>3, <1>5
  <2>3. reader' = [pc |-> "between", list |-> list, filter |-> filter, cursor |-> last,
                   returned |-> reader.returned \cup page, again |-> FALSE,
                   steady |-> steady]
    BY <1>1, <1>7, <1>9, <1>11, <2>1
  <2>4. reader' \in Readers
    BY <1>1, <1>4, <1>10, <2>2, <2>3 DEF Readers
  <2>5. \A k \in reader.returned \cup page : k <= last
    <3>1. \A k \in reader.returned : k <= last
      BY <1>1, <1>6, <2>2
    <3> QED
      BY <1>5, <1>11, <2>1, <3>1
  <2>6. \A k \in steady : k <= last => k \in reader.returned \cup page
    <3> SUFFICES ASSUME NEW k \in steady, k <= last, k \notin reader.returned
                 PROVE  k \in page
      OBVIOUS
    <3>1. k \in Nat /\ k \in keys /\ ~(k <= reader.cursor)
      BY <1>6, <1>10
    <3>2. k \in rest
      BY <1>1, <1>3, <3>1
    <3> QED
      BY <1>5, <1>11, <2>1, <3>2
  <2>7. NothingPassedOver'
    BY <1>6, <1>8, <2>3, <2>5, <2>6 DEF NothingPassedOver
  <2> QED
    BY <2>3, <2>4, <2>7 DEF Walked
<1>12. CASE ~more
  <2>1. reader' = [pc |-> "end", list |-> list, filter |-> filter, cursor |-> 0,
                   returned |-> reader.returned \cup page, again |-> FALSE,
                   steady |-> steady]
    BY <1>1, <1>7, <1>9, <1>12
  <2>2. reader' \in Readers
    BY <1>1, <1>4, <1>10, <2>1 DEF Readers
  <2>3. steady \subseteq reader.returned \cup page
    <3> SUFFICES ASSUME NEW k \in steady, k \notin reader.returned PROVE k \in page
      OBVIOUS
    <3>1. k \in Nat /\ k \in keys /\ ~(k <= reader.cursor)
      BY <1>6, <1>10
    <3> QED
      BY <1>1, <1>3, <1>5, <1>12, <3>1
  <2>4. NothingPassedOver'
    BY <2>1 DEF NothingPassedOver
  <2> QED
    BY <2>1, <2>2, <2>3, <2>4 DEF Walked
<1> QED
  BY <1>11, <1>12

LEMMA AtRestWalked == ASSUME reader' = AtRest PROVE Walked'
<1>1. <<"items", 0>> \in Lists
  BY DEF Lists
<1>2. AtRest \in Readers
  BY <1>1 DEF AtRest, Readers
<1> QED
  BY <1>2 DEF Walked, NothingPassedOver, AtRest

LEMMA QueueStepWalked ==
    ASSUME Walked, QueueStep
    PROVE  Walked'
<1>1. CASE reader.pc # "between"
  BY <1>1, AtRestWalked DEF QueueStep
<1>2. CASE reader.pc = "between"
  <2> DEFINE now == KeysIn(row', ledger', poison', reader.list, reader.filter)
  <2>1. reader' = [reader EXCEPT !.steady = reader.steady \cap now] /\ reader \in Readers
    BY <1>2 DEF QueueStep, Walked
  <2>2. Keys(reader.list, reader.filter)' = KeysIn(row', ledger', poison', reader'.list,
                                                   reader'.filter)
    BY DEF Keys
  <2> HIDE DEF now
  <2>3. /\ reader'.pc = "between" /\ reader'.list = reader.list
        /\ reader'.filter = reader.filter /\ reader'.cursor = reader.cursor
        /\ reader'.returned = reader.returned /\ reader'.again = reader.again
        /\ reader'.steady = reader.steady \cap now
    BY <1>2, <2>1 DEF Readers
  <2>4. reader' \in Readers
    BY <2>1 DEF Readers
  <2>5. reader'.steady \subseteq Keys(reader.list, reader.filter)'
    BY <2>2, <2>3 DEF now
  <2>6. NothingPassedOver'
    BY <1>2, <2>3, <2>5 DEF Walked, NothingPassedOver
  <2> QED
    BY <2>3, <2>4, <2>6 DEF Walked
<1> QED
  BY <1>1, <1>2

LEMMA WalkedStep == QueueInv /\ Walked /\ [PageNext]_pageVars => (QueueInv /\ Walked)'
<1> SUFFICES ASSUME QueueInv, Walked, [PageNext]_pageVars PROVE (QueueInv /\ Walked)'
  OBVIOUS
<1>1. [Next]_vars
  BY DEF PageNext, pageVars, QueueStep, ReadPage, PageFails
<1>2. QueueInv'
  BY <1>1, QueueInvStep
<1>3. ASSUME NEW list \in Lists, NEW filter \in FiltersOf(list), NEW limit \in Limits,
             ReadPage(list, filter, limit)
      PROVE  Walked'
  BY <1>3, ReadPageWalked
<1>4. ASSUME NEW list \in Lists, NEW filter \in FiltersOf(list), NEW limit \in Limits,
             PageFails(list, filter, limit)
      PROVE  Walked'
  BY <1>4, AtRestWalked DEF PageFails
<1>5. CASE QueueStep
  BY <1>2, <1>5, QueueStepWalked
<1>6. CASE UNCHANGED pageVars
  <2>1. Walked'
    BY <1>6 DEF pageVars, vars, Walked, NothingPassedOver, Keys
  <2> QED
    BY <1>2, <2>1
<1> QED
  BY <1>2, <1>3, <1>4, <1>5, <1>6 DEF PageNext

(***************************************************************************)
(* No row is returned twice and none that matched all along is missed,     *)
(* however many pages a walk has and whatever the queue does between them. *)
(***************************************************************************)
THEOREM PagesAlwaysMissNothing == PageSpec => []PagesMissNothing
<1>1. PageInit => QueueInv /\ Walked
  <2> SUFFICES ASSUME PageInit PROVE QueueInv /\ Walked
    OBVIOUS
  <2>1. <<"items", 0>> \in Lists
    BY DEF Lists
  <2>2. reader = AtRest /\ AtRest \in Readers
    BY <2>1 DEF PageInit, AtRest, Readers
  <2> QED
    BY <2>2, QueueInvInit DEF PageInit, Walked, NothingPassedOver, AtRest
<1>2. QueueInv /\ Walked /\ [PageNext]_pageVars => (QueueInv /\ Walked)'
  BY WalkedStep
<1>3. QueueInv /\ Walked => PagesMissNothing
  BY DEF Walked, PagesMissNothing
<1> QED
  BY <1>1, <1>2, <1>3, PTL DEF PageSpec
-----------------------------------------------------------------------------
(* Lists *)

\* Keys and ids order rows totally, and a rank counts those before.
LEMMA RankFacts ==
    ASSUME NEW ids \in SUBSET Nat, IsFiniteSet(ids),
           NEW key, \A t \in ids : key[t] \in Nat
    PROVE  /\ Cardinality(ids) \in Nat
           /\ \A t \in ids : Rank(ids, key, t) \in 0..(Cardinality(ids) - 1)
           /\ \A t, u \in ids : Before(key, t, u) <=> Rank(ids, key, t) < Rank(ids, key, u)
           /\ \A t, u \in ids : Rank(ids, key, t) = Rank(ids, key, u) => t = u
<1> DEFINE below(t) == {u \in ids : Before(key, u, t)}
           rank(t) == Cardinality(below(t))
<1>1. /\ \A t \in ids : ~Before(key, t, t)
      /\ \A t, u \in ids : Before(key, t, u) \/ Before(key, u, t) \/ t = u
      /\ \A t, u, v \in ids : Before(key, t, u) /\ Before(key, u, v) => Before(key, t, v)
  BY ids \subseteq Nat DEF Before
<1>2. \A t \in ids : Rank(ids, key, t) = rank(t)
  BY DEF Rank
<1>3. Cardinality(ids) \in Nat
  BY FS_CardinalityType
<1>4. ASSUME NEW t \in ids
      PROVE  IsFiniteSet(below(t)) /\ rank(t) \in 0..(Cardinality(ids) - 1)
  <2>1. below(t) \in SUBSET ids /\ below(t) # ids
    BY <1>1, <1>4
  <2> HIDE DEF below
  <2>2. IsFiniteSet(below(t)) /\ rank(t) <= Cardinality(ids) /\ rank(t) # Cardinality(ids)
    BY <2>1, FS_Subset
  <2>3. rank(t) \in Nat
    BY <2>2, FS_CardinalityType
  <2> HIDE DEF rank
  <2> QED
    BY <1>3, <2>2, <2>3
<1>5. ASSUME NEW t \in ids, NEW u \in ids, Before(key, t, u)
      PROVE  rank(t) < rank(u)
  <2>1. below(t) \subseteq below(u)
    BY <1>1, <1>5
  <2>2. t \in below(u) /\ t \notin below(t)
    BY <1>1, <1>5
  <2> HIDE DEF below
  <2>3. rank(t) <= rank(u) /\ rank(t) # rank(u)
    BY <1>4, <2>1, <2>2, FS_Subset
  <2>4. rank(t) \in Nat /\ rank(u) \in Nat
    BY <1>3, <1>4
  <2> HIDE DEF rank
  <2> QED
    BY <2>3, <2>4
<1> HIDE DEF below, rank
<1>6. \A t \in ids : rank(t) \in 0..(Cardinality(ids) - 1)
  BY <1>4
<1>7. \A t, u \in ids : Before(key, t, u) => rank(t) < rank(u)
  BY <1>5
<1>8. \A t, u \in ids : Before(key, t, u) <=> rank(t) < rank(u)
  <2> SUFFICES ASSUME NEW t \in ids, NEW u \in ids, rank(t) < rank(u)
               PROVE  Before(key, t, u)
    BY <1>7
  <2>1. rank(t) \in Int /\ rank(u) \in Int
    BY <1>3, <1>6
  <2>2. ~(rank(u) < rank(t)) /\ rank(t) # rank(u)
    BY <2>1
  <2> QED
    BY <1>1, <1>7, <2>2
<1>9. \A t, u \in ids : rank(t) = rank(u) => t = u
  <2> SUFFICES ASSUME NEW t \in ids, NEW u \in ids, rank(t) = rank(u)
               PROVE  t = u
    OBVIOUS
  <2>1. rank(t) \in Int /\ rank(u) \in Int
    BY <1>3, <1>6
  <2>2. ~(rank(u) < rank(t)) /\ ~(rank(t) < rank(u))
    BY <2>1
  <2> QED
    BY <1>1, <1>7, <2>2
<1> QED
  BY <1>2, <1>3, <1>6, <1>8, <1>9

\* As many rows as ranks, each of another rank: every rank is taken.
LEMMA EveryRank ==
    ASSUME NEW ids \in SUBSET Nat, IsFiniteSet(ids),
           NEW key, \A t \in ids : key[t] \in Nat,
           NEW n \in 0..(Cardinality(ids) - 1)
    PROVE  \E t \in ids : Rank(ids, key, t) = n
<1> DEFINE rank == [t \in ids |-> Rank(ids, key, t)]
           ranks == 0..(Cardinality(ids) - 1)
<1>1. Cardinality(ids) \in Nat /\ \A t \in ids : rank[t] \in ranks
  BY RankFacts
<1>2. \A t, u \in ids : rank[t] = rank[u] => t = u
  BY RankFacts
<1>3. rank \in [ids -> ranks]
  BY <1>1
<1>4. IsFiniteSet(ranks) /\ Cardinality(ranks) = Cardinality(ids)
  <2>1. PICK size \in Nat : size = Cardinality(ids)
    BY <1>1
  <2>2. 0 \in Int /\ size - 1 \in Int
    BY <2>1
  <2>3. IsFiniteSet(0..(size - 1))
        /\ Cardinality(0..(size - 1)) = IF 0 > size - 1 THEN 0 ELSE (size - 1) - 0 + 1
    BY <2>2, FS_Interval
  <2>4. Cardinality(0..(size - 1)) = size
    BY <2>1, <2>3
  <2> QED
    BY <2>1, <2>3, <2>4
<1> HIDE DEF ranks, rank
<1>5. rank \in Injection(ids, ranks)
  BY <1>2, <1>3 DEF Injection, IsInjective
<1>6. rank \in Surjection(ids, ranks)
  BY <1>4, <1>5, FS_Injection
<1>7. \E t \in ids : rank[t] = n
  BY <1>6 DEF Surjection, ranks
<1> QED
  BY <1>7 DEF rank

\* ORDER BY lists each row once, in the place its rank gives it.
LEMMA SortedFacts ==
    ASSUME NEW ids \in SUBSET Nat, IsFiniteSet(ids),
           NEW key, \A t \in ids : key[t] \in Nat
    PROVE  /\ Sorted(ids, key) \in Seq(ids)
           /\ Len(Sorted(ids, key)) = Cardinality(ids)
           /\ \A n \in 1..Cardinality(ids) :
                 Sorted(ids, key)[n] \in ids /\ Rank(ids, key, Sorted(ids, key)[n]) = n - 1
           /\ \A t \in ids : /\ Rank(ids, key, t) + 1 \in 1..Cardinality(ids)
                             /\ Sorted(ids, key)[Rank(ids, key, t) + 1] = t
<1> DEFINE s == Sorted(ids, key)
           size == Cardinality(ids)
<1>1. s = [n \in 1..size |-> CHOOSE t \in ids : Rank(ids, key, t) = n - 1]
  BY DEF Sorted
<1>2. size \in Nat
  BY FS_CardinalityType
<1>3. ASSUME NEW n \in 1..size PROVE s[n] \in ids /\ Rank(ids, key, s[n]) = n - 1
  <2>1. n - 1 \in 0..(size - 1)
    BY <1>2
  <2>2. \E t \in ids : Rank(ids, key, t) = n - 1
    BY <2>1, EveryRank
  <2> QED
    BY <1>1, <2>2
<1> HIDE DEF s
<1>4. s \in [1..size -> ids]
  BY <1>1, <1>3
<1>5. s \in Seq(ids) /\ Len(s) = size
  BY <1>2, <1>4
<1>6. ASSUME NEW t \in ids
      PROVE  Rank(ids, key, t) + 1 \in 1..size /\ s[Rank(ids, key, t) + 1] = t
  <2>1. PICK r \in 0..(size - 1) : r = Rank(ids, key, t)
    BY RankFacts
  <2>2. r + 1 \in 1..size /\ (r + 1) - 1 = r
    BY <1>2
  <2>3. s[r + 1] \in ids /\ Rank(ids, key, s[r + 1]) = r
    BY <1>3, <2>2
  <2>4. s[r + 1] = t
    BY <2>1, <2>3, RankFacts
  <2> QED
    BY <2>1, <2>2, <2>4
<1> QED
  BY <1>3, <1>5, <1>6 DEF s

\* LIMIT takes the rows up to a last one, or all of them.
LEMMA TopFacts ==
    ASSUME NEW ids \in SUBSET Nat, IsFiniteSet(ids),
           NEW key, \A t \in ids : key[t] \in Nat,
           NEW n \in Nat \cup {Unlimited}
    PROVE  LET page == Top(Sorted(ids, key), n)
               more == n # Unlimited /\ Cardinality(ids) > n
           IN  /\ page \in Seq(ids)
               /\ \A j, k \in 1..Len(page) : page[j] = page[k] => j = k
               /\ n # Unlimited => Len(page) <= n
               /\ ~more => Range(page) = ids
               /\ more /\ n # 0 =>
                     /\ page # <<>>
                     /\ page[Len(page)] \in Range(page)
                     /\ \A t \in ids : ~Before(key, page[Len(page)], t) <=> t \in Range(page)
<1> DEFINE s == Sorted(ids, key)
           size == Cardinality(ids)
           page == Top(s, n)
           more == n # Unlimited /\ size > n
<1>1. /\ s \in Seq(ids) /\ Len(s) = size /\ size \in Nat
      /\ \A k \in 1..size : s[k] \in ids /\ Rank(ids, key, s[k]) = k - 1
      /\ \A t \in ids : Rank(ids, key, t) + 1 \in 1..size /\ s[Rank(ids, key, t) + 1] = t
  BY SortedFacts, FS_CardinalityType
<1>2. page = IF n = Unlimited \/ size < n THEN s ELSE SubSeq(s, 1, n)
  BY <1>1 DEF Top
<1> HIDE DEF s, page
<1>3. PICK m \in 0..size : /\ m = (IF more THEN n ELSE size)
                           /\ n # Unlimited => m <= n
  BY <1>1 DEF Unlimited
<1>4. page \in Seq(ids) /\ Len(page) = m /\ \A k \in 1..m : page[k] = s[k]
  <2>1. CASE n = Unlimited \/ size < n
    BY <1>1, <1>2, <1>3, <2>1
  <2>2. CASE n # Unlimited /\ ~(size < n)
    <3>1. n \in Nat /\ n <= size /\ m = n
      BY <1>1, <1>3, <2>2
    <3>2. page = SubSeq(s, 1, m)
      BY <1>2, <2>2, <3>1
    <3> QED
      BY <1>1, <3>1, <3>2
  <2> QED
    BY <2>1, <2>2
<1>5. Range(page) = {s[k] : k \in 1..m}
  <2>1. DOMAIN page = 1..m
    BY <1>4
  <2> QED
    BY <1>4, <2>1 DEF Range
<1>6. \A j, k \in 1..m : page[j] = page[k] => j = k
  <2> SUFFICES ASSUME NEW j \in 1..m, NEW k \in 1..m, s[j] = s[k] PROVE j = k
    BY <1>4
  <2>1. Rank(ids, key, s[j]) = j - 1 /\ Rank(ids, key, s[k]) = k - 1
    BY <1>1
  <2> QED
    BY <2>1
<1>7. \A t \in ids : t \in Range(page) <=> Rank(ids, key, t) < m
  <2> SUFFICES ASSUME NEW t \in ids
               PROVE  t \in Range(page) <=> Rank(ids, key, t) < m
    OBVIOUS
  <2>1. PICK k \in 1..size : k = Rank(ids, key, t) + 1
    BY <1>1
  <2>2. s[k] = t /\ Rank(ids, key, t) = k - 1
    <3>1. s[k] = t
      BY <1>1, <2>1, Zenon
    <3> QED
      BY <1>1, <3>1
  <2>3. \A j \in 1..m : s[j] = t => j = k
    <3>1. \A j \in 1..m : j \in 1..size
      <4>1. Cardinality(ids) \in Nat
        BY FS_CardinalityType
      <4> QED
        BY <4>1
    <3>2. \A j \in 1..m : s[j] = t => j - 1 = k - 1
      BY <1>1, <2>2, <3>1
    <3> QED
      BY <2>1, <3>2
  <2>4. t \in Range(page) <=> k \in 1..m
    BY <1>5, <2>2, <2>3, Zenon
  <2>5. k \in Int /\ m \in Int /\ (k - 1 < m <=> k \in 1..m)
    <3>1. Cardinality(ids) \in Nat
      BY FS_CardinalityType
    <3> QED
      BY <3>1
  <2> QED
    BY <2>2, <2>4, <2>5
<1>8. ASSUME ~more PROVE Range(page) = ids
  <2>1. \A t \in ids : Rank(ids, key, t) < m
    BY <1>3, <1>8, RankFacts
  <2>2. Range(page) \subseteq ids
    BY <1>1, <1>3, <1>5
  <2> QED
    BY <1>7, <2>1, <2>2
<1>9. ASSUME more, n # 0
      PROVE  /\ page # <<>> /\ page[Len(page)] \in Range(page)
             /\ \A t \in ids : ~Before(key, page[Len(page)], t) <=> t \in Range(page)
  <2>1. m \in 1..size
    BY <1>3, <1>9 DEF Unlimited
  <2>2. PICK last \in ids : last = s[m]
    BY <1>1, <2>1
  <2>3. page[Len(page)] = last /\ last \in Range(page) /\ Rank(ids, key, last) = m - 1
    BY <1>1, <1>4, <1>5, <2>1, <2>2
  <2>4. ASSUME NEW t \in ids PROVE ~Before(key, last, t) <=> t \in Range(page)
    <3>1. Before(key, last, t) <=> m - 1 < Rank(ids, key, t)
      BY <2>3, RankFacts
    <3>2. Rank(ids, key, t) \in 0..(size - 1)
      BY RankFacts
    <3> QED
      BY <1>7, <2>1, <3>1, <3>2
  <2> QED
    BY <1>4, <2>1, <2>3, <2>4
<1> QED
  BY <1>3, <1>4, <1>6, <1>8, <1>9 DEF page, s

\* A sequence has no more values than places.
LEMMA FewValues ==
    ASSUME NEW S, NEW s \in Seq(S)
    PROVE  IsFiniteSet(Range(s)) /\ Cardinality(Range(s)) <= Len(s)
<1>1. PICK n \in Nat : n = Len(s)
  OBVIOUS
<1>2. DOMAIN s = 1..n /\ s \in [1..n -> Range(s)]
  BY <1>1 DEF Range
<1>3. s \in Surjection(1..n, Range(s))
  BY <1>2 DEF Surjection, Range
<1>4. IsFiniteSet(1..n) /\ Cardinality(1..n) = n
  BY FS_Interval
<1> QED
  BY <1>1, <1>3, <1>4, FS_Surjection

\* No time is as late as the one that undated rows sort at.
LEMMA UndatedIsLast ==
    ASSUME NEW t \in Ids
    PROVE  Undated \in Nat /\ \A u \in Ids : Age[u] < Undated
<1> DEFINE ages == {Age[u] : u \in Ids}
           Oldest(n) == n \in ages /\ \A u \in Ids : Age[u] <= n
           oldest == CHOOSE n \in ages : \A u \in Ids : Age[u] <= n
<1>1. ages \in SUBSET Nat /\ ages # {} /\ Age \in [Ids -> ages] /\ IsFiniteSet(Ids)
  BY ListsAssumption
<1>2. Age \in Surjection(Ids, ages)
  BY <1>1 DEF Surjection
<1>3. IsFiniteSet(ages)
  <2> HIDE DEF ages
  <2> QED
    BY <1>1, <1>2, FS_Surjection
<1>4. \E n \in ages : \A a \in ages : a <= n
  <2> HIDE DEF ages
  <2> QED
    BY <1>1, <1>3, HasGreatest
<1>5. \E n \in ages : \A u \in Ids : Age[u] <= n
  BY <1>4
<1>6. oldest \in ages /\ \A u \in Ids : Age[u] <= oldest
  BY <1>5
<1>7. Undated = 1 + oldest
  BY DEF Undated
<1> HIDE DEF oldest
<1>8. PICK n \in Nat : n = oldest
  BY <1>1, <1>6
<1>9. \A u \in Ids : Age[u] \in Nat
  BY ListsAssumption
<1> QED
  BY <1>6, <1>7, <1>8, <1>9
\* A row of that age would not come after the cursor.
NotBeyond(age, t, cursor) == age < cursor.age \/ (age = cursor.age /\ t <= cursor.id)

Walks == [kind : {"none", "query", "records", "list"},
          phase : {"rest", "between", "paging", "loading", "end"},
          query : Queries, cursor : [age : Nat, id : Nat],
          left : Nat \cup {Unlimited}, more : BOOLEAN, toLoad : Seq(Ids),
          returned : SUBSET Ids, omitted : SUBSET Ids, again : BOOLEAN,
          allowed : Nat \cup {Unlimited}, steady : SUBSET Ids]

\* The rows a walk has taken, and whether its cursor is to be used again.
Selected == walk.returned \cup walk.omitted \cup Range(walk.toLoad)
GoesOn == walk.phase \in {"between", "paging"} \/ (walk.phase = "loading" /\ walk.more)

\* The ids to load are new to the caller, and each is there once.
Loading ==
    /\ walk.phase = "loading" <=> walk.toLoad # <<>>
    /\ walk.phase \in {"paging", "loading"} => walk.kind \in {"records", "list"}
    /\ Range(walk.toLoad) \cap (walk.returned \cup walk.omitted) = {}
    /\ \A j, k \in 1..Len(walk.toLoad) : walk.toLoad[j] = walk.toLoad[k] => j = k

\* A steady row exists, in a place of its own in the pages, and is not lost.
SteadyKept ==
    /\ \A t \in walk.steady : stored[t] # Absent
    /\ walk.kind \in {"query", "records"} => walk.steady \subseteq Wanted(stored, walk.query)
    /\ walk.omitted \cap walk.steady = {}
    /\ ~GoesOn => walk.steady \subseteq Selected

\* What was taken is behind the cursor: a row that is dated, or removed and saved
\* again, has its age for a key and stays there.  What is owed and not taken is ahead.
Behind(taken, cursor) ==
    \A t \in taken : /\ NotBeyond(Age[t], t, cursor)
                     /\ stored[t] # Absent => ~Beyond(t, cursor)
Ahead(owed, taken, cursor) == \A t \in owed : t \in taken \/ Beyond(t, cursor)

CursorDivides ==
    GoesOn =>
        /\ walk.kind \in {"query", "records"}
        /\ Behind(Selected, walk.cursor)
        /\ Ahead(walk.steady, Selected, walk.cursor)

\* The limits given, less what may still be taken, are not exceeded.
Counted ==
    /\ walk.phase = "between" => walk.allowed # Unlimited
    /\ walk.phase = "paging" => walk.left # 0
    /\ walk.kind = "records" => (walk.allowed = Unlimited <=> walk.left = Unlimited)
    /\ walk.allowed # Unlimited =>
          Cardinality(Selected) + (IF walk.kind = "records" THEN walk.left ELSE 0)
              <= walk.allowed

\* The inductive invariant of a walk over the transactions.
WalkInv ==
    /\ stored \in [Ids -> Rows \cup {Absent}]
    /\ walk \in Walks
    /\ walk.phase = "rest" => walk = NoWalk
    /\ walk.phase # "rest" => walk.kind # "none"
    /\ ~walk.again
    /\ Loading
    /\ SteadyKept
    /\ CursorDivides
    /\ Counted

LEMMA KeyTypes ==
    ASSUME NEW rows, NEW t \in Ids
    PROVE  /\ PageKey(rows, t) \in Nat \ {0} /\ ListKey(rows, t) \in Nat
           /\ Age[t] \in Nat \ {0} /\ Age[t] <= PageKey(rows, t)
           /\ t \in Nat
<1>1. Undated \in Nat /\ Age[t] < Undated
  BY UndatedIsLast
<1>2. Age[t] \in Nat \ {0} /\ t \in Nat
  BY ListsAssumption
<1> QED
  BY <1>1, <1>2 DEF PageKey, ListKey

\* One page: what it takes of the rows ahead, and where the next one starts.
LEMMA PageFacts ==
    ASSUME WalkInv, NEW query, NEW n \in Nat \ {0}
    PROVE  LET ahead == {t \in Wanted(stored, query) : Beyond(t, walk.cursor)}
               page == Top(NextPage(query), n)
               more == Len(NextPage(query)) > n
           IN  /\ ahead \in SUBSET Ids
               /\ page \in Seq(Ids) /\ Len(page) <= n
               /\ \A j, k \in 1..Len(page) : page[j] = page[k] => j = k
               /\ Range(page) \subseteq ahead
               /\ ~more => Range(page) = ahead
               /\ more => /\ page # <<>>
                          /\ \E last \in ahead :
                                /\ last \in Range(page)
                                /\ CursorAt(page) = [age |-> PageKey(stored, last), id |-> last]
                          /\ \A t \in ahead : Beyond(t, CursorAt(page)) <=> t \notin Range(page)
<1> DEFINE ahead == {t \in Wanted(stored, query) : Beyond(t, walk.cursor)}
           key == [t \in Ids |-> PageKey(stored, t)]
           page == Top(NextPage(query), n)
           more == Len(NextPage(query)) > n
           last == page[Len(page)]
<1>1. ahead \in SUBSET Ids /\ ahead \in SUBSET Nat /\ IsFiniteSet(ahead)
  <2>1. ahead \in SUBSET Ids
    BY DEF Wanted
  <2> HIDE DEF ahead
  <2> QED
    BY <2>1, ListsAssumption, FS_Subset
<1>2. NextPage(query) = Sorted(ahead, key)
  BY DEF NextPage
<1>3. \A t \in ahead : key[t] = PageKey(stored, t) /\ key[t] \in Nat /\ t \in Nat
  BY <1>1, KeyTypes
<1> HIDE DEF ahead, key
<1>4. more <=> n # Unlimited /\ Cardinality(ahead) > n
  BY <1>1, <1>2, <1>3, SortedFacts DEF Unlimited
<1>5. page = Top(Sorted(ahead, key), n) /\ n \in Nat \cup {Unlimited}
  BY <1>2
<1> HIDE DEF page, more
<1>6. /\ page \in Seq(ahead)
      /\ \A j, k \in 1..Len(page) : page[j] = page[k] => j = k
      /\ n # Unlimited => Len(page) <= n
      /\ ~more => Range(page) = ahead
      /\ more => /\ page # <<>>
                 /\ last \in Range(page)
                 /\ \A t \in ahead : ~Before(key, last, t) <=> t \in Range(page)
  <2>1. \A t \in ahead : key[t] \in Nat
    BY <1>3
  <2>2. n \in Nat \cup {Unlimited} /\ n # 0
    OBVIOUS
  <2> HIDE DEF last
  <2>3. LET p == Top(Sorted(ahead, key), n)
            m == n # Unlimited /\ Cardinality(ahead) > n
        IN  /\ p \in Seq(ahead)
            /\ \A j, k \in 1..Len(p) : p[j] = p[k] => j = k
            /\ n # Unlimited => Len(p) <= n
            /\ ~m => Range(p) = ahead
            /\ m /\ n # 0 =>
                  /\ p # <<>>
                  /\ p[Len(p)] \in Range(p)
                  /\ \A t \in ahead : ~Before(key, p[Len(p)], t) <=> t \in Range(p)
    BY <1>1, <2>1, <2>2, TopFacts, Zenon
  <2> QED
    BY <1>4, <1>5, <2>2, <2>3, Zenon DEF last
<1>7. page \in Seq(Ids) /\ Range(page) \subseteq ahead /\ Len(page) <= n
  <2>1. n # Unlimited /\ page \in Seq(ahead)
    BY <1>6 DEF Unlimited
  <2>2. Range(page) \subseteq ahead
    BY <2>1 DEF Range
  <2>3. page \in Seq(Ids)
    <3>1. Len(page) \in Nat /\ page \in [1..Len(page) -> ahead]
      BY <2>1
    <3>2. page \in [1..Len(page) -> Ids]
      BY <1>1, <3>1, Zenon
    <3> QED
      BY <3>1, <3>2
  <2> QED
    BY <1>6, <2>1, <2>2, <2>3
<1>8. ASSUME more
      PROVE  /\ \E l \in ahead : /\ l \in Range(page)
                                 /\ CursorAt(page) = [age |-> PageKey(stored, l), id |-> l]
             /\ \A t \in ahead : Beyond(t, CursorAt(page)) <=> t \notin Range(page)
  <2>1. PICK l \in ahead : l = last /\ l \in Range(page)
    BY <1>6, <1>7, <1>8
  <2>2. CursorAt(page) = [age |-> PageKey(stored, l), id |-> l]
    BY <2>1 DEF CursorAt
  <2>3. \A t \in ahead : Before(key, l, t) <=> Beyond(t, CursorAt(page))
    BY <1>3, <2>2 DEF Before, Beyond
  <2> QED
    BY <1>6, <1>8, <2>1, <2>2, <2>3
<1> QED
  BY <1>1, <1>6, <1>7, <1>8 DEF ahead, page, more

\* A page takes rows ahead of the cursor only, and moves the cursor past them.
LEMMA PageDivides ==
    ASSUME WalkInv, NEW query, NEW n \in Nat \ {0},
           NEW owed, owed \subseteq Wanted(stored, query),
           NEW taken \in SUBSET Ids,
           Behind(taken, walk.cursor), Ahead(owed, taken, walk.cursor)
    PROVE  LET page == Top(NextPage(query), n)
               more == Len(NextPage(query)) > n
           IN  /\ Range(page) \cap taken = {}
               /\ ~more => owed \subseteq taken \cup Range(page)
               /\ more => /\ CursorAt(page) \in [age : Nat, id : Nat]
                          /\ Behind(taken \cup Range(page), CursorAt(page))
                          /\ Ahead(owed, taken \cup Range(page), CursorAt(page))
<1> DEFINE ahead == {t \in Wanted(stored, query) : Beyond(t, walk.cursor)}
           page == Top(NextPage(query), n)
           more == Len(NextPage(query)) > n
<1>1. /\ ahead \in SUBSET Ids /\ Range(page) \subseteq ahead
      /\ ~more => Range(page) = ahead
      /\ more => /\ \E last \in ahead :
                       CursorAt(page) = [age |-> PageKey(stored, last), id |-> last]
                 /\ \A t \in ahead : Beyond(t, CursorAt(page)) <=> t \notin Range(page)
  BY PageFacts
<1>2. \A t \in ahead : stored[t] # Absent /\ Beyond(t, walk.cursor)
  BY DEF Wanted
<1>3. \A t \in owed : t \in taken \/ t \in ahead
  BY DEF Ahead
<1> HIDE DEF ahead, page, more
<1>4. Range(page) \cap taken = {}
  BY <1>1, <1>2 DEF Behind
<1>5. ASSUME more
      PROVE  /\ CursorAt(page) \in [age : Nat, id : Nat]
             /\ Behind(taken \cup Range(page), CursorAt(page))
             /\ Ahead(owed, taken \cup Range(page), CursorAt(page))
  <2>1. PICK last \in ahead : CursorAt(page) = [age |-> PageKey(stored, last), id |-> last]
    BY <1>1, <1>5
  <2> DEFINE next == [age |-> PageKey(stored, last), id |-> last]
  <2>2. next \in [age : Nat, id : Nat] /\ walk.cursor \in [age : Nat, id : Nat]
    BY <1>1, KeyTypes DEF WalkInv, Walks
  <2>3. Beyond(last, walk.cursor)
    BY <1>2
  <2>4. ASSUME NEW t \in taken
        PROVE  NotBeyond(Age[t], t, next) /\ (stored[t] # Absent => ~Beyond(t, next))
    <3>1. /\ t \in Nat /\ Age[t] \in Nat /\ PageKey(stored, t) \in Nat
          /\ last \in Nat /\ PageKey(stored, last) \in Nat
      BY <1>1, KeyTypes
    <3>2. NotBeyond(Age[t], t, walk.cursor) /\ (stored[t] # Absent => ~Beyond(t, walk.cursor))
      BY DEF Behind
    <3> QED
      BY <2>2, <2>3, <3>1, <3>2 DEF NotBeyond, Beyond
  <2>5. ASSUME NEW t \in Range(page)
        PROVE  NotBeyond(Age[t], t, next) /\ ~Beyond(t, next)
    <3>1. /\ t \in Nat /\ Age[t] \in Nat /\ PageKey(stored, t) \in Nat
          /\ Age[t] <= PageKey(stored, t)
          /\ last \in Nat /\ PageKey(stored, last) \in Nat
      BY <1>1, KeyTypes
    <3>2. ~Beyond(t, next)
      BY <1>1, <1>5, <2>1
    <3> QED
      BY <2>2, <3>1, <3>2 DEF NotBeyond, Beyond
  <2>6. Ahead(owed, taken \cup Range(page), next)
    BY <1>1, <1>3, <1>5, <2>1 DEF Ahead
  <2> QED
    BY <2>1, <2>2, <2>4, <2>5, <2>6 DEF Behind
<1> QED
  BY <1>1, <1>3, <1>4, <1>5 DEF page, more

\* Before the first page nothing is taken, and everything is ahead.
LEMMA StartDivides ==
    ASSUME NEW owed \in SUBSET Ids
    PROVE  Behind({}, Start) /\ Ahead(owed, {}, Start)
<1>1. \A t \in owed : PageKey(stored, t) > 0
  BY KeyTypes
<1> QED
  BY <1>1 DEF Behind, Ahead, Start, Beyond

LEMMA NoWalkKeeps ==
    ASSUME stored \in [Ids -> Rows \cup {Absent}], walk = NoWalk
    PROVE  WalkInv
<1>1. NoWalk \in Walks
  BY DEF NoWalk, Walks, Queries, Start, Unlimited
<1>2. Range(walk.toLoad) = {} /\ Selected = {} /\ walk.steady = {} /\ ~walk.again
  BY DEF NoWalk, Range, Selected
<1>3. Loading
  BY <1>2 DEF Loading, NoWalk
<1>4. SteadyKept
  BY <1>2 DEF SteadyKept
<1>5. CursorDivides
  BY DEF CursorDivides, GoesOn, NoWalk
<1>6. Counted
  BY <1>2, FS_EmptySet DEF Counted, NoWalk, Unlimited
<1>7. walk.phase = "rest"
  BY DEF NoWalk
<1> QED
  BY <1>1, <1>2, <1>3, <1>4, <1>5, <1>6, <1>7 DEF WalkInv

\* What a change of the rows leaves of a walk.
LEMMA StoreKeeps ==
    ASSUME WalkInv, NEW rows \in [Ids -> Rows \cup {Absent}], Store(rows),
           \A t \in Ids : rows[t] # Absent =>
               \/ PageKey(rows, t) = Age[t]
               \/ stored[t] # Absent /\ PageKey(rows, t) = PageKey(stored, t)
    PROVE  WalkInv'
<1> DEFINE steady == Steady(rows)
<1>1. walk \in Walks /\ walk' = [walk EXCEPT !.steady = steady] /\ stored' = rows
  BY DEF WalkInv, Store
<1>2. /\ steady \subseteq walk.steady
      /\ \A t \in steady : rows[t] # Absent
      /\ walk.kind \in {"query", "records"} =>
            /\ steady \subseteq Wanted(rows, walk.query)
            /\ \A t \in steady : PageKey(rows, t) = PageKey(stored, t)
  <2>1. CASE walk.kind \in {"list", "none"}
    BY <2>1 DEF Steady
  <2>2. CASE ~(walk.kind \in {"list", "none"})
    BY <2>2 DEF Steady, Wanted
  <2> QED
    BY <2>1, <2>2
<1> HIDE DEF steady
<1>3. walk.steady \in SUBSET Ids /\ steady \in SUBSET Ids
  BY <1>1, <1>2 DEF Walks
<1>4. /\ walk' \in Walks
      /\ walk'.kind = walk.kind /\ walk'.phase = walk.phase /\ walk'.query = walk.query
      /\ walk'.cursor = walk.cursor /\ walk'.left = walk.left /\ walk'.more = walk.more
      /\ walk'.toLoad = walk.toLoad /\ walk'.returned = walk.returned
      /\ walk'.omitted = walk.omitted /\ walk'.again = walk.again
      /\ walk'.allowed = walk.allowed /\ walk'.steady = steady
  BY <1>1, <1>3 DEF Walks
<1>5. Selected' = Selected /\ Selected \in SUBSET Ids /\ GoesOn' = GoesOn
  <2>1. Selected' = Selected /\ GoesOn' = GoesOn
    BY <1>4 DEF Selected, GoesOn
  <2>2. walk.toLoad \in Seq(Ids) /\ walk.returned \cup walk.omitted \in SUBSET Ids
    BY <1>1 DEF Walks
  <2> QED
    BY <2>1, <2>2 DEF Selected, Range
<1>6. Loading'
  BY <1>4 DEF WalkInv, Loading
<1>7. SteadyKept'
  <2>1. SteadyKept
    BY DEF WalkInv
  <2> QED
    BY <1>1, <1>2, <1>4, <1>5, <2>1 DEF SteadyKept, Wanted
<1>8. CursorDivides'
  <2> SUFFICES ASSUME GoesOn
               PROVE  /\ walk.kind \in {"query", "records"}
                      /\ Behind(Selected, walk.cursor)'
                      /\ Ahead(walk.steady, Selected, walk.cursor)'
    BY <1>5, <1>4 DEF CursorDivides
  <2>1. /\ walk.kind \in {"query", "records"}
        /\ Behind(Selected, walk.cursor)
        /\ Ahead(walk.steady, Selected, walk.cursor)
    BY DEF WalkInv, CursorDivides
  <2>2. walk.cursor \in [age : Nat, id : Nat]
    BY <1>1 DEF Walks
  <2>3. ASSUME NEW t \in Selected
        PROVE  /\ NotBeyond(Age[t], t, walk.cursor)
               /\ rows[t] # Absent => ~(\/ PageKey(rows, t) > walk.cursor.age
                                        \/ /\ PageKey(rows, t) = walk.cursor.age
                                           /\ t > walk.cursor.id)
    <3>1. t \in Nat /\ Age[t] \in Nat /\ PageKey(rows, t) \in Nat
      BY <1>5, KeyTypes
    <3>2. NotBeyond(Age[t], t, walk.cursor) /\ (stored[t] # Absent => ~Beyond(t, walk.cursor))
      BY <2>1 DEF Behind
    <3>3. CASE PageKey(rows, t) = Age[t]
      BY <2>2, <3>1, <3>2, <3>3 DEF NotBeyond
    <3>4. CASE stored[t] # Absent /\ PageKey(rows, t) = PageKey(stored, t)
      BY <3>2, <3>4 DEF Beyond
    <3> QED
      BY <1>5, <3>2, <3>3, <3>4
  <2>4. Behind(Selected, walk.cursor)'
    BY <1>1, <1>4, <1>5, <2>3 DEF Behind, NotBeyond, Beyond
  <2>5. Ahead(walk.steady, Selected, walk.cursor)'
    BY <1>1, <1>2, <1>4, <1>5, <2>1 DEF Ahead, Beyond
  <2> QED
    BY <2>1, <2>4, <2>5
<1>9. Counted'
  BY <1>4, <1>5 DEF WalkInv, Counted
<1>10. walk'.phase = "rest" => walk' = NoWalk
  <2> SUFFICES ASSUME walk.phase = "rest" PROVE walk' = NoWalk
    BY <1>4
  <2>1. walk = NoWalk
    BY DEF WalkInv
  <2>2. steady = {} /\ walk.steady = {}
    BY <1>2, <2>1 DEF NoWalk
  <2> QED
    BY <1>1, <2>1, <2>2 DEF NoWalk
<1>11. (walk'.phase # "rest" => walk'.kind # "none") /\ ~walk'.again
  BY <1>4 DEF WalkInv
<1>12. stored' \in [Ids -> Rows \cup {Absent}]
  BY <1>1
<1> QED
  BY <1>4, <1>6, <1>7, <1>8, <1>9, <1>10, <1>11, <1>12 DEF WalkInv

LEMMA SaveRowKeeps ==
    ASSUME WalkInv, NEW t \in Ids, SaveRow(t)
    PROVE  WalkInv'
<1>1. stored \in [Ids -> Rows \cup {Absent}]
  BY DEF WalkInv
<1>2. PICK about \in BOOLEAN, created \in {"utc", "local", "none"} :
          /\ created # "utc" => created = stored[t].created
          /\ Store([stored EXCEPT ![t] = [about |-> about, created |-> created]])
  BY DEF SaveRow
<1> DEFINE rows == [stored EXCEPT ![t] = [about |-> about, created |-> created]]
<1>3. [about |-> about, created |-> created] \in Rows
  BY DEF Rows
<1>4. rows \in [Ids -> Rows \cup {Absent}]
  BY <1>1, <1>3
<1>5. /\ \A u \in Ids : u # t => rows[u] = stored[u]
      /\ rows[t] = [about |-> about, created |-> created]
  BY <1>1
<1>6. Store(rows)
  BY <1>2
<1> HIDE DEF rows
<1>7. ASSUME NEW u \in Ids, rows[u] # Absent
      PROVE  \/ PageKey(rows, u) = Age[u]
             \/ stored[u] # Absent /\ PageKey(rows, u) = PageKey(stored, u)
  <2>1. CASE u # t
    BY <1>5, <1>7, <2>1 DEF PageKey
  <2>2. CASE u = t /\ created = "utc"
    BY <1>5, <2>2 DEF PageKey
  <2>3. CASE u = t /\ created # "utc"
    BY <1>2, <1>5, <2>3 DEF PageKey, Absent
  <2> QED
    BY <2>1, <2>2, <2>3
<1> QED
  BY <1>4, <1>6, <1>7, StoreKeeps

LEMMA CleanUpKeeps ==
    ASSUME WalkInv, NEW t \in Ids, CleanUp(t)
    PROVE  WalkInv'
<1> DEFINE rows == [stored EXCEPT ![t] = Absent]
<1>1. stored \in [Ids -> Rows \cup {Absent}] /\ Store(rows)
  BY DEF WalkInv, CleanUp
<1>2. /\ rows \in [Ids -> Rows \cup {Absent}] /\ rows[t] = Absent
      /\ \A u \in Ids : u # t => rows[u] = stored[u]
  BY <1>1
<1> HIDE DEF rows
<1>3. ASSUME NEW u \in Ids, rows[u] # Absent
      PROVE  stored[u] # Absent /\ PageKey(rows, u) = PageKey(stored, u)
  BY <1>2, <1>3 DEF PageKey
<1> QED
  BY <1>1, <1>2, <1>3, StoreKeeps

\* Where a walk stands when it asks for a page: at the start, with nothing taken, or
\* after what it took before.
LEMMA WalkStands ==
    ASSUME WalkInv, NEW query \in Queries,
           walk.phase = "rest" \/ (walk.phase = "between" /\ walk.query = query)
    PROVE  LET owed == SteadyFrom(Wanted(stored, query))
           IN  /\ owed \in SUBSET Ids /\ owed \subseteq Wanted(stored, query)
               /\ \A t \in owed : stored[t] # Absent
               /\ walk.toLoad = <<>> /\ Selected = walk.returned \cup walk.omitted
               /\ Selected \in SUBSET Ids
               /\ walk.omitted \cap owed = {}
               /\ Behind(Selected, walk.cursor) /\ Ahead(owed, Selected, walk.cursor)
               /\ walk.allowed \in Nat
               /\ Cardinality(Selected) \in Nat /\ Cardinality(Selected) <= walk.allowed
<1> DEFINE owed == SteadyFrom(Wanted(stored, query))
<1>1. walk \in Walks /\ Wanted(stored, query) \in SUBSET Ids
  BY DEF WalkInv, Wanted
<1>2. walk.toLoad = <<>> /\ Selected = walk.returned \cup walk.omitted
  <2>1. walk.toLoad = <<>>
    BY DEF WalkInv, Loading
  <2> QED
    BY <2>1 DEF Selected, Range
<1>3. Selected \in SUBSET Ids /\ Cardinality(Selected) \in Nat
  <2>1. Selected \in SUBSET Ids
    BY <1>1, <1>2 DEF Walks
  <2>2. IsFiniteSet(Selected)
    BY <2>1, ListsAssumption, FS_Subset
  <2> QED
    BY <2>1, <2>2, FS_CardinalityType
<1>4. CASE walk.phase = "rest"
  <2>1. walk = NoWalk /\ owed = Wanted(stored, query)
    BY <1>4 DEF WalkInv, SteadyFrom
  <2>2. Selected = {} /\ walk.omitted = {} /\ walk.cursor = Start /\ walk.allowed = 0
    BY <1>2, <2>1 DEF NoWalk
  <2>3. Behind({}, Start) /\ Ahead(Wanted(stored, query), {}, Start)
    BY <1>1, StartDivides
  <2>4. Cardinality({}) = 0
    BY FS_EmptySet
  <2>5. \A t \in Wanted(stored, query) : stored[t] # Absent
    BY DEF Wanted
  <2>6. /\ owed \in SUBSET Ids /\ owed \subseteq Wanted(stored, query)
        /\ \A t \in owed : stored[t] # Absent
        /\ walk.omitted \cap owed = {}
    BY <1>1, <2>1, <2>2, <2>5
  <2>7. Behind(Selected, walk.cursor) /\ Ahead(owed, Selected, walk.cursor)
    BY <2>1, <2>2, <2>3
  <2>8. walk.allowed \in Nat /\ Cardinality(Selected) <= walk.allowed
    BY <2>2, <2>4
  <2> QED
    BY <1>2, <1>3, <2>6, <2>7, <2>8
<1>5. CASE walk.phase = "between"
  <2>1. owed = walk.steady /\ walk.query = query
    BY <1>5 DEF SteadyFrom
  <2>2. GoesOn
    BY <1>5 DEF GoesOn
  <2>3. /\ walk.kind \in {"query", "records"}
        /\ Behind(Selected, walk.cursor) /\ Ahead(owed, Selected, walk.cursor)
    BY <2>1, <2>2 DEF WalkInv, CursorDivides
  <2>4. /\ owed \subseteq Wanted(stored, query) /\ walk.omitted \cap owed = {}
        /\ \A t \in owed : stored[t] # Absent
    BY <2>1, <2>3 DEF WalkInv, SteadyKept
  <2>5. walk.allowed \in Nat
    BY <1>1, <1>5 DEF Walks, WalkInv, Counted
  <2>6. Cardinality(Selected) <= walk.allowed
    <3>1. Cardinality(Selected) + (IF walk.kind = "records" THEN walk.left ELSE 0)
              <= walk.allowed
      BY <2>5 DEF WalkInv, Counted, Unlimited
    <3>2. CASE walk.kind = "records"
      <4>1. walk.left \in Nat
        BY <1>1, <2>5, <3>2 DEF WalkInv, Counted, Walks, Unlimited
      <4> QED
        BY <1>3, <2>5, <3>1, <3>2, <4>1
    <3>3. CASE walk.kind # "records"
      BY <1>3, <2>5, <3>1, <3>3
    <3> QED
      BY <3>2, <3>3
  <2> QED
    BY <1>1, <1>2, <1>3, <2>3, <2>4, <2>5, <2>6
<1> QED
  BY <1>4, <1>5

\* Taking a page adds at most its length to what was taken.
LEMMA TakingCounts ==
    ASSUME NEW taken \in SUBSET Ids, NEW page \in Seq(Ids)
    PROVE  /\ Cardinality(taken) \in Nat /\ Cardinality(taken \cup Range(page)) \in Nat
           /\ Len(page) \in Nat
           /\ Cardinality(taken \cup Range(page)) <= Cardinality(taken) + Len(page)
<1>1. IsFiniteSet(taken) /\ IsFiniteSet(Range(page)) /\ IsFiniteSet(taken \cap Range(page))
  <2>1. IsFiniteSet(taken)
    BY ListsAssumption, FS_Subset
  <2>2. taken \cap Range(page) \in SUBSET taken
    OBVIOUS
  <2> QED
    BY <2>1, <2>2, FewValues, FS_Subset
<1>2. /\ IsFiniteSet(taken \cup Range(page))
      /\ Cardinality(taken \cup Range(page)) =
            Cardinality(taken) + Cardinality(Range(page)) - Cardinality(taken \cap Range(page))
  BY <1>1, FS_Union
<1>3. /\ Cardinality(taken) \in Nat /\ Cardinality(Range(page)) \in Nat
      /\ Cardinality(taken \cap Range(page)) \in Nat
      /\ Cardinality(taken \cup Range(page)) \in Nat
  BY <1>1, <1>2, FS_CardinalityType
<1>4. Cardinality(Range(page)) <= Len(page) /\ Len(page) \in Nat
  BY FewValues
<1> QED
  BY <1>2, <1>3, <1>4

LEMMA QueryPageKeeps ==
    ASSUME WalkInv, NEW query \in Queries, NEW limit \in ListLimits, QueryPage(query, limit)
    PROVE  WalkInv'
<1> DEFINE page == Top(NextPage(query), limit)
           more == Len(NextPage(query)) > limit
           owed == SteadyFrom(Wanted(stored, query))
           taken == Selected
<1>1. limit \in Nat \ {0} /\ walk \in Walks /\ stored' = stored
  BY ListsAssumption DEF WalkInv, QueryPage
<1>2. walk.phase = "rest" \/ (walk.phase = "between" /\ walk.query = query)
  BY DEF QueryPage, FitsCursor
<1>3. /\ owed \in SUBSET Ids /\ owed \subseteq Wanted(stored, query)
      /\ \A t \in owed : stored[t] # Absent
      /\ walk.toLoad = <<>> /\ taken = walk.returned \cup walk.omitted
      /\ taken \in SUBSET Ids
      /\ walk.omitted \cap owed = {}
      /\ Behind(taken, walk.cursor) /\ Ahead(owed, taken, walk.cursor)
      /\ walk.allowed \in Nat
      /\ Cardinality(taken) \in Nat /\ Cardinality(taken) <= walk.allowed
  BY <1>2, WalkStands
<1>4. /\ page \in Seq(Ids) /\ Len(page) <= limit /\ Range(page) \in SUBSET Ids
  <2>1. page \in Seq(Ids) /\ Len(page) <= limit
    BY <1>1, PageFacts
  <2> QED
    BY <2>1 DEF Range
<1>5. walk' = [walk EXCEPT
                  !.kind = "query", !.query = query,
                  !.phase = IF more THEN "between" ELSE "end",
                  !.cursor = IF more THEN CursorAt(page) ELSE Start,
                  !.returned = walk.returned \cup Range(page),
                  !.again = walk.again \/ Range(page) \cap walk.returned # {},
                  !.allowed = walk.allowed + limit, !.steady = owed]
  <2>1. limit # Unlimited
    BY <1>1 DEF Unlimited
  <2> QED
    BY <2>1 DEF QueryPage, MoreAllowed
<1> HIDE DEF taken, owed
<1>6. /\ Range(page) \cap taken = {}
      /\ ~more => owed \subseteq taken \cup Range(page)
      /\ more => /\ CursorAt(page) \in [age : Nat, id : Nat]
                 /\ Behind(taken \cup Range(page), CursorAt(page))
                 /\ Ahead(owed, taken \cup Range(page), CursorAt(page))
  <2>1. /\ limit \in Nat \ {0} /\ owed \subseteq Wanted(stored, query)
        /\ taken \in SUBSET Ids
        /\ Behind(taken, walk.cursor) /\ Ahead(owed, taken, walk.cursor)
    BY <1>1, <1>3
  <2> QED
    BY <2>1, PageDivides, Zenon
<1> HIDE DEF page, more
<1>7. /\ walk'.kind = "query" /\ walk'.query = query
      /\ walk'.phase = (IF more THEN "between" ELSE "end")
      /\ walk'.cursor = (IF more THEN CursorAt(page) ELSE Start)
      /\ walk'.left = walk.left /\ walk'.more = walk.more
      /\ walk'.toLoad = walk.toLoad /\ walk'.returned = walk.returned \cup Range(page)
      /\ walk'.omitted = walk.omitted /\ walk'.again = FALSE
      /\ walk'.allowed = walk.allowed + limit /\ walk'.steady = owed
  <2>1. ~walk.again /\ Range(page) \cap walk.returned = {}
    BY <1>3, <1>6 DEF WalkInv
  <2> QED
    BY <1>1, <1>5, <2>1 DEF Walks
<1>8. walk' \in Walks
  <2>1. walk.allowed + limit \in Nat /\ walk.returned \cup Range(page) \in SUBSET Ids
    BY <1>1, <1>3, <1>4 DEF Walks
  <2>2. walk'.cursor \in [age : Nat, id : Nat]
    BY <1>6, <1>7 DEF Start
  <2> QED
    BY <1>1, <1>3, <1>5, <1>7, <2>1, <2>2 DEF Walks
<1>9. Selected' = taken \cup Range(page)
  <2>1. Range(walk.toLoad) = {}
    BY <1>3 DEF Range
  <2> QED
    BY <1>3, <1>7, <2>1 DEF Selected
<1>10. GoesOn' <=> more
  BY <1>7 DEF GoesOn
<1>11. Loading'
  <2>1. walk'.toLoad = <<>> /\ Range(walk'.toLoad) = {} /\ Len(walk'.toLoad) = 0
    BY <1>3, <1>7 DEF Range
  <2> QED
    BY <1>7, <2>1 DEF Loading
<1>12. SteadyKept'
  <2>1. Wanted(stored, query)' = Wanted(stored, query)
    BY <1>1 DEF Wanted
  <2>2. ~more => owed \subseteq Selected'
    BY <1>6, <1>9
  <2> QED
    BY <1>1, <1>3, <1>7, <1>10, <2>1, <2>2 DEF SteadyKept, Wanted
<1>13. CursorDivides'
  <2> SUFFICES ASSUME more
               PROVE  /\ Behind(Selected, walk.cursor)'
                      /\ Ahead(walk.steady, Selected, walk.cursor)'
    BY <1>7, <1>10 DEF CursorDivides
  <2>1. walk'.cursor = CursorAt(page)
    BY <1>7
  <2> QED
    BY <1>1, <1>6, <1>7, <1>9, <2>1 DEF Behind, Ahead, Beyond
<1>14. Counted'
  <2>1. Cardinality(Selected)' <= walk.allowed + limit
    <3>1. /\ Cardinality(taken \cup Range(page)) \in Nat /\ Len(page) \in Nat
          /\ Cardinality(taken \cup Range(page)) <= Cardinality(taken) + Len(page)
      BY <1>3, <1>4, TakingCounts
    <3>2. Cardinality(taken \cup Range(page)) <= walk.allowed + limit
      BY <1>1, <1>3, <1>4, <3>1
    <3> QED
      BY <1>9, <3>2
  <2>2. Cardinality(Selected)' \in Nat /\ walk.allowed + limit # Unlimited
    <3>1. Cardinality(taken \cup Range(page)) \in Nat
      BY <1>3, <1>4, TakingCounts
    <3> QED
      BY <1>1, <1>3, <1>9, <3>1 DEF Unlimited
  <2> QED
    BY <1>7, <2>1, <2>2 DEF Counted
<1>15. stored' \in [Ids -> Rows \cup {Absent}]
  BY <1>1 DEF WalkInv
<1> QED
  BY <1>7, <1>8, <1>11, <1>12, <1>13, <1>14, <1>15 DEF WalkInv

LEMMA CommandKeeps ==
    ASSUME WalkInv, NEW query \in Queries, NEW limit \in ListLimits \cup {Unlimited},
           Command(query, limit)
    PROVE  WalkInv'
<1> DEFINE owed == SteadyFrom(Wanted(stored, query))
           allowed == MoreAllowed(limit)
<1>1. walk \in Walks /\ stored' = stored /\ (limit \in Nat \ {0} \/ limit = Unlimited)
  BY ListsAssumption DEF WalkInv, Command
<1>2. walk.phase = "rest" \/ (walk.phase = "between" /\ walk.query = query)
  BY DEF Command, FitsCursor
<1>3. /\ owed \in SUBSET Ids /\ owed \subseteq Wanted(stored, query)
      /\ \A t \in owed : stored[t] # Absent
      /\ walk.toLoad = <<>> /\ Selected = walk.returned \cup walk.omitted
      /\ Selected \in SUBSET Ids
      /\ walk.omitted \cap owed = {}
      /\ Behind(Selected, walk.cursor) /\ Ahead(owed, Selected, walk.cursor)
      /\ walk.allowed \in Nat
      /\ Cardinality(Selected) \in Nat /\ Cardinality(Selected) <= walk.allowed
  BY <1>2, WalkStands
<1>4. allowed = IF limit = Unlimited THEN Unlimited ELSE walk.allowed + limit
  BY DEF MoreAllowed
<1>5. walk' = [walk EXCEPT !.kind = "records", !.query = query, !.phase = "paging",
                           !.left = limit, !.allowed = allowed, !.steady = owed]
  BY DEF Command
<1> HIDE DEF allowed, owed
<1>6. allowed \in Nat \cup {Unlimited} /\ limit \in Nat \cup {Unlimited} /\ limit # 0
  BY <1>1, <1>3, <1>4 DEF Unlimited
<1>7. /\ walk' \in Walks
      /\ walk'.kind = "records" /\ walk'.query = query /\ walk'.phase = "paging"
      /\ walk'.cursor = walk.cursor /\ walk'.left = limit /\ walk'.more = walk.more
      /\ walk'.toLoad = walk.toLoad /\ walk'.returned = walk.returned
      /\ walk'.omitted = walk.omitted /\ walk'.again = walk.again
      /\ walk'.allowed = allowed /\ walk'.steady = owed
  BY <1>1, <1>3, <1>5, <1>6 DEF Walks
<1>8. Selected' = Selected /\ GoesOn'
  BY <1>7 DEF Selected, GoesOn
<1>9. Loading'
  <2>1. walk'.toLoad = <<>> /\ Range(walk'.toLoad) = {} /\ Len(walk'.toLoad) = 0
    BY <1>3, <1>7 DEF Range
  <2> QED
    BY <1>7, <2>1 DEF Loading
<1>10. SteadyKept'
  BY <1>1, <1>3, <1>7, <1>8 DEF SteadyKept, Wanted
<1>11. CursorDivides'
  BY <1>1, <1>3, <1>7, <1>8 DEF CursorDivides, Behind, Ahead, Beyond
<1>12. Counted'
  <2>1. limit = Unlimited <=> allowed = Unlimited
    BY <1>1, <1>3, <1>4 DEF Unlimited
  <2>2. allowed # Unlimited => Cardinality(Selected) + limit <= allowed
    BY <1>1, <1>3, <1>4
  <2> QED
    BY <1>6, <1>7, <1>8, <2>1, <2>2 DEF Counted
<1>13. stored' \in [Ids -> Rows \cup {Absent}] /\ ~walk'.again
  BY <1>1, <1>7 DEF WalkInv
<1> QED
  BY <1>7, <1>9, <1>10, <1>11, <1>12, <1>13 DEF WalkInv

LEMMA CommandPageKeeps ==
    ASSUME WalkInv, CommandPage
    PROVE  WalkInv'
<1> DEFINE page == Top(NextPage(walk.query), PageLimit)
           more == Len(NextPage(walk.query)) > PageLimit
           left == IF walk.left = Unlimited THEN Unlimited ELSE walk.left - Len(page)
           owed == walk.steady
           taken == Selected
<1>1. /\ walk \in Walks /\ stored' = stored /\ walk.phase = "paging" /\ GoesOn /\ ~walk.again
      /\ walk.left # 0 /\ walk.left \in Nat \cup {Unlimited} /\ walk.toLoad = <<>>
  BY DEF WalkInv, CommandPage, Walks, GoesOn, Counted, Loading
<1>2. PageLimit \in Nat \ {0} /\ (walk.left # Unlimited => PageLimit <= walk.left)
  BY <1>1, ListsAssumption DEF PageLimit
<1>3. /\ walk.kind = "records"
      /\ owed \subseteq Wanted(stored, walk.query) /\ walk.omitted \cap owed = {}
      /\ \A t \in owed : stored[t] # Absent
      /\ Behind(taken, walk.cursor) /\ Ahead(owed, taken, walk.cursor)
  BY <1>1 DEF WalkInv, SteadyKept, CursorDivides, Loading
<1>4. taken = walk.returned \cup walk.omitted /\ taken \in SUBSET Ids
  BY <1>1 DEF Selected, Range, Walks
<1>5. /\ page \in Seq(Ids) /\ Len(page) <= PageLimit /\ Range(page) \in SUBSET Ids
      /\ \A j, k \in 1..Len(page) : page[j] = page[k] => j = k
      /\ more => page # <<>>
  <2> HIDE DEF PageLimit
  <2>1. /\ page \in Seq(Ids) /\ Len(page) <= PageLimit
        /\ \A j, k \in 1..Len(page) : page[j] = page[k] => j = k
        /\ more => page # <<>>
    BY <1>2, PageFacts
  <2> QED
    BY <2>1 DEF Range
<1> DEFINE phase == Phase("records", page, more, FALSE)
<1>6. walk' = [walk EXCEPT !.more = more, !.left = left, !.toLoad = page,
                           !.cursor = IF more THEN CursorAt(page) ELSE Start,
                           !.phase = phase]
  BY DEF CommandPage
<1>7. phase = IF page # <<>> THEN "loading" ELSE "end"
  BY <1>5 DEF Phase
<1>8. more \in BOOLEAN
  OBVIOUS
<1> HIDE DEF taken, owed
<1>9. /\ Range(page) \cap taken = {}
      /\ ~more => owed \subseteq taken \cup Range(page)
      /\ more => /\ CursorAt(page) \in [age : Nat, id : Nat]
                 /\ Behind(taken \cup Range(page), CursorAt(page))
                 /\ Ahead(owed, taken \cup Range(page), CursorAt(page))
  <2>1. /\ PageLimit \in Nat \ {0} /\ owed \subseteq Wanted(stored, walk.query)
        /\ taken \in SUBSET Ids
        /\ Behind(taken, walk.cursor) /\ Ahead(owed, taken, walk.cursor)
    BY <1>2, <1>3, <1>4
  <2> QED
    BY <2>1, PageDivides, Zenon
<1>10. left \in Nat \cup {Unlimited} /\ (left = Unlimited <=> walk.left = Unlimited)
  BY <1>1, <1>2, <1>5 DEF Unlimited
<1> HIDE DEF page, more, left, phase
<1>11. /\ walk'.kind = walk.kind /\ walk'.query = walk.query /\ walk'.phase = phase
       /\ walk'.cursor = (IF more THEN CursorAt(page) ELSE Start)
       /\ walk'.left = left /\ walk'.more = more /\ walk'.toLoad = page
       /\ walk'.returned = walk.returned /\ walk'.omitted = walk.omitted
       /\ walk'.again = walk.again /\ walk'.allowed = walk.allowed /\ walk'.steady = owed
  BY <1>1, <1>6 DEF Walks, owed
<1>12. walk' \in Walks
  <2>1. walk'.cursor \in [age : Nat, id : Nat]
    BY <1>9, <1>11 DEF Start
  <2> QED
    BY <1>1, <1>5, <1>6, <1>7, <1>8, <1>10, <1>11, <2>1 DEF Walks
<1>13. Selected' = taken \cup Range(page)
  BY <1>4, <1>11 DEF Selected
<1>14. GoesOn' <=> more
  BY <1>5, <1>7, <1>8, <1>11 DEF GoesOn
<1>15. Loading'
  BY <1>3, <1>4, <1>5, <1>7, <1>9, <1>11 DEF Loading
<1>16. SteadyKept'
  <2>1. Wanted(stored, walk.query)' = Wanted(stored, walk.query)
    BY <1>1, <1>11 DEF Wanted
  <2> QED
    BY <1>1, <1>3, <1>9, <1>11, <1>13, <1>14, <2>1 DEF SteadyKept
<1>17. CursorDivides'
  <2> SUFFICES ASSUME more
               PROVE  /\ Behind(Selected, walk.cursor)'
                      /\ Ahead(walk.steady, Selected, walk.cursor)'
    BY <1>3, <1>11, <1>14 DEF CursorDivides
  <2>1. walk'.cursor = CursorAt(page)
    BY <1>11
  <2> QED
    BY <1>1, <1>9, <1>11, <1>13, <2>1 DEF Behind, Ahead, Beyond
<1>18. Counted'
  <2>1. /\ Cardinality(taken \cup Range(page)) \in Nat /\ Len(page) \in Nat
        /\ Cardinality(taken) \in Nat
        /\ Cardinality(taken \cup Range(page)) <= Cardinality(taken) + Len(page)
    BY <1>4, <1>5, TakingCounts
  <2>2. /\ walk.allowed = Unlimited <=> walk.left = Unlimited
        /\ walk.allowed # Unlimited => Cardinality(taken) + walk.left <= walk.allowed
    BY <1>3 DEF WalkInv, Counted, taken
  <2>3. walk.allowed \in Nat \cup {Unlimited}
    BY <1>1 DEF Walks
  <2>4. ASSUME walk.allowed # Unlimited
        PROVE  Cardinality(taken \cup Range(page)) + left <= walk.allowed
    <3>1. walk.left \in Nat /\ left = walk.left - Len(page)
      BY <1>1, <2>2, <2>4 DEF left
    <3> QED
      BY <2>1, <2>2, <2>3, <2>4, <3>1
  <2>5. walk'.phase \in {"loading", "end"}
    BY <1>7, <1>11
  <2> QED
    BY <1>3, <1>10, <1>11, <1>13, <2>2, <2>4, <2>5 DEF Counted
<1>19. stored' \in [Ids -> Rows \cup {Absent}] /\ ~walk'.again
  BY <1>1, <1>11 DEF WalkInv
<1> QED
  BY <1>3, <1>7, <1>11, <1>12, <1>15, <1>16, <1>17, <1>18, <1>19 DEF WalkInv

LEMMA SelectIdsKeeps ==
    ASSUME WalkInv, NEW query \in Queries, NEW limit \in ListLimits \cup {Unlimited},
           SelectIds(query, limit)
    PROVE  WalkInv'
<1> DEFINE found == Listed(stored, query)
           key == [t \in Ids |-> ListKey(stored, t)]
           ids == Top(Sorted(found, key), limit)
           phase == Phase("list", ids, FALSE, FALSE)
<1>1. /\ stored' = stored /\ walk = NoWalk /\ NoWalk \in Walks
      /\ limit \in Nat \/ limit = Unlimited
  BY ListsAssumption DEF WalkInv, SelectIds
<1>2. found \in SUBSET Ids /\ found \in SUBSET Nat /\ IsFiniteSet(found)
  <2>1. found \in SUBSET Ids
    BY DEF Listed
  <2> HIDE DEF found
  <2> QED
    BY <2>1, ListsAssumption, FS_Subset
<1>3. \A t \in found : key[t] \in Nat
  BY <1>2, KeyTypes
<1>4. \A t \in found : stored[t] # Absent
  BY DEF Listed
<1>5. walk' = [walk EXCEPT !.kind = "list", !.query = query, !.toLoad = ids,
                           !.allowed = limit, !.steady = Range(ids), !.phase = phase]
  BY DEF SelectIds
<1>6. phase = IF ids # <<>> THEN "loading" ELSE "end"
  BY DEF Phase
<1> HIDE DEF found, key, phase
<1>7. /\ ids \in Seq(found)
      /\ \A j, k \in 1..Len(ids) : ids[j] = ids[k] => j = k
      /\ limit # Unlimited => Len(ids) <= limit
  <2>1. limit \in Nat \cup {Unlimited}
    BY <1>1
  <2>2. LET page == Top(Sorted(found, key), limit)
            more == limit # Unlimited /\ Cardinality(found) > limit
        IN  /\ page \in Seq(found)
            /\ \A j, k \in 1..Len(page) : page[j] = page[k] => j = k
            /\ limit # Unlimited => Len(page) <= limit
            /\ ~more => Range(page) = found
            /\ more /\ limit # 0 =>
                  /\ page # <<>>
                  /\ page[Len(page)] \in Range(page)
                  /\ \A t \in found : ~Before(key, page[Len(page)], t) <=> t \in Range(page)
    BY <1>2, <1>3, <2>1, TopFacts, Zenon
  <2> QED
    BY <2>2, Zenon
<1> HIDE DEF ids
<1>8. Range(ids) \subseteq found /\ ids \in Seq(Ids)
  <2>1. Range(ids) \subseteq found
    BY <1>7 DEF Range
  <2>2. Len(ids) \in Nat /\ ids \in [1..Len(ids) -> found]
    BY <1>7
  <2>3. ids \in [1..Len(ids) -> Ids]
    BY <1>2, <2>2, Zenon
  <2> QED
    BY <2>1, <2>2, <2>3
<1>9. /\ walk' \in Walks
      /\ walk'.kind = "list" /\ walk'.query = query /\ walk'.phase = phase
      /\ walk'.left = Unlimited /\ walk'.more = FALSE /\ walk'.toLoad = ids
      /\ walk'.returned = {} /\ walk'.omitted = {} /\ walk'.again = FALSE
      /\ walk'.allowed = limit /\ walk'.steady = Range(ids)
  <2>1. Range(ids) \in SUBSET Ids /\ limit \in Nat \cup {Unlimited}
    BY <1>1, <1>2, <1>8
  <2>2. phase \in {"loading", "end"}
    BY <1>6
  <2>3. walk' \in Walks
    BY <1>1, <1>5, <1>8, <2>1, <2>2 DEF Walks
  <2> QED
    BY <1>1, <1>5, <2>3 DEF NoWalk
<1>10. Selected' = Range(ids) /\ ~GoesOn'
  <2>1. Selected' = Range(ids)
    BY <1>9 DEF Selected
  <2> QED
    BY <1>6, <1>9, <2>1 DEF GoesOn
<1>11. Loading'
  BY <1>6, <1>7, <1>9 DEF Loading
<1>12. SteadyKept'
  BY <1>1, <1>4, <1>8, <1>9, <1>10 DEF SteadyKept
<1>13. CursorDivides'
  BY <1>10 DEF CursorDivides
<1>14. Counted'
  <2>1. /\ Cardinality({} \cup Range(ids)) \in Nat /\ Len(ids) \in Nat
        /\ Cardinality({} \cup Range(ids)) <= Cardinality({}) + Len(ids)
    BY <1>8, TakingCounts
  <2>2. Cardinality({}) = 0 /\ {} \cup Range(ids) = Range(ids)
    BY FS_EmptySet
  <2>3. limit # Unlimited => Cardinality(Range(ids)) + 0 <= limit
    BY <1>1, <1>7, <2>1, <2>2
  <2> QED
    BY <1>6, <1>9, <1>10, <2>3 DEF Counted
<1>15. stored' \in [Ids -> Rows \cup {Absent}]
  BY <1>1 DEF WalkInv
<1> QED
  BY <1>6, <1>9, <1>11, <1>12, <1>13, <1>14, <1>15 DEF WalkInv

\* The first id of a list of ids, and the others.
LEMMA HeadAndRest ==
    ASSUME NEW S, NEW s \in Seq(S), s # <<>>,
           \A j, k \in 1..Len(s) : s[j] = s[k] => j = k
    PROVE  /\ Head(s) \in S /\ Tail(s) \in Seq(S)
           /\ Range(s) = {Head(s)} \cup Range(Tail(s))
           /\ Head(s) \notin Range(Tail(s))
           /\ \A j, k \in 1..Len(Tail(s)) : Tail(s)[j] = Tail(s)[k] => j = k
<1>1. PICK n \in Nat : n + 1 = Len(s)
  <2>1. Len(s) \in Nat /\ Len(s) # 0
    OBVIOUS
  <2>2. Len(s) - 1 \in Nat /\ (Len(s) - 1) + 1 = Len(s)
    BY <2>1
  <2> QED
    BY <2>2
<1>2. /\ Head(s) = s[1] /\ Head(s) \in S
      /\ Tail(s) \in Seq(S) /\ Len(Tail(s)) = n
      /\ \A k \in 1..n : Tail(s)[k] = s[k + 1]
  BY <1>1
<1>3. DOMAIN s = 1..(n + 1) /\ DOMAIN Tail(s) = 1..n
  BY <1>1, <1>2
<1>4. Range(Tail(s)) = {s[k + 1] : k \in 1..n}
  <2>1. Range(Tail(s)) = {Tail(s)[k] : k \in 1..n}
    BY <1>3, Zenon DEF Range
  <2> DEFINE rest == Tail(s)
  <2>2. \A k \in 1..n : rest[k] = s[k + 1]
    BY <1>2
  <2>3. Range(rest) = {rest[k] : k \in 1..n}
    BY <2>1
  <2> HIDE DEF rest
  <2>4. Range(rest) = {s[k + 1] : k \in 1..n}
    <3>1. ASSUME NEW x \in Range(rest) PROVE \E k \in 1..n : x = s[k + 1]
      <4>1. PICK k \in 1..n : x = rest[k]
        BY <2>3
      <4> WITNESS k \in 1..n
      <4> QED
        BY <2>2, <4>1
    <3>2. ASSUME NEW k \in 1..n PROVE s[k + 1] \in Range(rest)
      <4>1. s[k + 1] = rest[k]
        BY <2>2
      <4> QED
        BY <2>3, <4>1
    <3> QED
      BY <3>1, <3>2
  <2> QED
    BY <2>4 DEF rest
<1>5. Range(s) = {Head(s)} \cup Range(Tail(s))
  <2>1. Range(s) = {s[k] : k \in 1..(n + 1)}
    BY <1>3 DEF Range
  <2>2. \A k \in 1..(n + 1) : k = 1 \/ \E j \in 1..n : k = j + 1
    <3>1. \A k \in 1..(n + 1) : k = 1 \/ (k - 1 \in 1..n /\ k = (k - 1) + 1)
      OBVIOUS
    <3> QED
      BY <3>1
  <2>3. 1 \in 1..(n + 1) /\ \A k \in 1..n : k + 1 \in 1..(n + 1)
    OBVIOUS
  <2>4. Range(s) \subseteq {Head(s)} \cup Range(Tail(s))
    <3> SUFFICES ASSUME NEW k \in 1..(n + 1)
                 PROVE  s[k] \in {Head(s)} \cup Range(Tail(s))
      BY <2>1, Zenon
    <3>1. CASE k = 1
      BY <1>2, <3>1, Zenon
    <3>2. ASSUME NEW j \in 1..n, k = j + 1
          PROVE  s[k] \in Range(Tail(s))
      BY <1>4, <3>2, Zenon
    <3> QED
      BY <2>2, <3>1, <3>2
  <2>5. Head(s) \in Range(s) /\ Range(Tail(s)) \subseteq Range(s)
    BY <1>2, <1>4, <2>1, <2>3, Zenon
  <2> QED
    BY <2>4, <2>5, Zenon
<1>6. Head(s) \notin Range(Tail(s))
  <2>1. \A k \in 1..n : k + 1 \in 1..(n + 1) /\ 1 \in 1..(n + 1) /\ k + 1 # 1
    OBVIOUS
  <2> QED
    BY <1>1, <1>2, <1>4, <2>1
<1>7. \A j, k \in 1..n : s[j + 1] = s[k + 1] => j = k
  <2>1. \A j, k \in 1..n : j + 1 \in 1..(n + 1) /\ (j + 1 = k + 1 => j = k)
    OBVIOUS
  <2> QED
    BY <1>1, <2>1
<1> QED
  BY <1>2, <1>5, <1>6, <1>7

LEMMA LoadNextKeeps ==
    ASSUME WalkInv, LoadNext
    PROVE  WalkInv'
<1> DEFINE t == Head(walk.toLoad)
           rest == Tail(walk.toLoad)
           phase == Phase(walk.kind, rest, walk.more, walk.left = 0)
           returned == IF stored[t] = Absent THEN walk.returned ELSE walk.returned \cup {t}
           omitted == IF stored[t] = Absent THEN walk.omitted \cup {t} ELSE walk.omitted
<1>1. walk \in Walks /\ stored' = stored /\ walk.phase = "loading" /\ ~walk.again
  BY DEF WalkInv, LoadNext
<1>2. /\ walk.toLoad \in Seq(Ids) /\ walk.toLoad # <<>>
      /\ \A j, k \in 1..Len(walk.toLoad) : walk.toLoad[j] = walk.toLoad[k] => j = k
      /\ walk.kind \in {"records", "list"}
      /\ Range(walk.toLoad) \cap (walk.returned \cup walk.omitted) = {}
      /\ walk.returned \in SUBSET Ids /\ walk.omitted \in SUBSET Ids
  BY <1>1 DEF WalkInv, Loading, Walks
<1>3. /\ t \in Ids /\ rest \in Seq(Ids)
      /\ Range(walk.toLoad) = {t} \cup Range(rest) /\ t \notin Range(rest)
      /\ \A j, k \in 1..Len(rest) : rest[j] = rest[k] => j = k
  BY <1>2, HeadAndRest
<1>4. walk' = [walk EXCEPT !.toLoad = rest, !.returned = returned, !.omitted = omitted,
                           !.again = walk.again \/ t \in walk.returned \cup walk.omitted,
                           !.phase = phase]
  BY DEF LoadNext
<1>5. t \notin walk.returned \cup walk.omitted
  BY <1>2, <1>3
<1>6. phase = IF rest # <<>> THEN "loading" ELSE IF ~walk.more THEN "end"
              ELSE IF walk.left = 0 THEN "between" ELSE "paging"
  BY DEF Phase
<1>7. /\ returned \cup omitted = walk.returned \cup walk.omitted \cup {t}
      /\ returned \in SUBSET Ids /\ omitted \in SUBSET Ids
      /\ stored[t] # Absent => omitted = walk.omitted
      /\ stored[t] = Absent => omitted = walk.omitted \cup {t}
  <2> HIDE DEF t
  <2> QED
    BY <1>2, <1>3
<1> HIDE DEF t, rest, phase, returned, omitted
<1>8. /\ walk'.kind = walk.kind /\ walk'.query = walk.query /\ walk'.phase = phase
      /\ walk'.cursor = walk.cursor /\ walk'.left = walk.left /\ walk'.more = walk.more
      /\ walk'.toLoad = rest /\ walk'.returned = returned /\ walk'.omitted = omitted
      /\ walk'.again = FALSE /\ walk'.allowed = walk.allowed /\ walk'.steady = walk.steady
  BY <1>1, <1>4, <1>5 DEF Walks
<1>9. walk' \in Walks
  <2>1. phase \in {"loading", "end", "between", "paging"}
    BY <1>6
  <2> QED
    BY <1>1, <1>3, <1>4, <1>5, <1>7, <2>1 DEF Walks
<1>10. Selected' = Selected
  BY <1>3, <1>7, <1>8 DEF Selected
<1>11. GoesOn' <=> GoesOn
  <2>1. GoesOn <=> walk.more
    BY <1>1 DEF GoesOn
  <2> QED
    BY <1>6, <1>8, <2>1 DEF GoesOn
<1>12. GoesOn => walk.kind = "records"
  BY <1>2 DEF WalkInv, CursorDivides
<1>13. Loading'
  <2>1. Range(rest) \cap (returned \cup omitted) = {}
    BY <1>2, <1>3, <1>7
  <2> QED
    BY <1>2, <1>3, <1>6, <1>8, <2>1 DEF Loading
<1>14. SteadyKept'
  <2>1. SteadyKept
    BY DEF WalkInv
  <2>2. omitted \cap walk.steady = {}
    BY <1>7, <2>1 DEF SteadyKept
  <2>3. Wanted(stored, walk.query)' = Wanted(stored, walk.query)
    BY <1>1, <1>8 DEF Wanted
  <2> QED
    BY <1>1, <1>8, <1>10, <1>11, <2>1, <2>2, <2>3 DEF SteadyKept
<1>15. CursorDivides'
  <2>1. CursorDivides
    BY DEF WalkInv
  <2> QED
    BY <1>1, <1>8, <1>10, <1>11, <2>1 DEF CursorDivides, Behind, Ahead, Beyond
<1>16. Counted'
  <2>1. Counted
    BY DEF WalkInv
  <2>2. phase = "between" => walk.left = 0 /\ walk.kind = "records"
    BY <1>1, <1>6, <1>12 DEF GoesOn
  <2>3. phase = "paging" => walk.left # 0
    BY <1>6
  <2> QED
    BY <1>8, <1>10, <2>1, <2>2, <2>3 DEF Counted, Unlimited
<1>17. stored' \in [Ids -> Rows \cup {Absent}] /\ walk'.phase # "rest" /\ walk'.kind # "none"
  BY <1>1, <1>2, <1>6, <1>8 DEF WalkInv
<1> QED
  BY <1>8, <1>9, <1>13, <1>14, <1>15, <1>16, <1>17 DEF WalkInv

LEMMA WalkInvStep == WalkInv /\ [ListNext]_listVars => WalkInv'
<1> SUFFICES ASSUME WalkInv, [ListNext]_listVars PROVE WalkInv'
  OBVIOUS
<1>1. CASE \E t \in Ids : SaveRow(t) \/ CleanUp(t)
  BY <1>1, SaveRowKeeps, CleanUpKeeps
<1>2. CASE \E query \in Queries, limit \in ListLimits : QueryPage(query, limit)
  BY <1>2, QueryPageKeeps
<1>3. CASE \E query \in Queries, limit \in ListLimits \cup {Unlimited} :
               Command(query, limit) \/ SelectIds(query, limit)
  BY <1>3, CommandKeeps, SelectIdsKeeps
<1>4. CASE CommandPage
  BY <1>4, CommandPageKeeps
<1>5. CASE LoadNext
  BY <1>5, LoadNextKeeps
<1>6. CASE StopListing
  <2>1. stored' \in [Ids -> Rows \cup {Absent}] /\ walk' = NoWalk
    BY <1>6 DEF StopListing, WalkInv
  <2>2. (stored \in [Ids -> Rows \cup {Absent}] /\ walk = NoWalk => WalkInv)'
    BY NoWalkKeeps, PTL
  <2> QED
    BY <2>1, <2>2
<1>7. CASE UNCHANGED listVars
  BY <1>7 DEF listVars, WalkInv, Loading, SteadyKept, Wanted, CursorDivides, GoesOn, Behind,
              Ahead, Beyond, PageKey, Counted, Selected
<1> QED
  BY <1>1, <1>2, <1>3, <1>4, <1>5, <1>6, <1>7 DEF ListNext

(***************************************************************************)
(* However many transactions there are, and whatever is saved, dated or    *)
(* removed between the pages, commands and loads of a listing, none is     *)
(* returned twice, none that stays in its place is lost, and the limits    *)
(* are kept.                                                               *)
(***************************************************************************)
THEOREM ListsAlwaysMissNothing == ListSpec => []ListsMissNothing
<1>1. ListInit => WalkInv
  BY NoWalkKeeps DEF ListInit
<1>2. WalkInv => ListsMissNothing
  <2> SUFFICES ASSUME WalkInv PROVE ListsMissNothing
    OBVIOUS
  <2>1. walk.phase = "end" => walk.steady \subseteq walk.returned
    <3> SUFFICES ASSUME walk.phase = "end" PROVE walk.steady \subseteq walk.returned
      OBVIOUS
    <3>1. walk.toLoad = <<>> /\ ~GoesOn
      BY DEF WalkInv, Loading, GoesOn
    <3>2. Range(walk.toLoad) = {}
      BY <3>1 DEF Range
    <3> QED
      BY <3>1, <3>2 DEF WalkInv, SteadyKept, Selected
  <2>2. walk.allowed # Unlimited => Cardinality(Selected) <= walk.allowed
    <3> SUFFICES ASSUME walk.allowed # Unlimited PROVE Cardinality(Selected) <= walk.allowed
      OBVIOUS
    <3>1. Selected \in SUBSET Ids
      <4>1. /\ walk.toLoad \in Seq(Ids) /\ walk.returned \in SUBSET Ids
            /\ walk.omitted \in SUBSET Ids
        BY DEF WalkInv, Walks
      <4> QED
        BY <4>1 DEF Selected, Range
    <3>2. Cardinality(Selected) \in Nat
      BY <3>1, ListsAssumption, FS_Subset, FS_CardinalityType
    <3>3. walk.allowed \in Nat /\ (walk.kind = "records" => walk.left \in Nat)
      BY DEF WalkInv, Walks, Counted
    <3>4. Cardinality(Selected) + (IF walk.kind = "records" THEN walk.left ELSE 0)
              <= walk.allowed
      BY DEF WalkInv, Counted
    <3> QED
      BY <3>2, <3>3, <3>4
  <2> QED
    BY <2>1, <2>2 DEF WalkInv, SteadyKept, ListsMissNothing, Selected
<1> QED
  BY <1>1, <1>2, WalkInvStep, PTL DEF ListSpec

\* Both hold of the behaviours TLC runs, in which either store is walked.
THEOREM ListingsMissNothing == ListingsSpec => [](PagesMissNothing /\ ListsMissNothing)
<1>1. ListingsSpec => PageSpec /\ ListSpec
  <2>1. ListingsInit => PageInit /\ ListInit
    BY DEF ListingsInit
  <2>2. [ListingsNext]_<<pageVars, listVars, walked>> =>
            [PageNext]_pageVars /\ [ListNext]_listVars
    BY DEF ListingsNext
  <2> QED
    BY <2>1, <2>2, PTL DEF ListingsSpec, PageSpec, ListSpec
<1> QED
  BY <1>1, PagesAlwaysMissNothing, ListsAlwaysMissNothing, PTL

=============================================================================
