--------------------------- MODULE ListScreensProofs ---------------------------
(***************************************************************************)
(* Theorems about the screens of the app that show lists: Paging, for any  *)
(* lists, any finite set of rows, any page size, window and number of      *)
(* handlers under way; and SearchScreen, for any texts, any number of      *)
(* handlers and of changes of the text field.  The two modules share no    *)
(* state.                                                                  *)
(***************************************************************************)
EXTENDS Paging, SearchScreen, FiniteSetTheorems, SequenceTheorems, TLAPS

------------------------------------------------------------------------------
(* The order of a list.                                                    *)

(* The rows before k.                                                      *)
Below(k, S, order) == {j \in S : Precedes(j, k, order)}
RowSet(S) == S \subseteq Nat /\ IsFiniteSet(S)

(* Either order of a list is a strict total order of the rows.             *)
LEMMA OrderTotal ==
  ASSUME NEW i \in Nat, NEW j \in Nat, NEW k \in Nat, NEW order
  PROVE  /\ ~Precedes(i, i, order)
         /\ Precedes(i, j, order) /\ Precedes(j, k, order) => Precedes(i, k, order)
         /\ i # j => Precedes(i, j, order) \/ Precedes(j, i, order)
BY DEF Precedes

LEMMA IntervalSize ==
  ASSUME NEW n \in Nat
  PROVE  /\ IsFiniteSet(0..(n - 1)) /\ Cardinality(0..(n - 1)) = n
         /\ IsFiniteSet(1..n) /\ Cardinality(1..n) = n
<1>1. /\ 0 \in Int /\ 1 \in Int /\ n \in Int /\ n - 1 \in Int
  OBVIOUS
<1>2. /\ IsFiniteSet(0..(n - 1))
      /\ Cardinality(0..(n - 1)) = IF 0 > n - 1 THEN 0 ELSE (n - 1) - 0 + 1
  BY ONLY <1>1, FS_Interval
<1>3. /\ IsFiniteSet(1..n)
      /\ Cardinality(1..n) = IF 1 > n THEN 0 ELSE n - 1 + 1
  BY ONLY <1>1, FS_Interval
<1> QED BY <1>2, <1>3

(* The rank of a row, the number of rows before it: it grows along the     *)
(* order and stays below the number of rows.                               *)
LEMMA RankTyped ==
  ASSUME NEW S, RowSet(S), NEW k, NEW order
  PROVE  /\ Below(k, S, order) \subseteq S /\ IsFiniteSet(Below(k, S, order))
         /\ Cardinality(Below(k, S, order)) \in Nat /\ Cardinality(S) \in Nat
<1>1. Below(k, S, order) \subseteq S
  BY DEF Below
<1> QED BY <1>1, FS_Subset, FS_CardinalityType DEF RowSet

LEMMA RankGrows ==
  ASSUME NEW S, RowSet(S), NEW j \in S, NEW k \in S, NEW order, Precedes(j, k, order)
  PROVE  Cardinality(Below(j, S, order)) < Cardinality(Below(k, S, order))
<1>1. \A i \in S : Precedes(i, j, order) => Precedes(i, k, order)
  <2> TAKE i \in S
  <2>1. i \in Nat /\ j \in Nat /\ k \in Nat
    BY DEF RowSet
  <2> QED BY <2>1, OrderTotal
<1>2. Below(j, S, order) \subseteq Below(k, S, order)
  BY <1>1 DEF Below
<1>3. j \in Below(k, S, order) /\ j \notin Below(j, S, order)
  BY OrderTotal DEF Below, RowSet
<1>4. /\ Cardinality(Below(j, S, order)) <= Cardinality(Below(k, S, order))
      /\ Cardinality(Below(j, S, order)) # Cardinality(Below(k, S, order))
  BY <1>2, <1>3, RankTyped, FS_Subset
<1> QED BY <1>4, RankTyped

LEMMA RankBounded ==
  ASSUME NEW S, RowSet(S), NEW k \in S, NEW order
  PROVE  Cardinality(Below(k, S, order)) < Cardinality(S)
<1>1. k \notin Below(k, S, order)
  BY OrderTotal DEF Below, RowSet
<1>2. /\ Cardinality(Below(k, S, order)) <= Cardinality(S)
      /\ Cardinality(Below(k, S, order)) # Cardinality(S)
  BY <1>1, RankTyped, FS_Subset DEF RowSet
<1> QED BY <1>2, RankTyped

LEMMA RankUnique ==
  ASSUME NEW S, RowSet(S), NEW j \in S, NEW k \in S, NEW order,
         Cardinality(Below(j, S, order)) = Cardinality(Below(k, S, order))
  PROVE  j = k
<1>1. j \in Nat /\ k \in Nat
  BY DEF RowSet
<1>2. ~Precedes(j, k, order) /\ ~Precedes(k, j, order)
  BY RankGrows, RankTyped
<1> QED BY <1>1, <1>2, OrderTotal

(* Rows have a first and a last one.                                       *)
LEMMA FirstRow ==
  ASSUME NEW S, RowSet(S), S # {}, NEW order
  PROVE  \E k \in S : \A j \in S \ {k} : Precedes(k, j, order)
<1> DEFINE R == {Cardinality(Below(k, S, order)) : k \in S}
<1>1. R \subseteq Nat /\ R # {}
  BY RankTyped
<1>2. PICK r \in R : \A q \in R : <<q, r>> \notin OpToRel(<, Nat)
  BY <1>1, WFMin, NatLessThanWellFounded
<1>3. PICK k \in S : r = Cardinality(Below(k, S, order))
  BY <1>2
<1>4. \A j \in S : ~(Cardinality(Below(j, S, order)) < r)
  <2> SUFFICES ASSUME NEW j \in S, Cardinality(Below(j, S, order)) < r PROVE FALSE
    OBVIOUS
  <2>1. Cardinality(Below(j, S, order)) \in R
    OBVIOUS
  <2>2. <<Cardinality(Below(j, S, order)), r>> \in OpToRel(<, Nat)
    BY <1>1, <1>2, <2>1 DEF OpToRel
  <2> QED BY <1>2, <2>1, <2>2
<1>5. \A j \in S \ {k} : Precedes(k, j, order)
  <2> TAKE j \in S \ {k}
  <2>1. j \in Nat /\ k \in Nat
    BY DEF RowSet
  <2>2. ~Precedes(j, k, order)
    BY <1>3, <1>4, RankGrows
  <2> QED BY <2>1, <2>2, OrderTotal
<1> QED BY <1>5

LEMMA LastRow ==
  ASSUME NEW S, RowSet(S), S # {}, NEW order
  PROVE  /\ LastOf(S, order) \in S
         /\ \A j \in S \ {LastOf(S, order)} : Precedes(j, LastOf(S, order), order)
<1> DEFINE back == IF order = "ascending" THEN "descending" ELSE "ascending"
<1>1. PICK k \in S : \A j \in S \ {k} : Precedes(k, j, back)
  BY FirstRow
<1>2. \A j \in S \ {k} : Precedes(j, k, order)
  BY <1>1 DEF Precedes, RowSet
<1> QED BY <1>2 DEF LastOf

------------------------------------------------------------------------------
(* The first n rows: no more than n, with every row that precedes one of   *)
(* them; and all the rows there are when they are fewer than n.            *)
LEMMA FirstIs ==
  ASSUME NEW S, RowSet(S), NEW n \in Nat, NEW order
  PROVE  /\ First(n, S, order) \subseteq S /\ RowSet(First(n, S, order))
         /\ Cardinality(First(n, S, order)) \in Nat
         /\ Cardinality(First(n, S, order)) <= n
         /\ \A k \in First(n, S, order), j \in S :
              Precedes(j, k, order) => j \in First(n, S, order)
<1> DEFINE F == First(n, S, order)
           rank == [k \in F |-> Cardinality(Below(k, S, order))]
<1>1. F = {k \in S : Cardinality(Below(k, S, order)) < n}
  BY DEF First, Below
<1>2. F \subseteq S /\ RowSet(F) /\ Cardinality(F) \in Nat
  BY <1>1, FS_Subset, FS_CardinalityType DEF RowSet
<1>3. Cardinality(F) <= n
  <2>1. rank \in [F -> 0..(n - 1)]
    BY <1>1, RankTyped
  <2>2. \A j, k \in F : rank[j] = rank[k] => j = k
    BY <1>2, RankUnique
  <2>3. rank \in Injection(F, 0..(n - 1))
    BY <2>1, <2>2 DEF Injection, IsInjective
  <2>4. IsFiniteSet(0..(n - 1)) /\ Cardinality(0..(n - 1)) = n
    BY IntervalSize
  <2> QED BY <2>3, <2>4, FS_Injection
<1>4. ASSUME NEW k \in F, NEW j \in S, Precedes(j, k, order) PROVE j \in F
  <2>1. Cardinality(Below(j, S, order)) < Cardinality(Below(k, S, order))
    BY <1>2, <1>4, RankGrows
  <2> QED BY <1>1, <2>1, RankTyped
<1> QED BY <1>2, <1>3, <1>4

LEMMA FirstOfFew ==
  ASSUME NEW S, RowSet(S), NEW n \in Nat, Cardinality(S) <= n, NEW order
  PROVE  First(n, S, order) = S
<1>1. \A k \in S : Cardinality(Below(k, S, order)) < n
  BY RankBounded, RankTyped
<1> QED BY <1>1 DEF First, Below

LEMMA FirstShort ==
  ASSUME NEW S, RowSet(S), NEW n \in Nat, NEW order,
         Cardinality(First(n, S, order)) < n
  PROVE  First(n, S, order) = S
<1> SUFFICES ASSUME S \ First(n, S, order) # {} PROVE FALSE
  BY FirstIs
<1> DEFINE F == First(n, S, order)
<1>1. RowSet(S \ F)
  BY FS_Subset DEF RowSet
<1>2. PICK k \in S \ F : \A j \in (S \ F) \ {k} : Precedes(k, j, order)
  BY <1>1, FirstRow
<1>3. Below(k, S, order) \subseteq F
  <2> SUFFICES ASSUME NEW j \in S, Precedes(j, k, order), j \notin F PROVE FALSE
    BY DEF Below
  <2>1. j \in Nat /\ k \in Nat
    BY DEF RowSet
  <2>2. j # k /\ ~Precedes(k, j, order)
    BY <2>1, OrderTotal
  <2> QED BY <1>2, <2>2
<1>4. Cardinality(Below(k, S, order)) <= Cardinality(F)
  BY <1>3, FirstIs, FS_Subset DEF RowSet
<1>5. Cardinality(Below(k, S, order)) < n
  BY <1>4, FirstIs, RankTyped
<1> QED BY <1>2, <1>5 DEF First, Below

------------------------------------------------------------------------------
(* A list in order shows its rows once each.                               *)
Follows(s, order) == \A i, j \in DOMAIN s : i < j => Precedes(s[i], s[j], order)

LEMMA SeqFacts ==
  ASSUME NEW S, NEW s \in Seq(S)
  PROVE  /\ Len(s) \in Nat /\ DOMAIN s = 1..Len(s)
         /\ ToSet(s) = {s[i] : i \in 1..Len(s)} /\ ToSet(s) \subseteq S
         /\ \A i \in 1..Len(s) : s[i] \in S /\ s[i] \in ToSet(s)
         /\ \A k \in ToSet(s) : \E i \in 1..Len(s) : k = s[i]
BY LenProperties DEF ToSet

LEMMA InOrderIs ==
  ASSUME NEW S, RowSet(S), NEW order
  PROVE  /\ InOrder(S, order) \in Seq(S)
         /\ ToSet(InOrder(S, order)) = S
         /\ Follows(InOrder(S, order), order)
<1> DEFINE n == Cardinality(S)
           rank == [k \in S |-> Cardinality(Below(k, S, order))]
           s == InOrder(S, order)
<1>1. n \in Nat
  BY FS_CardinalityType DEF RowSet
<1>2. rank \in Surjection(S, 0..(n - 1))
  <2>1. rank \in [S -> 0..(n - 1)]
    BY <1>1, RankTyped, RankBounded
  <2>2. \A j, k \in S : rank[j] = rank[k] => j = k
    BY RankUnique
  <2>3. rank \in Injection(S, 0..(n - 1))
    BY <2>1, <2>2 DEF Injection, IsInjective
  <2>4. IsFiniteSet(0..(n - 1)) /\ Cardinality(0..(n - 1)) = n
    BY <1>1, IntervalSize
  <2> QED BY <2>3, <2>4, FS_Injection
<1>3. \A i \in 1..n : \E k \in S : Cardinality(Below(k, S, order)) = i - 1
  <2> TAKE i \in 1..n
  <2>1. i - 1 \in 0..(n - 1)
    BY <1>1
  <2>2. PICK k \in S : rank[k] = i - 1
    BY <1>2, <2>1 DEF Surjection
  <2> QED BY <2>2
<1>4. s = [i \in 1..n |-> CHOOSE k \in S : Cardinality(Below(k, S, order)) = i - 1]
  BY DEF InOrder, Below
<1>5. \A i \in 1..n : s[i] \in S /\ Cardinality(Below(s[i], S, order)) = i - 1
  BY <1>3, <1>4
<1>6. s \in [1..n -> S]
  BY <1>3, <1>4
<1>7. s \in Seq(S) /\ DOMAIN s = 1..n
  BY <1>1, <1>6, SeqDef
<1>8. Follows(s, order)
  <2> SUFFICES ASSUME NEW i \in 1..n, NEW j \in 1..n, i < j
               PROVE  Precedes(s[i], s[j], order)
    BY <1>7 DEF Follows
  <2>1. s[i] \in Nat /\ s[j] \in Nat
    BY <1>5 DEF RowSet
  <2>2. s[i] # s[j]
    BY <1>1, <1>5
  <2>3. ~Precedes(s[j], s[i], order)
    <3>1. ~(j - 1 < i - 1)
      BY <1>1
    <3> QED BY <1>5, <3>1, RankGrows
  <2> QED BY <2>1, <2>2, <2>3, OrderTotal
<1>9. ASSUME NEW k \in S PROVE \E i \in 1..n : s[i] = k
  <2> DEFINE i == Cardinality(Below(k, S, order)) + 1
  <2>1. i \in 1..n /\ i - 1 = Cardinality(Below(k, S, order))
    BY <1>1, RankTyped, RankBounded
  <2>2. s[i] \in S /\ Cardinality(Below(s[i], S, order)) = Cardinality(Below(k, S, order))
    BY <1>5, <2>1
  <2>3. s[i] = k
    BY <2>2, RankUnique
  <2> QED BY <2>1, <2>3
<1>10. ToSet(s) = S
  BY <1>5, <1>7, <1>9 DEF ToSet
<1> QED BY <1>7, <1>8, <1>10

LEMMA SortedLength ==
  ASSUME NEW s \in Seq(Nat), NEW order, Follows(s, order)
  PROVE  RowSet(ToSet(s)) /\ Len(s) = Cardinality(ToSet(s))
<1>1. /\ Len(s) \in Nat /\ s \in [1..Len(s) -> ToSet(s)] /\ DOMAIN s = 1..Len(s)
      /\ ToSet(s) \subseteq Nat
  BY LenProperties DEF ToSet
<1>2. \A i, j \in 1..Len(s) : s[i] = s[j] => i = j
  <2> SUFFICES ASSUME NEW i \in 1..Len(s), NEW j \in 1..Len(s), i < j PROVE s[i] # s[j]
    BY <1>1
  <2>1. Precedes(s[i], s[j], order)
    BY <1>1 DEF Follows
  <2>2. s[i] \in Nat /\ s[j] \in Nat
    BY <1>1
  <2> QED BY <2>1, <2>2, OrderTotal
<1>3. s \in Bijection(1..Len(s), ToSet(s))
  BY <1>1, <1>2 DEF Bijection, Injection, IsInjective, Surjection, ToSet
<1>4. IsFiniteSet(1..Len(s)) /\ Cardinality(1..Len(s)) = Len(s)
  BY <1>1, IntervalSize
<1>5. ExistsBijection(1..Len(s), ToSet(s))
  BY <1>3 DEF ExistsBijection
<1> QED BY <1>1, <1>4, <1>5, FS_Bijection DEF RowSet
------------------------------------------------------------------------------
(* A page of the rows S past the cursor c: rows of S in the list's order,  *)
(* and unless it is the last page, the cursor is its last row and every    *)
(* row past c is on it or after it.                                        *)
LEMMA PageIs ==
  ASSUME NEW S \in SUBSET Keys, NEW c, NEW order
  PROVE  LET page == Page(S, c, order)
             past == PastCursor(S, c, order)
         IN  /\ page \in [items : Seq(Keys), seen : SUBSET Keys, cursor : Keys \cup {None},
                          terminated : BOOLEAN]
             /\ page.terminated = (page.cursor = None)
             /\ ToSet(page.items) \subseteq past /\ Follows(page.items, order)
             /\ \A j \in ToSet(page.items), k \in past :
                  Precedes(k, j, order) => k \in ToSet(page.items)
             /\ page.seen \subseteq read
             /\ page.cursor = None => ToSet(page.items) = past
             /\ page.cursor # None =>
                  /\ page.cursor \in ToSet(page.items)
                  /\ \A k \in ToSet(page.items) :
                       k = page.cursor \/ Precedes(k, page.cursor, order)
                  /\ \A k \in past : k \in ToSet(page.items) \/ Precedes(page.cursor, k, order)
<1> DEFINE past == PastCursor(S, c, order)
           got == First(PageSize + 1, past, order)
           items == First(PageSize, got, order)
           page == Page(S, c, order)
<1> USE KeysAssumption, BoundsAssumption, NoneAssumption
<1>1. RowSet(past) /\ past \subseteq S
  <2>1. past \subseteq S
    BY DEF PastCursor
  <2> QED BY <2>1, FS_Subset DEF RowSet
<1>2. /\ got \subseteq past /\ RowSet(got) /\ Cardinality(got) \in Nat
      /\ Cardinality(got) <= PageSize + 1
      /\ \A k \in got, j \in past : Precedes(j, k, order) => j \in got
  <2>1. PageSize + 1 \in Nat
    OBVIOUS
  <2> QED BY <1>1, <2>1, FirstIs
<1>3. /\ items \subseteq got /\ RowSet(items) /\ Cardinality(items) \in Nat
      /\ Cardinality(items) <= PageSize
      /\ \A k \in items, j \in got : Precedes(j, k, order) => j \in items
  <2>1. PageSize \in Nat
    OBVIOUS
  <2> QED BY <1>2, <2>1, FirstIs
<1>4. /\ page.items = InOrder(items, order) /\ page.seen = items \cap read
      /\ page.cursor = NextCursor(got, order) /\ page.terminated = ~HasMore(got)
      /\ page = [items |-> InOrder(items, order), seen |-> items \cap read,
                 cursor |-> NextCursor(got, order), terminated |-> ~HasMore(got)]
  BY DEF Page
<1>5. /\ InOrder(items, order) \in Seq(items)
      /\ ToSet(page.items) = items /\ Follows(page.items, order)
  BY <1>3, <1>4, InOrderIs
<1>6. page.items \in Seq(Keys)
  <2>1. items \subseteq Keys
    BY <1>1, <1>2, <1>3
  <2>2. page.items \in Seq(items)
    BY <1>4, <1>5
  <2> HIDE DEF items, page
  <2> QED BY <2>1, <2>2, SeqMonotonic
<1>7. \A j \in items, k \in past : Precedes(k, j, order) => k \in items
  BY <1>2, <1>3
<1>8. CASE ~HasMore(got)
  <2>1. page.cursor = None /\ page.terminated = TRUE
    BY <1>4, <1>8 DEF NextCursor
  <2>2. Cardinality(got) <= PageSize /\ PageSize \in Nat /\ PageSize + 1 \in Nat
    BY <1>2, <1>8 DEF HasMore
  <2>3. items = got
    BY <1>2, <2>2, FirstOfFew
  <2>4. got = past
    BY <1>1, <1>2, <2>2, FirstShort
  <2> QED BY <1>1, <1>2, <1>3, <1>4, <1>5, <1>6, <1>7, <2>1, <2>3, <2>4
<1>9. CASE HasMore(got)
  <2>1. Cardinality(got) > PageSize /\ PageSize \in Nat
    BY <1>9 DEF HasMore
  <2>2. items # {}
    <3> SUFFICES ASSUME items = {} PROVE FALSE
      OBVIOUS
    <3>1. Cardinality(items) = 0
      BY FS_EmptySet
    <3>2. items = got
      BY <1>2, <2>1, <3>1, FirstShort
    <3> QED BY <2>1, <3>1, <3>2
  <2>3. /\ page.cursor = LastOf(items, order) /\ page.terminated = FALSE
    BY <1>4, <1>9 DEF NextCursor
  <2>4. /\ page.cursor \in items
        /\ \A j \in items \ {page.cursor} : Precedes(j, page.cursor, order)
    BY <1>3, <2>2, <2>3, LastRow
  <2>5. page.cursor # None /\ page.cursor \in Keys /\ page.cursor \in Nat
    BY <1>1, <1>2, <1>3, <2>4
  <2>6. ASSUME NEW k \in past, k \notin items PROVE Precedes(page.cursor, k, order)
    <3>1. k \in Nat /\ k # page.cursor
      BY <1>1, <2>4, <2>6 DEF RowSet
    <3>2. ~Precedes(k, page.cursor, order)
      BY <1>7, <2>4, <2>6
    <3> QED BY <2>5, <3>1, <3>2, OrderTotal
  <2> QED BY <1>1, <1>2, <1>3, <1>4, <1>5, <1>6, <1>7, <2>3, <2>4, <2>5, <2>6
<1> QED BY <1>8, <1>9
------------------------------------------------------------------------------
(* Two lists of which the second goes on where the first ended.            *)
LEMMA Concat ==
  ASSUME NEW S, NEW s \in Seq(S), NEW t \in Seq(S), NEW order
  PROVE  /\ s \o t \in Seq(S) /\ ToSet(s \o t) = ToSet(s) \cup ToSet(t)
         /\ /\ Follows(s, order) /\ Follows(t, order)
            /\ \A k \in ToSet(s), j \in ToSet(t) : Precedes(k, j, order)
            => Follows(s \o t, order)
<1> DEFINE m == Len(s)
           n == Len(t)
           u == s \o t
<1>1. /\ m \in Nat /\ n \in Nat /\ DOMAIN s = 1..m /\ DOMAIN t = 1..n
      /\ u \in Seq(S) /\ Len(u) = m + n
      /\ \A i \in 1..(m + n) : u[i] = IF i <= m THEN s[i] ELSE t[i - m]
  BY LenProperties, ConcatProperties
<1>2. DOMAIN u = 1..(m + n)
  BY <1>1, LenProperties
<1> HIDE DEF m, n, u
<1>3. \A i \in 1..m : i \in 1..(m + n) /\ u[i] = s[i]
  BY <1>1
<1>4. \A i \in 1..n : m + i \in 1..(m + n) /\ u[m + i] = t[i]
  <2> TAKE i \in 1..n
  <2>1. m + i \in 1..(m + n) /\ ~(m + i <= m) /\ (m + i) - m = i
    BY <1>1
  <2> QED BY <1>1, <2>1
<1>5. \A i \in 1..(m + n) : IF i \in 1..m THEN u[i] = s[i]
                             ELSE i > m /\ i - m \in 1..n /\ u[i] = t[i - m]
  BY <1>1
<1>6. ToSet(u) = ToSet(s) \cup ToSet(t)
  <2>1. ASSUME NEW i \in DOMAIN u PROVE u[i] \in ToSet(s) \cup ToSet(t)
    <3>1. \/ i \in 1..m /\ u[i] = s[i]
          \/ i - m \in 1..n /\ u[i] = t[i - m]
      BY <1>2, <1>5, <2>1
    <3> QED BY <1>1, <3>1 DEF ToSet
  <2>2. ASSUME NEW i \in DOMAIN s PROVE s[i] \in ToSet(u)
    <3>1. i \in DOMAIN u /\ u[i] = s[i]
      BY <1>1, <1>2, <1>3
    <3> QED BY <3>1 DEF ToSet
  <2>3. ASSUME NEW i \in DOMAIN t PROVE t[i] \in ToSet(u)
    <3>1. m + i \in DOMAIN u /\ u[m + i] = t[i]
      BY <1>1, <1>2, <1>4
    <3> QED BY <3>1 DEF ToSet
  <2>4. ToSet(u) \subseteq ToSet(s) \cup ToSet(t)
    BY <2>1 DEF ToSet
  <2>5. ToSet(s) \subseteq ToSet(u)
    BY <2>2 DEF ToSet
  <2>6. ToSet(t) \subseteq ToSet(u)
    BY <2>3 DEF ToSet
  <2> QED BY <2>4, <2>5, <2>6
<1>7. ASSUME Follows(s, order), Follows(t, order),
             \A k \in ToSet(s), j \in ToSet(t) : Precedes(k, j, order)
      PROVE  Follows(u, order)
  <2> SUFFICES ASSUME NEW i \in 1..(m + n), NEW j \in 1..(m + n), i < j
               PROVE  Precedes(u[i], u[j], order)
    BY <1>2 DEF Follows
  <2>1. CASE i \in 1..m /\ j \in 1..m
    BY <1>1, <1>3, <1>7, <2>1 DEF Follows
  <2>2. CASE i \in 1..m /\ j \notin 1..m
    <3>1. j - m \in 1..n /\ u[j] = t[j - m]
      BY <1>5, <2>2
    <3>2. u[j] \in ToSet(t) /\ u[i] \in ToSet(s)
      BY <1>1, <1>3, <2>2, <3>1 DEF ToSet
    <3> QED BY <1>7, <3>2
  <2>3. CASE i \notin 1..m
    <3>1. i - m \in 1..n /\ u[i] = t[i - m] /\ i > m
      BY <1>5, <2>3
    <3>2. j - m \in 1..n /\ u[j] = t[j - m] /\ i - m < j - m
      BY <1>1, <1>5, <3>1
    <3> QED BY <1>1, <1>7, <3>1, <3>2 DEF Follows
  <2> QED BY <2>1, <2>2, <2>3
<1> QED BY <1>1, <1>6, <1>7 DEF u

LEMMA EmptyList ==
  /\ \A S : <<>> \in Seq(S)
  /\ ToSet(<<>>) = {} /\ Len(<<>>) = 0
  /\ \A order : Follows(<<>>, order)
<1>1. \A S : <<>> \in Seq(S)
  BY EmptySeq
<1>2. Len(<<>>) = 0 /\ DOMAIN <<>> = {}
  BY <1>1, LenProperties, EmptySeq
<1> QED BY <1>1, <1>2 DEF ToSet, Follows

------------------------------------------------------------------------------
(* Every state of the screen, shown or seen by a handler, is sound: its    *)
(* rows are in order, none is past its cursor, those shown as read are     *)
(* read, and if no row has gone they are rows of the list and no more than *)
(* a window holds.  A state also covers what it owes: each of those rows   *)
(* is there or past the cursor, and none is past the end.                  *)

PageRecord ==
  [items : Seq(Keys), seen : SUBSET Keys, cursor : Keys \cup {None}, terminated : BOOLEAN]

Shape(v) ==
  /\ v \in View
  /\ v.kind \in {"initial", "loading", "empty", "error"} => v.posts = <<>>
  /\ v.kind # "loaded" => ~v.more /\ v.cursor = None
  /\ v.more => v.cursor # None
Reached(v) ==
  v.cursor # None =>
    /\ v.cursor \in ToSet(v.posts)
    /\ \A k \in ToSet(v.posts) : k = v.cursor \/ Precedes(k, v.cursor, Order)
Held(v, R) ==
  /\ list = "notifications" \/ v.whole => ToSet(v.posts) \subseteq R
  /\ list \in Windowed /\ v.whole => Len(v.posts) <= MaxDepth
Sound(v, R, D) ==
  /\ Shape(v)
  /\ Follows(v.posts, Order) /\ Reached(v)
  /\ v.owed \subseteq Window(R) /\ v.seen \subseteq D
  /\ Held(v, R)
Covers(v) ==
  \A k \in v.owed : k \in ToSet(v.posts) \/ (v.cursor # None /\ Precedes(v.cursor, k, Order))
Good(v, R, D) == Sound(v, R, D) /\ Covers(v)

(* What a handler carries: a load begins with nothing, a further page with *)
(* a list that goes on, a mark with the rows that are marked; and a page,  *)
(* once it is there, makes a good state of the one the handler saw.        *)
GoodCall(l, R, D) ==
  /\ l = [pc |-> l.pc, op |-> l.op, from |-> l.from, page |-> l.page]
  /\ l.pc \in {"idle", "sent", "answered", "failed"} /\ l.op \in {"load", "next", "mark"}
  /\ l.pc = "idle" => l.op = "load"
  /\ Sound(l.from, R, D)
  /\ l.op = "load" => l.from.posts = <<>> /\ l.from.cursor = None /\ l.from.kind = "initial"
  /\ l.op # "load" => Covers(l.from)
  /\ l.op = "next" => l.from.kind = "loaded" /\ l.from.cursor # None
  /\ l.op = "mark" => list = "notifications" /\ l.from.kind \in {"loaded", "terminated"}
  /\ l.pc = "answered" /\ l.op # "mark" =>
       /\ l.page \in PageRecord /\ l.page.terminated = (l.page.cursor = None)
       /\ Good(Joined(l.from, l.page), R, D)
  /\ l.pc = "answered" /\ l.op = "mark" => ToSet(l.from.posts) \subseteq D

IInv ==
  /\ list \in Lists /\ rows \subseteq Keys /\ read \subseteq Keys
  /\ list = "notifications" => read \subseteq rows
  /\ Good(view, rows, read)
  /\ call = [h \in Calls |-> call[h]]
  /\ \A h \in Calls : GoodCall(call[h], rows, read)

(* The list stays the same, and with it its order and its window.          *)
LEMMA SameList ==
  ASSUME list' = list
  PROVE  \A v, R, D : /\ Good(v, R, D)' <=> Good(v, R, D)
                      /\ GoodCall(v, R, D)' <=> GoodCall(v, R, D)
<1>1. Order' = Order /\ \A S : Window(S)' = Window(S)
  BY DEF Order, Window
<1>2. \A v, R, D : /\ Sound(v, R, D)' <=> Sound(v, R, D)
                   /\ Covers(v)' <=> Covers(v)
  BY <1>1 DEF Sound, Covers, Reached, Held
<1>3. \A v, R, D : Good(v, R, D)' <=> Good(v, R, D)
  BY <1>2 DEF Good
<1> QED BY <1>2, <1>3 DEF GoodCall

LEMMA WindowIs ==
  ASSUME NEW R \in SUBSET Keys
  PROVE  /\ Window(R) \subseteq R
         /\ list \in Windowed => /\ IsFiniteSet(Window(R)) /\ Cardinality(Window(R)) <= MaxDepth
                                /\ Cardinality(Window(R)) \in Nat
                                /\ \A k \in Window(R), j \in R :
                                     Precedes(j, k, Order) => j \in Window(R)
<1>1. RowSet(R) /\ MaxDepth \in Nat
  BY KeysAssumption, BoundsAssumption, FS_Subset DEF RowSet
<1>2. /\ First(MaxDepth, R, Order) \subseteq R /\ RowSet(First(MaxDepth, R, Order))
      /\ Cardinality(First(MaxDepth, R, Order)) \in Nat
      /\ Cardinality(First(MaxDepth, R, Order)) <= MaxDepth
      /\ \A k \in First(MaxDepth, R, Order), j \in R :
           Precedes(j, k, Order) => j \in First(MaxDepth, R, Order)
  BY <1>1, FirstIs
<1> QED BY <1>2 DEF Window, RowSet

(* The query of every list is a page of its window in its order.           *)
LEMMA PageAtIs ==
  ASSUME list \in Lists, NEW c
  PROVE  PageAt(c) = Page(Window(rows), c, Order)
<1>1. list \in AllLists
  BY ListsAssumption
<1>2. CASE list \in {"home", "author", "hashtag"}
  BY <1>2 DEF PageAt, Window, Order, Windowed, ListHomeTimeline, ListByAuthor, ListByHashtag
<1>3. CASE list = "thread"
  BY <1>3 DEF PageAt, Window, Order, Windowed, ListThreadReplies
<1>4. CASE list = "users"
  BY <1>4 DEF PageAt, Window, Order, Windowed, SearchUsers
<1>5. CASE list \in {"search", "bookmarks", "notifications", "studio"}
  BY <1>5 DEF PageAt, Window, Order, Windowed, SearchPosts, ListBookmarks, ListNotifications,
              ListPostAnalytics
<1> QED BY <1>1, <1>2, <1>3, <1>4, <1>5 DEF AllLists, Windowed
------------------------------------------------------------------------------
LEMMA JoinedIs ==
  ASSUME NEW from \in View, NEW page
  PROVE  Joined(from, page) =
         [kind |-> IF page.terminated THEN "terminated" ELSE "loaded",
          posts |-> from.posts \o page.items, seen |-> from.seen \cup page.seen,
          cursor |-> page.cursor, more |-> page.cursor # None,
          owed |-> from.owed, whole |-> from.whole]
<1> DEFINE kind == IF page.terminated THEN "terminated" ELSE "loaded"
           posts == from.posts \o page.items
           seen == from.seen \cup page.seen
           more == page.cursor # None
           R(k, p, s, c, m) ==
             [kind |-> k, posts |-> p, seen |-> s, cursor |-> c, more |-> m,
              owed |-> from.owed, whole |-> from.whole]
           v1 == [from EXCEPT !.kind = kind]
           v2 == [v1 EXCEPT !.posts = posts]
           v3 == [v2 EXCEPT !.seen = seen]
           v4 == [v3 EXCEPT !.cursor = page.cursor]
           v5 == [v4 EXCEPT !.more = more]
<1>1. Joined(from, page) = v5
  <2>1. /\ from.kind = from.kind /\ v1.posts = from.posts /\ v2.seen = from.seen
    BY DEF View
  <2> QED BY <2>1, Zenon DEF Joined
<1> HIDE DEF kind, posts, seen, more
<1>2. v1 = R(kind, from.posts, from.seen, from.cursor, from.more)
  BY DEF View
<1> HIDE DEF v1
<1>3. v2 = R(kind, posts, from.seen, from.cursor, from.more)
  BY <1>2
<1> HIDE DEF v2
<1>4. v3 = R(kind, posts, seen, from.cursor, from.more)
  BY <1>3
<1> HIDE DEF v3
<1>5. v4 = R(kind, posts, seen, page.cursor, from.more)
  BY <1>4
<1> HIDE DEF v4
<1>6. v5 = R(kind, posts, seen, page.cursor, more)
  BY <1>5
<1> HIDE DEF v5
<1> QED BY <1>1, <1>6 DEF kind, posts, seen, more

(* The page a list answers with, joined to the rows it was asked for with. *)
LEMMA JoinGood ==
  ASSUME list \in Lists, rows \subseteq Keys, read \subseteq Keys,
         NEW c, NEW from, Sound(from, rows, read),
         \A k \in ToSet(from.posts), j \in PastCursor(Window(rows), c, Order) :
           Precedes(k, j, Order),
         \A k \in from.owed : k \in ToSet(from.posts) \cup PastCursor(Window(rows), c, Order)
  PROVE  /\ PageAt(c) \in PageRecord
         /\ PageAt(c).terminated = (PageAt(c).cursor = None)
         /\ Good(Joined(from, PageAt(c)), rows, read)
<1> DEFINE page == PageAt(c)
           past == PastCursor(Window(rows), c, Order)
           v == Joined(from, page)
<1>1. /\ page \in PageRecord /\ page.terminated = (page.cursor = None)
      /\ ToSet(page.items) \subseteq past /\ Follows(page.items, Order)
      /\ page.seen \subseteq read
      /\ page.cursor = None => ToSet(page.items) = past
      /\ page.cursor # None =>
           /\ page.cursor \in ToSet(page.items)
           /\ \A k \in ToSet(page.items) :
                k = page.cursor \/ Precedes(k, page.cursor, Order)
           /\ \A k \in past : k \in ToSet(page.items) \/ Precedes(page.cursor, k, Order)
  <2>1. page = Page(Window(rows), c, Order)
    BY PageAtIs
  <2>2. Window(rows) \in SUBSET Keys
    BY WindowIs
  <2> HIDE DEF page
  <2> QED BY <2>1, <2>2, PageIs DEF PageRecord
<1>2. past \subseteq Window(rows) /\ Window(rows) \subseteq rows
  BY WindowIs DEF PastCursor
<1>3. from \in View /\ from.posts \in Seq(Keys) /\ page.items \in Seq(Keys)
  BY <1>1 DEF Sound, Shape, View, PageRecord
<1>4. /\ v = [kind |-> IF page.terminated THEN "terminated" ELSE "loaded",
             posts |-> from.posts \o page.items, seen |-> from.seen \cup page.seen,
             cursor |-> page.cursor, more |-> page.cursor # None,
             owed |-> from.owed, whole |-> from.whole]
  <2> HIDE DEF page
  <2> QED BY <1>3, JoinedIs
<1> HIDE DEF page, past, v
<1>5. v.posts = from.posts \o page.items /\ v.cursor = page.cursor /\ v.owed = from.owed
      /\ v.seen = from.seen \cup page.seen /\ v.whole = from.whole
      /\ v.kind = (IF page.terminated THEN "terminated" ELSE "loaded")
      /\ v.more = (page.cursor # None)
  BY <1>4
<1>6. v.posts \in Seq(Keys) /\ ToSet(v.posts) = ToSet(from.posts) \cup ToSet(page.items)
  <2>1. \A order : ToSet(from.posts \o page.items) = ToSet(from.posts) \cup ToSet(page.items)
                  /\ from.posts \o page.items \in Seq(Keys)
    BY <1>3, Concat
  <2> QED BY <1>5, <2>1
<1>7. Shape(v)
  <2>1. v.seen \subseteq Keys /\ v.cursor \in Keys \cup {None} /\ v.more \in BOOLEAN
    BY <1>1, <1>3, <1>5 DEF PageRecord, View
  <2>2. v.owed \subseteq Keys /\ v.whole \in BOOLEAN /\ v.kind \in {"terminated", "loaded"}
    BY <1>3, <1>5 DEF View
  <2>3. v \in View
    BY <1>4, <1>5, <1>6, <2>1, <2>2 DEF View
  <2> QED BY <1>1, <1>5, <2>3 DEF Shape
<1>8. Follows(v.posts, Order)
  <2>1. \A k \in ToSet(from.posts), j \in ToSet(page.items) : Precedes(k, j, Order)
    BY <1>1 DEF past
  <2> QED BY <1>1, <1>3, <1>5, <2>1, Concat DEF Sound
<1>9. Reached(v)
  <2> SUFFICES ASSUME page.cursor # None
               PROVE  /\ page.cursor \in ToSet(v.posts)
                      /\ \A k \in ToSet(v.posts) :
                           k = page.cursor \/ Precedes(k, page.cursor, Order)
    BY <1>5 DEF Reached
  <2>1. page.cursor \in ToSet(page.items) /\ page.cursor \in past
    BY <1>1
  <2>2. \A k \in ToSet(from.posts) : Precedes(k, page.cursor, Order)
    BY <2>1 DEF past
  <2> QED BY <1>1, <1>6, <2>1, <2>2
<1>10. v.owed \subseteq Window(rows) /\ v.seen \subseteq read
  BY <1>1, <1>5 DEF Sound
<1>11. Held(v, rows)
  <2>1. ASSUME list = "notifications" \/ v.whole PROVE ToSet(v.posts) \subseteq rows
    BY <1>1, <1>2, <1>5, <1>6, <2>1 DEF Sound, Held
  <2>2. ASSUME list \in Windowed, v.whole, ToSet(page.items) = {}
        PROVE  Len(v.posts) <= MaxDepth
    <3>1. Len(page.items) = 0
      <4>1. Len(page.items) \in Nat /\ ~(1 \in 1..Len(page.items))
        BY <1>3, <2>2, SeqFacts
      <4> QED BY <4>1
    <3>2. Len(v.posts) = Len(from.posts) /\ Len(from.posts) <= MaxDepth
      <4>1. Len(from.posts) \in Nat /\ Len(v.posts) = Len(from.posts) + Len(page.items)
        BY <1>3, <1>5, ConcatProperties, LenProperties
      <4> QED BY <1>5, <2>2, <3>1, <4>1 DEF Sound, Held
    <3> QED BY <3>2
  <2>3. ASSUME list \in Windowed, v.whole, NEW j \in ToSet(page.items)
        PROVE  Len(v.posts) <= MaxDepth
    <3>1. j \in past /\ j \in Window(rows)
      BY <1>1, <1>2
    <3>2. ToSet(from.posts) \subseteq rows
      BY <1>5, <2>3 DEF Sound, Held
    <3>3. ASSUME NEW k \in ToSet(from.posts) PROVE k \in Window(rows)
      <4>1. Precedes(k, j, Order) /\ k \in rows
        BY <3>1, <3>2 DEF past
      <4> QED BY <2>3, <3>1, <4>1, WindowIs
    <3>4. ToSet(v.posts) \subseteq Window(rows)
      BY <1>1, <1>2, <1>6, <3>3
    <3>5. IsFiniteSet(Window(rows)) /\ Cardinality(Window(rows)) \in Nat
          /\ Cardinality(Window(rows)) <= MaxDepth
      BY <2>3, WindowIs
    <3>6. /\ Cardinality(ToSet(v.posts)) <= Cardinality(Window(rows))
          /\ Cardinality(ToSet(v.posts)) \in Nat
      BY <3>4, <3>5, FS_Subset, FS_CardinalityType
    <3>7. v.posts \in Seq(Nat)
      BY <1>6, KeysAssumption, SeqMonotonic
    <3>8. Len(v.posts) = Cardinality(ToSet(v.posts))
      BY <1>8, <3>7, SortedLength
    <3> QED BY <3>5, <3>6, <3>8, BoundsAssumption
  <2> QED BY <2>1, <2>2, <2>3 DEF Held
<1>12. Covers(v)
  <2> SUFFICES ASSUME NEW k \in from.owed, k \notin ToSet(v.posts)
               PROVE  page.cursor # None /\ Precedes(page.cursor, k, Order)
    BY <1>5 DEF Covers
  <2>1. k \in past /\ k \notin ToSet(page.items)
    BY <1>6 DEF past
  <2> QED BY <1>1, <2>1
<1> QED BY <1>1, <1>7, <1>8, <1>9, <1>10, <1>11, <1>12 DEF Good, Sound, page, v
------------------------------------------------------------------------------
(* The states the handlers make of one another.                            *)
LEMMA BlankGood ==
  ASSUME NEW kind \in {"initial", "loading", "error"}, NEW R, NEW D
  PROVE  /\ Blank \in View /\ Blank.posts = <<>> /\ Blank.cursor = None /\ Blank.kind = "initial"
         /\ Good([Blank EXCEPT !.kind = kind], R, D)
         /\ Good(Blank, R, D) /\ Sound(Blank, R, D)
<1> DEFINE v == [Blank EXCEPT !.kind = kind]
<1>1. /\ Blank \in View /\ Blank.posts = <<>> /\ Blank.cursor = None /\ Blank.kind = "initial"
  BY EmptyList DEF Blank, View
<1>2. ASSUME NEW w \in View, w.posts = <<>>, w.cursor = None, w.owed = {}, w.seen = {},
             w.more = FALSE
      PROVE  Good(w, R, D)
  <2>1. ToSet(w.posts) = {} /\ Len(w.posts) = 0 /\ Follows(w.posts, Order)
    BY <1>2, EmptyList
  <2>2. Held(w, R) /\ Covers(w) /\ Reached(w) /\ Shape(w)
    BY <1>2, <2>1, BoundsAssumption DEF Held, Covers, Reached, Shape
  <2> QED BY <1>2, <2>1, <2>2 DEF Good, Sound
<1>3. /\ v \in View /\ v.posts = <<>> /\ v.cursor = None /\ v.owed = {} /\ v.seen = {}
      /\ v.more = FALSE
  BY EmptyList DEF Blank, View
<1>4. Blank.owed = {} /\ Blank.seen = {} /\ Blank.more = FALSE
  BY DEF Blank
<1> HIDE DEF v
<1>5. Good(v, R, D) /\ Good(Blank, R, D)
  BY <1>1, <1>2, <1>3, <1>4
<1> QED BY <1>1, <1>5 DEF v, Good

LEMMA LockedGood ==
  ASSUME NEW v, NEW R, NEW D, Good(v, R, D), v.kind = "loaded"
  PROVE  Good([v EXCEPT !.more = FALSE], R, D)
<1> DEFINE w == [v EXCEPT !.more = FALSE]
<1>1. v \in View
  BY DEF Good, Sound, Shape
<1>2. /\ w \in View /\ w.kind = "loaded" /\ w.posts = v.posts /\ w.seen = v.seen
      /\ w.cursor = v.cursor /\ w.more = FALSE /\ w.owed = v.owed /\ w.whole = v.whole
  BY <1>1 DEF View
<1> HIDE DEF w
<1>3. Held(w, R) /\ Covers(w) /\ Reached(w) /\ Shape(w)
  BY <1>2 DEF Good, Sound, Held, Covers, Reached, Shape
<1> QED BY <1>2, <1>3 DEF Good, Sound, w

LEMMA MarkedGood ==
  ASSUME NEW v, NEW R, NEW D, Good(v, R, D), ToSet(v.posts) \subseteq D
  PROVE  Good([v EXCEPT !.seen = ToSet(v.posts)], R, D)
<1> DEFINE w == [v EXCEPT !.seen = ToSet(v.posts)]
<1>1. v \in View
  BY DEF Good, Sound, Shape
<1>2. ToSet(v.posts) \subseteq Keys
  <2>1. v.posts \in Seq(Keys)
    BY <1>1 DEF View
  <2> QED BY <2>1, SeqFacts
<1>3. /\ w \in View /\ w.kind = v.kind /\ w.posts = v.posts /\ w.seen = ToSet(v.posts)
      /\ w.cursor = v.cursor /\ w.more = v.more /\ w.owed = v.owed /\ w.whole = v.whole
  BY <1>1, <1>2 DEF View
<1> HIDE DEF w
<1>4. Held(w, R) /\ Covers(w) /\ Reached(w) /\ Shape(w)
  BY <1>3 DEF Good, Sound, Held, Covers, Reached, Shape
<1> QED BY <1>3, <1>4 DEF Good, Sound, w

LEMMA MoreRead ==
  ASSUME NEW v, NEW R, NEW D, NEW E, D \subseteq E
  PROVE  /\ Sound(v, R, D) => Sound(v, R, E)
         /\ Good(v, R, D) => Good(v, R, E)
         /\ GoodCall(v, R, D) => GoodCall(v, R, E)
<1>1. /\ \A w : Sound(w, R, D) => Sound(w, R, E)
      /\ \A w : Good(w, R, D) => Good(w, R, E)
  BY DEF Sound, Good
<1> QED BY <1>1 DEF GoodCall

(* Rows come and go: what is owed shrinks to what is still there.          *)
LEMMA NarrowIs ==
  ASSUME NEW v \in View, NEW S
  PROVE  LET w == Narrow(v, S)
         IN  /\ w \in View
             /\ w = [kind |-> v.kind, posts |-> v.posts, seen |-> v.seen, cursor |-> v.cursor,
                     more |-> v.more, owed |-> v.owed \cap Window(S),
                     whole |-> v.whole /\ rows \subseteq S]
<1> DEFINE owed == v.owed \cap Window(S)
           whole == v.whole /\ rows \subseteq S
           v1 == [v EXCEPT !.owed = owed]
           v2 == [v1 EXCEPT !.whole = whole]
<1>1. Narrow(v, S) = v2
  <2>1. v1.whole = v.whole
    BY DEF View
  <2> QED BY <2>1, Zenon DEF Narrow
<1>2. owed \in SUBSET Keys /\ whole \in BOOLEAN
  BY DEF View
<1> HIDE DEF owed, whole
<1>3. v1 = [kind |-> v.kind, posts |-> v.posts, seen |-> v.seen, cursor |-> v.cursor,
            more |-> v.more, owed |-> owed, whole |-> v.whole]
  BY DEF View
<1> HIDE DEF v1
<1>4. v2 = [kind |-> v.kind, posts |-> v.posts, seen |-> v.seen, cursor |-> v.cursor,
            more |-> v.more, owed |-> owed, whole |-> whole]
  BY <1>3
<1>5. v2 \in View
  BY <1>2, <1>4 DEF View
<1> HIDE DEF v2
<1> QED BY <1>1, <1>4, <1>5 DEF owed, whole

LEMMA NarrowGood ==
  ASSUME NEW v, NEW D, NEW S, Sound(v, rows, D), list = "notifications" => rows \subseteq S
  PROVE  Sound(Narrow(v, S), S, D) /\ (Covers(v) => Covers(Narrow(v, S)))
<1> DEFINE w == Narrow(v, S)
<1>1. v \in View
  BY DEF Sound, Shape
<1>2. /\ w \in View /\ w.kind = v.kind /\ w.posts = v.posts /\ w.seen = v.seen
      /\ w.cursor = v.cursor /\ w.more = v.more /\ w.owed = v.owed \cap Window(S)
      /\ w.whole = (v.whole /\ rows \subseteq S)
  BY <1>1, NarrowIs
<1> HIDE DEF w
<1>3. Shape(w) /\ Reached(w)
  BY <1>2 DEF Sound, Shape, Reached
<1>4. Held(w, S)
  BY <1>2 DEF Sound, Held
<1>5. Covers(v) => Covers(w)
  BY <1>2 DEF Covers
<1> QED BY <1>2, <1>3, <1>4, <1>5 DEF Sound, w

LEMMA NarrowJoined ==
  ASSUME NEW from \in View, NEW page \in PageRecord, NEW S, Joined(from, page) \in View
  PROVE  Joined(Narrow(from, S), page) = Narrow(Joined(from, page), S)
<1> DEFINE u == Narrow(from, S)
           v == Joined(from, page)
<1>1. /\ u \in View /\ u.posts = from.posts /\ u.seen = from.seen
      /\ u.owed = from.owed \cap Window(S) /\ u.whole = (from.whole /\ rows \subseteq S)
  BY NarrowIs
<1>2. v = [kind |-> IF page.terminated THEN "terminated" ELSE "loaded",
           posts |-> from.posts \o page.items, seen |-> from.seen \cup page.seen,
           cursor |-> page.cursor, more |-> page.cursor # None,
           owed |-> from.owed, whole |-> from.whole]
  BY JoinedIs
<1>3. Narrow(v, S) =
      [kind |-> v.kind, posts |-> v.posts, seen |-> v.seen, cursor |-> v.cursor,
       more |-> v.more, owed |-> v.owed \cap Window(S), whole |-> v.whole /\ rows \subseteq S]
  BY NarrowIs
<1>4. Joined(u, page) =
      [kind |-> IF page.terminated THEN "terminated" ELSE "loaded",
       posts |-> u.posts \o page.items, seen |-> u.seen \cup page.seen,
       cursor |-> page.cursor, more |-> page.cursor # None,
       owed |-> u.owed, whole |-> u.whole]
  BY <1>1, JoinedIs
<1> HIDE DEF u, v
<1> QED BY <1>1, <1>2, <1>3, <1>4 DEF u, v
------------------------------------------------------------------------------
(* The records of the handlers.                                            *)
Carried(pc, op, from, page) == [pc |-> pc, op |-> op, from |-> from, page |-> page]

LEMMA IdleGood ==
  ASSUME NEW R, NEW D
  PROVE  GoodCall(Idle, R, D)
<1>1. /\ Idle.pc = "idle" /\ Idle.op = "load" /\ Idle.from = Blank
      /\ Idle = [pc |-> Idle.pc, op |-> Idle.op, from |-> Idle.from, page |-> Idle.page]
  BY DEF Idle
<1> QED BY <1>1, BlankGood DEF GoodCall

LEMMA InvariantStarts == Init => IInv
<1> SUFFICES ASSUME Init PROVE IInv
  OBVIOUS
<1>1. list \in Lists /\ rows \subseteq Keys /\ read = {} /\ read \subseteq Keys
  BY DEF Init
<1>2. Good(view, rows, read)
  BY BlankGood DEF Init
<1>3. call = [h \in Calls |-> call[h]] /\ \A h \in Calls : call[h] = Idle
  BY DEF Init
<1> QED BY <1>1, <1>2, <1>3, IdleGood DEF IInv

(* A step that leaves the rows and the marks alone, writes one handler and *)
(* perhaps the state that is shown.                                        *)
LEMMA OneHandler ==
  ASSUME IInv, UNCHANGED <<list, rows, read>>, Good(view', rows, read),
         NEW h \in Calls, NEW l, GoodCall(l, rows, read), call' = [call EXCEPT ![h] = l]
  PROVE  IInv'
<1>1. \A g \in Calls : call'[g] = (IF g = h THEN l ELSE call[g])
  BY DEF IInv
<1>2. call' = [g \in Calls |-> call'[g]]
  BY DEF IInv
<1>3. \A g \in Calls : GoodCall(call'[g], rows, read)
  BY <1>1 DEF IInv
<1>4. Good(view', rows', read') /\ \A g \in Calls : GoodCall(call'[g], rows', read')
  BY <1>3
<1>5. Good(view, rows, read)'
  BY <1>4, SameList
<1>6. ASSUME NEW g \in Calls PROVE GoodCall(call[g], rows, read)'
  BY <1>4, SameList
<1> QED BY <1>2, <1>5, <1>6 DEF IInv

(* What a handler begins with.                                             *)
LEMMA BeginGood ==
  ASSUME NEW op \in {"load", "next", "mark"}, NEW from, NEW R, NEW D, Good(from, R, D),
         op = "load" => from = Blank,
         op = "next" => from.kind = "loaded" /\ from.cursor # None,
         op = "mark" => list = "notifications" /\ from.kind \in {"loaded", "terminated"}
  PROVE  GoodCall([pc |-> "sent", op |-> op, from |-> from, page |-> None], R, D)
<1> DEFINE l == [pc |-> "sent", op |-> op, from |-> from, page |-> None]
<1>1. /\ l.pc = "sent" /\ l.op = op /\ l.from = from
      /\ l = [pc |-> l.pc, op |-> l.op, from |-> l.from, page |-> l.page]
  OBVIOUS
<1> HIDE DEF l
<1>2. GoodCall(l, R, D)
  BY <1>1, BlankGood DEF GoodCall, Good
<1> QED BY <1>2 DEF l

LEMMA ListRowsGood ==
  ASSUME IInv, NEW h \in Calls, ListRows(h)
  PROVE  IInv'
<1> DEFINE l == call[h]
           load == l.op = "load"
           from == IF load THEN [l.from EXCEPT !.owed = Window(rows)] ELSE l.from
           c == IF load THEN None ELSE l.from.cursor
           page == PageAt(c)
           m == Carried("answered", l.op, from, page)
<1>1. /\ l = Carried(l.pc, l.op, l.from, l.page) /\ l.pc = "sent" /\ l.op \in {"load", "next"}
      /\ Sound(l.from, rows, read) /\ l.from \in View
      /\ load => l.from.posts = <<>> /\ l.from.cursor = None /\ l.from.kind = "initial"
      /\ ~load => l.from.kind = "loaded" /\ l.from.cursor # None /\ Covers(l.from)
  BY DEF ListRows, At, IInv, GoodCall, Sound, Shape, Carried
<1>2. list \in Lists /\ rows \subseteq Keys /\ read \subseteq Keys
  BY DEF IInv
<1>3. /\ from \in View /\ from.posts = l.from.posts /\ from.seen = l.from.seen
      /\ from.cursor = l.from.cursor /\ from.kind = l.from.kind /\ from.more = l.from.more
      /\ from.whole = l.from.whole
      /\ from.owed = (IF load THEN Window(rows) ELSE l.from.owed)
  <2>1. Window(rows) \in SUBSET Keys
    BY <1>2, WindowIs
  <2> QED BY <1>1, <2>1 DEF View
<1>4. call' = [call EXCEPT ![h] = m]
  <2> DEFINE l0 == [l EXCEPT !.pc = "answered"]
             l1 == [l0 EXCEPT !.page = page]
             l2 == [l1 EXCEPT !.from = from]
  <2>1. call' = [call EXCEPT ![h] = l2]
    BY Zenon DEF ListRows
  <2>2. l0 = Carried("answered", l.op, l.from, l.page)
    BY <1>1 DEF Carried
  <2> HIDE DEF l0, from, page
  <2>3. l1 = Carried("answered", l.op, l.from, page)
    BY <2>2 DEF Carried
  <2> HIDE DEF l1
  <2>4. l2 = m
    BY <2>3 DEF Carried
  <2> QED BY <2>1, <2>4
<1>5. Sound(from, rows, read)
  <2> HIDE DEF from, c, page, m
  <2>1. from.owed \subseteq Window(rows)
    BY <1>1, <1>3 DEF Sound
  <2>2. Shape(from) /\ Reached(from) /\ Held(from, rows)
    BY <1>1, <1>3 DEF Sound, Shape, Reached, Held
  <2> QED BY <1>1, <1>3, <2>1, <2>2 DEF Sound
<1>6. \A k \in ToSet(from.posts), j \in PastCursor(Window(rows), c, Order) : Precedes(k, j, Order)
  <2>1. CASE load
    BY <1>1, <1>3, <2>1, EmptyList
  <2>2. CASE ~load
    <3> SUFFICES ASSUME NEW k \in ToSet(l.from.posts), NEW j \in Window(rows),
                        Precedes(l.from.cursor, j, Order)
                 PROVE  Precedes(k, j, Order)
      BY <1>1, <1>3, <2>2 DEF PastCursor
    <3>1. l.from.posts \in Seq(Keys) /\ l.from.cursor \in Keys
      BY <1>1, <2>2 DEF View
    <3>2. k \in Nat /\ j \in Nat /\ l.from.cursor \in Nat
      <4>1. k \in Keys
        BY <3>1, SeqFacts
      <4>2. j \in Keys
        BY <1>2, WindowIs
      <4> QED BY <3>1, <4>1, <4>2, KeysAssumption
    <3>3. k = l.from.cursor \/ Precedes(k, l.from.cursor, Order)
      BY <1>1, <2>2 DEF Sound, Reached
    <3> QED BY <3>2, <3>3, OrderTotal
  <2> QED BY <2>1, <2>2
<1>7. \A k \in from.owed : k \in ToSet(from.posts) \cup PastCursor(Window(rows), c, Order)
  <2>1. CASE load
    BY <1>3, <2>1 DEF PastCursor
  <2>2. CASE ~load
    BY <1>1, <1>3, <2>2 DEF PastCursor, Covers, Sound
  <2> QED BY <2>1, <2>2
<1>8. /\ page \in PageRecord /\ page.terminated = (page.cursor = None)
      /\ Good(Joined(from, page), rows, read)
  <2> HIDE DEF from, c
  <2> QED BY <1>2, <1>5, <1>6, <1>7, JoinGood
<1>9. GoodCall(m, rows, read)
  <2>1. ~load => Covers(from)
    BY <1>1
  <2> HIDE DEF from, page
  <2>2. /\ m.pc = "answered" /\ m.op = l.op /\ m.from = from /\ m.page = page
        /\ m = [pc |-> m.pc, op |-> m.op, from |-> m.from, page |-> m.page]
    BY DEF Carried
  <2> HIDE DEF m
  <2> QED BY <1>1, <1>3, <1>5, <1>8, <2>1, <2>2 DEF GoodCall
<1>10. UNCHANGED <<list, rows, read>> /\ Good(view', rows, read)
  BY DEF ListRows, IInv
<1> HIDE DEF m
<1> QED BY <1>4, <1>9, <1>10, OneHandler

LEMMA MarkAllReadGood ==
  ASSUME IInv, NEW h \in Calls, MarkAllRead(h)
  PROVE  IInv'
<1> DEFINE l == call[h]
           m == [l EXCEPT !.pc = "answered"]
<1>1. /\ GoodCall(l, rows, read) /\ l.pc = "sent" /\ l.op = "mark" /\ list = "notifications"
      /\ read' = rows /\ read \subseteq rows /\ rows \subseteq Keys
      /\ UNCHANGED <<list, rows, view>> /\ call' = [call EXCEPT ![h] = m]
  BY DEF MarkAllRead, At, IInv, GoodCall
<1>2. m.pc = "answered" /\ m.op = "mark" /\ m.from = l.from
      /\ m = [pc |-> m.pc, op |-> m.op, from |-> m.from, page |-> m.page]
  BY <1>1 DEF GoodCall
<1> HIDE DEF m
<1>3. Sound(l.from, rows, rows)
  BY <1>1, MoreRead DEF GoodCall
<1>4. ToSet(m.from.posts) \subseteq rows
  BY <1>1, <1>2 DEF GoodCall, Sound, Held
<1>5. GoodCall(m, rows, rows)
  BY <1>1, <1>2, <1>3, <1>4 DEF GoodCall
<1>6. Good(view, rows, rows) /\ \A g \in Calls : GoodCall(call[g], rows, rows)
  BY <1>1, MoreRead DEF IInv
<1>7. /\ call' = [g \in Calls |-> call'[g]]
      /\ \A g \in Calls : GoodCall(call'[g], rows, rows)
  BY <1>1, <1>5, <1>6 DEF IInv
<1>8. /\ Good(view', rows', read') /\ \A g \in Calls : GoodCall(call'[g], rows', read')
  BY <1>1, <1>6, <1>7
<1>9. Good(view, rows, read)' /\ \A g \in Calls : GoodCall(call[g], rows, read)'
  <2>1. Good(view, rows, read)'
    BY <1>1, <1>8, SameList
  <2>2. ASSUME NEW g \in Calls PROVE GoodCall(call[g], rows, read)'
    BY <1>1, <1>8, SameList
  <2> QED BY <2>1, <2>2
<1> QED BY <1>1, <1>7, <1>9 DEF IInv

(* A row comes or goes: every state that is held becomes narrower.         *)
LEMMA BecomeGood ==
  ASSUME IInv, NEW S \in SUBSET Keys, list = "notifications" => rows \subseteq S, Become(S)
  PROVE  IInv'
<1>1. /\ rows' = S /\ view' = Narrow(view, S) /\ UNCHANGED <<list, read>>
      /\ call' = [h \in Calls |-> [call[h] EXCEPT !.from = Narrow(call[h].from, S)]]
  BY DEF Become
<1>2. Good(Narrow(view, S), S, read)
  BY NarrowGood DEF IInv, Good
<1>3. ASSUME NEW h \in Calls PROVE GoodCall(call'[h], S, read)
  <2> DEFINE l == call[h]
             m == [l EXCEPT !.from = Narrow(l.from, S)]
             u == Narrow(l.from, S)
  <2>1. GoodCall(l, rows, read) /\ call'[h] = m
    BY <1>1 DEF IInv
  <2>2. /\ m.pc = l.pc /\ m.op = l.op /\ m.from = u /\ m.page = l.page
        /\ m = [pc |-> m.pc, op |-> m.op, from |-> m.from, page |-> m.page]
    BY <2>1 DEF GoodCall
  <2>3. l.from \in View
    BY <2>1 DEF GoodCall, Sound, Shape
  <2>4. /\ u.kind = l.from.kind /\ u.posts = l.from.posts /\ u.cursor = l.from.cursor
    BY <2>3, NarrowIs
  <2>5. Sound(u, S, read) /\ (Covers(l.from) => Covers(u))
    BY <2>1, NarrowGood DEF GoodCall
  <2>6. ASSUME l.pc = "answered", l.op # "mark"
        PROVE  /\ l.page \in PageRecord /\ l.page.terminated = (l.page.cursor = None)
               /\ Good(Joined(u, l.page), S, read)
    <3>1. /\ l.page \in PageRecord /\ l.page.terminated = (l.page.cursor = None)
          /\ Good(Joined(l.from, l.page), rows, read)
      BY <2>1, <2>6 DEF GoodCall
    <3>2. Joined(l.from, l.page) \in View
      BY <3>1 DEF Good, Sound, Shape
    <3>3. Joined(u, l.page) = Narrow(Joined(l.from, l.page), S)
      BY <2>3, <3>1, <3>2, NarrowJoined
    <3>4. Good(Narrow(Joined(l.from, l.page), S), S, read)
      BY <3>1, NarrowGood DEF Good
    <3> QED BY <3>1, <3>3, <3>4
  <2> HIDE DEF u, m
  <2>7. GoodCall(m, S, read)
    BY <2>1, <2>2, <2>4, <2>5, <2>6 DEF GoodCall
  <2> QED BY <2>1, <2>7
<1>4. call' = [h \in Calls |-> call'[h]]
  BY <1>1
<1>5. Good(view', rows', read') /\ \A h \in Calls : GoodCall(call'[h], rows', read')
  BY <1>1, <1>2, <1>3
<1>6. Good(view, rows, read)'
  BY <1>1, <1>5, SameList
<1>7. ASSUME NEW h \in Calls PROVE GoodCall(call[h], rows, read)'
  BY <1>1, <1>5, SameList
<1>8. /\ list' \in Lists /\ rows' \subseteq Keys /\ read' \subseteq Keys
      /\ list' = "notifications" => read' \subseteq rows'
  BY <1>1 DEF IInv
<1> QED BY <1>4, <1>6, <1>7, <1>8 DEF IInv

LEMMA InvariantKept == IInv /\ [Next]_vars => IInv'
<1> SUFFICES ASSUME IInv, [Next]_vars PROVE IInv'
  OBVIOUS
<1>1. Good(view, rows, read) /\ \A h \in Calls : GoodCall(call[h], rows, read)
  BY DEF IInv
<1>2. ASSUME NEW h \in Calls, LoadRequested(h) PROVE IInv'
  <2>1. Good(view', rows, read)
    BY <1>2, BlankGood DEF LoadRequested
  <2>2. GoodCall([pc |-> "sent", op |-> "load", from |-> Blank, page |-> None], rows, read)
    BY BlankGood, BeginGood
  <2> QED BY <1>2, <2>1, <2>2, OneHandler DEF LoadRequested, Begin
<1>3. ASSUME NEW h \in Calls, NextPageRequested(h) PROVE IInv'
  <2>1. view.kind = "loaded" /\ view.cursor # None
    BY <1>1, <1>3 DEF NextPageRequested, Good, Sound, Shape
  <2>2. Good(view', rows, read)
    BY <1>1, <1>3, <2>1, LockedGood DEF NextPageRequested
  <2>3. GoodCall([pc |-> "sent", op |-> "next", from |-> view, page |-> None], rows, read)
    BY <1>1, <2>1, BeginGood
  <2> QED BY <1>3, <2>2, <2>3, OneHandler DEF NextPageRequested, Begin
<1>4. ASSUME NEW h \in Calls, MarkAllReadRequested(h) PROVE IInv'
  <2>1. GoodCall([pc |-> "sent", op |-> "mark", from |-> view, page |-> None], rows, read)
    BY <1>1, <1>4, BeginGood DEF MarkAllReadRequested
  <2>2. Good(view', rows, read)
    BY <1>1, <1>4 DEF MarkAllReadRequested
  <2> QED BY <1>4, <2>1, <2>2, OneHandler DEF MarkAllReadRequested, Begin
<1>5. ASSUME NEW h \in Calls, ListRows(h) PROVE IInv'
  BY <1>5, ListRowsGood
<1>6. ASSUME NEW h \in Calls, MarkAllRead(h) PROVE IInv'
  BY <1>6, MarkAllReadGood
<1>7. ASSUME NEW h \in Calls, Lose(h) PROVE IInv'
  <2> DEFINE l == call[h]
             l1 == [l EXCEPT !.pc = "failed"]
             l2 == [l1 EXCEPT !.page = None]
  <2>1. /\ call' = [call EXCEPT ![h] = l2] /\ UNCHANGED <<list, rows, read, view>>
        /\ l.pc \in {"sent", "answered"}
    BY <1>7, Zenon DEF Lose, At
  <2>2. l1 = [pc |-> "failed", op |-> l.op, from |-> l.from, page |-> l.page]
    <3>1. l = [pc |-> l.pc, op |-> l.op, from |-> l.from, page |-> l.page]
      BY <1>1 DEF GoodCall
    <3> QED BY <3>1
  <2> HIDE DEF l1
  <2>3. l2 = [pc |-> "failed", op |-> l.op, from |-> l.from, page |-> None]
    BY <2>2
  <2> HIDE DEF l2
  <2>4. /\ l2.pc = "failed" /\ l2.op = l.op /\ l2.from = l.from
        /\ l2 = [pc |-> l2.pc, op |-> l2.op, from |-> l2.from, page |-> l2.page]
    BY <2>3
  <2>5. GoodCall(l2, rows, read)
    BY <1>1, <2>4 DEF GoodCall
  <2>6. Good(view', rows, read)
    BY <1>1, <2>1
  <2> QED BY <2>1, <2>5, <2>6, OneHandler
<1>8. ASSUME NEW h \in Calls, LoadAnswered(h) PROVE IInv'
  <2> DEFINE from == call[h].from
             page == call[h].page
             v == Joined(from, page)
             w == [v EXCEPT !.kind = "empty"]
  <2>1. /\ Good(v, rows, read) /\ from.posts = <<>> /\ from \in View /\ page \in PageRecord
        /\ view' = Loaded(from, page)
    BY <1>1, <1>8 DEF LoadAnswered, At, GoodCall, Sound, Shape
  <2>2. CASE view' = v
    <3>1. Good(view', rows, read)
      BY <2>1, <2>2
    <3> QED BY <1>8, <3>1, IdleGood, OneHandler DEF LoadAnswered, Finish
  <2>3. CASE page.items = <<>> /\ view' = w
    <3>1. v.posts = <<>> \o <<>> /\ v.more = (v.cursor # None) /\ v \in View
      <4> HIDE DEF from, page
      <4>1. v = [kind |-> IF page.terminated THEN "terminated" ELSE "loaded",
                 posts |-> from.posts \o page.items, seen |-> from.seen \cup page.seen,
                 cursor |-> page.cursor, more |-> page.cursor # None,
                 owed |-> from.owed, whole |-> from.whole]
        BY <2>1, JoinedIs
      <4> HIDE DEF v
      <4> QED BY <2>1, <2>3, <4>1 DEF Good, Sound, Shape
    <3>2. v.posts = <<>>
      BY <3>1, EmptyList, ConcatEmptySeq
    <3>3. v.cursor = None /\ v.more = FALSE
      BY <2>1, <3>1, <3>2, EmptyList DEF Good, Sound, Reached
    <3> HIDE DEF v
    <3>4. /\ w \in View /\ w.kind = "empty" /\ w.posts = v.posts /\ w.seen = v.seen
          /\ w.cursor = v.cursor /\ w.more = v.more /\ w.owed = v.owed /\ w.whole = v.whole
      BY <3>1 DEF View
    <3> HIDE DEF w
    <3>5. Held(w, rows) /\ Covers(w) /\ Reached(w) /\ Shape(w)
      BY <2>1, <3>2, <3>3, <3>4 DEF Good, Sound, Held, Covers, Reached, Shape
    <3>6. Good(w, rows, read)
      BY <2>1, <3>4, <3>5 DEF Good, Sound
    <3>7. Good(view', rows, read)
      BY <2>3, <3>6
    <3> QED BY <1>8, <3>7, IdleGood, OneHandler DEF LoadAnswered, Finish
  <2> QED BY <2>1, <2>2, <2>3 DEF Loaded
<1>9. ASSUME NEW h \in Calls, NextPageAnswered(h) PROVE IInv'
  <2>1. Good(view', rows, read)
    BY <1>1, <1>9 DEF NextPageAnswered, At, GoodCall
  <2> QED BY <1>9, <2>1, IdleGood, OneHandler DEF NextPageAnswered, Finish
<1>10. ASSUME NEW h \in Calls, MarkAnswered(h) PROVE IInv'
  <2>1. Good(call[h].from, rows, read) /\ ToSet(call[h].from.posts) \subseteq read
    BY <1>1, <1>10 DEF MarkAnswered, At, GoodCall, Good
  <2>2. Good(view', rows, read)
    BY <1>10, <2>1, MarkedGood DEF MarkAnswered
  <2> QED BY <1>10, <2>2, IdleGood, OneHandler DEF MarkAnswered, Finish
<1>11. ASSUME NEW h \in Calls, Fail(h) PROVE IInv'
  <2>1. Good(view', rows, read)
    BY <1>11, BlankGood DEF Fail
  <2> QED BY <1>11, <2>1, IdleGood, OneHandler DEF Fail, Finish
<1>12. ASSUME NEW k \in Movable, Appear(k) \/ Vanish(k) PROVE IInv'
  <2>1. CASE Appear(k)
    <3>1. rows \cup {k} \in SUBSET Keys
      BY KeysAssumption DEF IInv
    <3> QED BY <2>1, <3>1, BecomeGood DEF Appear
  <2>2. CASE Vanish(k)
    <3>1. rows \ {k} \in SUBSET Keys
      BY DEF IInv
    <3> QED BY <2>2, <3>1, BecomeGood DEF Vanish
  <2> QED BY <1>12, <2>1, <2>2
<1>13. CASE UNCHANGED vars
  <2>1. list' = list /\ rows' = rows /\ read' = read /\ view' = view /\ call' = call
    BY <1>13 DEF vars
  <2>2. Good(view', rows', read') /\ \A h \in Calls : GoodCall(call'[h], rows', read')
    BY <1>1, <2>1
  <2>3. Good(view, rows, read)'
    BY <2>1, <2>2, SameList
  <2>4. ASSUME NEW h \in Calls PROVE GoodCall(call[h], rows, read)'
    BY <2>1, <2>2, SameList
  <2> QED BY <2>1, <2>3, <2>4 DEF IInv
<1> QED BY <1>2, <1>3, <1>4, <1>5, <1>6, <1>7, <1>8, <1>9, <1>10, <1>11, <1>12, <1>13
        DEF Next, Begins, Serves, Answers

------------------------------------------------------------------------------
LEMMA InvariantHolds == Spec => []IInv
BY InvariantStarts, InvariantKept, PTL DEF Spec

(* The states of the screen and of its handlers keep their types, and what *)
(* they promise each other: no rows before a page or after an error, and a *)
(* next page to ask for only with a cursor.                                *)
THEOREM TypeCorrect == Spec => []TypeOK
<1>1. IInv => TypeOK
  <2> SUFFICES ASSUME IInv PROVE TypeOK
    OBVIOUS
  <2>1. Shape(view) /\ \A h \in Calls : Shape(call[h].from)
    BY DEF IInv, Good, GoodCall, Sound
  <2> QED BY <2>1 DEF IInv, TypeOK, Shape
<1> QED BY <1>1, InvariantHolds, PTL

(* However many pages are under way, and whatever comes and goes between   *)
(* them, the rows of the screen are in the order of the list, none twice.  *)
THEOREM OrderKept == Spec => []PagesInOrder
<1>1. IInv => PagesInOrder
  BY DEF IInv, Good, Sound, Follows, PagesInOrder
<1> QED BY <1>1, InvariantHolds, PTL

(* A list that says it has ended shows what it owes.                       *)
THEOREM NoneSkipped == Spec => []NothingSkipped
<1>1. IInv => NothingSkipped
  BY DEF IInv, Good, Sound, Shape, Covers, NothingSkipped
<1> QED BY <1>1, InvariantHolds, PTL

(* The pages of a list with a window come to maxDepth rows at most, as     *)
(* long as no row goes, though every page cuts its window anew.            *)
THEOREM WindowBounds == Spec => []ListIsBounded
<1>1. IInv => ListIsBounded
  BY DEF IInv, Good, Sound, Held, ListIsBounded
<1> QED BY <1>1, InvariantHolds, PTL

(* A notification that is shown as read is read.                           *)
THEOREM ShownReadIsRead == Spec => []ReadIsRead
<1>1. IInv => ReadIsRead
  BY DEF IInv, Good, Sound, ReadIsRead
<1> QED BY <1>1, InvariantHolds, PTL
------------------------------------------------------------------------------
(* The search screen.                                                      *)

LEMMA SearchRecordsTyped ==
  /\ Initial \in SearchState /\ Initial.query = Empty
  /\ IdleHandler \in Handler
  /\ \A q \in Texts \cup {Empty} : Loading(q) \in SearchState /\ Loading(q).query = q
BY DEF Initial, SearchState, IdleHandler, Handler, Loading, Tabs

(* What a handler writes when it begins.                                   *)
LEMMA SearchBeginTyped ==
  ASSUME NEW h \in Handlers, NEW op \in {"load", "next"}, NEW q \in Texts \cup {Empty},
         NEW t \in Tabs, SearchTypeOK, BeginSearch(h, op, q, t)
  PROVE  active' = q /\ active' \in Texts \cup {Empty} /\ handler' \in [Handlers -> Handler]
<1>1. [pc |-> "sent", op |-> op, query |-> q, tab |-> t] \in Handler
  BY DEF Handler
<1> QED BY <1>1 DEF BeginSearch, SearchTypeOK

LEMMA UsersTyped ==
  ASSUME NEW h \in Handlers, SearchTypeOK, UsersRequested(h)
  PROVE  /\ active' \in Texts \cup {Empty} /\ handler' \in [Handlers -> Handler]
         /\ shown' \in SearchState /\ shown'.query = active'
<1>1. text \in Texts \cup {Empty} /\ "users" \in Tabs
  BY DEF SearchTypeOK, Tabs
<1> QED BY <1>1, SearchBeginTyped, SearchRecordsTyped DEF UsersRequested

(* What an answer shows is for the text its handler was started with.      *)
LEMMA ShowTyped ==
  ASSUME NEW h \in Handlers, SearchTypeOK,
         NEW kind \in {"loaded", "terminated", "empty", "error"}, Show(h, kind)
  PROVE  shown' \in SearchState /\ shown'.query = handler[h].query
<1>1. handler[h] \in Handler
  BY DEF SearchTypeOK
<1> QED BY <1>1 DEF Show, SearchState, Handler

------------------------------------------------------------------------------
(* The invariant is inductive: a handler makes its text the active one in  *)
(* the step in which it shows the spinner, and an answer that is shown is  *)
(* one for the active text.                                                *)
SearchInv == SearchTypeOK /\ ShownIsActive

LEMMA SearchStarts == SearchInit => SearchInv
<1>1. ASSUME SearchInit PROVE typed \in 0..MaxTyped
  BY <1>1, TypedAssumption DEF SearchInit
<1>2. ASSUME SearchInit PROVE handler \in [Handlers -> Handler]
  BY <1>2, SearchRecordsTyped DEF SearchInit
<1>3. ASSUME SearchInit PROVE shown \in SearchState /\ shown.query = active
  BY <1>3, SearchRecordsTyped DEF SearchInit
<1> QED BY <1>1, <1>2, <1>3 DEF SearchInit, SearchInv, SearchTypeOK, ShownIsActive, Tabs

LEMMA SearchKept == SearchInv /\ [SearchNext]_searchVars => SearchInv'
<1> SUFFICES ASSUME SearchInv, [SearchNext]_searchVars PROVE SearchInv'
  OBVIOUS
<1> USE DEF SearchInv
<1>0. ASSUME NEW h \in Handlers
      PROVE  handler[h] \in Handler /\ \A pc \in {"idle", "sent", "failed"} :
                                   [handler[h] EXCEPT !.pc = pc] \in Handler
  BY DEF SearchTypeOK, Handler
<1>1. CASE \E q \in Texts \cup {Empty} : SearchQueryChanged(q)
  <2>1. PICK q \in Texts \cup {Empty} : SearchQueryChanged(q)
    BY <1>1
  <2>2. typed' \in 0..MaxTyped
    BY <2>1, TypedAssumption DEF SearchQueryChanged, SearchTypeOK
  <2>3. CASE q = Empty
    BY <2>1, <2>2, <2>3, SearchRecordsTyped DEF SearchQueryChanged, SearchTypeOK, ShownIsActive
  <2>4. CASE q # Empty
    BY <2>1, <2>2, <2>4 DEF SearchQueryChanged, SearchTypeOK, ShownIsActive
  <2> QED BY <2>3, <2>4
<1>2. ASSUME NEW h \in Handlers, SearchQueryDebounced(h) PROVE SearchInv'
  <2>1. timer \in Texts \cup {Empty} /\ "posts" \in Tabs
    BY DEF SearchTypeOK, Tabs
  <2>2. BeginSearch(h, "load", timer, "posts") /\ shown' = Loading(timer)
    BY <1>2 DEF SearchQueryDebounced
  <2>3. active' = timer /\ handler' \in [Handlers -> Handler]
    BY <2>1, <2>2, SearchBeginTyped
  <2> QED BY <1>2, <2>1, <2>2, <2>3, SearchRecordsTyped
          DEF SearchQueryDebounced, SearchTypeOK, ShownIsActive
<1>3. ASSUME NEW h \in Handlers, TabChanged(h) PROVE SearchInv'
  <2>1. tab' \in Tabs
    BY <1>3 DEF TabChanged, Tabs
  <2>2. CASE UsersRequested(h)
    BY <1>3, <2>1, <2>2, UsersTyped DEF TabChanged, SearchTypeOK, ShownIsActive
  <2>3. CASE UNCHANGED <<active, shown, handler>>
    BY <1>3, <2>1, <2>3 DEF TabChanged, SearchTypeOK, ShownIsActive
  <2> QED BY <1>3, <2>2, <2>3 DEF TabChanged
<1>4. ASSUME NEW h \in Handlers, SearchUsersRequested(h) PROVE SearchInv'
  BY <1>4, UsersTyped DEF SearchUsersRequested, SearchTypeOK, ShownIsActive
<1>5. ASSUME NEW h \in Handlers, SearchNextPageRequested(h) PROVE SearchInv'
  <2>1. shown \in SearchState /\ shown.query \in Texts \cup {Empty} /\ shown.tab \in Tabs
    BY DEF SearchTypeOK, SearchState
  <2>2. BeginSearch(h, "next", shown.query, shown.tab) /\ shown' = [shown EXCEPT !.more = FALSE]
    BY <1>5 DEF SearchNextPageRequested
  <2>3. active' = shown.query /\ handler' \in [Handlers -> Handler]
    BY <2>1, <2>2, SearchBeginTyped
  <2>4. shown' \in SearchState /\ shown'.query = shown.query
    BY <2>1, <2>2 DEF SearchState
  <2> QED BY <1>5, <2>1, <2>3, <2>4 DEF SearchNextPageRequested, SearchTypeOK, ShownIsActive
<1>6. ASSUME NEW h \in Handlers, LoseResults(h) PROVE SearchInv'
  BY <1>0, <1>6 DEF LoseResults, SearchTypeOK, ShownIsActive
<1>7. ASSUME NEW h \in Handlers, Answer(h) PROVE SearchInv'
  <2>1. handler' \in [Handlers -> Handler]
    BY <1>7, SearchRecordsTyped DEF Answer, SearchTypeOK
  <2>2. shown' \in SearchState /\ shown'.query = active
    <3>1. CASE UNCHANGED shown
      BY <3>1 DEF SearchTypeOK, ShownIsActive
    <3>2. ASSUME Current(h), NEW kind \in {"loaded", "terminated", "empty", "error"},
                 Show(h, kind)
          PROVE  shown' \in SearchState /\ shown'.query = active
      BY <3>2, ShowTyped DEF Current
    <3> QED BY <1>7, <3>1, <3>2 DEF Answer
  <2> QED BY <1>7, <2>1, <2>2 DEF Answer, SearchTypeOK, ShownIsActive
<1>8. CASE UNCHANGED searchVars
  BY <1>8 DEF searchVars, SearchTypeOK, ShownIsActive
<1> QED BY <1>1, <1>2, <1>3, <1>4, <1>5, <1>6, <1>7, <1>8 DEF SearchNext

(* The state of the bloc and its handlers keep their types.                *)
THEOREM SearchTypeCorrect == SearchSpec => []SearchTypeOK
BY SearchStarts, SearchKept, PTL DEF SearchSpec, SearchInv

(* However many searches and pages are under way, and in whatever order    *)
(* they are answered, the screen shows what belongs to the active text.    *)
THEOREM ActiveIsShown == SearchSpec => []ShownIsActive
BY SearchStarts, SearchKept, PTL DEF SearchSpec, SearchInv
==============================================================================
