---------------------------- MODULE CheckoutProofs ----------------------------
(***************************************************************************)
(* Proofs about Money, for amounts of any size, and about Checkout, for    *)
(* any books, prices and requests.                                         *)
(***************************************************************************)
EXTENDS Checkout, Sums

-----------------------------------------------------------------------------
(* Money.                                                                  *)

\* Two decimal digits stand for a number below 100 in one way.
LEMMA TwoDigits ==
    ASSUME NEW n \in 0..99
    PROVE  LET d == PadStart(Digits(n))
           IN  d \in Digit \X Digit /\ 10 * d[1] + d[2] = n
<1> USE DEF Digit, PadStart, Digits
<1>1. CASE n < 10
  BY <1>1
<1>2. CASE n >= 10
  <2>1. n \div 10 \in Digit /\ n % 10 \in Digit /\ 10 * (n \div 10) + (n % 10) = n
    BY <1>2
  <2>2. PadStart(Digits(n)) = <<n \div 10, n % 10>>
    BY <1>2
  <2> QED
    BY <2>1, <2>2
<1> QED
  BY <1>1, <1>2

\* The parts of an amount of cents.
LEMMA CentsParts ==
    ASSUME NEW cents \in Nat
    PROVE  /\ cents \div 100 \in Nat /\ cents % 100 \in 0..99
           /\ 100 * (cents \div 100) + (cents % 100) = cents
OBVIOUS

\* Two digits are not padded.
LEMMA NotPadded ==
    ASSUME NEW d \in Digit \X Digit
    PROVE  PadEnd(d) = d /\ d[1] \in 0..9 /\ d[2] \in 0..9 /\ d = <<d[1], d[2]>>
<1>1. Len(d) = 2 /\ d[1] \in 0..9 /\ d[2] \in 0..9 /\ d = <<d[1], d[2]>>
  BY DEF Digit
<1> QED
  BY <1>1 DEF PadEnd

\* What formatMoney makes is an amount that the columns, and the consumer of
\* the event, take.
THEOREM FormatsAmounts ==
    ASSUME NEW cents \in Nat
    PROVE  FormatMoney(cents) \in Amounts /\ Matches(FormatMoney(cents))
<1>1. PadStart(Digits(cents % 100)) \in Digit \X Digit /\ cents \div 100 \in Nat
  BY CentsParts, TwoDigits
<1> QED
  BY <1>1 DEF FormatMoney, Amount, Amounts, Matches, Digit

\* Formatting loses no cent, however large the amount.
THEOREM FormatThenParse ==
    ASSUME NEW cents \in Nat
    PROVE  MoneyToCents(FormatMoney(cents)) = cents
<1> DEFINE d == PadStart(Digits(cents % 100))
<1>1. d \in Digit \X Digit /\ 10 * d[1] + d[2] = cents % 100
  BY CentsParts, TwoDigits
<1> HIDE DEF d
<1>2. PadEnd(d) = d /\ d[1] \in 0..9 /\ d[2] \in 0..9
  BY <1>1, NotPadded
<1>3. FormatMoney(cents).whole = cents \div 100 /\ FormatMoney(cents).fraction = d
  BY DEF FormatMoney, Amount, d
<1>4. MoneyToCents(FormatMoney(cents)) = 100 * (cents \div 100) + 10 * d[1] + d[2]
  BY <1>2, <1>3 DEF MoneyToCents
<1>5. /\ cents \div 100 \in Nat /\ cents % 100 \in Nat
      /\ 100 * (cents \div 100) + (cents % 100) = cents
  BY CentsParts
<1> QED
  BY <1>1, <1>2, <1>4, <1>5

\* Nor does parsing what the columns hold: a price is written to the line as
\* it is read from the book.
THEOREM ParseThenFormat ==
    ASSUME NEW amount \in Amounts
    PROVE  FormatMoney(MoneyToCents(amount)) = amount
<1> DEFINE w == amount.whole
           d == amount.fraction
           n == 10 * d[1] + d[2]
<1>1. w \in Nat /\ d \in Digit \X Digit /\ amount = Amount(w, d)
  BY DEF Amounts, Amount
<1>2. d = <<d[1], d[2]>> /\ d[1] \in Digit /\ d[2] \in Digit /\ PadEnd(d) = d
  BY <1>1, NotPadded DEF Digit
<1>3. MoneyToCents(amount) = 100 * w + n
  <2>1. MoneyToCents(amount) = 100 * w + 10 * d[1] + d[2]
    BY <1>2 DEF MoneyToCents
  <2> HIDE DEF w, d
  <2> QED
    BY <1>1, <1>2, <2>1 DEF Digit
<1> HIDE DEF w, d
<1>4. n \in 0..99 /\ n % 10 = d[2] /\ n \div 10 = d[1]
  BY <1>2 DEF Digit
<1>5. (100 * w + n) \div 100 = w /\ (100 * w + n) % 100 = n
  BY <1>1, <1>4
<1>6. PadStart(Digits(n)) = d
  <2>1. CASE n < 10
    BY <1>2, <1>4, <2>1 DEF Digits, PadStart, Digit
  <2>2. CASE n >= 10
    BY <1>2, <1>4, <2>2 DEF Digits, PadStart, Digit
  <2> QED
    BY <1>4, <2>1, <2>2
<1> QED
  BY <1>1, <1>3, <1>5, <1>6 DEF FormatMoney

-----------------------------------------------------------------------------
(* Merged items.                                                           *)

\* What the items of a request are.
LEMMA ListTypes ==
    ASSUME NEW list \in Seq(Items)
    PROVE  /\ DOMAIN list = 1..Len(list) /\ IsFiniteSet(DOMAIN list)
           /\ \A i \in DOMAIN list : list[i].bookId \in Spelling
                                     /\ list[i].quantity \in Nat \ {0}
           /\ Ids(list) \subseteq Spelling /\ Ids(list) \subseteq Nat
           /\ IsFiniteSet(Ids(list))
           /\ list # <<>> => Ids(list) # {}
<1>1. DOMAIN list = 1..Len(list) /\ Len(list) \in Nat
  OBVIOUS
<1>2. IsFiniteSet(DOMAIN list)
  BY <1>1, FS_Interval
<1>3. ASSUME NEW i \in DOMAIN list
      PROVE  list[i].bookId \in Spelling /\ list[i].quantity \in Nat \ {0}
  <2>1. list[i] \in Items
    BY <1>1
  <2> QED
    BY <2>1 DEF Items
<1>4. Ids(list) \subseteq Spelling /\ Ids(list) \subseteq Nat
  BY <1>3, CheckoutAssumption DEF CheckoutAssumption, Ids
<1>5. IsFiniteSet(Ids(list))
  <2> DEFINE f == [i \in DOMAIN list |-> list[i].bookId]
  <2>1. f \in Surjection(DOMAIN list, Ids(list))
    BY DEF Surjection, Ids
  <2> QED
    BY <1>2, <2>1, FS_Surjection
<1>6. list # <<>> => Ids(list) # {}
  BY <1>1 DEF Ids
<1> QED
  BY <1>1, <1>2, <1>3, <1>4, <1>5, <1>6

\* An id that is asked for is asked for at least once, another one never.
LEMMA QuantityOf ==
    ASSUME NEW list \in Seq(Items), NEW s
    PROVE  /\ Quantity(list, s) \in Nat
           /\ s \in Ids(list) => Quantity(list, s) > 0
           /\ s \notin Ids(list) => Quantity(list, s) = 0
<1> DEFINE D == DOMAIN list
           f == [i \in D |-> IF list[i].bookId = s THEN list[i].quantity ELSE 0]
<1>1. IsFiniteSet(D) /\ Nat \in {Int, Nat}
  BY ListTypes
<1>2. Quantity(list, s) = SumFunctionOnSet(f, D)
  BY DEF Quantity, SumFunction
<1>3. \A i \in D : /\ f[i] \in Nat
                   /\ list[i].bookId = s => f[i] > 0
                   /\ list[i].bookId # s => f[i] = 0
  BY ListTypes
<1>4. /\ s \in Ids(list) => \E i \in D : list[i].bookId = s
      /\ s \notin Ids(list) => \A i \in D : list[i].bookId # s
  BY DEF Ids
<1> HIDE DEF D, f
<1>5. SumFunctionOnSet(f, D) \in Nat
  BY <1>1, <1>3, SumType
<1>6. CASE s \in Ids(list)
  <2>1. PICK i \in D : list[i].bookId = s
    BY <1>4, <1>6
  <2>2. SumFunctionOnSet(f, D) = f[i] + SumFunctionOnSet(f, D \ {i})
    BY <1>1, <1>3, SumRemove
  <2>3. IsFiniteSet(D \ {i})
    BY <1>1, FS_Subset
  <2>4. \A j \in D \ {i} : f[j] \in Nat
    BY <1>3
  <2>5. SumFunctionOnSet(f, D \ {i}) \in Nat
    BY <1>1, <2>3, <2>4, SumType
  <2>6. f[i] \in Nat /\ f[i] > 0
    BY <1>3, <2>1
  <2>7. SumFunctionOnSet(f, D) > 0
    BY <2>2, <2>5, <2>6
  <2> QED
    BY <1>2, <1>5, <1>6, <2>7
<1>7. CASE s \notin Ids(list)
  <2>1. SumFunctionOnSet(f, D) = 0
    BY <1>1, <1>3, <1>4, <1>7, SumZero
  <2> QED
    BY <1>2, <1>7, <2>1
<1> QED
  BY <1>6, <1>7

\* The merged items are again items: one for every id, with all of its copies.
LEMMA MergedIs ==
    ASSUME NEW list \in Seq(Items), NEW merged, merged = MergeDuplicateItems(list)
    PROVE  /\ merged \in Seq(Items) /\ IsFiniteSet(DOMAIN merged)
           /\ list # <<>> => Len(merged) >= 1
           /\ \A i \in DOMAIN merged : /\ merged[i].bookId \in Ids(list)
                                       /\ merged[i].quantity = Quantity(list, merged[i].bookId)
           /\ \A i, j \in DOMAIN merged : merged[i].bookId = merged[j].bookId => i = j
           /\ \A s \in Ids(list) : \E i \in DOMAIN merged : merged[i].bookId = s
<1> DEFINE ids == Sorted(Ids(list))
           n == Cardinality(Ids(list))
<1>1. /\ n \in Nat /\ DOMAIN ids = 1..n
      /\ \A i \in 1..n : ids[i] \in Ids(list)
      /\ \A i, j \in 1..n : i < j => ids[i] < ids[j]
      /\ \A s \in Ids(list) : \E i \in 1..n : ids[i] = s
  BY ListTypes, SortedIs
<1>2. Ids(list) \subseteq Nat /\ Ids(list) \subseteq Spelling
  BY ListTypes
<1>3. list # <<>> => n >= 1
  <2>1. ASSUME list # <<>> PROVE n # 0
    BY <1>1, <2>1, ListTypes
  <2> QED
    BY <1>1, <2>1
<1>4. merged = [i \in 1..n |-> Item(ids[i], Quantity(list, ids[i]))]
  BY <1>1 DEF MergeDuplicateItems
<1> HIDE DEF ids, n
<1>5. \A i \in 1..n : /\ merged[i] = Item(ids[i], Quantity(list, ids[i]))
                      /\ merged[i].bookId = ids[i]
                      /\ merged[i].quantity = Quantity(list, ids[i])
  BY <1>4 DEF Item
<1>6. ASSUME NEW i \in 1..n PROVE merged[i] \in Items
  <2> DEFINE q == Quantity(list, ids[i])
  <2>1. ids[i] \in Ids(list) /\ ids[i] \in Spelling
    BY <1>1, <1>2
  <2>2. q \in Nat \ {0}
    BY <2>1, QuantityOf
  <2> HIDE DEF q
  <2>3. Item(ids[i], q) \in Items
    BY <2>1, <2>2 DEF Item, Items
  <2> QED
    BY <1>5, <2>3 DEF q
<1>7. merged \in Seq(Items) /\ Len(merged) = n /\ DOMAIN merged = 1..n
  BY <1>1, <1>4, <1>6
<1>8. \A i, j \in 1..n : ids[i] = ids[j] => i = j
  <2> SUFFICES ASSUME NEW i \in 1..n, NEW j \in 1..n, ids[i] = ids[j] PROVE i = j
    OBVIOUS
  <2>1. ids[i] \in Nat
    BY <1>1, <1>2
  <2>2. ~(i < j) /\ ~(j < i)
    BY <1>1, <2>1
  <2> QED
    BY <1>1, <2>2
<1>9. IsFiniteSet(DOMAIN merged)
  BY <1>1, <1>7, FS_Interval
<1> QED
  BY <1>1, <1>3, <1>5, <1>7, <1>8, <1>9

\* Two requests are merged, and so hashed, alike exactly if they ask for as
\* much of the same ids, however they split and order it.
THEOREM MergesAlike ==
    ASSUME NEW list \in Seq(Items), NEW other \in Seq(Items)
    PROVE  MergeDuplicateItems(list) = MergeDuplicateItems(other)
              <=> \A s \in Spelling : Quantity(list, s) = Quantity(other, s)
<1> DEFINE m == MergeDuplicateItems(list)
           k == MergeDuplicateItems(other)
<1>1. ASSUME m = k, NEW s \in Spelling PROVE Quantity(list, s) = Quantity(other, s)
  <2>1. Ids(list) = {m[i].bookId : i \in DOMAIN m}
    <3> HIDE DEF m
    <3> QED
      BY MergedIs DEF m
  <2>2. Ids(other) = {k[i].bookId : i \in DOMAIN k}
    <3> HIDE DEF k
    <3> QED
      BY MergedIs DEF k
  <2>3. CASE s \notin Ids(list)
    BY <1>1, <2>1, <2>2, <2>3, QuantityOf
  <2>4. CASE s \in Ids(list)
    <3> HIDE DEF m, k
    <3>1. PICK i \in DOMAIN m : m[i].bookId = s
      BY <2>1, <2>4
    <3>2. m[i].quantity = Quantity(list, s)
      BY <3>1, MergedIs DEF m
    <3>3. k[i].quantity = Quantity(other, s)
      BY <1>1, <3>1, MergedIs DEF k
    <3> QED
      BY <1>1, <3>2, <3>3
  <2> QED
    BY <2>3, <2>4
<1>2. ASSUME \A s \in Spelling : Quantity(list, s) = Quantity(other, s) PROVE m = k
  <2>1. Ids(list) \subseteq Spelling /\ Ids(other) \subseteq Spelling
    BY ListTypes
  <2>2. \A s \in Spelling : s \in Ids(list) <=> s \in Ids(other)
    <3> SUFFICES ASSUME NEW s \in Spelling PROVE s \in Ids(list) <=> s \in Ids(other)
      OBVIOUS
    <3>1. s \in Ids(list) <=> Quantity(list, s) # 0
      BY QuantityOf
    <3>2. s \in Ids(other) <=> Quantity(other, s) # 0
      BY QuantityOf
    <3> QED
      BY <1>2, <3>1, <3>2
  <2>3. Ids(list) = Ids(other)
    BY <2>1, <2>2
  <2> DEFINE ids == Sorted(Ids(list))
  <2>4. \A i \in DOMAIN ids : ids[i] \in Spelling
    BY <2>1, ListTypes, SortedIs
  <2>5. /\ m = [i \in DOMAIN ids |-> Item(ids[i], Quantity(list, ids[i]))]
        /\ k = [i \in DOMAIN ids |-> Item(ids[i], Quantity(other, ids[i]))]
    BY <2>3 DEF MergeDuplicateItems
  <2> HIDE DEF ids, m, k
  <2> QED
    BY <1>2, <2>4, <2>5
<1> QED
  BY <1>1, <1>2

-----------------------------------------------------------------------------
(* The bill.                                                               *)

\* What each item costs, and what the summed amount of every id costs.
CostOfItems(S, id, amount, cost) == [x \in S |-> amount[x] * cost[id[x]]]
CostOfIds(S, J, id, amount, key, cost) ==
    [j \in J |-> SumFunctionOnSet([x \in S |-> IF id[x] = key[j] THEN amount[x] ELSE 0], S)
                 * cost[key[j]]]

\* What the amounts of items cost, added up over the items, is what the
\* summed amounts of every id cost, added up over the ids.
LEMMA Regroup ==
    ASSUME NEW S, IsFiniteSet(S), NEW J, IsFiniteSet(J),
           NEW id, NEW amount, NEW cost, NEW key,
           \A x \in S : amount[x] \in Nat,
           \A j \in J : cost[key[j]] \in Nat,
           \A x \in S : \E j \in J : key[j] = id[x],
           \A i, j \in J : key[i] = key[j] => i = j
    PROVE  SumFunctionOnSet(CostOfItems(S, id, amount, cost), S)
             = SumFunctionOnSet(CostOfIds(S, J, id, amount, key, cost), J)
<1> DEFINE each == [x \in S |-> amount[x] * cost[id[x]]]
           of(j) == [x \in S |-> IF id[x] = key[j] THEN amount[x] ELSE 0]
           byKey(t) == [j \in J |-> SumFunctionOnSet(of(j), t) * cost[key[j]]]
           Good == {t \in SUBSET S : SumFunctionOnSet(each, t) = SumFunctionOnSet(byKey(t), J)}
<1>1. /\ \A x \in S : each[x] = amount[x] * cost[id[x]]
      /\ \A x \in S, j \in J : of(j)[x] = IF id[x] = key[j] THEN amount[x] ELSE 0
      /\ \A t : \A j \in J : byKey(t)[j] = SumFunctionOnSet(of(j), t) * cost[key[j]]
  OBVIOUS
<1>2. Nat \in {Int, Nat}
  OBVIOUS
<1> HIDE DEF each, of, byKey
<1>3. ASSUME NEW x \in S, NEW j \in J PROVE of(j)[x] \in Nat
  BY <1>1
<1>4. ASSUME NEW t \in SUBSET S, NEW j \in J
      PROVE  SumFunctionOnSet(of(j), t) \in Nat /\ byKey(t)[j] \in Int
  <2>1. IsFiniteSet(t)
    BY FS_Subset
  <2>2. \A x \in t : of(j)[x] \in Nat
    BY <1>3
  <2>3. SumFunctionOnSet(of(j), t) \in Nat
    BY <1>2, <2>1, <2>2, SumType
  <2>4. byKey(t)[j] = SumFunctionOnSet(of(j), t) * cost[key[j]] /\ cost[key[j]] \in Nat
    BY <1>1
  <2> QED
    BY <2>3, <2>4
<1>5. ASSUME NEW t \in SUBSET S, \A u \in SUBSET t : u # t => u \in Good
      PROVE  t \in Good
  <2>1. CASE t = {}
    <3>1. \A j \in J : byKey(t)[j] = 0
      <4> SUFFICES ASSUME NEW j \in J PROVE byKey(t)[j] = 0
        OBVIOUS
      <4>1. SumFunctionOnSet(of(j), t) = 0 /\ cost[key[j]] \in Nat
        BY <2>1, SumEmpty
      <4> QED
        BY <1>1, <4>1
    <3>2. SumFunctionOnSet(byKey(t), J) = 0
      BY <3>1, SumZero
    <3> QED
      BY <2>1, <3>2, SumEmpty
  <2>2. CASE t # {}
    <3>1. PICK x \in t : TRUE
      BY <2>2
    <3> DEFINE u == t \ {x}
    <3>2. x \in S /\ u \in SUBSET t /\ u # t /\ u \in SUBSET S /\ IsFiniteSet(t)
      BY FS_Subset
    <3>3. SumFunctionOnSet(each, u) = SumFunctionOnSet(byKey(u), J)
      BY <1>5, <3>2
    <3>4. PICK k \in J : key[k] = id[x]
      BY <3>2
    <3>5. each[x] = amount[x] * cost[key[k]] /\ amount[x] \in Nat /\ cost[key[k]] \in Nat
      BY <1>1, <3>2, <3>4
    <3>6. \A y \in t : each[y] \in Int
      <4> SUFFICES ASSUME NEW y \in t PROVE each[y] \in Int
        OBVIOUS
      <4>1. PICK j \in J : key[j] = id[y]
        OBVIOUS
      <4>2. amount[y] \in Nat /\ cost[id[y]] \in Nat
        BY <4>1
      <4> QED
        BY <1>1, <4>2
    <3>7. SumFunctionOnSet(each, t) = each[x] + SumFunctionOnSet(each, u)
      BY <3>2, <3>6, SumRemove
    <3>8. \A j \in J :
             SumFunctionOnSet(of(j), t) = of(j)[x] + SumFunctionOnSet(of(j), u)
      <4> SUFFICES ASSUME NEW j \in J
                   PROVE  SumFunctionOnSet(of(j), t) = of(j)[x] + SumFunctionOnSet(of(j), u)
        OBVIOUS
      <4>1. \A y \in t : of(j)[y] \in Int
        BY <1>3
      <4> QED
        BY <3>2, <4>1, SumRemove
    <3> HIDE DEF u
    <3>9. \A j \in J \ {k} : byKey(t)[j] = byKey(u)[j]
      <4> SUFFICES ASSUME NEW j \in J \ {k} PROVE byKey(t)[j] = byKey(u)[j]
        OBVIOUS
      <4>1. of(j)[x] = 0
        BY <1>1, <3>2, <3>4
      <4>2. SumFunctionOnSet(of(j), u) \in Nat
        BY <1>4, <3>2
      <4>3. SumFunctionOnSet(of(j), t) = of(j)[x] + SumFunctionOnSet(of(j), u)
        BY <3>8
      <4>4. SumFunctionOnSet(of(j), t) = SumFunctionOnSet(of(j), u)
        BY <4>1, <4>2, <4>3
      <4> QED
        BY <1>1, <4>4
    <3>10. byKey(t)[k] = byKey(u)[k] + each[x]
      <4> DEFINE s == SumFunctionOnSet(of(k), u)
                 p == cost[key[k]]
                 a == amount[x]
      <4>1. of(k)[x] = a
        BY <1>1, <3>2, <3>4
      <4>2. byKey(t)[k] = (a + s) * p /\ byKey(u)[k] = s * p
        BY <1>1, <3>8, <4>1
      <4>3. s \in Nat /\ p \in Nat /\ a \in Nat
        BY <1>4, <3>2, <3>5
      <4>4. each[x] = a * p
        BY <3>5
      <4> HIDE DEF s, p, a
      <4>5. (a + s) * p = s * p + a * p
        BY <4>3
      <4> QED
        BY <4>2, <4>4, <4>5
    <3>11. \A j \in J : byKey(t)[j] \in Int /\ byKey(u)[j] \in Int
      BY <1>4, <3>2
    <3>12. /\ SumFunctionOnSet(byKey(u), J) \in Int
           /\ SumFunctionOnSet(byKey(t), J)
                = SumFunctionOnSet(byKey(u), J) + (byKey(t)[k] - byKey(u)[k])
      BY <3>9, <3>11, SumUpdate
    <3>13. each[x] \in Int
      BY <3>6
    <3>14. byKey(u)[k] \in Int
      BY <3>11
    <3> QED
      BY <3>3, <3>7, <3>10, <3>12, <3>13, <3>14
  <2> QED
    BY <2>1, <2>2
<1> HIDE DEF Good
<1>6. \A t \in SUBSET S : t \in Good
  BY <1>5, SubsetInduction
<1>7. SumFunctionOnSet(each, S) = SumFunctionOnSet(byKey(S), J)
  BY <1>6 DEF Good
<1> QED
  BY <1>7 DEF each, byKey, of, CostOfItems, CostOfIds

\* What the loop makes of one item.
CentsOf(item) == MoneyToCents(Price[BookOf[item.bookId]])
Due(item) == item.quantity * CentsOf(item)
LineOf(item) ==
    [ book |-> BookOf[item.bookId], quantity |-> item.quantity,
      unitPrice |-> FormatMoney(CentsOf(item)), lineTotal |-> FormatMoney(Due(item)) ]

\* An item that the loop finds a book for.
Sold(item) == /\ BookOf[item.bookId] \in DOMAIN Price
              /\ Lower[BookOf[item.bookId]] = item.bookId

\* The bill, and its cents, of the first n items.
Billed(bill, cents, merged, n) ==
    /\ bill = [i \in 1..n |-> LineOf(merged[i])]
    /\ \A i \in 1..n : Sold(merged[i])
    /\ cents = SumFunctionOnSet([i \in DOMAIN merged |-> Due(merged[i])], 1..n)

\* A committed order is the bill of the merged items of its request.
OrderOK ==
    /\ order.asked \in Requests
    /\ order.hash = CreateRequestHash(order.asked.user, MergeDuplicateItems(order.asked.items))
    /\ \E merged, cents :
          /\ merged = MergeDuplicateItems(order.asked.items)
          /\ Billed(order.lines, cents, merged, Len(merged))
          /\ order.totalAmount = FormatMoney(cents)

KInv ==
    /\ request \in Requests
    /\ stage \in {"receive", "price", "answered"}
    /\ stage = "receive" => lines = <<>> /\ total = 0
    /\ stage # "receive" => items = MergeDuplicateItems(request.items)
    /\ stage = "price" => /\ order = NoOrder
                          /\ \E n \in 0..Len(items) : Billed(lines, total, items, n)
    /\ order # NoOrder => OrderOK
    /\ stage = "answered" /\ order # NoOrder =>
          (answer = "OK" <=> order.hash = CreateRequestHash(request.user, items))
    /\ answer = "BOOK_NOT_AVAILABLE" =>
          stage = "answered" /\ \E i \in DOMAIN items : ~Sold(items[i])

-----------------------------------------------------------------------------
(* The steps.                                                              *)

\* The assumption on requests.
LEMMA RequestItems ==
    ASSUME NEW r \in Requests PROVE r.items \in Seq(Items) /\ r.items # <<>>
BY CheckoutAssumption DEF CheckoutAssumption

\* A price is a number of cents.
LEMMA CentsAreNat ==
    ASSUME NEW amount \in Amounts PROVE MoneyToCents(amount) \in Nat
<1>1. amount.whole \in Nat /\ amount.fraction \in Digit \X Digit
  BY DEF Amounts
<1>2. /\ PadEnd(amount.fraction) = amount.fraction
      /\ amount.fraction[1] \in 0..9 /\ amount.fraction[2] \in 0..9
  BY <1>1, NotPadded
<1> QED
  BY <1>1, <1>2 DEF MoneyToCents

\* What an item that is sold costs is a number, and so is its line's total.
LEMMA DueIsNat ==
    ASSUME NEW item \in Items, Sold(item)
    PROVE  CentsOf(item) \in Nat /\ Due(item) \in Nat
<1>1. Price[BookOf[item.bookId]] \in Amounts
  BY CheckoutAssumption DEF CheckoutAssumption, Sold
<1>2. CentsOf(item) \in Nat /\ item.quantity \in Nat
  BY <1>1, CentsAreNat DEF CentsOf, Items
<1> QED
  BY <1>2 DEF Due

\* Sums over the first items.
LEMMA FirstDue ==
    ASSUME NEW merged \in Seq(Items), NEW n \in 0..Len(merged),
           \A i \in 1..n : Sold(merged[i]), NEW f, f = [i \in DOMAIN merged |-> Due(merged[i])]
    PROVE  SumFunctionOnSet(f, 1..n) \in Nat
<1>1. DOMAIN merged = 1..Len(merged) /\ Len(merged) \in Nat /\ n \in Nat
  OBVIOUS
<1>2. ASSUME NEW i \in 1..n PROVE f[i] \in Nat
  <2>1. i \in DOMAIN merged /\ merged[i] \in Items /\ Sold(merged[i])
    BY <1>1
  <2> QED
    BY <2>1, DueIsNat
<1>3. IsFiniteSet(1..n) /\ Nat \in {Int, Nat}
  BY <1>1, FS_Interval
<1> QED
  BY <1>2, <1>3, SumType

\* Nothing is priced, placed or answered yet.
LEMMA InitKInv == Init => KInv
BY DEF Init, KInv, NoOrder

\* One more item is billed.
LEMMA BillNext ==
    ASSUME NEW merged \in Seq(Items), NEW n \in Nat, n < Len(merged),
           NEW bill, NEW cents, Billed(bill, cents, merged, n), Sold(merged[n + 1])
    PROVE  /\ Len(bill) = n
           /\ Billed(Append(bill, LineOf(merged[n + 1])), cents + Due(merged[n + 1]),
                     merged, n + 1)
<1> DEFINE f == [i \in DOMAIN merged |-> Due(merged[i])]
           x == LineOf(merged[n + 1])
           S == {LineOf(merged[i]) : i \in 1..n} \cup {x}
<1>1. DOMAIN merged = 1..Len(merged) /\ Len(merged) \in Nat /\ n + 1 \in DOMAIN merged
  OBVIOUS
<1>2. bill = [i \in 1..n |-> LineOf(merged[i])]
  BY DEF Billed
<1>3. bill \in Seq(S) /\ Len(bill) = n
  <2> HIDE DEF x
  <2> QED
    BY <1>2
<1>4. Append(bill, x) = [i \in 1..(n + 1) |-> LineOf(merged[i])]
  <2> DEFINE L(i) == LineOf(merged[i])
  <2>1. bill = [i \in 1..n |-> L(i)] /\ x = L(n + 1) /\ bill \in Seq(S)
    BY <1>2, <1>3
  <2> HIDE DEF L, x, S
  <2>2. /\ Append(bill, x) \in Seq(S \cup {x}) /\ Len(Append(bill, x)) = n + 1
        /\ \A i \in 1..n : Append(bill, x)[i] = L(i)
        /\ Append(bill, x)[n + 1] = x
    BY <1>3, <2>1
  <2>3. \A i \in 1..(n + 1) : Append(bill, x)[i] = L(i)
    BY <2>1, <2>2
  <2>4. Append(bill, x) = [i \in 1..(n + 1) |-> Append(bill, x)[i]]
    <3> DEFINE longer == Append(bill, x)
               T == S \cup {x}
    <3>1. longer \in Seq(T) /\ Len(longer) = n + 1
      BY <2>2
    <3> HIDE DEF longer, T
    <3>2. longer = [i \in 1..(n + 1) |-> longer[i]]
      BY <3>1
    <3> QED
      BY <3>2 DEF longer
  <2>5. Append(bill, x) = [i \in 1..(n + 1) |-> L(i)]
    BY <2>3, <2>4
  <2> QED
    BY <2>5 DEF L
<1>5. \A i \in 1..(n + 1) : Sold(merged[i])
  BY DEF Billed
<1>6. cents = SumFunctionOnSet(f, 1..n)
  BY DEF Billed
<1>7. \A i \in 1..(n + 1) : f[i] \in Int
  <2> SUFFICES ASSUME NEW i \in 1..(n + 1) PROVE f[i] \in Int
    OBVIOUS
  <2>1. i \in DOMAIN merged /\ merged[i] \in Items /\ Sold(merged[i])
    BY <1>1, <1>5
  <2> QED
    BY <2>1, DueIsNat
<1>8. f[n + 1] = Due(merged[n + 1])
  BY <1>1
<1>9. IsFiniteSet(1..n) /\ n + 1 \notin 1..n /\ (1..n) \cup {n + 1} = 1..(n + 1)
  <2>1. IsFiniteSet(1..n)
    BY FS_Interval
  <2>2. n + 1 \notin 1..n /\ (1..n) \cup {n + 1} = 1..(n + 1)
    OBVIOUS
  <2> QED
    BY <2>1, <2>2
<1> HIDE DEF f
<1>10. SumFunctionOnSet(f, 1..(n + 1)) = f[n + 1] + SumFunctionOnSet(f, 1..n)
  BY <1>7, <1>9, SumAdd
<1>11. /\ n \in 0..Len(merged)
       /\ \A i \in 1..n : Sold(merged[i])
  BY <1>1 DEF Billed
<1>12. SumFunctionOnSet(f, 1..n) \in Nat
  BY <1>11, FirstDue DEF f
<1>13. n + 1 \in 1..(n + 1) /\ f[n + 1] \in Int
  BY <1>7
<1>14. cents + Due(merged[n + 1]) = SumFunctionOnSet(f, 1..(n + 1))
  BY <1>6, <1>8, <1>10, <1>12, <1>13
<1> QED
  BY <1>3, <1>4, <1>5, <1>14 DEF Billed, f

\* The book the loop looks up is there exactly if the item can be sold.
LEMMA FoundIsSold == More => (Found <=> Sold(Requested))
BY DEF Found, Sold

\* An item is billed, or refused for want of its book.
LEMMA PricingInv == ASSUME KInv, PriceItem \/ RefuseItem PROVE KInv'
<1>1. stage = "price" /\ Len(lines) < Len(items) /\ order = NoOrder
      /\ items = MergeDuplicateItems(request.items) /\ request \in Requests
  BY DEF KInv, PriceItem, RefuseItem, More
<1>2. items \in Seq(Items)
  BY <1>1, RequestItems, MergedIs
<1>3. PICK n \in 0..Len(items) : Billed(lines, total, items, n)
  BY <1>1 DEF KInv
<1>4. Len(items) \in Nat /\ DOMAIN items = 1..Len(items)
  BY <1>2
<1>5. Len(lines) = n
  BY <1>3, <1>4 DEF Billed
<1>6. Requested = items[n + 1] /\ n + 1 \in DOMAIN items
  BY <1>1, <1>4, <1>5 DEF Requested
<1>7. CASE PriceItem
  <2>1. Sold(items[n + 1])
    BY <1>6, <1>7, FoundIsSold DEF PriceItem
  <2>2. items[n + 1] \in Items
    BY <1>2, <1>6
  <2> DEFINE item == items[n + 1]
             q == item.quantity
             c == CentsOf(item)
  <2>3. c \in Nat /\ q \in Nat
    BY <2>1, <2>2, DueIsNat DEF Items
  <2>4. c * q = Due(item)
    <3> HIDE DEF q, c
    <3>1. c * q = q * c
      BY <2>3
    <3> QED
      BY <3>1 DEF Due, q, c
  <2>5. /\ total' = total + c * q
        /\ lines' = Append(lines,
             [ book |-> BookOf[item.bookId], quantity |-> q,
               unitPrice |-> FormatMoney(c), lineTotal |-> FormatMoney(c * q) ])
        /\ UNCHANGED <<request, stage, items, order, answer>>
    BY <1>6, <1>7 DEF PriceItem, CentsOf
  <2>6. total' = total + Due(item) /\ lines' = Append(lines, LineOf(item))
    BY <2>4, <2>5 DEF LineOf
  <2>7. n \in Nat /\ n < Len(items)
    BY <1>1, <1>4, <1>5
  <2>8. Billed(lines', total', items, n + 1)
    BY <1>2, <1>3, <2>1, <2>6, <2>7, BillNext
  <2>9. n + 1 \in 0..Len(items)
    BY <1>4, <2>7
  <2> QED
    BY <1>1, <2>5, <2>8, <2>9 DEF KInv
<1>8. CASE RefuseItem
  <2>1. ~Sold(items[n + 1])
    BY <1>6, <1>8, FoundIsSold DEF RefuseItem
  <2> QED
    BY <1>1, <1>6, <1>8, <2>1 DEF KInv, RefuseItem
<1> QED
  BY <1>7, <1>8

\* The order is the bill of all items.
LEMMA CompleteInv == ASSUME KInv, Complete PROVE KInv'
<1>1. stage = "price" /\ Len(lines) = Len(items) /\ request \in Requests
      /\ items = MergeDuplicateItems(request.items)
  BY DEF KInv, Complete
<1>2. items \in Seq(Items) /\ Len(items) \in Nat
  BY <1>1, RequestItems, MergedIs
<1>3. PICK n \in 0..Len(items) : Billed(lines, total, items, n)
  BY <1>1 DEF KInv
<1>4. Len(lines) = n
  BY <1>2, <1>3 DEF Billed
<1>5. Billed(lines, total, items, Len(items))
  BY <1>1, <1>3, <1>4
<1>6. /\ order'.asked = request
      /\ order'.hash = CreateRequestHash(request.user, items)
      /\ order'.lines = lines
      /\ order'.totalAmount = FormatMoney(total)
      /\ stage' = "answered" /\ answer' = "OK"
      /\ UNCHANGED <<request, items, lines, total>>
  BY DEF Complete, Order
<1>7. OrderOK'
  BY <1>1, <1>5, <1>6 DEF OrderOK
<1> QED
  BY <1>1, <1>6, <1>7 DEF KInv

\* Every step of the use case keeps the invariant.
LEMMA KInvStep == ASSUME KInv, [Next]_vars PROVE KInv'
<1>1. CASE Receive
  <2>1. CASE order = NoOrder
    <3>1. items' \in Seq(Items) /\ Len(items') \in Nat
      BY <1>1, RequestItems, MergedIs DEF Receive, KInv
    <3>2. Billed(<<>>, 0, items', 0)
      BY SumEmpty DEF Billed
    <3>3. Billed(lines', total', items', 0) /\ 0 \in 0..Len(items')
      BY <1>1, <3>1, <3>2 DEF Receive, KInv
    <3> QED
      BY <1>1, <2>1, <3>3 DEF Receive, KInv
  <2>2. CASE order # NoOrder
    BY <1>1, <2>2 DEF Receive, KInv, OrderOK
  <2> QED
    BY <2>1, <2>2
<1>2. CASE Repeat
  BY <1>2 DEF Repeat, KInv, OrderOK
<1>3. CASE UNCHANGED vars
  BY <1>3 DEF vars, KInv, OrderOK
<1> QED
  BY <1>1, <1>2, <1>3, PricingInv, CompleteInv DEF Next

\* What createOrder computes is always the bill of the merged items.
THEOREM CheckoutInvariance == Spec => []KInv
BY InitKInv, KInvStep, PTL DEF Spec

-----------------------------------------------------------------------------
(* The theorems.                                                           *)

\* What is known of a committed order.
LEMMA OrderFacts ==
    ASSUME KInv, order # NoOrder
    PROVE  /\ order.asked \in Requests
           /\ order.hash = CreateRequestHash(order.asked.user,
                                             MergeDuplicateItems(order.asked.items))
           /\ \E merged, cents :
                 /\ merged = MergeDuplicateItems(order.asked.items)
                 /\ merged \in Seq(Items) /\ Len(merged) >= 1
                 /\ Billed(order.lines, cents, merged, Len(merged))
                 /\ order.totalAmount = FormatMoney(cents)
                 /\ cents \in Nat
<1>1. OrderOK /\ order.asked \in Requests
  BY DEF KInv, OrderOK
<1>2. PICK merged, cents :
          /\ merged = MergeDuplicateItems(order.asked.items)
          /\ Billed(order.lines, cents, merged, Len(merged))
          /\ order.totalAmount = FormatMoney(cents)
  BY <1>1 DEF OrderOK
<1>3. merged \in Seq(Items) /\ Len(merged) >= 1
  BY <1>1, <1>2, RequestItems, MergedIs
<1>4. cents \in Nat
  <2>1. /\ Len(merged) \in 0..Len(merged)
        /\ \A i \in 1..Len(merged) : Sold(merged[i])
    BY <1>2, <1>3 DEF Billed
  <2> DEFINE f == [i \in DOMAIN merged |-> Due(merged[i])]
  <2>2. cents = SumFunctionOnSet(f, 1..Len(merged))
    BY <1>2 DEF Billed
  <2> HIDE DEF f
  <2>3. SumFunctionOnSet(f, 1..Len(merged)) \in Nat
    BY <1>3, <2>1, FirstDue DEF f
  <2> QED
    BY <2>2, <2>3
<1> QED
  BY <1>1, <1>2, <1>3, <1>4 DEF OrderOK

\* What the merged items cost is what the items of the request cost.
LEMMA MergedCosts ==
    ASSUME NEW list \in Seq(Items), NEW merged, merged = MergeDuplicateItems(list),
           \A i \in DOMAIN merged : Sold(merged[i])
    PROVE  SumFunctionOnSet([i \in DOMAIN list |-> Due(list[i])], DOMAIN list)
             = SumFunctionOnSet([j \in DOMAIN merged |-> Due(merged[j])], DOMAIN merged)
<1> DEFINE S == DOMAIN list
           J == DOMAIN merged
           id == [i \in S |-> list[i].bookId]
           amount == [i \in S |-> list[i].quantity]
           key == [j \in J |-> merged[j].bookId]
           cost == [s \in Spelling |-> MoneyToCents(Price[BookOf[s]])]
           of(j) == [x \in S |-> IF id[x] = key[j] THEN amount[x] ELSE 0]
<1>1. /\ IsFiniteSet(S)
      /\ \A i \in S : list[i].bookId \in Spelling /\ list[i].quantity \in Nat \ {0}
      /\ Ids(list) \subseteq Spelling
  BY ListTypes
<1>2. /\ IsFiniteSet(J) /\ merged \in Seq(Items)
      /\ \A j \in J : /\ merged[j].bookId \in Ids(list)
                      /\ merged[j].quantity = Quantity(list, merged[j].bookId)
      /\ \A i, j \in J : merged[i].bookId = merged[j].bookId => i = j
      /\ \A s \in Ids(list) : \E j \in J : merged[j].bookId = s
  BY MergedIs
<1>3. ASSUME NEW j \in J
      PROVE  /\ cost[key[j]] = CentsOf(merged[j]) /\ cost[key[j]] \in Nat
             /\ key[j] = merged[j].bookId
  <2>1. key[j] = merged[j].bookId /\ merged[j].bookId \in Spelling
    BY <1>1, <1>2
  <2>2. cost[key[j]] = CentsOf(merged[j])
    BY <2>1 DEF CentsOf
  <2>3. merged[j] \in Items /\ Sold(merged[j])
    BY <1>2
  <2>4. CentsOf(merged[j]) \in Nat
    BY <2>3, DueIsNat
  <2> QED
    BY <2>1, <2>2, <2>4
<1>4. \A i \in S : amount[i] \in Nat /\ amount[i] = list[i].quantity /\ id[i] = list[i].bookId
  BY <1>1
<1>5. \A i \in S : \E j \in J : key[j] = id[i]
  <2> SUFFICES ASSUME NEW i \in S PROVE \E j \in J : key[j] = id[i]
    OBVIOUS
  <2>1. id[i] \in Ids(list)
    BY <1>4 DEF Ids
  <2> QED
    BY <1>2, <1>3, <2>1
<1>6. \A i, j \in J : key[i] = key[j] => i = j
  BY <1>2, <1>3
<1>7. [i \in S |-> amount[i] * cost[id[i]]] = [i \in S |-> Due(list[i])]
  <2>1. \A i \in S : amount[i] * cost[id[i]] = Due(list[i])
    BY <1>1, <1>4 DEF Due, CentsOf
  <2> HIDE DEF S, amount, cost, id
  <2> QED
    BY <2>1
<1>8. [j \in J |-> SumFunctionOnSet(of(j), S) * cost[key[j]]] = [j \in J |-> Due(merged[j])]
  <2>1. ASSUME NEW j \in J PROVE SumFunctionOnSet(of(j), S) = merged[j].quantity
    <3>1. of(j) = [i \in S |-> IF list[i].bookId = merged[j].bookId
                               THEN list[i].quantity ELSE 0]
      BY <1>3, <1>4
    <3>2. SumFunctionOnSet(of(j), S) = Quantity(list, merged[j].bookId)
      BY <3>1 DEF Quantity, SumFunction
    <3> QED
      BY <1>2, <3>2
  <2>2. ASSUME NEW j \in J PROVE SumFunctionOnSet(of(j), S) * cost[key[j]] = Due(merged[j])
    <3> HIDE DEF of, cost, key, S
    <3> QED
      BY <1>3, <2>1, <2>2 DEF Due
  <2> HIDE DEF of, cost, key, S, J
  <2> QED
    BY <2>2
<1>9. \A j \in J : cost[key[j]] \in Nat
  BY <1>3
<1>10. \A i \in S : amount[i] \in Nat
  BY <1>4
<1> HIDE DEF S, J, id, amount, key, cost
<1>11. SumFunctionOnSet([i \in S |-> amount[i] * cost[id[i]]], S)
        = SumFunctionOnSet([j \in J |-> SumFunctionOnSet(of(j), S) * cost[key[j]]], J)
  <2>1. IsFiniteSet(S) /\ IsFiniteSet(J)
    BY <1>1, <1>2
  <2>2. SumFunctionOnSet(CostOfItems(S, id, amount, cost), S)
          = SumFunctionOnSet(CostOfIds(S, J, id, amount, key, cost), J)
    BY <2>1, <1>5, <1>6, <1>9, <1>10, Regroup
  <2> QED
    BY <2>2 DEF CostOfItems, CostOfIds
<1>12. SumFunctionOnSet([i \in S |-> Due(list[i])], S)
         = SumFunctionOnSet([j \in J |-> Due(merged[j])], J)
  BY <1>7, <1>8, <1>11
<1> QED
  BY <1>12 DEF S, J

\* Whatever way the client splits, repeats and orders its items, it is charged
\* to the cent what it asked for, and the lines add up to the total.
THEOREM ChargesExactly == Spec => []ExactTotal
<1>1. KInv => ExactTotal
  <2> SUFFICES ASSUME KInv, order # NoOrder PROVE ExactTotal
    BY DEF ExactTotal
  <2> DEFINE asked == order.asked.items
  <2>1. PICK merged, cents :
            /\ merged = MergeDuplicateItems(asked)
            /\ merged \in Seq(Items)
            /\ Billed(order.lines, cents, merged, Len(merged))
            /\ order.totalAmount = FormatMoney(cents)
            /\ cents \in Nat
    BY OrderFacts
  <2>2. asked \in Seq(Items)
    BY OrderFacts, RequestItems
  <2> HIDE DEF asked
  <2> DEFINE f == [i \in DOMAIN merged |-> Due(merged[i])]
             charged == [i \in DOMAIN order.lines |-> MoneyToCents(order.lines[i].lineTotal)]
  <2>3. DOMAIN merged = 1..Len(merged)
    BY <2>1
  <2>4. /\ order.lines = [i \in DOMAIN merged |-> LineOf(merged[i])]
        /\ \A i \in DOMAIN merged : Sold(merged[i])
        /\ cents = SumFunctionOnSet(f, DOMAIN merged)
    BY <2>1, <2>3 DEF Billed
  <2>5. SumFunctionOnSet([i \in DOMAIN asked |-> Due(asked[i])], DOMAIN asked) = cents
    BY <2>1, <2>2, <2>4, MergedCosts
  <2>6. ASSUME NEW i \in DOMAIN merged PROVE charged[i] = Due(merged[i])
    <3>1. merged[i] \in Items /\ Sold(merged[i])
      BY <2>1, <2>4
    <3>2. Due(merged[i]) \in Nat
      BY <3>1, DueIsNat
    <3>3. order.lines[i].lineTotal = FormatMoney(Due(merged[i]))
      BY <2>4 DEF LineOf
    <3> QED
      BY <2>4, <3>2, <3>3, FormatThenParse
  <2>7. charged = f /\ DOMAIN charged = DOMAIN merged
    BY <2>4, <2>6
  <2>8. SumFunction(charged) = cents
    BY <2>4, <2>7 DEF SumFunction
  <2>9. SumFunction([i \in DOMAIN asked |-> Due(asked[i])]) = cents
    BY <2>5 DEF SumFunction
  <2>10. MoneyToCents(order.totalAmount) = cents
    BY <2>1, FormatThenParse
  <2> QED
    BY <2>8, <2>9, <2>10 DEF ExactTotal, Due, CentsOf, asked
<1> QED
  BY <1>1, CheckoutInvariance, PTL

\* A request with a used key is replayed exactly if it is a request for the
\* same purchase, and otherwise refused.
THEOREM ReplaysExactly == Spec => []ReplaysSamePurchase
<1>1. KInv => ReplaysSamePurchase
  <2> SUFFICES ASSUME KInv, stage = "answered", order # NoOrder
               PROVE  answer = "OK" <=>
                        /\ request.user = order.asked.user
                        /\ \A s \in Spelling :
                              Quantity(request.items, s) = Quantity(order.asked.items, s)
    BY DEF ReplaysSamePurchase
  <2>1. /\ request \in Requests /\ order.asked \in Requests
        /\ items = MergeDuplicateItems(request.items)
        /\ answer = "OK" <=> order.hash = CreateRequestHash(request.user, items)
    BY OrderFacts DEF KInv
  <2>2. order.hash = CreateRequestHash(order.asked.user,
                                       MergeDuplicateItems(order.asked.items))
    BY OrderFacts
  <2>3. answer = "OK" <=> /\ request.user = order.asked.user
                          /\ MergeDuplicateItems(request.items)
                               = MergeDuplicateItems(order.asked.items)
    BY <2>1, <2>2 DEF CreateRequestHash
  <2>4. request.items \in Seq(Items) /\ order.asked.items \in Seq(Items)
    BY <2>1, RequestItems
  <2> QED
    BY <2>3, <2>4, MergesAlike
<1> QED
  BY <1>1, CheckoutInvariance, PTL

\* Every order makes an event its consumer takes, which counts every book of
\* the order once.
THEOREM EventsAreTaken == Spec => []EventAcceptable
<1>1. KInv => EventAcceptable
  <2> SUFFICES ASSUME KInv, order # NoOrder PROVE EventAcceptable
    BY DEF EventAcceptable
  <2>1. PICK merged, cents :
            /\ merged = MergeDuplicateItems(order.asked.items)
            /\ merged \in Seq(Items) /\ Len(merged) >= 1
            /\ Billed(order.lines, cents, merged, Len(merged))
            /\ order.totalAmount = FormatMoney(cents)
            /\ cents \in Nat
    BY OrderFacts
  <2>2. Matches(order.totalAmount)
    BY <2>1, FormatsAmounts
  <2>3. DOMAIN merged = 1..Len(merged) /\ Len(merged) \in Nat
    BY <2>1
  <2>4. /\ order.lines = [i \in 1..Len(merged) |-> LineOf(merged[i])]
        /\ \A i \in 1..Len(merged) : Sold(merged[i])
    BY <2>1 DEF Billed
  <2>5. DOMAIN order.lines = 1..Len(merged)
    BY <2>4
  <2>6. order.lines = [i \in 1..Len(merged) |-> order.lines[i]]
    BY <2>4
  <2>7. Len(order.lines) = Len(merged)
    BY <2>3, <2>6
  <2>8. \A i \in DOMAIN merged : order.lines[i].book = BookOf[merged[i].bookId]
    BY <2>3, <2>4 DEF LineOf
  <2>9. ASSUME NEW i \in DOMAIN order.lines, NEW j \in DOMAIN order.lines,
               order.lines[i].book = order.lines[j].book
        PROVE  i = j
    <3>1. BookOf[merged[i].bookId] = BookOf[merged[j].bookId]
      BY <2>3, <2>5, <2>8, <2>9
    <3>2. merged[i].bookId = merged[j].bookId
      BY <2>4, <2>5, <3>1 DEF Sold
    <3>3. order.asked.items \in Seq(Items)
      BY OrderFacts, RequestItems
    <3> QED
      BY <2>1, <2>3, <2>5, <3>2, <3>3, MergedIs
  <2> QED
    BY <2>1, <2>2, <2>7, <2>9 DEF EventAcceptable
<1> QED
  BY <1>1, CheckoutInvariance, PTL

\* "Not available" is only told to a client that asked for a book that is not
\* there, if it writes ids as it was given them.
THEOREM NotAvailableIsReal == Spec => []NotAvailableIsTrue
<1>1. KInv => NotAvailableIsTrue
  <2> SUFFICES ASSUME KInv, answer = "BOOK_NOT_AVAILABLE",
                      Ids(request.items) \subseteq {Lower[b] : b \in DOMAIN Lower}
               PROVE  \E s \in Ids(request.items) : BookOf[s] \notin DOMAIN Price
    BY DEF NotAvailableIsTrue
  <2>1. /\ items = MergeDuplicateItems(request.items) /\ request.items \in Seq(Items)
    BY RequestItems DEF KInv
  <2>2. PICK i \in DOMAIN items : ~Sold(items[i])
    BY DEF KInv
  <2> DEFINE s == items[i].bookId
  <2>3. s \in Ids(request.items)
    BY <2>1, MergedIs
  <2>4. PICK b \in DOMAIN Lower : s = Lower[b]
    BY <2>3
  <2>5. BookOf[s] = b
    BY <2>4, CheckoutAssumption DEF CheckoutAssumption
  <2>6. BookOf[s] \notin DOMAIN Price
    BY <2>2, <2>4, <2>5 DEF Sold
  <2> QED
    BY <2>3, <2>6
<1> QED
  BY <1>1, CheckoutInvariance, PTL
=============================================================================
