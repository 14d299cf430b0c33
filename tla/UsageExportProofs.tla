------------------------- MODULE UsageExportProofs -------------------------
(***************************************************************************)
(* Theorems about UsageExport.  A row does not hold what was used on its   *)
(* day (the run UsageExport); what the export does keep is that no day has *)
(* two rows and that nothing is lost or counted twice: the rows of a file  *)
(* add up to the records of the month.                                     *)
(***************************************************************************)
EXTENDS UsageExport, TLAPS

Boosted(s)  == [k \in 1..Len(s) |-> s[k].boosted]
Diverted(s) == [k \in 1..Len(s) |-> s[k].diverted]
Read1b == [k \in 1..Len(readings) |-> readings[k].h1b]
Read1d == [k \in 1..Len(readings) |-> readings[k].h1d]

\* f[1] + ... + f[n] = total: there are running sums that begin with 0 and end
\* with it.
AddsUp(f, n, total) ==
    \E s \in [0..n -> Int] :
        /\ s[0] = 0 /\ s[n] = total
        /\ \A k \in 1..n : s[k] = s[k - 1] + f[k]
----------------------------------------------------------------------------
(***************************************************************************)
(* Sums.                                                                   *)
(***************************************************************************)
LEMMA NothingAddsUp ==
    ASSUME NEW f
    PROVE  AddsUp(f, 0, 0)
<1> DEFINE s == [k \in 0..0 |-> 0]
<1>1. s \in [0..0 -> Int] /\ s[0] = 0
  OBVIOUS
<1> HIDE DEF s
<1> QED BY <1>1 DEF AddsUp

\* One more term.
LEMMA OneMoreAddsUp ==
    ASSUME NEW f, NEW g, NEW n \in Nat, NEW total \in Int, AddsUp(f, n, total),
           \A k \in 1..n : g[k] = f[k], g[n + 1] \in Int
    PROVE  AddsUp(g, n + 1, total + g[n + 1])
<1>1. PICK s \in [0..n -> Int] :
        s[0] = 0 /\ s[n] = total /\ \A k \in 1..n : s[k] = s[k - 1] + f[k]
  BY DEF AddsUp
<1> DEFINE t == [k \in 0..(n + 1) |-> IF k = n + 1 THEN total + g[n + 1] ELSE s[k]]
<1>2. /\ t \in [0..(n + 1) -> Int]
      /\ \A k \in 0..n : t[k] = s[k]
      /\ t[n + 1] = total + g[n + 1]
  BY <1>1
<1> HIDE DEF t
<1>3. t[0] = 0
  BY <1>1, <1>2
<1>4. ASSUME NEW k \in 1..(n + 1)
      PROVE  t[k] = t[k - 1] + g[k]
  <2>1. CASE k = n + 1
    BY <1>1, <1>2, <2>1
  <2>2. CASE k \in 1..n
    <3>1. k \in 0..n /\ k - 1 \in 0..n
      BY <2>2
    <3> QED BY <1>1, <1>2, <2>2, <3>1
  <2> QED BY <2>1, <2>2
<1> QED BY <1>2, <1>3, <1>4 DEF AddsUp
----------------------------------------------------------------------------
(***************************************************************************)
(* The inductive invariant: what has been exported, and what the sums of   *)
(* the day still hold, is what has been read.                              *)
(***************************************************************************)
Rows == [dom : Nat, boosted : Int, diverted : Int]

Numbers ==
    /\ current_dom \in Nat /\ last_dom \in Nat
    /\ daily_boosted \in Int /\ daily_diverted \in Int
    /\ total_boosted \in Int /\ total_diverted \in Int

Typed ==
    /\ Numbers
    /\ export_data \in Seq(Rows) /\ readings \in Seq(Reading)
    /\ closed \in BOOLEAN

Balanced ==
    /\ AddsUp(Read1b, Len(readings), total_boosted)
    /\ AddsUp(Read1d, Len(readings), total_diverted)
    /\ closed => /\ AddsUp(Boosted(export_data), Len(export_data), total_boosted)
                 /\ AddsUp(Diverted(export_data), Len(export_data), total_diverted)
    /\ ~closed => /\ AddsUp(Boosted(export_data), Len(export_data),
                            total_boosted - daily_boosted)
                  /\ AddsUp(Diverted(export_data), Len(export_data),
                            total_diverted - daily_diverted)

Ascending ==
    /\ \A i, j \in DOMAIN export_data : i < j => export_data[i].dom < export_data[j].dom
    /\ ~closed => \A i \in DOMAIN export_data : export_data[i].dom < current_dom
    /\ current_dom = last_dom

\* A record, as numbers.
LEMMA ReadingType ==
    ASSUME Days \subseteq Nat, Amounts \subseteq Int, NEW r \in Reading
    PROVE  r.dom \in Nat /\ r.h1b \in Int /\ r.h1d \in Int
BY DEF Reading

LEMMA AppendRow ==
    ASSUME export_data \in Seq(Rows), NEW row \in Rows,
           export_data' = Append(export_data, row)
    PROVE  /\ export_data' \in Seq(Rows)
           /\ Len(export_data) \in Nat /\ Len(export_data') = Len(export_data) + 1
           /\ DOMAIN export_data = 1..Len(export_data)
           /\ DOMAIN export_data' = 1..(Len(export_data) + 1)
           /\ \A k \in 1..Len(export_data) : export_data'[k] = export_data[k]
           /\ export_data'[Len(export_data) + 1] = row
OBVIOUS

\* A row more adds up to what there was and what is in the row.
LEMMA RowAddsUp ==
    ASSUME export_data \in Seq(Rows), NEW row \in Rows,
           export_data' = Append(export_data, row),
           NEW b \in Int, NEW d \in Int,
           AddsUp(Boosted(export_data), Len(export_data), b),
           AddsUp(Diverted(export_data), Len(export_data), d)
    PROVE  /\ AddsUp(Boosted(export_data'), Len(export_data'), b + row.boosted)
           /\ AddsUp(Diverted(export_data'), Len(export_data'), d + row.diverted)
<1> DEFINE n == Len(export_data)
<1>1. /\ n \in Nat /\ Len(export_data') = n + 1
      /\ \A k \in 1..n : export_data'[k] = export_data[k]
      /\ export_data'[n + 1] = row
  BY AppendRow
<1>2. row.boosted \in Int /\ row.diverted \in Int
  BY DEF Rows
<1> HIDE DEF n
<1>3. /\ \A k \in 1..n : Boosted(export_data')[k] = Boosted(export_data)[k]
      /\ \A k \in 1..n : Diverted(export_data')[k] = Diverted(export_data)[k]
      /\ Boosted(export_data')[n + 1] = row.boosted
      /\ Diverted(export_data')[n + 1] = row.diverted
  BY <1>1 DEF Boosted, Diverted, n
<1>4. /\ AddsUp(Boosted(export_data), n, b)
      /\ AddsUp(Diverted(export_data), n, d)
  BY DEF n
<1>5. AddsUp(Boosted(export_data'), n + 1, b + Boosted(export_data')[n + 1])
  BY <1>1, <1>2, <1>3, <1>4, OneMoreAddsUp
<1>6. AddsUp(Diverted(export_data'), n + 1, d + Diverted(export_data')[n + 1])
  BY <1>1, <1>2, <1>3, <1>4, OneMoreAddsUp
<1> QED BY <1>1, <1>3, <1>5, <1>6

\* A record more adds up to what there was and what is in the record.
LEMMA ReadingAddsUp ==
    ASSUME Days \subseteq Nat, Amounts \subseteq Int, readings \in Seq(Reading),
           NEW r \in Reading, readings' = Append(readings, r),
           NEW b \in Int, NEW d \in Int,
           AddsUp(Read1b, Len(readings), b), AddsUp(Read1d, Len(readings), d)
    PROVE  /\ AddsUp(Read1b', Len(readings'), b + r.h1b)
           /\ AddsUp(Read1d', Len(readings'), d + r.h1d)
<1> DEFINE n == Len(readings)
<1>1. /\ n \in Nat /\ Len(readings') = n + 1
      /\ \A k \in 1..n : readings'[k] = readings[k]
      /\ readings'[n + 1] = r
  OBVIOUS
<1>2. r.h1b \in Int /\ r.h1d \in Int
  BY ReadingType
<1> HIDE DEF n
<1>3. /\ \A k \in 1..n : Read1b'[k] = Read1b[k]
      /\ \A k \in 1..n : Read1d'[k] = Read1d[k]
      /\ Read1b'[n + 1] = r.h1b
      /\ Read1d'[n + 1] = r.h1d
  BY <1>1 DEF Read1b, Read1d, n
<1>4. AddsUp(Read1b, n, b) /\ AddsUp(Read1d, n, d)
  BY DEF n
<1>5. AddsUp(Read1b', n + 1, b + Read1b'[n + 1])
  BY <1>1, <1>2, <1>3, <1>4, OneMoreAddsUp
<1>6. AddsUp(Read1d', n + 1, d + Read1d'[n + 1])
  BY <1>1, <1>2, <1>3, <1>4, OneMoreAddsUp
<1> QED BY <1>1, <1>3, <1>5, <1>6

LEMMA BooksInit ==
    ASSUME Init
    PROVE  Typed /\ Balanced /\ Ascending
<1>1. Typed /\ Ascending
  <2>1. Numbers
    BY DEF Init, Numbers
  <2>2. export_data = <<>> /\ readings = <<>> /\ current_dom = last_dom
    BY DEF Init
  <2>3. export_data \in Seq(Rows)
    BY <2>2
  <2>4. readings \in Seq(Reading)
    BY <2>2
  <2>5. DOMAIN export_data = {}
    BY <2>2
  <2>6. Ascending
    BY <2>2, <2>5 DEF Ascending
  <2>7. closed \in BOOLEAN
    BY DEF Init
  <2> QED BY <2>1, <2>3, <2>4, <2>6, <2>7 DEF Typed
<1>2. Len(readings) = 0 /\ Len(export_data) = 0
  BY DEF Init
<1>3. total_boosted = 0 /\ total_diverted = 0 /\ daily_boosted = 0 /\ daily_diverted = 0
      /\ closed = FALSE
  BY DEF Init
<1>4. AddsUp(Read1b, 0, 0) /\ AddsUp(Read1d, 0, 0)
      /\ AddsUp(Boosted(export_data), 0, 0) /\ AddsUp(Diverted(export_data), 0, 0)
  BY NothingAddsUp
<1>5. 0 - 0 = 0
  OBVIOUS
<1>6. Balanced
  BY <1>2, <1>3, <1>4, <1>5 DEF Balanced
<1> QED BY <1>1, <1>6

\* What a record does to the numbers, on the same day and on another one.
LEMMA NumbersStep ==
    ASSUME Numbers, NEW dom \in Nat, NEW h1b \in Int, NEW h1d \in Int,
           current_dom' = dom, last_dom' = dom,
           total_boosted' = total_boosted + h1b, total_diverted' = total_diverted + h1d
    PROVE  /\ /\ daily_boosted' = daily_boosted + h1b
              /\ daily_diverted' = daily_diverted + h1d
              => /\ Numbers'
                 /\ total_boosted' - daily_boosted' = total_boosted - daily_boosted
                 /\ total_diverted' - daily_diverted' = total_diverted - daily_diverted
           /\ daily_boosted' = 0 /\ daily_diverted' = 0
              => /\ Numbers'
                 /\ total_boosted' - daily_boosted'
                       = (total_boosted - daily_boosted) + (daily_boosted + h1b)
                 /\ total_diverted' - daily_diverted'
                       = (total_diverted - daily_diverted) + (daily_diverted + h1d)
BY DEF Numbers

\* The same day: only the sums grow.
LEMMA SameDay ==
    ASSUME Days \subseteq Nat, Amounts \subseteq Int, Metered = TRUE,
           Typed, Balanced, Ascending, NEW r \in Reading, AddReading(r), current_dom = r.dom
    PROVE  Typed' /\ Balanced' /\ Ascending'
<1>1. r.dom \in Nat /\ r.h1b \in Int /\ r.h1d \in Int
  BY ReadingType
<1>2. /\ closed = FALSE /\ closed' = FALSE
      /\ readings' = Append(readings, r) /\ export_data' = export_data
      /\ last_dom' = r.dom /\ current_dom' = current_dom
  BY DEF AddReading, Meter, Typed
<1>3. /\ total_boosted' = total_boosted + r.h1b /\ total_diverted' = total_diverted + r.h1d
      /\ daily_boosted' = daily_boosted + r.h1b /\ daily_diverted' = daily_diverted + r.h1d
      /\ last_dom' = r.dom /\ current_dom' = r.dom
  BY DEF AddReading, Meter
<1>4. /\ Numbers'
      /\ total_boosted' - daily_boosted' = total_boosted - daily_boosted
      /\ total_diverted' - daily_diverted' = total_diverted - daily_diverted
  <2>1. Numbers
    BY DEF Typed
  <2> QED BY <1>3, <1>1, <2>1, NumbersStep
<1>5. Typed'
  <2>1. readings' \in Seq(Reading)
    BY <1>2 DEF Typed
  <2> QED BY <1>2, <1>4, <2>1 DEF Typed
<1>6. Ascending'
  BY <1>2 DEF Ascending
<1>7. /\ AddsUp(Read1b', Len(readings'), total_boosted')
      /\ AddsUp(Read1d', Len(readings'), total_diverted')
  BY <1>3, <1>2, ReadingAddsUp DEF Typed, Numbers, Balanced
<1>8. Balanced'
  BY <1>2, <1>7, <1>4 DEF Balanced
<1> QED BY <1>5, <1>6, <1>8

\* Another day: the row takes all that the sums hold, this record included.
LEMMA AnotherDay ==
    ASSUME Days \subseteq Nat, Amounts \subseteq Int, Metered = TRUE,
           Typed, Balanced, Ascending, NEW r \in Reading, AddReading(r), current_dom # r.dom
    PROVE  Typed' /\ Balanced' /\ Ascending'
<1> DEFINE row == Row(current_dom, daily_boosted + r.h1b, daily_diverted + r.h1d)
<1>1. r.dom \in Nat /\ r.h1b \in Int /\ r.h1d \in Int
  BY ReadingType
<1>2. /\ closed = FALSE /\ closed' = FALSE
      /\ readings' = Append(readings, r) /\ export_data' = Append(export_data, row)
      /\ last_dom' = r.dom /\ current_dom' = r.dom /\ r.dom >= last_dom
  BY DEF AddReading, Meter, Typed
<1>3. /\ total_boosted' = total_boosted + r.h1b /\ total_diverted' = total_diverted + r.h1d
      /\ daily_boosted' = 0 /\ daily_diverted' = 0
      /\ last_dom' = r.dom /\ current_dom' = r.dom
  BY DEF AddReading, Meter
<1>4. /\ Numbers'
      /\ (total_boosted - daily_boosted) + (daily_boosted + r.h1b)
            = total_boosted' - daily_boosted'
      /\ (total_diverted - daily_diverted) + (daily_diverted + r.h1d)
            = total_diverted' - daily_diverted'
  <2>1. Numbers
    BY DEF Typed
  <2> QED BY <1>3, <1>1, <2>1, NumbersStep
<1>5. /\ row \in Rows /\ row.dom = current_dom
      /\ row.boosted = daily_boosted + r.h1b /\ row.diverted = daily_diverted + r.h1d
  BY <1>1 DEF Typed, Numbers, Rows, Row
<1> HIDE DEF row
<1>6. Typed'
  <2>1. readings' \in Seq(Reading)
    BY <1>2 DEF Typed
  <2>2. export_data' \in Seq(Rows)
    BY <1>2, <1>5 DEF Typed
  <2> QED BY <1>2, <1>4, <2>1, <2>2 DEF Typed
<1>7. current_dom < current_dom' /\ current_dom' = last_dom' /\ current_dom' \in Nat
      /\ current_dom \in Nat
  BY <1>1, <1>2 DEF Typed, Numbers, Ascending
<1>8. Ascending'
  <2>1. /\ Len(export_data) \in Nat
        /\ DOMAIN export_data = 1..Len(export_data)
        /\ DOMAIN export_data' = 1..(Len(export_data) + 1)
        /\ \A k \in 1..Len(export_data) : export_data'[k] = export_data[k]
        /\ export_data'[Len(export_data) + 1] = row
    BY <1>2, <1>5, AppendRow DEF Typed
  <2>2. \A k \in 1..Len(export_data) : export_data[k].dom < current_dom
                                        /\ export_data[k].dom \in Nat
    <3>1. ASSUME NEW k \in 1..Len(export_data)
          PROVE  export_data[k].dom \in Nat
      <4>1. export_data[k] \in Rows
        BY <2>1 DEF Typed
      <4> QED BY <4>1 DEF Rows
    <3> QED BY <1>2, <2>1, <3>1 DEF Ascending
  <2>3. \A i, j \in DOMAIN export_data' : i < j => export_data'[i].dom < export_data'[j].dom
    BY <1>5, <2>1, <2>2 DEF Ascending
  <2>4. \A i \in DOMAIN export_data' : export_data'[i].dom < current_dom'
    BY <1>5, <1>7, <2>1, <2>2
  <2> QED BY <1>2, <1>7, <2>3, <2>4 DEF Ascending
<1>9. /\ AddsUp(Read1b', Len(readings'), total_boosted')
      /\ AddsUp(Read1d', Len(readings'), total_diverted')
  BY <1>3, <1>2, ReadingAddsUp DEF Typed, Numbers, Balanced
<1>10. /\ AddsUp(Boosted(export_data'), Len(export_data'),
                (total_boosted - daily_boosted) + row.boosted)
      /\ AddsUp(Diverted(export_data'), Len(export_data'),
                (total_diverted - daily_diverted) + row.diverted)
  BY <1>2, <1>5, RowAddsUp DEF Typed, Numbers, Balanced
<1>11. Balanced'
  BY <1>2, <1>5, <1>9, <1>10, <1>4 DEF Balanced
<1> QED BY <1>6, <1>8, <1>11

LEMMA LastRow ==
    ASSUME Typed, Balanced, Ascending, CloseExport
    PROVE  Typed' /\ Balanced' /\ Ascending'
<1> DEFINE row == Row(last_dom, daily_boosted, daily_diverted)
<1>1. /\ closed = FALSE /\ closed' = TRUE
      /\ export_data' = Append(export_data, row)
      /\ current_dom' = current_dom /\ last_dom' = last_dom /\ readings' = readings
      /\ total_boosted' = total_boosted /\ total_diverted' = total_diverted
      /\ daily_boosted' = daily_boosted /\ daily_diverted' = daily_diverted
  BY DEF CloseExport, sums, Typed, Numbers
<1>2. /\ row \in Rows /\ row.dom = last_dom
      /\ row.boosted = daily_boosted /\ row.diverted = daily_diverted
  BY DEF Typed, Numbers, Rows, Row
<1> HIDE DEF row
<1>3. Typed'
  <2>1. Numbers'
    BY <1>1 DEF Typed, Numbers
  <2>2. export_data' \in Seq(Rows)
    BY <1>1, <1>2 DEF Typed
  <2> QED BY <1>1, <2>1, <2>2 DEF Typed
<1>4. Ascending'
  <2>1. /\ Len(export_data) \in Nat
        /\ DOMAIN export_data = 1..Len(export_data)
        /\ DOMAIN export_data' = 1..(Len(export_data) + 1)
        /\ \A k \in 1..Len(export_data) : export_data'[k] = export_data[k]
        /\ export_data'[Len(export_data) + 1] = row
    BY <1>1, <1>2, AppendRow DEF Typed
  <2>2. \A k \in 1..Len(export_data) : export_data[k].dom < last_dom
    BY <1>1, <2>1 DEF Ascending
  <2>3. \A i, j \in DOMAIN export_data' : i < j => export_data'[i].dom < export_data'[j].dom
    BY <1>2, <2>1, <2>2 DEF Ascending
  <2> QED BY <1>1, <2>3 DEF Ascending
<1>5. /\ AddsUp(Boosted(export_data'), Len(export_data'),
                (total_boosted - daily_boosted) + row.boosted)
      /\ AddsUp(Diverted(export_data'), Len(export_data'),
                (total_diverted - daily_diverted) + row.diverted)
  BY <1>1, <1>2, RowAddsUp DEF Typed, Numbers, Balanced
<1>6. /\ (total_boosted - daily_boosted) + row.boosted = total_boosted'
      /\ (total_diverted - daily_diverted) + row.diverted = total_diverted'
  BY <1>1, <1>2 DEF Typed, Numbers
<1>7. Read1b' = Read1b /\ Read1d' = Read1d
  BY <1>1 DEF Read1b, Read1d
<1>8. Balanced'
  BY <1>1, <1>5, <1>6, <1>7 DEF Balanced
<1> QED BY <1>3, <1>4, <1>8

LEMMA BooksStep ==
    ASSUME Days \subseteq Nat, Amounts \subseteq Int, Metered = TRUE,
           Typed, Balanced, Ascending, [Next]_vars
    PROVE  Typed' /\ Balanced' /\ Ascending'
<1>1. CASE UNCHANGED vars
  <2>1. Typed' /\ Ascending'
    BY <1>1 DEF vars, sums, Typed, Numbers, Ascending
  <2>2. Balanced'
    BY <1>1 DEF vars, sums, Balanced, Read1b, Read1d
  <2> QED BY <2>1, <2>2
<1>2. ASSUME NEW r \in Reading, AddReading(r)
      PROVE  Typed' /\ Balanced' /\ Ascending'
  BY <1>2, SameDay, AnotherDay
<1>3. CASE CloseExport
  BY <1>3, LastRow
<1> QED BY <1>1, <1>2, <1>3 DEF Next
----------------------------------------------------------------------------
\* Whatever days the hours of a row come from, no hour is lost and none is
\* exported twice: when the file of a zappi or an eddi is written, its rows and
\* the records of the month add up to the same totals, those that are printed.
THEOREM NothingIsLost ==
    ASSUME Days \subseteq Nat, Amounts \subseteq Int, Metered = TRUE
    PROVE  Spec => [](closed =>
              /\ AddsUp(Read1b, Len(readings), total_boosted)
              /\ AddsUp(Boosted(export_data), Len(export_data), total_boosted)
              /\ AddsUp(Read1d, Len(readings), total_diverted)
              /\ AddsUp(Diverted(export_data), Len(export_data), total_diverted))
<1>1. Balanced => (closed =>
              /\ AddsUp(Read1b, Len(readings), total_boosted)
              /\ AddsUp(Boosted(export_data), Len(export_data), total_boosted)
              /\ AddsUp(Read1d, Len(readings), total_diverted)
              /\ AddsUp(Diverted(export_data), Len(export_data), total_diverted))
  BY DEF Balanced
<1>2. Init => Typed /\ Balanced /\ Ascending
  BY BooksInit
<1>3. Typed /\ Balanced /\ Ascending /\ [Next]_vars => Typed' /\ Balanced' /\ Ascending'
  BY BooksStep
<1> QED BY <1>1, <1>2, <1>3, PTL DEF Spec

\* No day has two rows, and the rows are in the order of the days.
THEOREM DaysAscend ==
    ASSUME Days \subseteq Nat, Amounts \subseteq Int, Metered = TRUE
    PROVE  Spec => [](\A i, j \in DOMAIN export_data :
                         i < j => export_data[i].dom < export_data[j].dom)
<1>1. Ascending => \A i, j \in DOMAIN export_data :
                       i < j => export_data[i].dom < export_data[j].dom
  BY DEF Ascending
<1>2. Init => Typed /\ Balanced /\ Ascending
  BY BooksInit
<1>3. Typed /\ Balanced /\ Ascending /\ [Next]_vars => Typed' /\ Balanced' /\ Ascending'
  BY BooksStep
<1> QED BY <1>1, <1>2, <1>3, PTL DEF Spec
============================================================================
