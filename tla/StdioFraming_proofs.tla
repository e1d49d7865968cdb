------------------------- MODULE StdioFraming_proofs -------------------------
(***************************************************************************)
(* Theorems about the reader of the language server's output, for every     *)
(* stream of messages and other bytes, cut into chunks anywhere.            *)
(***************************************************************************)
EXTENDS StdioFraming, Integers, TLAPS, WellFoundedInduction

-----------------------------------------------------------------------------
(***************************************************************************)
(* Least elements, which take the place of induction here: a claim about    *)
(* every number holds if the least one it fails for leads to a smaller one.   *)
(***************************************************************************)
\* A set of numbers has a least one.
LEMMA LeastNat ==
  ASSUME NEW T \in SUBSET Nat, T # {}
  PROVE  \E n \in T : \A m \in T : n <= m
<1> DEFINE R == {ss \in Nat \X Nat : ss[1] < ss[2]}
<1>1. IsWellFoundedOn(R, Nat)
  BY NatLessThanWellFounded DEF OpToRel
<1>2. PICK n \in T : \A m \in T : ~(<<m, n>> \in R)
  <2> HIDE DEF R
  <2> QED BY <1>1, WFMin
<1>3. \A m \in T : ~(m < n)
  BY <1>2
<1> QED BY <1>3

\* What Min() gives.
LEMMA MinIsLeast ==
  ASSUME NEW T \in SUBSET Nat, T # {}
  PROVE  Min(T) \in T /\ \A m \in T : Min(T) <= m
  BY LeastNat DEF Min

-----------------------------------------------------------------------------
(***************************************************************************)
(* The loop of #onData as a function.                                      *)
(***************************************************************************)
\* A pass looks only at what later passes find behind it.
LEMMA PassLooksAhead ==
  ASSUME NEW b \in Seq(Symbol), NEW p \in 0..Len(b), NEW f, NEW g,
         \A q \in (p + 1)..Len(b) : f[q] = g[q]
  PROVE  Pass(b, p, f) = Pass(b, p, g)
<1> DEFINE end == Min(EmptyLines(b, p))
           i == Min(LengthFields(b, p, end))
           n == b[i].n
<1>1. CASE EmptyLines(b, p) = {}
  BY <1>1 DEF Pass
<1>2. CASE EmptyLines(b, p) # {}
  <2>1. end \in p..(Len(b) - 2) /\ Len(b) \in Nat
    <3>1. EmptyLines(b, p) \in SUBSET Nat /\ EmptyLines(b, p) \subseteq p..(Len(b) - 2)
      BY DEF EmptyLines
    <3>2. end \in EmptyLines(b, p)
      BY <1>2, <3>1, MinIsLeast
    <3> QED BY <3>1, <3>2
  <2>2. f[end + 2] = g[end + 2]
    BY <2>1
  <2>3. CASE LengthFields(b, p, end) = {}
    BY <1>2, <2>2, <2>3 DEF Pass
  <2>4. CASE LengthFields(b, p, end) # {}
    <3>1. i \in (p + 1)..end /\ b[i].is = "length"
      <4>1. LengthFields(b, p, end) \in SUBSET Nat
        BY <2>1 DEF LengthFields
      <4>2. i \in LengthFields(b, p, end)
        BY <2>4, <4>1, MinIsLeast
      <4> QED BY <4>2 DEF LengthFields
    <3>2. n \in Nat
      <4>1. b[i] \in Symbol
        BY <2>1, <3>1
      <4> QED BY <3>1, <4>1 DEF Symbol
    <3>3. HasBody(b, end + 2, n) => f[end + 2 + n] = g[end + 2 + n]
      BY <2>1, <3>2 DEF HasBody
    <3> HIDE DEF end, n
    <3>4. ASSUME NEW h PROVE Pass(b, p, h) =
             IF ~HasBody(b, end + 2, n) THEN [bodies |-> <<>>, rest |-> p]
             ELSE [bodies |-> <<SubSeq(b, end + 3, end + 2 + n)>> \o h[end + 2 + n].bodies,
                   rest |-> h[end + 2 + n].rest]
      BY <1>2, <2>4 DEF Pass, end, n
    <3> QED BY <3>3, <3>4
  <2> QED BY <2>3, <2>4
<1> QED BY <1>1, <1>2

\* The function is there: its values are found from the end of the buffer on.
LEMMA PassesExist ==
  ASSUME NEW b \in Seq(Symbol)
  PROVE  \E f : f = [p \in 0..Len(b) |-> Pass(b, p, f)]
<1> DEFINE Good(d, f) == f = [p \in (Len(b) - d)..Len(b) |-> Pass(b, p, f)]
           Bad == {d \in 0..Len(b) : ~\E f : Good(d, f)}
<1>1. Len(b) \in Nat
  OBVIOUS
<1>2. SUFFICES ASSUME Bad # {} PROVE FALSE
  <2>1. PICK f : Good(Len(b), f)
    BY <1>1, <1>2
  <2>2. Len(b) - Len(b) = 0
    BY <1>1
  <2> QED BY <2>1, <2>2
<1>3. PICK d \in Bad : \A e \in Bad : d <= e
  <2>1. Bad \in SUBSET Nat
    <3> HIDE DEF Good
    <3> QED BY <1>1
  <2> HIDE DEF Bad
  <2> QED BY <1>2, <2>1, LeastNat
<1>4. PICK g : \A p \in (Len(b) - d + 1)..Len(b) : g[p] = Pass(b, p, g)
  <2>1. CASE d = 0
    BY <1>1, <2>1
  <2>2. CASE d # 0
    <3>1. d - 1 \in 0..Len(b) /\ ~(d - 1 \in Bad)
      <4> HIDE DEF Good
      <4> QED BY <1>1, <1>3, <2>2
    <3>2. PICK g : Good(d - 1, g)
      <4> HIDE DEF Good
      <4> QED BY <3>1
    <3>3. Len(b) - (d - 1) = Len(b) - d + 1
      BY <1>1, <3>1
    <3> QED BY <3>2, <3>3
  <2> QED BY <2>1, <2>2
<1> DEFINE top == Len(b) - d
           f == [p \in top..Len(b) |-> Pass(b, p, g)]
<1>5. top \in 0..Len(b)
  BY <1>1, <1>3
<1>6. \A p \in top..Len(b) : \A q \in (p + 1)..Len(b) : f[q] = g[q]
  BY <1>1, <1>4, <1>5
<1>7. \A p \in top..Len(b) : Pass(b, p, f) = Pass(b, p, g)
  <2> HIDE DEF f, top
  <2> SUFFICES ASSUME NEW p \in top..Len(b) PROVE Pass(b, p, f) = Pass(b, p, g)
    OBVIOUS
  <2>1. p \in 0..Len(b)
    BY <1>1, <1>5
  <2> QED BY <1>6, <2>1, PassLooksAhead
<1>8. Good(d, f)
  BY <1>7
<1> QED BY <1>3, <1>8

\* The equation the loop is written as holds for it.
LEMMA PassesUnfold ==
  ASSUME NEW b \in Seq(Symbol), NEW p \in 0..Len(b)
  PROVE  Passes(b)[p] = Pass(b, p, Passes(b))
<1>1. Passes(b) = [q \in 0..Len(b) |-> Pass(b, q, Passes(b))]
  BY PassesExist DEF Passes
<1> QED BY <1>1

-----------------------------------------------------------------------------
(***************************************************************************)
(* One pass over a buffer that is a part of the stream, from a position      *)
(* between two messages.                                                   *)
(***************************************************************************)
\* The part of s after its first m bytes, up to n.
LEMMA PartOf ==
  ASSUME NEW T, NEW s \in Seq(T), NEW m \in 0..Len(s), NEW n \in m..Len(s)
  PROVE  /\ SubSeq(s, m + 1, n) \in Seq(T)
         /\ Len(SubSeq(s, m + 1, n)) = n - m
         /\ \A i \in 1..(n - m) : SubSeq(s, m + 1, n)[i] = s[m + i]
  OBVIOUS

\* Where a message and its parts lie.
LEMMA PlacesInOrder ==
  ASSUME NEW s, NEW m \in Placed, LiesIn(s, m)
  PROVE  /\ m.start \in Nat /\ m.head \in Nat /\ m.end \in Nat
         /\ m.body \in Seq(Symbol) /\ Len(m.body) \in Nat
         /\ m.start + 2 < m.head /\ m.end = m.head + Len(m.body) /\ m.head <= m.end
         /\ m.start < m.end /\ m.end <= Len(s)
<1>1. /\ m.start \in Nat /\ m.head \in Nat /\ m.end \in Nat
      /\ m.body \in Seq(Symbol)
  BY DEF Placed
<1>2. Len(m.body) \in Nat
  BY <1>1
<1>3. m.start + 2 < m.head /\ m.end = m.head + Len(m.body) /\ m.end <= Len(s)
  BY DEF LiesIn
<1> QED BY <1>1, <1>2, <1>3

\* b holds the bytes of the stream from base to upto.
Holds(b, base, upto) ==
    /\ base \in Nat /\ upto \in Nat /\ base <= upto /\ upto <= Len(stream)
    /\ Len(b) = upto - base
    /\ \A i \in 1..(upto - base) : b[i] = stream[base + i]

\* What is known of the message behind a position between two of them.
LEMMA NextMessage ==
  ASSUME TypeOK, WellPlaced, NEW p \in Nat, NEW h, Between(p, h), h < Len(sent)
  PROVE  /\ sent[h + 1] \in Placed
         /\ LiesIn(stream, sent[h + 1])
         /\ p <= sent[h + 1].start
         /\ Between(sent[h + 1].end, h + 1)
<1>1. h \in Nat /\ h + 1 \in DOMAIN sent /\ Len(sent) \in Nat
  BY DEF TypeOK, Between
<1>2. sent[h + 1] \in Placed /\ LiesIn(stream, sent[h + 1]) /\ p <= sent[h + 1].start
  BY <1>1 DEF TypeOK, WellPlaced, Between
<1>3. h + 1 < Len(sent) => h + 2 \in DOMAIN sent
  BY <1>1 DEF TypeOK
<1>4. h + 1 < Len(sent) => sent[h + 1].end <= sent[h + 2].start
  BY <1>1, <1>3 DEF WellPlaced
<1>5. sent[h + 1].end \in Nat
  BY <1>2 DEF Placed
<1>6. (h + 1) + 1 = h + 2
  BY <1>1
<1>7. Between(sent[h + 1].end, h + 1)
  BY <1>1, <1>4, <1>5, <1>6 DEF Between
<1> QED BY <1>2, <1>7

\* No length is between messages.
LEMMA NoLengthBetween ==
  ASSUME TypeOK, WellPlaced, NEW p \in Nat, NEW h, Between(p, h),
         NEW i \in DOMAIN stream, i > p, h < Len(sent) => i <= sent[h + 1].start
  PROVE  stream[i].is # "length"
<1> SUFFICES ASSUME NEW k \in DOMAIN sent, i \in (sent[k].start + 1)..sent[k].end
             PROVE  FALSE
  BY DEF WellPlaced
<1>1. Len(sent) \in Nat /\ h \in 0..Len(sent) /\ DOMAIN sent = 1..Len(sent) /\ i \in Nat
  BY DEF TypeOK, Between
<1>2. \A j \in DOMAIN sent : sent[j] \in Placed /\ LiesIn(stream, sent[j])
  BY DEF TypeOK, WellPlaced
<1>3. \A j \in DOMAIN sent : sent[j].start \in Nat /\ sent[j].end \in Nat
  BY <1>2 DEF Placed
<1>4. CASE k <= h
  <2>1. h \in DOMAIN sent /\ sent[h].end <= p
    BY <1>1, <1>4 DEF Between
  <2>2. k = h \/ sent[k].end <= sent[h].start
    BY <1>1, <1>4, <2>1 DEF WellPlaced
  <2>3. sent[h].start <= sent[h].end
    BY <1>2, <1>3, <2>1, PlacesInOrder
  <2> QED BY <1>1, <1>3, <2>1, <2>2, <2>3
<1>5. CASE k > h
  <2>1. h + 1 \in DOMAIN sent /\ i <= sent[h + 1].start
    BY <1>1, <1>5
  <2>2. k = h + 1 \/ sent[h + 1].end <= sent[k].start
    BY <1>1, <1>5, <2>1 DEF WellPlaced
  <2>3. sent[h + 1].start <= sent[h + 1].end
    BY <1>2, <1>3, <2>1, PlacesInOrder
  <2> QED BY <1>1, <1>3, <2>1, <2>2, <2>3
<1> QED BY <1>1, <1>4, <1>5

\* The loop is at p in b, behind h messages.
Reading(b, base, upto, p, h) ==
    Holds(b, base, upto) /\ p \in 0..Len(b) /\ Between(base + p, h)

\* Where the next message starts and ends.
LEMMA NextPlaces ==
  ASSUME TypeOK, WellPlaced, NEW p \in Nat, NEW h, Between(p, h), h < Len(sent),
         NEW m, m = sent[h + 1]
  PROVE  /\ m.start \in Nat /\ m.head \in Nat /\ m.end \in Nat
         /\ p <= m.start /\ m.start + 2 < m.head /\ m.head <= m.end /\ m.end <= Len(stream)
         /\ stream[m.head - 1] = Eol /\ stream[m.head] = Eol
<1>1. m \in Placed /\ LiesIn(stream, m) /\ p <= m.start
  BY NextMessage
<1>2. /\ m.start \in Nat /\ m.head \in Nat /\ m.end \in Nat
      /\ m.start + 2 < m.head /\ m.head <= m.end /\ m.end <= Len(stream)
  BY <1>1, PlacesInOrder
<1>3. m.head - 1 \in (m.start + 1)..(m.head - 1) /\ m.head - 1 + 1 = m.head
  <2> DEFINE start == m.start
             head == m.head
  <2>1. start \in Nat /\ head \in Nat /\ start + 2 < head
    BY <1>2
  <2> HIDE DEF start, head
  <2>2. head - 1 \in (start + 1)..(head - 1) /\ head - 1 + 1 = head
    BY <2>1
  <2> QED BY <2>2 DEF start, head
<1>4. EmptyLineAt(stream, m.head - 1)
  BY <1>1, <1>3 DEF LiesIn
<1> QED BY <1>1, <1>2, <1>3, <1>4 DEF EmptyLineAt

\* The empty line that ends the next header is found if it is there.
LEMMA HeaderEndIsFound ==
  ASSUME TypeOK, WellPlaced, NEW b, NEW base, NEW upto, NEW p, NEW h, Reading(b, base, upto, p, h),
         h < Len(sent), sent[h + 1].head <= upto
  PROVE  sent[h + 1].head - 2 - base \in EmptyLines(b, p)
<1> DEFINE m == sent[h + 1]
           i == m.head - 2 - base
           size == Len(stream)
           l == Len(b)
<1>1. /\ base \in Nat /\ upto \in Nat /\ size \in Nat /\ base <= upto /\ upto <= size
      /\ l = upto - base /\ p \in 0..l
  BY DEF TypeOK, Holds, Reading
<1>2. \A k \in 1..(upto - base) : b[k] = stream[base + k]
  BY DEF Holds, Reading
<1> HIDE DEF l, size
<1>3. l \in Nat /\ p \in Nat /\ base + p \in Nat
  BY <1>1
<1>4. Between(base + p, h)
  BY DEF Reading
<1>5. /\ m.start \in Nat /\ m.head \in Nat /\ m.end \in Nat
      /\ base + p <= m.start /\ m.start + 2 < m.head /\ m.head <= m.end
      /\ stream[m.head - 1] = Eol /\ stream[m.head] = Eol
  BY <1>3, <1>4, NextPlaces
<1>6. m.head <= upto
  OBVIOUS
<1> HIDE DEF m
<1>7. i \in Int /\ base + (i + 1) = m.head - 1 /\ base + (i + 2) = m.head
  <2> DEFINE head == m.head
  <2>1. base \in Nat /\ head \in Nat
    BY <1>1, <1>5
  <2> HIDE DEF head
  <2>2. head - 2 - base \in Int
    BY <2>1
  <2>3. base + (head - 2 - base + 1) = head - 1 /\ base + (head - 2 - base + 2) = head
    BY <2>1
  <2> QED BY <2>2, <2>3 DEF head
<1> HIDE DEF i
<1>8. p <= i /\ i + 2 <= l
  BY <1>1, <1>3, <1>5, <1>6, <1>7
<1>9. i \in p..(l - 2) /\ i + 1 \in 1..(upto - base) /\ i + 2 \in 1..(upto - base)
  BY <1>1, <1>3, <1>7, <1>8
<1>10. b[i + 1] = Eol /\ b[i + 2] = Eol
  BY <1>2, <1>5, <1>7, <1>9
<1>11. i + 1 + 1 = i + 2
  BY <1>7
<1>12. EmptyLineAt(b, i + 1)
  BY <1>10, <1>11 DEF EmptyLineAt
<1> QED BY <1>9, <1>12 DEF EmptyLines, l, i, m

\* What the first empty line in b says of the stream.
LEMMA FirstInStream ==
  ASSUME TypeOK, NEW b, NEW base, NEW upto, NEW p, NEW h, Reading(b, base, upto, p, h),
         EmptyLines(b, p) # {}, NEW end, end = Min(EmptyLines(b, p))
  PROVE  /\ base \in Nat /\ upto \in Nat /\ p \in Nat /\ end \in Nat
         /\ p <= end /\ base + end + 2 <= upto /\ end \in p..(upto - base - 2)
         /\ stream[base + end + 1] = Eol /\ stream[base + end + 2] = Eol
         /\ \A i \in EmptyLines(b, p) : end <= i
<1> DEFINE l == Len(b)
<1>1. base \in Nat /\ upto \in Nat /\ base <= upto /\ l = upto - base /\ p \in 0..l
  BY DEF Holds, Reading
<1>2. \A k \in 1..(upto - base) : b[k] = stream[base + k]
  BY DEF Holds, Reading
<1>3. EmptyLines(b, p) = {i \in p..(l - 2) : EmptyLineAt(b, i + 1)}
  BY DEF EmptyLines
<1> HIDE DEF l
<1>4. l \in Nat /\ p \in Nat
  BY <1>1
<1>5. end \in EmptyLines(b, p) /\ \A i \in EmptyLines(b, p) : end <= i
  <2>1. EmptyLines(b, p) \in SUBSET Nat
    BY <1>3, <1>4
  <2> QED BY <2>1, MinIsLeast
<1>6. end \in p..(l - 2) /\ EmptyLineAt(b, end + 1)
  BY <1>3, <1>5
<1> HIDE DEF Reading
<1>7. end \in Nat /\ p <= end /\ base + end + 2 <= upto /\ end \in p..(upto - base - 2)
  BY <1>1, <1>4, <1>6
<1>8. /\ end + 1 \in 1..(upto - base) /\ end + 2 \in 1..(upto - base) /\ end + 1 + 1 = end + 2
      /\ base + (end + 1) = base + end + 1 /\ base + (end + 2) = base + end + 2
  BY <1>1, <1>7
<1>9. b[end + 1] = Eol /\ b[end + 2] = Eol
  BY <1>6, <1>8 DEF EmptyLineAt
<1> QED BY <1>1, <1>2, <1>4, <1>5, <1>7, <1>8, <1>9

\* Between the messages there is no length before it.
LEMMA FirstBetween ==
  ASSUME TypeOK, WellPlaced, NEW b, NEW base, NEW upto, NEW p, NEW h, Reading(b, base, upto, p, h),
         EmptyLines(b, p) # {}, NEW end, end = Min(EmptyLines(b, p)),
         h < Len(sent) => base + end + 2 <= sent[h + 1].start
  PROVE  LengthFields(b, p, end) = {} /\ Between(base + end + 2, h)
<1> DEFINE e == base + end
<1>1. /\ base \in Nat /\ upto \in Nat /\ p \in Nat /\ end \in Nat
      /\ p <= end /\ e + 2 <= upto
  BY FirstInStream
<1>2. base + p \in Nat /\ e \in Nat /\ base + p <= e
  BY <1>1
<1>3. Between(base + p, h)
  BY DEF Reading
<1> HIDE DEF e
<1>4. ASSUME NEW i \in LengthFields(b, p, end) PROVE FALSE
  <2> DEFINE j == base + i
  <2>1. i \in (p + 1)..end /\ b[i].is = "length"
    BY <1>4 DEF LengthFields
  <2>2. i \in Nat /\ j \in Nat /\ j > base + p /\ j <= e
    BY <1>1, <2>1 DEF e
  <2>3. i \in 1..(upto - base)
    BY <1>1, <2>1 DEF e
  <2>4. b[i] = stream[j] /\ upto <= Len(stream)
    BY <2>3 DEF Holds, Reading
  <2>5. j \in DOMAIN stream
    <3>1. j >= 1 /\ j <= upto
      BY <1>1, <1>2, <2>2
    <3> HIDE DEF j
    <3> QED BY <1>1, <2>2, <2>4, <3>1 DEF TypeOK
  <2> HIDE DEF j
  <2>6. h < Len(sent) => j <= sent[h + 1].start
    <3> SUFFICES ASSUME h < Len(sent) PROVE j <= sent[h + 1].start
      OBVIOUS
    <3> DEFINE m == sent[h + 1]
    <3>1. m.start \in Nat
      BY <1>2, <1>3, NextPlaces
    <3>2. e + 2 <= m.start
      BY DEF e
    <3> HIDE DEF m
    <3>3. j <= m.start
      BY <1>2, <2>2, <3>1, <3>2
    <3> QED BY <3>3 DEF m
  <2>7. stream[j].is # "length"
    BY <1>2, <1>3, <2>2, <2>5, <2>6, NoLengthBetween
  <2> QED BY <2>1, <2>4, <2>7
<1>5. Between(e + 2, h)
  <2>1. h \in 0..Len(sent)
    BY <1>3 DEF Between
  <2>2. ASSUME h > 0 PROVE sent[h].end <= e + 2
    <3>1. h \in DOMAIN sent
      BY <2>1, <2>2 DEF TypeOK
    <3>2. sent[h] \in Placed
      BY <3>1 DEF TypeOK
    <3>3. sent[h].end \in Nat
      BY <3>2 DEF Placed
    <3>4. sent[h].end <= base + p
      BY <1>3, <2>2 DEF Between
    <3> QED BY <1>2, <3>3, <3>4
  <2> QED BY <2>1, <2>2 DEF Between, e
<1> QED BY <1>4, <1>5 DEF e

\* Otherwise it ends the header of the next message, and the first length before
\* it is that of the body.
LEMMA FirstOfHeader ==
  ASSUME TypeOK, WellPlaced, NEW b, NEW base, NEW upto, NEW p, NEW h, Reading(b, base, upto, p, h),
         EmptyLines(b, p) # {}, NEW end, end = Min(EmptyLines(b, p)),
         h < Len(sent), ~(base + end + 2 <= sent[h + 1].start)
  PROVE  /\ base + end + 2 = sent[h + 1].head
         /\ LengthFields(b, p, end) # {}
         /\ b[Min(LengthFields(b, p, end))].n = Len(sent[h + 1].body)
<1> DEFINE e == base + end
           m == sent[h + 1]
<1>1. /\ base \in Nat /\ upto \in Nat /\ p \in Nat /\ end \in Nat
      /\ p <= end /\ e + 2 <= upto
      /\ stream[e + 1] = Eol /\ stream[e + 2] = Eol
      /\ \A i \in EmptyLines(b, p) : end <= i
  BY FirstInStream
<1>2. base + p \in Nat /\ e \in Nat /\ base + p <= e
  BY <1>1
<1>3. Between(base + p, h)
  BY DEF Reading
<1>4. /\ m.start \in Nat /\ m.head \in Nat /\ base + p <= m.start /\ m.start + 2 < m.head
  BY <1>2, <1>3, NextPlaces
<1>5. LiesIn(stream, m)
  BY <1>2, <1>3, NextMessage
<1>6. ~(e + 2 <= m.start)
  OBVIOUS
<1>7. m.head <= upto => m.head - 2 - base \in EmptyLines(b, p)
  BY HeaderEndIsFound
<1> HIDE DEF e, m
<1>8. e >= m.start + 1
  <2>1. stream[m.start + 1] # Eol
    BY <1>5 DEF LiesIn
  <2>2. e + 2 # m.start + 1 /\ e + 1 # m.start + 1
    BY <1>1, <2>1
  <2> QED BY <1>2, <1>4, <1>6, <2>2
<1>9. e + 2 <= m.head
  <2> SUFFICES ASSUME e + 2 > m.head PROVE FALSE
    BY <1>2, <1>4
  <2>1. m.head <= upto
    BY <1>1, <1>2, <1>4
  <2>2. end <= m.head - 2 - base
    BY <1>1, <1>7, <2>1
  <2> QED BY <1>1, <1>4, <2>2 DEF e
<1>10. e + 2 = m.head
  <2>1. e + 1 \in (m.start + 1)..(m.head - 1) /\ e + 1 + 1 = e + 2
    BY <1>2, <1>4, <1>8, <1>9
  <2>2. EmptyLineAt(stream, e + 1)
    BY <1>1, <2>1 DEF EmptyLineAt
  <2>3. e + 1 = m.head - 1
    BY <1>5, <2>1, <2>2 DEF LiesIn
  <2> QED BY <1>2, <1>4, <2>3
<1>11. \A i \in 1..(upto - base) : b[i] = stream[base + i]
  BY DEF Holds, Reading
<1>12. LengthFields(b, p, end) # {}
  <2>1. PICK i \in (m.start + 1)..m.head : stream[i].is = "length"
    BY <1>5 DEF LiesIn
  <2>2. i # e + 1 /\ i # e + 2
    BY <1>1, <2>1 DEF Eol
  <2>3. i \in Nat /\ i > base + p /\ i <= e
    BY <1>2, <1>4, <1>10, <2>2
  <2> DEFINE j == i - base
  <2>4. j \in Int /\ base + j = i /\ j > p /\ j <= end
    BY <1>1, <2>3 DEF e
  <2> HIDE DEF j
  <2>5. j \in (p + 1)..end
    BY <1>1, <2>4
  <2>6. j \in 1..(upto - base)
    BY <1>1, <2>4 DEF e
  <2>7. b[j].is = "length"
    BY <1>11, <2>1, <2>4, <2>6
  <2> QED BY <2>5, <2>7 DEF LengthFields
<1>13. b[Min(LengthFields(b, p, end))].n = Len(m.body)
  <2> DEFINE i == Min(LengthFields(b, p, end))
             j == base + i
  <2>1. i \in LengthFields(b, p, end)
    <3>1. LengthFields(b, p, end) \in SUBSET Nat
      BY <1>1 DEF LengthFields
    <3> QED BY <1>12, <3>1, MinIsLeast
  <2> HIDE DEF i
  <2>2. i \in (p + 1)..end /\ b[i].is = "length"
    BY <2>1 DEF LengthFields
  <2>3. i \in Nat /\ j \in Nat /\ j > base + p /\ j <= e
    BY <1>1, <2>2 DEF e
  <2>4. i \in 1..(upto - base)
    BY <1>1, <2>2 DEF e
  <2>5. b[i] = stream[j] /\ upto <= Len(stream)
    BY <2>4 DEF Holds, Reading
  <2>6. j \in DOMAIN stream
    <3>1. j >= 1 /\ j <= upto
      BY <1>1, <1>2, <2>3
    <3> HIDE DEF j
    <3>2. j \in 1..Len(stream)
      BY <1>1, <2>3, <2>5, <3>1 DEF TypeOK
    <3> QED BY <3>2 DEF TypeOK
  <2> HIDE DEF j
  <2>7. j > m.start
    <3> SUFFICES ASSUME j <= m.start PROVE FALSE
      BY <1>4, <2>3
    <3>1. j <= sent[h + 1].start
      BY DEF m
    <3> QED BY <1>2, <1>3, <2>2, <2>3, <2>5, <2>6, <3>1, NoLengthBetween
  <2>8. j \in (m.start + 1)..m.head
    BY <1>2, <1>4, <1>10, <2>3, <2>7
  <2>9. stream[j].n = Len(m.body)
    BY <1>5, <2>2, <2>5, <2>8 DEF LiesIn
  <2> QED BY <2>5, <2>9 DEF i
<1> QED BY <1>10, <1>12, <1>13 DEF e, m

-----------------------------------------------------------------------------
(***************************************************************************)
(* All passes.                                                             *)
(***************************************************************************)
\* From p, which is behind h messages, the loop finds the messages that follow up
\* to the last one that is whole, and stops behind it.
FindsWhole(b, base, upto, p, h) ==
    LET found == Passes(b)[p]
        count == Len(found.bodies)
    IN /\ found.bodies \in Seq(Seq(Symbol))
       /\ found.rest \in p..(upto - base)
       /\ \A i \in 1..count : found.bodies[i] = sent[h + i].body
       /\ Between(base + found.rest, h + count)
       /\ h + count < Len(sent) => upto < sent[h + count + 1].end

\* Sequences of the same elements are the same.
LEMMA SameSeq ==
  ASSUME NEW T, NEW s \in Seq(T), NEW t \in Seq(T), Len(s) = Len(t),
         \A i \in 1..Len(t) : s[i] = t[i]
  PROVE  s = t
  OBVIOUS

\* Putting one in front of what is found.
LEMMA OneMore ==
  ASSUME NEW T, NEW x \in T, NEW s \in Seq(T)
  PROVE  /\ <<x>> \o s \in Seq(T) /\ Len(<<x>> \o s) = Len(s) + 1 /\ Len(s) \in Nat
         /\ (<<x>> \o s)[1] = x
         /\ \A i \in 2..(Len(s) + 1) : (<<x>> \o s)[i] = s[i - 1]
  OBVIOUS

\* A pass that stops at p is behind the last whole message.
LEMMA PassStops ==
  ASSUME TypeOK, NEW b, NEW base, NEW upto, NEW p, NEW h, Reading(b, base, upto, p, h),
         Passes(b)[p] = [bodies |-> <<>>, rest |-> p],
         h < Len(sent) => upto < sent[h + 1].end
  PROVE  FindsWhole(b, base, upto, p, h)
<1> DEFINE found == Passes(b)[p]
<1>1. found.bodies = <<>> /\ found.rest = p
  OBVIOUS
<1>2. Len(found.bodies) = 0 /\ found.bodies \in Seq(Seq(Symbol))
  BY <1>1
<1>3. p \in p..(upto - base) /\ h \in Nat /\ h + 0 = h
  BY DEF Reading, Holds, Between, TypeOK
<1>4. Between(base + p, h)
  BY DEF Reading
<1> HIDE DEF found
<1>5. \A i \in 1..0 : found.bodies[i] = sent[h + i].body
  OBVIOUS
<1> QED BY <1>1, <1>2, <1>3, <1>4, <1>5 DEF FindsWhole, found

\* b holds the whole body of m, of n bytes, from k on.
HoldsBody(b, base, upto, m, k, n) ==
    /\ b \in Seq(Symbol) /\ Holds(b, base, upto) /\ m \in Placed /\ LiesIn(stream, m)
    /\ k \in Nat /\ base + k = m.head /\ n = Len(m.body) /\ m.end <= upto

\* What is cut out of b for a message is its body.
LEMMA BodyIsCut ==
  ASSUME TypeOK, NEW b, NEW base, NEW upto, NEW m, NEW k, NEW n,
         HoldsBody(b, base, upto, m, k, n)
  PROVE  SubSeq(b, k + 1, k + n) = m.body
<1>1. b \in Seq(Symbol) /\ Holds(b, base, upto) /\ m \in Placed /\ LiesIn(stream, m)
  BY DEF HoldsBody
<1>2. k \in Nat /\ base + k = m.head /\ n = Len(m.body) /\ m.end <= upto
  BY DEF HoldsBody
<1> DEFINE q == k + n
           l == Len(b)
           size == Len(stream)
<1>3. base \in Nat /\ upto \in Nat /\ base <= upto /\ upto <= size /\ size \in Nat /\ l = upto - base
  BY <1>1 DEF TypeOK, Holds
<1>4. /\ m.head \in Nat /\ m.end \in Nat /\ n \in Nat /\ m.end = m.head + n
      /\ m.body \in Seq(Symbol)
  BY <1>1, <1>2, PlacesInOrder
<1> HIDE DEF l, size
<1>5. q \in Nat /\ k <= q /\ q - k = n
  BY <1>4, <1>2
<1>6. base + q = m.end
  BY <1>3, <1>4, <1>2
<1> HIDE DEF q
<1>7. q <= l
  BY <1>3, <1>4, <1>5, <1>6, <1>2
<1>8. k \in 0..l /\ q \in k..l
  BY <1>3, <1>5, <1>7, <1>2
<1>9. m.head <= m.end /\ m.end <= size
  BY <1>3, <1>4, <1>2
<1>10. m.head \in 0..size /\ m.end \in m.head..size /\ m.end - m.head = n
  BY <1>3, <1>4, <1>9
<1>11. /\ SubSeq(b, k + 1, q) \in Seq(Symbol) /\ Len(SubSeq(b, k + 1, q)) = q - k
      /\ \A i \in 1..(q - k) : SubSeq(b, k + 1, q)[i] = b[k + i]
  BY <1>8, <1>1, PartOf DEF l
<1>12. \A i \in 1..n : m.body[i] = stream[m.head + i]
  <2>1. m.head \in 0..Len(stream) /\ m.end \in m.head..Len(stream) /\ stream \in Seq(Symbol)
    BY <1>10 DEF size, TypeOK
  <2> DEFINE head == m.head
             end == m.end
  <2> HIDE DEF head, end
  <2>2. \A i \in 1..(end - head) : SubSeq(stream, head + 1, end)[i] = stream[head + i]
    BY <2>1, PartOf DEF head, end
  <2>3. m.body = SubSeq(stream, head + 1, end) /\ end - head = n
    BY <1>10, <1>1 DEF LiesIn, head, end
  <2> QED BY <2>2, <2>3 DEF head
<1>13. ASSUME NEW i \in 1..n PROVE b[k + i] = stream[m.head + i]
  <2>1. k + i \in Nat /\ k + i >= 1 /\ k + i <= q
    BY <1>4, <1>5, <1>2
  <2>2. k + i \in 1..(upto - base)
    BY <1>3, <1>5, <1>7, <2>1
  <2>3. base + (k + i) = m.head + i
    BY <1>3, <1>4, <1>2
  <2> QED BY <1>1, <2>2, <2>3 DEF Holds
<1>14. \A i \in 1..Len(m.body) : SubSeq(b, k + 1, q)[i] = m.body[i]
  BY <1>5, <1>11, <1>12, <1>13, <1>2
<1> QED BY <1>4, <1>5, <1>11, <1>14, <1>2, SameSeq DEF q

\* A pass that takes the next message finds what the passes behind it find, too.
LEMMA PassTakes ==
  ASSUME TypeOK, NEW b, NEW base, NEW upto, NEW p, NEW h, Reading(b, base, upto, p, h),
         NEW q \in (p + 1)..(upto - base), FindsWhole(b, base, upto, q, h + 1),
         sent[h + 1].body \in Seq(Symbol),
         Passes(b)[p].bodies = <<sent[h + 1].body>> \o Passes(b)[q].bodies,
         Passes(b)[p].rest = Passes(b)[q].rest
  PROVE  FindsWhole(b, base, upto, p, h)
<1> DEFINE first == Passes(b)[p].bodies
           later == Passes(b)[q].bodies
           rest == Passes(b)[q].rest
           count == Len(later)
           x == sent[h + 1].body
<1>1. /\ later \in Seq(Seq(Symbol)) /\ rest \in q..(upto - base)
      /\ \A i \in 1..count : later[i] = sent[h + 1 + i].body
      /\ Between(base + rest, h + 1 + count)
      /\ h + 1 + count < Len(sent) => upto < sent[h + 1 + count + 1].end
  BY DEF FindsWhole
<1>2. first = <<x>> \o later /\ Passes(b)[p].rest = rest /\ x \in Seq(Symbol)
  OBVIOUS
<1>3. p \in Nat /\ base \in Nat /\ upto \in Nat /\ h \in Nat
  BY DEF Reading, Holds, Between, TypeOK
<1> HIDE DEF first, later, rest, x
<1>4. /\ first \in Seq(Seq(Symbol)) /\ Len(first) = count + 1 /\ count \in Nat
      /\ first[1] = x
      /\ \A i \in 2..(count + 1) : first[i] = later[i - 1]
  BY <1>1, <1>2, OneMore
<1> HIDE DEF count
<1>5. rest \in p..(upto - base)
  BY <1>1, <1>3
<1>6. ASSUME NEW i \in 1..(count + 1) PROVE first[i] = sent[h + i].body
  <2>1. CASE i = 1
    BY <1>4, <2>1 DEF x
  <2>2. CASE i # 1
    <3>1. i \in 2..(count + 1) /\ i - 1 \in 1..count /\ h + 1 + (i - 1) = h + i
      BY <1>3, <1>4, <2>2
    <3> QED BY <1>1, <1>4, <3>1
  <2> QED BY <2>1, <2>2
<1>7. h + 1 + count = h + (count + 1)
  BY <1>3, <1>4
<1>8. /\ Between(base + rest, h + (count + 1))
      /\ h + (count + 1) < Len(sent) => upto < sent[h + (count + 1) + 1].end
  BY <1>1, <1>7
<1> QED BY <1>2, <1>4, <1>5, <1>6, <1>8 DEF FindsWhole, first

\* One pass finds the whole messages, if the passes after it do.
LEMMA PassFindsWhole ==
  ASSUME TypeOK, WellPlaced, NEW b \in Seq(Symbol), NEW base, NEW upto, NEW p, NEW h,
         Reading(b, base, upto, p, h),
         \A q \in (p + 1)..(upto - base) : \A g \in 0..Len(sent) :
           Reading(b, base, upto, q, g) => FindsWhole(b, base, upto, q, g)
  PROVE  FindsWhole(b, base, upto, p, h)
<1> DEFINE end == Min(EmptyLines(b, p))
           n == b[Min(LengthFields(b, p, end))].n
           m == sent[h + 1]
           l == Len(b)
           size == Len(stream)
<1>1. /\ base \in Nat /\ upto \in Nat /\ base <= upto /\ l = upto - base
      /\ upto <= size /\ size \in Nat /\ p \in 0..l
      /\ Holds(b, base, upto) /\ Between(base + p, h)
  BY DEF Reading, Holds, TypeOK
<1>2. Passes(b)[p] = Pass(b, p, Passes(b))
  BY <1>1, PassesUnfold
<1>3. h \in 0..Len(sent) /\ (h < Len(sent) => h + 1 \in 0..Len(sent))
  BY <1>1 DEF Between, TypeOK
<1> HIDE DEF l, size
<1>4. l \in Nat /\ p \in Nat /\ base + p \in Nat
  BY <1>1
<1>5. \A q, g : q \in p..l /\ Between(base + q, g) => Reading(b, base, upto, q, g)
  BY <1>1, <1>4 DEF Reading, l
<1>6. CASE EmptyLines(b, p) = {}
  <2>1. Passes(b)[p] = [bodies |-> <<>>, rest |-> p]
    BY <1>2, <1>6 DEF Pass
  <2>2. ASSUME h < Len(sent) PROVE upto < m.end
    <3>1. m.head \in Nat /\ m.end \in Nat /\ m.head <= m.end
      BY <1>1, <1>4, <2>2, NextPlaces
    <3>2. ~(m.head <= upto)
      BY <1>6, <2>2, HeaderEndIsFound
    <3> HIDE DEF m
    <3> QED BY <1>1, <3>1, <3>2
  <2> QED BY <2>1, <2>2, PassStops
<1>7. CASE EmptyLines(b, p) # {}
  <2>1. end \in Nat /\ p <= end /\ base + end + 2 <= upto
    BY <1>7, FirstInStream
  <2>2. CASE h < Len(sent) => base + end + 2 <= m.start
    <3>1. LengthFields(b, p, end) = {} /\ Between(base + end + 2, h)
      BY <1>7, <2>2, FirstBetween
    <3>2. Passes(b)[p] = Passes(b)[end + 2]
      BY <1>2, <1>7, <3>1 DEF Pass
    <3> HIDE DEF end
    <3>3. base + end + 2 = base + (end + 2) /\ end + 2 \in p..l /\ end + 2 \in (p + 1)..(upto - base)
      BY <1>1, <1>4, <2>1
    <3>4. FindsWhole(b, base, upto, end + 2, h)
      BY <1>3, <1>5, <3>1, <3>3
    <3>5. (end + 2)..(upto - base) \subseteq p..(upto - base)
      BY <1>1, <1>4, <2>1
    <3> QED BY <3>2, <3>4, <3>5 DEF FindsWhole
  <2>3. CASE h < Len(sent) /\ ~(base + end + 2 <= m.start)
    <3> DEFINE q == end + 2 + n
    <3>1. base + end + 2 = m.head /\ LengthFields(b, p, end) # {} /\ n = Len(m.body)
      BY <1>7, <2>3, FirstOfHeader
    <3>2. Passes(b)[p] =
            IF ~HasBody(b, end + 2, n) THEN [bodies |-> <<>>, rest |-> p]
            ELSE [bodies |-> <<SubSeq(b, end + 3, q)>> \o Passes(b)[q].bodies,
                  rest |-> Passes(b)[q].rest]
      BY <1>2, <1>7, <3>1 DEF Pass
    <3>3. m \in Placed /\ LiesIn(stream, m) /\ Between(m.end, h + 1)
      BY <1>1, <1>4, <2>3, NextMessage
    <3> HIDE DEF m, n, end
    <3>4. m.head \in Nat /\ m.end \in Nat /\ n \in Nat /\ m.end = m.head + n
          /\ m.body \in Seq(Symbol)
      BY <3>1, <3>3, PlacesInOrder
    <3>5. q \in Nat /\ base + q = m.end /\ q > p /\ base + (end + 2) = m.head
      <4>1. base + (end + 2) = m.head /\ q \in Nat /\ q > p
        <5>1. base + (end + 2) = base + end + 2
          BY <1>1, <2>1
        <5>2. q \in Nat /\ q > p
          BY <1>4, <2>1, <3>4
        <5> QED BY <3>1, <5>1, <5>2
      <4>2. base + q = base + (end + 2) + n
        BY <1>1, <2>1, <3>4
      <4> QED BY <3>4, <4>1, <4>2
    <3>6. HasBody(b, end + 2, n) <=> l >= q
      BY DEF HasBody, l
    <3>7. l >= q <=> m.end <= upto
      <4> HIDE DEF q
      <4> QED BY <1>1, <1>4, <3>4, <3>5
    <3>8. CASE ~HasBody(b, end + 2, n)
      <4>1. upto < m.end
        BY <1>1, <3>4, <3>6, <3>7, <3>8
      <4> QED BY <3>2, <3>8, <4>1, PassStops DEF m
    <3>9. CASE HasBody(b, end + 2, n)
      <4>1. q \in p..l /\ q \in (p + 1)..(upto - base)
        <5> HIDE DEF q
        <5> QED BY <1>1, <1>4, <3>5, <3>6, <3>9
      <4>2. SubSeq(b, end + 3, q) = m.body
        <5>1. end + 2 \in Nat /\ (end + 2) + 1 = end + 3 /\ m.end <= upto
          BY <2>1, <3>6, <3>7, <3>9
        <5>2. SubSeq(b, (end + 2) + 1, (end + 2) + n) = m.body
          <6> DEFINE k == end + 2
          <6>1. k \in Nat /\ base + k = m.head /\ m.end <= upto /\ n = Len(m.body)
            BY <3>1, <3>5, <5>1
          <6> HIDE DEF k
          <6>2. HoldsBody(b, base, upto, m, k, n)
            BY <1>1, <3>3, <6>1 DEF HoldsBody
          <6>3. SubSeq(b, k + 1, k + n) = m.body
            BY <6>2, BodyIsCut
          <6> QED BY <6>3 DEF k
        <5> QED BY <5>1, <5>2
      <4> HIDE DEF q
      <4>3. FindsWhole(b, base, upto, q, h + 1)
        BY <1>3, <1>5, <2>3, <3>3, <3>5, <4>1
      <4>4. /\ Passes(b)[p].bodies = <<m.body>> \o Passes(b)[q].bodies
            /\ Passes(b)[p].rest = Passes(b)[q].rest
        <5> DEFINE cut == SubSeq(b, end + 3, q)
                   later == Passes(b)[q]
        <5>1. Passes(b)[p] = [bodies |-> <<cut>> \o later.bodies, rest |-> later.rest]
          BY <3>2, <3>9
        <5>2. cut = m.body
          BY <4>2
        <5> HIDE DEF cut, later
        <5>3. Passes(b)[p].bodies = <<m.body>> \o later.bodies /\ Passes(b)[p].rest = later.rest
          BY <5>1, <5>2
        <5> QED BY <5>3 DEF later
      <4> QED BY <3>4, <4>1, <4>3, <4>4, PassTakes DEF m
    <3> QED BY <3>8, <3>9
  <2> QED BY <2>2, <2>3
<1> QED BY <1>6, <1>7

\* So does the loop: there is no last place from which it does not.
LEMMA LoopFindsWhole ==
  ASSUME TypeOK, WellPlaced, NEW b \in Seq(Symbol), NEW base, NEW upto, NEW p, NEW h,
         Reading(b, base, upto, p, h)
  PROVE  FindsWhole(b, base, upto, p, h)
<1> DEFINE l == upto - base
           Fails(q) == \E g \in 0..Len(sent) : /\ Reading(b, base, upto, q, g)
                                               /\ ~FindsWhole(b, base, upto, q, g)
           Bad == {d \in 0..l : Fails(l - d)}
<1>1. l \in Nat /\ p \in 0..l /\ h \in 0..Len(sent)
  BY DEF Reading, Holds, Between
<1>2. SUFFICES ASSUME Fails(p) PROVE FALSE
  BY <1>1
<1> HIDE DEF Fails, l
<1>3. l - p \in Bad
  <2>1. l - p \in 0..l /\ l - (l - p) = p
    BY <1>1
  <2> QED BY <1>2, <2>1
<1>4. PICK d \in Bad : \A e \in Bad : d <= e
  <2>1. Bad \in SUBSET Nat
    BY <1>1
  <2> HIDE DEF Bad
  <2> QED BY <1>3, <2>1, LeastNat
<1> DEFINE q == l - d
<1>5. d \in 0..l /\ Fails(q)
  BY <1>4
<1>6. \A r \in (q + 1)..l : ~Fails(r)
  <2> SUFFICES ASSUME NEW r \in (q + 1)..l, Fails(r) PROVE FALSE
    OBVIOUS
  <2>1. l - r \in 0..l /\ l - (l - r) = r /\ l - r < d
    BY <1>1, <1>5
  <2>2. l - r \in Bad
    BY <2>1
  <2> HIDE DEF Bad
  <2>3. d <= l - r
    BY <1>4, <2>2
  <2> QED BY <1>1, <1>5, <2>1, <2>3
<1> HIDE DEF q
<1>7. PICK g \in 0..Len(sent) : Reading(b, base, upto, q, g) /\ ~FindsWhole(b, base, upto, q, g)
  BY <1>5 DEF Fails
<1>8. \A r \in (q + 1)..(upto - base) : \A f \in 0..Len(sent) :
        Reading(b, base, upto, r, f) => FindsWhole(b, base, upto, r, f)
  BY <1>6 DEF Fails, l
<1> QED BY <1>7, <1>8, PassFindsWhole

-----------------------------------------------------------------------------
(***************************************************************************)
(* What is written.                                                        *)
(***************************************************************************)
\* Writing behind s.
LEMMA Behind ==
  ASSUME NEW T, NEW s \in Seq(T), NEW t \in Seq(T)
  PROVE  /\ s \o t \in Seq(T) /\ Len(s \o t) = Len(s) + Len(t)
         /\ Len(s) \in Nat /\ Len(t) \in Nat
         /\ \A i \in 1..Len(s) : (s \o t)[i] = s[i]
         /\ \A i \in 1..Len(t) : (s \o t)[Len(s) + i] = t[i]
  OBVIOUS

\* A part of s is the same part of what s becomes.
LEMMA PartStays ==
  ASSUME NEW T, NEW s \in Seq(T), NEW t \in Seq(T), NEW m \in 0..Len(s), NEW n \in m..Len(s)
  PROVE  SubSeq(s \o t, m + 1, n) = SubSeq(s, m + 1, n)
<1>1. /\ s \o t \in Seq(T) /\ Len(s \o t) = Len(s) + Len(t) /\ Len(s) \in Nat /\ Len(t) \in Nat
      /\ \A i \in 1..Len(s) : (s \o t)[i] = s[i]
  BY Behind
<1>2. m \in 0..Len(s \o t) /\ n \in m..Len(s \o t)
  BY <1>1
<1> DEFINE whole == s \o t
<1> HIDE DEF whole
<1>3. /\ SubSeq(whole, m + 1, n) \in Seq(T) /\ Len(SubSeq(whole, m + 1, n)) = n - m
      /\ \A i \in 1..(n - m) : SubSeq(whole, m + 1, n)[i] = whole[m + i]
  BY <1>1, <1>2, PartOf DEF whole
<1>4. /\ SubSeq(s, m + 1, n) \in Seq(T) /\ Len(SubSeq(s, m + 1, n)) = n - m
      /\ \A i \in 1..(n - m) : SubSeq(s, m + 1, n)[i] = s[m + i]
  BY PartOf
<1>5. \A i \in 1..(n - m) : m + i \in 1..Len(s)
  BY <1>1
<1>6. \A i \in 1..(n - m) : whole[m + i] = s[m + i]
  BY <1>1, <1>5 DEF whole
<1>7. SubSeq(whole, m + 1, n) = SubSeq(s, m + 1, n)
  BY <1>3, <1>4, <1>6, SameSeq
<1> QED BY <1>7 DEF whole

\* A message stays where it is.
LEMMA LiesInLonger ==
  ASSUME NEW s \in Seq(Symbol), NEW t \in Seq(Symbol), NEW m \in Placed, LiesIn(s, m)
  PROVE  LiesIn(s \o t, m)
<1> DEFINE whole == s \o t
<1>1. /\ whole \in Seq(Symbol) /\ Len(whole) = Len(s) + Len(t) /\ Len(s) \in Nat /\ Len(t) \in Nat
      /\ \A i \in 1..Len(s) : whole[i] = s[i]
  BY Behind
<1>2. /\ m.start \in Nat /\ m.head \in Nat /\ m.end \in Nat /\ Len(m.body) \in Nat
      /\ m.start + 2 < m.head /\ m.end = m.head + Len(m.body) /\ m.head <= m.end
      /\ m.start < m.end /\ m.end <= Len(s)
  BY PlacesInOrder
<1>3. m.body = SubSeq(whole, m.head + 1, m.end)
  <2> DEFINE head == m.head
             end == m.end
  <2>1. head \in 0..Len(s) /\ end \in head..Len(s)
    BY <1>1, <1>2
  <2> HIDE DEF head, end
  <2>2. SubSeq(whole, head + 1, end) = SubSeq(s, head + 1, end)
    BY <2>1, PartStays
  <2>3. m.body = SubSeq(s, head + 1, end)
    BY DEF LiesIn, head, end
  <2> QED BY <2>2, <2>3 DEF head, end
<1> HIDE DEF whole
<1>4. \A i \in (m.start + 1)..m.head : i \in 1..Len(s) /\ whole[i] = s[i]
  <2> DEFINE start == m.start
             head == m.head
             l == Len(s)
  <2>1. start \in Nat /\ head \in Nat /\ l \in Nat /\ head <= l
    BY <1>1, <1>2
  <2> HIDE DEF start, head, l
  <2>2. \A i \in (start + 1)..head : i \in 1..l
    BY <2>1
  <2> QED BY <1>1, <2>2 DEF start, head, l
<1>5. whole[m.start + 1] # Eol
  <2>1. m.start + 1 \in (m.start + 1)..m.head
    BY <1>2
  <2> QED BY <1>4, <2>1 DEF LiesIn
<1>6. \A i \in (m.start + 1)..(m.head - 1) : EmptyLineAt(whole, i) <=> i = m.head - 1
  <2> SUFFICES ASSUME NEW i \in (m.start + 1)..(m.head - 1)
               PROVE  EmptyLineAt(whole, i) <=> i = m.head - 1
    OBVIOUS
  <2>1. i \in (m.start + 1)..m.head /\ i + 1 \in (m.start + 1)..m.head
    BY <1>2
  <2>2. EmptyLineAt(whole, i) <=> EmptyLineAt(s, i)
    BY <1>4, <2>1 DEF EmptyLineAt
  <2> QED BY <2>2 DEF LiesIn
<1>7. \E i \in (m.start + 1)..m.head : whole[i].is = "length"
  BY <1>4 DEF LiesIn
<1>8. \A i \in (m.start + 1)..m.head : whole[i].is = "length" => whole[i].n = Len(m.body)
  BY <1>4 DEF LiesIn
<1>9. m.end <= Len(whole)
  BY <1>1, <1>2
<1> QED BY <1>2, <1>3, <1>5, <1>6, <1>7, <1>8, <1>9 DEF LiesIn, whole

\* A message that is written lies behind what there was.
LEMMA LiesInNew ==
  ASSUME NEW s \in Seq(Symbol), NEW m \in Message
  PROVE  /\ PlacedAfter(s, m) \in Placed
         /\ PlacedAfter(s, m).start = Len(s)
         /\ PlacedAfter(s, m).end = Len(s) + Len(m.header \o m.body)
         /\ LiesIn(s \o (m.header \o m.body), PlacedAfter(s, m))
<1> DEFINE h == m.header
           t == h \o m.body
           whole == s \o t
           d == PlacedAfter(s, m)
<1>1. /\ h \in Seq(Symbol) /\ m.body \in Seq(Symbol)
      /\ IsHeader(h, Len(m.body))
  BY MessageAssumption
<1> HIDE DEF h
<1>2. t \in Seq(Symbol)
  BY <1>1
<1>3. Len(t) = Len(h) + Len(m.body) /\ Len(h) \in Nat /\ Len(m.body) \in Nat
  BY <1>1, Behind
<1>4. /\ \A i \in 1..Len(h) : t[i] = h[i]
      /\ \A i \in 1..Len(m.body) : t[Len(h) + i] = m.body[i]
  BY <1>1, Behind
<1> HIDE DEF t
<1>5. whole \in Seq(Symbol)
  BY <1>2
<1>6. Len(whole) = Len(s) + Len(t) /\ Len(s) \in Nat /\ Len(t) \in Nat
  BY <1>2, Behind
<1>7. \A i \in 1..Len(t) : whole[Len(s) + i] = t[i]
  BY <1>2, Behind
<1> HIDE DEF whole
<1> DEFINE ls == Len(s)
           lh == Len(h)
           lb == Len(m.body)
<1>8. ls \in Nat /\ lh \in Nat /\ lb \in Nat /\ Len(t) = lh + lb /\ Len(whole) = ls + (lh + lb)
  BY <1>3, <1>6
<1>9. /\ d.start = ls /\ d.head = ls + lh
      /\ d.end = ls + lh + lb /\ d.body = m.body
  BY DEF PlacedAfter, h
<1>10. d \in Placed
  <2>1. ls \in Nat /\ ls + lh \in Nat /\ ls + lh + lb \in Nat
    <3> HIDE DEF ls, lh, lb
    <3> QED BY <1>8
  <2> QED BY <1>1, <2>1 DEF PlacedAfter, Placed, h
<1>11. d.start + 2 < d.head <=> lh > 2
  <2> HIDE DEF ls, lh, lb, d
  <2> QED BY <1>9, <1>8
<1>12. d.body = m.body /\ Len(d.body) = lb
  BY <1>9
<1> HIDE DEF d
<1> HIDE DEF ls, lh, lb
<1>13. lh > 2 /\ h[1] # Eol
  BY <1>1 DEF IsHeader, lh
<1>14. \A i \in (d.start + 1)..d.head : /\ i - ls \in 1..lh
                                       /\ whole[i] = h[i - ls]
  <2> SUFFICES ASSUME NEW i \in (d.start + 1)..d.head
               PROVE  i - ls \in 1..lh /\ whole[i] = h[i - ls]
    OBVIOUS
  <2>1. i - ls \in 1..lh /\ i - ls \in 1..Len(t) /\ ls + (i - ls) = i
    BY <1>9, <1>8
  <2>2. whole[ls + (i - ls)] = t[i - ls]
    BY <1>7, <2>1 DEF ls
  <2> QED BY <1>4, <2>1, <2>2 DEF lh
<1>15. d.start + 2 < d.head /\ d.end = d.head + Len(d.body) /\ d.end <= Len(whole)
  BY <1>9, <1>8, <1>11, <1>12, <1>13
<1>16. whole[d.start + 1] # Eol
  <2> DEFINE i == d.start + 1
  <2>1. i \in (d.start + 1)..d.head
    BY <1>9, <1>8, <1>13
  <2>2. i - ls = 1
    BY <1>9, <1>8
  <2> HIDE DEF i
  <2>3. whole[i] = h[i - ls]
    BY <1>14, <2>1
  <2>4. whole[d.start + 1] = h[1]
    BY <2>3, <2>2 DEF i
  <2> QED BY <1>13, <2>4
<1>17. \A i \in (d.start + 1)..(d.head - 1) : EmptyLineAt(whole, i) <=> i = d.head - 1
  <2> SUFFICES ASSUME NEW i \in (d.start + 1)..(d.head - 1)
               PROVE  EmptyLineAt(whole, i) <=> i = d.head - 1
    OBVIOUS
  <2>1. /\ i \in (d.start + 1)..d.head /\ i + 1 \in (d.start + 1)..d.head
        /\ (i + 1) - ls = (i - ls) + 1 /\ i - ls \in 1..(lh - 1)
    BY <1>9, <1>8
  <2>2. EmptyLineAt(whole, i) <=> EmptyLineAt(h, i - ls)
    BY <1>14, <2>1 DEF EmptyLineAt
  <2>3. EmptyLineAt(h, i - ls) <=> i - ls = lh - 1
    BY <1>1, <2>1 DEF IsHeader, lh
  <2>4. i - ls = lh - 1 <=> i = d.head - 1
    BY <1>9, <1>8
  <2> QED BY <2>2, <2>3, <2>4
<1>18. \E i \in (d.start + 1)..d.head : whole[i].is = "length"
  <2>1. PICK j \in 1..lh : h[j].is = "length"
    BY <1>1 DEF IsHeader, lh
  <2>2. ls + j \in (d.start + 1)..d.head /\ (ls + j) - ls = j
    BY <1>9, <1>8
  <2>3. whole[ls + j] = h[j]
    BY <1>14, <2>2
  <2> QED BY <2>1, <2>2, <2>3
<1>19. \A i \in (d.start + 1)..d.head : whole[i].is = "length" => whole[i].n = Len(d.body)
  BY <1>1, <1>14, <1>12 DEF IsHeader, lh, lb
<1>20. d.body = SubSeq(whole, d.head + 1, d.end)
  <2>1. d.head \in 0..Len(whole) /\ d.end \in d.head..Len(whole) /\ d.end - d.head = lb
    BY <1>9, <1>8
  <2>2. /\ SubSeq(whole, d.head + 1, d.end) \in Seq(Symbol)
        /\ Len(SubSeq(whole, d.head + 1, d.end)) = d.end - d.head
        /\ \A i \in 1..(d.end - d.head) : SubSeq(whole, d.head + 1, d.end)[i] = whole[d.head + i]
    BY <1>5, <2>1, PartOf
  <2>3. \A i \in 1..lb : whole[d.head + i] = m.body[i]
    <3> SUFFICES ASSUME NEW i \in 1..lb PROVE whole[d.head + i] = m.body[i]
      OBVIOUS
    <3>1. lh + i \in 1..Len(t) /\ d.head + i = ls + (lh + i)
      BY <1>9, <1>8
    <3> QED BY <1>4, <1>7, <3>1 DEF ls, lh, lb
  <2>4. SubSeq(whole, d.head + 1, d.end) = m.body
    BY <1>1, <2>1, <2>2, <2>3, SameSeq DEF lb
  <2> QED BY <1>9, <2>4
<1>21. LiesIn(whole, d)
  BY <1>15, <1>16, <1>17, <1>18, <1>19, <1>20 DEF LiesIn
<1>22. d.end = ls + Len(t)
  BY <1>9, <1>8
<1> QED BY <1>9, <1>10, <1>21, <1>22 DEF d, t, h, whole, ls

-----------------------------------------------------------------------------
(***************************************************************************)
(* The invariant.                                                          *)
(***************************************************************************)
LEMMA FramingInit == Init => FramingInv
<1> SUFFICES ASSUME Init PROVE FramingInv
  OBVIOUS
<1>1. TypeOK
  BY MaxItemsAssumption DEF Init, TypeOK
<1>2. WellPlaced
  BY DEF Init, WellPlaced
<1>3. BufferIsTheRest
  <2>1. SubSeq(stream, arrived - Len(buf) + 1, arrived) = <<>> /\ Len(buf) = 0 /\ Len(sent) = 0
        /\ Len(handled) = 0 /\ arrived = 0
    BY DEF Init
  <2> QED BY <2>1 DEF Init, BufferIsTheRest, Between
<1>4. HandledAsSent
  BY DEF Init, HandledAsSent
<1> QED BY <1>1, <1>2, <1>3, <1>4 DEF FramingInv

\* The bytes are put behind the stream, with at most one message in them, and no
\* length outside of it.
Writes(bytes) ==
    /\ bytes \in Seq(Symbol) /\ stream' = stream \o bytes
    /\ UNCHANGED readerVars
    /\ items' \in 0..MaxItems
    /\ sent' \in Seq(Placed) /\ Len(sent') \in {Len(sent), Len(sent) + 1}
    /\ \A k \in DOMAIN sent : sent'[k] = sent[k]
    /\ Len(sent') > Len(sent) =>
         /\ LiesIn(stream', sent'[Len(sent')])
         /\ sent'[Len(sent')].start = Len(stream)
    /\ \A i \in DOMAIN bytes : bytes[i].is = "length" =>
         /\ Len(sent') > Len(sent)
         /\ Len(stream) + i \in (sent'[Len(sent')].start + 1)..sent'[Len(sent')].end

\* That keeps the invariant.
LEMMA WritesKeeps ==
  ASSUME FramingInv, NEW bytes, Writes(bytes)
  PROVE  FramingInv'
<1>1. bytes \in Seq(Symbol) /\ stream' = stream \o bytes /\ stream \in Seq(Symbol)
  BY DEF Writes, FramingInv, TypeOK
<1>2. /\ stream' \in Seq(Symbol) /\ Len(stream') = Len(stream) + Len(bytes)
      /\ Len(stream) \in Nat /\ Len(bytes) \in Nat
  BY <1>1, Behind
<1>3. /\ Len(sent) \in Nat /\ Len(sent') \in Nat /\ DOMAIN sent = 1..Len(sent)
      /\ DOMAIN sent' = 1..Len(sent')
  BY DEF Writes, FramingInv, TypeOK
<1>4. Len(sent') = Len(sent) \/ Len(sent') = Len(sent) + 1
  BY DEF Writes
<1> DEFINE l == Len(sent)
           l2 == Len(sent')
<1>5. l \in Nat /\ l2 \in Nat /\ (l2 = l \/ l2 = l + 1)
  BY <1>3, <1>4
<1> HIDE DEF l, l2
<1>6. ASSUME NEW k \in DOMAIN sent', k \notin DOMAIN sent
       PROVE  k = Len(sent') /\ Len(sent') > Len(sent)
  <2>1. k \in 1..l2 /\ ~(k \in 1..l)
    BY <1>3, <1>6 DEF l, l2
  <2>2. k = l2 /\ l2 > l
    BY <1>5, <2>1
  <2> QED BY <2>2 DEF l, l2
<1>7. DOMAIN sent \subseteq DOMAIN sent' /\ Len(sent) <= Len(sent')
  <2>1. 1..l \subseteq 1..l2 /\ l <= l2
    BY <1>5
  <2> QED BY <1>3, <2>1 DEF l, l2
<1>8. \A k \in DOMAIN sent : sent'[k] = sent[k]
  BY DEF Writes
<1>9. Len(sent') > Len(sent) => /\ LiesIn(stream', sent'[Len(sent')])
                                /\ sent'[Len(sent')].start = Len(stream)
  BY DEF Writes
<1>10. sent' \in Seq(Placed) /\ items' \in 0..MaxItems
  BY DEF Writes
<1>11. arrived' = arrived /\ buf' = buf /\ handled' = handled
  BY DEF Writes, readerVars
<1>12. arrived \in Nat /\ arrived <= Len(stream) /\ Len(buf) \in Nat /\ Len(buf) <= arrived
  BY <1>2 DEF FramingInv, TypeOK, BufferIsTheRest
<1>13. TypeOK'
  <2>1. arrived' \in 0..Len(stream')
    BY <1>2, <1>11, <1>12
  <2>2. buf' \in Seq(Symbol) /\ handled' \in Seq(Seq(Symbol))
    BY <1>11 DEF FramingInv, TypeOK
  <2> QED BY <1>2, <1>10, <2>1, <2>2 DEF TypeOK
<1>14. \A k \in DOMAIN sent : /\ sent[k] \in Placed /\ LiesIn(stream, sent[k])
                             /\ sent[k].end \in Nat /\ sent[k].end <= Len(stream)
  <2>1. \A k \in DOMAIN sent : sent[k] \in Placed /\ LiesIn(stream, sent[k])
    BY DEF FramingInv, TypeOK, WellPlaced
  <2> QED BY <2>1, PlacesInOrder
<1>15. WellPlaced'
  <2>1. ASSUME NEW k \in DOMAIN sent' PROVE LiesIn(stream', sent'[k])
    <3>1. CASE k \in DOMAIN sent
      BY <1>1, <1>14, <1>8, <3>1, LiesInLonger
    <3>2. CASE k \notin DOMAIN sent
      <4>1. k = Len(sent') /\ Len(sent') > Len(sent)
        BY <1>6, <3>2
      <4> QED BY <1>9, <4>1
    <3> QED BY <3>1, <3>2
  <2>2. ASSUME NEW j \in DOMAIN sent', NEW k \in DOMAIN sent', j < k
        PROVE  sent'[j].end <= sent'[k].start
    <3>1. CASE k \in DOMAIN sent
      <4>1. j \in DOMAIN sent
        BY <1>3, <2>2, <3>1
      <4> QED BY <1>8, <2>2, <3>1, <4>1 DEF FramingInv, WellPlaced
    <3>2. CASE k \notin DOMAIN sent
      <4>1. k = Len(sent') /\ Len(sent') > Len(sent) /\ j \in DOMAIN sent
        <5>1. k = Len(sent') /\ Len(sent') > Len(sent)
          BY <1>6, <3>2
        <5>2. j \in DOMAIN sent
          <6>1. j # Len(sent')
            BY <1>3, <2>2, <5>1
          <6> QED BY <1>6, <6>1
        <5> QED BY <5>1, <5>2
      <4>2. sent'[k].start = Len(stream) /\ sent'[j] = sent[j]
        BY <1>8, <1>9, <4>1
      <4> QED BY <1>14, <4>1, <4>2
    <3> QED BY <3>1, <3>2
  <2>3. ASSUME NEW i \in DOMAIN stream', stream'[i].is = "length"
        PROVE  \E k \in DOMAIN sent' : i \in (sent'[k].start + 1)..sent'[k].end
    <3>1. i \in 1..(Len(stream) + Len(bytes))
      BY <1>2
    <3>2. CASE i <= Len(stream)
      <4>1. i \in DOMAIN stream /\ stream'[i] = stream[i]
        <5>1. i \in 1..Len(stream)
          BY <1>2, <3>1, <3>2
        <5> QED BY <1>1, <5>1, Behind
      <4>2. PICK k \in DOMAIN sent : i \in (sent[k].start + 1)..sent[k].end
        BY <2>3, <4>1 DEF FramingInv, WellPlaced
      <4>3. k \in DOMAIN sent' /\ sent'[k] = sent[k]
        BY <1>8, <1>7
      <4> QED BY <4>2, <4>3
    <3>3. CASE i > Len(stream)
      <4>1. i - Len(stream) \in 1..Len(bytes) /\ Len(stream) + (i - Len(stream)) = i
        BY <1>2, <3>1, <3>3
      <4>2. stream'[Len(stream) + (i - Len(stream))] = bytes[i - Len(stream)]
        BY <1>1, <4>1, Behind
      <4>3. i - Len(stream) \in DOMAIN bytes
        BY <1>1, <4>1
      <4>4. /\ Len(sent') > Len(sent)
            /\ i \in (sent'[Len(sent')].start + 1)..sent'[Len(sent')].end
        BY <2>3, <4>1, <4>2, <4>3 DEF Writes
      <4>5. Len(sent') \in DOMAIN sent'
        BY <1>3, <4>4
      <4> QED BY <4>4, <4>5
    <3> QED BY <1>2, <3>1, <3>2, <3>3
  <2> QED BY <2>1, <2>2, <2>3 DEF WellPlaced
<1> DEFINE h == Len(handled)
           base == arrived - Len(buf)
<1>16. h \in 0..Len(sent) /\ base \in Nat /\ base <= arrived
  BY <1>2, <1>12 DEF FramingInv, TypeOK, BufferIsTheRest, Between
<1> HIDE DEF base, h
<1>17. BufferIsTheRest'
  <2>1. SubSeq(stream', base + 1, arrived) = SubSeq(stream, base + 1, arrived)
    <3>1. base \in 0..Len(stream) /\ arrived \in base..Len(stream)
      BY <1>2, <1>12, <1>16
    <3> QED BY <1>1, <3>1, PartStays
  <2>2. buf = SubSeq(stream', base + 1, arrived)
    BY <2>1 DEF FramingInv, BufferIsTheRest, base
  <2>3. Between(base, h)
    BY DEF FramingInv, BufferIsTheRest, base, h
  <2>4. h \in 0..Len(sent')
    BY <1>3, <1>16, <1>7
  <2>5. h > 0 => sent'[h].end <= base
    BY <1>3, <1>16, <1>8, <2>3 DEF Between
  <2>6. h < Len(sent') => base <= sent'[h + 1].start /\ arrived < sent'[h + 1].end
    <3>1. CASE h < Len(sent)
      <4>1. h + 1 \in DOMAIN sent
        BY <1>3, <1>16, <3>1
      <4>2. base <= sent[h + 1].start
        BY <2>3, <3>1 DEF Between
      <4>3. arrived < sent[h + 1].end
        BY <3>1 DEF FramingInv, BufferIsTheRest, h
      <4> QED BY <1>8, <4>1, <4>2, <4>3
    <3>2. CASE ~(h < Len(sent)) /\ h < Len(sent')
      <4>1. h + 1 = Len(sent') /\ Len(sent') > Len(sent) /\ Len(sent') \in DOMAIN sent'
        <5>1. Len(sent') = Len(sent) + 1 /\ h = Len(sent)
          <6>1. h \in 0..l /\ ~(h < l) /\ h < l2
            BY <1>16, <3>2 DEF l, l2
          <6>2. l2 = l + 1 /\ h = l
            BY <1>5, <6>1
          <6> QED BY <6>2 DEF l, l2
        <5> QED BY <1>3, <5>1
      <4>2. sent'[h + 1].start = Len(stream)
        BY <1>9, <4>1
      <4>3. sent'[h + 1].start < sent'[h + 1].end /\ sent'[h + 1].end \in Nat
        <5>1. sent'[h + 1] \in Placed /\ LiesIn(stream', sent'[h + 1])
          BY <1>15, <1>10, <4>1 DEF WellPlaced
        <5> QED BY <5>1, PlacesInOrder
      <4> QED BY <1>2, <1>12, <1>16, <4>2, <4>3
    <3> QED BY <3>1, <3>2
  <2>7. Between(base, h)'
    <3>1. base' = base /\ h' = h
      BY <1>11 DEF base, h
    <3> QED BY <2>4, <2>5, <2>6, <3>1 DEF Between
  <2> QED BY <1>11, <1>12, <2>2, <2>6, <2>7 DEF BufferIsTheRest, base, h
<1>18. HandledAsSent'
  <2> SUFFICES ASSUME NEW k \in DOMAIN handled' PROVE handled'[k] = sent'[k].body
    BY DEF HandledAsSent
  <2>1. k \in DOMAIN handled /\ DOMAIN handled = 1..h
    BY <1>11 DEF FramingInv, TypeOK, h
  <2>2. k \in DOMAIN sent
    BY <1>3, <1>16, <2>1
  <2> QED BY <1>11, <1>8, <2>1, <2>2 DEF FramingInv, HandledAsSent
<1> QED BY <1>13, <1>15, <1>17, <1>18 DEF FramingInv

LEMMA WriteMessageKeeps ==
  ASSUME FramingInv, NEW m \in Message, WriteMessage(m)
  PROVE  FramingInv'
<1> DEFINE bytes == m.header \o m.body
           d == PlacedAfter(stream, m)
<1>1. m.header \in Seq(Symbol) /\ m.body \in Seq(Symbol)
  BY MessageAssumption
<1>2. stream \in Seq(Symbol) /\ sent \in Seq(Placed) /\ items \in 0..MaxItems
  BY DEF FramingInv, TypeOK
<1>3. bytes \in Seq(Symbol)
  BY <1>1
<1>4. /\ d \in Placed /\ d.start = Len(stream) /\ d.end = Len(stream) + Len(bytes)
      /\ LiesIn(stream \o bytes, d)
  BY <1>2, LiesInNew
<1>5. stream' = stream \o bytes /\ sent' = Append(sent, d) /\ UNCHANGED readerVars
  BY DEF WriteMessage
<1> HIDE DEF bytes, d
<1>6. items' \in 0..MaxItems
  BY <1>2, MaxItemsAssumption DEF WriteMessage
<1>7. /\ sent' \in Seq(Placed) /\ Len(sent') = Len(sent) + 1 /\ sent'[Len(sent')] = d
      /\ \A k \in DOMAIN sent : sent'[k] = sent[k]
  BY <1>2, <1>4, <1>5
<1>8. Len(sent') > Len(sent)
  BY <1>2, <1>7
<1>9. \A i \in DOMAIN bytes : Len(stream) + i \in (d.start + 1)..d.end
  <2>1. DOMAIN bytes = 1..Len(bytes) /\ Len(bytes) \in Nat /\ Len(stream) \in Nat
    BY <1>2, <1>3
  <2> QED BY <1>4, <2>1
<1>10. Writes(bytes)
  BY <1>3, <1>4, <1>5, <1>6, <1>7, <1>8, <1>9 DEF Writes
<1> QED BY <1>10, WritesKeeps

LEMMA WriteOtherKeeps ==
  ASSUME FramingInv, NEW bytes \in Other, WriteOther(bytes)
  PROVE  FramingInv'
<1>1. bytes \in Seq({Eol, Text})
  BY OtherAssumption
<1>2. stream \in Seq(Symbol) /\ sent \in Seq(Placed) /\ items \in 0..MaxItems
  BY DEF FramingInv, TypeOK
<1>3. Eol \in Symbol /\ Text \in Symbol /\ Eol.is # "length" /\ Text.is # "length"
  BY DEF Eol, Text, Symbol
<1>4. bytes \in Seq(Symbol) /\ \A i \in DOMAIN bytes : bytes[i].is # "length"
  BY <1>1, <1>3
<1>5. items' \in 0..MaxItems
  BY <1>2, MaxItemsAssumption DEF WriteOther
<1>6. ~(Len(sent) > Len(sent))
  BY <1>2
<1>7. Writes(bytes)
  BY <1>2, <1>4, <1>5, <1>6 DEF Writes, WriteOther
<1> QED BY <1>7, WritesKeeps

LEMMA OnDataKeeps ==
  ASSUME FramingInv, NEW n \in 1..(Len(stream) - arrived), OnData(n)
  PROVE  FramingInv'
<1> DEFINE upto == arrived + n
           base == arrived - Len(buf)
           chunk == SubSeq(stream, arrived + 1, upto)
           b == buf \o chunk
           h == Len(handled)
           found == Passes(b)[0]
           count == Len(found.bodies)
<1>1. /\ stream \in Seq(Symbol) /\ arrived \in 0..Len(stream) /\ buf \in Seq(Symbol)
      /\ handled \in Seq(Seq(Symbol)) /\ Len(buf) <= arrived /\ n \in Nat
      /\ TypeOK /\ WellPlaced
  BY DEF FramingInv, TypeOK, BufferIsTheRest
<1>2. Len(stream) \in Nat /\ arrived \in Nat /\ Len(buf) \in Nat /\ base \in Nat
      /\ upto \in Nat /\ base <= arrived /\ arrived <= upto /\ upto <= Len(stream)
      /\ Len(buf) = arrived - base /\ upto - arrived = n
  BY <1>1
<1> HIDE DEF upto, base
<1>3. /\ chunk \in Seq(Symbol) /\ Len(chunk) = upto - arrived
      /\ \A i \in 1..(upto - arrived) : chunk[i] = stream[arrived + i]
  <2>1. arrived \in 0..Len(stream) /\ upto \in arrived..Len(stream)
    BY <1>2
  <2> QED BY <1>1, <2>1, PartOf
<1>4. \A i \in 1..(arrived - base) : buf[i] = stream[base + i]
  <2>1. base \in 0..Len(stream) /\ arrived \in base..Len(stream)
    BY <1>2
  <2>2. buf = SubSeq(stream, base + 1, arrived)
    BY DEF FramingInv, BufferIsTheRest, base
  <2> QED BY <1>1, <2>1, <2>2, PartOf
<1> HIDE DEF chunk
<1>5. /\ b \in Seq(Symbol) /\ Len(b) = Len(buf) + Len(chunk)
      /\ \A i \in 1..Len(buf) : b[i] = buf[i]
      /\ \A i \in 1..Len(chunk) : b[Len(buf) + i] = chunk[i]
  <2>1. buf \in Seq(Symbol) /\ chunk \in Seq(Symbol)
    BY <1>1, <1>3
  <2> QED BY <2>1, Behind
<1> HIDE DEF b
<1>6. Len(b) = upto - base
  BY <1>2, <1>3, <1>5
<1>7. Holds(b, base, upto)
  <2>1. ASSUME NEW i \in 1..(upto - base) PROVE b[i] = stream[base + i]
    <3>1. CASE i <= arrived - base
      <4>1. i \in 1..(arrived - base)
        BY <1>2, <3>1
      <4> QED BY <1>2, <1>4, <1>5, <4>1
    <3>2. CASE i > arrived - base
      <4> DEFINE j == i - (arrived - base)
      <4>1. /\ j \in 1..(upto - arrived) /\ Len(buf) + j = i /\ arrived + j = base + i
        BY <1>2, <3>2
      <4> HIDE DEF j
      <4>2. b[Len(buf) + j] = chunk[j] /\ chunk[j] = stream[arrived + j]
        BY <1>3, <1>5, <4>1
      <4> QED BY <4>1, <4>2
    <3> QED BY <1>2, <3>1, <3>2
  <2> QED BY <1>2, <1>6, <2>1 DEF Holds
<1>8. FindsWhole(b, base, upto, 0, h)
  <2>1. base + 0 = base /\ 0 \in 0..Len(b)
    BY <1>2, <1>6
  <2>2. Between(base, h) /\ h \in 0..Len(sent)
    BY DEF FramingInv, BufferIsTheRest, Between, base
  <2>3. Reading(b, base, upto, 0, h)
    BY <1>7, <2>1, <2>2 DEF Reading
  <2> QED BY <1>1, <1>5, <2>3, LoopFindsWhole
<1>9. /\ arrived' = upto /\ handled' = handled \o found.bodies
      /\ buf' = SubSeq(b, found.rest + 1, Len(b)) /\ UNCHANGED serverVars
  BY DEF OnData, upto, b, chunk
<1> HIDE DEF found, h
<1>10. /\ found.bodies \in Seq(Seq(Symbol)) /\ found.rest \in 0..(upto - base)
       /\ \A i \in 1..count : found.bodies[i] = sent[h + i].body
       /\ Between(base + found.rest, h + count)
       /\ h + count < Len(sent) => upto < sent[h + count + 1].end
  BY <1>8 DEF FindsWhole, found
<1>11. /\ handled' \in Seq(Seq(Symbol)) /\ Len(handled') = h + count
       /\ h \in Nat /\ count \in Nat
       /\ \A i \in 1..h : handled'[i] = handled[i]
       /\ \A i \in 1..count : handled'[h + i] = found.bodies[i]
  <2>1. handled \in Seq(Seq(Symbol)) /\ found.bodies \in Seq(Seq(Symbol))
    BY <1>1, <1>10
  <2> DEFINE bodies == found.bodies
             before == handled
  <2>2. bodies \in Seq(Seq(Symbol)) /\ before \in Seq(Seq(Symbol))
    BY <2>1
  <2> HIDE DEF bodies, before
  <2>3. /\ before \o bodies \in Seq(Seq(Symbol)) /\ Len(before \o bodies) = Len(before) + Len(bodies)
        /\ Len(before) \in Nat /\ Len(bodies) \in Nat
        /\ \A i \in 1..Len(before) : (before \o bodies)[i] = before[i]
        /\ \A i \in 1..Len(bodies) : (before \o bodies)[Len(before) + i] = bodies[i]
    BY <2>2, Behind
  <2>4. handled' = before \o bodies
    BY <1>9 DEF before, bodies
  <2> HIDE DEF before, bodies
  <2>5. h = Len(before) /\ count = Len(bodies)
    BY DEF h, before, bodies
  <2>6. handled = before /\ found.bodies = bodies
    BY DEF before, bodies
  <2> QED BY <2>3, <2>4, <2>5, <2>6
<1> HIDE DEF count
<1>12. /\ buf' \in Seq(Symbol) /\ Len(buf') = Len(b) - found.rest
       /\ \A i \in 1..(Len(b) - found.rest) : buf'[i] = b[found.rest + i]
  <2>1. Len(b) \in Len(b)..Len(b) /\ Len(b) \in found.rest..Len(b)
    BY <1>2, <1>6, <1>10
  <2> DEFINE r == found.rest
             l == Len(b)
  <2>2. r \in 0..Len(b) /\ l \in r..Len(b) /\ b \in Seq(Symbol)
    BY <1>5, <1>10, <2>1
  <2> HIDE DEF r, l
  <2>3. /\ SubSeq(b, r + 1, l) \in Seq(Symbol) /\ Len(SubSeq(b, r + 1, l)) = l - r
        /\ \A i \in 1..(l - r) : SubSeq(b, r + 1, l)[i] = b[r + i]
    BY <2>2, PartOf
  <2> QED BY <1>9, <2>3 DEF r, l
<1>13. stream' = stream /\ sent' = sent /\ items' = items
  BY <1>9 DEF serverVars
<1>14. TypeOK'
  <2>1. arrived' \in 0..Len(stream')
    BY <1>2, <1>9, <1>13
  <2> QED BY <1>1, <1>11, <1>12, <1>13, <2>1 DEF TypeOK
<1>15. WellPlaced'
  BY <1>1, <1>13 DEF WellPlaced
<1>16. BufferIsTheRest'
  <2> DEFINE base2 == base + found.rest
  <2>1. found.rest \in Nat /\ found.rest <= Len(b) /\ Len(b) \in Nat
    BY <1>2, <1>6, <1>10
  <2>2. /\ Len(buf') = upto - base2 /\ base2 = upto - Len(buf') /\ Len(buf') <= upto
        /\ base2 \in Nat /\ base2 <= upto /\ Len(b) - found.rest = upto - base2
    <3> DEFINE r == found.rest
               l == Len(b)
    <3>1. r \in Nat /\ r <= l /\ l = upto - base /\ base2 = base + r /\ Len(buf') = l - r
      BY <1>6, <1>12, <2>1
    <3>2. base \in Nat /\ upto \in Nat
      BY <1>2
    <3> HIDE DEF r, l, base2
    <3>3. l - r = upto - base2
      BY <3>1, <3>2
    <3>4. base2 \in Nat /\ base2 <= upto
      BY <3>1, <3>2
    <3>5. base2 = upto - (l - r) /\ l - r <= upto
      BY <3>1, <3>2, <3>3, <3>4
    <3> QED BY <3>1, <3>3, <3>4, <3>5 DEF r, l
  <2>3. \A i \in 1..(upto - base2) : buf'[i] = stream[base2 + i]
    <3> SUFFICES ASSUME NEW i \in 1..(upto - base2) PROVE buf'[i] = stream[base2 + i]
      OBVIOUS
    <3> DEFINE r == found.rest
    <3>1. r \in Nat /\ base2 = base + r /\ Len(b) - r = upto - base2
      BY <2>1, <2>2
    <3> HIDE DEF r, base2
    <3>2. i \in 1..(Len(b) - r) /\ r + i \in 1..(upto - base) /\ base + (r + i) = base2 + i
      BY <1>2, <1>6, <2>2, <3>1
    <3>3. i \in 1..(Len(b) - found.rest) /\ found.rest + i \in 1..(upto - base)
          /\ base + (found.rest + i) = base2 + i
      BY <3>2 DEF r
    <3>4. b[found.rest + i] = stream[base + (found.rest + i)]
      BY <1>7, <3>3 DEF Holds
    <3> QED BY <1>12, <3>3, <3>4
  <2> HIDE DEF base2
  <2>4. buf' = SubSeq(stream, base2 + 1, upto)
    <3>1. base2 \in 0..Len(stream) /\ upto \in base2..Len(stream)
      BY <1>2, <2>2
    <3>2. /\ SubSeq(stream, base2 + 1, upto) \in Seq(Symbol)
          /\ Len(SubSeq(stream, base2 + 1, upto)) = upto - base2
          /\ \A i \in 1..(upto - base2) : SubSeq(stream, base2 + 1, upto)[i] = stream[base2 + i]
      BY <1>1, <3>1, PartOf
    <3>3. \A i \in 1..(upto - base2) : buf'[i] = SubSeq(stream, base2 + 1, upto)[i]
      BY <2>3, <3>2
    <3> QED BY <1>12, <2>2, <3>2, <3>3, SameSeq
  <2>5. Between(base2, Len(handled'))
    BY <1>10, <1>11 DEF base2
  <2>6. arrived' - Len(buf') = base2
    BY <1>9, <2>2
  <2>7. Between(arrived - Len(buf), Len(handled))'
    BY <1>13, <2>5, <2>6 DEF Between
  <2>8. Len(handled') < Len(sent') => arrived' < sent'[Len(handled') + 1].end
    BY <1>9, <1>10, <1>11, <1>13
  <2>9. Len(buf') <= arrived' /\ buf' = SubSeq(stream', arrived' - Len(buf') + 1, arrived')
    BY <1>9, <1>13, <2>2, <2>4, <2>6
  <2> QED BY <2>7, <2>8, <2>9 DEF BufferIsTheRest
<1>17. HandledAsSent'
  <2> SUFFICES ASSUME NEW k \in DOMAIN handled' PROVE handled'[k] = sent'[k].body
    BY DEF HandledAsSent
  <2>1. k \in 1..(h + count)
    BY <1>11
  <2>2. CASE k <= h
    <3>1. k \in 1..h /\ k \in DOMAIN handled
      BY <1>1, <1>11, <2>1, <2>2 DEF h
    <3> QED BY <1>11, <1>13, <3>1 DEF FramingInv, HandledAsSent
  <2>3. CASE k > h
    <3>1. k - h \in 1..count /\ h + (k - h) = k
      BY <1>11, <2>1, <2>3
    <3>2. handled'[h + (k - h)] = found.bodies[k - h] /\ found.bodies[k - h] = sent[h + (k - h)].body
      BY <1>10, <1>11, <3>1 DEF count
    <3> QED BY <1>13, <3>1, <3>2
  <2> QED BY <1>11, <2>1, <2>2, <2>3
<1> QED BY <1>14, <1>15, <1>16, <1>17 DEF FramingInv

\* Every step keeps the invariant.
LEMMA FramingStep == FramingInv /\ [Next]_vars => FramingInv'
<1> SUFFICES ASSUME FramingInv, [Next]_vars PROVE FramingInv'
  OBVIOUS
<1>1. CASE UNCHANGED vars
  BY <1>1 DEF vars, serverVars, readerVars, FramingInv, TypeOK, WellPlaced, BufferIsTheRest,
              Between, HandledAsSent
<1>2. ASSUME NEW m \in Message, WriteMessage(m) PROVE FramingInv'
  BY <1>2, WriteMessageKeeps
<1>3. ASSUME NEW bytes \in Other, WriteOther(bytes) PROVE FramingInv'
  BY <1>3, WriteOtherKeeps
<1>4. ASSUME NEW n \in 1..(Len(stream) - arrived), OnData(n) PROVE FramingInv'
  BY <1>4, OnDataKeeps
<1> QED BY <1>1, <1>2, <1>3, <1>4 DEF Next

\* The buffer is always the end of what was read, from between two messages.
THEOREM FramingInvariance == Spec => []FramingInv
  BY FramingInit, FramingStep, PTL DEF Spec

-----------------------------------------------------------------------------
\* Each message is handled once, in order, when its last byte has arrived.
THEOREM EveryMessageOnceHolds == Spec => []EveryMessageOnce
<1>1. FramingInv => EveryMessageOnce
  <2> SUFFICES ASSUME FramingInv PROVE EveryMessageOnce
    OBVIOUS
  <2> DEFINE h == Len(handled)
             base == arrived - Len(buf)
  <2>1. h \in 0..Len(sent) /\ Len(sent) \in Nat /\ DOMAIN handled = 1..h /\ DOMAIN sent = 1..Len(sent)
    BY DEF FramingInv, TypeOK, BufferIsTheRest, Between
  <2>2. base \in Nat /\ arrived \in Nat /\ base <= arrived
    <3>1. arrived \in Nat /\ Len(buf) \in Nat /\ Len(buf) <= arrived
      BY DEF FramingInv, TypeOK, BufferIsTheRest
    <3> QED BY <3>1
  <2>3. \A k \in DOMAIN sent : /\ sent[k].start \in Nat /\ sent[k].end \in Nat
                               /\ sent[k].start < sent[k].end
    <3>1. \A k \in DOMAIN sent : sent[k] \in Placed /\ LiesIn(stream, sent[k])
      BY DEF FramingInv, TypeOK, WellPlaced
    <3> QED BY <3>1, PlacesInOrder
  <2>4. \A j, k \in DOMAIN sent : j < k => sent[j].end <= sent[k].start
    BY DEF FramingInv, WellPlaced
  <2>5. h > 0 => sent[h].end <= base
    BY DEF FramingInv, BufferIsTheRest, Between
  <2>6. h < Len(sent) => arrived < sent[h + 1].end
    BY DEF FramingInv, BufferIsTheRest
  <2> HIDE DEF h, base
  <2>7. ASSUME NEW k \in DOMAIN sent PROVE k \in 1..h <=> sent[k].end <= arrived
    <3>1. CASE k <= h
      <4>1. h \in DOMAIN sent /\ k \in 1..h
        BY <2>1, <3>1
      <4>2. k = h \/ sent[k].end <= sent[h].start
        BY <2>1, <2>4, <3>1, <4>1
      <4>3. sent[k].end <= sent[h].end
        BY <2>3, <4>1, <4>2
      <4> QED BY <2>1, <2>2, <2>3, <2>5, <4>1, <4>3
    <3>2. CASE k > h
      <4>1. h + 1 \in DOMAIN sent /\ h < Len(sent) /\ k \notin 1..h
        BY <2>1, <3>2
      <4>2. k = h + 1 \/ sent[h + 1].end <= sent[k].start
        BY <2>1, <2>4, <3>2, <4>1
      <4>3. arrived < sent[k].end
        BY <2>2, <2>3, <2>6, <4>1, <4>2
      <4> QED BY <2>2, <2>3, <4>1, <4>3
    <3> QED BY <2>1, <3>1, <3>2
  <2>8. DOMAIN handled = {k \in DOMAIN sent : sent[k].end <= arrived}
    <3>1. 1..h \subseteq DOMAIN sent
      BY <2>1
    <3> QED BY <2>1, <2>7, <3>1
  <2> QED BY <2>8 DEF EveryMessageOnce, FramingInv, HandledAsSent
<1> QED BY <1>1, FramingInvariance, PTL

-----------------------------------------------------------------------------
(***************************************************************************)
(* The pipe of messages.                                                   *)
(***************************************************************************)
\* What was handled is the beginning of what was sent.
LEMMA HandledIsPrefix ==
  ASSUME FramingInv
  PROVE  /\ Len(handled) \in Nat /\ Len(sent) \in Nat /\ Len(handled) <= Len(sent)
         /\ DOMAIN handled = 1..Len(handled) /\ DOMAIN sent = 1..Len(sent)
         /\ \A k \in 1..Len(handled) : handled[k] = sent[k].body
         /\ \A k \in 1..Len(sent) : sent[k].body \in Seq(Symbol)
<1>1. Len(handled) \in 0..Len(sent) /\ sent \in Seq(Placed) /\ handled \in Seq(Seq(Symbol))
  BY DEF FramingInv, TypeOK, BufferIsTheRest, Between
<1>2. \A k \in DOMAIN handled : handled[k] = sent[k].body
  BY DEF FramingInv, HandledAsSent
<1>3. \A k \in 1..Len(sent) : sent[k].body \in Seq(Symbol)
  <2>1. \A k \in 1..Len(sent) : sent[k] \in Placed
    BY <1>1
  <2> QED BY <2>1 DEF Placed
<1> QED BY <1>1, <1>2, <1>3

\* So the bodies not handled are a sequence.
LEMMA UnhandledIsSeq ==
  ASSUME FramingInv
  PROVE  /\ Unhandled \in Seq(Seq(Symbol))
         /\ Len(Unhandled) = Len(sent) - Len(handled)
         /\ Len(Unhandled) \in Nat
<1> DEFINE h == Len(handled)
           s == Len(sent)
<1>1. h \in Nat /\ s \in Nat /\ h <= s /\ \A k \in 1..s : sent[k].body \in Seq(Symbol)
  BY HandledIsPrefix
<1> HIDE DEF h, s
<1>2. s - h \in Nat /\ \A k \in 1..(s - h) : h + k \in 1..s
  BY <1>1
<1>3. Unhandled = [k \in 1..(s - h) |-> sent[h + k].body]
  BY DEF Unhandled, h, s
<1>4. \A k \in 1..(s - h) : sent[h + k].body \in Seq(Symbol)
  BY <1>1, <1>2
<1>5. Unhandled \in [1..(s - h) -> Seq(Symbol)]
  BY <1>3, <1>4
<1> HIDE DEF Unhandled
<1> QED BY <1>2, <1>5 DEF h, s

\* A message that is written joins the queue.
LEMMA WriteIsWrite ==
  ASSUME FramingInv, FramingInv', NEW m \in Message, WriteMessage(m)
  PROVE  Pipe!Write(m.body)
<1> DEFINE h == Len(handled)
           s == Len(sent)
<1>1. h \in Nat /\ s \in Nat /\ h <= s /\ sent \in Seq(Placed)
  BY HandledIsPrefix DEF FramingInv, TypeOK
<1>2. handled' = handled /\ sent' = Append(sent, PlacedAfter(stream, m))
  BY DEF WriteMessage, readerVars
<1>3. Len(sent') = s + 1 /\ \A k \in 1..s : sent'[k] = sent[k]
  BY <1>1, <1>2
<1>4. sent'[s + 1].body = m.body
  BY <1>1, <1>2 DEF PlacedAfter
<1>5. Unhandled' = [k \in 1..(s + 1 - h) |-> sent'[h + k].body]
  BY <1>2, <1>3 DEF Unhandled
<1>6. Unhandled \in Seq(Seq(Symbol)) /\ Len(Unhandled) = s - h
  BY UnhandledIsSeq
<1>7. Append(Unhandled, m.body)
        = [k \in 1..(s - h + 1) |-> IF k = s - h + 1 THEN m.body ELSE Unhandled[k]]
  <2> HIDE DEF s, h
  <2>1. Append(Unhandled, m.body)
          = [k \in 1..(Len(Unhandled) + 1) |->
               IF k = Len(Unhandled) + 1 THEN m.body ELSE Unhandled[k]]
    BY <1>6
  <2> QED BY <1>6, <2>1
<1>8. \A k \in 1..(s - h) : Unhandled[k] = sent[h + k].body
  BY DEF Unhandled
<1> HIDE DEF s, h
<1>9. s + 1 - h = s - h + 1 /\ s - h \in Nat /\ h + (s - h + 1) = s + 1
  BY <1>1
<1>10. ASSUME NEW k \in 1..(s - h + 1)
       PROVE  sent'[h + k].body = IF k = s - h + 1 THEN m.body ELSE Unhandled[k]
  <2>1. CASE k = s - h + 1
    BY <1>4, <1>9, <2>1
  <2>2. CASE k # s - h + 1
    <3>1. k \in 1..(s - h) /\ h + k \in 1..s
      BY <1>1, <1>9, <2>2
    <3> QED BY <1>3, <1>8, <2>2, <3>1
  <2> QED BY <2>1, <2>2
<1>11. Unhandled' = [k \in 1..(s - h + 1) |-> sent'[h + k].body]
  BY <1>5, <1>9
<1>12. Unhandled' = Append(Unhandled, m.body)
  <2> HIDE DEF Unhandled
  <2> QED BY <1>7, <1>10, <1>11
<1> QED BY <1>2, <1>12 DEF Pipe!Write

\* A chunk takes from the front of the queue, or nothing.
LEMMA OnDataTakes ==
  ASSUME FramingInv, FramingInv', EveryMessageOnce, EveryMessageOnce',
         NEW n \in 1..(Len(stream) - arrived), OnData(n)
  PROVE  \/ \E d \in 1..Len(Unhandled) : Pipe!Take(d)
         \/ UNCHANGED <<Unhandled, handled>>
<1> DEFINE h == Len(handled)
           g == Len(handled')
           s == Len(sent)
           d == g - h
<1>1. h \in Nat /\ s \in Nat /\ h <= s /\ DOMAIN handled = 1..h /\ DOMAIN sent = 1..s
      /\ \A k \in 1..h : handled[k] = sent[k].body
  BY HandledIsPrefix
<1>2. sent' = sent
  BY DEF OnData, serverVars
<1>3. g \in Nat /\ g <= s /\ DOMAIN handled' = 1..g /\ \A k \in 1..g : handled'[k] = sent[k].body
  <2>1. Len(handled') \in 0..Len(sent') /\ handled' \in Seq(Seq(Symbol))
    BY DEF FramingInv, TypeOK, BufferIsTheRest, Between
  <2>2. \A k \in DOMAIN handled' : handled'[k] = sent'[k].body
    BY DEF FramingInv, HandledAsSent
  <2>3. DOMAIN handled' = 1..g /\ g \in Nat
    BY <2>1
  <2>4. Len(sent') = s
    BY <1>2
  <2>5. g \in 0..s
    BY <2>1, <2>4
  <2>6. \A k \in 1..g : handled'[k] = sent[k].body
    BY <1>2, <2>2, <2>3
  <2> HIDE DEF g, s
  <2> QED BY <1>1, <2>3, <2>5, <2>6
<1>4. arrived \in Nat /\ arrived' = arrived + n /\ n \in Nat
  <2>1. arrived \in 0..Len(stream) /\ Len(stream) \in Nat
    BY DEF FramingInv, TypeOK
  <2>2. arrived' = arrived + n
    BY DEF OnData
  <2> QED BY <2>1, <2>2
<1>5. \A k \in DOMAIN sent : sent[k].end \in Nat
  <2>1. \A k \in DOMAIN sent : sent[k] \in Placed
    BY DEF FramingInv, TypeOK
  <2> QED BY <2>1 DEF Placed
<1>6. h <= g
  <2>1. 1..h = {k \in DOMAIN sent : sent[k].end <= arrived}
    BY <1>1 DEF EveryMessageOnce
  <2>2. 1..g = {k \in DOMAIN sent : sent[k].end <= arrived'}
    BY <1>2, <1>3 DEF EveryMessageOnce
  <2>3. \A k \in DOMAIN sent : sent[k].end <= arrived => sent[k].end <= arrived'
    BY <1>4, <1>5
  <2>4. 1..h \subseteq 1..g
    BY <2>1, <2>2, <2>3
  <2> HIDE DEF h, g
  <2>5. h = 0 \/ h \in 1..h
    BY <1>1
  <2> QED BY <1>1, <1>3, <2>4, <2>5
<1>7. Unhandled \in Seq(Seq(Symbol)) /\ Len(Unhandled) = s - h
      /\ \A k \in 1..(s - h) : Unhandled[k] = sent[h + k].body
  BY UnhandledIsSeq DEF Unhandled
<1>8. Unhandled' = [k \in 1..(s - g) |-> sent[g + k].body]
  BY <1>2 DEF Unhandled
<1>9. handled \in Seq(Seq(Symbol)) /\ handled' \in Seq(Seq(Symbol))
  BY DEF FramingInv, TypeOK
<1> HIDE DEF s
<1>10. Unhandled \in Seq(Seq(Symbol)) /\ Unhandled' \in Seq(Seq(Symbol)) /\ Len(Unhandled') = s - g
  <2>1. s - g \in Nat
    BY <1>1, <1>3
  <2>2. \A k \in 1..(s - g) : sent[g + k].body \in Seq(Symbol)
    <3>1. \A k \in 1..Len(sent) : sent[k].body \in Seq(Symbol)
      BY HandledIsPrefix
    <3> HIDE DEF g
    <3>2. \A k \in 1..(s - g) : g + k \in 1..s
      BY <1>1, <1>3
    <3> QED BY <3>1, <3>2 DEF s
  <2>3. Unhandled' \in [1..(s - g) -> Seq(Symbol)]
    BY <1>8, <2>2
  <2> DEFINE later == Unhandled'
             left == s - g
  <2> HIDE DEF later, left
  <2>4. left \in Nat /\ later \in [1..left -> Seq(Symbol)]
    BY <2>1, <2>3 DEF later, left
  <2>5. later \in Seq(Seq(Symbol)) /\ Len(later) = left
    BY <2>4
  <2> QED BY <1>7, <2>5 DEF later, left
<1>11. CASE g = h
  <2>1. handled' = handled
    <3> HIDE DEF Unhandled
    <3>1. Len(handled') = Len(handled) /\ \A k \in 1..Len(handled) : handled'[k] = handled[k]
      BY <1>1, <1>3, <1>11
    <3> QED BY <1>9, <3>1, SameSeq
  <2> QED BY <1>2, <2>1 DEF Unhandled
<1>12. CASE g # h
  <2>1. d \in 1..Len(Unhandled) /\ d \in Nat /\ d <= s - h /\ h + d = g
    <3> HIDE DEF h, g
    <3> QED BY <1>1, <1>3, <1>6, <1>7, <1>12
  <2> DEFINE front == SubSeq(Unhandled, 1, d)
             rest == SubSeq(Unhandled, d + 1, Len(Unhandled))
             size == Len(Unhandled)
  <2>2. /\ front \in Seq(Seq(Symbol)) /\ Len(front) = d
        /\ \A i \in 1..d : front[i] = Unhandled[i]
    <3>1. 0 \in 0..Len(Unhandled) /\ d \in 0..Len(Unhandled)
      BY <2>1
    <3>2. /\ SubSeq(Unhandled, 0 + 1, d) \in Seq(Seq(Symbol))
          /\ Len(SubSeq(Unhandled, 0 + 1, d)) = d - 0
          /\ \A i \in 1..(d - 0) : SubSeq(Unhandled, 0 + 1, d)[i] = Unhandled[0 + i]
      <4> HIDE DEF Unhandled, d
      <4> QED BY <1>10, <3>1, PartOf
    <3> HIDE DEF Unhandled, d
    <3>3. 0 + 1 = 1 /\ d - 0 = d /\ \A i \in 1..d : 0 + i = i
      BY <2>1
    <3> QED BY <3>2, <3>3
  <2>3. /\ rest \in Seq(Seq(Symbol)) /\ Len(rest) = size - d
        /\ \A i \in 1..(size - d) : rest[i] = Unhandled[d + i]
    <3>1. d \in 0..Len(Unhandled) /\ Len(Unhandled) \in d..Len(Unhandled)
      <4> HIDE DEF Unhandled, d
      <4> QED BY <1>10, <2>1
    <3> HIDE DEF Unhandled, d
    <3> QED BY <1>10, <3>1, PartOf
  <2>4. handled' = handled \o front
    <3>1. /\ handled \o front \in Seq(Seq(Symbol)) /\ Len(handled \o front) = h + d
          /\ \A i \in 1..h : (handled \o front)[i] = handled[i]
          /\ \A i \in 1..d : (handled \o front)[h + i] = front[i]
      <4> DEFINE joined == handled \o front
      <4> HIDE DEF front, d
      <4>1. /\ joined \in Seq(Seq(Symbol)) /\ Len(joined) = Len(handled) + Len(front)
            /\ \A i \in 1..Len(handled) : joined[i] = handled[i]
            /\ \A i \in 1..Len(front) : joined[Len(handled) + i] = front[i]
        <5>1. handled \in Seq(Seq(Symbol)) /\ front \in Seq(Seq(Symbol))
          BY <1>9, <2>2
        <5> QED BY <5>1, Behind
      <4> HIDE DEF joined
      <4>2. Len(front) = d
        BY <2>2
      <4>3. joined \in Seq(Seq(Symbol)) /\ Len(joined) = h + d
        BY <4>1, <4>2
      <4>4. \A i \in 1..h : joined[i] = handled[i]
        BY <4>1
      <4>5. \A i \in 1..d : joined[h + i] = front[i]
        BY <4>1, <4>2
      <4> QED BY <4>3, <4>4, <4>5 DEF joined
    <3> DEFINE joined == handled \o front
    <3> HIDE DEF joined, front, Unhandled, d, h, g
    <3>2. ASSUME NEW k \in 1..g PROVE handled'[k] = joined[k]
      <4>1. CASE k <= h
        <5>1. k \in 1..h
          BY <4>1
        <5> QED BY <1>1, <1>3, <3>1, <5>1 DEF joined
      <4>2. CASE ~(k <= h)
        <5> DEFINE i == k - h
        <5>1. i \in 1..d /\ h + i = k /\ i \in 1..(s - h)
          BY <1>1, <1>3, <2>1, <4>2
        <5> HIDE DEF i
        <5>2. joined[h + i] = sent[h + i].body
          BY <1>7, <2>2, <3>1, <5>1 DEF joined
        <5> QED BY <1>3, <5>1, <5>2
      <4> QED BY <4>1, <4>2
    <3>3. Len(joined) = Len(handled') /\ joined \in Seq(Seq(Symbol))
      BY <2>1, <3>1 DEF joined, g
    <3>4. handled' = joined
      BY <1>9, <3>2, <3>3, SameSeq DEF g
    <3> QED BY <3>4 DEF joined
  <2>5. Unhandled' = rest
    <3> HIDE DEF rest, Unhandled, d, h, g
    <3>1. size - d = s - g
      BY <1>1, <1>3, <1>7, <2>1
    <3>2. ASSUME NEW k \in 1..(s - g) PROVE Unhandled'[k] = rest[k]
      <4>1. d + k \in 1..(s - h) /\ h + (d + k) = g + k
        BY <1>1, <1>3, <2>1
      <4> DEFINE i == d + k
      <4>2. rest[k] = Unhandled[i]
        BY <2>3, <3>1
      <4> HIDE DEF i
      <4>3. Unhandled[i] = sent[h + i].body /\ h + i = g + k
        BY <1>7, <4>1 DEF i
      <4> QED BY <1>8, <4>2, <4>3
    <3>3. Len(Unhandled') = Len(rest)
      BY <1>10, <2>3, <3>1
    <3> QED BY <1>10, <2>3, <3>2, <3>3, SameSeq
  <2>6. Pipe!Take(d)
    BY <2>4, <2>5 DEF Pipe!Take
  <2> QED BY <2>1, <2>6
<1> QED BY <1>11, <1>12

\* Each step of the reader and of the server is one of the pipe, or none.
LEMMA FramingPipes ==
  ASSUME FramingInv, FramingInv', EveryMessageOnce, EveryMessageOnce', [Next]_vars
  PROVE  [Pipe!Next]_<<Unhandled, handled>>
<1>1. CASE UNCHANGED vars
  BY <1>1 DEF vars, serverVars, readerVars, Unhandled
<1>2. ASSUME NEW m \in Message, WriteMessage(m) PROVE Pipe!Next
  BY <1>2, WriteIsWrite DEF Pipe!Next
<1>3. ASSUME NEW bytes \in Other, WriteOther(bytes) PROVE UNCHANGED <<Unhandled, handled>>
  BY <1>3 DEF WriteOther, readerVars, Unhandled
<1>4. ASSUME NEW n \in 1..(Len(stream) - arrived), OnData(n)
      PROVE  [Pipe!Next]_<<Unhandled, handled>>
  <2> HIDE DEF Unhandled
  <2> QED BY <1>4, OnDataTakes DEF Pipe!Next
<1> QED BY <1>1, <1>2, <1>3, <1>4 DEF Next

\* The reader implements the pipe of messages that LspClient reads from: bytes,
\* chunks and what is between the messages do not show.
THEOREM PipeCorrect == Spec => ImplementsMessagePipe
<1>1. Init => Pipe!Init
  <2> SUFFICES ASSUME Init PROVE Pipe!Init
    OBVIOUS
  <2>1. handled = <<>> /\ Len(sent) - Len(handled) = 0
    BY DEF Init
  <2>2. Unhandled = <<>>
    BY <2>1 DEF Unhandled
  <2> QED BY <2>1, <2>2 DEF Pipe!Init
<1>2. FramingInv /\ FramingInv' /\ EveryMessageOnce /\ EveryMessageOnce' /\ [Next]_vars
        => [Pipe!Next]_<<Unhandled, handled>>
  BY FramingPipes
<1> QED BY <1>1, <1>2, FramingInvariance, EveryMessageOnceHolds, PTL
        DEF Spec, ImplementsMessagePipe, Pipe!Spec
=============================================================================
