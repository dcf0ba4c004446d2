------------------------ MODULE SubcellNavigatorProofs ------------------------
(***************************************************************************)
(* Integer division; the renderer's arithmetic on pixels; and the proofs   *)
(* about SubcellNavigator, for every grid and every size of the monitors.  *)
(***************************************************************************)
EXTENDS OverlayFrame, PixelBlending, SequenceTheorems, TLAPS

-----------------------------------------------------------------------------
\* Integer division by a positive divisor.
LEMMA DivBounds ==
  ASSUME NEW n \in Int, NEW d \in Nat \ {0}
  PROVE  /\ n \div d \in Int
         /\ d * (n \div d) <= n
         /\ n < d * (n \div d) + d
  BY SMT

\* a \div d <= p iff a < (p + 1) * d.
LEMMA DivAtMost ==
  ASSUME NEW n \in Int, NEW d \in Nat \ {0}, NEW p \in Int
  PROVE  n \div d <= p <=> n < d * p + d
<1> DEFINE q == n \div d
<1>1. q \in Int /\ d * q <= n /\ n < d * q + d
  BY DivBounds
<1> HIDE DEF q
<1>2. ASSUME q <= p PROVE n < d * p + d
  <2>1. d * q <= d * p
    BY <1>1, <1>2, SMT
  <2> QED BY <1>1, <2>1, SMT
<1>3. ASSUME n < d * p + d, p < q PROVE FALSE
  <2>1. p + 1 <= q
    BY <1>1, <1>3, SMT
  <2>2. d * (p + 1) <= d * q
    BY <1>1, <2>1, SMT
  <2> QED BY <1>1, <1>3, <2>2, SMT
<1> QED BY <1>1, <1>2, <1>3, SMT DEF q

\* k <= n \div d iff k * d <= n.
LEMMA AtMostDiv ==
  ASSUME NEW n \in Int, NEW d \in Nat \ {0}, NEW k \in Int
  PROVE  k <= n \div d <=> d * k <= n
<1> DEFINE q == n \div d
<1>1. q \in Int /\ d * q <= n /\ n < d * q + d
  BY DivBounds
<1> HIDE DEF q
<1>2. ASSUME k <= q PROVE d * k <= n
  <2>1. d * k <= d * q
    BY <1>1, <1>2, SMT
  <2> QED BY <1>1, <2>1, SMT
<1>3. ASSUME d * k <= n, q < k PROVE FALSE
  <2>1. d * (q + 1) <= d * k
    BY <1>1, <1>3, SMT
  <2> QED BY <1>1, <1>3, <2>1, SMT
<1> QED BY <1>1, <1>2, <1>3, SMT DEF q

-----------------------------------------------------------------------------
\* A product is monotone in a factor.
LEMMA Monotone ==
  ASSUME NEW k \in Nat, NEW a \in Int, NEW b \in Int, a <= b
  PROVE  /\ k * a \in Int /\ k * b \in Int /\ k * a <= k * b
         /\ a * k = k * a /\ b * k = k * b
<1>1. k * (b - a) \in Nat
  BY SMT
<1>2. k * a \in Int /\ k * b \in Int /\ k * (b - a) = k * b - k * a
  BY SMT
<1>3. a * k = k * a /\ b * k = k * b
  BY SMT
<1> QED BY <1>1, <1>2, <1>3, SMT

\* minInt and maxInt of two values of a channel.
LEMMA Ends ==
  ASSUME NEW a \in Channel, NEW b \in Channel
  PROVE  /\ Lower(a, b) \in Channel /\ Higher(a, b) \in Channel
         /\ Lower(a, b) <= a /\ Lower(a, b) <= b
         /\ a <= Higher(a, b) /\ b <= Higher(a, b)
         /\ Higher(a, b) \in {a, b}
  BY SMT DEF Lower, Higher, Channel

\* A value of a channel is the same after its conversion.
LEMMA ByteOfChannel ==
  ASSUME NEW n \in Channel
  PROVE  Byte(n) = n
  BY SMT DEF Byte, Channel

\* A weighted sum of two values lies between them, times the weights.
LEMMA WeightedSum ==
  ASSUME NEW v \in Nat, NEW w \in Nat, NEW a \in Channel, NEW b \in Channel
  PROVE  /\ a * v + b * w \in Nat
         /\ (v + w) * Lower(a, b) <= a * v + b * w
         /\ a * v + b * w <= (v + w) * Higher(a, b)
<1> DEFINE low == Lower(a, b)
           high == Higher(a, b)
<1>1. /\ low \in Nat /\ high \in Nat /\ a \in Nat /\ b \in Nat
      /\ low <= a /\ low <= b /\ a <= high /\ b <= high
  <2>1. /\ low \in Channel /\ high \in Channel
        /\ low <= a /\ low <= b /\ a <= high /\ b <= high
    BY Ends
  <2> HIDE DEF low, high
  <2> QED BY <2>1, SMT DEF Channel
<1> HIDE DEF low, high
<1>2. v * low <= v * a /\ w * low <= w * b /\ a * v = v * a /\ b * w = w * b
  BY <1>1, Monotone
<1>3. v * a <= v * high /\ w * b <= w * high
  BY <1>1, Monotone
<1>4. (v + w) * low = v * low + w * low /\ (v + w) * high = v * high + w * high
  BY <1>1, SMT
<1>5. v * a \in Nat /\ w * b \in Nat
  BY <1>1, SMT
<1>6. v * low \in Int /\ w * low \in Int /\ v * high \in Int /\ w * high \in Int
  BY <1>1, SMT
<1>7. /\ a * v + b * w \in Nat
      /\ (v + w) * low <= a * v + b * w
      /\ a * v + b * w <= (v + w) * high
  BY <1>2, <1>3, <1>4, <1>5, <1>6, SMT
<1> QED BY <1>7 DEF low, high

\* The new alpha, times 255, for the old alpha d and that of what is drawn, s.
LEMMA AlphaSum ==
  ASSUME NEW s \in Channel, NEW d \in Channel
  PROVE  LET t == 255 * s + d * (255 - s)
         IN /\ t \in Nat /\ d * (255 - s) \in Nat
            /\ 255 * s <= t /\ 255 * d <= t /\ t <= 255 * 255
<1>1. s \in Int /\ 0 <= s /\ s <= 255 /\ d \in Int /\ 0 <= d /\ d <= 255
  BY DEF Channel
<1> DEFINE k == 255 - s
<1>2. k \in Nat /\ k <= 255 /\ s = 255 - k
  BY <1>1, SMT
<1> HIDE DEF k
<1>3. /\ k * 0 <= k * d /\ k * d <= k * 255 /\ k * d \in Int
      /\ d * k = k * d
  BY <1>1, <1>2, Monotone
<1>4. (255 - d) * k \in Nat /\ (255 - d) * k = 255 * k - d * k
  BY <1>1, <1>2, SMT
<1>5. (255 - k) * (255 - d) \in Nat /\ (255 - k) * (255 - d) = 255 * 255 - 255 * k - 255 * d + k * d
  BY <1>1, <1>2, SMT
<1>6. LET t == 255 * s + d * k
      IN /\ t \in Nat /\ d * k \in Nat
         /\ 255 * s <= t /\ 255 * d <= t /\ t <= 255 * 255
  BY <1>1, <1>2, <1>3, <1>4, <1>5, SMT
<1> QED BY <1>6 DEF k

-----------------------------------------------------------------------------
\* The shm buffer's colour never exceeds its alpha (PremultiplyARGBPixel).
THEOREM PremultipliedAlways ==
  ASSUME NEW p \in Pixel
  PROVE  Premultiplied(p)
<1> DEFINE n == p.c * p.a + 127
           q == n \div 255
<1>1. p.a \in Channel /\ p.c \in Channel
  BY DEF Pixel
<1>2. ASSUME NEW a \in Channel, NEW c \in Channel
      PROVE  c * a + 127 \in Int /\ 255 * 0 <= c * a + 127 /\ c * a + 127 < 255 * a + 255
  <2>1. a \in Nat /\ c \in Int /\ 0 <= c /\ c <= 255
    BY DEF Channel
  <2>2. a * 0 <= a * c /\ a * c <= a * 255 /\ c * a = a * c /\ a * c \in Int
    BY <2>1, Monotone
  <2> QED BY <2>1, <2>2, SMT
<1>3. n \in Int /\ 255 * 0 <= n /\ n < 255 * p.a + 255
  BY <1>1, <1>2
<1> HIDE DEF n
<1>4. 255 \in Nat \ {0} /\ 0 \in Int /\ p.a \in Int /\ p.a <= 255
  BY <1>1 DEF Channel
<1>5. q \in Int /\ 0 <= q
  BY <1>3, <1>4, DivBounds, AtMostDiv
<1>6. q <= p.a
  BY <1>3, <1>4, DivAtMost
<1> HIDE DEF q
<1>7. q \in Channel
  BY <1>4, <1>5, <1>6, SMT DEF Channel
<1>8. Premultiply(p) = [a |-> p.a, c |-> q]
  BY <1>7, ByteOfChannel DEF Premultiply, q, n
<1> QED BY <1>1, <1>6, <1>7, <1>8 DEF Premultiplied, Pixel

\* The weights of a blended pixel, and the weighted sum of the colours.
LEMMA Blending ==
  ASSUME NEW src \in Pixel, NEW dst \in Pixel
  PROVE  /\ Total(src, dst) \in Nat
         /\ 255 * src.a <= Total(src, dst)
         /\ 255 * dst.a <= Total(src, dst)
         /\ Total(src, dst) <= 255 * 255
         /\ Mixed(src, dst) \in Nat
         /\ Total(src, dst) * Lower(src.c, dst.c) <= Mixed(src, dst)
         /\ Mixed(src, dst) <= Total(src, dst) * Higher(src.c, dst.c)
<1>1. src.a \in Channel /\ dst.a \in Channel /\ src.c \in Channel /\ dst.c \in Channel
  BY DEF Pixel
<1>2. /\ Total(src, dst) \in Nat /\ Rest(src, dst) \in Nat
      /\ 255 * src.a <= Total(src, dst) /\ 255 * dst.a <= Total(src, dst)
      /\ Total(src, dst) <= 255 * 255
  BY <1>1, AlphaSum DEF Total, Weight, Rest
<1>3. Weight(src) \in Nat
  BY <1>1, SMT DEF Weight, Channel
<1>4. /\ Mixed(src, dst) \in Nat
      /\ Total(src, dst) * Lower(src.c, dst.c) <= Mixed(src, dst)
      /\ Mixed(src, dst) <= Total(src, dst) * Higher(src.c, dst.c)
  BY <1>1, <1>2, <1>3, WeightedSum DEF Mixed, Total
<1> QED BY <1>2, <1>4

\* blendStraightChannel computes in a uint32, which is enough.
THEOREM FitsAlways ==
  ASSUME NEW src \in Pixel, NEW dst \in Pixel
  PROVE  Fits(src, dst)
<1> DEFINE t == Total(src, dst)
           m == Mixed(src, dst)
           high == Higher(src.c, dst.c)
<1>1. t \in Nat /\ t <= 65025 /\ m \in Nat /\ m <= t * high
  BY Blending
<1>2. high \in Int /\ high <= 255
  <2>1. src.c \in Channel /\ dst.c \in Channel
    BY DEF Pixel
  <2>2. high \in Channel
    BY <2>1, Ends
  <2> HIDE DEF high
  <2> QED BY <2>2, SMT DEF Channel
<1> HIDE DEF t, m, high
<1>3. t * high <= t * 255 /\ t * high \in Int
  BY <1>1, <1>2, Monotone
<1>4. t \div 2 \in Nat /\ t \div 2 <= t
  BY <1>1, SMT
<1>5. m + t \div 2 \in Nat /\ m + t \div 2 <= 256 * 65025
  BY <1>1, <1>3, <1>4, SMT
<1>6. 256 * 65025 <= HalfUint32 /\ HalfUint32 \in Nat
  BY SMT DEF HalfUint32
<1> HIDE DEF HalfUint32
<1>7. m + t \div 2 \in 0 .. HalfUint32
  BY <1>5, <1>6, SMT
<1> QED BY <1>7 DEF Fits, t, m

\* The new alpha is at least the two it is made of.
LEMMA AlphaQuotient ==
  ASSUME NEW t \in Nat, NEW s \in Channel, 255 * s <= t, t <= 255 * 255
  PROVE  (t + 127) \div 255 \in Channel /\ s <= (t + 127) \div 255
<1> DEFINE n == t + 127
<1>1. n \in Int /\ 255 * s <= n /\ n < 255 * 255 + 255 /\ s \in Int /\ 0 <= s
  BY SMT DEF Channel
<1>2. 255 \in Nat \ {0} /\ 255 \in Int
  BY SMT
<1> HIDE DEF n
<1>3. n \div 255 \in Int
  BY <1>1, <1>2, DivBounds
<1>4. s <= n \div 255
  BY <1>1, <1>2, AtMostDiv
<1>5. n \div 255 <= 255
  BY <1>1, <1>2, DivAtMost
<1>6. n \div 255 \in Channel
  BY <1>1, <1>3, <1>4, <1>5, SMT DEF Channel
<1> QED BY <1>4, <1>6 DEF n

\* The weighted mean, rounded, lies between the ends.
LEMMA BlendQuotient ==
  ASSUME NEW t \in Nat \ {0}, NEW m \in Nat, NEW low \in Channel, NEW high \in Channel,
         t * low <= m, m <= t * high
  PROVE  (m + t \div 2) \div t \in Channel /\ (m + t \div 2) \div t \in low .. high
<1> DEFINE half == t \div 2
           k == m + half
<1>1. low \in Int /\ high \in Int /\ 0 <= low /\ high <= 255
  BY DEF Channel
<1>2. half \in Nat /\ half < t
  BY SMT
<1> HIDE DEF half
<1>3. t * low \in Int /\ t * high \in Int
  BY <1>1, SMT
<1>4. k \in Int /\ t * low <= k /\ k < t * high + t
  BY <1>2, <1>3, SMT
<1> HIDE DEF k
<1>5. k \div t \in Int
  BY <1>4, DivBounds
<1>6. low <= k \div t
  BY <1>1, <1>4, AtMostDiv
<1>7. k \div t <= high
  BY <1>1, <1>4, DivAtMost
<1>8. k \div t \in Channel /\ k \div t \in low .. high
  BY <1>1, <1>5, <1>6, <1>7, SMT DEF Channel
<1> QED BY <1>8 DEF k, half

\* What is drawn over a pixel leaves it no more transparent than either of the
\* two, and with a colour between theirs (AlphaOverStraightARGB).
THEOREM CoversAlways ==
  ASSUME NEW src \in Pixel, NEW dst \in Pixel
  PROVE  Covers(src, dst)
<1>1. src.a \in Channel /\ src.c \in Channel /\ dst.a \in Channel /\ dst.c \in Channel
  BY DEF Pixel
<1>2. /\ Lower(src.c, dst.c) \in Channel /\ Higher(src.c, dst.c) \in Channel
      /\ src.c \in Lower(src.c, dst.c) .. Higher(src.c, dst.c)
      /\ dst.c \in Lower(src.c, dst.c) .. Higher(src.c, dst.c)
  <2> DEFINE low == Lower(src.c, dst.c)
             high == Higher(src.c, dst.c)
  <2>1. /\ low \in Channel /\ high \in Channel
        /\ low <= src.c /\ low <= dst.c /\ src.c <= high /\ dst.c <= high
    BY <1>1, Ends
  <2> HIDE DEF low, high
  <2>2. low \in Channel /\ high \in Channel /\ src.c \in low .. high /\ dst.c \in low .. high
    BY <1>1, <2>1, SMT DEF Channel
  <2> QED BY <2>2 DEF low, high
<1>3. CASE src.a = 0
  <2>1. AlphaOver(src, dst) = dst
    BY <1>3 DEF AlphaOver
  <2>2. dst.a >= Higher(src.a, dst.a)
    BY <1>1, <1>3, SMT DEF Higher, Channel
  <2> QED BY <1>2, <2>1, <2>2 DEF Covers
<1>4. CASE src.a # 0 /\ (src.a = 255 \/ dst.a = 0)
  <2>1. AlphaOver(src, dst) = src
    BY <1>4 DEF AlphaOver
  <2>2. src.a >= Higher(src.a, dst.a)
    BY <1>1, <1>4, SMT DEF Higher, Channel
  <2> QED BY <1>2, <2>1, <2>2 DEF Covers
<1>5. CASE src.a # 0 /\ ~(src.a = 255 \/ dst.a = 0)
  <2> DEFINE alpha == (Total(src, dst) + 127) \div 255
             blend == Blend(src, dst)
             low == Lower(src.c, dst.c)
             high == Higher(src.c, dst.c)
  <2>1. Total(src, dst) \in Nat \ {0}
    <3>1. 255 * src.a > 0
      BY <1>1, <1>5, SMT DEF Channel
    <3> QED BY <3>1, <1>1, Blending, SMT DEF Channel
  <2>2. alpha \in Channel /\ src.a <= alpha /\ dst.a <= alpha
    BY <1>1, Blending, AlphaQuotient
  <2>3. blend \in Channel /\ blend \in low .. high
    BY <1>2, <2>1, Blending, BlendQuotient DEF Blend
  <2>4. AlphaOver(src, dst) = [a |-> alpha, c |-> blend]
    BY <1>5, <2>2, <2>3, ByteOfChannel DEF AlphaOver
  <2> HIDE DEF alpha, blend, low, high
  <2>5. [a |-> alpha, c |-> blend] \in Pixel
    BY <2>2, <2>3 DEF Pixel
  <2>6. alpha >= Higher(src.a, dst.a)
    <3>1. Higher(src.a, dst.a) \in {src.a, dst.a}
      BY <1>1, Ends
    <3> QED BY <1>1, <2>2, <3>1, SMT DEF Channel
  <2> QED BY <2>3, <2>4, <2>5, <2>6 DEF Covers, low, high
<1> QED BY <1>3, <1>4, <1>5

-----------------------------------------------------------------------------
(* How the spans of partitionSpans cover a line of pixels. *)

\* Span i starts at 0 or later and ends at the total or before.
LEMMA SpanInside ==
  ASSUME NEW total \in Nat \ {0}, NEW parts \in Nat \ {0}, NEW i \in 0 .. parts - 1
  PROVE  LET span == PartitionSpans(total, parts)[i]
         IN /\ span.start \in Nat /\ span.finish \in Nat
            /\ span.start <= span.finish /\ span.finish <= total
<1> DEFINE low == (i * total) \div parts
           high == ((i + 1) * total) \div parts
<1>1. i * total \in Nat /\ (i + 1) * total \in Nat /\ (i + 1) * total = i * total + total
  BY SMT
<1>2. low \in Int /\ parts * low <= i * total /\ i * total < parts * low + parts
  BY <1>1, DivBounds
<1>3. high \in Int /\ parts * high <= (i + 1) * total /\ (i + 1) * total < parts * high + parts
  BY <1>1, DivBounds
<1>4. 0 <= low
  <2>1. parts * 0 <= i * total
    BY <1>1, SMT
  <2> QED BY <1>1, <2>1, AtMostDiv
<1>5. parts * low <= (i + 1) * total
  BY <1>1, <1>2, SMT
<1>6. low <= high
  <2> HIDE DEF low
  <2> QED BY <1>1, <1>2, <1>5, AtMostDiv
<1>7. (i + 1) * total <= parts * total
  BY SMT
<1>8. (i + 1) * total < parts * total + parts
  BY <1>1, <1>7, SMT
<1>9. high <= total
  BY <1>1, <1>8, DivAtMost
<1>10. PartitionSpans(total, parts)[i] = [start |-> low, finish |-> high]
  BY DEF PartitionSpans, SpanStart
<1> HIDE DEF low, high
<1> QED BY <1>2, <1>3, <1>4, <1>6, <1>9, <1>10, SMT

\* A pixel lies in span ((pixel + 1) * parts - 1) \div total and in no other.
LEMMA PixelInOneSpan ==
  ASSUME NEW total \in Nat \ {0}, NEW parts \in Nat \ {0}, NEW pixel \in 0 .. total - 1
  PROVE  \E column \in 0 .. parts - 1 : \A i \in 0 .. parts - 1 :
           LET span == PartitionSpans(total, parts)[i]
           IN span.start <= pixel /\ pixel < span.finish <=> i = column
<1> DEFINE n == parts * pixel + parts - 1
           c == n \div total
<1>1. n \in Nat /\ parts * pixel + parts = n + 1
  BY SMT
<1>2. parts * pixel + parts <= total * parts
  <2>1. parts * (pixel + 1) <= parts * total
    BY SMT
  <2> QED BY <2>1, SMT
<1> HIDE DEF n
<1>3. c \in Int /\ 0 <= c
  BY <1>1, DivBounds, AtMostDiv, SMT
<1>4. c <= parts - 1
  <2>1. n < total * (parts - 1) + total
    BY <1>1, <1>2, SMT
  <2> QED BY <1>1, <2>1, DivAtMost, SMT
<1>5. ASSUME NEW i \in 0 .. parts - 1
      PROVE  LET span == PartitionSpans(total, parts)[i]
             IN span.start <= pixel /\ pixel < span.finish <=> i = c
  <2> DEFINE low == (i * total) \div parts
             high == ((i + 1) * total) \div parts
  <2>1. PartitionSpans(total, parts)[i] = [start |-> low, finish |-> high]
    BY DEF PartitionSpans, SpanStart
  <2>2. i * total \in Int /\ (i + 1) * total \in Int
    BY SMT
  <2>3. low <= pixel <=> total * i <= n
    <3>1. low <= pixel <=> i * total < parts * pixel + parts
      BY <2>2, DivAtMost
    <3> HIDE DEF low
    <3>2. i * total = total * i /\ total * i \in Int
      BY SMT
    <3> QED BY <1>1, <3>1, <3>2, SMT
  <2>4. high <= pixel <=> total * (i + 1) <= n
    <3>1. high <= pixel <=> (i + 1) * total < parts * pixel + parts
      BY <2>2, DivAtMost
    <3> HIDE DEF high
    <3>2. (i + 1) * total = total * (i + 1) /\ total * (i + 1) \in Int
      BY SMT
    <3> QED BY <1>1, <3>1, <3>2, SMT
  <2>5. i <= c <=> total * i <= n
    BY <1>1, AtMostDiv
  <2>6. i + 1 <= c <=> total * (i + 1) <= n
    BY <1>1, AtMostDiv
  <2>7. low \in Int /\ high \in Int
    BY <2>2, DivBounds
  <2> HIDE DEF low, high, c
  <2> QED BY <1>3, <2>1, <2>3, <2>4, <2>5, <2>6, <2>7, SMT
<1> HIDE DEF c
<1>6. c \in 0 .. parts - 1
  BY <1>3, <1>4, SMT
<1> QED BY <1>5, <1>6

-----------------------------------------------------------------------------
(* The operators of the actions. *)

LEMMA ClampInside ==
  ASSUME NEW v \in Int, NEW low \in Int, NEW high \in Int, low <= high
  PROVE  Clamp(v, low, high) \in low..high
  BY SMT DEF Clamp

LEMMA CountInside ==
  ASSUME NEW axisSize \in Nat
  PROVE  HiddenSubcellCount(axisSize, Pixels) \in 1..MaxCount
<1>1. 2 * Pixels \in Nat \ {0} /\ 2 * axisSize + Pixels \in Int
  BY NavigatorAssumption, SMT
<1>2. RoundDiv(axisSize, Pixels) \in Int
  BY <1>1, DivBounds DEF RoundDiv
<1>3. MaxCount \in Int /\ 1 \in Int /\ 1 <= MaxCount
  BY SMT DEF MaxCount
<1> QED BY <1>2, <1>3, ClampInside DEF HiddenSubcellCount

\* The centre of a span is on the monitor.
LEMMA CenterInside ==
  ASSUME NEW span \in Span, NEW total \in Nat, NEW n \in 1..MaxCount,
         span.start <= span.finish, span.finish <= total
  PROVE  Center(span, n) \in 0..Units(total, n)
<1>1. span.start \in Nat /\ span.finish \in Nat /\ n \in Nat
  BY SMT DEF Span
<1>2. n * (span.start + span.finish) <= n * (2 * total)
  BY <1>1, SMT
<1>3. n * (span.start + span.finish) \in Nat
  BY <1>1, SMT
<1>4. n * (2 * total) = 2 * n * total
  BY <1>1, SMT
<1> QED BY <1>2, <1>3, <1>4, SMT DEF Center, Units

\* What Select leaves: a cell of the grid, and the navigator in its centre.
LEMMA SelectInside ==
  ASSUME NEW sizes \in [Axes -> Sizes], NEW word \in [Axes -> 0 .. GridSize - 1],
         Select(sizes, word)
  PROVE  /\ cell' \in [Axes -> Span] /\ count' \in [Axes -> 1..MaxCount]
         /\ at' \in [Axes -> Nat]
         /\ \A a \in Axes : at'[a] \in 0..Units(sizes[a], count'[a])
<1> DEFINE span(a) == PartitionSpans(sizes[a], GridSize)[word[a]]
           n(a) == HiddenSubcellCount(SpanSize(span(a)), Pixels)
<1>1. ASSUME NEW a \in Axes
      PROVE  /\ span(a) \in Span /\ n(a) \in 1..MaxCount
             /\ Center(span(a), n(a)) \in 0..Units(sizes[a], n(a))
  <2>1. sizes[a] \in Nat \ {0} /\ GridSize \in Nat \ {0} /\ word[a] \in 0 .. GridSize - 1
    <3>1. sizes[a] \in Sizes /\ word[a] \in 0 .. GridSize - 1
      OBVIOUS
    <3>2. Sizes \subseteq Nat \ {0}
      BY NavigatorAssumption
    <3>3. GridSize \in 1..26
      BY NavigatorAssumption
    <3>4. sizes[a] \in Nat \ {0}
      BY <3>1, <3>2
    <3>5. GridSize \in Nat \ {0}
      BY <3>3, SMT
    <3> QED BY <3>1, <3>4, <3>5
  <2>2. /\ span(a).start \in Nat /\ span(a).finish \in Nat
        /\ span(a).start <= span(a).finish /\ span(a).finish <= sizes[a]
    BY <2>1, SpanInside
  <2>3. span(a) \in Span
    BY <2>1, <2>2 DEF Span, PartitionSpans
  <2>4. SpanSize(span(a)) \in Nat
    <3> HIDE DEF span
    <3> QED BY <2>2, SMT DEF SpanSize
  <2>5. n(a) \in 1..MaxCount
    BY <2>4, CountInside
  <2> HIDE DEF span, n
  <2> QED BY <2>1, <2>2, <2>3, <2>5, CenterInside
<1>2. /\ cell' = [a \in Axes |-> span(a)] /\ count' = [a \in Axes |-> n(a)]
      /\ at' = [a \in Axes |-> Center(span(a), n(a))]
  BY DEF Select, SelectedCell
<1> HIDE DEF span, n
<1>3. \A a \in Axes : Center(span(a), n(a)) \in Nat
  <2> SUFFICES ASSUME NEW a \in Axes PROVE Center(span(a), n(a)) \in Nat
    OBVIOUS
  <2> QED BY <1>1, SMT
<1> QED BY <1>1, <1>2, <1>3

\* What MoveAbsolute leaves, whatever it is asked for.
LEMMA MoveAbsoluteTypes ==
  ASSUME TypeOK, NEW target, NEW counts, MoveAbsolute(target, counts)
  PROVE  /\ known' \in [Axes -> Sizes] \cup {[a \in Axes |-> 0]}
         /\ request' \in [Axes -> Nat] /\ failed' \in BOOLEAN
<1>1. known' \in [Axes -> Sizes] \cup {[a \in Axes |-> 0]}
  BY DEF TypeOK, MoveAbsolute
<1>2. CASE LayoutKnown /\ \A a \in Axes : Accepted(a, target[a], counts[a])
  <2>1. request' = [a \in Axes |-> Requested(a, target[a], counts[a])] /\ failed' = failed
    BY <1>2 DEF MoveAbsolute
  <2>2. \A a \in Axes : Requested(a, target[a], counts[a]) \in Nat
    <3> SUFFICES ASSUME NEW a \in Axes PROVE Requested(a, target[a], counts[a]) \in Nat
      OBVIOUS
    <3>1. Requested(a, target[a], counts[a]) \in 0..Limit(a)
      BY <1>2 DEF Accepted
    <3> QED BY <3>1, SMT
  <2> QED BY <1>1, <2>1, <2>2 DEF TypeOK
<1>3. CASE ~(LayoutKnown /\ \A a \in Axes : Accepted(a, target[a], counts[a]))
  BY <1>1, <1>3 DEF MoveAbsolute, TypeOK
<1> QED BY <1>2, <1>3

\* A move along one axis stays on the monitor.
LEMMA MovedInside ==
  ASSUME TypeOK, NEW a \in Axes, NEW towards \in {-1, 1}, NEW subcells \in 1..4
  PROVE  MovedOn(a, towards, subcells) \in 0..Units(size[a], count[a])
<1>1. size[a] \in Sizes /\ count[a] \in 1..MaxCount /\ cell[a] \in Span /\ at[a] \in Nat
  BY DEF TypeOK
<1>2. Sizes \subseteq Nat \ {0}
  BY NavigatorAssumption
<1>3. size[a] \in Nat /\ count[a] \in Nat
  <2>1. size[a] \in Nat
    BY <1>1, <1>2
  <2>2. count[a] \in Nat
    BY <1>1, SMT
  <2> QED BY <2>1, <2>2
<1>4. Units(size[a], count[a]) \in Int /\ 0 <= Units(size[a], count[a])
  BY <1>3, SMT DEF Units
<1>5. cell[a].start \in Nat /\ cell[a].finish \in Nat
  BY <1>1 DEF Span
<1>6. StepUnits(cell[a], subcells) \in Int
  BY <1>5, SMT DEF StepUnits, SpanSize
<1>7. at[a] + towards * StepUnits(cell[a], subcells) \in Int
  BY <1>1, <1>6, SMT
<1> QED BY <1>4, <1>7, ClampInside DEF MovedOn, Moved

-----------------------------------------------------------------------------
(* The invariant of the navigator. *)

NavigatorInv == TypeOK /\ InsideMonitor

LEMMA NavigatorInit == Init => NavigatorInv
<1> SUFFICES ASSUME Init PROVE NavigatorInv
  OBVIOUS
<1>1. GridSize \in 1..26 /\ MaxMoves \in Nat
  BY NavigatorAssumption
<1>2. 0 \in 0 .. GridSize - 1 /\ 1 \in 1..MaxCount /\ 0 \in 0..MaxMoves /\ 0 \in 0..2
  BY <1>1, SMT DEF MaxCount
<1> QED BY <1>2 DEF Init, BindingMode, NavigatorInv, TypeOK, InsideMonitor, Span

LEMMA AddLetterInv ==
  ASSUME NavigatorInv, NEW letter \in 0..GridSize, AddLetter(letter)
  PROVE  NavigatorInv'
<1> USE DEF NavigatorInv
<1>1. input' \in 0..2
  BY SMT DEF TypeOK, AddLetter
<1>2. letters' \in [Axes -> 0 .. GridSize - 1]
  <2>1. letter \in 0 .. GridSize - 1
    BY NavigatorAssumption, SMT DEF AddLetter, OnGrid, Labels
  <2> QED BY <2>1 DEF TypeOK, AddLetter
<1>3. CASE input = 0 /\ UNCHANGED <<selected, known, navigatorVars, request, failed>>
  BY <1>1, <1>2, <1>3 DEF TypeOK, InsideMonitor, AddLetter, layoutVars, navigatorVars
<1>4. CASE selected' = TRUE /\ Select(size, letters') /\ MoveAbsolute(at', count')
  <2>1. size \in [Axes -> Sizes]
    BY DEF TypeOK
  <2>2. /\ cell' \in [Axes -> Span] /\ count' \in [Axes -> 1..MaxCount]
        /\ at' \in [Axes -> Nat]
        /\ \A a \in Axes : at'[a] \in 0..Units(size[a], count'[a])
    BY <1>2, <1>4, <2>1, SelectInside
  <2>3. /\ known' \in [Axes -> Sizes] \cup {[a \in Axes |-> 0]}
        /\ request' \in [Axes -> Nat] /\ failed' \in BOOLEAN
    BY <1>4, MoveAbsoluteTypes
  <2> QED BY <1>1, <1>2, <1>4, <2>2, <2>3 DEF TypeOK, InsideMonitor, AddLetter, layoutVars
<1>5. CASE failed' = TRUE /\ UNCHANGED <<selected, known, navigatorVars, request>>
  BY <1>1, <1>2, <1>5 DEF TypeOK, InsideMonitor, AddLetter, layoutVars, navigatorVars
<1> QED BY <1>3, <1>4, <1>5 DEF AddLetter

LEMMA BackspaceInv == NavigatorInv /\ Backspace => NavigatorInv'
<1> SUFFICES ASSUME NavigatorInv, Backspace PROVE NavigatorInv'
  OBVIOUS
<1>1. input' \in 0..2
  BY SMT DEF NavigatorInv, TypeOK, Backspace
<1>2. 1 \in 1..MaxCount
  BY SMT DEF MaxCount
<1> QED BY <1>1, <1>2 DEF NavigatorInv, TypeOK, InsideMonitor, Backspace, layoutVars, Span

LEMMA MoveInv ==
  ASSUME NavigatorInv, NEW a \in Axes, NEW towards \in {-1, 1}, NEW subcells \in 1..4,
         Move(a, towards, subcells)
  PROVE  NavigatorInv'
<1> USE DEF NavigatorInv
<1>1. moves' \in 0..MaxMoves
  BY NavigatorAssumption, SMT DEF TypeOK, Move
<1>2. MovedOn(a, towards, subcells) \in 0..Units(size[a], count[a])
  BY MovedInside
<1>3. at' = [at EXCEPT ![a] = MovedOn(a, towards, subcells)]
  BY DEF Move
<1>4. MovedOn(a, towards, subcells) \in Nat
  BY <1>2, SMT
<1>5. at' \in [Axes -> Nat]
  BY <1>3, <1>4 DEF TypeOK
<1>6. /\ known' \in [Axes -> Sizes] \cup {[b \in Axes |-> 0]}
      /\ request' \in [Axes -> Nat] /\ failed' \in BOOLEAN
  BY MoveAbsoluteTypes DEF Move
<1>7. \A b \in Axes : at'[b] \in 0..Units(size[b], count[b])
  BY <1>2, <1>3 DEF TypeOK, InsideMonitor, Move
<1> QED BY <1>1, <1>5, <1>6, <1>7 DEF TypeOK, InsideMonitor, Move, layoutVars

LEMMA ReconfigureInv ==
  ASSUME NavigatorInv, NEW sizes \in [Axes -> Sizes], Reconfigure(sizes)
  PROVE  NavigatorInv'
<1> USE DEF NavigatorInv
<1>1. CASE ~selected /\ UNCHANGED <<navigatorVars, failed>>
  BY <1>1 DEF TypeOK, InsideMonitor, Reconfigure, layoutVars, navigatorVars
<1>2. CASE selected /\ Select(sizes, letters) /\ UNCHANGED failed
  <2>1. letters \in [Axes -> 0 .. GridSize - 1]
    BY DEF TypeOK
  <2>2. /\ cell' \in [Axes -> Span] /\ count' \in [Axes -> 1..MaxCount]
        /\ at' \in [Axes -> Nat]
        /\ \A a \in Axes : at'[a] \in 0..Units(sizes[a], count'[a])
    BY <1>2, <2>1, SelectInside
  <2> QED BY <1>2, <2>2 DEF TypeOK, InsideMonitor, Reconfigure, layoutVars
<1>3. CASE failed' = TRUE /\ UNCHANGED navigatorVars
  BY <1>3 DEF TypeOK, InsideMonitor, Reconfigure, layoutVars, navigatorVars
<1> QED BY <1>1, <1>2, <1>3 DEF Reconfigure

LEMMA NavigatorStep == NavigatorInv /\ [Next]_vars => NavigatorInv'
<1> SUFFICES ASSUME NavigatorInv, [Next]_vars PROVE NavigatorInv'
  OBVIOUS
<1>1. CASE \E letter \in 0..GridSize : AddLetter(letter)
  BY <1>1, AddLetterInv
<1>2. CASE Backspace
  BY <1>2, BackspaceInv
<1>3. CASE \E a \in Axes, towards \in {-1, 1}, subcells \in 1..4 : Move(a, towards, subcells)
  BY <1>3, MoveInv
<1>4. CASE \E sizes \in [Axes -> Sizes] : Reconfigure(sizes)
  BY <1>4, ReconfigureInv
<1>5. CASE UNCHANGED vars
  BY <1>5 DEF NavigatorInv, TypeOK, InsideMonitor, vars, layoutVars, navigatorVars
<1> QED BY <1>1, <1>2, <1>3, <1>4, <1>5 DEF Next

\* The state keeps its types, whatever the grid, the monitor and the moves.
THEOREM TypeInvariant == Spec => []TypeOK
<1>1. Init => NavigatorInv
  BY NavigatorInit
<1>2. NavigatorInv /\ [Next]_vars => NavigatorInv'
  BY NavigatorStep
<1>3. NavigatorInv => TypeOK
  BY DEF NavigatorInv
<1> QED BY <1>1, <1>2, <1>3, PTL DEF Spec

\* The navigator never leaves the monitor (hiddenSubcellNavigator.Move and the
\* reconfiguration of a session).
THEOREM InsideMonitorAlways == Spec => []InsideMonitor
<1>1. Init => NavigatorInv
  BY NavigatorInit
<1>2. NavigatorInv /\ [Next]_vars => NavigatorInv'
  BY NavigatorStep
<1>3. NavigatorInv => InsideMonitor
  BY DEF NavigatorInv
<1> QED BY <1>1, <1>2, <1>3, PTL DEF Spec

\* Every logical pixel belongs to exactly one cell, for every monitor size and
\* every grid size the configuration allows (partitionSpans).
THEOREM PixelsPartitionedAlways == Spec => []PixelsPartitioned
<1>1. TypeOK => PixelsPartitioned
  <2> SUFFICES ASSUME TypeOK, NEW a \in Axes, NEW pixel \in 0 .. size[a] - 1
               PROVE  \E column \in 0 .. GridSize - 1 : \A i \in 0 .. GridSize - 1 :
                        LET span == PartitionSpans(size[a], GridSize)[i]
                        IN span.start <= pixel /\ pixel < span.finish <=> i = column
    BY DEF PixelsPartitioned
  <2>1. size[a] \in Nat \ {0}
    BY NavigatorAssumption DEF TypeOK
  <2>2. GridSize \in Nat \ {0}
    <3>1. GridSize \in 1..26
      BY NavigatorAssumption
    <3> QED BY <3>1, SMT
  <2> QED BY <2>1, <2>2, PixelInOneSpan
<1> QED BY <1>1, TypeInvariant, PTL

-----------------------------------------------------------------------------
(* While the monitor keeps its size the pointer refuses no target.            *)

\* A position on a line of m pixels rounds to 0..m.
LEMMA RoundInside ==
  ASSUME NEW n \in Nat \ {0}, NEW m \in Nat, NEW p \in 0..Units(m, n)
  PROVE  RoundPosition(p, n) \in 0..m
<1>1. p \in Int /\ 0 <= p /\ p <= 2 * n * m
  BY SMT DEF Units
<1> DEFINE d == 2 * (2 * n)
           v == 2 * p + 2 * n
<1>2. d \in Nat \ {0} /\ v \in Int /\ 0 <= v
  BY <1>1, SMT
<1>3. v < d * m + d
  BY <1>1, SMT
<1>4. d * 0 <= v
  BY <1>2, SMT
<1>5. RoundPosition(p, n) = v \div d
  BY DEF RoundPosition, RoundDiv
<1> HIDE DEF d, v
<1>6. v \div d \in Int /\ 0 <= v \div d /\ v \div d <= m
  BY <1>2, <1>3, <1>4, DivBounds, DivAtMost, AtMostDiv
<1> QED BY <1>5, <1>6, SMT

LEMMA TargetAccepted ==
  ASSUME TypeOK, NEW a \in Axes, known'[a] = size[a],
         NEW n \in 1..MaxCount, NEW p \in 0..Units(size[a], n)
  PROVE  Accepted(a, p, n)
<1>1. n \in Nat \ {0}
  BY SMT
<1>2. size[a] \in Nat /\ other \in Nat /\ place[a] \in Int
  <2>1. size[a] \in Sizes /\ other \in Sizes \cup {0} /\ place[a] \in Places
    BY DEF TypeOK
  <2>2. Sizes \subseteq Nat \ {0} /\ Places \subseteq Int
    BY NavigatorAssumption
  <2>3. size[a] \in Nat /\ place[a] \in Int
    BY <2>1, <2>2
  <2>4. other \in Sizes => other \in Nat
    BY <2>2
  <2>5. other \in Sizes \/ other = 0
    BY <2>1
  <2>6. other = 0 => other \in Nat
    BY SMT
  <2> QED BY <2>3, <2>4, <2>5, <2>6
<1>3. CASE mode = "with_output"
  BY <1>1, <1>2, <1>3, RoundInside DEF Accepted, Requested, Limit
<1>4. CASE mode = "fallback"
  <2> DEFINE off == OutputInLayout(a)
             far == off + size[a]
  <2>1. off \in Nat /\ LayoutSize(a) \in Int /\ far <= LayoutSize(a)
    BY <1>2, SMT DEF OutputInLayout, LayoutStart, LayoutSize, Lower, Higher
  <2> HIDE DEF off
  <2>2. far \in Nat
    BY <1>2, <2>1, SMT
  <2>3. Units(off, n) + p \in 0..Units(far, n)
    <3>1. p \in Int /\ 0 <= p /\ p <= 2 * n * size[a]
      BY SMT DEF Units
    <3>2. 2 * n * off + 2 * n * size[a] = 2 * n * far
      BY <1>1, <1>2, <2>1, SMT
    <3>3. 2 * n * off \in Nat
      BY <1>1, <2>1, SMT
    <3> QED BY <1>2, <3>1, <3>2, <3>3, SMT DEF Units
  <2>4. RoundPosition(Units(off, n) + p, n) \in 0..far
    BY <1>1, <2>2, <2>3, RoundInside
  <2>5. RoundPosition(Units(off, n) + p, n) \in 0..LayoutSize(a)
    <3> HIDE DEF far
    <3> QED BY <2>1, <2>2, <2>4, SMT
  <2> QED BY <1>4, <2>5 DEF Accepted, Requested, Limit, off
<1> QED BY <1>3, <1>4 DEF TypeOK

RefusalInv == NavigatorInv /\ NeverRefused

\* A motion to a target on the monitor is accepted, and opens the connection.
LEMMA MoveAccepted ==
  ASSUME TypeOK, Known, LayoutKnown, NEW counts \in [Axes -> 1..MaxCount], NEW target,
         \A a \in Axes : target[a] \in 0..Units(size[a], counts[a]),
         MoveAbsolute(target, counts)
  PROVE  known' = size /\ failed' = failed
<1>1. size["x"] \in Nat \ {0}
  BY NavigatorAssumption DEF TypeOK, Axes
<1>2. known' = size
  BY <1>1 DEF Known, MoveAbsolute, Axes
<1>3. ASSUME NEW a \in Axes PROVE Accepted(a, target[a], counts[a])
  BY <1>2, TargetAccepted
<1> QED BY <1>2, <1>3 DEF MoveAbsolute

\* A connection that knows another size goes on knowing it.
LEMMA StaleStays ==
  ASSUME TypeOK, ~Known, NEW counts, NEW target, MoveAbsolute(target, counts), UNCHANGED size
  PROVE  ~Known'
<1>1. known["x"] # 0
  BY NavigatorAssumption DEF TypeOK, Known, Axes
<1> QED BY <1>1 DEF MoveAbsolute, Known

\* A target on the monitor is refused by such a connection alone, or by one that
\* knows no layout.
LEMMA MoveRefused ==
  ASSUME TypeOK, ~failed, NEW counts \in [Axes -> 1..MaxCount], NEW target,
         \A a \in Axes : target[a] \in 0..Units(size[a], counts[a]),
         MoveAbsolute(target, counts), UNCHANGED <<size, layoutVars>>
  PROVE  NeverRefused'
<1>1. CASE Known /\ LayoutKnown
  <2>1. failed' = failed
    BY <1>1, MoveAccepted
  <2> QED BY <2>1 DEF NeverRefused, TypeOK
<1>2. CASE ~Known
  BY <1>2, StaleStays DEF NeverRefused
<1>3. CASE ~LayoutKnown
  BY <1>3 DEF NeverRefused, LayoutKnown, layoutVars
<1> QED BY <1>1, <1>2, <1>3

LEMMA RefusalStep == RefusalInv /\ [Next]_vars => NeverRefused'
<1> SUFFICES ASSUME RefusalInv, [Next]_vars PROVE NeverRefused'
  OBVIOUS
<1> USE DEF RefusalInv, NavigatorInv
<1>1. ASSUME NEW letter \in 0..GridSize, AddLetter(letter) PROVE NeverRefused'
  <2>1. UNCHANGED <<size, layoutVars>> /\ failed = FALSE
    BY <1>1 DEF AddLetter, TypeOK
  <2>2. CASE UNCHANGED <<selected, known, navigatorVars, request, failed>>
    BY <2>1, <2>2 DEF NeverRefused
  <2>3. CASE Select(size, letters') /\ MoveAbsolute(at', count')
    <3>1. letters' \in [Axes -> 0 .. GridSize - 1]
      <4>1. letter \in 0 .. GridSize - 1
        BY <1>1, NavigatorAssumption, SMT DEF AddLetter, OnGrid, Labels
      <4> QED BY <1>1, <4>1 DEF TypeOK, AddLetter
    <3>2. size \in [Axes -> Sizes]
      BY DEF TypeOK
    <3>3. count' \in [Axes -> 1..MaxCount] /\ \A a \in Axes : at'[a] \in 0..Units(size[a], count'[a])
      BY <2>3, <3>1, <3>2, SelectInside
    <3> QED BY <2>1, <2>3, <3>3, MoveRefused
  <2>4. CASE NoCell(size, letters') /\ UNCHANGED <<selected, known, navigatorVars, request>>
    BY <2>1, <2>4 DEF NeverRefused, NoCell, SelectedCell
  <2> QED BY <1>1, <2>2, <2>3, <2>4 DEF AddLetter
<1>2. CASE Backspace
  BY <1>2 DEF Backspace, NeverRefused
<1>3. ASSUME NEW a \in Axes, NEW towards \in {-1, 1}, NEW subcells \in 1..4, Move(a, towards, subcells)
      PROVE  NeverRefused'
  <2>1. UNCHANGED <<size, layoutVars>> /\ ~failed /\ count \in [Axes -> 1..MaxCount]
    BY <1>3 DEF Move, TypeOK
  <2>2. \A b \in Axes : at'[b] \in 0..Units(size[b], count[b])
    <3>1. MovedOn(a, towards, subcells) \in 0..Units(size[a], count[a])
      BY MovedInside
    <3> QED BY <1>3, <3>1 DEF Move, TypeOK, InsideMonitor
  <2> QED BY <1>3, <2>1, <2>2, MoveRefused DEF Move
<1>4. ASSUME NEW sizes \in [Axes -> Sizes], Reconfigure(sizes) PROVE NeverRefused'
  BY <1>4 DEF Reconfigure, NeverRefused, NoCell, SelectedCell
<1>5. CASE UNCHANGED vars
  BY <1>5 DEF Known, LayoutKnown, NeverRefused, NoCell, SelectedCell, vars, layoutVars
<1> QED BY <1>1, <1>2, <1>3, <1>4, <1>5 DEF Next

\* MoveAbsolute refuses no target that a selection or a move sends it to, unless
\* its connection knows another size of the monitor, or no size of an output: with
\* the output or in the layout of all outputs, whatever their places
\* (absoluteMotionRequest, roundedUintWithinExtent, virtualPointerLayoutFromOutputs).
THEOREM NeverRefusedAlways == Spec => []NeverRefused
<1>1. Init => RefusalInv
  BY NavigatorInit DEF RefusalInv, Init, NeverRefused
<1>2. RefusalInv /\ [Next]_vars => RefusalInv'
  BY RefusalStep, NavigatorStep DEF RefusalInv
<1>3. RefusalInv => NeverRefused
  BY DEF RefusalInv
<1> QED BY <1>1, <1>2, <1>3, PTL DEF Spec

-----------------------------------------------------------------------------
(* Every move shows. *)

\* There are no more sub-cells than pixels, so that a step is a pixel or more.
WholeSteps == selected /\ ~failed => \A a \in Axes : count[a] <= SpanSize(cell[a])

LEMMA CountBounded ==
  ASSUME NEW axisSize \in Nat \ {0}
  PROVE  HiddenSubcellCount(axisSize, Pixels) <= axisSize
<1>1. Pixels \in Nat \ {0}
  BY NavigatorAssumption
<1> DEFINE n == 2 * axisSize + Pixels
           d == 2 * Pixels
<1>2. n \in Int /\ d \in Nat \ {0} /\ n \div d \in Int
  BY <1>1, DivBounds
<1>3. axisSize * 1 <= axisSize * Pixels /\ axisSize * Pixels = Pixels * axisSize /\ Pixels * axisSize \in Int
  BY <1>1, Monotone
<1>4. d * axisSize = 2 * (Pixels * axisSize)
  BY <1>1, <1>3, SMT
<1>5. n < d * axisSize + d
  BY <1>1, <1>3, <1>4, SMT
<1> HIDE DEF n, d
<1>6. n \div d <= axisSize
  BY <1>2, <1>5, DivAtMost
<1> QED BY <1>2, <1>6, SMT DEF HiddenSubcellCount, Clamp, RoundDiv, MaxCount, n, d

LEMMA SelectSteps ==
  ASSUME NEW sizes \in [Axes -> Sizes], NEW word \in [Axes -> 0 .. GridSize - 1], Select(sizes, word)
  PROVE  \A a \in Axes : count'[a] <= SpanSize(cell'[a])
<1> SUFFICES ASSUME NEW a \in Axes PROVE count'[a] <= SpanSize(cell'[a])
  OBVIOUS
<1> DEFINE span == PartitionSpans(sizes[a], GridSize)[word[a]]
<1>1. cell'[a] = span /\ count'[a] = HiddenSubcellCount(SpanSize(span), Pixels) /\ SpanSize(span) > 0
  BY DEF Select, SelectedCell
<1>2. sizes[a] \in Nat \ {0} /\ GridSize \in Nat \ {0} /\ word[a] \in 0 .. GridSize - 1
  <2>1. GridSize \in Nat \ {0}
    BY NavigatorAssumption, SMT
  <2>2. sizes[a] \in Nat \ {0}
    BY NavigatorAssumption
  <2> QED BY <2>1, <2>2
<1>3. span.start \in Nat /\ span.finish \in Nat
  BY <1>2, SpanInside
<1> HIDE DEF span
<1>4. SpanSize(span) \in Nat \ {0}
  BY <1>1, <1>3 DEF SpanSize
<1> QED BY <1>1, <1>4, CountBounded

LEMMA WholeStepsStep == NavigatorInv /\ WholeSteps /\ [Next]_vars => WholeSteps'
<1> SUFFICES ASSUME NavigatorInv, WholeSteps, [Next]_vars PROVE WholeSteps'
  OBVIOUS
<1>1. ASSUME NEW letter \in 0..GridSize, AddLetter(letter) PROVE WholeSteps'
  <2>1. CASE UNCHANGED <<selected, known, navigatorVars, request, failed>>
    BY <2>1 DEF WholeSteps, navigatorVars
  <2>2. CASE Select(size, letters')
    <3>1. letter \in 0 .. GridSize - 1
      BY <1>1, NavigatorAssumption, SMT DEF AddLetter, OnGrid, Labels
    <3>2. letters' \in [Axes -> 0 .. GridSize - 1] /\ size \in [Axes -> Sizes]
      BY <1>1, <3>1 DEF NavigatorInv, TypeOK, AddLetter
    <3> QED BY <2>2, <3>2, SelectSteps DEF WholeSteps
  <2>3. CASE failed' = TRUE
    BY <2>3 DEF WholeSteps
  <2> QED BY <1>1, <2>1, <2>2, <2>3 DEF AddLetter
<1>2. CASE Backspace
  BY <1>2 DEF Backspace, WholeSteps
<1>3. ASSUME NEW a \in Axes, NEW towards \in {-1, 1}, NEW subcells \in 1..4, Move(a, towards, subcells)
      PROVE  WholeSteps'
  BY <1>3 DEF Move, MoveAbsolute, WholeSteps
<1>4. ASSUME NEW sizes \in [Axes -> Sizes], Reconfigure(sizes) PROVE WholeSteps'
  <2>1. CASE ~selected /\ UNCHANGED <<navigatorVars, failed>>
    BY <1>4, <2>1 DEF Reconfigure, WholeSteps
  <2>2. CASE Select(sizes, letters)
    <3>1. letters \in [Axes -> 0 .. GridSize - 1]
      BY DEF NavigatorInv, TypeOK
    <3> QED BY <2>2, <3>1, SelectSteps DEF WholeSteps
  <2>3. CASE failed' = TRUE
    BY <2>3 DEF WholeSteps
  <2> QED BY <1>4, <2>1, <2>2, <2>3 DEF Reconfigure
<1>5. CASE UNCHANGED vars
  BY <1>5 DEF WholeSteps, vars, navigatorVars
<1> QED BY <1>1, <1>2, <1>3, <1>4, <1>5 DEF Next

\* Two points that are a pixel apart are rounded to two pixels.
LEMMA RoundApart ==
  ASSUME NEW n \in Nat \ {0}, NEW u \in Int, NEW v \in Int, u + 2 * n <= v
  PROVE  RoundPosition(u, n) # RoundPosition(v, n)
<1> DEFINE d == 2 * (2 * n)
           p == (2 * u + 2 * n) \div d
           q == (2 * v + 2 * n) \div d
<1>1. d \in Nat \ {0} /\ 2 * u + 2 * n \in Int /\ 2 * v + 2 * n \in Int
  BY SMT
<1>2. p \in Int /\ d * p <= 2 * u + 2 * n
  BY <1>1, DivBounds
<1>3. d * (p + 1) = d * p + d /\ p + 1 \in Int /\ d * p \in Int
  BY <1>1, <1>2, SMT
<1>4. d * (p + 1) <= 2 * v + 2 * n
  BY <1>1, <1>2, <1>3, SMT
<1>5. p + 1 <= q
  BY <1>1, <1>3, <1>4, AtMostDiv
<1>6. q \in Int
  BY <1>1, DivBounds
<1> HIDE DEF p, q
<1>7. p # q
  BY <1>2, <1>5, <1>6
<1> QED BY <1>7 DEF RoundPosition, RoundDiv, p, q

\* A request of a point a pixel away is another request, in either mode.
LEMMA RequestApart ==
  ASSUME TypeOK, NEW a \in Axes, NEW n \in 1..MaxCount, NEW u \in Int, NEW v \in Int,
         u + 2 * n <= v \/ v + 2 * n <= u
  PROVE  Requested(a, u, n) # Requested(a, v, n)
<1>1. n \in Nat \ {0}
  BY SMT
<1>2. CASE mode = "with_output"
  <2>1. RoundPosition(u, n) # RoundPosition(v, n)
    BY <1>1, RoundApart
  <2> QED BY <1>2, <2>1 DEF Requested
<1>3. CASE mode # "with_output"
  <2> DEFINE o == Units(OutputInLayout(a), n)
  <2>1. place[a] \in Int
    BY NavigatorAssumption DEF TypeOK
  <2>2. OutputInLayout(a) \in Int
    BY <2>1 DEF OutputInLayout, LayoutStart, Lower
  <2>3. o \in Int
    BY <1>1, <2>2, SMT DEF Units
  <2> HIDE DEF o
  <2>4. o + u \in Int /\ o + v \in Int /\ ((o + u) + 2 * n <= o + v \/ (o + v) + 2 * n <= o + u)
    BY <1>1, <2>3, SMT
  <2>5. RoundPosition(o + u, n) # RoundPosition(o + v, n)
    BY <1>1, <2>4, RoundApart
  <2> QED BY <1>3, <2>5 DEF Requested, o
<1> QED BY <1>2, <1>3

\* A step that the edge does not stop is a pixel or more.
LEMMA MovedAPixel ==
  ASSUME NavigatorInv, WholeSteps, selected, ~failed,
         NEW a \in Axes, NEW towards \in {-1, 1}, NEW subcells \in 1..4
  PROVE  LET to == MovedOn(a, towards, subcells)
         IN \/ to \in {0, Units(size[a], count[a])}
            \/ at[a] + 2 * count[a] <= to
            \/ to + 2 * count[a] <= at[a]
<1> DEFINE step == StepUnits(cell[a], subcells)
           end == Units(size[a], count[a])
<1>1. /\ count[a] \in Nat \ {0} /\ at[a] \in Nat /\ cell[a] \in Span /\ size[a] \in Nat
      /\ count[a] <= SpanSize(cell[a])
  <2>1. count[a] \in 1..MaxCount /\ at[a] \in Nat /\ cell[a] \in Span /\ size[a] \in Sizes
    BY DEF NavigatorInv, TypeOK
  <2>2. size[a] \in Nat
    BY <2>1, NavigatorAssumption
  <2>3. count[a] \in Nat \ {0}
    BY <2>1, SMT
  <2> QED BY <2>1, <2>2, <2>3 DEF WholeSteps
<1>2. SpanSize(cell[a]) \in Nat
  <2>1. SpanSize(cell[a]) \in Int
    BY <1>1 DEF Span, SpanSize
  <2> QED BY <1>1, <2>1
<1>3. step \in Int /\ 2 * count[a] <= step
  <2> DEFINE s == SpanSize(cell[a])
  <2> HIDE DEF s
  <2>1. s \in Nat /\ count[a] <= s
    BY <1>1, <1>2 DEF s
  <2>2. s * 1 <= s * subcells /\ s * subcells \in Int
    BY <2>1, Monotone
  <2>3. (2 * s) * subcells = 2 * (s * subcells)
    BY <2>1, SMT
  <2>4. step = (2 * s) * subcells
    BY DEF StepUnits, s
  <2> QED BY <1>1, <2>1, <2>2, <2>3, <2>4, SMT
<1>4. end \in Int
  BY <1>1, SMT DEF Units
<1> HIDE DEF step, end
<1>5. Clamp(at[a] + towards * step, 0, end) \in {0, end, at[a] + towards * step}
  BY DEF Clamp
<1>6. at[a] + towards * step \in {at[a] + step, at[a] - step}
  BY <1>1, <1>3, SMT
<1> QED BY <1>1, <1>3, <1>4, <1>5, <1>6, SMT DEF MovedOn, Moved, step, end

\* Whatever the grid, the monitor and the layout: a move from where the cursor
\* is changes the request, unless the edge stops it (hiddenSubcellNavigator.Move,
\* newHiddenSubcellNavigator's counts, roundedUintWithinExtent).
THEOREM EveryMoveShowsAlways == Spec => EveryMoveShows
<1>1. Init => NavigatorInv /\ WholeSteps
  BY NavigatorInit DEF Init, WholeSteps
<1>2. NavigatorInv /\ WholeSteps /\ [Next]_vars => NavigatorInv' /\ WholeSteps'
  BY NavigatorStep, WholeStepsStep
<1>3. NavigatorInv /\ WholeSteps /\ [Next]_vars
        => [CursorThere /\ moves' # moves /\ ~failed'
              => \/ request' # request
                 \/ \E a \in Axes : /\ at'[a] \in {0, Units(size[a], count[a])}
                                    /\ (at' = at \/ at'[a] # at[a])]_vars
  <2> SUFFICES ASSUME NavigatorInv, WholeSteps, Next, CursorThere, moves' # moves, ~failed',
                      request' = request
               PROVE  \E a \in Axes : /\ at'[a] \in {0, Units(size[a], count[a])}
                                      /\ (at' = at \/ at'[a] # at[a])
    OBVIOUS
  <2>1. PICK a \in Axes, towards \in {-1, 1}, subcells \in 1..4 : Move(a, towards, subcells)
    BY DEF Next, AddLetter, Backspace, Reconfigure
  <2> DEFINE to == MovedOn(a, towards, subcells)
  <2>2. /\ selected /\ ~failed /\ at' = [at EXCEPT ![a] = to] /\ MoveAbsolute(at', count)
        /\ at \in [Axes -> Nat] /\ TypeOK /\ count[a] \in 1..MaxCount
    BY <2>1 DEF Move, NavigatorInv, TypeOK
  <2>3. to \in 0..Units(size[a], count[a])
    BY MovedInside DEF NavigatorInv
  <2>4. \/ to \in {0, Units(size[a], count[a])}
        \/ at[a] + 2 * count[a] <= to
        \/ to + 2 * count[a] <= at[a]
    BY <2>2, MovedAPixel
  <2> HIDE DEF to
  <2>5. at'[a] = to
    BY <2>2
  <2>6. request'[a] = Requested(a, to, count[a]) /\ request[a] = Requested(a, at[a], count[a])
    BY <2>2, <2>5 DEF MoveAbsolute, CursorThere
  <2>7. to \in Int /\ at[a] \in Int
    <3>1. to \in Int
      BY <2>3, SMT
    <3> QED BY <2>2, <3>1
  <2>8. to \in {0, Units(size[a], count[a])}
    BY <2>2, <2>4, <2>6, <2>7, RequestApart
  <2>9. at' = at \/ at'[a] # at[a]
    BY <2>2, <2>5
  <2> QED BY <2>5, <2>8, <2>9
<1> QED BY <1>1, <1>2, <1>3, PTL DEF Spec, EveryMoveShows

-----------------------------------------------------------------------------
(* What a frame shows.  A frame is a finite sequence of rectangles, put        *)
(* together of shorter ones; a pixel shows the last one that covers it.       *)

Colours == {"halo", "core", "faintHalo", "faint", "brightHalo", "bright", "label", "dim", "fill", "hud"}
Boxes == [x0 : Int, y0 : Int, x1 : Int, y1 : Int, colour : Colours]

\* A rectangle with whole coordinates and one of the colours.
LEMMA BoxInBoxes ==
  ASSUME NEW x0 \in Int, NEW y0 \in Int, NEW x1 \in Int, NEW y1 \in Int, NEW colour \in Colours
  PROVE  Box(x0, y0, x1, y1, colour) \in Boxes
BY DEF Box, Boxes

\* No rectangle covers the pixel; the last that covers it has this colour.
Misses(frame, x, y) == \A i \in DOMAIN frame : ~ Inside(frame[i], x, y)
Tops(frame, colour, x, y) ==
  \E i \in DOMAIN frame : /\ Inside(frame[i], x, y) /\ frame[i].colour = colour
                          /\ \A j \in DOMAIN frame : j > i => ~ Inside(frame[j], x, y)

\* A pixel that no rectangle covers is clear.
LEMMA MissedIsClear ==
  ASSUME NEW frame, NEW x, NEW y, Misses(frame, x, y)
  PROVE  Colour(frame, x, y) = "clear"
BY DEF Misses, Colour

\* A pixel shows the rectangle that covers it and that no later one covers, if it
\* is drawn at all.
LEMMA TopShows ==
  ASSUME NEW frame \in Seq(Boxes), NEW colour, NEW x, NEW y, Tops(frame, colour, x, y), Alpha[colour] > 0
  PROVE  Colour(frame, x, y) = colour
<1> DEFINE over == {i \in DOMAIN frame : Alpha[frame[i].colour] > 0 /\ Inside(frame[i], x, y)}
           last == CHOOSE i \in over : \A j \in over : j <= i
<1>1. PICK i \in over : frame[i].colour = colour /\ \A j \in DOMAIN frame : j > i => ~ Inside(frame[j], x, y)
  BY DEF Tops
<1>2. DOMAIN frame \subseteq Int
  BY LenProperties, SMT
<1>3. \A j \in over : j <= i
  BY <1>1, <1>2, SMT
<1>4. last \in over /\ \A j \in over : j <= last
  BY <1>3
<1>5. last = i
  <2>1. i \in Int /\ last \in Int /\ i <= last /\ last <= i
    BY <1>2, <1>3, <1>4
  <2> QED BY <2>1, SMT
<1>6. Colour(frame, x, y) = frame[last].colour
  BY <1>1 DEF Colour
<1> QED BY <1>1, <1>5, <1>6

\* A frame that is drawn after another: what neither covers, what the later one
\* shows, and what it leaves as it was.
LEMMA ConcatMisses ==
  ASSUME NEW s \in Seq(Boxes), NEW t \in Seq(Boxes), NEW x, NEW y, Misses(s, x, y), Misses(t, x, y)
  PROVE  Misses(s \o t, x, y)
<1>1. /\ Len(s) \in Nat /\ Len(t) \in Nat /\ DOMAIN s = 1..Len(s) /\ DOMAIN t = 1..Len(t)
  BY LenProperties
<1>2. DOMAIN (s \o t) = 1 .. Len(s) + Len(t)
  BY ConcatProperties, LenProperties
<1> SUFFICES ASSUME NEW i \in 1 .. Len(s) + Len(t) PROVE ~ Inside((s \o t)[i], x, y)
  BY <1>2 DEF Misses
<1>3. (s \o t)[i] = IF i <= Len(s) THEN s[i] ELSE t[i - Len(s)]
  BY ConcatProperties
<1>4. CASE i <= Len(s)
  BY <1>1, <1>3, <1>4, SMT DEF Misses
<1>5. CASE ~ i <= Len(s)
  <2>1. i - Len(s) \in DOMAIN t
    BY <1>1, <1>5, SMT
  <2> QED BY <1>3, <1>5, <2>1 DEF Misses
<1> QED BY <1>4, <1>5

LEMMA ConcatTops ==
  ASSUME NEW s \in Seq(Boxes), NEW t \in Seq(Boxes), NEW colour, NEW x, NEW y,
         Tops(t, colour, x, y)
  PROVE  Tops(s \o t, colour, x, y)
<1>1. /\ Len(s) \in Nat /\ Len(t) \in Nat /\ DOMAIN s = 1..Len(s) /\ DOMAIN t = 1..Len(t)
  BY LenProperties
<1>2. /\ DOMAIN (s \o t) = 1 .. Len(s) + Len(t)
      /\ \A i \in 1 .. Len(s) + Len(t) : (s \o t)[i] = IF i <= Len(s) THEN s[i] ELSE t[i - Len(s)]
  BY ConcatProperties, LenProperties
<1>3. PICK i \in DOMAIN t : /\ Inside(t[i], x, y) /\ t[i].colour = colour
                            /\ \A j \in DOMAIN t : j > i => ~ Inside(t[j], x, y)
  BY DEF Tops
<1> DEFINE k == Len(s) + i
<1>4. k \in DOMAIN (s \o t) /\ (s \o t)[k] = t[i]
  <2>1. k \in 1 .. Len(s) + Len(t) /\ ~ k <= Len(s) /\ k - Len(s) = i
    BY <1>1, <1>3, SMT
  <2> QED BY <1>2, <2>1
<1>5. ASSUME NEW j \in DOMAIN (s \o t), j > k PROVE ~ Inside((s \o t)[j], x, y)
  <2>1. ~ j <= Len(s) /\ j - Len(s) \in DOMAIN t /\ j - Len(s) > i
    BY <1>1, <1>2, <1>3, <1>5, SMT
  <2>2. (s \o t)[j] = t[j - Len(s)]
    BY <1>2, <2>1
  <2> QED BY <1>3, <2>1, <2>2
<1> QED BY <1>3, <1>4, <1>5 DEF Tops

LEMMA ConcatStays ==
  ASSUME NEW s \in Seq(Boxes), NEW t \in Seq(Boxes), NEW colour, NEW x, NEW y,
         Tops(s, colour, x, y), Misses(t, x, y)
  PROVE  Tops(s \o t, colour, x, y)
<1>1. /\ Len(s) \in Nat /\ Len(t) \in Nat /\ DOMAIN s = 1..Len(s) /\ DOMAIN t = 1..Len(t)
  BY LenProperties
<1>2. /\ DOMAIN (s \o t) = 1 .. Len(s) + Len(t)
      /\ \A i \in 1 .. Len(s) + Len(t) : (s \o t)[i] = IF i <= Len(s) THEN s[i] ELSE t[i - Len(s)]
  BY ConcatProperties, LenProperties
<1>3. PICK i \in DOMAIN s : /\ Inside(s[i], x, y) /\ s[i].colour = colour
                            /\ \A j \in DOMAIN s : j > i => ~ Inside(s[j], x, y)
  BY DEF Tops
<1>4. i \in DOMAIN (s \o t) /\ (s \o t)[i] = s[i]
  <2>1. i \in 1 .. Len(s) + Len(t) /\ i <= Len(s)
    BY <1>1, <1>3, SMT
  <2> QED BY <1>2, <2>1
<1>5. ASSUME NEW j \in DOMAIN (s \o t), j > i PROVE ~ Inside((s \o t)[j], x, y)
  <2>1. CASE j <= Len(s)
    <3>1. j \in DOMAIN s /\ (s \o t)[j] = s[j]
      BY <1>1, <1>2, <2>1, SMT
    <3> QED BY <1>3, <1>5, <3>1
  <2>2. CASE ~ j <= Len(s)
    <3>1. j - Len(s) \in DOMAIN t
      BY <1>1, <1>2, <2>2, SMT
    <3>2. (s \o t)[j] = t[j - Len(s)]
      BY <1>2, <2>2
    <3> QED BY <3>1, <3>2 DEF Misses
  <2> QED BY <2>1, <2>2
<1> QED BY <1>3, <1>4, <1>5 DEF Tops

\* A sequence given by its boxes.
LEMMA BoxesInSeq ==
  ASSUME NEW n \in Nat, NEW frame \in [1..n -> Boxes]
  PROVE  frame \in Seq(Boxes) /\ DOMAIN frame = 1..n
BY SMT

\* Strokes draws the strokes in their order, the first box of one before its second.
LEMMA StrokesInSeq ==
  ASSUME NEW n \in Nat, NEW strokes, \A i \in 1..n : strokes[i][1] \in Boxes /\ strokes[i][2] \in Boxes
  PROVE  Strokes(strokes, n) \in Seq(Boxes) /\ DOMAIN Strokes(strokes, n) = 1 .. 2 * n
<1>1. \A k \in 1 .. 2 * n : (k + 1) \div 2 \in 1..n /\ 2 - (k % 2) \in {1, 2}
  BY SMT
<1>2. Strokes(strokes, n) \in [1 .. 2 * n -> Boxes]
  BY <1>1 DEF Strokes
<1>3. 2 * n \in Nat
  BY SMT
<1> QED BY <1>2, <1>3, BoxesInSeq

LEMMA StrokesMiss ==
  ASSUME NEW n \in Nat, NEW strokes, NEW x, NEW y,
         \A i \in 1..n : ~ Inside(strokes[i][1], x, y) /\ ~ Inside(strokes[i][2], x, y)
  PROVE  Misses(Strokes(strokes, n), x, y)
<1>1. \A k \in 1 .. 2 * n : (k + 1) \div 2 \in 1..n /\ 2 - (k % 2) \in {1, 2}
  BY SMT
<1> QED BY <1>1 DEF Strokes, Misses

LEMMA StrokesTop ==
  ASSUME NEW n \in Nat, NEW strokes, NEW colour, NEW x, NEW y, NEW i \in 1..n,
         Inside(strokes[i][2], x, y), strokes[i][2].colour = colour,
         \A j \in i + 1 .. n : ~ Inside(strokes[j][1], x, y) /\ ~ Inside(strokes[j][2], x, y)
  PROVE  Tops(Strokes(strokes, n), colour, x, y)
<1> DEFINE k == 2 * i
<1>1. k \in 1 .. 2 * n /\ (k + 1) \div 2 = i /\ 2 - (k % 2) = 2
  BY SMT
<1>2. k \in DOMAIN Strokes(strokes, n) /\ Strokes(strokes, n)[k] = strokes[i][2]
  BY <1>1 DEF Strokes
<1>3. ASSUME NEW j \in DOMAIN Strokes(strokes, n), j > k PROVE ~ Inside(Strokes(strokes, n)[j], x, y)
  <2>1. j \in 1 .. 2 * n
    BY DEF Strokes
  <2>2. (j + 1) \div 2 \in i + 1 .. n /\ 2 - (j % 2) \in {1, 2}
    BY <2>1, <1>3, SMT
  <2>3. Strokes(strokes, n)[j] = strokes[(j + 1) \div 2][2 - (j % 2)]
    BY <2>1 DEF Strokes
  <2> QED BY <2>2, <2>3
<1> QED BY <1>2, <1>3 DEF Tops

-----------------------------------------------------------------------------
(* Where a stroke is. *)

\* The pixel that is seen of a boundary: the last one of the axis for its end.
SeenAt(center, limit) == Lower(center, limit - 1)

\* strokeRange covers the pixel of its boundary, nothing outside of the canvas
\* and nothing further away than its width.
LEMMA StrokeCovers ==
  ASSUME NEW limit \in Nat \ {0}, NEW width \in Nat \ {0}, NEW center \in 0..limit
  PROVE  LET range == StrokeRange(center, width, limit)
         IN /\ range.from \in Int /\ range.upto \in Int
            /\ 0 <= range.from /\ range.upto <= limit
            /\ range.from <= SeenAt(center, limit) /\ SeenAt(center, limit) < range.upto
            /\ center - width <= range.from /\ range.upto <= center + width
<1> DEFINE w == Higher(1, Lower(width, limit))
           half == w \div 2
           from == CASE center >= limit -> limit - w
                     [] center <= 0 /\ center < limit -> 0
                     [] OTHER -> center - half
<1>1. w \in Nat /\ 1 <= w /\ w <= width /\ w <= limit
  BY SMT DEF Higher, Lower
<1>2. half \in Nat /\ 2 * half <= w /\ w <= 2 * half + 1
  BY <1>1, SMT
<1>3. /\ StrokeRange(center, width, limit).from = Higher(from, 0)
      /\ StrokeRange(center, width, limit).upto = Lower(from + w, limit)
  BY DEF StrokeRange
<1> HIDE DEF w, half
<1>4. CASE center >= limit
  <2>1. from = limit - w
    BY <1>4
  <2> HIDE DEF from
  <2> QED BY <1>1, <1>3, <1>4, <2>1, SMT DEF Higher, Lower, SeenAt
<1>5. CASE center = 0
  <2>1. from = 0
    BY <1>5, SMT
  <2> HIDE DEF from
  <2> QED BY <1>1, <1>3, <1>5, <2>1, SMT DEF Higher, Lower, SeenAt
<1>6. CASE 0 < center /\ center < limit
  <2>1. from = center - half
    BY <1>6, SMT
  <2> HIDE DEF from
  <2> QED BY <1>1, <1>2, <1>3, <1>6, <2>1, SMT DEF Higher, Lower, SeenAt
<1> QED BY <1>4, <1>5, <1>6, SMT

\* Edge numbers the boundaries of an axis from 0 to its size, and the spans lie
\* between them.
LEMMA EdgeIsBoundary ==
  ASSUME NEW total \in Nat \ {0}, NEW n \in Nat \ {0}
  PROVE  /\ \A i \in 0..n : Edge(PartitionSpans(total, n), i) = SpanStart(total, n, i)
         /\ \A i \in 0..n : SpanStart(total, n, i) \in 0..total
         /\ SpanStart(total, n, 0) = 0 /\ SpanStart(total, n, n) = total
         /\ \A i \in 0 .. n - 1 : /\ PartitionSpans(total, n)[i].start = SpanStart(total, n, i)
                                  /\ PartitionSpans(total, n)[i].finish = SpanStart(total, n, i + 1)
<1>1. SpanStart(total, n, 0) = 0
  <2>1. 0 * total = 0 /\ 0 \div n = 0
    BY SMT
  <2> QED BY <2>1 DEF SpanStart
<1>2. SpanStart(total, n, n) = total
  <2> DEFINE q == (n * total) \div n
  <2>1. n * total \in Int
    BY SMT
  <2>2. q <= total <=> n * total < n * total + n
    BY <2>1, DivAtMost
  <2>3. total <= q <=> n * total <= n * total
    BY <2>1, AtMostDiv
  <2>4. q \in Int
    BY <2>1, DivBounds
  <2> HIDE DEF q
  <2>5. q = total
    BY <2>1, <2>2, <2>3, <2>4, SMT
  <2> QED BY <2>5 DEF q, SpanStart
<1>3. ASSUME NEW i \in 0..n PROVE SpanStart(total, n, i) \in 0..total
  <2> DEFINE q == (i * total) \div n
  <2>1. /\ i * total \in Int /\ 0 <= i * total /\ i * total <= n * total
        /\ total * i = i * total /\ total * n = n * total
    <3>1. total * 0 <= total * i /\ total * i <= total * n
      BY Monotone, SMT
    <3> QED BY <3>1, SMT
  <2>2. q <= total <=> i * total < n * total + n
    BY <2>1, DivAtMost
  <2>3. 0 <= q <=> n * 0 <= i * total
    BY <2>1, AtMostDiv
  <2>4. q \in Int
    BY <2>1, DivBounds
  <2> HIDE DEF q
  <2>5. q \in 0..total
    BY <2>1, <2>2, <2>3, <2>4, SMT
  <2> QED BY <2>5 DEF q, SpanStart
<1>4. \A i \in 0 .. n - 1 : /\ PartitionSpans(total, n)[i].start = SpanStart(total, n, i)
                            /\ PartitionSpans(total, n)[i].finish = SpanStart(total, n, i + 1)
  BY DEF PartitionSpans
<1>5. ASSUME NEW i \in 0..n PROVE Edge(PartitionSpans(total, n), i) = SpanStart(total, n, i)
  <2>1. CASE i = 0
    BY <1>1, <2>1 DEF Edge
  <2>2. CASE i # 0
    <3>1. i - 1 \in 0 .. n - 1 /\ (i - 1) + 1 = i
      BY <2>2, SMT
    <3> QED BY <1>4, <2>2, <3>1 DEF Edge
  <2> QED BY <2>1, <2>2
<1> QED BY <1>1, <1>2, <1>3, <1>4, <1>5

\* The spans of an axis are wider than a gap.
Wide(total, n, gap) == \A i \in 0 .. n - 1 : SpanSize(PartitionSpans(total, n)[i]) > gap

\* Boundaries are further apart than the gap.
LEMMA EdgesApart ==
  ASSUME NEW total \in Nat \ {0}, NEW n \in Nat \ {0}, NEW gap \in Nat, Wide(total, n, gap),
         NEW i \in 0..n, NEW j \in 0..n, i < j
  PROVE  SpanStart(total, n, i) + gap < SpanStart(total, n, j)
<1> DEFINE p == ((i + 1) * total) \div n
           q == (j * total) \div n
<1>1. i \in 0 .. n - 1 /\ i + 1 <= j /\ i + 1 \in Nat /\ j \in Nat
  BY SMT
<1>2. SpanStart(total, n, i + 1) - SpanStart(total, n, i) > gap
  BY <1>1, EdgeIsBoundary DEF Wide, SpanSize
<1>3. (i + 1) * total \in Int /\ j * total \in Int /\ (i + 1) * total <= j * total
  <2>1. total * (i + 1) <= total * j /\ (i + 1) * total = total * (i + 1) /\ j * total = total * j
    BY <1>1, Monotone
  <2> QED BY <1>1, <2>1, SMT
<1>4. p \in Int /\ n * p <= (i + 1) * total
  BY <1>3, DivBounds
<1>5. p <= q <=> n * p <= j * total
  BY <1>3, <1>4, AtMostDiv
<1>6. p <= q
  <2>1. n * p \in Int
    BY <1>4, SMT
  <2> HIDE DEF p, q
  <2> QED BY <1>3, <1>4, <1>5, <2>1, SMT
<1>7. SpanStart(total, n, i + 1) <= SpanStart(total, n, j)
  BY <1>6 DEF SpanStart
<1>8. SpanStart(total, n, i) \in Int /\ SpanStart(total, n, i + 1) \in Int /\ SpanStart(total, n, j) \in Int
  BY <1>1, EdgeIsBoundary, SMT
<1> QED BY <1>2, <1>7, <1>8, SMT

\* The halo is wider than the line.
LEMMA Widths ==
  /\ LineWidth \in Nat \ {0} /\ HaloWidth \in Nat \ {0} /\ LineWidth <= HaloWidth
BY RendererAssumption, SMT DEF HaloWidth, Higher

\* The boundaries are seen at their own pixels, the last one at the last pixel.
LEMMA SeenEdges ==
  ASSUME NEW total \in Nat \ {0}, NEW n \in Nat \ {0}, NEW gap \in Nat, Wide(total, n, gap),
         NEW i \in 0..n
  PROVE  /\ SeenAt(SpanStart(total, n, i), total) \in 0 .. total - 1
         /\ i < n => SeenAt(SpanStart(total, n, i), total) = SpanStart(total, n, i)
         /\ i = n => SeenAt(SpanStart(total, n, i), total) = total - 1
<1>1. SpanStart(total, n, i) \in 0..total /\ SpanStart(total, n, n) = total
  BY EdgeIsBoundary
<1>2. n \in 0..n /\ (i < n \/ i = n)
  BY SMT
<1>3. CASE i < n
  <2>1. SpanStart(total, n, i) + gap < total
    BY <1>1, <1>2, <1>3, EdgesApart
  <2> QED BY <1>1, <1>3, <2>1, SMT DEF SeenAt, Lower
<1>4. CASE i = n
  BY <1>1, <1>4, SMT DEF SeenAt, Lower
<1> QED BY <1>2, <1>3, <1>4

\* No boundary lies inside of a cell.
LEMMA NoneBetween ==
  ASSUME NEW total \in Nat \ {0}, NEW n \in Nat \ {0}, NEW gap \in Nat, Wide(total, n, gap),
         NEW i \in 0..n, NEW j \in 0 .. n - 1
  PROVE  \/ SpanStart(total, n, i) <= SpanStart(total, n, j)
         \/ SpanStart(total, n, j + 1) <= SpanStart(total, n, i)
<1> DEFINE b == SpanStart(total, n, i)
           c == SpanStart(total, n, j)
           d == SpanStart(total, n, j + 1)
<1>1. j \in 0..n /\ j + 1 \in 0..n /\ (i = j \/ i = j + 1 \/ i < j \/ j + 1 < i)
  BY SMT
<1>2. b \in 0..total /\ c \in 0..total /\ d \in 0..total
  BY <1>1, EdgeIsBoundary
<1>3. CASE i = j
  BY <1>2, <1>3, SMT
<1>4. CASE i = j + 1
  BY <1>2, <1>4, SMT
<1>5. CASE i < j
  <2>1. b + gap < c
    BY <1>1, <1>5, EdgesApart
  <2> HIDE DEF b, c, d
  <2>2. b <= c
    BY <1>2, <2>1, SMT
  <2> QED BY <2>2 DEF b, c
<1>6. CASE j + 1 < i
  <2>1. d + gap < b
    BY <1>1, <1>6, EdgesApart
  <2> HIDE DEF b, c, d
  <2>2. d <= b
    BY <1>2, <2>1, SMT
  <2> QED BY <2>2 DEF b, d
<1> QED BY <1>1, <1>3, <1>4, <1>5, <1>6

\* Whatever is drawn along one boundary, where another one is seen it is not.
LEMMA StrokesApart ==
  ASSUME NEW total \in Nat \ {0}, NEW n \in Nat \ {0}, Wide(total, n, 2 * HaloWidth),
         NEW width \in Nat \ {0}, width <= HaloWidth, NEW i \in 0..n, NEW j \in 0..n, i # j
  PROVE  LET range == StrokeRange(SpanStart(total, n, i), width, total)
             p == SeenAt(SpanStart(total, n, j), total)
         IN ~ (range.from <= p /\ p < range.upto)
<1> DEFINE b == SpanStart(total, n, i)
           c == SpanStart(total, n, j)
           range == StrokeRange(b, width, total)
           p == SeenAt(c, total)
<1>1. /\ b \in 0..total /\ c \in 0..total /\ HaloWidth \in Nat \ {0} /\ 2 * HaloWidth \in Nat
  BY EdgeIsBoundary, Widths, SMT
<1>2. /\ range.from \in Int /\ range.upto \in Int /\ b - width <= range.from /\ range.upto <= b + width
  BY <1>1, StrokeCovers
<1>3. p \in Int /\ p <= c /\ c - 1 <= p
  BY <1>1, SMT DEF SeenAt, Lower
<1>4. CASE i < j
  <2>1. b + 2 * HaloWidth < c
    BY <1>1, <1>4, EdgesApart
  <2> HIDE DEF b, c, p, range
  <2>2. ~ (range.from <= p /\ p < range.upto)
    BY <1>1, <1>2, <1>3, <2>1, SMT
  <2> QED BY <2>2 DEF b, c, p, range
<1>5. CASE j < i
  <2>1. c + 2 * HaloWidth < b
    BY <1>1, <1>5, EdgesApart
  <2> HIDE DEF b, c, p, range
  <2>2. ~ (range.from <= p /\ p < range.upto)
    BY <1>1, <1>2, <1>3, <2>1, SMT
  <2> QED BY <2>2 DEF b, c, p, range
<1>6. i < j \/ j < i
  BY SMT
<1> QED BY <1>4, <1>5, <1>6

\* The first pixel of a cell that no halo reaches.
ClearAt(total, n, i) == SpanStart(total, n, i) + HaloWidth

\* No stroke reaches the clear pixel of a cell, which lies in the cell.
LEMMA StrokesClear ==
  ASSUME NEW total \in Nat \ {0}, NEW n \in Nat \ {0}, Wide(total, n, 2 * HaloWidth),
         NEW width \in Nat \ {0}, width <= HaloWidth, NEW i \in 0..n, NEW j \in 0 .. n - 1
  PROVE  /\ ClearAt(total, n, j) \in Int
         /\ SpanStart(total, n, j) <= ClearAt(total, n, j)
         /\ ClearAt(total, n, j) < SpanStart(total, n, j + 1)
         /\ LET range == StrokeRange(SpanStart(total, n, i), width, total)
            IN ~ (range.from <= ClearAt(total, n, j) /\ ClearAt(total, n, j) < range.upto)
<1> DEFINE b == SpanStart(total, n, i)
           c == SpanStart(total, n, j)
           d == SpanStart(total, n, j + 1)
           range == StrokeRange(b, width, total)
           p == ClearAt(total, n, j)
<1>1. j \in 0..n /\ j + 1 \in 0..n /\ j < j + 1 /\ 2 * HaloWidth \in Nat /\ HaloWidth \in Nat \ {0}
  BY Widths, SMT
<1>2. b \in 0..total /\ c \in 0..total /\ d \in 0..total
  BY <1>1, EdgeIsBoundary
<1>3. c + 2 * HaloWidth < d
  BY <1>1, EdgesApart
<1>4. range.from \in Int /\ range.upto \in Int /\ b - width <= range.from /\ range.upto <= b + width
  BY <1>2, StrokeCovers
<1>5. p = c + HaloWidth
  BY DEF ClearAt
<1>6. b <= c \/ d <= b
  BY <1>1, NoneBetween
<1> HIDE DEF b, c, d, range, p
<1>7. /\ p \in Int /\ c <= p /\ p < d /\ ~ (range.from <= p /\ p < range.upto)
  BY <1>1, <1>2, <1>3, <1>4, <1>5, <1>6, SMT
<1> QED BY <1>7 DEF b, c, d, range, p

\* A pixel strictly inside of a cell is not where a boundary is seen.
LEMMA InsideUnseen ==
  ASSUME NEW total \in Nat \ {0}, NEW n \in Nat \ {0}, NEW gap \in Nat, Wide(total, n, gap),
         NEW i \in 0..n, NEW j \in 0 .. n - 1, NEW p \in Int,
         SpanStart(total, n, j) < p, p < SpanStart(total, n, j + 1) - 1
  PROVE  p # SeenAt(SpanStart(total, n, i), total)
<1> DEFINE b == SpanStart(total, n, i)
           c == SpanStart(total, n, j)
           d == SpanStart(total, n, j + 1)
<1>1. j \in 0..n /\ j + 1 \in 0..n
  BY SMT
<1>2. b \in 0..total /\ c \in 0..total /\ d \in 0..total
  BY <1>1, EdgeIsBoundary
<1>3. b <= c \/ d <= b
  BY NoneBetween
<1>4. c < p /\ p < d - 1
  OBVIOUS
<1> HIDE DEF b, c, d
<1>5. p # SeenAt(b, total)
  BY <1>2, <1>3, <1>4, SMT DEF SeenAt, Lower
<1> QED BY <1>5 DEF b

-----------------------------------------------------------------------------
(* Where the letters are. *)

\* The HUD has larger letters than a label, and a margin wider than its halo.
LEMMA LetterSizes ==
  /\ HUDSize \in Nat /\ HUDMargin \in Nat /\ HUDRoom \in Nat
  /\ HaloRadius(HUDSize) \in Nat /\ HaloRadius(LabelSize) \in Nat
  /\ GlyphWidth(HUDSize) \in Nat /\ GlyphWidth(LabelSize) \in Nat
  /\ LabelSize < HUDSize /\ 2 <= HUDMargin /\ HUDMargin <= HUDSize
  /\ 1 <= HaloRadius(LabelSize) /\ HaloRadius(LabelSize) <= HaloRadius(HUDSize)
  /\ HaloRadius(HUDSize) < HUDMargin
<1>1. LabelSize \in Nat /\ 1 <= LabelSize
  BY RendererAssumption, SMT
<1>2. HUDSize \in Nat /\ LabelSize < HUDSize
  BY <1>1, SMT DEF HUDSize, Higher, RoundDiv
<1>3. /\ HUDMargin \in Nat /\ 2 <= HUDMargin /\ HUDMargin <= HUDSize
      /\ HaloRadius(HUDSize) \in Nat /\ HaloRadius(LabelSize) \in Nat
      /\ 1 <= HaloRadius(LabelSize) /\ HaloRadius(LabelSize) <= HaloRadius(HUDSize)
      /\ HaloRadius(HUDSize) < HUDMargin
  BY <1>1, <1>2, SMT DEF HUDMargin, HaloRadius, Higher
<1>4. GlyphWidth(HUDSize) \in Nat /\ GlyphWidth(LabelSize) \in Nat
  BY <1>1, <1>2, SMT DEF GlyphWidth, Higher, RoundDiv
<1>5. HUDRoom \in Nat
  BY <1>2, <1>3, SMT DEF HUDRoom
<1> QED BY <1>2, <1>3, <1>4, <1>5

\* A label and its halo stay off the first and the last row of their cell.
LEMMA LabelInside ==
  ASSUME NEW column \in Span, NEW row \in Span, SpanSize(row) >= HUDRoom
  PROVE  /\ Label(column, row) \in Boxes
         /\ column.start <= Label(column, row).x0 /\ Label(column, row).x1 <= column.finish
         /\ row.start < Label(column, row).y0 /\ Label(column, row).y1 < row.finish
         /\ 2 * Label(column, row).y1 <= row.start + row.finish + LabelSize + 2 * HaloRadius(LabelSize)
<1> DEFINE x == column.start + (SpanSize(column) - GlyphWidth(LabelSize)) \div 2
           y == row.start + (SpanSize(row) - LabelSize) \div 2
           r == HaloRadius(LabelSize)
           w == GlyphWidth(LabelSize)
<1>1. /\ column.start \in Nat /\ column.finish \in Nat /\ row.start \in Nat /\ row.finish \in Nat
      /\ LabelSize \in Nat /\ r \in Nat /\ w \in Nat
  BY LetterSizes, RendererAssumption DEF Span
<1>2. row.finish - row.start >= LabelSize + 2 * r + 2
  BY <1>1, LetterSizes, SMT DEF SpanSize, HUDRoom
<1>3. /\ Label(column, row).x0 = Higher(column.start, x - r)
      /\ Label(column, row).x1 = Lower(column.finish, x + w + r)
      /\ Label(column, row).y0 = Higher(row.start, y - r)
      /\ Label(column, row).y1 = Lower(row.finish, y + LabelSize + r)
  BY DEF Label, Box
<1>4. x \in Int /\ y \in Int
  BY <1>1, SMT DEF SpanSize
<1>5. Label(column, row) \in Boxes
  <2>1. /\ Higher(column.start, x - r) \in Int /\ Lower(column.finish, x + w + r) \in Int
        /\ Higher(row.start, y - r) \in Int /\ Lower(row.finish, y + LabelSize + r) \in Int
    BY <1>1, <1>4, SMT DEF Higher, Lower
  <2>2. Label(column, row) = Box(Higher(column.start, x - r), Higher(row.start, y - r),
                                 Lower(column.finish, x + w + r),
                                 Lower(row.finish, y + LabelSize + r), "label")
    BY DEF Label
  <2>3. "label" \in Colours
    BY DEF Colours
  <2> QED BY <2>1, <2>2, <2>3, BoxInBoxes
<1>6. 2 * y <= 2 * row.start + (row.finish - row.start - LabelSize) /\ row.start + r < y
  BY <1>1, <1>2, SMT DEF SpanSize
<1> HIDE DEF x, y, r, w
<1>7. /\ column.start <= Higher(column.start, x - r) /\ Lower(column.finish, x + w + r) <= column.finish
      /\ row.start < Higher(row.start, y - r) /\ Lower(row.finish, y + LabelSize + r) < row.finish
      /\ 2 * Lower(row.finish, y + LabelSize + r) <= row.start + row.finish + LabelSize + 2 * r
  BY <1>1, <1>2, <1>4, <1>6, SMT DEF Higher, Lower
<1> QED BY <1>3, <1>5, <1>7 DEF r

\* The HUD and its halo stay inside of one row, off its first and last pixels,
\* and off the labels of the bottom row.
LEMMA HUDInside ==
  ASSUME NEW sizes \in [Axes -> Nat \ {0}], NEW n \in Nat \ {0},
         \A i \in 0 .. n - 1 : SpanSize(PartitionSpans(sizes.y, n)[i]) >= HUDRoom,
         sizes.y >= 3 * HUDRoom
  PROVE  /\ HUD(sizes, n) \in Boxes
         /\ \E j \in 0 .. n - 1 : /\ SpanStart(sizes.y, n, j) < HUD(sizes, n).y0
                                  /\ HUD(sizes, n).y1 < SpanStart(sizes.y, n, j + 1)
         /\ \A column \in Span :
              HUD(sizes, n).y1 <= Label(column, PartitionSpans(sizes.y, n)[n - 1]).y0
              \/ Label(column, PartitionSpans(sizes.y, n)[n - 1]).y1 <= HUD(sizes, n).y0
<1> DEFINE total == sizes.y
           h == HUDSize
           m == HUDMargin
           r == HaloRadius(HUDSize)
           above == total - SpanSize(PartitionSpans(total, n)[n - 1]) - h - m
           y == IF above < m THEN Higher(0, total - h - m) ELSE above
           hud == HUD(sizes, n)
           top == SpanStart(total, n, n - 1)
           bottom == PartitionSpans(total, n)[n - 1]
<1>1. total \in Nat \ {0} /\ sizes.x \in Nat \ {0} /\ total >= 3 * HUDRoom
  BY SMT DEF Axes
<1>2. /\ h \in Nat /\ m \in Nat /\ r \in Nat /\ HUDRoom = h + m + r + 1 /\ 2 <= m /\ m <= h
      /\ 1 <= r /\ r < m
  BY LetterSizes, SMT DEF HUDRoom
<1> DEFINE width == 2 * GlyphWidth(HUDSize) + Higher(1, HUDSize \div 5)
           middle == Higher((sizes.x - width) \div 2, HUDMargin)
           x == IF middle + width > sizes.x - HUDMargin THEN Higher(0, sizes.x - HUDMargin - width)
                ELSE middle
<1>3. hud = Box(x - r, y - r, x + width + r, y + h + r, "hud")
  BY DEF HUD, Spans
<1>4. hud.y0 = y - r /\ hud.y1 = y + h + r
  BY <1>3 DEF Box
<1>5. x \in Int /\ width \in Int
  <2>1. width \in Int
    BY LetterSizes, SMT DEF Higher
  <2> HIDE DEF width
  <2> QED BY <1>1, <1>2, <2>1, SMT DEF Higher
<1> HIDE DEF total, x, width
<1>6. /\ n - 1 \in 0 .. n - 1 /\ n - 1 \in 0..n /\ n \in 0..n /\ (n - 1) + 1 = n
  BY SMT
<1>7. /\ top \in 0..total /\ bottom.start = top /\ bottom.finish = total
  <2>1. bottom.finish = SpanStart(total, n, (n - 1) + 1) /\ bottom.start = top
    BY <1>1, <1>6, EdgeIsBoundary
  <2>2. SpanStart(total, n, n) = total /\ top \in 0..total
    BY <1>1, <1>6, EdgeIsBoundary
  <2> QED BY <1>6, <2>1, <2>2
<1>8. total - top >= HUDRoom /\ above = top - h - m
  <2>1. SpanSize(bottom) >= HUDRoom
    BY <1>6 DEF total
  <2> QED BY <1>1, <1>2, <1>7, <2>1, SMT DEF SpanSize
<1>9. bottom \in Span /\ SpanSize(bottom) >= HUDRoom
  <2>1. bottom = [start |-> top, finish |-> SpanStart(total, n, (n - 1) + 1)]
    BY <1>6 DEF PartitionSpans
  <2>2. SpanStart(total, n, (n - 1) + 1) = total
    BY <1>1, <1>6, EdgeIsBoundary
  <2>3. bottom \in Span
    BY <1>1, <1>7, <2>1, <2>2, SMT DEF Span
  <2> QED BY <1>6, <2>3 DEF total
<1>10. hud \in Boxes
  <2>1. y \in Int
    BY <1>1, <1>2, <1>7, <1>8, SMT DEF Higher
  <2> HIDE DEF y
  <2>2. x - r \in Int /\ y - r \in Int /\ x + width + r \in Int /\ y + h + r \in Int
    BY <1>2, <1>5, <2>1, SMT
  <2>3. "hud" \in Colours
    BY DEF Colours
  <2> QED BY <1>3, <2>2, <2>3, BoxInBoxes
<1>11. CASE n = 1
  <2>1. top = 0
    BY <1>1, <1>11, EdgeIsBoundary
  <2>2. y = total - h - m
    BY <1>1, <1>2, <1>8, <2>1, SMT DEF Higher
  <2>3. 0 < hud.y0 /\ hud.y1 < total
    BY <1>1, <1>2, <1>4, <2>2, SMT
  <2>4. 0 \in 0 .. n - 1 /\ SpanStart(total, n, 0) = 0 /\ SpanStart(total, n, 0 + 1) = total
    <3>1. 0 \in 0 .. n - 1 /\ 0 + 1 = n
      BY <1>11, SMT
    <3> QED BY <1>1, <3>1, EdgeIsBoundary
  <2>5. ASSUME NEW column \in Span PROVE Label(column, bottom).y1 <= hud.y0
    <3>1. /\ 2 * Label(column, bottom).y1 <= top + total + LabelSize + 2 * HaloRadius(LabelSize)
          /\ Label(column, bottom).y1 \in Int
      BY <1>7, <1>9, LabelInside DEF Boxes
    <3>2. LabelSize \in Nat /\ LabelSize < h /\ HaloRadius(LabelSize) \in Nat /\ HaloRadius(LabelSize) <= r
      BY LetterSizes, RendererAssumption
    <3> HIDE DEF hud, bottom, top, h, m, r, y
    <3> QED BY <1>1, <1>2, <1>4, <2>1, <2>2, <3>1, <3>2, SMT
  <2> QED BY <1>10, <2>3, <2>4, <2>5 DEF total
<1>12. CASE n # 1
  <2>1. n - 2 \in 0 .. n - 1 /\ (n - 2) + 1 = n - 1 /\ 2 <= n
    BY <1>12, SMT
  <2>2. top - SpanStart(total, n, n - 2) >= HUDRoom
    <3>1. /\ PartitionSpans(total, n)[n - 2].start = SpanStart(total, n, n - 2)
          /\ PartitionSpans(total, n)[n - 2].finish = SpanStart(total, n, (n - 2) + 1)
      BY <1>1, <2>1, EdgeIsBoundary
    <3>2. SpanSize(PartitionSpans(total, n)[n - 2]) >= HUDRoom
      BY <2>1 DEF total
    <3> QED BY <2>1, <3>1, <3>2 DEF SpanSize
  <2>3. SpanStart(total, n, n - 2) \in Nat
    <3>1. n - 2 \in 0..n
      BY <2>1, SMT
    <3>2. SpanStart(total, n, n - 2) \in 0..total
      BY <1>1, <3>1, EdgeIsBoundary
    <3> QED BY <3>2, SMT
  <2>4. h + 2 * m <= top
    <3> DEFINE k == h + 2 * m
    <3>1. k \in Nat /\ 2 * k <= total
      BY <1>1, <1>2, SMT
    <3>2. n * k <= (n - 1) * total
      <4>1. /\ (n - 1) * (2 * k) <= (n - 1) * total /\ (n - 1) * (2 * k) \in Int
            /\ (n - 1) * total \in Int
        BY <1>1, <3>1, <2>1, Monotone, SMT
      <4>2. k * n <= k * (2 * (n - 1)) /\ k * n = n * k
        BY <3>1, <2>1, Monotone, SMT
      <4>3. k * (2 * (n - 1)) = (n - 1) * (2 * k) /\ n * k \in Int
        BY <3>1, SMT
      <4> HIDE DEF k
      <4> QED BY <4>1, <4>2, <4>3, SMT
    <3>3. (n - 1) * total \in Int
      BY <1>1, SMT
    <3>4. k <= ((n - 1) * total) \div n
      BY <3>1, <3>2, <3>3, AtMostDiv, SMT
    <3> QED BY <3>4 DEF SpanStart
  <2>5. y = top - h - m
    <3> HIDE DEF top, h, m, above
    <3> QED BY <1>1, <1>2, <1>7, <1>8, <2>4, SMT
  <2>6. SpanStart(total, n, n - 2) < hud.y0 /\ hud.y1 < top
    <3> HIDE DEF top, h, m, r, hud, y
    <3> QED BY <1>1, <1>2, <1>4, <1>7, <2>2, <2>3, <2>5, SMT
  <2>7. ASSUME NEW column \in Span PROVE hud.y1 <= Label(column, bottom).y0
    <3>1. top < Label(column, bottom).y0 /\ Label(column, bottom).y0 \in Int
      BY <1>7, <1>9, LabelInside DEF Boxes
    <3>2. hud.y1 \in Int
      BY <1>10 DEF Boxes
    <3> HIDE DEF hud, bottom, top
    <3> QED BY <1>7, <2>6, <3>1, <3>2, SMT
  <2> QED BY <1>10, <2>1, <2>6, <2>7 DEF total
<1> QED BY <1>11, <1>12

-----------------------------------------------------------------------------
(* What is drawn along the boundaries of a monitor with room for it. *)

Room(sizes, n) ==
  /\ sizes \in [Axes -> Nat \ {0}] /\ n \in Nat \ {0}
  /\ Wide(sizes.x, n, 2 * HaloWidth) /\ Wide(sizes.y, n, 2 * HaloWidth)
  /\ \A i \in 0 .. n - 1 : SpanSize(PartitionSpans(sizes.y, n)[i]) >= HUDRoom
  /\ sizes.y >= 3 * HUDRoom

\* Where the boundaries are seen, and the pixels of the cells that no halo reaches.
SeenX(sizes, n, i) == SeenAt(SpanStart(sizes.x, n, i), sizes.x)
SeenY(sizes, n, j) == SeenAt(SpanStart(sizes.y, n, j), sizes.y)
ClearX(sizes, n, i) == ClearAt(sizes.x, n, i)
ClearY(sizes, n, j) == ClearAt(sizes.y, n, j)

\* The types of such a monitor.
LEMMA RoomTypes ==
  ASSUME NEW sizes, NEW n, Room(sizes, n)
  PROVE  /\ sizes.x \in Nat \ {0} /\ sizes.y \in Nat \ {0} /\ n \in Nat \ {0}
         /\ 2 * HaloWidth \in Nat
         /\ Wide(sizes.x, n, 2 * HaloWidth) /\ Wide(sizes.y, n, 2 * HaloWidth)
<1>1. 2 * HaloWidth \in Nat
  BY Widths, SMT
<1>2. sizes["x"] \in Nat \ {0} /\ sizes["y"] \in Nat \ {0}
  BY DEF Room, Axes
<1> QED BY <1>1, <1>2, SMT DEF Room

\* A pair of boxes.
LEMMA PairInSeq ==
  ASSUME NEW a \in Boxes, NEW b \in Boxes
  PROVE  <<a, b>> \in Seq(Boxes) /\ DOMAIN <<a, b>> = {1, 2} /\ <<a, b>>[1] = a /\ <<a, b>>[2] = b
BY SMT

LEMMA PairTops ==
  ASSUME NEW a, NEW b, NEW x, NEW y, Inside(b, x, y)
  PROVE  Tops(<<a, b>>, b.colour, x, y)
<1>1. DOMAIN <<a, b>> = {1, 2} /\ <<a, b>>[2] = b
  BY SMT
<1>2. \A j \in {1, 2} : ~ j > 2
  BY SMT
<1> QED BY <1>1, <1>2 DEF Tops

LEMMA PairMisses ==
  ASSUME NEW a, NEW b, NEW x, NEW y, ~ Inside(a, x, y), ~ Inside(b, x, y)
  PROVE  Misses(<<a, b>>, x, y)
BY SMT DEF Misses

\* A vertical stroke is two boxes; it is seen where its boundary is, and covers
\* neither another boundary nor a clear pixel.
LEMMA VerticalBoxes ==
  ASSUME NEW sizes, NEW n, Room(sizes, n), NEW i \in 0..n, NEW y0 \in Int, NEW y1 \in Int,
         NEW halo \in Colours, NEW core \in Colours
  PROVE  LET s == Vertical(sizes, SpanStart(sizes.x, n, i), y0, y1, halo, core)
         IN s[1] \in Boxes /\ s[2] \in Boxes /\ s \in Seq(Boxes)
<1> DEFINE b == SpanStart(sizes.x, n, i)
           wide == StrokeRange(b, HaloWidth, sizes.x)
           thin == StrokeRange(b, LineWidth, sizes.x)
<1>1. b \in 0 .. sizes.x
  BY RoomTypes, EdgeIsBoundary
<1>2. /\ wide.from \in Int /\ wide.upto \in Int /\ thin.from \in Int /\ thin.upto \in Int
  BY <1>1, RoomTypes, Widths, StrokeCovers
<1>3. /\ Box(wide.from, y0, wide.upto, y1, halo) \in Boxes
      /\ Box(thin.from, y0, thin.upto, y1, core) \in Boxes
  BY <1>2, BoxInBoxes
<1>4. Vertical(sizes, b, y0, y1, halo, core)
        = <<Box(wide.from, y0, wide.upto, y1, halo), Box(thin.from, y0, thin.upto, y1, core)>>
  BY DEF Vertical
<1> QED BY <1>3, <1>4, PairInSeq

LEMMA VerticalSeen ==
  ASSUME NEW sizes, NEW n, Room(sizes, n), NEW i \in 0..n, NEW y0 \in Int, NEW y1 \in Int,
         NEW halo \in Colours, NEW core \in Colours, NEW y \in Int, y0 <= y, y < y1
  PROVE  LET s == Vertical(sizes, SpanStart(sizes.x, n, i), y0, y1, halo, core)
         IN /\ Inside(s[2], SeenX(sizes, n, i), y) /\ s[2].colour = core
            /\ Tops(s, core, SeenX(sizes, n, i), y)
<1> DEFINE b == SpanStart(sizes.x, n, i)
           wide == StrokeRange(b, HaloWidth, sizes.x)
           thin == StrokeRange(b, LineWidth, sizes.x)
           first == Box(wide.from, y0, wide.upto, y1, halo)
           second == Box(thin.from, y0, thin.upto, y1, core)
<1>1. b \in 0 .. sizes.x
  BY RoomTypes, EdgeIsBoundary
<1>2. thin.from <= SeenX(sizes, n, i) /\ SeenX(sizes, n, i) < thin.upto
  BY <1>1, RoomTypes, Widths, StrokeCovers DEF SeenX
<1>3. Inside(second, SeenX(sizes, n, i), y) /\ second.colour = core
  BY <1>2 DEF Inside, Box
<1>4. Vertical(sizes, b, y0, y1, halo, core) = <<first, second>>
  BY DEF Vertical
<1> HIDE DEF first, second
<1>5. <<first, second>>[2] = second
  BY SMT
<1> QED BY <1>3, <1>4, <1>5, PairTops

LEMMA VerticalMissed ==
  ASSUME NEW sizes, NEW n, Room(sizes, n), NEW i \in 0..n, NEW y0, NEW y1, NEW halo, NEW core,
         NEW x, NEW y,
         \/ \E j \in 0..n : i # j /\ x = SeenX(sizes, n, j)
         \/ \E j \in 0 .. n - 1 : x = ClearX(sizes, n, j)
  PROVE  LET s == Vertical(sizes, SpanStart(sizes.x, n, i), y0, y1, halo, core)
         IN ~ Inside(s[1], x, y) /\ ~ Inside(s[2], x, y) /\ Misses(s, x, y)
<1> DEFINE b == SpanStart(sizes.x, n, i)
           wide == StrokeRange(b, HaloWidth, sizes.x)
           thin == StrokeRange(b, LineWidth, sizes.x)
           first == Box(wide.from, y0, wide.upto, y1, halo)
           second == Box(thin.from, y0, thin.upto, y1, core)
<1>1. HaloWidth <= HaloWidth
  BY Widths, SMT
<1>2. ~ (wide.from <= x /\ x < wide.upto) /\ ~ (thin.from <= x /\ x < thin.upto)
  <2>1. CASE \E j \in 0..n : i # j /\ x = SeenX(sizes, n, j)
    BY <1>1, <2>1, RoomTypes, Widths, StrokesApart DEF SeenX
  <2>2. CASE \E j \in 0 .. n - 1 : x = ClearX(sizes, n, j)
    BY <1>1, <2>2, RoomTypes, Widths, StrokesClear DEF ClearX
  <2> QED BY <2>1, <2>2
<1>3. ~ Inside(first, x, y) /\ ~ Inside(second, x, y)
  BY <1>2 DEF Inside, Box
<1>4. Vertical(sizes, b, y0, y1, halo, core) = <<first, second>>
  BY DEF Vertical
<1> HIDE DEF first, second
<1>5. <<first, second>>[1] = first /\ <<first, second>>[2] = second
  BY SMT
<1> QED BY <1>3, <1>4, <1>5, PairMisses

\* The same of a horizontal stroke.
LEMMA HorizontalBoxes ==
  ASSUME NEW sizes, NEW n, Room(sizes, n), NEW i \in 0..n, NEW x0 \in Int, NEW x1 \in Int,
         NEW halo \in Colours, NEW core \in Colours
  PROVE  LET s == Horizontal(sizes, SpanStart(sizes.y, n, i), x0, x1, halo, core)
         IN s[1] \in Boxes /\ s[2] \in Boxes /\ s \in Seq(Boxes)
<1> DEFINE b == SpanStart(sizes.y, n, i)
           wide == StrokeRange(b, HaloWidth, sizes.y)
           thin == StrokeRange(b, LineWidth, sizes.y)
<1>1. b \in 0 .. sizes.y
  BY RoomTypes, EdgeIsBoundary
<1>2. /\ wide.from \in Int /\ wide.upto \in Int /\ thin.from \in Int /\ thin.upto \in Int
  BY <1>1, RoomTypes, Widths, StrokeCovers
<1>3. /\ Box(x0, wide.from, x1, wide.upto, halo) \in Boxes
      /\ Box(x0, thin.from, x1, thin.upto, core) \in Boxes
  BY <1>2, BoxInBoxes
<1>4. Horizontal(sizes, b, x0, x1, halo, core)
        = <<Box(x0, wide.from, x1, wide.upto, halo), Box(x0, thin.from, x1, thin.upto, core)>>
  BY DEF Horizontal
<1> QED BY <1>3, <1>4, PairInSeq

LEMMA HorizontalSeen ==
  ASSUME NEW sizes, NEW n, Room(sizes, n), NEW i \in 0..n, NEW x0 \in Int, NEW x1 \in Int,
         NEW halo \in Colours, NEW core \in Colours, NEW x \in Int, x0 <= x, x < x1
  PROVE  LET s == Horizontal(sizes, SpanStart(sizes.y, n, i), x0, x1, halo, core)
         IN /\ Inside(s[2], x, SeenY(sizes, n, i)) /\ s[2].colour = core
            /\ Tops(s, core, x, SeenY(sizes, n, i))
<1> DEFINE b == SpanStart(sizes.y, n, i)
           wide == StrokeRange(b, HaloWidth, sizes.y)
           thin == StrokeRange(b, LineWidth, sizes.y)
           first == Box(x0, wide.from, x1, wide.upto, halo)
           second == Box(x0, thin.from, x1, thin.upto, core)
<1>1. b \in 0 .. sizes.y
  BY RoomTypes, EdgeIsBoundary
<1>2. thin.from <= SeenY(sizes, n, i) /\ SeenY(sizes, n, i) < thin.upto
  BY <1>1, RoomTypes, Widths, StrokeCovers DEF SeenY
<1>3. Inside(second, x, SeenY(sizes, n, i)) /\ second.colour = core
  BY <1>2 DEF Inside, Box
<1>4. Horizontal(sizes, b, x0, x1, halo, core) = <<first, second>>
  BY DEF Horizontal
<1> HIDE DEF first, second
<1>5. <<first, second>>[2] = second
  BY SMT
<1> QED BY <1>3, <1>4, <1>5, PairTops

LEMMA HorizontalMissed ==
  ASSUME NEW sizes, NEW n, Room(sizes, n), NEW i \in 0..n, NEW x0, NEW x1, NEW halo, NEW core,
         NEW x, NEW y,
         \/ \E j \in 0..n : i # j /\ y = SeenY(sizes, n, j)
         \/ \E j \in 0 .. n - 1 : y = ClearY(sizes, n, j)
  PROVE  LET s == Horizontal(sizes, SpanStart(sizes.y, n, i), x0, x1, halo, core)
         IN ~ Inside(s[1], x, y) /\ ~ Inside(s[2], x, y) /\ Misses(s, x, y)
<1> DEFINE b == SpanStart(sizes.y, n, i)
           wide == StrokeRange(b, HaloWidth, sizes.y)
           thin == StrokeRange(b, LineWidth, sizes.y)
           first == Box(x0, wide.from, x1, wide.upto, halo)
           second == Box(x0, thin.from, x1, thin.upto, core)
<1>1. HaloWidth <= HaloWidth
  BY Widths, SMT
<1>2. ~ (wide.from <= y /\ y < wide.upto) /\ ~ (thin.from <= y /\ y < thin.upto)
  <2>1. CASE \E j \in 0..n : i # j /\ y = SeenY(sizes, n, j)
    BY <1>1, <2>1, RoomTypes, Widths, StrokesApart DEF SeenY
  <2>2. CASE \E j \in 0 .. n - 1 : y = ClearY(sizes, n, j)
    BY <1>1, <2>2, RoomTypes, Widths, StrokesClear DEF ClearY
  <2> QED BY <2>1, <2>2
<1>3. ~ Inside(first, x, y) /\ ~ Inside(second, x, y)
  BY <1>2 DEF Inside, Box
<1>4. Horizontal(sizes, b, x0, x1, halo, core) = <<first, second>>
  BY DEF Horizontal
<1> HIDE DEF first, second
<1>5. <<first, second>>[1] = first /\ <<first, second>>[2] = second
  BY SMT
<1> QED BY <1>3, <1>4, <1>5, PairMisses

\* A horizontal line of a column is not beside it.
LEMMA HorizontalBeside ==
  ASSUME NEW sizes, NEW center, NEW x0 \in Int, NEW x1 \in Int, NEW halo, NEW core,
         NEW x \in Int, NEW y, x1 <= x
  PROVE  LET s == Horizontal(sizes, center, x0, x1, halo, core)
         IN ~ Inside(s[1], x, y) /\ ~ Inside(s[2], x, y) /\ Misses(s, x, y)
<1> DEFINE wide == StrokeRange(center, HaloWidth, sizes.y)
           thin == StrokeRange(center, LineWidth, sizes.y)
           first == Box(x0, wide.from, x1, wide.upto, halo)
           second == Box(x0, thin.from, x1, thin.upto, core)
<1>1. ~ x < x1
  BY SMT
<1>2. ~ Inside(first, x, y) /\ ~ Inside(second, x, y)
  BY <1>1 DEF Inside, Box
<1>3. Horizontal(sizes, center, x0, x1, halo, core) = <<first, second>>
  BY DEF Horizontal
<1> HIDE DEF first, second
<1>4. <<first, second>>[1] = first /\ <<first, second>>[2] = second
  BY SMT
<1> QED BY <1>2, <1>3, <1>4, PairMisses

\* Where the boundaries and the clear pixels of a cell are.
LEMMA Corners ==
  ASSUME NEW sizes, NEW n, Room(sizes, n), NEW i \in 0..n
  PROVE  /\ SeenX(sizes, n, i) \in 0 .. sizes.x - 1 /\ SeenY(sizes, n, i) \in 0 .. sizes.y - 1
         /\ i < n => /\ SeenX(sizes, n, i) = SpanStart(sizes.x, n, i)
                     /\ SeenY(sizes, n, i) = SpanStart(sizes.y, n, i)
         /\ i = n => SeenX(sizes, n, i) = sizes.x - 1 /\ SeenY(sizes, n, i) = sizes.y - 1
BY RoomTypes, SeenEdges DEF SeenX, SeenY

\* A cell lies between two boundaries, and its row has room for the HUD.
LEMMA CellBounds ==
  ASSUME NEW sizes, NEW n, Room(sizes, n), NEW i \in 0 .. n - 1
  PROVE  LET column == Spans(sizes, n).x[i]
             row == Spans(sizes, n).y[i]
         IN /\ column \in Span /\ row \in Span /\ SpanSize(row) >= HUDRoom
            /\ column.start = SpanStart(sizes.x, n, i) /\ column.finish = SpanStart(sizes.x, n, i + 1)
            /\ row.start = SpanStart(sizes.y, n, i) /\ row.finish = SpanStart(sizes.y, n, i + 1)
            /\ column.start < column.finish /\ row.start < row.finish
            /\ column.finish <= sizes.x /\ row.finish <= sizes.y
<1>1. i \in 0..n /\ i + 1 \in 0..n /\ i < i + 1
  BY RoomTypes, SMT
<1>2. ASSUME NEW total \in Nat \ {0}, Wide(total, n, 2 * HaloWidth)
      PROVE  LET span == PartitionSpans(total, n)[i]
             IN /\ span \in Span /\ span.start = SpanStart(total, n, i)
                /\ span.finish = SpanStart(total, n, i + 1)
                /\ span.start < span.finish /\ span.finish <= total
  <2> DEFINE low == SpanStart(total, n, i)
             high == SpanStart(total, n, i + 1)
  <2>1. low \in 0..total /\ high \in 0..total
    BY <1>1, RoomTypes, EdgeIsBoundary
  <2>2. low + 2 * HaloWidth < high
    BY <1>1, <1>2, RoomTypes, EdgesApart
  <2>3. PartitionSpans(total, n)[i] = [start |-> low, finish |-> high]
    BY DEF PartitionSpans
  <2> HIDE DEF low, high
  <2>4. low \in Nat /\ high \in Nat /\ low < high /\ high <= total
    BY <2>1, <2>2, RoomTypes, SMT
  <2>5. [start |-> low, finish |-> high] \in Span
    BY <2>4 DEF Span
  <2> QED BY <2>3, <2>4, <2>5 DEF low, high
<1>3. SpanSize(PartitionSpans(sizes.y, n)[i]) >= HUDRoom
  BY DEF Room
<1> QED BY <1>2, <1>3, RoomTypes DEF Spans

\* The cells of an axis do not overlap.
LEMMA CellsApart ==
  ASSUME NEW total \in Nat \ {0}, NEW n \in Nat \ {0}, NEW gap \in Nat, Wide(total, n, gap),
         NEW i \in 0 .. n - 1, NEW j \in 0 .. n - 1, i < j
  PROVE  SpanStart(total, n, i + 1) <= SpanStart(total, n, j)
<1>1. i + 1 \in 0..n /\ j \in 0..n /\ (i + 1 = j \/ i + 1 < j)
  BY SMT
<1>2. SpanStart(total, n, i + 1) \in 0..total /\ SpanStart(total, n, j) \in 0..total
  BY <1>1, EdgeIsBoundary
<1>3. CASE i + 1 = j
  BY <1>2, <1>3, SMT
<1>4. CASE i + 1 < j
  <2>1. SpanStart(total, n, i + 1) + gap < SpanStart(total, n, j)
    BY <1>1, <1>4, EdgesApart
  <2> QED BY <1>2, <2>1, SMT
<1> QED BY <1>1, <1>3, <1>4

\* A label hides no line, and only the clear pixels of its own cell.
LEMMA LabelMisses ==
  ASSUME NEW sizes, NEW n, Room(sizes, n), NEW i \in 0 .. n - 1, NEW r \in 0 .. n - 1
  PROVE  LET label == Label(Spans(sizes, n).x[i], Spans(sizes, n).y[r])
         IN /\ label \in Boxes
            /\ \A x, j : j \in 0..n => ~ Inside(label, x, SeenY(sizes, n, j))
            /\ \A c, d \in 0 .. n - 1 :
                 (i # c \/ r # d) => ~ Inside(label, ClearX(sizes, n, c), ClearY(sizes, n, d))
<1> DEFINE column == Spans(sizes, n).x[i]
           row == Spans(sizes, n).y[r]
           label == Label(column, row)
<1>1. /\ column \in Span /\ row \in Span /\ SpanSize(row) >= HUDRoom
      /\ column.start = SpanStart(sizes.x, n, i) /\ column.finish = SpanStart(sizes.x, n, i + 1)
      /\ row.start = SpanStart(sizes.y, n, r) /\ row.finish = SpanStart(sizes.y, n, r + 1)
  BY CellBounds
<1>2. /\ label \in Boxes
      /\ column.start <= label.x0 /\ label.x1 <= column.finish
      /\ row.start < label.y0 /\ label.y1 < row.finish
  BY <1>1, LabelInside
<1>3. /\ label.x0 \in Int /\ label.x1 \in Int /\ label.y0 \in Int /\ label.y1 \in Int
      /\ column.start \in Int /\ column.finish \in Int /\ row.start \in Int /\ row.finish \in Int
  BY <1>1, <1>2, SMT DEF Boxes, Span
<1>4. ASSUME NEW x, NEW j \in 0..n PROVE ~ Inside(label, x, SeenY(sizes, n, j))
  <2> DEFINE p == SeenY(sizes, n, j)
  <2>1. p \in Int
    BY Corners, RoomTypes, SMT
  <2>2. ASSUME row.start < p, p < row.finish - 1 PROVE FALSE
    <3>1. SpanStart(sizes.y, n, r) < p /\ p < SpanStart(sizes.y, n, r + 1) - 1
      BY <1>1, <2>2
    <3> QED BY <2>1, <3>1, RoomTypes, InsideUnseen DEF SeenY
  <2> HIDE DEF p, label, row, column
  <2>3. ~ (label.y0 <= p /\ p < label.y1)
    BY <1>2, <1>3, <2>1, <2>2, SMT
  <2> QED BY <2>3 DEF Inside, p
<1>5. ASSUME NEW c \in 0 .. n - 1, NEW d \in 0 .. n - 1, i # c \/ r # d
      PROVE  ~ Inside(label, ClearX(sizes, n, c), ClearY(sizes, n, d))
  <2> DEFINE x == ClearX(sizes, n, c)
             y == ClearY(sizes, n, d)
  <2>1. /\ x \in Int /\ SpanStart(sizes.x, n, c) <= x /\ x < SpanStart(sizes.x, n, c + 1)
        /\ y \in Int /\ SpanStart(sizes.y, n, d) <= y /\ y < SpanStart(sizes.y, n, d + 1)
    <3>1. 0 \in 0..n /\ HaloWidth <= HaloWidth
      BY RoomTypes, Widths, SMT
    <3> QED BY <3>1, RoomTypes, Widths, StrokesClear DEF ClearX, ClearY
  <2>2. /\ SpanStart(sizes.x, n, c) \in Int /\ SpanStart(sizes.x, n, c + 1) \in Int
        /\ SpanStart(sizes.y, n, d) \in Int /\ SpanStart(sizes.y, n, d + 1) \in Int
    <3>1. c \in 0..n /\ c + 1 \in 0..n /\ d \in 0..n /\ d + 1 \in 0..n
      BY RoomTypes, SMT
    <3>2. /\ SpanStart(sizes.x, n, c) \in 0 .. sizes.x /\ SpanStart(sizes.x, n, c + 1) \in 0 .. sizes.x
          /\ SpanStart(sizes.y, n, d) \in 0 .. sizes.y /\ SpanStart(sizes.y, n, d + 1) \in 0 .. sizes.y
      BY <3>1, RoomTypes, EdgeIsBoundary
    <3> QED BY <3>2, SMT
  <2>3. CASE i # c
    <3>1. column.finish <= SpanStart(sizes.x, n, c) \/ SpanStart(sizes.x, n, c + 1) <= column.start
      <4>1. i < c \/ c < i
        BY <2>3, RoomTypes, SMT
      <4> QED BY <1>1, <4>1, RoomTypes, CellsApart
    <3> HIDE DEF x, y, label, column, row
    <3>2. ~ (label.x0 <= x /\ x < label.x1)
      BY <1>2, <1>3, <2>1, <2>2, <3>1, SMT
    <3> QED BY <3>2 DEF Inside, x, y
  <2>4. CASE r # d
    <3>1. row.finish <= SpanStart(sizes.y, n, d) \/ SpanStart(sizes.y, n, d + 1) <= row.start
      <4>1. r < d \/ d < r
        BY <2>4, RoomTypes, SMT
      <4> QED BY <1>1, <4>1, RoomTypes, CellsApart
    <3> HIDE DEF x, y, label, column, row
    <3>2. ~ (label.y0 <= y /\ y < label.y1)
      BY <1>2, <1>3, <2>1, <2>2, <3>1, SMT
    <3> QED BY <3>2 DEF Inside, x, y
  <2> QED BY <1>5, <2>3, <2>4
<1> QED BY <1>2, <1>4, <1>5

\* The lines are drawn whenever the opacity is not 0.
LEMMA LinesDrawn ==
  ASSUME GridOpacity > 0
  PROVE  Alpha["core"] > 0 /\ Alpha["bright"] > 0
<1>1. GridOpacity \in Nat
  BY RendererAssumption, SMT
<1>2. Scaled(190, 100) > 0
  BY <1>1, SMT DEF Scaled, RoundDiv, Lower
<1>3. Scaled(190, 145) > 0
  BY <1>1, SMT DEF Scaled, RoundDiv, Lower
<1> QED BY <1>2, <1>3 DEF Alpha

\* The outline of a selected cell is seen on each of its sides, and the cell is
\* seen through.
LEMMA OutlineShows ==
  ASSUME NEW sizes, NEW n, Room(sizes, n), GridOpacity > 0,
         NEW c \in 0 .. n - 1, NEW r \in 0 .. n - 1
  PROVE  LET frame == Outline(sizes, Spans(sizes, n).x[c], Spans(sizes, n).y[r])
         IN /\ Colour(frame, SeenX(sizes, n, c), SeenY(sizes, n, r)) = "bright"
            /\ Colour(frame, SeenX(sizes, n, c + 1), SeenY(sizes, n, r)) = "bright"
            /\ Colour(frame, SeenX(sizes, n, c), SeenY(sizes, n, r + 1)) = "bright"
            /\ Colour(frame, ClearX(sizes, n, c), ClearY(sizes, n, r)) = "clear"
<1> DEFINE column == Spans(sizes, n).x[c]
           row == Spans(sizes, n).y[r]
           west == Vertical(sizes, column.start, row.start, row.finish, "brightHalo", "bright")
           east == Vertical(sizes, column.finish, row.start, row.finish, "brightHalo", "bright")
           north == Horizontal(sizes, row.start, column.start, column.finish, "brightHalo", "bright")
           south == Horizontal(sizes, row.finish, column.start, column.finish, "brightHalo", "bright")
           frame == Outline(sizes, column, row)
           sides == west \o east
<1>1. /\ c \in 0..n /\ c + 1 \in 0..n /\ c # c + 1 /\ c < n
      /\ r \in 0..n /\ r + 1 \in 0..n /\ r # r + 1 /\ r < n
  BY RoomTypes, SMT
<1>2. /\ column.start = SpanStart(sizes.x, n, c) /\ column.finish = SpanStart(sizes.x, n, c + 1)
      /\ row.start = SpanStart(sizes.y, n, r) /\ row.finish = SpanStart(sizes.y, n, r + 1)
      /\ column.start \in Int /\ column.finish \in Int /\ row.start \in Int /\ row.finish \in Int
      /\ column.start < column.finish /\ row.start < row.finish
      /\ column.finish <= sizes.x
  BY CellBounds, SMT DEF Span
<1>3. "brightHalo" \in Colours /\ "bright" \in Colours
  BY DEF Colours
<1>4. west \in Seq(Boxes) /\ east \in Seq(Boxes) /\ north \in Seq(Boxes) /\ south \in Seq(Boxes)
  BY <1>1, <1>2, <1>3, VerticalBoxes, HorizontalBoxes
<1>5. sides \in Seq(Boxes) /\ sides \o north \in Seq(Boxes) /\ sides \o north \o south \in Seq(Boxes)
  BY <1>4, ConcatProperties
<1>6. frame = sides \o north \o south
  BY DEF Outline
<1>7. /\ SeenX(sizes, n, c) = column.start /\ SeenY(sizes, n, r) = row.start
      /\ SeenX(sizes, n, c) \in Int /\ SeenX(sizes, n, c + 1) \in Int /\ SeenY(sizes, n, r) \in Int
  <2>1. /\ SeenX(sizes, n, c) \in 0 .. sizes.x - 1 /\ SeenX(sizes, n, c + 1) \in 0 .. sizes.x - 1
        /\ SeenX(sizes, n, c) = SpanStart(sizes.x, n, c) /\ SeenY(sizes, n, r) = SpanStart(sizes.y, n, r)
    BY <1>1, Corners
  <2> QED BY <1>2, <2>1, RoomTypes, SMT
<1> HIDE DEF column, row, west, east, north, south, frame, sides
<1>8. Colour(frame, SeenX(sizes, n, c), SeenY(sizes, n, r)) = "bright"
  <2>1. Tops(north, "bright", SeenX(sizes, n, c), SeenY(sizes, n, r))
    <3>1. column.start <= SeenX(sizes, n, c) /\ SeenX(sizes, n, c) < column.finish
      BY <1>2, <1>7, SMT
    <3> QED BY <1>1, <1>2, <1>3, <1>7, <3>1, HorizontalSeen DEF north
  <2>2. Misses(south, SeenX(sizes, n, c), SeenY(sizes, n, r))
    BY <1>1, <1>2, HorizontalMissed DEF south
  <2>3. Tops(sides \o north, "bright", SeenX(sizes, n, c), SeenY(sizes, n, r))
    BY <1>4, <1>5, <2>1, ConcatTops
  <2>4. Tops(frame, "bright", SeenX(sizes, n, c), SeenY(sizes, n, r))
    BY <1>4, <1>5, <1>6, <2>2, <2>3, ConcatStays
  <2> QED BY <1>5, <1>6, <2>4, TopShows, LinesDrawn
<1>9. Colour(frame, SeenX(sizes, n, c), SeenY(sizes, n, r + 1)) = "bright"
  <2>1. column.start <= SeenX(sizes, n, c) /\ SeenX(sizes, n, c) < column.finish
    BY <1>2, <1>7, SMT
  <2>2. Tops(south, "bright", SeenX(sizes, n, c), SeenY(sizes, n, r + 1))
    BY <1>1, <1>2, <1>3, <1>7, <2>1, HorizontalSeen DEF south
  <2>3. Tops(frame, "bright", SeenX(sizes, n, c), SeenY(sizes, n, r + 1))
    BY <1>4, <1>5, <1>6, <2>2, ConcatTops
  <2> QED BY <1>5, <1>6, <2>3, TopShows, LinesDrawn
<1>10. Colour(frame, SeenX(sizes, n, c + 1), SeenY(sizes, n, r)) = "bright"
  <2>1. Misses(south, SeenX(sizes, n, c + 1), SeenY(sizes, n, r))
    BY <1>1, <1>2, HorizontalMissed DEF south
  <2>2. ASSUME c + 1 < n PROVE Tops(frame, "bright", SeenX(sizes, n, c + 1), SeenY(sizes, n, r))
    <3>1. SeenX(sizes, n, c + 1) = column.finish
      BY <1>1, <1>2, <2>2, Corners
    <3>2. column.finish <= SeenX(sizes, n, c + 1)
      BY <1>2, <3>1, SMT
    <3>3. Misses(north, SeenX(sizes, n, c + 1), SeenY(sizes, n, r))
      BY <1>2, <1>7, <3>2, HorizontalBeside DEF north
    <3>4. row.start <= SeenY(sizes, n, r) /\ SeenY(sizes, n, r) < row.finish
      BY <1>2, <1>7, SMT
    <3>5. Tops(east, "bright", SeenX(sizes, n, c + 1), SeenY(sizes, n, r))
      BY <1>1, <1>2, <1>3, <1>7, <3>4, VerticalSeen DEF east
    <3>6. Tops(sides, "bright", SeenX(sizes, n, c + 1), SeenY(sizes, n, r))
      BY <1>4, <3>5, ConcatTops DEF sides
    <3>7. Tops(sides \o north, "bright", SeenX(sizes, n, c + 1), SeenY(sizes, n, r))
      BY <1>4, <1>5, <3>3, <3>6, ConcatStays
    <3> QED BY <1>4, <1>5, <1>6, <2>1, <3>7, ConcatStays
  <2>3. ASSUME c + 1 = n PROVE Tops(frame, "bright", SeenX(sizes, n, c + 1), SeenY(sizes, n, r))
    <3>1. SeenX(sizes, n, c + 1) = sizes.x - 1 /\ SpanStart(sizes.x, n, c + 1) = sizes.x
      BY <1>1, <2>3, Corners, RoomTypes, EdgeIsBoundary
    <3>2. column.start <= SeenX(sizes, n, c + 1) /\ SeenX(sizes, n, c + 1) < column.finish
      BY <1>2, <3>1, RoomTypes, SMT
    <3>3. Tops(north, "bright", SeenX(sizes, n, c + 1), SeenY(sizes, n, r))
      BY <1>1, <1>2, <1>3, <1>7, <3>2, HorizontalSeen DEF north
    <3>4. Tops(sides \o north, "bright", SeenX(sizes, n, c + 1), SeenY(sizes, n, r))
      BY <1>4, <1>5, <3>3, ConcatTops
    <3> QED BY <1>4, <1>5, <1>6, <2>1, <3>4, ConcatStays
  <2>4. c + 1 < n \/ c + 1 = n
    BY RoomTypes, SMT
  <2>5. Tops(frame, "bright", SeenX(sizes, n, c + 1), SeenY(sizes, n, r))
    BY <2>2, <2>3, <2>4
  <2> QED BY <1>5, <1>6, <2>5, TopShows, LinesDrawn
<1>11. Colour(frame, ClearX(sizes, n, c), ClearY(sizes, n, r)) = "clear"
  <2>1. /\ Misses(west, ClearX(sizes, n, c), ClearY(sizes, n, r))
        /\ Misses(east, ClearX(sizes, n, c), ClearY(sizes, n, r))
    BY <1>1, <1>2, VerticalMissed DEF west, east
  <2>2. /\ Misses(north, ClearX(sizes, n, c), ClearY(sizes, n, r))
        /\ Misses(south, ClearX(sizes, n, c), ClearY(sizes, n, r))
    BY <1>1, <1>2, HorizontalMissed DEF north, south
  <2>3. Misses(sides, ClearX(sizes, n, c), ClearY(sizes, n, r))
    BY <1>4, <2>1, ConcatMisses DEF sides
  <2>4. Misses(sides \o north, ClearX(sizes, n, c), ClearY(sizes, n, r))
    BY <1>4, <1>5, <2>2, <2>3, ConcatMisses
  <2>5. Misses(frame, ClearX(sizes, n, c), ClearY(sizes, n, r))
    BY <1>4, <1>5, <1>6, <2>2, <2>4, ConcatMisses
  <2> QED BY <2>5, MissedIsClear
<1> QED BY <1>8, <1>9, <1>10, <1>11 DEF frame, column, row

\* The boundaries that GridLines and SelectedColumn draw.
LEMMA SpanEdges ==
  ASSUME NEW sizes, NEW n, Room(sizes, n), NEW i \in 0..n
  PROVE  /\ Edge(Spans(sizes, n).x, i) = SpanStart(sizes.x, n, i)
         /\ Edge(Spans(sizes, n).y, i) = SpanStart(sizes.y, n, i)
<1>1. Spans(sizes, n).x = PartitionSpans(sizes.x, n) /\ Spans(sizes, n).y = PartitionSpans(sizes.y, n)
  BY DEF Spans
<1>2. ASSUME NEW total \in Nat \ {0} PROVE Edge(PartitionSpans(total, n), i) = SpanStart(total, n, i)
  <2>1. n \in Nat \ {0}
    BY RoomTypes
  <2>2. \A k \in 0..n : Edge(PartitionSpans(total, n), k) = SpanStart(total, n, k)
    BY <2>1, EdgeIsBoundary
  <2> QED BY <2>2
<1>3. sizes.x \in Nat \ {0} /\ sizes.y \in Nat \ {0}
  BY RoomTypes
<1>4. /\ Edge(PartitionSpans(sizes.x, n), i) = SpanStart(sizes.x, n, i)
      /\ Edge(PartitionSpans(sizes.y, n), i) = SpanStart(sizes.y, n, i)
  BY <1>2, <1>3
<1> QED BY <1>1, <1>4

\* The lines of the grid are seen at the corners of the cells, and the cells are
\* seen through.
LEMMA GridLinesShow ==
  ASSUME NEW sizes, NEW n, Room(sizes, n), NEW halo \in Colours, NEW core \in Colours
  PROVE  /\ GridLines(sizes, n, halo, core) \in Seq(Boxes)
         /\ \A i, j \in 0..n : Tops(GridLines(sizes, n, halo, core), core, SeenX(sizes, n, i), SeenY(sizes, n, j))
         /\ \A c, d \in 0 .. n - 1 : Misses(GridLines(sizes, n, halo, core), ClearX(sizes, n, c), ClearY(sizes, n, d))
<1> DEFINE down == [i \in 1 .. n + 1 |->
                      Vertical(sizes, Edge(Spans(sizes, n).x, i - 1), 0, sizes.y, halo, core)]
           across == [i \in 1 .. n + 1 |->
                      Horizontal(sizes, Edge(Spans(sizes, n).y, i - 1), 0, sizes.x, halo, core)]
<1>1. /\ sizes.x \in Nat \ {0} /\ sizes.y \in Nat \ {0} /\ n \in Nat \ {0} /\ n + 1 \in Nat
      /\ sizes.x \in Int /\ sizes.y \in Int /\ 0 \in Int
  BY RoomTypes, SMT
<1>3. ASSUME NEW i \in 1 .. n + 1
      PROVE  /\ i - 1 \in 0..n
             /\ down[i] = Vertical(sizes, SpanStart(sizes.x, n, i - 1), 0, sizes.y, halo, core)
             /\ across[i] = Horizontal(sizes, SpanStart(sizes.y, n, i - 1), 0, sizes.x, halo, core)
  <2>1. i - 1 \in 0..n
    BY <1>1, SMT
  <2>2. /\ Edge(Spans(sizes, n).x, i - 1) = SpanStart(sizes.x, n, i - 1)
        /\ Edge(Spans(sizes, n).y, i - 1) = SpanStart(sizes.y, n, i - 1)
    <3> DEFINE k == i - 1
    <3>1. k \in 0..n
      BY <2>1
    <3> HIDE DEF k
    <3>2. /\ Edge(Spans(sizes, n).x, k) = SpanStart(sizes.x, n, k)
          /\ Edge(Spans(sizes, n).y, k) = SpanStart(sizes.y, n, k)
      BY <3>1, SpanEdges
    <3> QED BY <3>2 DEF k
  <2> QED BY <2>1, <2>2
<1>4. GridLines(sizes, n, halo, core) = Strokes(down, n + 1) \o Strokes(across, n + 1)
  BY DEF GridLines
<1> HIDE DEF down, across
<1>5. Strokes(down, n + 1) \in Seq(Boxes) /\ Strokes(across, n + 1) \in Seq(Boxes)
  <2>1. ASSUME NEW i \in 1 .. n + 1
        PROVE  /\ down[i][1] \in Boxes /\ down[i][2] \in Boxes
               /\ across[i][1] \in Boxes /\ across[i][2] \in Boxes
    <3> DEFINE k == i - 1
    <3>1. /\ k \in 0..n
          /\ down[i] = Vertical(sizes, SpanStart(sizes.x, n, k), 0, sizes.y, halo, core)
          /\ across[i] = Horizontal(sizes, SpanStart(sizes.y, n, k), 0, sizes.x, halo, core)
      BY <1>3
    <3> HIDE DEF k
    <3> QED BY <1>1, <3>1, VerticalBoxes, HorizontalBoxes
  <2> QED BY <1>1, <2>1, StrokesInSeq
<1>6. ASSUME NEW i \in 0..n, NEW j \in 0..n
      PROVE  Tops(GridLines(sizes, n, halo, core), core, SeenX(sizes, n, i), SeenY(sizes, n, j))
  <2> DEFINE x == SeenX(sizes, n, i)
             y == SeenY(sizes, n, j)
  <2>1. j + 1 \in 1 .. n + 1 /\ (j + 1) - 1 = j
    BY <1>1, SMT
  <2>2. x \in Int /\ 0 <= x /\ x < sizes.x
    <3>1. x \in 0 .. sizes.x - 1
      BY Corners
    <3> QED BY <1>1, <3>1, SMT
  <2>3. Inside(across[j + 1][2], x, y) /\ across[j + 1][2].colour = core
    <3> DEFINE line == Horizontal(sizes, SpanStart(sizes.y, n, j), 0, sizes.x, halo, core)
    <3>1. across[j + 1] = line
      BY <1>3, <2>1
    <3>2. ASSUME NEW first \in Int, NEW last \in Int, first <= x, x < last
          PROVE  LET s == Horizontal(sizes, SpanStart(sizes.y, n, j), first, last, halo, core)
                 IN Inside(s[2], x, y) /\ s[2].colour = core
      <4> HIDE DEF x
      <4> QED BY <2>2, <3>2, HorizontalSeen
    <3>3. Inside(line[2], x, y) /\ line[2].colour = core
      BY <1>1, <2>2, <3>2
    <3> QED BY <3>1, <3>3
  <2>4. ASSUME NEW k \in (j + 1) + 1 .. n + 1
        PROVE  ~ Inside(across[k][1], x, y) /\ ~ Inside(across[k][2], x, y)
    <3>1. k \in 1 .. n + 1 /\ k - 1 \in 0..n /\ k - 1 # j
      BY <1>1, SMT
    <3>2. across[k] = Horizontal(sizes, SpanStart(sizes.y, n, k - 1), 0, sizes.x, halo, core)
      BY <1>3, <3>1
    <3> QED BY <3>1, <3>2, HorizontalMissed
  <2>5. Tops(Strokes(across, n + 1), core, x, y)
    BY <1>1, <2>1, <2>3, <2>4, StrokesTop
  <2> QED BY <1>4, <1>5, <2>5, ConcatTops
<1>7. ASSUME NEW c \in 0 .. n - 1, NEW d \in 0 .. n - 1
      PROVE  Misses(GridLines(sizes, n, halo, core), ClearX(sizes, n, c), ClearY(sizes, n, d))
  <2> DEFINE x == ClearX(sizes, n, c)
             y == ClearY(sizes, n, d)
  <2>1. ASSUME NEW i \in 1 .. n + 1
        PROVE  /\ ~ Inside(down[i][1], x, y) /\ ~ Inside(down[i][2], x, y)
               /\ ~ Inside(across[i][1], x, y) /\ ~ Inside(across[i][2], x, y)
    <3> DEFINE k == i - 1
    <3>1. /\ k \in 0..n
          /\ down[i] = Vertical(sizes, SpanStart(sizes.x, n, k), 0, sizes.y, halo, core)
          /\ across[i] = Horizontal(sizes, SpanStart(sizes.y, n, k), 0, sizes.x, halo, core)
      BY <1>3
    <3> HIDE DEF k
    <3> QED BY <3>1, VerticalMissed, HorizontalMissed
  <2>3. Misses(Strokes(down, n + 1), x, y) /\ Misses(Strokes(across, n + 1), x, y)
    BY <1>1, <2>1, StrokesMiss
  <2> QED BY <1>4, <1>5, <2>3, ConcatMisses
<1> QED BY <1>4, <1>5, <1>6, <1>7, ConcatProperties

\* The labels of the edges hide no line, and no clear pixel of another cell.
LEMMA EdgeLabelsMiss ==
  ASSUME NEW sizes, NEW n, Room(sizes, n)
  PROVE  /\ EdgeLabels(sizes, n) \in Seq(Boxes)
         /\ \A x, j : j \in 0..n => Misses(EdgeLabels(sizes, n), x, SeenY(sizes, n, j))
         /\ \A c, d \in 0 .. n - 1 :
              {c, d} \cap {0, n - 1} = {}
              => Misses(EdgeLabels(sizes, n), ClearX(sizes, n, c), ClearY(sizes, n, d))
<1> DEFINE columns == Spans(sizes, n).x
           rows == Spans(sizes, n).y
           north == [i \in 1..n |-> Label(columns[i - 1], rows[0])]
           south == [i \in 1..n |-> Label(columns[i - 1], rows[n - 1])]
           west == [i \in 1..n |-> Label(columns[0], rows[i - 1])]
           east == [i \in 1..n |-> Label(columns[n - 1], rows[i - 1])]
<1>1. /\ n \in Nat /\ 0 \in 0 .. n - 1 /\ n - 1 \in 0 .. n - 1
      /\ \A i \in 1..n : i - 1 \in 0 .. n - 1
  BY RoomTypes, SMT
<1>2. EdgeLabels(sizes, n) = north \o south \o west \o east
  BY DEF EdgeLabels
<1>3. /\ north \in Seq(Boxes) /\ south \in Seq(Boxes) /\ west \in Seq(Boxes) /\ east \in Seq(Boxes)
  <2>1. /\ north \in [1..n -> Boxes] /\ south \in [1..n -> Boxes]
        /\ west \in [1..n -> Boxes] /\ east \in [1..n -> Boxes]
    BY <1>1, LabelMisses
  <2> HIDE DEF north, south, west, east
  <2> QED BY <1>1, <2>1, BoxesInSeq
<1>4. ASSUME NEW x, NEW y, \A i \in 1..n : /\ ~ Inside(north[i], x, y) /\ ~ Inside(south[i], x, y)
                                           /\ ~ Inside(west[i], x, y) /\ ~ Inside(east[i], x, y)
      PROVE  Misses(EdgeLabels(sizes, n), x, y)
  <2>1. Misses(north, x, y) /\ Misses(south, x, y) /\ Misses(west, x, y) /\ Misses(east, x, y)
    BY <1>4 DEF Misses
  <2> HIDE DEF north, south, west, east
  <2>2. north \o south \in Seq(Boxes) /\ north \o south \o west \in Seq(Boxes)
    BY <1>3, ConcatProperties
  <2>3. Misses(north \o south, x, y)
    BY <1>3, <2>1, ConcatMisses
  <2>4. Misses(north \o south \o west, x, y)
    BY <1>3, <2>1, <2>2, <2>3, ConcatMisses
  <2>5. Misses(north \o south \o west \o east, x, y)
    BY <1>3, <2>1, <2>2, <2>4, ConcatMisses
  <2> QED BY <1>2, <2>5
<1>5. ASSUME NEW x, NEW j \in 0..n PROVE Misses(EdgeLabels(sizes, n), x, SeenY(sizes, n, j))
  <2>1. \A i \in 1..n : /\ ~ Inside(north[i], x, SeenY(sizes, n, j)) /\ ~ Inside(south[i], x, SeenY(sizes, n, j))
                        /\ ~ Inside(west[i], x, SeenY(sizes, n, j)) /\ ~ Inside(east[i], x, SeenY(sizes, n, j))
    BY <1>1, LabelMisses
  <2> HIDE DEF north, south, west, east
  <2> QED BY <1>4, <2>1
<1>6. ASSUME NEW c \in 0 .. n - 1, NEW d \in 0 .. n - 1, {c, d} \cap {0, n - 1} = {}
      PROVE  Misses(EdgeLabels(sizes, n), ClearX(sizes, n, c), ClearY(sizes, n, d))
  <2> DEFINE x == ClearX(sizes, n, c)
             y == ClearY(sizes, n, d)
  <2>1. c # 0 /\ c # n - 1 /\ d # 0 /\ d # n - 1
    BY <1>6
  <2>2. \A i \in 1..n : /\ ~ Inside(north[i], x, y) /\ ~ Inside(south[i], x, y)
                        /\ ~ Inside(west[i], x, y) /\ ~ Inside(east[i], x, y)
    BY <1>1, <2>1, LabelMisses
  <2> HIDE DEF north, south, west, east
  <2> QED BY <1>4, <2>2
<1>7. EdgeLabels(sizes, n) \in Seq(Boxes)
  <2> HIDE DEF north, south, west, east
  <2>1. north \o south \in Seq(Boxes)
    BY <1>3, ConcatProperties
  <2>2. north \o south \o west \in Seq(Boxes)
    BY <1>3, <2>1, ConcatProperties
  <2>3. north \o south \o west \o east \in Seq(Boxes)
    BY <1>3, <2>2, ConcatProperties
  <2> QED BY <1>2, <2>3
<1> QED BY <1>5, <1>6, <1>7

\* The HUD hides no line.
LEMMA HUDMisses ==
  ASSUME NEW sizes, NEW n, Room(sizes, n)
  PROVE  /\ HUD(sizes, n) \in Boxes
         /\ \A x, j : j \in 0..n => ~ Inside(HUD(sizes, n), x, SeenY(sizes, n, j))
<1> DEFINE hud == HUD(sizes, n)
<1>1. /\ sizes \in [Axes -> Nat \ {0}] /\ n \in Nat \ {0} /\ sizes.y >= 3 * HUDRoom
      /\ \A i \in 0 .. n - 1 : SpanSize(PartitionSpans(sizes.y, n)[i]) >= HUDRoom
  BY DEF Room
<1>2. hud \in Boxes
  BY <1>1, HUDInside
<1>3. PICK r \in 0 .. n - 1 : SpanStart(sizes.y, n, r) < hud.y0 /\ hud.y1 < SpanStart(sizes.y, n, r + 1)
  BY <1>1, HUDInside
<1>4. hud.y0 \in Int /\ hud.y1 \in Int
  BY <1>2 DEF Boxes
<1>5. SpanStart(sizes.y, n, r) \in Int /\ SpanStart(sizes.y, n, r + 1) \in Int
  <2>1. r \in 0..n /\ r + 1 \in 0..n
    BY <1>1, SMT
  <2>2. SpanStart(sizes.y, n, r) \in 0 .. sizes.y /\ SpanStart(sizes.y, n, r + 1) \in 0 .. sizes.y
    BY <2>1, RoomTypes, EdgeIsBoundary
  <2> QED BY <2>2, SMT
<1>6. ASSUME NEW x, NEW j \in 0..n PROVE ~ Inside(hud, x, SeenY(sizes, n, j))
  <2> DEFINE p == SeenY(sizes, n, j)
  <2>1. p \in Int
    BY Corners, RoomTypes, SMT
  <2>2. ASSUME SpanStart(sizes.y, n, r) < p, p < SpanStart(sizes.y, n, r + 1) - 1 PROVE FALSE
    BY <2>1, <2>2, RoomTypes, InsideUnseen DEF SeenY
  <2> HIDE DEF p, hud
  <2>3. ~ (hud.y0 <= p /\ p < hud.y1)
    BY <1>3, <1>4, <1>5, <2>1, <2>2, SMT
  <2> QED BY <2>3 DEF Inside, p
<1> QED BY <1>2, <1>6

\* Every cell of the selected column has a bright line on each side.
LEMMA SelectedColumnShows ==
  ASSUME NEW sizes, NEW n, Room(sizes, n), NEW c \in 0 .. n - 1
  PROVE  /\ SelectedColumn(sizes, n, c) \in Seq(Boxes)
         /\ \A i \in {c, c + 1}, j \in 0..n :
              Tops(SelectedColumn(sizes, n, c), "bright", SeenX(sizes, n, i), SeenY(sizes, n, j))
<1> DEFINE column == Spans(sizes, n).x[c]
           rows == Spans(sizes, n).y
           fill == <<Box(column.start, 0, column.finish, sizes.y, "fill")>>
           west == Vertical(sizes, column.start, 0, sizes.y, "brightHalo", "bright")
           east == Vertical(sizes, column.finish, 0, sizes.y, "brightHalo", "bright")
           across == [i \in 1 .. n + 1 |->
                        Horizontal(sizes, Edge(rows, i - 1), column.start, column.finish, "brightHalo", "bright")]
           ends == <<Label(column, rows[0]), Label(column, rows[n - 1])>>
           lines == Strokes(across, n + 1)
           frame == SelectedColumn(sizes, n, c)
<1>1. /\ sizes.x \in Nat \ {0} /\ sizes.y \in Nat \ {0} /\ n \in Nat \ {0} /\ n + 1 \in Nat
      /\ sizes.y \in Int /\ 0 \in Int /\ 0 \in 0 .. n - 1 /\ n - 1 \in 0 .. n - 1
      /\ c \in 0..n /\ c + 1 \in 0..n /\ c < n
  BY RoomTypes, SMT
<1>2. "brightHalo" \in Colours /\ "bright" \in Colours /\ "fill" \in Colours
  BY DEF Colours
<1>3. /\ column.start = SpanStart(sizes.x, n, c) /\ column.finish = SpanStart(sizes.x, n, c + 1)
      /\ column.start \in Int /\ column.finish \in Int
      /\ column.start < column.finish /\ column.finish <= sizes.x
  BY CellBounds, SMT DEF Span
<1>4. frame = fill \o west \o east \o lines \o ends
  BY DEF SelectedColumn
<1>5. ASSUME NEW k \in 0..n, NEW i \in 1 .. n + 1, k = i - 1
      PROVE  across[i] = Horizontal(sizes, SpanStart(sizes.y, n, k), column.start, column.finish,
                                    "brightHalo", "bright")
  <2>1. Edge(rows, k) = SpanStart(sizes.y, n, k)
    BY SpanEdges
  <2> HIDE DEF rows, column
  <2> QED BY <1>5, <2>1
<1>6. /\ Label(column, rows[0]) \in Boxes /\ Label(column, rows[n - 1]) \in Boxes
      /\ \A x, j : j \in 0..n => /\ ~ Inside(Label(column, rows[0]), x, SeenY(sizes, n, j))
                                 /\ ~ Inside(Label(column, rows[n - 1]), x, SeenY(sizes, n, j))
  BY <1>1, LabelMisses
<1>7. fill \in Seq(Boxes)
  <2>1. Box(column.start, 0, column.finish, sizes.y, "fill") \in Boxes
    BY <1>1, <1>2, <1>3, BoxInBoxes
  <2> QED BY <2>1, SMT
<1>8. ends \in Seq(Boxes) /\ \A x, j : j \in 0..n => Misses(ends, x, SeenY(sizes, n, j))
  BY <1>6, PairInSeq, PairMisses
<1> HIDE DEF column, across, ends, fill, west, east, frame
<1>9. west \in Seq(Boxes) /\ east \in Seq(Boxes)
  BY <1>1, <1>2, <1>3, VerticalBoxes DEF west, east
<1>10. lines \in Seq(Boxes)
  <2>1. ASSUME NEW i \in 1 .. n + 1 PROVE across[i][1] \in Boxes /\ across[i][2] \in Boxes
    <3> DEFINE k == i - 1
    <3>1. k \in 0..n
      BY <1>1, SMT
    <3>2. across[i] = Horizontal(sizes, SpanStart(sizes.y, n, k), column.start, column.finish,
                                 "brightHalo", "bright")
      BY <1>5, <3>1
    <3> HIDE DEF k
    <3> QED BY <1>1, <1>2, <1>3, <3>1, <3>2, HorizontalBoxes
  <2> QED BY <1>1, <2>1, StrokesInSeq
<1> HIDE DEF lines
<1>11. /\ fill \o west \in Seq(Boxes) /\ fill \o west \o east \in Seq(Boxes)
       /\ fill \o west \o east \o lines \in Seq(Boxes) /\ frame \in Seq(Boxes)
  <2>1. fill \o west \in Seq(Boxes)
    BY <1>7, <1>9, ConcatProperties
  <2>2. fill \o west \o east \in Seq(Boxes)
    BY <1>9, <2>1, ConcatProperties
  <2>3. fill \o west \o east \o lines \in Seq(Boxes)
    BY <1>10, <2>2, ConcatProperties
  <2>4. frame \in Seq(Boxes)
    BY <1>4, <1>8, <2>3, ConcatProperties
  <2> QED BY <2>1, <2>2, <2>3, <2>4
<1>12. ASSUME NEW x \in Int, NEW j \in 0..n, column.start <= x, x < column.finish
       PROVE  Tops(frame, "bright", x, SeenY(sizes, n, j))
  <2> DEFINE y == SeenY(sizes, n, j)
             l == j + 1
  <2>1. l \in 1 .. n + 1 /\ j = l - 1
    BY <1>1, SMT
  <2>2. Inside(across[l][2], x, y) /\ across[l][2].colour = "bright"
    <3>1. across[l] = Horizontal(sizes, SpanStart(sizes.y, n, j), column.start, column.finish,
                                 "brightHalo", "bright")
      BY <1>5, <2>1
    <3> QED BY <1>2, <1>3, <1>12, <3>1, HorizontalSeen
  <2>3. ASSUME NEW i \in l + 1 .. n + 1
        PROVE  ~ Inside(across[i][1], x, y) /\ ~ Inside(across[i][2], x, y)
    <3> DEFINE k == i - 1
    <3>1. i \in 1 .. n + 1 /\ k \in 0..n /\ k # j
      BY <1>1, SMT
    <3>2. across[i] = Horizontal(sizes, SpanStart(sizes.y, n, k), column.start, column.finish,
                                 "brightHalo", "bright")
      BY <1>5, <3>1
    <3> HIDE DEF k
    <3> QED BY <3>1, <3>2, HorizontalMissed
  <2> HIDE DEF l
  <2>4. Tops(lines, "bright", x, y)
    BY <1>1, <2>1, <2>2, <2>3, StrokesTop DEF lines
  <2>5. Tops(fill \o west \o east \o lines, "bright", x, y)
    BY <1>10, <1>11, <2>4, ConcatTops
  <2>6. Misses(ends, x, y)
    BY <1>8
  <2> QED BY <1>4, <1>8, <1>11, <2>5, <2>6, ConcatStays
<1>13. ASSUME NEW j \in 0..n, c + 1 < n
       PROVE  Tops(frame, "bright", SeenX(sizes, n, c + 1), SeenY(sizes, n, j))
  <2> DEFINE x == SeenX(sizes, n, c + 1)
             y == SeenY(sizes, n, j)
  <2>1. x = column.finish
    BY <1>1, <1>3, <1>13, Corners
  <2>2. x \in Int /\ column.finish <= x
    BY <1>3, <2>1, SMT
  <2>3. y \in Int /\ 0 <= y /\ y < sizes.y
    <3>1. y \in 0 .. sizes.y - 1
      BY Corners
    <3> QED BY <1>1, <3>1, SMT
  <2>4. Tops(east, "bright", x, y)
    BY <1>1, <1>2, <1>3, <2>3, VerticalSeen DEF east
  <2>5. Misses(lines, x, y)
    <3>1. ASSUME NEW i \in 1 .. n + 1 PROVE ~ Inside(across[i][1], x, y) /\ ~ Inside(across[i][2], x, y)
      <4> DEFINE k == i - 1
      <4>1. k \in 0..n
        BY <1>1, SMT
      <4>2. across[i] = Horizontal(sizes, SpanStart(sizes.y, n, k), column.start, column.finish,
                                   "brightHalo", "bright")
        BY <1>5, <4>1
      <4> HIDE DEF k, x, y
      <4> QED BY <1>3, <2>2, <4>2, HorizontalBeside
    <3> HIDE DEF x, y
    <3> QED BY <1>1, <3>1, StrokesMiss DEF lines
  <2>6. Tops(fill \o west \o east, "bright", x, y)
    BY <1>9, <1>11, <2>4, ConcatTops
  <2>7. Tops(fill \o west \o east \o lines, "bright", x, y)
    BY <1>10, <1>11, <2>5, <2>6, ConcatStays
  <2>8. Misses(ends, x, y)
    BY <1>8
  <2> QED BY <1>4, <1>8, <1>11, <2>7, <2>8, ConcatStays
<1>14. ASSUME NEW j \in 0..n PROVE Tops(frame, "bright", SeenX(sizes, n, c), SeenY(sizes, n, j))
  <2>1. SeenX(sizes, n, c) = column.start
    BY <1>1, <1>3, Corners
  <2>2. SeenX(sizes, n, c) \in Int /\ column.start <= SeenX(sizes, n, c) /\ SeenX(sizes, n, c) < column.finish
    BY <1>3, <2>1, SMT
  <2> QED BY <1>12, <2>2
<1>15. ASSUME NEW j \in 0..n PROVE Tops(frame, "bright", SeenX(sizes, n, c + 1), SeenY(sizes, n, j))
  <2>1. CASE c + 1 < n
    BY <1>13, <2>1
  <2>2. CASE c + 1 = n
    <3>1. SeenX(sizes, n, c + 1) = sizes.x - 1
      BY <1>1, <2>2, Corners
    <3>2. SpanStart(sizes.x, n, n) = sizes.x
      BY <1>1, EdgeIsBoundary
    <3>3. /\ SeenX(sizes, n, c + 1) \in Int /\ column.start <= SeenX(sizes, n, c + 1)
          /\ SeenX(sizes, n, c + 1) < column.finish
      BY <1>1, <1>3, <2>2, <3>1, <3>2, SMT
    <3> QED BY <1>12, <3>3
  <2>3. c + 1 < n \/ c + 1 = n
    BY <1>1, SMT
  <2> QED BY <2>1, <2>2, <2>3
<1> QED BY <1>11, <1>14, <1>15 DEF frame

-----------------------------------------------------------------------------
(* The frames of a session. *)

\* A line on each of the four sides of a cell, from three of its corners.
LEMMA BorderedBy ==
  ASSUME NEW sizes, NEW n, Room(sizes, n), NEW c \in 0 .. n - 1, NEW r \in 0 .. n - 1,
         NEW frame, NEW colour,
         Colour(frame, SeenX(sizes, n, c), SeenY(sizes, n, r)) = colour,
         Colour(frame, SeenX(sizes, n, c + 1), SeenY(sizes, n, r)) = colour,
         Colour(frame, SeenX(sizes, n, c), SeenY(sizes, n, r + 1)) = colour
  PROVE  Bordered(frame, colour, sizes, Spans(sizes, n).x[c], Spans(sizes, n).y[r])
<1> DEFINE column == Spans(sizes, n).x[c]
           row == Spans(sizes, n).y[r]
<1>1. /\ c \in 0..n /\ c + 1 \in 0..n /\ c < n /\ r \in 0..n /\ r + 1 \in 0..n /\ r < n
  BY RoomTypes, SMT
<1>2. /\ column.start = SpanStart(sizes.x, n, c) /\ column.finish = SpanStart(sizes.x, n, c + 1)
      /\ row.start = SpanStart(sizes.y, n, r) /\ row.finish = SpanStart(sizes.y, n, r + 1)
      /\ column.start \in Int /\ column.finish \in Int /\ row.start \in Int /\ row.finish \in Int
      /\ column.start < column.finish /\ row.start < row.finish
  BY CellBounds, SMT DEF Span
<1>3. SeenX(sizes, n, c) = column.start /\ SeenY(sizes, n, r) = row.start
  BY <1>1, <1>2, Corners
<1>4. SeenX(sizes, n, c) \in PixelsOf(column) /\ SeenY(sizes, n, r) \in PixelsOf(row)
  BY <1>2, <1>3, SMT DEF PixelsOf
<1>5. ASSUME NEW limit \in Nat \ {0}, NEW center \in 0..limit
      PROVE  SeenAt(center, limit) \in Stroke(center, limit)
  <2> DEFINE range == StrokeRange(center, LineWidth, limit)
  <2>1. /\ range.from \in Int /\ range.upto \in Int
        /\ range.from <= SeenAt(center, limit) /\ SeenAt(center, limit) < range.upto
    BY Widths, StrokeCovers
  <2>2. SeenAt(center, limit) \in Int
    BY SMT DEF SeenAt, Lower
  <2> HIDE DEF range
  <2>3. SeenAt(center, limit) \in range.from .. range.upto - 1
    BY <2>1, <2>2, SMT
  <2> QED BY <2>3 DEF Stroke, range
<1>6. ASSUME NEW i \in 0..n
      PROVE  /\ SeenX(sizes, n, i) \in Stroke(SpanStart(sizes.x, n, i), sizes.x)
             /\ SeenY(sizes, n, i) \in Stroke(SpanStart(sizes.y, n, i), sizes.y)
  <2>1. SpanStart(sizes.x, n, i) \in 0 .. sizes.x /\ SpanStart(sizes.y, n, i) \in 0 .. sizes.y
    BY RoomTypes, EdgeIsBoundary
  <2> QED BY <1>5, <2>1, RoomTypes DEF SeenX, SeenY
<1>7. /\ SeenX(sizes, n, c) \in Stroke(column.start, sizes.x)
      /\ SeenX(sizes, n, c + 1) \in Stroke(column.finish, sizes.x)
      /\ SeenY(sizes, n, r) \in Stroke(row.start, sizes.y)
      /\ SeenY(sizes, n, r + 1) \in Stroke(row.finish, sizes.y)
  BY <1>1, <1>2, <1>6
<1> HIDE DEF column, row
<1>8. /\ Sees(frame, colour, Stroke(column.start, sizes.x), PixelsOf(row))
      /\ Sees(frame, colour, Stroke(column.finish, sizes.x), PixelsOf(row))
      /\ Sees(frame, colour, PixelsOf(column), Stroke(row.start, sizes.y))
      /\ Sees(frame, colour, PixelsOf(column), Stroke(row.finish, sizes.y))
  BY <1>4, <1>7 DEF Sees
<1> QED BY <1>8 DEF Bordered, column, row

\* The clear pixels of a cell.
LEMMA SeenThroughAt ==
  ASSUME NEW sizes, NEW n, Room(sizes, n), NEW c \in 0 .. n - 1, NEW r \in 0 .. n - 1, NEW frame,
         Colour(frame, ClearX(sizes, n, c), ClearY(sizes, n, r)) = "clear"
  PROVE  SeenThrough(frame, Spans(sizes, n).x[c], Spans(sizes, n).y[r])
<1> DEFINE column == Spans(sizes, n).x[c]
           row == Spans(sizes, n).y[r]
           x == ClearX(sizes, n, c)
           y == ClearY(sizes, n, r)
<1>1. /\ column.start = SpanStart(sizes.x, n, c) /\ column.finish = SpanStart(sizes.x, n, c + 1)
      /\ row.start = SpanStart(sizes.y, n, r) /\ row.finish = SpanStart(sizes.y, n, r + 1)
      /\ column.start \in Int /\ column.finish \in Int /\ row.start \in Int /\ row.finish \in Int
  BY CellBounds, SMT DEF Span
<1>2. /\ x \in Int /\ SpanStart(sizes.x, n, c) <= x /\ x < SpanStart(sizes.x, n, c + 1)
      /\ y \in Int /\ SpanStart(sizes.y, n, r) <= y /\ y < SpanStart(sizes.y, n, r + 1)
  <2>1. 0 \in 0..n /\ HaloWidth <= HaloWidth
    BY RoomTypes, Widths, SMT
  <2> QED BY <2>1, RoomTypes, Widths, StrokesClear DEF ClearX, ClearY
<1> HIDE DEF column, row, x, y
<1>3. x \in PixelsOf(column) /\ y \in PixelsOf(row)
  BY <1>1, <1>2, SMT DEF PixelsOf
<1> QED BY <1>3 DEF SeenThrough, Sees, column, row, x, y

\* Roomy is what these lemmas ask for.
LEMMA RoomyIsRoom ==
  ASSUME NEW sizes \in [Axes -> Sizes], Roomy(sizes)
  PROVE  Room(sizes, GridSize)
<1>1. sizes \in [Axes -> Nat \ {0}] /\ GridSize \in Nat \ {0}
  <2>1. Sizes \subseteq Nat \ {0} /\ GridSize \in 1..26
    BY NavigatorAssumption
  <2>2. sizes \in [Axes -> Nat \ {0}]
    BY <2>1
  <2> QED BY <2>1, <2>2, SMT
<1>2. /\ Spans(sizes, GridSize)["x"] = PartitionSpans(sizes.x, GridSize)
      /\ Spans(sizes, GridSize)["y"] = PartitionSpans(sizes.y, GridSize)
      /\ Spans(sizes, GridSize).y = PartitionSpans(sizes.y, GridSize)
  BY DEF Spans
<1>3. "x" \in Axes /\ "y" \in Axes
  BY DEF Axes
<1>4. Wide(sizes.x, GridSize, 2 * HaloWidth) /\ Wide(sizes.y, GridSize, 2 * HaloWidth)
  BY <1>2, <1>3 DEF Roomy, Wide, Columns
<1>5. /\ \A i \in 0 .. GridSize - 1 : SpanSize(PartitionSpans(sizes.y, GridSize)[i]) >= HUDRoom
      /\ sizes.y >= 3 * HUDRoom
  BY <1>2 DEF Roomy, Columns
<1> QED BY <1>1, <1>4, <1>5 DEF Room

\* A word is as long as its domain says.
LEMMA WordLength ==
  ASSUME NEW k \in Nat, NEW word \in [1..k -> Columns]
  PROVE  Len(word) = k
BY SMT

\* Before the first letter: every cell has its lines, and those without a label
\* are seen through.
LEMMA GridLegible ==
  ASSUME NEW sizes \in [Axes -> Sizes], Roomy(sizes), GridOpacity > 0, NEW word \in [1..0 -> Columns]
  PROVE  Legible(sizes, word)
<1> DEFINE n == GridSize
           frame == Frame(sizes, n, word)
           lines == GridLines(sizes, n, "halo", "core")
           labels == EdgeLabels(sizes, n)
<1>1. Room(sizes, n) /\ Columns = 0 .. n - 1
  BY RoomyIsRoom DEF Columns
<1>2. Len(word) = 0
  BY WordLength, SMT
<1>3. frame = lines \o labels
  BY <1>2 DEF Frame
<1>4. lines \in Seq(Boxes) /\ labels \in Seq(Boxes) /\ lines \o labels \in Seq(Boxes)
  BY <1>1, GridLinesShow, EdgeLabelsMiss, ConcatProperties DEF Colours
<1> HIDE DEF n, frame, lines, labels
<1>5. ASSUME NEW i \in 0..n, NEW j \in 0..n
      PROVE  Colour(frame, SeenX(sizes, n, i), SeenY(sizes, n, j)) = "core"
  <2>1. Tops(lines, "core", SeenX(sizes, n, i), SeenY(sizes, n, j))
    BY <1>1, GridLinesShow DEF lines, Colours
  <2>2. Misses(labels, SeenX(sizes, n, i), SeenY(sizes, n, j))
    BY <1>1, EdgeLabelsMiss DEF labels
  <2>3. Tops(frame, "core", SeenX(sizes, n, i), SeenY(sizes, n, j))
    BY <1>3, <1>4, <2>1, <2>2, ConcatStays
  <2> QED BY <1>3, <1>4, <2>3, TopShows, LinesDrawn
<1>6. ASSUME NEW c \in 0 .. n - 1, NEW r \in 0 .. n - 1
      PROVE  Bordered(frame, "core", sizes, Spans(sizes, n).x[c], Spans(sizes, n).y[r])
  <2>1. c \in 0..n /\ c + 1 \in 0..n /\ r \in 0..n /\ r + 1 \in 0..n
    BY <1>1, RoomTypes, SMT
  <2> QED BY <1>1, <1>5, <2>1, BorderedBy
<1>7. ASSUME NEW c \in 0 .. n - 1, NEW r \in 0 .. n - 1, {c, r} \cap {0, n - 1} = {}
      PROVE  SeenThrough(frame, Spans(sizes, n).x[c], Spans(sizes, n).y[r])
  <2>1. Misses(lines, ClearX(sizes, n, c), ClearY(sizes, n, r))
    BY <1>1, GridLinesShow DEF lines, Colours
  <2>2. Misses(labels, ClearX(sizes, n, c), ClearY(sizes, n, r))
    BY <1>1, <1>7, EdgeLabelsMiss DEF labels
  <2>3. Misses(frame, ClearX(sizes, n, c), ClearY(sizes, n, r))
    BY <1>3, <1>4, <2>1, <2>2, ConcatMisses
  <2> QED BY <1>1, <2>3, MissedIsClear, SeenThroughAt
<1>8. ASSUME NEW s \in Shown(word)
      PROVE  /\ Bordered(frame, "core", sizes, Spans(sizes, n).x[s[1]], Spans(sizes, n).y[s[2]])
             /\ Empty(word, s) => SeenThrough(frame, Spans(sizes, n).x[s[1]], Spans(sizes, n).y[s[2]])
  <2>1. s[1] \in 0 .. n - 1 /\ s[2] \in 0 .. n - 1
    BY <1>1, <1>2 DEF Shown
  <2>2. Empty(word, s) => {s[1], s[2]} \cap {0, n - 1} = {}
    BY <1>2, SMT DEF Empty, n
  <2> QED BY <1>6, <1>7, <2>1, <2>2
<1>9. ~ Len(word) = 1 /\ Len(word) = 0
  BY <1>2, SMT
<1> QED BY <1>8, <1>9 DEF Legible, n, frame

\* After the first letter: the cells of its column have bright lines, and the HUD
\* hides no label.
LEMMA ColumnLegible ==
  ASSUME NEW sizes \in [Axes -> Sizes], Roomy(sizes), GridOpacity > 0, NEW word \in [1..1 -> Columns]
  PROVE  Legible(sizes, word)
<1> DEFINE n == GridSize
           c == word[1]
           frame == Frame(sizes, n, word)
           dimmed == DimmedColumns(sizes, n, c)
           lines == GridLines(sizes, n, "faintHalo", "faint")
           labels == EdgeLabels(sizes, n)
           column == SelectedColumn(sizes, n, c)
           hud == <<HUD(sizes, n)>>
           under == dimmed \o lines \o labels
<1>1. Room(sizes, n) /\ Columns = 0 .. n - 1 /\ c \in 0 .. n - 1
  <2>1. 1 \in 1..1
    BY SMT
  <2> QED BY <2>1, RoomyIsRoom DEF Columns
<1>2. Len(word) = 1
  BY WordLength, SMT
<1>3. frame = under \o column \o hud
  BY <1>2, SMT DEF Frame
<1>4. dimmed \in Seq(Boxes)
  <2>1. n \in Nat \ {0} /\ n - 1 \in Nat /\ sizes.y \in Int /\ 0 \in Int
    BY <1>1, RoomTypes, SMT
  <2>2. "dim" \in Colours
    BY DEF Colours
  <2>3. ASSUME NEW i \in 1 .. n - 1
        PROVE  LET k == IF i - 1 < c THEN i - 1 ELSE i
                   dim == Spans(sizes, n).x[k]
               IN Box(dim.start, 0, dim.finish, sizes.y, "dim") \in Boxes
    <3> DEFINE k == IF i - 1 < c THEN i - 1 ELSE i
    <3>1. k \in 0 .. n - 1
      BY <1>1, <2>1, SMT
    <3> HIDE DEF k
    <3>2. Spans(sizes, n).x[k] \in Span
      BY <1>1, <3>1, CellBounds
    <3>3. Spans(sizes, n).x[k].start \in Int /\ Spans(sizes, n).x[k].finish \in Int
      BY <3>2, SMT DEF Span
    <3>4. Box(Spans(sizes, n).x[k].start, 0, Spans(sizes, n).x[k].finish, sizes.y, "dim") \in Boxes
      BY <2>1, <2>2, <3>3, BoxInBoxes
    <3> QED BY <3>4 DEF k
  <2> HIDE DEF n, c
  <2>4. dimmed \in [1 .. n - 1 -> Boxes]
    BY <2>3 DEF DimmedColumns
  <2> HIDE DEF dimmed
  <2> QED BY <2>1, <2>4, BoxesInSeq
<1>5. hud \in Seq(Boxes)
  BY <1>1, HUDMisses, SMT
<1>6. lines \in Seq(Boxes) /\ labels \in Seq(Boxes) /\ column \in Seq(Boxes)
  BY <1>1, GridLinesShow, EdgeLabelsMiss, SelectedColumnShows DEF Colours
<1> HIDE DEF n, c, frame, dimmed, lines, labels, column
<1>7. under \in Seq(Boxes) /\ under \o column \in Seq(Boxes) /\ frame \in Seq(Boxes)
  <2>1. dimmed \o lines \in Seq(Boxes)
    BY <1>4, <1>6, ConcatProperties
  <2>2. under \in Seq(Boxes)
    BY <1>6, <2>1, ConcatProperties
  <2>3. under \o column \in Seq(Boxes)
    BY <1>6, <2>2, ConcatProperties
  <2> QED BY <1>3, <1>5, <2>2, <2>3, ConcatProperties
<1>8. ASSUME NEW i \in {c, c + 1}, NEW j \in 0..n
      PROVE  Colour(frame, SeenX(sizes, n, i), SeenY(sizes, n, j)) = "bright"
  <2> DEFINE x == SeenX(sizes, n, i)
             y == SeenY(sizes, n, j)
  <2>1. Tops(column, "bright", x, y)
    BY <1>1, SelectedColumnShows DEF column
  <2>2. Tops(under \o column, "bright", x, y)
    BY <1>6, <1>7, <2>1, ConcatTops
  <2>3. Misses(hud, x, y)
    <3>1. ~ Inside(HUD(sizes, n), x, y)
      BY <1>1, HUDMisses
    <3> HIDE DEF x, y
    <3> QED BY <3>1, SMT DEF Misses
  <2>4. Tops(frame, "bright", x, y)
    BY <1>3, <1>5, <1>7, <2>2, <2>3, ConcatStays
  <2> QED BY <1>7, <2>4, TopShows, LinesDrawn
<1>9. ASSUME NEW r \in 0 .. n - 1
      PROVE  Bordered(frame, "bright", sizes, Spans(sizes, n).x[c], Spans(sizes, n).y[r])
  <2>1. r \in 0..n /\ r + 1 \in 0..n
    BY <1>1, RoomTypes, SMT
  <2> QED BY <1>1, <1>8, <2>1, BorderedBy
<1>10. ASSUME NEW s \in Shown(word)
       PROVE  /\ Bordered(frame, "bright", sizes, Spans(sizes, n).x[s[1]], Spans(sizes, n).y[s[2]])
              /\ ~ Empty(word, s)
  <2>1. s[1] = c /\ s[2] \in 0 .. n - 1
    BY <1>1, <1>2, SMT DEF Shown, c
  <2>2. ~ Empty(word, s)
    BY <1>2, SMT DEF Empty
  <2> QED BY <1>9, <2>1, <2>2
<1>11. ASSUME NEW i \in Columns, NEW x \in 0 .. sizes.x - 1, NEW y \in 0 .. sizes.y - 1,
              Inside(HUD(sizes, n), x, y), Inside(Label(Spans(sizes, n).x[i], Spans(sizes, n).y[n - 1]), x, y)
       PROVE  FALSE
  <2> DEFINE label == Label(Spans(sizes, n).x[i], Spans(sizes, n).y[n - 1])
  <2>1. i \in 0 .. n - 1 /\ n - 1 \in 0 .. n - 1 /\ y \in Int
    BY <1>1, RoomTypes, SMT
  <2>2. Spans(sizes, n).x[i] \in Span /\ label \in Boxes /\ HUD(sizes, n) \in Boxes
    BY <1>1, <2>1, CellBounds, LabelMisses, HUDMisses
  <2>3. HUD(sizes, n).y1 <= label.y0 \/ label.y1 <= HUD(sizes, n).y0
    <3>1. Spans(sizes, n).y = PartitionSpans(sizes.y, n)
      BY DEF Spans
    <3>2. /\ sizes \in [Axes -> Nat \ {0}] /\ n \in Nat \ {0} /\ sizes.y >= 3 * HUDRoom
          /\ \A k \in 0 .. n - 1 : SpanSize(PartitionSpans(sizes.y, n)[k]) >= HUDRoom
      BY <1>1 DEF Room
    <3>3. \A span \in Span : \/ HUD(sizes, n).y1 <= Label(span, PartitionSpans(sizes.y, n)[n - 1]).y0
                             \/ Label(span, PartitionSpans(sizes.y, n)[n - 1]).y1 <= HUD(sizes, n).y0
      BY <3>2, HUDInside
    <3> QED BY <2>2, <3>1, <3>3
  <2>4. /\ HUD(sizes, n).y0 <= y /\ y < HUD(sizes, n).y1 /\ label.y0 <= y /\ y < label.y1
    BY <1>11 DEF Inside
  <2>5. /\ HUD(sizes, n).y0 \in Int /\ HUD(sizes, n).y1 \in Int /\ label.y0 \in Int /\ label.y1 \in Int
    BY <2>2 DEF Boxes
  <2> HIDE DEF label
  <2> QED BY <2>1, <2>3, <2>4, <2>5, SMT
<1>12. ~ Len(word) = 0
  BY <1>2, SMT
<1> QED BY <1>10, <1>11, <1>12 DEF Legible, n, frame

\* After the second letter: the outline of the cell, and nothing in it.
LEMMA CellLegible ==
  ASSUME NEW sizes \in [Axes -> Sizes], Roomy(sizes), GridOpacity > 0, NEW word \in [1..2 -> Columns]
  PROVE  Legible(sizes, word)
<1> DEFINE n == GridSize
           c == word[1]
           r == word[2]
           frame == Frame(sizes, n, word)
<1>1. Room(sizes, n) /\ c \in 0 .. n - 1 /\ r \in 0 .. n - 1
  <2>1. 1 \in 1..2 /\ 2 \in 1..2
    BY SMT
  <2> QED BY <2>1, RoomyIsRoom DEF Columns
<1>2. Len(word) = 2 /\ ~ Len(word) = 0 /\ ~ Len(word) = 1
  <2>1. Len(word) = 2
    BY WordLength
  <2> QED BY <2>1, SMT
<1>3. frame = Outline(sizes, Spans(sizes, n).x[c], Spans(sizes, n).y[r])
  BY <1>2 DEF Frame
<1> HIDE DEF n, c, r, frame
<1>4. /\ Bordered(frame, "bright", sizes, Spans(sizes, n).x[c], Spans(sizes, n).y[r])
      /\ SeenThrough(frame, Spans(sizes, n).x[c], Spans(sizes, n).y[r])
  BY <1>1, <1>3, OutlineShows, BorderedBy, SeenThroughAt
<1>5. ASSUME NEW s \in Shown(word) PROVE s[1] = c /\ s[2] = r
  BY <1>2, SMT DEF Shown, c, r
<1> QED BY <1>2, <1>4, <1>5 DEF Legible, n, frame

\* All three.
LEMMA WordsLegible ==
  ASSUME NEW sizes \in [Axes -> Sizes], Roomy(sizes), GridOpacity > 0, NEW word \in Words
  PROVE  Legible(sizes, word)
<1>1. PICK k \in 0..2 : word \in [1..k -> Columns]
  BY DEF Words
<1>2. k = 0 \/ k = 1 \/ k = 2
  BY SMT
<1> QED BY <1>1, <1>2, GridLegible, ColumnLegible, CellLegible

\* Whatever the size of the monitor, the grid, the lines and the labels: if there
\* is room for the HUD and the opacity is not 0, every frame of a session shows the lines of the cells to
\* choose from, leaves the empty ones clear and hides no label.
THEOREM FrameLegibleAlways == Spec => []FrameLegible
<1>1. TypeOK => FrameLegible
  <2> SUFFICES ASSUME TypeOK, Roomy(size), GridOpacity > 0 PROVE Typed \in LegibleFrames[size]
    BY DEF FrameLegible
  <2>1. size \in [Axes -> Sizes] /\ input \in 0..2
    BY DEF TypeOK
  <2>2. letters["x"] \in Columns /\ letters["y"] \in Columns
    BY DEF TypeOK, Axes, Columns
  <2>3. Typed \in [1..input -> Columns]
    BY <2>2 DEF Typed
  <2>4. Typed \in Words
    BY <2>1, <2>3 DEF Words
  <2>5. LegibleFrames[size] = {word \in Words : Legible(size, word)}
    BY <2>1 DEF LegibleFrames
  <2> QED BY <2>1, <2>4, <2>5, WordsLegible
<1> QED BY <1>1, TypeInvariant, PTL
=============================================================================
