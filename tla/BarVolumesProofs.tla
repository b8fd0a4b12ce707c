-------------------------- MODULE BarVolumesProofs --------------------------
(***************************************************************************)
(* The extraction of a set of volumes, for archives and volumes of any     *)
(* size.  The first part is about sequences: induction over the natural    *)
(* numbers, taken as the principle of the least element, gives what        *)
(* FlattenSeq computes.  The second part is the layout of an archive on    *)
(* the volumes, the third the inductive invariant of the extraction.       *)
(***************************************************************************)
EXTENDS BarVolumes, SequenceTheorems, WellFoundedInduction, TLAPS

(* A set of numbers that is not empty has a least element.                   *)
LEMMA LeastElement ==
  ASSUME NEW T \in SUBSET Nat, T # {}
  PROVE  \E m \in T : \A n \in T : m <= n
<1> DEFINE R == OpToRel(<, Nat)
<1>1. IsWellFoundedOn(R, Nat)
  BY NatLessThanWellFounded
<1>2. \A x, y \in Nat : y < x => <<y, x>> \in R
  BY DEF OpToRel
<1> HIDE DEF R
<1>3. PICK x \in T : \A y \in T : ~ (<<y, x>> \in R)
  BY <1>1, WFMin
<1>4. \A y \in T : ~ (y < x)
  BY <1>2, <1>3
<1> QED
  BY <1>4, SMT

(* A set of numbers that has zero and with a number its successor has them   *)
(* all.                                                                      *)
LEMMA Induction ==
  ASSUME NEW S, 0 \in S, \A n \in Nat : n \in S => n + 1 \in S
  PROVE  \A n \in Nat : n \in S
<1> DEFINE T == {n \in Nat : n \notin S}
<1> SUFFICES ASSUME T # {} PROVE FALSE
  OBVIOUS
<1>1. PICK m \in T : \A n \in T : m <= n
  BY LeastElement
<1>2. m # 0 /\ m - 1 \in Nat
  BY <1>1
<1>3. m - 1 \in S
  BY <1>1, <1>2
<1>4. m \in S
  BY <1>2, <1>3
<1> QED
  BY <1>4
-----------------------------------------------------------------------------
(* What FlattenSeq chooses: the concatenations of the first n pieces.        *)
Unfolds(f, s) == f = [n \in 1..Len(s) |-> IF n = 1 THEN s[n] ELSE f[n-1] \o s[n]]
Flat(s) == CHOOSE f : Unfolds(f, s)

LEMMA FlattenSeqIsFlat ==
  ASSUME NEW s, Len(s) # 0
  PROVE  FlattenSeq(s) = Flat(s)[Len(s)]
BY Zenon DEF FlattenSeq, Flat, Unfolds

(* There is such a function, for any sequence.                               *)
LEMMA FlatExists ==
  ASSUME NEW S, NEW s \in Seq(S)
  PROVE  Unfolds(Flat(s), s)
<1> DEFINE To(f, m) == f = [n \in 1..m |-> IF n = 1 THEN s[n] ELSE f[n-1] \o s[n]]
           Ms == {m \in Nat : \E f : To(f, m)}
<1>1. 0 \in Ms
  <2>1. To([n \in 1..0 |-> s[n]], 0)
    OBVIOUS
  <2> QED
    BY <2>1
<1>2. ASSUME NEW m \in Nat, m \in Ms PROVE m + 1 \in Ms
  <2>1. PICK f : To(f, m)
    BY <1>2
  <2> DEFINE g == [n \in 1..m+1 |-> IF n \in 1..m THEN f[n]
                                    ELSE IF n = 1 THEN s[n] ELSE f[n-1] \o s[n]]
  <2>2. \A n \in 1..m+1 : g[n] = IF n = 1 THEN s[n] ELSE g[n-1] \o s[n]
    <3> TAKE n \in 1..m+1
    <3>1. CASE n \in 1..m
      <4>1. f[n] = IF n = 1 THEN s[n] ELSE f[n-1] \o s[n]
        BY <2>1, <3>1
      <4>2. n # 1 => n - 1 \in 1..m /\ n - 1 \in 1..m+1
        BY <3>1
      <4>3. n # 1 => g[n-1] = f[n-1]
        BY <4>2
      <4> QED
        BY <3>1, <4>1, <4>3
    <3>2. CASE n \notin 1..m
      <4>1. n = m + 1
        BY <3>2
      <4>2. n # 1 => n - 1 \in 1..m /\ n - 1 \in 1..m+1
        BY <4>1
      <4>3. n # 1 => g[n-1] = f[n-1]
        BY <4>2
      <4> QED
        BY <3>2, <4>3
    <3> QED
      BY <3>1, <3>2
  <2>3. g = [n \in 1..m+1 |-> g[n]]
    OBVIOUS
  <2> HIDE DEF g
  <2>4. To(g, m + 1)
    BY <2>2, <2>3, Zenon
  <2>5. m + 1 \in Nat
    OBVIOUS
  <2> HIDE DEF To
  <2> QED
    BY <2>4, <2>5
<1>3. Len(s) \in Ms
  <2> HIDE DEF Ms
  <2> QED
    BY <1>1, <1>2, Induction, LenProperties
<1>4. \E f : Unfolds(f, s)
  BY <1>3 DEF Unfolds
<1> QED
  BY <1>4 DEF Flat

(* It is the concatenation of the pieces up to each of them.                 *)
LEMMA FlatValue ==
  ASSUME NEW S, NEW s \in Seq(S), NEW n \in 1..Len(s)
  PROVE  Flat(s)[n] = IF n = 1 THEN s[n] ELSE Flat(s)[n-1] \o s[n]
<1> DEFINE f == Flat(s)
<1>1. f = [m \in 1..Len(s) |-> IF m = 1 THEN s[m] ELSE f[m-1] \o s[m]]
  BY FlatExists DEF Unfolds
<1> HIDE DEF f
<1>2. f[n] = IF n = 1 THEN s[n] ELSE f[n-1] \o s[n]
  BY <1>1
<1> QED
  BY <1>2 DEF f

(* Sequences with the same pieces at the front have the same concatenations  *)
(* there, all of them sequences of what the pieces hold.                     *)
LEMMA FlatFront ==
  ASSUME NEW X, NEW s \in Seq(Seq(X)), NEW t \in Seq(Seq(X)),
         Len(s) <= Len(t), \A n \in 1..Len(s) : t[n] = s[n]
  PROVE  \A n \in 1..Len(s) : Flat(s)[n] \in Seq(X) /\ Flat(t)[n] = Flat(s)[n]
<1> DEFINE Good(n) == Flat(s)[n] \in Seq(X) /\ Flat(t)[n] = Flat(s)[n]
           Ns == {m \in Nat : m \in 1..Len(s) => Good(m)}
<1>0. Len(s) \in Nat /\ Len(t) \in Nat
  OBVIOUS
<1>1. 0 \in Ns
  OBVIOUS
<1>2. ASSUME NEW m \in Nat, m \in Ns PROVE m + 1 \in Ns
  <2>1. SUFFICES ASSUME m + 1 \in 1..Len(s) PROVE Good(m + 1)
    OBVIOUS
  <2>2. m + 1 \in 1..Len(t) /\ t[m+1] = s[m+1] /\ s[m+1] \in Seq(X)
    BY <1>0, <2>1
  <2>3. /\ Flat(s)[m+1] = IF m + 1 = 1 THEN s[m+1] ELSE Flat(s)[m+1-1] \o s[m+1]
        /\ Flat(t)[m+1] = IF m + 1 = 1 THEN t[m+1] ELSE Flat(t)[m+1-1] \o t[m+1]
    BY <2>1, <2>2, FlatValue
  <2>4. CASE m = 0
    BY <2>2, <2>3, <2>4
  <2>5. CASE m # 0
    <3>1. m + 1 - 1 = m /\ m + 1 # 1 /\ m \in 1..Len(s)
      BY <1>0, <2>1, <2>5
    <3>2. Good(m)
      BY <1>2, <3>1
    <3>3. /\ Flat(s)[m+1] = Flat(s)[m] \o s[m+1]
          /\ Flat(t)[m+1] = Flat(t)[m] \o s[m+1]
      BY <2>2, <2>3, <3>1
    <3>4. Flat(s)[m] \o s[m+1] \in Seq(X)
      BY <2>2, <3>2
    <3> QED
      BY <3>2, <3>3, <3>4
  <2> QED
    BY <2>4, <2>5
<1>3. \A m \in Nat : m \in Ns
  <2> HIDE DEF Ns
  <2> QED
    BY <1>1, <1>2, Induction
<1> QED
  BY <1>0, <1>3

(* FlattenSeq of nothing is nothing, and one more piece is concatenated.     *)
LEMMA FlattenSeqEmpty == FlattenSeq(<<>>) = <<>>
BY DEF FlattenSeq

LEMMA FlattenSeqType ==
  ASSUME NEW X, NEW s \in Seq(Seq(X))
  PROVE  FlattenSeq(s) \in Seq(X)
<1>1. CASE Len(s) = 0
  <2>1. s = <<>>
    BY <1>1
  <2>2. <<>> \in Seq(X)
    OBVIOUS
  <2> QED
    BY <2>1, <2>2, FlattenSeqEmpty
<1>2. CASE Len(s) # 0
  <2>1. Len(s) \in 1..Len(s)
    BY <1>2
  <2>2. Flat(s)[Len(s)] \in Seq(X)
    BY <2>1, FlatFront
  <2> QED
    BY <1>2, <2>2, FlattenSeqIsFlat
<1> QED
  BY <1>1, <1>2

LEMMA FlattenSeqAppend ==
  ASSUME NEW X, NEW s \in Seq(Seq(X)), NEW p \in Seq(X)
  PROVE  FlattenSeq(Append(s, p)) = FlattenSeq(s) \o p
<1> DEFINE t == Append(s, p)
<1>1. /\ t \in Seq(Seq(X)) /\ Len(t) = Len(s) + 1 /\ Len(s) \in Nat
      /\ t[Len(s) + 1] = p /\ \A n \in 1..Len(s) : t[n] = s[n]
  OBVIOUS
<1> HIDE DEF t
<1>2. FlattenSeq(t) = Flat(t)[Len(s) + 1]
  BY <1>1, FlattenSeqIsFlat
<1>3. Flat(t)[Len(s)+1] = IF Len(s) + 1 = 1 THEN p ELSE Flat(t)[Len(s)+1-1] \o p
  <2>1. Len(s) + 1 \in 1..Len(t)
    BY <1>1
  <2> QED
    BY <1>1, <2>1, FlatValue
<1>4. CASE Len(s) = 0
  <2>1. s = <<>>
    BY <1>4
  <2>2. FlattenSeq(s) \o p = p
    BY <2>1, FlattenSeqEmpty
  <2> QED
    BY <1>2, <1>3, <1>4, <2>2 DEF t
<1>5. CASE Len(s) # 0
  <2>1. Len(s) + 1 - 1 = Len(s) /\ Len(s) + 1 # 1 /\ Len(s) \in 1..Len(s)
    BY <1>1, <1>5
  <2>2. Flat(t)[Len(s)] = Flat(s)[Len(s)]
    <3>1. Len(s) <= Len(t)
      BY <1>1
    <3>2. \A n \in 1..Len(s) : Flat(s)[n] \in Seq(X) /\ Flat(t)[n] = Flat(s)[n]
      BY <1>1, <3>1, FlatFront
    <3> QED
      BY <2>1, <3>2
  <2>3. FlattenSeq(s) = Flat(s)[Len(s)]
    BY <1>5, FlattenSeqIsFlat
  <2> QED
    BY <1>2, <1>3, <2>1, <2>2, <2>3 DEF t
<1> QED
  BY <1>4, <1>5
-----------------------------------------------------------------------------
(* The padding after an entry's data.                                        *)
LEMMA PadOfType == ASSUME NEW n \in Nat PROVE PadOf(n) \in Nat
<1>1. BS \in Nat /\ BS > 0
  BY BarAssumption
<1>2. n % BS \in 0..BS-1
  BY <1>1
<1>3. BS - (n % BS) \in Nat
  BY <1>1, <1>2
<1>4. (BS - (n % BS)) % BS \in 0..BS-1
  BY <1>1, <1>3
<1> QED
  BY <1>1, <1>4 DEF PadOf

(* It fills the last block.                                                  *)
LEMMA WholeBlocks ==
  ASSUME NEW n \in Nat
  PROVE  PadOf(n) < BS /\ \E k \in Nat : n + PadOf(n) = k * BS
<1>1. BS \in Nat /\ BS > 0
  BY BarAssumption
<1> DEFINE q == n \div BS
           r == n % BS
<1>2. q \in Nat /\ r \in 0..BS-1 /\ n = (BS * q) + r
  BY <1>1
<1>3. PadOf(n) = (BS - r) % BS
  BY DEF PadOf
<1> HIDE DEF q, r
<1>4. CASE r = 0
  <2>1. BS % BS = 0
    BY <1>1
  <2>2. PadOf(n) = 0
    BY <1>1, <1>3, <1>4, <2>1
  <2>3. n + PadOf(n) = q * BS
    BY <1>1, <1>2, <1>4, <2>2
  <2> QED
    BY <1>1, <1>2, <2>2, <2>3
<1>5. CASE r # 0
  <2>1. BS - r \in 0..BS-1
    BY <1>1, <1>2, <1>5
  <2>2. PadOf(n) = BS - r
    BY <1>1, <1>3, <2>1
  <2>3. n + PadOf(n) = (q + 1) * BS /\ q + 1 \in Nat
    BY <1>1, <1>2, <2>2
  <2> QED
    BY <1>1, <2>1, <2>2, <2>3
<1> QED
  BY <1>4, <1>5

(* An entry on the media: its header, its data, its padding.                 *)
LEMMA PieceUnits ==
  ASSUME NEW a \in Seq(Entry), NEW e \in 1..Len(a)
  PROVE  /\ a[e] \in Entry /\ a[e].size \in Nat /\ PadOf(a[e].size) \in Nat
         /\ Piece(a, e) \in Seq(Unit)
         /\ Len(Piece(a, e)) = BS + a[e].size + PadOf(a[e].size)
         /\ \A n \in 1..BS : Piece(a, e)[n] = <<"head", e, n>>
         /\ \A n \in 1..a[e].size : Piece(a, e)[BS + n] = <<"data", e, n>>
<1>1. BS \in Nat /\ e \in Nat
  BY BarAssumption
<1>2. a[e] \in Entry /\ a[e].size \in Nat
  <2>1. a[e] \in Entry
    OBVIOUS
  <2> QED
    BY <2>1 DEF Entry
<1>3. PadOf(a[e].size) \in Nat
  BY <1>2, PadOfType
<1> DEFINE sz == a[e].size
           pad == PadOf(sz)
           h == HeaderOf(e)
           c == Content(a, e)
           f == Filler(pad)
<1>4. /\ h \in Seq(Unit) /\ Len(h) = BS /\ \A n \in 1..BS : h[n] = <<"head", e, n>>
  BY <1>1 DEF HeaderOf, Unit
<1>5. /\ c \in Seq(Unit) /\ Len(c) = sz /\ \A n \in 1..sz : c[n] = <<"data", e, n>>
  BY <1>1, <1>2 DEF Content, Unit
<1>6. f \in Seq(Unit) /\ Len(f) = pad
  BY <1>3 DEF Filler, Unit
<1>7. Piece(a, e) = h \o c \o f
  BY DEF Piece
<1> HIDE DEF h, c, f, sz, pad
<1>8. sz \in Nat /\ pad \in Nat
  BY <1>2, <1>3 DEF sz, pad
<1>9. h \o c \in Seq(Unit) /\ Len(h \o c) = BS + sz
  <2>1. h \in Seq(Unit) /\ c \in Seq(Unit) /\ Len(h) = BS /\ Len(c) = sz
    BY <1>4, <1>5
  <2> QED
    BY <2>1, ConcatProperties
<1>10. \A n \in 1..BS : (h \o c)[n] = <<"head", e, n>>
  BY <1>1, <1>4, <1>5
<1>11. ASSUME NEW n \in 1..sz PROVE (h \o c)[BS + n] = <<"data", e, n>>
  <2>1. BS + n \in 1..Len(h)+Len(c) /\ ~ (BS + n <= Len(h)) /\ BS + n - Len(h) = n
    BY <1>1, <1>4, <1>5, <1>8
  <2>2. (h \o c)[BS + n] = c[BS + n - Len(h)]
    BY <1>4, <1>5, <2>1
  <2> QED
    BY <1>5, <2>1, <2>2
<1> DEFINE hc == h \o c
<1>12. hc \in Seq(Unit) /\ Len(hc) = BS + sz
  BY <1>9
<1>13. /\ \A n \in 1..BS : hc[n] = <<"head", e, n>>
       /\ \A n \in 1..sz : hc[BS + n] = <<"data", e, n>>
  BY <1>10, <1>11
<1> HIDE DEF hc
<1>14. /\ hc \o f \in Seq(Unit) /\ Len(hc \o f) = BS + sz + pad
       /\ \A n \in 1..BS + sz : (hc \o f)[n] = hc[n]
  BY <1>1, <1>6, <1>8, <1>12
<1>15. /\ \A n \in 1..BS : n \in 1..BS + sz
       /\ \A n \in 1..sz : BS + n \in 1..BS + sz
  BY <1>1, <1>8
<1>16. Piece(a, e) = hc \o f
  BY <1>7 DEF hc
<1> QED
  BY <1>2, <1>3, <1>13, <1>14, <1>15, <1>16 DEF sz, pad

(* What is written before the first entry, and with one more entry.          *)
Upto(a, m) == SubSeq(a, 1, m)

LEMMA StreamStart == ASSUME NEW a \in Seq(Entry) PROVE Stream(Upto(a, 0)) = <<>>
<1>1. Upto(a, 0) = <<>>
  BY DEF Upto
<1>2. [e \in DOMAIN Upto(a, 0) |-> Piece(Upto(a, 0), e)] = <<>>
  BY <1>1
<1> QED
  BY <1>2, FlattenSeqEmpty DEF Stream

LEMMA PiecesType ==
  ASSUME NEW a \in Seq(Entry)
  PROVE  [e \in DOMAIN a |-> Piece(a, e)] \in Seq(Seq(Unit))
<1>1. DOMAIN a = 1..Len(a) /\ Len(a) \in Nat
  OBVIOUS
<1>2. \A e \in 1..Len(a) : Piece(a, e) \in Seq(Unit)
  BY PieceUnits
<1> QED
  BY <1>1, <1>2, IsASeq

LEMMA StreamType == ASSUME NEW a \in Seq(Entry) PROVE Stream(a) \in Seq(Unit)
BY PiecesType, FlattenSeqType DEF Stream

LEMMA StreamStep ==
  ASSUME NEW a \in Seq(Entry), NEW m \in Nat, m < Len(a)
  PROVE  Stream(Upto(a, m + 1)) = Stream(Upto(a, m)) \o Piece(a, m + 1)
<1> DEFINE b == Upto(a, m)
           c == Upto(a, m + 1)
           Pieces(x) == [e \in DOMAIN x |-> Piece(x, e)]
<1>1. /\ b \in Seq(Entry) /\ Len(b) = m /\ \A e \in 1..m : b[e] = a[e]
      /\ c \in Seq(Entry) /\ Len(c) = m + 1 /\ \A e \in 1..m+1 : c[e] = a[e]
  BY DEF Upto
<1> HIDE DEF b, c
<1>2. DOMAIN b = 1..m /\ DOMAIN c = 1..m+1
  BY <1>1
<1>3. /\ \A e \in 1..m : Piece(b, e) = Piece(c, e)
      /\ Piece(c, m + 1) = Piece(a, m + 1)
  <2>1. \A e \in 1..m : b[e].size = c[e].size
    BY <1>1
  <2>2. c[m + 1].size = a[m + 1].size
    BY <1>1
  <2> QED
    BY <2>1, <2>2, Zenon DEF Piece, Content
<1>4. Pieces(b) \in Seq(Seq(Unit)) /\ Pieces(c) \in Seq(Seq(Unit))
  BY <1>1, PiecesType
<1>5. /\ Len(Pieces(b)) = m /\ \A e \in 1..m : Pieces(b)[e] = Piece(b, e)
      /\ Len(Pieces(c)) = m + 1 /\ \A e \in 1..m+1 : Pieces(c)[e] = Piece(c, e)
  BY <1>2, <1>4
<1>6. Piece(a, m + 1) \in Seq(Unit)
  BY PieceUnits
<1>7. Stream(b) = FlattenSeq(Pieces(b)) /\ Stream(c) = FlattenSeq(Pieces(c))
  BY DEF Stream
<1> HIDE DEF Pieces
<1>8. Pieces(c) = Append(Pieces(b), Piece(a, m + 1))
  BY <1>3, <1>4, <1>5, <1>6
<1>9. FlattenSeq(Pieces(c)) = FlattenSeq(Pieces(b)) \o Piece(a, m + 1)
  BY <1>4, <1>6, <1>8, FlattenSeqAppend
<1> QED
  BY <1>7, <1>9 DEF b, c

LEMMA UptoType ==
  ASSUME NEW a \in Seq(Entry), NEW m \in 0..Len(a)
  PROVE  Upto(a, m) \in Seq(Entry) /\ Stream(Upto(a, m)) \in Seq(Unit)
<1>1. Upto(a, m) \in Seq(Entry)
  BY DEF Upto
<1> QED
  BY <1>1, StreamType

(* What is written of the first entries is the front of what is written.     *)
LEMMA StreamFront ==
  ASSUME NEW a \in Seq(Entry), NEW m \in Nat, NEW d \in Nat, m + d <= Len(a)
  PROVE  /\ Len(Stream(Upto(a, m))) <= Len(Stream(Upto(a, m + d)))
         /\ \A n \in 1..Len(Stream(Upto(a, m))) :
              Stream(Upto(a, m + d))[n] = Stream(Upto(a, m))[n]
<1> DEFINE St(l) == Stream(Upto(a, l))
           Longer(l) == /\ Len(St(m)) <= Len(St(l))
                        /\ \A n \in 1..Len(St(m)) : St(l)[n] = St(m)[n]
           Ds == {l \in Nat : m + l <= Len(a) => Longer(m + l)}
<1>1. \A l \in 0..Len(a) : St(l) \in Seq(Unit)
  BY UptoType
<1>2. 0 \in Ds
  <2>1. m + 0 = m /\ m \in 0..Len(a)
    OBVIOUS
  <2>2. St(m) \in Seq(Unit)
    BY <1>1, <2>1
  <2> HIDE DEF St
  <2> QED
    BY <2>1, <2>2
<1>3. ASSUME NEW l \in Nat, l \in Ds PROVE l + 1 \in Ds
  <2>1. SUFFICES ASSUME m + (l + 1) <= Len(a) PROVE Longer(m + (l + 1))
    OBVIOUS
  <2>2. /\ m \in 0..Len(a) /\ m + l \in 0..Len(a) /\ m + l < Len(a) /\ m + l \in Nat
        /\ m + (l + 1) = (m + l) + 1 /\ m + l + 1 \in 1..Len(a)
    BY <2>1
  <2>3. Longer(m + l)
    BY <1>3, <2>2
  <2>4. St((m + l) + 1) = St(m + l) \o Piece(a, m + l + 1)
    BY <2>2, StreamStep
  <2>5. /\ St(m) \in Seq(Unit) /\ St(m + l) \in Seq(Unit)
        /\ Piece(a, m + l + 1) \in Seq(Unit)
    BY <1>1, <2>2, PieceUnits
  <2> HIDE DEF St
  <2>6. Longer((m + l) + 1)
    BY <2>3, <2>4, <2>5
  <2> QED
    BY <2>2, <2>6
<1>4. d \in Ds
  <2> HIDE DEF Ds
  <2> QED
    BY <1>2, <1>3, Induction
<1> QED
  BY <1>4

(* Where an entry starts, and what lies there.                               *)
StartOf(a, e) == Len(Stream(Upto(a, e - 1)))

LEMMA Layout ==
  ASSUME NEW a \in Seq(Entry), NEW e \in 1..Len(a)
  PROVE  /\ StartOf(a, e) \in Nat
         /\ StartOf(a, e + 1) = StartOf(a, e) + BS + a[e].size + PadOf(a[e].size)
         /\ StartOf(a, e + 1) <= Len(Stream(a))
         /\ \A n \in 1..BS : Stream(a)[StartOf(a, e) + n] = <<"head", e, n>>
         /\ \A n \in 1..a[e].size : Stream(a)[StartOf(a, e) + BS + n] = <<"data", e, n>>
<1> DEFINE St(l) == Stream(Upto(a, l))
           sz == a[e].size
<1>1. /\ e - 1 \in Nat /\ e - 1 < Len(a) /\ (e - 1) + 1 = e /\ e + 1 - 1 = e
      /\ e - 1 \in 0..Len(a) /\ e \in 0..Len(a) /\ Len(a) - e \in Nat
      /\ e + (Len(a) - e) = Len(a) /\ e \in Nat /\ BS \in Nat
  BY BarAssumption
<1>2. St(e - 1) \in Seq(Unit) /\ St(e) \in Seq(Unit)
  BY <1>1, UptoType
<1>3. St(e) = St(e - 1) \o Piece(a, e)
  BY <1>1, StreamStep
<1>4. /\ sz \in Nat /\ PadOf(sz) \in Nat
      /\ Piece(a, e) \in Seq(Unit)
      /\ Len(Piece(a, e)) = BS + sz + PadOf(sz)
      /\ \A n \in 1..BS : Piece(a, e)[n] = <<"head", e, n>>
      /\ \A n \in 1..sz : Piece(a, e)[BS + n] = <<"data", e, n>>
  BY PieceUnits
<1>5. Upto(a, Len(a)) = a
  BY DEF Upto
<1>6. /\ Len(St(e)) <= Len(Stream(a))
      /\ \A n \in 1..Len(St(e)) : Stream(a)[n] = St(e)[n]
  <2> DEFINE d == Len(a) - e
  <2>1. d \in Nat /\ e + d = Len(a) /\ e + d <= Len(a)
    BY <1>1
  <2> HIDE DEF d
  <2>2. /\ Len(Stream(Upto(a, e))) <= Len(Stream(Upto(a, e + d)))
        /\ \A n \in 1..Len(Stream(Upto(a, e))) :
             Stream(Upto(a, e + d))[n] = Stream(Upto(a, e))[n]
    BY <1>1, <2>1, StreamFront
  <2>3. Upto(a, e + d) = a
    BY <1>5, <2>1
  <2> QED
    BY <2>2, <2>3
<1>7. StartOf(a, e) = Len(St(e - 1)) /\ StartOf(a, e + 1) = Len(St(e))
  BY <1>1 DEF StartOf
<1> HIDE DEF St, sz
<1> DEFINE l == Len(St(e - 1))
<1>8. l \in Nat /\ Len(St(e)) = l + BS + sz + PadOf(sz)
  <2>1. Len(St(e)) = l + Len(Piece(a, e)) /\ l \in Nat
    BY <1>2, <1>3, <1>4, ConcatProperties
  <2> QED
    BY <1>1, <1>4, <2>1
<1>9. ASSUME NEW n \in 1..Len(Piece(a, e))
      PROVE  Stream(a)[l + n] = Piece(a, e)[n]
  <2>1. l + n \in 1..Len(St(e)) /\ l + n > l /\ l + n - l = n
    BY <1>1, <1>4, <1>8
  <2>2. St(e)[l + n] = Piece(a, e)[n]
    BY <1>2, <1>3, <1>4, <2>1
  <2> QED
    BY <1>6, <2>1, <2>2
<1>10. ASSUME NEW n \in 1..BS PROVE Stream(a)[l + n] = <<"head", e, n>>
  <2>1. n \in 1..Len(Piece(a, e))
    BY <1>1, <1>4
  <2> QED
    BY <1>4, <1>9, <2>1
<1>11. ASSUME NEW n \in 1..sz PROVE Stream(a)[l + BS + n] = <<"data", e, n>>
  <2>1. BS + n \in 1..Len(Piece(a, e)) /\ l + (BS + n) = l + BS + n
    BY <1>1, <1>4, <1>8
  <2>2. Stream(a)[l + (BS + n)] = Piece(a, e)[BS + n]
    BY <1>9, <2>1
  <2> QED
    BY <1>4, <2>1, <2>2
<1> QED
  BY <1>6, <1>7, <1>8, <1>10, <1>11 DEF sz

LEMMA LayoutEnds ==
  ASSUME NEW a \in Seq(Entry)
  PROVE  StartOf(a, 1) = 0 /\ StartOf(a, Len(a) + 1) = Len(Stream(a))
<1>1. Upto(a, Len(a)) = a
  BY DEF Upto
<1>2. 1 - 1 = 0 /\ Len(a) + 1 - 1 = Len(a)
  OBVIOUS
<1> QED
  BY <1>1, <1>2, StreamStart DEF StartOf
-----------------------------------------------------------------------------
(* Products and quotients of numbers.                                        *)
LEMMA ProductGrows ==
  ASSUME NEW x \in Nat, NEW y \in Nat, x # 0
  PROVE  x * y \in Nat /\ x * y >= y
<1>1. x - 1 \in Nat
  OBVIOUS
<1>2. (x - 1) * y \in Nat
  BY <1>1
<1>3. x * y = ((x - 1) * y) + y
  OBVIOUS
<1> QED
  BY <1>2, <1>3

LEMMA Monotone ==
  ASSUME NEW x \in Nat, NEW z \in Nat, NEW y \in Nat, x < z
  PROVE  (x * y) + y <= z * y
<1>1. z - x \in Nat /\ z - x # 0
  OBVIOUS
<1>2. (z - x) * y >= y
  BY <1>1, ProductGrows
<1>3. z * y = (x * y) + ((z - x) * y)
  OBVIOUS
<1> QED
  BY <1>2, <1>3

LEMMA Quotient ==
  ASSUME NEW l \in Nat, NEW r \in Nat, r # 0
  PROVE  /\ l \div r \in Nat
         /\ l < ((l \div r) + 1) * r
<1>1. l \div r \in Nat /\ l % r \in 0..r-1 /\ l = r * (l \div r) + (l % r)
  OBVIOUS
<1>2. ((l \div r) + 1) * r = r * (l \div r) + r
  BY <1>1
<1> QED
  BY <1>1, <1>2

(* Zeros are written.                                                        *)
LEMMA FillerUnits ==
  ASSUME NEW m \in Nat
  PROVE  /\ Filler(m) \in Seq(Unit) /\ Len(Filler(m)) = m
         /\ \A n \in 1..m : Filler(m)[n] = <<"zero">>
BY DEF Filler, Unit

(* The volumes have room for an archive, and the rest of them is zeros.      *)
LEMMA FilledUnits ==
  ASSUME NEW a \in Seq(Entry), NEW cap \in Caps
  PROVE  /\ Room(cap) \in Nat /\ Room(cap) >= BS
         /\ Count(a, cap) \in Nat /\ Count(a, cap) >= 1
         /\ Count(a, cap) * Room(cap) \in Nat
         /\ Len(Stream(a)) <= Count(a, cap) * Room(cap)
         /\ Filled(a, cap) \in Seq(Unit)
         /\ Len(Filled(a, cap)) = Count(a, cap) * Room(cap)
         /\ \A n \in 1..Len(Stream(a)) : Filled(a, cap)[n] = Stream(a)[n]
         /\ \A n \in Len(Stream(a))+1..Count(a, cap) * Room(cap) :
              Filled(a, cap)[n] = <<"zero">>
<1> DEFINE r == Room(cap)
           c == Count(a, cap)
           s == Stream(a)
           f == Filler((c * r) - Len(s))
<1>1. BS \in Nat /\ BS # 0 /\ cap - 1 \in Nat /\ cap - 1 # 0
  BY BarAssumption
<1>2. r \in Nat /\ r >= BS
  BY <1>1, ProductGrows DEF Room
<1>3. s \in Seq(Unit) /\ Len(s) \in Nat
  BY StreamType
<1>4. c = (Len(s) \div r) + 1
  BY DEF Count
<1> HIDE DEF r, c, s
<1>5. r # 0
  BY <1>1, <1>2
<1>6. Len(s) \div r \in Nat /\ Len(s) < ((Len(s) \div r) + 1) * r
  BY <1>2, <1>3, <1>5, Quotient
<1>7. c \in Nat /\ c >= 1 /\ Len(s) < c * r
  BY <1>4, <1>6
<1>8. c * r \in Nat /\ (c * r) - Len(s) \in Nat
  BY <1>2, <1>3, <1>7, ProductGrows
<1>9. /\ f \in Seq(Unit) /\ Len(f) = (c * r) - Len(s)
      /\ \A n \in 1..Len(f) : f[n] = <<"zero">>
  BY <1>8, FillerUnits
<1>10. Filled(a, cap) = s \o f
  BY DEF Filled, r, c, s
<1> HIDE DEF f
<1>11. /\ s \o f \in Seq(Unit) /\ Len(s \o f) = Len(s) + Len(f)
       /\ \A m \in 1..Len(s)+Len(f) :
            (s \o f)[m] = IF m <= Len(s) THEN s[m] ELSE f[m - Len(s)]
  <2>1. s \in Seq(Unit) /\ f \in Seq(Unit)
    BY <1>3, <1>9
  <2> QED
    BY <2>1, ConcatProperties, Zenon
<1>12. Len(s) + Len(f) = c * r
  BY <1>3, <1>8, <1>9
<1>13. ASSUME NEW n \in Len(s)+1..c * r PROVE (s \o f)[n] = <<"zero">>
  <2>1. /\ n \in 1..Len(s)+Len(f) /\ ~ (n <= Len(s)) /\ n - Len(s) \in 1..Len(f)
    BY <1>3, <1>8, <1>9, <1>12
  <2>2. (s \o f)[n] = f[n - Len(s)]
    BY <1>11, <2>1
  <2> QED
    BY <1>9, <2>1, <2>2
<1> DEFINE w == s \o f
<1>14. /\ w \in Seq(Unit) /\ Len(w) = c * r
       /\ \A n \in 1..Len(s) : w[n] = s[n]
       /\ \A n \in Len(s)+1..c * r : w[n] = <<"zero">>
  <2>1. \A n \in 1..Len(s) : n \in 1..Len(s)+Len(f) /\ n <= Len(s)
    BY <1>3, <1>8, <1>12
  <2> QED
    BY <1>11, <1>12, <1>13, <2>1
<1>15. Filled(a, cap) = w
  BY <1>10
<1> HIDE DEF w
<1> QED
  BY <1>2, <1>7, <1>8, <1>14, <1>15 DEF r, c, s

(* A volume: its header, and its share of the archive.                       *)
LEMMA VolumeUnits ==
  ASSUME NEW a \in Seq(Entry), NEW cap \in Caps, NEW v \in 1..Count(a, cap)
  PROVE  /\ Volume(a, cap, v) \in Seq(Unit)
         /\ Len(Volume(a, cap, v)) = BS + Room(cap)
         /\ \A n \in 1..Room(cap) :
              Volume(a, cap, v)[BS + n] = Filled(a, cap)[((v - 1) * Room(cap)) + n]
<1> DEFINE r == Room(cap)
           c == Count(a, cap)
           f == Filled(a, cap)
           h == [n \in 1..BS |-> <<"volume">>]
           from == (v - 1) * r
           share == SubSeq(f, from + 1, v * r)
<1>1. /\ BS \in Nat /\ r \in Nat /\ c \in Nat /\ c * r \in Nat
      /\ f \in Seq(Unit) /\ Len(f) = c * r
  BY BarAssumption, FilledUnits
<1>2. Volume(a, cap, v) = h \o share
  BY DEF Volume
<1>3. v \in Nat /\ v - 1 \in Nat /\ v - 1 < v /\ v <= c
  BY <1>1
<1>4. h \in Seq(Unit) /\ Len(h) = BS
  BY <1>1 DEF Unit
<1> HIDE DEF r, c, f, h
<1>5. from \in Nat /\ v * r = from + r
  BY <1>1, <1>3, ProductGrows
<1>6. v * r <= c * r
  <2>1. CASE v = c
    BY <1>1, <2>1
  <2>2. CASE v < c
    <3>1. (v * r) + r <= c * r
      BY <1>1, <1>3, <2>2, Monotone
    <3> QED
      BY <1>1, <1>5, <3>1
  <2> QED
    BY <1>1, <1>3, <2>1, <2>2
<1> HIDE DEF from
<1>7. /\ share \in Seq(Unit) /\ Len(share) = r
      /\ \A n \in 1..r : share[n] = f[from + n]
  <2>1. from + 1 \in 1..Len(f)+1 /\ from + r \in (from + 1)-1..Len(f)
    BY <1>1, <1>5, <1>6
  <2>2. /\ share \in Seq(Unit) /\ Len(share) = (from + r) - (from + 1) + 1
        /\ \A n \in 1..(from + r)-(from + 1)+1 : share[n] = f[(from + 1) + n - 1]
    BY <1>1, <1>5, <2>1, SubSeqProperties
  <2>3. (from + r) - (from + 1) + 1 = r /\ \A n \in 1..r : (from + 1) + n - 1 = from + n
    BY <1>1, <1>5
  <2> QED
    BY <2>2, <2>3
<1> HIDE DEF share
<1>8. h \o share \in Seq(Unit) /\ Len(h \o share) = BS + r
  BY <1>4, <1>7, ConcatProperties
<1>9. ASSUME NEW n \in 1..r PROVE (h \o share)[BS + n] = f[from + n]
  <2>1. BS + n \in 1..BS+r /\ ~ (BS + n <= BS) /\ BS + n - BS = n
    BY <1>1
  <2>2. (h \o share)[BS + n] = share[n]
    BY <1>4, <1>7, <2>1, ConcatProperties
  <2> QED
    BY <1>7, <2>2
<1> QED
  BY <1>2, <1>8, <1>9 DEF r, f, from

LEMMA VolumesType ==
  ASSUME NEW a \in Seq(Entry), NEW cap \in Caps
  PROVE  /\ Volumes(a, cap) \in Seq(Seq(Unit))
         /\ Len(Volumes(a, cap)) = Count(a, cap)
         /\ \A v \in 1..Count(a, cap) : Volumes(a, cap)[v] = Volume(a, cap, v)
<1>1. Count(a, cap) \in Nat
  BY FilledUnits
<1>2. \A v \in 1..Count(a, cap) : Volume(a, cap, v) \in Seq(Unit)
  BY VolumeUnits
<1> QED
  BY <1>1, <1>2, IsASeq DEF Volumes
-----------------------------------------------------------------------------
(* What the reader has in front of it.                                       *)
LEMMA MediumUnits ==
  ASSUME NEW cap \in Caps, Medium(cap)
  PROVE  /\ archive \in Seq(Entries) /\ archive \in Seq(Entry) /\ Len(archive) \in Nat
         /\ BS \in Nat /\ BS >= 1
         /\ Room(cap) \in Nat /\ Room(cap) >= 1 /\ Count(archive, cap) \in Nat
         /\ Len(vols) = Count(archive, cap)
         /\ \A v \in 1..Count(archive, cap) :
              /\ vols[v] \in Seq(Unit) /\ Len(vols[v]) = BS + Room(cap)
              /\ \A n \in 1..Room(cap) :
                   vols[v][BS + n] = Filled(archive, cap)[((v - 1) * Room(cap)) + n]
<1>1. archive \in Seq(Entries) /\ vols = Volumes(archive, cap)
  BY DEF Medium
<1>2. archive \in Seq(Entry) /\ Len(archive) \in Nat
  BY <1>1, BarAssumption, SeqMonotonic
<1>3. BS \in Nat /\ BS >= 1
  BY BarAssumption
<1>4. /\ Room(cap) \in Nat /\ Room(cap) >= BS /\ Count(archive, cap) \in Nat
  BY <1>2, FilledUnits
<1>5. /\ Len(vols) = Count(archive, cap)
      /\ \A v \in 1..Count(archive, cap) : vols[v] = Volume(archive, cap, v)
  BY <1>1, <1>2, VolumesType
<1>6. \A v \in 1..Count(archive, cap) :
        /\ Volume(archive, cap, v) \in Seq(Unit)
        /\ Len(Volume(archive, cap, v)) = BS + Room(cap)
        /\ \A n \in 1..Room(cap) : Volume(archive, cap, v)[BS + n]
                                     = Filled(archive, cap)[((v - 1) * Room(cap)) + n]
  BY <1>2, VolumeUnits
<1> QED
  BY <1>1, <1>2, <1>3, <1>4, <1>5, <1>6

(* Nothing about the entries changes while the reader moves.                 *)
LEMMA KeptStays ==
  ASSUME UNCHANGED <<archive, disk>>
  PROVE  /\ \A m : Done(m)' = Done(m)
         /\ \A e : Start(e)' = Start(e)
         /\ \A e : Body(e)' = Body(e)
         /\ DiskInStep => DiskInStep'
<1>1. \A e : Body(e)' = Body(e)
  BY DEF Body
<1>2. \A e : FileOf(e)' = FileOf(e)
  BY <1>1 DEF FileOf
<1>3. \A m : Kept(m)' = Kept(m)
  BY <1>2 DEF Kept
<1>4. \A m : Done(m)' = Done(m)
  BY <1>3 DEF Done
<1>5. \A e : Start(e)' = Start(e)
  BY DEF Start
<1>6. SeamsInvisible => SeamsInvisible'
  BY <1>2 DEF SeamsInvisible
<1>7. DiskInStep => DiskInStep'
  BY <1>6 DEF DiskInStep
<1> QED
  BY <1>1, <1>4, <1>5, <1>7

(* As long as the base stays and what was asked for, so does the step.       *)
LEMMA InStepStays ==
  ASSUME NEW cap \in Caps, InStep(cap), UNCHANGED <<archive, stage, entry, data, disk>>,
         Base(cap)' = Base(cap), want' + Len(out') = want + Len(out)
  PROVE  InStep(cap)'
<1> USE KeptStays DEF Asked
<1>1. HeaderNext(cap) => HeaderNext(cap)'
  BY DEF HeaderNext, LooksAt, PassingOver
<1>2. DataNext(cap) => DataNext(cap)'
  BY DEF DataNext
<1>3. PadNext(cap) => PadNext(cap)'
  BY DEF PadNext
<1> QED
  BY <1>1, <1>2, <1>3 DEF InStep

(* The next volume begins where the last one ended (VolumeSet._advance).     *)
LEMMA AdvanceKeeps ==
  ASSUME NEW cap \in Caps, DiskInStep, ExtractInvAt(cap), Advance
  PROVE  ExtractInvAt(cap)' /\ DiskInStep'
<1> DEFINE r == Room(cap)
           c == Count(archive, cap)
<1>1. /\ BS \in Nat /\ r \in Nat /\ c \in Nat /\ Len(vols) = c
      /\ \A v \in 1..c : Len(vols[v]) = BS + r
  BY MediumUnits DEF ExtractInvAt
<1>2. /\ cur \in 0..c /\ pos \in BS..BS+r /\ ~ (cur >= Len(vols)) /\ Len(vols[cur + 1]) - pos <= 0
      /\ cur' = cur + 1 /\ pos' = BS /\ UNCHANGED <<archive, vols, want, out, stage, entry, data, disk>>
  BY DEF ExtractInvAt, HeadOnMedium, Advance, Reading, Eof, Avail
<1> HIDE DEF r, c
<1>3. cur + 1 \in 1..c /\ cur \in Nat
  BY <1>1, <1>2
<1>4. pos = BS + r
  BY <1>1, <1>2, <1>3
<1>5. Position(cap)' = Position(cap)
  <2>1. cur * r \in Nat /\ (cur + 1) * r = (cur * r) + r
    BY <1>1, <1>3
  <2> QED
    BY <1>1, <1>2, <1>4, <2>1 DEF Position, r
<1>6. Base(cap)' = Base(cap)
  BY <1>2, <1>5 DEF Base
<1>7. Medium(cap)'
  BY <1>2 DEF ExtractInvAt, Medium
<1>8. HeadOnMedium(cap)'
  BY <1>1, <1>2, <1>3 DEF HeadOnMedium, r, c
<1>9. OutIsMedium(cap)'
  BY <1>2, <1>6 DEF ExtractInvAt, OutIsMedium
<1>10. InStep(cap)'
  BY <1>2, <1>6, InStepStays DEF ExtractInvAt
<1> QED
  BY <1>2, <1>7, <1>8, <1>9, <1>10, KeptStays DEF ExtractInvAt

LEMMA MinOfTwo ==
  ASSUME NEW x \in Nat, NEW y \in Nat
  PROVE  Min({x, y}) \in {x, y} /\ Min({x, y}) <= x /\ Min({x, y}) <= y
<1>1. \E m \in {x, y} : \A n \in {x, y} : m =< n
  BY SMT
<1>2. Min({x, y}) \in {x, y} /\ \A n \in {x, y} : Min({x, y}) =< n
  BY <1>1 DEF Min
<1> QED
  BY <1>2

(* What is taken from a volume is what lies there (VolumeSet.read).          *)
LEMMA TakeKeeps ==
  ASSUME NEW cap \in Caps, DiskInStep, ExtractInvAt(cap), Take
  PROVE  ExtractInvAt(cap)' /\ DiskInStep'
<1> DEFINE r == Room(cap)
           c == Count(archive, cap)
           w == vols[cur + 1]
           n == Min({want, Avail})
           f == Filled(archive, cap)
           piece == SubSeq(w, pos + 1, pos + n)
<1>1. /\ BS \in Nat /\ r \in Nat /\ c \in Nat /\ Len(vols) = c
      /\ \A v \in 1..c : /\ vols[v] \in Seq(Unit) /\ Len(vols[v]) = BS + r
                         /\ \A m \in 1..r : vols[v][BS + m] = f[((v - 1) * r) + m]
  BY MediumUnits DEF ExtractInvAt
<1>2. /\ cur \in 0..c /\ pos \in BS..BS+r /\ ~ (cur >= Len(vols)) /\ want > 0 /\ Avail > 0
      /\ Avail = Len(w) - pos
      /\ out' = out \o piece /\ pos' = pos + n /\ want' = want - n
      /\ UNCHANGED <<archive, vols, cur, stage, entry, data, disk>>
  BY DEF ExtractInvAt, HeadOnMedium, Take, Reading, Eof, Avail
<1>3. /\ want \in Nat /\ out \in Seq(Unit) /\ Base(cap) \in Nat
      /\ \A m \in 1..Len(out) : out[m] = f[Base(cap) + m]
  BY DEF ExtractInvAt, OutIsMedium
<1> HIDE DEF r, c, f
<1>4. cur + 1 \in 1..c /\ cur + 1 - 1 = cur /\ cur \in Nat
  BY <1>1, <1>2
<1>5. /\ w \in Seq(Unit) /\ Len(w) = BS + r
      /\ \A m \in 1..r : w[BS + m] = f[(cur * r) + m]
  BY <1>1, <1>4
<1> HIDE DEF w
<1>6. n \in Nat /\ n >= 1 /\ n <= want /\ pos + n <= BS + r /\ pos \in Nat
  <2>1. Avail \in Nat
    BY <1>1, <1>2, <1>5
  <2>2. n \in {want, Avail} /\ n <= want /\ n <= Avail
    BY <1>3, <2>1, MinOfTwo
  <2> HIDE DEF n
  <2> QED
    BY <1>1, <1>2, <1>3, <1>5, <2>1, <2>2
<1> HIDE DEF n
<1>7. /\ piece \in Seq(Unit) /\ Len(piece) = n
      /\ \A m \in 1..n : piece[m] = w[pos + m]
  <2>1. pos + 1 \in 1..Len(w)+1 /\ pos + n \in (pos + 1)-1..Len(w)
    BY <1>1, <1>5, <1>6
  <2>2. /\ piece \in Seq(Unit) /\ Len(piece) = (pos + n) - (pos + 1) + 1
        /\ \A m \in 1..(pos + n)-(pos + 1)+1 : piece[m] = w[(pos + 1) + m - 1]
    BY <1>5, <2>1, SubSeqProperties
  <2>3. (pos + n) - (pos + 1) + 1 = n /\ \A m \in 1..n : (pos + 1) + m - 1 = pos + m
    BY <1>6
  <2> QED
    BY <2>2, <2>3
<1> HIDE DEF piece
<1>8. /\ out' \in Seq(Unit) /\ Len(out') = Len(out) + n /\ Len(out) \in Nat
      /\ \A m \in 1..Len(out)+n :
           out'[m] = IF m <= Len(out) THEN out[m] ELSE piece[m - Len(out)]
  <2>1. /\ out \o piece \in Seq(Unit) /\ Len(out \o piece) = Len(out) + Len(piece)
        /\ \A m \in 1..Len(out)+Len(piece) :
             (out \o piece)[m] = IF m <= Len(out) THEN out[m] ELSE piece[m - Len(out)]
    BY <1>3, <1>7, ConcatProperties, Zenon
  <2> QED
    BY <1>2, <1>3, <1>7, <2>1
<1>9. cur * r \in Nat
  BY <1>1, <1>4
<1>10. /\ Position(cap) = (cur * r) + (pos - BS) /\ Position(cap)' = Position(cap) + n
       /\ Base(cap) = Position(cap) - Len(out) /\ Base(cap)' = Base(cap)
  <2>1. Position(cap) = (cur * r) + (pos - BS)
    BY DEF Position, r
  <2>2. Position(cap)' = (cur * r) + ((pos + n) - BS)
    BY <1>2 DEF Position, r
  <2>3. Base(cap) = Position(cap) - Len(out) /\ Base(cap)' = Position(cap)' - (Len(out) + n)
    BY <1>8 DEF Base
  <2> HIDE DEF Position
  <2> QED
    BY <1>1, <1>6, <1>8, <1>9, <2>1, <2>2, <2>3
<1>11. ASSUME NEW m \in 1..Len(out') PROVE out'[m] = f[Base(cap) + m]
  <2>1. CASE m <= Len(out)
    BY <1>3, <1>8, <2>1
  <2>2. CASE ~ (m <= Len(out))
    <3> DEFINE q == m - Len(out)
               x == pos + q - BS
    <3>1. q \in 1..n /\ x \in 1..r /\ pos + q = BS + x /\ (cur * r) + x = Base(cap) + m
      BY <1>1, <1>2, <1>6, <1>8, <1>9, <1>10, <2>2
    <3>2. out'[m] = piece[q]
      BY <1>8, <2>2
    <3> HIDE DEF q, x
    <3>3. piece[q] = w[BS + x]
      BY <1>7, <3>1
    <3>4. w[BS + x] = f[Base(cap) + m]
      BY <1>5, <3>1
    <3> QED
      BY <3>2, <3>3, <3>4
  <2> QED
    BY <2>1, <2>2
<1>12. Medium(cap)'
  BY <1>2 DEF ExtractInvAt, Medium
<1>13. HeadOnMedium(cap)'
  BY <1>1, <1>2, <1>4, <1>6 DEF HeadOnMedium, r, c
<1>14. OutIsMedium(cap)'
  <2>1. want' \in Nat
    BY <1>2, <1>3, <1>6
  <2> QED
    BY <1>2, <1>3, <1>8, <1>10, <1>11, <2>1 DEF OutIsMedium, f
<1>15. InStep(cap)'
  <2>1. want' + Len(out') = want + Len(out)
    BY <1>2, <1>3, <1>6, <1>8
  <2> QED
    BY <1>2, <1>10, <2>1, InStepStays DEF ExtractInvAt
<1> QED
  BY <1>2, <1>12, <1>13, <1>14, <1>15, KeptStays DEF ExtractInvAt
-----------------------------------------------------------------------------
(* The invariants of the disk, for any disk d.                               *)
Value == FileData \cup {NoEntry, Directory}
Sound(d) ==
  /\ d \in [Places -> Value]
  /\ \A l \in Places : d[l] = Directory => l[2] = {}
  /\ \A p \in Paths : d[<<p, {".file"}>>] # NoEntry => d[At(p)] = Directory
  /\ \A l \in Places : IsFile(d[l]) =>
       \E e \in DOMAIN archive : d[l] = FileOf(e) /\ Rel(archive[e].name) = l[1]

Holds(d, e, m) ==
  IF PlainFile(archive[e])
  THEN \/ \E f \in e+1..m : archive[f].name = archive[e].name /\ PlainFile(archive[f])
       \/ \E s \in Endings : d[<<Rel(archive[e].name), s>>] = FileOf(e)
  ELSE archive[e].parses => d[At(Rel(archive[e].name))] = Directory

LEMMA DiskInStepIsSound == DiskInStep <=> Sound(disk)
BY DEF DiskInStep, SeamsInvisible, Sound, Value

LEMMA SoundIsInStepNext ==
  ASSUME UNCHANGED archive, Sound(disk') PROVE DiskInStep'
<1>1. \A e : FileOf(e)' = FileOf(e)
  BY DEF FileOf, Body
<1>2. SeamsInvisible'
  BY <1>1 DEF SeamsInvisible, Sound
<1> QED
  BY <1>2 DEF DiskInStep, Sound, Value

LEMMA KeptIsHeld == \A m : Kept(m) <=> \A e \in 1..m : Holds(disk, e, m)
BY DEF Kept, Holds

LEMMA EndingFacts ==
  /\ {} \in Endings /\ {".file"} \in Endings /\ {".Z"} \in Endings
  /\ {".file", ".Z"} \in Endings
  /\ {".file"} # {}
  /\ \A b \in Endings : b \subseteq {".file"} <=> b = {} \/ b = {".file"}
BY DEF Endings

(* The steps to a name are places of the disk, its directory's among them.   *)
LEMMA StepsArePaths ==
  ASSUME NEW e \in Entries
  PROVE  /\ Rel(e.name) \in Paths /\ Rel(e.name) \in Steps(Rel(e.name))
         /\ Steps(Rel(e.name)) \subseteq Paths
         /\ Steps(Front(Rel(e.name))) \subseteq Paths
<1> DEFINE p == Rel(e.name)
<1>1. p \in Seq(STRING) /\ p # <<>>
  <2>1. e \in Entry
    BY BarAssumption
  <2> QED
    BY <2>1 DEF Entry, Name, Rel
<1>2. Steps(p) \subseteq Paths
  BY DEF Paths
<1> HIDE DEF p
<1>3. Len(p) \in Nat /\ Len(p) \in 1..Len(p) /\ SubSeq(p, 1, Len(p)) = p
  BY <1>1
<1>4. p \in Steps(p)
  BY <1>3 DEF Steps
<1>5. ASSUME NEW n \in 1..Len(Front(p)) PROVE SubSeq(Front(p), 1, n) \in Steps(p)
  <2>1. Front(p) \in Seq(STRING) /\ Len(Front(p)) = Len(p) - 1
    BY <1>1, <1>3 DEF Front
  <2>2. n \in 1..Len(p) /\ n <= Len(p) - 1
    BY <1>3, <2>1
  <2>3. \A m \in 1..Len(p)-1 : Front(p)[m] = p[m]
    BY <1>1, <1>3 DEF Front
  <2>4. SubSeq(Front(p), 1, n) = SubSeq(p, 1, n)
    BY <1>1, <2>1, <2>2, <2>3
  <2> QED
    BY <2>2, <2>4 DEF Steps
<1>6. Steps(Front(p)) \subseteq Steps(p)
  BY <1>5 DEF Steps
<1> QED
  BY <1>2, <1>4, <1>6 DEF p

(* What ensure_dir makes of a place.                                         *)
LEMMA EnsureDirPlaces ==
  ASSUME NEW d \in [Places -> Value], NEW q, Steps(q) \subseteq Paths
  PROVE  /\ ~ InTheWay(d, q)
         /\ ensure_dir(d, q) \in [Places -> Value]
         /\ \A s \in Steps(q) : ensure_dir(d, q)[At(s)] = Directory
         /\ \A s \in Steps(q) : IsFile(d[At(s)]) =>
              ensure_dir(d, q)[<<s, {".file"}>>] = d[At(s)]
         /\ \A l \in Places :
              l[1] \notin Steps(q) \/ (l[2] # {} /\ (l[2] # {".file"} \/ ~ IsFile(d[At(l[1])])))
                => ensure_dir(d, q)[l] = d[l]
<1> DEFINE m == MoveAside(d, q)
           x == ensure_dir(d, q)
<1>1. \A s \in Steps(q) : /\ At(s) \in Places /\ <<s, {".file"}>> \in Places
                          /\ At(s)[1] = s /\ At(s)[2] = {}
  BY EndingFacts DEF At, Places
<1>2. m = [l \in Places |->
            IF l[1] \in Steps(q) /\ IsFile(d[At(l[1])]) /\ l[2] \subseteq {".file"}
            THEN IF l[2] = {} THEN NoEntry ELSE d[At(l[1])]
            ELSE d[l]]
  BY DEF MoveAside
<1>3. x = [l \in Places |->
            IF l[1] \in Steps(q) /\ l[2] = {} THEN Directory ELSE m[l]]
  BY DEF ensure_dir, MakeDirs
<1>4. ~ IsFile(NoEntry)
  BY DEF IsFile
<1>5. \A l \in Places : l[2] \in Endings
  BY DEF Places
<1> HIDE DEF m, x
<1>6. ~ InTheWay(d, q)
  <2>1. ASSUME NEW s \in Steps(q) PROVE ~ IsFile(m[At(s)])
    <3>1. m[At(s)] = IF IsFile(d[At(s)]) THEN NoEntry ELSE d[At(s)]
      BY <1>1, <1>2
    <3> QED
      BY <1>4, <3>1
  <2> QED
    BY <2>1 DEF InTheWay, m
<1>7. \A l \in Places : m[l] \in Value
  <2> TAKE l \in Places
  <2>1. l[1] \in Steps(q) => At(l[1]) \in Places
    BY <1>1
  <2>2. NoEntry \in Value
    BY DEF Value
  <2> QED
    BY <1>2, <2>1, <2>2
<1>8. x \in [Places -> Value]
  <2>1. Directory \in Value
    BY DEF Value
  <2> QED
    BY <1>3, <1>7, <2>1
<1>9. \A s \in Steps(q) : x[At(s)] = Directory
  BY <1>1, <1>3
<1>10. ASSUME NEW s \in Steps(q), IsFile(d[At(s)]) PROVE x[<<s, {".file"}>>] = d[At(s)]
  <2> DEFINE l == <<s, {".file"}>>
  <2>1. l \in Places /\ l[1] = s /\ l[2] = {".file"} /\ l[2] # {}
    BY <1>1, EndingFacts
  <2> HIDE DEF l
  <2>2. x[l] = m[l] /\ m[l] = d[At(s)]
    BY <1>2, <1>3, <1>10, <2>1
  <2> QED
    BY <2>2 DEF l
<1>11. ASSUME NEW l \in Places,
              l[1] \notin Steps(q) \/ (l[2] # {} /\ (l[2] # {".file"} \/ ~ IsFile(d[At(l[1])])))
       PROVE  x[l] = d[l]
  <2>1. l[2] \subseteq {".file"} <=> l[2] = {} \/ l[2] = {".file"}
    BY <1>5, EndingFacts
  <2>2. x[l] = m[l]
    BY <1>3, <1>11
  <2>3. m[l] = d[l]
    BY <1>2, <1>11, <2>1
  <2> QED
    BY <2>2, <2>3
<1> QED
  BY <1>6, <1>8, <1>9, <1>10, <1>11 DEF x

(* The path of an entry of the archive; what its file is.                    *)
LEMMA EntryPaths ==
  ASSUME archive \in Seq(Entries), NEW e \in 1..Len(archive)
  PROVE  /\ archive[e] \in Entries /\ archive[e] \in Entry
         /\ Rel(archive[e].name) \in Paths
         /\ Body(e) \in Seq(Unit) /\ Len(Body(e)) = archive[e].size
         /\ \A n \in 1..archive[e].size : Body(e)[n] = <<"data", e, n>>
         /\ FileOf(e) \in FileData /\ IsFile(FileOf(e)) /\ FileOf(e) # NoEntry
<1>1. archive[e] \in Entries /\ archive[e] \in Entry
  BY BarAssumption
<1>2. Rel(archive[e].name) \in Paths
  BY <1>1, StepsArePaths
<1>3. archive[e].size \in Nat /\ e \in Nat
  BY <1>1 DEF Entry
<1>4. /\ Body(e) \in Seq(Unit) /\ Len(Body(e)) = archive[e].size
      /\ \A n \in 1..archive[e].size : Body(e)[n] = <<"data", e, n>>
  BY <1>3 DEF Body, Content, Unit
<1>5. FileOf(e) \in FileData
  BY <1>4 DEF FileOf, FileData
<1> QED
  BY <1>1, <1>2, <1>4, <1>5, BarAssumption DEF IsFile

(* Moving aside loses no file and misplaces none (ensure_dir).               *)
LEMMA EnsureDirSound ==
  ASSUME NEW d, Sound(d), NEW q, Steps(q) \subseteq Paths
  PROVE  Sound(ensure_dir(d, q))
<1> DEFINE x == ensure_dir(d, q)
<1>1. d \in [Places -> Value]
  BY DEF Sound
<1>2. /\ x \in [Places -> Value]
      /\ \A s \in Steps(q) : x[At(s)] = Directory
      /\ \A s \in Steps(q) : IsFile(d[At(s)]) => x[<<s, {".file"}>>] = d[At(s)]
      /\ \A l \in Places :
           l[1] \notin Steps(q) \/ (l[2] # {} /\ (l[2] # {".file"} \/ ~ IsFile(d[At(l[1])])))
             => x[l] = d[l]
  BY <1>1, EnsureDirPlaces
<1> HIDE DEF x
<1>3. \A l \in Places : l = <<l[1], l[2]>> /\ l[1] \in Paths /\ l[2] \in Endings
  BY DEF Places
<1>4. \A s \in Paths : /\ At(s) \in Places /\ <<s, {".file"}>> \in Places
                       /\ At(s) = <<s, {}>>
  BY EndingFacts DEF At, Places
<1>5. ASSUME NEW l \in Places
      PROVE  \/ x[l] = d[l]
             \/ l[2] = {} /\ x[l] = Directory
             \/ l[2] = {".file"} /\ l[1] \in Steps(q) /\ IsFile(d[At(l[1])]) /\ x[l] = d[At(l[1])]
  <2>1. CASE l[1] \in Steps(q) /\ l[2] = {}
    <3>1. l = At(l[1])
      BY <1>3, <1>4, <2>1
    <3> QED
      BY <1>2, <2>1, <3>1
  <2>2. CASE l[1] \in Steps(q) /\ l[2] = {".file"} /\ IsFile(d[At(l[1])])
    <3>1. l = <<l[1], {".file"}>>
      BY <1>3, <2>2
    <3> QED
      BY <1>2, <2>2, <3>1
  <2>3. CASE l[1] \notin Steps(q) \/ (l[2] # {} /\ (l[2] # {".file"} \/ ~ IsFile(d[At(l[1])])))
    BY <1>2, <2>3
  <2> QED
    BY <2>1, <2>2, <2>3
<1>6. ASSUME NEW l \in Places, x[l] = Directory PROVE l[2] = {}
  BY <1>5, <1>6 DEF Sound, IsFile
<1>7. ASSUME NEW p \in Paths, x[<<p, {".file"}>>] # NoEntry PROVE x[At(p)] = Directory
  <2> DEFINE l == <<p, {".file"}>>
  <2>1. l \in Places /\ l[1] = p /\ l[2] = {".file"} /\ l[2] # {} /\ At(p) \in Places
        /\ At(p)[1] = p
    BY <1>4, EndingFacts
  <2> HIDE DEF l
  <2>2. CASE p \in Steps(q)
    BY <1>2, <2>2
  <2>3. CASE p \notin Steps(q)
    <3>1. x[l] = d[l]
      BY <1>2, <2>1, <2>3
    <3>2. x[At(p)] = d[At(p)]
      BY <1>2, <2>1, <2>3
    <3> QED
      BY <1>7, <3>1, <3>2 DEF Sound, l
  <2> QED
    BY <2>2, <2>3
<1>8. ASSUME NEW l \in Places, IsFile(x[l])
      PROVE  \E e \in DOMAIN archive : x[l] = FileOf(e) /\ Rel(archive[e].name) = l[1]
  <2>1. CASE x[l] = d[l]
    BY <1>8, <2>1 DEF Sound
  <2>2. CASE l[2] = {".file"} /\ IsFile(d[At(l[1])]) /\ x[l] = d[At(l[1])]
    <3>1. At(l[1]) \in Places /\ At(l[1])[1] = l[1]
      <4>1. l[1] \in Paths
        BY <1>3
      <4>2. At(l[1]) \in Places /\ At(l[1]) = <<l[1], {}>>
        BY <1>4, <4>1
      <4> QED
        BY <4>2
    <3> QED
      BY <2>2, <3>1 DEF Sound
  <2>3. x[l] # Directory
    BY <1>8 DEF IsFile
  <2> QED
    BY <1>5, <2>1, <2>2, <2>3
<1> QED
  BY <1>2, <1>6, <1>7, <1>8 DEF Sound, x

LEMMA EnsureDirHolds ==
  ASSUME archive \in Seq(Entries), NEW d, Sound(d), NEW q, Steps(q) \subseteq Paths,
         NEW e \in 1..Len(archive), NEW m, Holds(d, e, m)
  PROVE  Holds(ensure_dir(d, q), e, m)
<1> DEFINE x == ensure_dir(d, q)
           p == Rel(archive[e].name)
<1>1. d \in [Places -> Value]
  BY DEF Sound
<1>2. /\ \A s \in Steps(q) : x[At(s)] = Directory
      /\ \A s \in Steps(q) : IsFile(d[At(s)]) => x[<<s, {".file"}>>] = d[At(s)]
      /\ \A l \in Places :
           l[1] \notin Steps(q) \/ (l[2] # {} /\ (l[2] # {".file"} \/ ~ IsFile(d[At(l[1])])))
             => x[l] = d[l]
  BY <1>1, EnsureDirPlaces
<1>3. p \in Paths /\ IsFile(FileOf(e)) /\ FileOf(e) # NoEntry
  BY EntryPaths
<1> HIDE DEF x, p
<1>4. \A s \in Endings : <<p, s>> \in Places
  BY <1>3 DEF Places
<1>5. At(p) = <<p, {}>> /\ At(p) \in Places
  BY <1>4, EndingFacts DEF At
<1>6. CASE ~ PlainFile(archive[e])
  <2>1. archive[e].parses => d[At(p)] = Directory
    BY <1>6 DEF Holds, p
  <2>2. archive[e].parses => x[At(p)] = Directory
    BY <1>2, <1>5, <2>1
  <2> QED
    BY <1>6, <2>2 DEF Holds, x, p
<1>7. CASE \E f \in e+1..m : archive[f].name = archive[e].name /\ PlainFile(archive[f])
  BY <1>6, <1>7 DEF Holds
<1>8. ASSUME NEW s \in Endings, d[<<p, s>>] = FileOf(e)
      PROVE  \E t \in Endings : x[<<p, t>>] = FileOf(e)
  <2>1. CASE x[<<p, s>>] = d[<<p, s>>]
    BY <1>8, <2>1
  <2>2. CASE p \in Steps(q) /\ s = {}
    <3>1. IsFile(d[At(p)]) /\ d[At(p)] = FileOf(e)
      BY <1>3, <1>5, <1>8, <2>2
    <3>2. x[<<p, {".file"}>>] = FileOf(e)
      BY <1>2, <2>2, <3>1
    <3> QED
      BY <3>2, EndingFacts
  <2>3. CASE s = {".file"} /\ IsFile(d[At(p)])
    <3>1. d[<<p, {".file"}>>] # NoEntry
      BY <1>3, <1>8, <2>3
    <3>2. d[At(p)] = Directory
      BY <1>3, <3>1 DEF Sound
    <3> QED
      BY <2>3, <3>2 DEF IsFile
  <2> QED
    BY <1>2, <1>4, <2>1, <2>2, <2>3
<1>9. CASE PlainFile(archive[e]) /\ \E s \in Endings : d[<<p, s>>] = FileOf(e)
  BY <1>8, <1>9 DEF Holds, x, p
<1> QED
  BY <1>6, <1>7, <1>9 DEF Holds, p

(* A file that is stored is the one in the archive, unpacked if it can be.   *)
LEMMA StoredIsFile ==
  ASSUME archive \in Seq(Entries), NEW e \in 1..Len(archive), archive[e].size # 0,
         data = Body(e)
  PROVE  [data |-> data, unpacked |-> Magic(data) /\ ~ (Magic(data) /\ ~ GzipAccepts(data))]
           = FileOf(e)
<1>1. /\ Body(e) \in Seq(Unit) /\ Len(Body(e)) = archive[e].size
      /\ \A n \in 1..archive[e].size : Body(e)[n] = <<"data", e, n>>
      /\ archive[e] \in Entry
  BY EntryPaths
<1>2. archive[e].size \in Nat /\ archive[e].pack \in {"raw", "Z", "bad"}
  BY <1>1 DEF Entry
<1>3. Body(e) # <<>> /\ Head(Body(e)) = <<"data", e, 1>>
  BY <1>1, <1>2
<1>4. Magic(data) <=> archive[e].pack # "raw"
  BY <1>3 DEF Magic
<1>5. DOMAIN archive = 1..Len(archive)
  OBVIOUS
<1>6. GzipAccepts(data) <=> archive[e].pack = "Z"
  <2>1. ASSUME NEW f \in 1..Len(archive), Body(e) = Body(f) PROVE f = e
    <3>1. /\ Len(Body(f)) = archive[f].size
          /\ \A n \in 1..archive[f].size : Body(f)[n] = <<"data", f, n>>
      BY EntryPaths
    <3>2. 1 \in 1..archive[e].size /\ 1 \in 1..archive[f].size
      BY <1>1, <1>2, <2>1, <3>1
    <3>3. <<"data", e, 1>> = <<"data", f, 1>>
      BY <1>1, <2>1, <3>1, <3>2
    <3> QED
      BY <3>3
  <2> QED
    BY <1>5, <2>1 DEF GzipAccepts
<1>7. (Magic(data) /\ ~ (Magic(data) /\ ~ GzipAccepts(data))) = (archive[e].pack = "Z")
  BY <1>2, <1>4, <1>6
<1> QED
  BY <1>7 DEF FileOf

(* Writing an entry's file below its name keeps the disk sound.              *)
LEMMA StoreSound ==
  ASSUME archive \in Seq(Entries), NEW d, Sound(d), NEW e \in 1..Len(archive),
         NEW b \in SUBSET {".Z"},
         NEW l, l = <<Rel(archive[e].name), Suffix(d, Rel(archive[e].name)) \cup b>>
  PROVE  /\ l \in Places /\ Opens(d, l)
         /\ Sound([d EXCEPT ![l] = FileOf(e)])
<1> DEFINE p == Rel(archive[e].name)
           x == [d EXCEPT ![l] = FileOf(e)]
<1>1. p \in Paths /\ FileOf(e) \in FileData /\ IsFile(FileOf(e)) /\ FileOf(e) # NoEntry
  BY EntryPaths
<1>2. e \in DOMAIN archive
  OBVIOUS
<1>3. Suffix(d, p) = IF d[At(p)] = Directory THEN {".file"} ELSE {}
  BY DEF Suffix
<1>4. l = <<p, Suffix(d, p) \cup b>>
  OBVIOUS
<1> HIDE DEF p
<1>5. /\ l \in Places /\ l[1] = p
      /\ l[2] = {".file"} => d[At(p)] = Directory
      /\ l[2] = {} => d[At(p)] # Directory
  <2>1. Suffix(d, p) \cup b \in Endings
    BY <1>3 DEF Endings
  <2>2. l \in Places /\ l[1] = p /\ l[2] = Suffix(d, p) \cup b
    <3> DEFINE t == Suffix(d, p) \cup b
    <3>1. l = <<p, t>> /\ t \in Endings
      BY <1>4, <2>1
    <3> HIDE DEF t
    <3>2. l \in Places
      BY <1>1, <3>1 DEF Places
    <3>3. l[1] = p /\ l[2] = t
      BY <3>1
    <3> QED
      BY <3>2, <3>3 DEF t
  <2>3. ".file" \notin b
    OBVIOUS
  <2>4. l[2] = {".file"} => d[At(p)] = Directory
    BY <1>3, <2>2, <2>3
  <2>5. l[2] = {} => d[At(p)] # Directory
    BY <1>3, <2>2
  <2> QED
    BY <2>2, <2>4, <2>5
<1>6. \A s \in Paths : At(s) \in Places /\ At(s) = <<s, {}>> /\ <<s, {".file"}>> \in Places
  BY EndingFacts DEF At, Places
<1>7. Opens(d, l)
  <2>1. SUFFICES ASSUME d[l] = Directory PROVE FALSE
    BY DEF Opens
  <2>2. l[2] = {}
    BY <1>5, <2>1 DEF Sound
  <2>3. l = At(p)
    <3>1. l[2] = Suffix(d, p) \cup b
      BY <1>4
    <3>2. l = <<p, {}>>
      BY <1>4, <2>2, <3>1
    <3> QED
      BY <1>1, <1>6, <3>2
  <2> QED
    BY <1>5, <2>1, <2>2, <2>3
<1>8. x \in [Places -> Value] /\ x[l] = FileOf(e) /\ \A k \in Places : k # l => x[k] = d[k]
  BY <1>1, <1>5 DEF Sound, Value
<1> HIDE DEF x
<1>9. ASSUME NEW k \in Places, x[k] = Directory PROVE d[k] = Directory /\ k[2] = {}
  BY <1>1, <1>8, <1>9 DEF Sound, IsFile
<1>10. ASSUME NEW s \in Paths, x[<<s, {".file"}>>] # NoEntry PROVE x[At(s)] = Directory
  <2> DEFINE k == <<s, {".file"}>>
  <2>1. k \in Places /\ k[1] = s /\ k[2] = {".file"} /\ At(s) \in Places
    BY <1>6
  <2>2. d[At(s)] = Directory
    <3>1. CASE k = l
      BY <1>5, <2>1, <3>1
    <3>2. CASE k # l
      BY <1>8, <1>10, <2>1, <3>2 DEF Sound
    <3> QED
      BY <3>1, <3>2
  <2>3. At(s) # l
    BY <1>7, <2>2 DEF Opens
  <2> QED
    BY <1>8, <2>1, <2>2, <2>3
<1>11. ASSUME NEW k \in Places, IsFile(x[k])
       PROVE  \E f \in DOMAIN archive : x[k] = FileOf(f) /\ Rel(archive[f].name) = k[1]
  <2>1. CASE k = l
    BY <1>2, <1>5, <1>8, <2>1 DEF p
  <2>2. CASE k # l
    BY <1>8, <1>11, <2>2 DEF Sound
  <2> QED
    BY <2>1, <2>2
<1> QED
  BY <1>5, <1>7, <1>8, <1>9, <1>10, <1>11 DEF Sound, x

(* It replaces at most a file of the same name.                              *)
LEMMA StoreHolds ==
  ASSUME NamesApart, archive \in Seq(Entries), NEW d, Sound(d),
         NEW e \in 1..Len(archive), PlainFile(archive[e]),
         NEW b \in SUBSET {".Z"},
         NEW l, l = <<Rel(archive[e].name), Suffix(d, Rel(archive[e].name)) \cup b>>,
         \A f \in 1..e-1 : Holds(d, f, e - 1)
  PROVE  \A f \in 1..e : Holds([d EXCEPT ![l] = FileOf(e)], f, e)
<1> DEFINE p == Rel(archive[e].name)
           x == [d EXCEPT ![l] = FileOf(e)]
<1>1. l \in Places /\ Opens(d, l) /\ l[1] = p
  BY StoreSound
<1>2. x[l] = FileOf(e) /\ \A k \in Places : k # l => x[k] = d[k]
  BY <1>1 DEF Sound
<1>3. Suffix(d, p) \cup b \in Endings /\ l = <<p, Suffix(d, p) \cup b>>
  BY DEF Suffix, Endings
<1> HIDE DEF x, p
<1>4. Holds(x, e, e)
  BY <1>2, <1>3 DEF Holds, p
<1>5. ASSUME NEW f \in 1..e-1 PROVE Holds(x, f, e)
  <2> DEFINE q == Rel(archive[f].name)
  <2>0. /\ f \in 1..Len(archive) /\ e \in f+1..e /\ Holds(d, f, e - 1)
        /\ \A n \in f+1..e-1 : n \in f+1..e
    OBVIOUS
  <2>1. /\ q \in Paths /\ archive[f] \in Entries /\ archive[e] \in Entries
    BY <2>0, EntryPaths
  <2> HIDE DEF q
  <2>2. \A s \in Endings : <<q, s>> \in Places /\ <<q, s>>[1] = q
    BY <2>1 DEF Places
  <2>3. CASE ~ PlainFile(archive[f])
    <3> SUFFICES ASSUME archive[f].parses PROVE x[At(q)] = Directory
      BY <2>3 DEF Holds, q
    <3>1. d[At(q)] = Directory
      BY <2>0, <2>3 DEF Holds, q
    <3>2. At(q) \in Places /\ At(q) # l
      BY <1>1, <2>2, <3>1, EndingFacts DEF At, Opens
    <3> QED
      BY <1>2, <3>1, <3>2
  <2>4. CASE PlainFile(archive[f]) /\ \E n \in f+1..e-1 :
               archive[n].name = archive[f].name /\ PlainFile(archive[n])
    BY <2>0, <2>4 DEF Holds
  <2>5. CASE PlainFile(archive[f]) /\ \E s \in Endings : d[<<q, s>>] = FileOf(f)
    <3>1. PICK s \in Endings : d[<<q, s>>] = FileOf(f)
      BY <2>5
    <3>2. CASE <<q, s>> = l
      <4>1. q = p
        BY <1>1, <2>2, <3>2
      <4>2. archive[e].name = archive[f].name
        BY <2>1, <4>1 DEF NamesApart, p, q
      <4> QED
        BY <2>0, <2>5, <4>2 DEF Holds
    <3>3. CASE <<q, s>> # l
      <4>1. x[<<q, s>>] = FileOf(f)
        BY <1>2, <2>2, <3>1, <3>3
      <4> QED
        BY <2>5, <4>1 DEF Holds, q
    <3> QED
      BY <3>2, <3>3
  <2> QED
    BY <2>0, <2>3, <2>4, <2>5 DEF Holds, q
<1>6. \A f \in 1..e : f \in 1..e-1 \/ f = e
  OBVIOUS
<1> QED
  BY <1>4, <1>5, <1>6 DEF x
-----------------------------------------------------------------------------
(* How far the reader has got, at most and at the end of the last volume.    *)
LEMMA PositionBounds ==
  ASSUME NEW cap \in Caps, Medium(cap), HeadOnMedium(cap)
  PROVE  /\ Position(cap) \in Nat
         /\ Position(cap) <= Count(archive, cap) * Room(cap)
         /\ Eof => Position(cap) = Count(archive, cap) * Room(cap)
         /\ Count(archive, cap) * Room(cap) \in Nat
<1> DEFINE r == Room(cap)
           c == Count(archive, cap)
<1>1. BS \in Nat /\ r \in Nat /\ c \in Nat /\ Len(vols) = c
  BY MediumUnits
<1>2. cur \in 0..c /\ pos \in BS..BS+r /\ (cur = c => pos = BS)
  BY DEF HeadOnMedium
<1>3. Position(cap) = (cur * r) + (pos - BS)
  BY DEF Position
<1>4. Eof <=> cur = c
  BY <1>1, <1>2 DEF Eof
<1> HIDE DEF r, c
<1>5. cur * r \in Nat /\ c * r \in Nat /\ pos - BS \in 0..r
  BY <1>1, <1>2
<1>6. CASE cur = c
  BY <1>2, <1>3, <1>4, <1>5, <1>6 DEF r, c
<1>7. CASE cur # c
  <2>1. cur \in Nat /\ cur < c
    BY <1>1, <1>2, <1>7
  <2>2. (cur * r) + r <= c * r
    BY <1>1, <2>1, Monotone
  <2> QED
    BY <1>1, <1>3, <1>4, <1>5, <1>7, <2>2 DEF r, c
<1> QED
  BY <1>6, <1>7

(* What was asked for has been read in full if the archive has it.           *)
LEMMA AllRead ==
  ASSUME NEW cap \in Caps, ExtractInvAt(cap), ReadDone,
         NEW n \in Nat, want + Len(out) = n, Base(cap) + n <= Len(Stream(archive))
  PROVE  /\ Len(out) = n /\ Position(cap) = Base(cap) + n
         /\ \A m \in 1..n : out[m] = Stream(archive)[Base(cap) + m]
<1>1. /\ want \in Nat /\ out \in Seq(Unit) /\ Base(cap) \in Nat /\ Len(out) \in Nat
      /\ \A m \in 1..Len(out) : out[m] = Filled(archive, cap)[Base(cap) + m]
  BY DEF ExtractInvAt, OutIsMedium
<1>2. /\ Position(cap) \in Nat /\ Base(cap) = Position(cap) - Len(out)
      /\ Eof => Position(cap) = Count(archive, cap) * Room(cap)
  BY PositionBounds DEF ExtractInvAt, Base
<1>3. archive \in Seq(Entry)
  BY MediumUnits DEF ExtractInvAt
<1>4. /\ Count(archive, cap) * Room(cap) \in Nat
      /\ Len(Stream(archive)) <= Count(archive, cap) * Room(cap)
      /\ \A m \in 1..Len(Stream(archive)) : Filled(archive, cap)[m] = Stream(archive)[m]
      /\ Len(Stream(archive)) \in Nat
  BY <1>3, FilledUnits, StreamType
<1> DEFINE top == Count(archive, cap) * Room(cap)
           s == Len(Stream(archive))
<1> HIDE DEF top, s, Position, Base
<1>5. want = 0
  <2>1. SUFFICES ASSUME want > 0 PROVE FALSE
    BY <1>1
  <2>2. Eof
    BY <2>1 DEF ReadDone, Reading
  <2>3. Position(cap) = top /\ s <= top /\ top \in Nat /\ s \in Nat /\ Base(cap) + n <= s
    BY <1>2, <1>4, <2>2 DEF top, s
  <2> QED
    BY <1>1, <1>2, <2>1, <2>3
<1>6. Len(out) = n /\ Position(cap) = Base(cap) + n
  BY <1>1, <1>2, <1>5
<1>7. ASSUME NEW m \in 1..n PROVE out[m] = Stream(archive)[Base(cap) + m]
  <2>1. Base(cap) + m \in 1..Len(Stream(archive))
    BY <1>1, <1>4
  <2> QED
    BY <1>1, <1>4, <1>6, <2>1
<1> QED
  BY <1>6, <1>7

(* Where the entries of the archive in front of the reader lie.              *)
LEMMA Starts ==
  ASSUME archive \in Seq(Entry)
  PROVE  /\ Start(1) = 0
         /\ Start(Len(archive) + 1) = Len(Stream(archive))
         /\ \A e \in 1..Len(archive) :
              /\ Start(e) \in Nat
              /\ archive[e].size \in Nat /\ PadOf(archive[e].size) \in Nat
              /\ Start(e + 1) = Start(e) + BS + archive[e].size + PadOf(archive[e].size)
              /\ Start(e + 1) <= Len(Stream(archive))
              /\ \A n \in 1..BS : Stream(archive)[Start(e) + n] = <<"head", e, n>>
              /\ \A n \in 1..archive[e].size :
                   Stream(archive)[Start(e) + BS + n] = <<"data", e, n>>
<1>1. \A e : Start(e) = StartOf(archive, e)
  BY DEF Start, StartOf, Upto
<1>2. \A e \in 1..Len(archive) : archive[e].size \in Nat /\ PadOf(archive[e].size) \in Nat
  BY PieceUnits
<1> QED
  BY <1>1, <1>2, Layout, LayoutEnds

(* Back at the top of extract's loop.                                        *)
LEMMA LoopTopKeeps ==
  ASSUME NEW cap \in Caps, ExtractInvAt(cap), LoopTop,
         UNCHANGED <<archive, vols, cur, pos>>,
         NEW e \in 1..Len(archive)+1, Done(e - 1)',
         LooksAt(e, Position(cap))
  PROVE  ExtractInvAt(cap)'
<1>1. archive \in Seq(Entry) /\ Len(archive) \in Nat /\ BS \in Nat /\ BS >= 1
  BY MediumUnits DEF ExtractInvAt
<1>2. /\ Position(cap) \in Nat /\ Position(cap)' = Position(cap)
      /\ Eof => Position(cap) = Count(archive, cap) * Room(cap)
  BY PositionBounds DEF ExtractInvAt, Position
<1>3. \A f : Start(f)' = Start(f)
  BY DEF Start
<1>4. Medium(cap)' /\ HeadOnMedium(cap)'
  BY DEF ExtractInvAt, Medium, HeadOnMedium
<1>5. CASE Eof
  <2>1. stage' = "done" /\ UNCHANGED <<want, out>>
    BY <1>5 DEF LoopTop
  <2>2. Base(cap)' = Base(cap)
    BY <1>2, <2>1 DEF Base
  <2>3. OutIsMedium(cap)'
    BY <2>1, <2>2 DEF ExtractInvAt, OutIsMedium
  <2>4. e = Len(archive) + 1
    <3>1. SUFFICES ASSUME e <= Len(archive) PROVE FALSE
      BY <1>1
    <3>2. e \in 1..Len(archive)
      BY <1>1, <3>1
    <3>3. /\ Start(e) \in Nat /\ archive[e].size \in Nat /\ PadOf(archive[e].size) \in Nat
          /\ Start(e + 1) = Start(e) + BS + archive[e].size + PadOf(archive[e].size)
          /\ Start(e + 1) <= Len(Stream(archive))
      BY <1>1, <3>2, Starts
    <3>4. Len(Stream(archive)) <= Position(cap) /\ Len(Stream(archive)) \in Nat
      BY <1>1, <1>2, <1>5, FilledUnits, StreamType
    <3>5. Position(cap) < Start(e + 1)
      <4>1. CASE Position(cap) = Start(e)
        <5> HIDE DEF Position, Start
        <5> QED
          BY <1>1, <3>3, <4>1
      <4>2. CASE PassingOver(e, Position(cap))
        <5>1. PICK k \in Nat \ {0} : Position(cap) + (k * BS) = Start(e + 1)
          BY <4>2 DEF PassingOver
        <5>2. k * BS \in Nat /\ k * BS >= BS
          BY <1>1, <5>1, ProductGrows
        <5> HIDE DEF Position, Start
        <5> QED
          BY <1>1, <1>2, <5>1, <5>2
      <4> QED
        BY <3>1, <4>1, <4>2 DEF LooksAt
    <3>6. Start(e + 1) \in Nat
      <4> DEFINE pad == PadOf(archive[e].size)
                 size == archive[e].size
      <4>1. /\ Start(e) \in Nat /\ size \in Nat /\ pad \in Nat
            /\ Start(e + 1) = Start(e) + BS + size + pad
        BY <3>3
      <4> HIDE DEF Start, pad, size
      <4> QED
        BY <1>1, <4>1
    <3> HIDE DEF Position, Start
    <3> QED
      BY <1>2, <3>3, <3>4, <3>5, <3>6
  <2>5. Done(Len(archive))'
    BY <1>1, <2>4
  <2>6. InStep(cap)'
    BY <2>1, <2>5 DEF InStep
  <2> QED
    BY <1>4, <2>3, <2>6 DEF ExtractInvAt
<1>6. CASE ~ Eof
  <2>1. stage' = "header" /\ want' = BS /\ out' = <<>>
    BY <1>6 DEF LoopTop, read
  <2>2. Base(cap)' = Position(cap) /\ Len(out') = 0
    BY <1>2, <2>1 DEF Base
  <2>3. OutIsMedium(cap)'
    <3>1. <<>> \in Seq(Unit)
      OBVIOUS
    <3> QED
      BY <1>1, <1>2, <2>1, <2>2, <3>1 DEF OutIsMedium
  <2>4. HeaderNext(cap)'
    <3>1. LooksAt(e, Base(cap))'
      BY <1>3, <2>2 DEF LooksAt, PassingOver
    <3> QED
      BY <1>1, <2>1, <2>2, <3>1 DEF HeaderNext
  <2>5. InStep(cap)'
    BY <2>1, <2>4 DEF InStep
  <2> QED
    BY <1>4, <2>3, <2>5 DEF ExtractInvAt
<1> QED
  BY <1>5, <1>6

(* What is passed over was dealt with; a header is looked for in the blocks  *)
(* that are left of it, and then at the next entry.                          *)
LEMMA DonePassed ==
  ASSUME NEW e \in 1..Len(archive), ~ archive[e].parses, Done(e - 1)
  PROVE  Done(e)
<1> SUFFICES ASSUME NamesApart, NEW f \in 1..e PROVE Holds(disk, f, e)
  BY KeptIsHeld DEF Done
<1>1. CASE f = e
  BY <1>1 DEF Holds, PlainFile
<1>2. CASE f # e
  <2>1. f \in 1..e-1 /\ \A n \in f+1..e-1 : n \in f+1..e
    BY <1>2
  <2>2. Holds(disk, f, e - 1)
    BY <2>1, KeptIsHeld DEF Done
  <2> QED
    BY <2>1, <2>2 DEF Holds
<1> QED
  BY <1>1, <1>2

LEMMA PassedOver ==
  ASSUME archive \in Seq(Entry),
         NEW e \in 1..Len(archive), ~ archive[e].parses, Done(e - 1),
         NEW x \in Nat, x > Start(e), NEW k \in Nat, x + (k * BS) = Start(e + 1)
  PROVE  \E f \in 1..Len(archive)+1 : Done(f - 1) /\ LooksAt(f, x)
<1>1. Len(archive) \in Nat /\ BS \in Nat
  BY BarAssumption
<1>2. CASE k = 0
  <2>1. x = Start(e + 1)
    <3> HIDE DEF Start
    <3> QED
      BY <1>1, <1>2
  <2>2. e + 1 \in 1..Len(archive)+1 /\ (e + 1) - 1 = e
    BY <1>1
  <2>3. LooksAt(e + 1, x)
    BY <2>1 DEF LooksAt
  <2> QED
    BY <2>2, <2>3, DonePassed
<1>3. CASE k # 0
  <2>1. LooksAt(e, x)
    BY <1>3 DEF LooksAt, PassingOver
  <2> QED
    BY <1>1, <2>1
<1> QED
  BY <1>2, <1>3

(* A block at the start of an entry is that entry's header, and taken for it *)
(* or refused; inside an entry that was refused and after the last there is  *)
(* none (parse_header).                                                      *)
LEMMA HeaderReadKeeps ==
  ASSUME NEW cap \in Caps, DiskInStep, ExtractInvAt(cap), HeaderRead
  PROVE  ExtractInvAt(cap)' /\ DiskInStep'
<1>1. /\ stage = "header" /\ ReadDone
      /\ UNCHANGED <<archive, vols, cur, pos, data, disk>>
  BY DEF HeaderRead
<1>2. PICK e \in 1..Len(archive)+1 :
        Done(e - 1) /\ LooksAt(e, Base(cap))
  BY <1>1 DEF ExtractInvAt, InStep, HeaderNext
<1>3. want + Len(out) = BS
  BY <1>1 DEF ExtractInvAt, InStep, HeaderNext
<1>4. archive \in Seq(Entry) /\ Len(archive) \in Nat /\ BS \in Nat /\ BS >= 1
      /\ DOMAIN archive = 1..Len(archive)
  BY MediumUnits DEF ExtractInvAt
<1>5. /\ want \in Nat /\ out \in Seq(Unit) /\ Base(cap) \in Nat /\ Len(out) \in Nat
      /\ \A m \in 1..Len(out) : out[m] = Filled(archive, cap)[Base(cap) + m]
  BY DEF ExtractInvAt, OutIsMedium
<1>6. DiskInStep' /\ Done(e - 1)' /\ (\A f : Start(f)' = Start(f)) /\ Position(cap)' = Position(cap)
  BY <1>1, <1>2, KeptStays DEF Position
<1>7. Medium(cap)' /\ HeadOnMedium(cap)'
  BY <1>1 DEF ExtractInvAt, Medium, HeadOnMedium
<1>8. Base(cap) = Position(cap) - Len(out) /\ Position(cap) \in Nat
  BY PositionBounds DEF ExtractInvAt, Base
<1>11. ASSUME parse_header(out) = {}, ~ (Len(out) < BS),
              NEW f \in 1..Len(archive)+1, Done(f - 1), LooksAt(f, Position(cap))
       PROVE  ExtractInvAt(cap)' /\ DiskInStep'
  <2>1. LoopTop
    BY <1>11 DEF HeaderRead
  <2>2. Done(f - 1)'
    BY <1>1, <1>11, KeptStays
  <2> QED
    BY <1>1, <1>6, <1>11, <2>1, <2>2, LoopTopKeeps
<1>9. CASE e <= Len(archive) /\ Base(cap) = Start(e)
  <2>1. e \in 1..Len(archive) /\ Base(cap) = Start(e) /\ e \in Nat
    BY <1>4, <1>9
  <2>2. /\ Start(e) \in Nat /\ archive[e].size \in Nat /\ PadOf(archive[e].size) \in Nat
        /\ Start(e + 1) = Start(e) + BS + archive[e].size + PadOf(archive[e].size)
        /\ Start(e + 1) <= Len(Stream(archive))
        /\ \A n \in 1..BS : Stream(archive)[Start(e) + n] = <<"head", e, n>>
    BY <1>4, <2>1, Starts
  <2>3. Base(cap) + BS <= Len(Stream(archive))
    <3>1. Len(Stream(archive)) \in Nat
      BY <1>4, StreamType
    <3> HIDE DEF Start, Base
    <3> QED
      BY <1>4, <2>1, <2>2, <3>1
  <2>4. /\ Len(out) = BS /\ Position(cap) = Base(cap) + BS
        /\ \A m \in 1..BS : out[m] = <<"head", e, m>>
    BY <1>1, <1>3, <1>4, <2>1, <2>2, <2>3, AllRead
  <2>5. out = HeaderOf(e)
    <3>1. DOMAIN out = 1..BS /\ out = [m \in DOMAIN out |-> out[m]]
      BY <1>5, <2>4
    <3> QED
      BY <2>4, <3>1 DEF HeaderOf
  <2>12. CASE archive[e].parses
    <3>6. parse_header(out) = {e}
      <4>1. ASSUME NEW f \in DOMAIN archive, out = HeaderOf(f) PROVE f = e
        <5>1. 1 \in 1..BS /\ HeaderOf(f)[1] = <<"head", f, 1>> /\ out[1] = <<"head", e, 1>>
          BY <1>4, <2>4 DEF HeaderOf
        <5>2. <<"head", f, 1>> = <<"head", e, 1>>
          BY <4>1, <5>1
        <5> QED
          BY <5>2
      <4> QED
        BY <1>4, <2>1, <2>5, <2>12, <4>1 DEF parse_header
    <3>7. /\ entry' = e /\ stage' = "data" /\ want' = archive[e].size /\ out' = <<>>
      <4>1. ~ (Len(out) < BS) /\ parse_header(out) # {}
        BY <1>4, <2>4, <3>6
      <4>2. (CHOOSE f \in parse_header(out) : TRUE) = e
        BY <3>6
      <4> QED
        BY <4>1, <4>2 DEF HeaderRead, read
    <3>8. Base(cap)' = Position(cap) /\ Len(out') = 0
      BY <1>6, <1>8, <3>7 DEF Base
    <3>9. OutIsMedium(cap)'
      <4>1. <<>> \in Seq(Unit)
        OBVIOUS
      <4> QED
        BY <1>8, <2>2, <3>7, <3>8, <4>1 DEF OutIsMedium
    <3>10. DataNext(cap)'
      BY <1>1, <1>6, <2>1, <2>2, <2>4, <3>7, <3>8, <2>12 DEF DataNext, Asked
    <3>11. InStep(cap)'
      BY <3>7, <3>10 DEF InStep
    <3> QED
        BY <1>6, <1>7, <3>9, <3>11 DEF ExtractInvAt
  <2>13. CASE ~ archive[e].parses
    <3>1. ASSUME NEW f \in DOMAIN archive, archive[f].parses, out = HeaderOf(f) PROVE FALSE
      <4>1. 1 \in 1..BS /\ HeaderOf(f)[1] = <<"head", f, 1>> /\ out[1] = <<"head", e, 1>>
        BY <1>4, <2>4 DEF HeaderOf
      <4>2. <<"head", f, 1>> = <<"head", e, 1>>
        BY <3>1, <4>1
      <4> QED
        BY <2>13, <3>1, <4>2
    <3>2. parse_header(out) = {}
      BY <3>1 DEF parse_header
    <3>3. PICK k \in Nat : archive[e].size + PadOf(archive[e].size) = k * BS
      BY <2>2, WholeBlocks
    <3>4. Position(cap) + (k * BS) = Start(e + 1) /\ Position(cap) > Start(e)
      <4> DEFINE pad == PadOf(archive[e].size)
                 size == archive[e].size
      <4>1. /\ Start(e) \in Nat /\ size \in Nat /\ pad \in Nat /\ size + pad = k * BS
            /\ Start(e + 1) = Start(e) + BS + size + pad
            /\ Position(cap) = Start(e) + BS
        BY <2>1, <2>2, <2>4, <3>3
      <4> HIDE DEF Start, Position, Base, pad, size
      <4>2. Start(e + 1) = (Start(e) + BS) + (size + pad)
        BY <1>4, <4>1
      <4> QED
        BY <1>4, <4>1, <4>2
    <3>5. PICK f \in 1..Len(archive)+1 : Done(f - 1) /\ LooksAt(f, Position(cap))
      BY <1>2, <1>4, <1>8, <2>1, <2>13, <3>4, PassedOver
    <3> QED
      BY <1>4, <1>11, <2>4, <3>2, <3>5
  <2> QED
    BY <2>12, <2>13
<1>12. CASE e <= Len(archive) /\ PassingOver(e, Base(cap))
  <2>1. e \in 1..Len(archive) /\ e \in Nat /\ ~ archive[e].parses /\ Base(cap) > Start(e)
    BY <1>4, <1>12 DEF PassingOver
  <2>2. PICK k \in Nat \ {0} : Base(cap) + (k * BS) = Start(e + 1)
    BY <1>12 DEF PassingOver
  <2> DEFINE left == (k - 1) * BS
  <2>3. k - 1 \in Nat /\ left \in Nat /\ Base(cap) + left + BS = Start(e + 1)
    <3>1. k - 1 \in Nat /\ k * BS \in Nat /\ left \in Nat /\ k * BS = left + BS
      BY <1>4, <2>2
    <3> DEFINE whole == k * BS
    <3>2. whole \in Nat /\ whole = left + BS /\ Base(cap) + whole = Start(e + 1)
      BY <2>2, <3>1
    <3> HIDE DEF Start, Base, left, whole
    <3> QED
      BY <1>4, <1>5, <3>1, <3>2
  <2> HIDE DEF left
  <2> DEFINE sz == archive[e].size
             pad == PadOf(sz)
  <2>4. /\ Start(e) \in Nat /\ sz \in Nat /\ pad \in Nat /\ pad < BS
        /\ Start(e + 1) = Start(e) + BS + sz + pad
        /\ Start(e + 1) <= Len(Stream(archive)) /\ Len(Stream(archive)) \in Nat
        /\ \A n \in 1..BS : Stream(archive)[Start(e) + n] = <<"head", e, n>>
        /\ \A n \in 1..sz : Stream(archive)[Start(e) + BS + n] = <<"data", e, n>>
    <3>1. /\ Start(e) \in Nat /\ sz \in Nat /\ pad \in Nat
          /\ Start(e + 1) = Start(e) + BS + sz + pad
          /\ Start(e + 1) <= Len(Stream(archive))
          /\ \A n \in 1..BS : Stream(archive)[Start(e) + n] = <<"head", e, n>>
          /\ \A n \in 1..sz : Stream(archive)[Start(e) + BS + n] = <<"data", e, n>>
      BY <1>4, <2>1, Starts
    <3>2. pad < BS
      BY <3>1, WholeBlocks
    <3>3. Len(Stream(archive)) \in Nat
      BY <1>4, StreamType
    <3> QED
      BY <3>1, <3>2, <3>3
  <2> HIDE DEF sz, pad
  <2> DEFINE from == Start(e)
             to == Start(e + 1)
             at == Base(cap)
             total == Len(Stream(archive))
  <2>a. /\ BS \in Nat /\ BS >= 1 /\ sz \in Nat /\ pad \in Nat /\ pad < BS
        /\ from \in Nat /\ total \in Nat /\ at \in Nat /\ left \in Nat
        /\ to = from + BS + sz + pad /\ to <= total /\ at > from /\ at + left + BS = to
    BY <1>4, <1>5, <2>1, <2>3, <2>4
  <2>5. Base(cap) + BS <= Len(Stream(archive))
    <3>1. at + BS <= total
      <4> HIDE DEF from, to, at, total
      <4> QED
        BY <2>a
    <3> QED
      BY <3>1
  <2>6. /\ Len(out) = BS /\ Position(cap) = Base(cap) + BS
        /\ \A m \in 1..BS : out[m] = Stream(archive)[Base(cap) + m]
    BY <1>1, <1>3, <1>4, <2>5, AllRead
  <2>7. ASSUME NEW f \in DOMAIN archive, archive[f].parses, out = HeaderOf(f) PROVE FALSE
    <3>1. out[1] = <<"head", f, 1>> /\ out[1] = Stream(archive)[Base(cap) + 1]
      BY <1>4, <2>6, <2>7 DEF HeaderOf
    <3> DEFINE n == Base(cap) - Start(e)
    <3>2. n + 1 \in 1..BS \/ (n + 1) - BS \in 1..sz
      <4>1. at - from + 1 \in 1..BS \/ (at - from + 1) - BS \in 1..sz
        <5> HIDE DEF from, to, at, total
        <5>1. at + left < from + BS + sz
          BY <2>a
        <5> QED
          BY <2>a, <5>1
      <4> QED
        BY <4>1
    <3>3. CASE n + 1 \in 1..BS
      <4>1. Stream(archive)[Start(e) + (n + 1)] = <<"head", e, n + 1>>
        BY <2>4, <3>3
      <4>2. Start(e) + (n + 1) = Base(cap) + 1
        <5> HIDE DEF Start, Base
        <5> QED
          BY <1>5, <2>4
      <4>3. <<"head", e, n + 1>> = <<"head", f, 1>>
        BY <3>1, <4>1, <4>2
      <4>4. f = e
        BY <4>3
      <4> QED
        BY <2>1, <2>7, <4>4
    <3>4. CASE (n + 1) - BS \in 1..sz
      <4>1. Stream(archive)[Start(e) + BS + ((n + 1) - BS)] = <<"data", e, (n + 1) - BS>>
        BY <2>4, <3>4
      <4>2. Start(e) + BS + ((n + 1) - BS) = Base(cap) + 1
        <5> HIDE DEF Start, Base
        <5> QED
          BY <1>4, <1>5, <2>4
      <4>3. <<"data", e, (n + 1) - BS>> = <<"head", f, 1>>
        BY <3>1, <4>1, <4>2
      <4>4. <<"data", e, (n + 1) - BS>>[1] = <<"head", f, 1>>[1]
        BY <4>3
      <4> QED
        BY <4>4
    <3> QED
      BY <3>2, <3>3, <3>4
  <2>8. parse_header(out) = {}
    BY <2>7 DEF parse_header
  <2>9. Position(cap) + ((k - 1) * BS) = Start(e + 1) /\ Position(cap) > Start(e)
    <3>1. Position(cap) + left = Start(e + 1) /\ Position(cap) > Start(e)
      <4>1. (at + BS) + left = to /\ at + BS > from
        <5> HIDE DEF from, to, at, total
        <5> QED
          BY <2>a
      <4> QED
        BY <2>6, <4>1
    <3> QED
      BY <3>1 DEF left
  <2>10. PICK f \in 1..Len(archive)+1 : Done(f - 1) /\ LooksAt(f, Position(cap))
    BY <1>2, <1>4, <1>8, <2>1, <2>3, <2>9, PassedOver
  <2> QED
    BY <1>4, <1>11, <2>6, <2>8, <2>10
<1>10. CASE ~ (e <= Len(archive))
  <2>1. e = Len(archive) + 1 /\ Base(cap) >= Len(Stream(archive))
    BY <1>2, <1>4, <1>10, Starts DEF LooksAt
  <2>2. Done(Len(archive))'
    <3>1. e - 1 = Len(archive)
      BY <1>4, <2>1
    <3> QED
      BY <1>1, <1>6, <3>1
  <2>3. CASE Len(out) < BS
    <3>1. stage' = "done" /\ UNCHANGED <<want, out, entry>>
      BY <2>3 DEF HeaderRead
    <3>2. Base(cap)' = Base(cap)
      BY <1>6, <3>1 DEF Base
    <3>3. OutIsMedium(cap)'
      BY <1>1, <1>5, <3>1, <3>2 DEF OutIsMedium
    <3>4. InStep(cap)'
      BY <1>1, <2>2, <3>1 DEF InStep
    <3> QED
      BY <1>6, <1>7, <3>3, <3>4 DEF ExtractInvAt
  <2>4. CASE ~ (Len(out) < BS)
    <3>1. out[1] = <<"zero">>
      <4>1. /\ Base(cap) + 1 <= Position(cap) /\ 1 \in 1..Len(out)
        BY <1>4, <1>5, <1>8, <2>4
      <4>2. /\ Position(cap) <= Count(archive, cap) * Room(cap)
            /\ Count(archive, cap) * Room(cap) \in Nat
        BY PositionBounds DEF ExtractInvAt
      <4>3. /\ Len(Stream(archive)) \in Nat
            /\ \A n \in Len(Stream(archive))+1..Count(archive, cap) * Room(cap) :
                 Filled(archive, cap)[n] = <<"zero">>
        BY <1>4, FilledUnits, StreamType
      <4>4. Base(cap) + 1 \in Len(Stream(archive))+1..Count(archive, cap) * Room(cap)
        <5> DEFINE top == Count(archive, cap) * Room(cap)
                   s == Len(Stream(archive))
        <5>1. top \in Nat /\ s \in Nat /\ Position(cap) <= top /\ Base(cap) >= s
          BY <2>1, <4>2, <4>3
        <5> HIDE DEF top, s, Position, Base
        <5>2. Base(cap) + 1 \in s+1..top
          BY <1>5, <1>8, <4>1, <5>1
        <5> QED
          BY <5>2 DEF top, s
      <4> QED
        BY <1>5, <4>1, <4>3, <4>4
    <3>2. parse_header(out) = {}
      <4>1. ASSUME NEW f \in DOMAIN archive, out = HeaderOf(f) PROVE FALSE
        <5>1. out[1] = <<"head", f, 1>>
          BY <1>4, <4>1 DEF HeaderOf
        <5>2. <<"zero">>[1] = <<"head", f, 1>>[1]
          BY <3>1, <5>1
        <5> QED
          BY <5>2
      <4> QED
        BY <4>1 DEF parse_header
    <3>3. LooksAt(e, Position(cap))
      <4>1. Base(cap) >= Start(e) /\ Start(e) \in Nat
        BY <1>2, <1>4, <1>10, <2>1, Starts, StreamType DEF LooksAt
      <4>2. Position(cap) >= Start(e)
        <5> HIDE DEF Start, Position, Base
        <5> QED
          BY <1>5, <1>8, <4>1
      <4> QED
        BY <1>10, <4>2 DEF LooksAt
    <3> QED
      BY <1>2, <1>11, <2>4, <3>2, <3>3
  <2> QED
    BY <2>3, <2>4
<1> QED
  BY <1>2, <1>9, <1>10, <1>12 DEF LooksAt

(* The data read is the entry's.                                             *)
LEMMA DataReadKeeps ==
  ASSUME NEW cap \in Caps, DiskInStep, ExtractInvAt(cap), DataRead
  PROVE  ExtractInvAt(cap)' /\ DiskInStep'
<1>1. /\ stage = "data" /\ ReadDone
      /\ data' = out /\ stage' = "pad" /\ want' = PadOf(archive[entry].size) /\ out' = <<>>
      /\ UNCHANGED <<archive, vols, cur, pos, entry, disk>>
  BY DEF DataRead, read
<1>2. /\ entry \in 1..Len(archive) /\ archive[entry].parses /\ Done(entry - 1)
      /\ want + Len(out) = archive[entry].size /\ Base(cap) = Start(entry) + BS
  BY <1>1 DEF ExtractInvAt, InStep, DataNext, Asked
<1>3. archive \in Seq(Entry) /\ archive \in Seq(Entries) /\ BS \in Nat
  BY MediumUnits DEF ExtractInvAt
<1>4. /\ Start(entry) \in Nat /\ archive[entry].size \in Nat
      /\ PadOf(archive[entry].size) \in Nat
      /\ Start(entry + 1) = Start(entry) + BS + archive[entry].size + PadOf(archive[entry].size)
      /\ Start(entry + 1) <= Len(Stream(archive))
      /\ \A n \in 1..archive[entry].size :
           Stream(archive)[Start(entry) + BS + n] = <<"data", entry, n>>
  BY <1>2, <1>3, Starts
<1>5. Base(cap) + archive[entry].size <= Len(Stream(archive))
  <2>1. Len(Stream(archive)) \in Nat
    BY <1>3, StreamType
  <2> HIDE DEF Start, Base
  <2> QED
    BY <1>2, <1>3, <1>4, <2>1
<1>6. /\ Len(out) = archive[entry].size /\ Position(cap) = Base(cap) + archive[entry].size
      /\ \A m \in 1..archive[entry].size : out[m] = <<"data", entry, m>>
  BY <1>1, <1>2, <1>4, <1>5, AllRead
<1>7. out = Body(entry)
  <2>1. out \in Seq(Unit)
    BY DEF ExtractInvAt, OutIsMedium
  <2>2. DOMAIN out = 1..archive[entry].size /\ out = [m \in DOMAIN out |-> out[m]]
    BY <1>6, <2>1
  <2> QED
    BY <1>6, <2>2 DEF Body, Content
<1>8. DiskInStep' /\ Done(entry - 1)' /\ (\A e : Start(e)' = Start(e) /\ Body(e)' = Body(e))
  BY <1>1, <1>2, KeptStays
<1>9. Position(cap)' = Position(cap) /\ Position(cap) \in Nat
  BY <1>1, PositionBounds DEF Position, ExtractInvAt
<1>10. Base(cap)' = Position(cap) /\ Len(out') = 0
  BY <1>1, <1>9 DEF Base
<1>11. Medium(cap)' /\ HeadOnMedium(cap)'
  BY <1>1 DEF ExtractInvAt, Medium, HeadOnMedium
<1>12. OutIsMedium(cap)'
  <2>1. <<>> \in Seq(Unit)
    OBVIOUS
  <2> QED
    BY <1>1, <1>4, <1>9, <1>10, <2>1 DEF OutIsMedium
<1>13. PadNext(cap)'
  BY <1>1, <1>2, <1>4, <1>6, <1>7, <1>8, <1>10 DEF PadNext, Asked
<1>14. InStep(cap)'
  BY <1>1, <1>13 DEF InStep
<1> QED
  BY <1>8, <1>11, <1>12, <1>14 DEF ExtractInvAt

(* When the padding is read, the reader is where the next entry starts.      *)
LEMMA AfterEntry ==
  ASSUME NEW cap \in Caps, ExtractInvAt(cap), stage = "pad", ReadDone
  PROVE  /\ entry \in 1..Len(archive) /\ Done(entry - 1) /\ data = Body(entry)
         /\ entry + 1 \in 1..Len(archive)+1
         /\ archive[entry].parses /\ LooksAt(entry + 1, Position(cap))
<1>1. /\ entry \in 1..Len(archive) /\ archive[entry].parses /\ Done(entry - 1) /\ data = Body(entry)
      /\ want + Len(out) = PadOf(archive[entry].size)
      /\ Base(cap) = Start(entry) + BS + archive[entry].size
  BY DEF ExtractInvAt, InStep, PadNext, Asked
<1>2. archive \in Seq(Entry) /\ Len(archive) \in Nat /\ BS \in Nat
  BY MediumUnits DEF ExtractInvAt
<1>3. /\ Start(entry) \in Nat /\ archive[entry].size \in Nat
      /\ PadOf(archive[entry].size) \in Nat
      /\ Start(entry + 1) = Start(entry) + BS + archive[entry].size + PadOf(archive[entry].size)
      /\ Start(entry + 1) <= Len(Stream(archive))
  BY <1>1, <1>2, Starts
<1>4. Base(cap) + PadOf(archive[entry].size) = Start(entry + 1)
  <2> HIDE DEF Start, Base
  <2> QED
    BY <1>1, <1>2, <1>3
<1>5. Position(cap) = Start(entry + 1)
  BY <1>1, <1>3, <1>4, AllRead
<1>6. Start(entry + 1) \in Nat /\ entry + 1 \in 1..Len(archive)+1
  <2>1. Start(entry + 1) \in Nat
    <3> DEFINE pad == PadOf(archive[entry].size)
               size == archive[entry].size
    <3>1. /\ Start(entry) \in Nat /\ size \in Nat /\ pad \in Nat
          /\ Start(entry + 1) = Start(entry) + BS + size + pad
      BY <1>3
    <3> HIDE DEF Start, pad, size
    <3> QED
      BY <1>2, <3>1
  <2>2. entry + 1 \in 1..Len(archive)+1
    BY <1>1, <1>2
  <2> QED
    BY <2>1, <2>2
<1> QED
  BY <1>1, <1>2, <1>5, <1>6 DEF LooksAt

(* A directory, or an empty file, is made and never refused.                 *)
LEMMA StoreDirectoryKeeps ==
  ASSUME NEW cap \in Caps, DiskInStep, ExtractInvAt(cap), StoreDirectory
  PROVE  ExtractInvAt(cap)' /\ DiskInStep'
<1> DEFINE p == Rel(archive[entry].name)
           x == ensure_dir(disk, p)
<1>1. /\ stage = "pad" /\ ReadDone /\ MakesDirectory(archive[entry])
      /\ IF InTheWay(disk, p) THEN Raise ELSE disk' = x /\ LoopTop
      /\ UNCHANGED <<archive, vols, cur, pos, entry, data>>
  BY DEF StoreDirectory
<1>2. /\ entry \in 1..Len(archive) /\ Done(entry - 1)
      /\ entry + 1 \in 1..Len(archive)+1
      /\ archive[entry].parses /\ LooksAt(entry + 1, Position(cap))
  BY <1>1, AfterEntry
<1>3. archive \in Seq(Entries)
  BY MediumUnits DEF ExtractInvAt
<1>4. archive[entry] \in Entries
  BY <1>2, <1>3, EntryPaths
<1>5. p \in Steps(p) /\ Steps(p) \subseteq Paths
  BY <1>4, StepsArePaths
<1>6. Sound(disk) /\ disk \in [Places -> Value]
  BY DiskInStepIsSound DEF Sound
<1> HIDE DEF p
<1>7. ~ InTheWay(disk, p) /\ x[At(p)] = Directory
  BY <1>5, <1>6, EnsureDirPlaces
<1>8. Sound(x)
  BY <1>5, <1>6, EnsureDirSound
<1>9. disk' = x /\ LoopTop
  BY <1>1, <1>7
<1> HIDE DEF x
<1>10. DiskInStep'
  <2>1. Sound(disk')
    BY <1>8, <1>9
  <2> QED
    BY <1>1, <2>1, SoundIsInStepNext
<1>11. Done(entry)'
  <2> SUFFICES ASSUME NamesApart PROVE Kept(entry)'
    BY <1>1 DEF Done
  <2>1. \A e \in 1..entry-1 : Holds(disk, e, entry - 1)
    BY <1>2, KeptIsHeld DEF Done
  <2>2. ASSUME NEW e \in 1..entry-1 PROVE Holds(x, e, entry)
    <3>1. e \in 1..Len(archive)
      BY <1>2
    <3>2. Holds(x, e, entry - 1)
      BY <1>3, <1>5, <1>6, <2>1, <3>1, EnsureDirHolds DEF x
    <3>3. \A n \in e+1..entry-1 : n \in e+1..entry
      BY <1>2
    <3> QED
      BY <3>2, <3>3 DEF Holds
  <2>3. Holds(x, entry, entry)
    BY <1>1, <1>7 DEF Holds, PlainFile, p
  <2>4. \A e \in 1..entry : e \in 1..entry-1 \/ e = entry
    BY <1>2
  <2>5. \A e \in 1..entry : Holds(x, e, entry)
    BY <2>2, <2>3, <2>4
  <2> QED
    BY <1>1, <1>9, <2>5 DEF Kept, Holds, FileOf, Body
<1>12. Done((entry + 1) - 1)'
  <2>1. (entry + 1) - 1 = entry
    BY <1>2
  <2> QED
    BY <1>1, <1>11, <2>1
<1>13. ExtractInvAt(cap)'
  BY <1>1, <1>2, <1>9, <1>12, LoopTopKeeps
<1> QED
  BY <1>10, <1>13

(* A file is stored as it was archived and never refused.                    *)
LEMMA StoreFileKeeps ==
  ASSUME NEW cap \in Caps, DiskInStep, ExtractInvAt(cap), StoreFile
  PROVE  ExtractInvAt(cap)' /\ DiskInStep'
<1> DEFINE p == Rel(archive[entry].name)
           d == ensure_dir(disk, Front(p))
           bad == Magic(data) /\ ~ GzipAccepts(data)
           b == IF bad THEN {".Z"} ELSE {}
           l == <<p, Suffix(d, p) \cup b>>
           x == [d EXCEPT ![l] = [data |-> data, unpacked |-> Magic(data) /\ ~ bad]]
<1>1. /\ stage = "pad" /\ ReadDone /\ ~ MakesDirectory(archive[entry])
      /\ IF InTheWay(disk, Front(p)) \/ ~ Opens(d, l) THEN Raise ELSE disk' = x /\ LoopTop
      /\ UNCHANGED <<archive, vols, cur, pos, entry, data>>
  BY DEF StoreFile
<1>2. /\ entry \in 1..Len(archive) /\ Done(entry - 1) /\ data = Body(entry)
      /\ entry + 1 \in 1..Len(archive)+1
      /\ archive[entry].parses /\ LooksAt(entry + 1, Position(cap))
  BY <1>1, AfterEntry
<1>3. archive \in Seq(Entries)
  BY MediumUnits DEF ExtractInvAt
<1>4. archive[entry] \in Entries
  BY <1>2, <1>3, EntryPaths
<1>5. Steps(Front(p)) \subseteq Paths
  BY <1>4, StepsArePaths
<1>6. Sound(disk) /\ disk \in [Places -> Value]
  BY DiskInStepIsSound DEF Sound
<1>7. ~ InTheWay(disk, Front(p))
  BY <1>5, <1>6, EnsureDirPlaces
<1>8. Sound(d)
  BY <1>5, <1>6, EnsureDirSound
<1>9. archive[entry].size # 0 /\ PlainFile(archive[entry])
  BY <1>1, <1>2 DEF MakesDirectory, PlainFile
<1>10. x = [d EXCEPT ![l] = FileOf(entry)]
  <2>1. [data |-> data, unpacked |-> Magic(data) /\ ~ bad] = FileOf(entry)
    BY <1>2, <1>3, <1>9, StoredIsFile
  <2> QED
    BY <2>1
<1>11. b \in SUBSET {".Z"}
  OBVIOUS
<1>12. l = <<Rel(archive[entry].name), Suffix(d, Rel(archive[entry].name)) \cup b>>
  OBVIOUS
<1> HIDE DEF x, b, l, d, bad, p
<1>13. Opens(d, l) /\ Sound(x)
  BY <1>2, <1>3, <1>8, <1>10, <1>11, <1>12, StoreSound
<1>14. disk' = x /\ LoopTop
  BY <1>1, <1>7, <1>13
<1>15. DiskInStep'
  <2>1. Sound(disk')
    BY <1>13, <1>14
  <2> QED
    BY <1>1, <2>1, SoundIsInStepNext
<1>16. Done(entry)'
  <2> SUFFICES ASSUME NamesApart PROVE Kept(entry)'
    BY <1>1 DEF Done
  <2>1. \A e \in 1..entry-1 : Holds(disk, e, entry - 1)
    BY <1>2, KeptIsHeld DEF Done
  <2>2. ASSUME NEW e \in 1..entry-1 PROVE Holds(d, e, entry - 1)
    <3>1. e \in 1..Len(archive)
      BY <1>2
    <3> QED
      BY <1>3, <1>5, <1>6, <2>1, <3>1, EnsureDirHolds DEF d
  <2>3. \A e \in 1..entry : Holds(x, e, entry)
    BY <1>2, <1>3, <1>8, <1>9, <1>10, <1>11, <1>12, <2>2, StoreHolds
  <2> QED
    BY <1>1, <1>14, <2>3 DEF Kept, Holds, FileOf, Body
<1>17. Done((entry + 1) - 1)'
  <2>1. (entry + 1) - 1 = entry
    BY <1>2
  <2> QED
    BY <1>1, <1>16, <2>1
<1>18. ExtractInvAt(cap)'
  BY <1>1, <1>2, <1>14, <1>17, LoopTopKeeps
<1> QED
  BY <1>15, <1>18
-----------------------------------------------------------------------------
(* The reader begins behind the first volume's header (VolumeSet.__init__).  *)
LEMMA InitHolds == Init => ExtractInv
<1> SUFFICES ASSUME Init PROVE ExtractInv
  OBVIOUS
<1>1. PICK cap \in Caps : vols = Volumes(archive, cap)
  BY DEF Init
<1>2. archive \in Seq(Entries)
  BY BarAssumption DEF Init, BoundedSeq, SeqOf
<1>3. Medium(cap)
  BY <1>1, <1>2 DEF Medium
<1>4. /\ archive \in Seq(Entry) /\ Len(archive) \in Nat /\ BS \in Nat /\ BS >= 1
      /\ Room(cap) \in Nat
  BY <1>3, MediumUnits
<1>5. Count(archive, cap) \in Nat /\ Count(archive, cap) >= 1
  BY <1>4, FilledUnits
<1>6. /\ cur = 0 /\ pos = BS /\ want = BS /\ out = <<>> /\ stage = "header"
      /\ disk = [l \in Places |-> NoEntry]
  BY DEF Init
<1>7. HeadOnMedium(cap)
  BY <1>4, <1>5, <1>6 DEF HeadOnMedium
<1>8. Position(cap) = 0 /\ Base(cap) = 0 /\ Len(out) = 0
  <2>1. Position(cap) = 0
    BY <1>4, <1>6 DEF Position
  <2>2. Len(out) = 0
    BY <1>6
  <2> HIDE DEF Position
  <2> QED
    BY <2>1, <2>2 DEF Base
<1>9. OutIsMedium(cap)
  <2>1. <<>> \in Seq(Unit)
    OBVIOUS
  <2> QED
    BY <1>4, <1>6, <1>8, <2>1 DEF OutIsMedium
<1>10. HeaderNext(cap)
  <2>1. Start(1) = 0
    BY <1>4, Starts
  <2>2. Done(1 - 1)
    BY DEF Done, Kept
  <2>3. 1 \in 1..Len(archive)+1
    BY <1>4
  <2>4. LooksAt(1, Base(cap))
    BY <1>8, <2>1 DEF LooksAt
  <2>5. want + Len(out) = BS
    BY <1>4, <1>6, <1>8
  <2> QED
    BY <2>2, <2>3, <2>4, <2>5 DEF HeaderNext
<1>11. InStep(cap)
  BY <1>6, <1>10 DEF InStep
<1>12. Sound(disk)
  <2>1. \A s \in Paths : <<s, {".file"}>> \in Places
    BY EndingFacts DEF Places
  <2> QED
    BY <1>6, <2>1, BarAssumption DEF Sound, Value, IsFile
<1> QED
  BY <1>3, <1>7, <1>9, <1>11, <1>12, DiskInStepIsSound DEF ExtractInv, ExtractInvAt

(* Every step of the extraction keeps the invariant.                         *)
LEMMA NextKeeps == ExtractInv /\ [Next]_vars => ExtractInv'
<1> SUFFICES ASSUME ExtractInv, [Next]_vars PROVE ExtractInv'
  OBVIOUS
<1>1. PICK cap \in Caps : ExtractInvAt(cap)
  BY DEF ExtractInv
<1>2. DiskInStep
  BY DEF ExtractInv
<1>3. CASE Advance
  BY <1>1, <1>2, <1>3, AdvanceKeeps DEF ExtractInv
<1>4. CASE Take
  BY <1>1, <1>2, <1>4, TakeKeeps DEF ExtractInv
<1>5. CASE HeaderRead
  BY <1>1, <1>2, <1>5, HeaderReadKeeps DEF ExtractInv
<1>6. CASE DataRead
  BY <1>1, <1>2, <1>6, DataReadKeeps DEF ExtractInv
<1>7. CASE StoreDirectory
  BY <1>1, <1>2, <1>7, StoreDirectoryKeeps DEF ExtractInv
<1>8. CASE StoreFile
  BY <1>1, <1>2, <1>8, StoreFileKeeps DEF ExtractInv
<1>9. CASE UNCHANGED vars
  <2>1. /\ UNCHANGED <<archive, vols, cur, pos, want, out>>
        /\ UNCHANGED <<stage, entry, data, disk>>
    BY <1>9 DEF vars
  <2>2. Base(cap)' = Base(cap) /\ want' + Len(out') = want + Len(out)
    BY <2>1 DEF Base, Position
  <2>3. Medium(cap)' /\ HeadOnMedium(cap)' /\ OutIsMedium(cap)'
    BY <1>1, <2>1, <2>2 DEF ExtractInvAt, Medium, HeadOnMedium, OutIsMedium
  <2>4. InStep(cap)' /\ DiskInStep'
    BY <1>1, <1>2, <2>1, <2>2, InStepStays, KeptStays DEF ExtractInvAt
  <2> QED
    BY <2>3, <2>4 DEF ExtractInv, ExtractInvAt
<1> QED
  BY <1>3, <1>4, <1>5, <1>6, <1>7, <1>8, <1>9 DEF Next

(* The inductive invariant of the extraction, for archives of any entries,   *)
(* blocks of any size and volumes of any capacity.                           *)
THEOREM Invariance == Spec => []ExtractInv
<1>1. Init => ExtractInv
  BY InitHolds
<1>2. ExtractInv /\ [Next]_vars => ExtractInv'
  BY NextKeeps
<1> QED
  BY <1>1, <1>2, PTL DEF Spec

(* Wherever an archive is cut into volumes, every file on the disk is a file *)
(* of the archive, whole and without a header or filler in it                *)
(* (VolumeSet.read).                                                         *)
THEOREM SeamsVanish == Spec => []SeamsInvisible
<1>1. ExtractInv => SeamsInvisible
  BY DEF ExtractInv, DiskInStep
<1> QED
  BY <1>1, Invariance, PTL

(* When the extraction ends, every directory of the archive is there and so  *)
(* is the last file of each name, whatever names come as both, as long as no *)
(* two names differ in the leading dot only (ensure_dir and the isdir test). *)
THEOREM EverythingKept == ASSUME NamesApart PROVE Spec => []NothingLost
<1>1. ExtractInv => NothingLost
  BY DEF ExtractInv, ExtractInvAt, InStep, Done, NothingLost
<1> QED
  BY <1>1, Invariance, PTL

(* No order of files and directories makes the extraction raise: no file is  *)
(* in the way of a directory once ensure_dir has moved it aside, and no      *)
(* directory where a file is opened.                                         *)
THEOREM NeverRaises == Spec => [](stage # "raised")
<1>1. ExtractInv => stage # "raised"
  BY DEF ExtractInv, ExtractInvAt, InStep
<1> QED
  BY <1>1, Invariance, PTL
=============================================================================
