---------------------------- MODULE FsUser_proofs ----------------------------
(****************************************************************************)
(* Theorems about the file system service, for any names, handles, offsets  *)
(* and bytes, on an archive of any kind: nothing that was acknowledged gets *)
(* lost, a handle reads back what it wrote, and the size and the directory  *)
(* entries that are answered are right.                                     *)
(****************************************************************************)
EXTENDS FsUser, FiniteSetTheorems, SequenceTheorems, TLAPS

Bytes == Seq(Nat)

-----------------------------------------------------------------------------
(* The bytes of a file. *)

LEMMA MaxOfTwo == \A a, b \in Nat : Max({a, b}) = IF a >= b THEN a ELSE b
<1> SUFFICES ASSUME NEW a \in Nat, NEW b \in Nat PROVE Max({a, b}) = IF a >= b THEN a ELSE b
  OBVIOUS
<1> DEFINE m == IF a >= b THEN a ELSE b
<1>1. m \in {a, b} /\ \A y \in {a, b} : m >= y
  OBVIOUS
<1>2. \A x \in {a, b} : (\A y \in {a, b} : x >= y) => x = m
  OBVIOUS
<1> HIDE DEF m
<1>3. Max({a, b}) = m
  BY <1>1, <1>2 DEF Max
<1> QED  BY <1>3 DEF m

LEMMA SameBytes ==
  ASSUME NEW c \in Bytes, NEW d \in Bytes, Len(c) = Len(d), \A k \in 1 .. Len(c) : c[k] = d[k]
  PROVE  c = d
BY DEF Bytes

(* What Put leaves in a file, byte by byte. *)
LEMMA PutIs ==
  ASSUME NEW c \in Bytes, NEW off \in Nat, NEW b \in Bytes
  PROVE  /\ Put(c, off, b) \in Bytes
         /\ Len(Put(c, off, b)) = IF Len(c) >= off + Len(b) THEN Len(c) ELSE off + Len(b)
         /\ \A k \in 1 .. Len(Put(c, off, b)) :
              Put(c, off, b)[k] = IF off < k /\ k <= off + Len(b) THEN b[k - off]
                                  ELSE IF k <= Len(c) THEN c[k] ELSE 0
<1> DEFINE n == IF Len(c) >= off + Len(b) THEN Len(c) ELSE off + Len(b)
           at(k) == IF off < k /\ k <= off + Len(b) THEN b[k - off]
                    ELSE IF k <= Len(c) THEN c[k] ELSE 0
<1>1. Len(c) \in Nat /\ Len(b) \in Nat /\ off + Len(b) \in Nat /\ n \in Nat
      /\ DOMAIN c = 1 .. Len(c) /\ DOMAIN b = 1 .. Len(b)
  BY DEF Bytes
<1>2. Max({Len(c), off + Len(b)}) = n
  BY <1>1, MaxOfTwo
<1>3. ASSUME NEW k \in 1 .. n
      PROVE  (IF k - off \in DOMAIN b THEN b[k - off] ELSE Byte(c, k)) = at(k)
  <2>1. k - off \in DOMAIN b <=> off < k /\ k <= off + Len(b)
    BY <1>1
  <2>2. k \in DOMAIN c <=> k <= Len(c)
    BY <1>1
  <2> QED  BY <2>1, <2>2 DEF Byte
<1>4. ASSUME NEW k \in 1 .. n PROVE at(k) \in Nat
  BY <1>1 DEF Bytes
<1> HIDE DEF n, at
<1>5. Put(c, off, b) = [k \in 1 .. n |-> at(k)]
  BY <1>2, <1>3 DEF Put
<1>6. [k \in 1 .. n |-> at(k)] \in Seq(Nat) /\ Len([k \in 1 .. n |-> at(k)]) = n
  BY <1>1, <1>4
<1>7. Put(c, off, b) \in Bytes /\ Len(Put(c, off, b)) = n
      /\ \A k \in 1 .. n : Put(c, off, b)[k] = at(k)
  BY <1>5, <1>6 DEF Bytes
<1> QED  BY <1>7 DEF n, at

(* What is put where it is already changes nothing. *)
LEMMA PutTwice ==
  ASSUME NEW d \in Bytes, NEW o \in Nat, NEW b \in Bytes, NEW p \in Nat, NEW e \in Bytes,
         NEW a \in Bytes, Put(d, p, e) = a, Put(a, o, b) = a
  PROVE  Put(Put(d, o, b), p, e) = a
<1> DEFINE x == Put(d, o, b)
           y == Put(x, p, e)
<1>1. /\ x \in Bytes /\ Len(x) = (IF Len(d) >= o + Len(b) THEN Len(d) ELSE o + Len(b))
      /\ \A k \in 1 .. Len(x) : x[k] = IF o < k /\ k <= o + Len(b) THEN b[k - o]
                                       ELSE IF k <= Len(d) THEN d[k] ELSE 0
  BY PutIs
<1>2. /\ Len(a) = (IF Len(d) >= p + Len(e) THEN Len(d) ELSE p + Len(e))
      /\ \A k \in 1 .. Len(a) : a[k] = IF p < k /\ k <= p + Len(e) THEN e[k - p]
                                       ELSE IF k <= Len(d) THEN d[k] ELSE 0
  BY PutIs
<1>3. /\ Len(a) = (IF Len(a) >= o + Len(b) THEN Len(a) ELSE o + Len(b))
      /\ \A k \in 1 .. Len(a) : a[k] = IF o < k /\ k <= o + Len(b) THEN b[k - o]
                                       ELSE IF k <= Len(a) THEN a[k] ELSE 0
  BY PutIs
<1> HIDE DEF x
<1>4. /\ y \in Bytes /\ Len(y) = (IF Len(x) >= p + Len(e) THEN Len(x) ELSE p + Len(e))
      /\ \A k \in 1 .. Len(y) : y[k] = IF p < k /\ k <= p + Len(e) THEN e[k - p]
                                       ELSE IF k <= Len(x) THEN x[k] ELSE 0
  BY <1>1, PutIs
<1> HIDE DEF y
<1>5. Len(d) \in Nat /\ Len(e) \in Nat /\ Len(b) \in Nat /\ Len(a) \in Nat
  BY DEF Bytes
<1>6. Len(y) = Len(a)
  <2>1. /\ Len(x) = IF Len(d) >= o + Len(b) THEN Len(d) ELSE o + Len(b)
        /\ Len(a) = IF Len(d) >= p + Len(e) THEN Len(d) ELSE p + Len(e)
        /\ Len(a) = IF Len(a) >= o + Len(b) THEN Len(a) ELSE o + Len(b)
        /\ Len(y) = IF Len(x) >= p + Len(e) THEN Len(x) ELSE p + Len(e)
    BY <1>1, <1>2, <1>3, <1>4
  <2>2. Len(a) >= o + Len(b) /\ Len(x) \in Nat
    BY <2>1, <1>5
  <2> QED  BY <2>1, <2>2, <1>5
<1>7. ASSUME NEW k \in 1 .. Len(a) PROVE y[k] = a[k]
  <2>1. CASE p < k /\ k <= p + Len(e)
    BY <2>1, <1>2, <1>4, <1>6
  <2>2. CASE ~ (p < k /\ k <= p + Len(e)) /\ o < k /\ k <= o + Len(b)
    <3>1. a[k] = b[k - o]
      BY <2>2, <1>3
    <3>2. k \in 1 .. Len(x) /\ k \in 1 .. Len(y) /\ k <= Len(x)
      BY <2>2, <1>1, <1>5, <1>6
    <3>3. y[k] = x[k] /\ x[k] = b[k - o]
      BY <2>2, <3>2, <1>1, <1>4
    <3> QED  BY <3>1, <3>3
  <2>3. CASE ~ (p < k /\ k <= p + Len(e)) /\ ~ (o < k /\ k <= o + Len(b))
    <3>1. a[k] = IF k <= Len(d) THEN d[k] ELSE 0
      BY <2>3, <1>2
    <3>2. y[k] = IF k <= Len(x) THEN x[k] ELSE 0
      BY <2>3, <1>4, <1>6
    <3>3. k <= Len(d) => k <= Len(x)
      BY <1>1, <1>5
    <3>4. k <= Len(x) => x[k] = IF k <= Len(d) THEN d[k] ELSE 0
      BY <2>3, <1>1
    <3> QED  BY <3>1, <3>2, <3>3, <3>4
  <2> QED  BY <2>1, <2>2, <2>3
<1> QED  BY <1>4, <1>6, <1>7, SameBytes DEF x, y

-----------------------------------------------------------------------------
(* What streams hold back of a file: d are its bytes, H the streams that    *)
(* hold some of s[h].pend at s[h].off, and c what the file comes to.        *)

Comes(d, H, s, c) ==
  /\ Len(d) <= Len(c)
  /\ \A h \in H : s[h].off + Len(s[h].pend) <= Len(c)
  /\ Len(c) = Len(d) \/ \E h \in H : Len(c) = s[h].off + Len(s[h].pend)
  /\ \A k \in 1 .. Len(c) :
       /\ \A h \in H : s[h].off < k /\ k <= s[h].off + Len(s[h].pend) => c[k] = s[h].pend[k - s[h].off]
       /\ (\A h \in H : ~ (s[h].off < k /\ k <= s[h].off + Len(s[h].pend))) =>
            c[k] = IF k <= Len(d) THEN d[k] ELSE 0

Holding(H, s) == \A h \in H : s[h].off \in Nat /\ s[h].pend \in Bytes

LEMMA NoneHolds ==
  ASSUME NEW d \in Bytes, NEW c \in Bytes, NEW s
  PROVE  Comes(d, {}, s, c) <=> d = c
<1>1. ASSUME Comes(d, {}, s, c) PROVE d = c
  <2>1. Len(c) = Len(d)
    BY <1>1 DEF Comes
  <2>2. \A k \in 1 .. Len(c) : c[k] = d[k]
    BY <1>1, <2>1 DEF Comes, Bytes
  <2> QED  BY <2>1, <2>2, SameBytes
<1>2. ASSUME d = c PROVE Comes(d, {}, s, c)
  BY <1>2 DEF Comes, Bytes
<1> QED  BY <1>1, <1>2

(* What one of them holds is in what the file comes to. *)
LEMMA HeldIsThere ==
  ASSUME NEW d \in Bytes, NEW H, NEW s, Holding(H, s), NEW c \in Bytes, Comes(d, H, s, c),
         NEW h \in H
  PROVE  Put(c, s[h].off, s[h].pend) = c
<1> DEFINE o == s[h].off
           b == s[h].pend
           x == Put(c, o, b)
<1>1. o \in Nat /\ b \in Bytes
  BY DEF Holding
<1>2. /\ o + Len(b) <= Len(c)
      /\ \A k \in 1 .. Len(c) : o < k /\ k <= o + Len(b) => c[k] = b[k - o]
  BY DEF Comes
<1> HIDE DEF o, b
<1>3. /\ x \in Bytes /\ Len(x) = (IF Len(c) >= o + Len(b) THEN Len(c) ELSE o + Len(b))
      /\ \A k \in 1 .. Len(x) : x[k] = IF o < k /\ k <= o + Len(b) THEN b[k - o]
                                       ELSE IF k <= Len(c) THEN c[k] ELSE 0
  BY <1>1, PutIs
<1> HIDE DEF x
<1>4. Len(x) = Len(c) /\ \A k \in 1 .. Len(c) : x[k] = c[k]
  BY <1>1, <1>2, <1>3 DEF Bytes
<1>5. x = c
  BY <1>3, <1>4, SameBytes
<1> QED  BY <1>5 DEF x, o, b

(* One of them passes on what it holds. *)
LEMMA PassOn ==
  ASSUME NEW d \in Bytes, NEW H, NEW s, Holding(H, s), NEW c \in Bytes, Comes(d, H, s, c),
         NEW h \in H
  PROVE  Comes(Put(d, s[h].off, s[h].pend), H \ {h}, s, c)
<1> DEFINE o == s[h].off
           b == s[h].pend
           x == Put(d, o, b)
           G == H \ {h}
<1>1. o \in Nat /\ b \in Bytes /\ Len(b) \in Nat /\ Len(c) \in Nat /\ Len(d) \in Nat
  BY DEF Holding, Bytes
<1>2. /\ o + Len(b) <= Len(c)
      /\ \A k \in 1 .. Len(c) : o < k /\ k <= o + Len(b) => c[k] = b[k - o]
  BY DEF Comes
<1>3. Len(c) = Len(d) \/ Len(c) = o + Len(b) \/ \E g \in G : Len(c) = s[g].off + Len(s[g].pend)
  BY DEF Comes
<1>4. ASSUME NEW k \in 1 .. Len(c), ~ (o < k /\ k <= o + Len(b)),
             \A g \in G : ~ (s[g].off < k /\ k <= s[g].off + Len(s[g].pend))
      PROVE  c[k] = IF k <= Len(d) THEN d[k] ELSE 0
  <2>1. \A g \in H : ~ (s[g].off < k /\ k <= s[g].off + Len(s[g].pend))
    BY <1>4
  <2> QED  BY <2>1 DEF Comes
<1>5. \A g \in G : s[g].off + Len(s[g].pend) <= Len(c)
  BY DEF Comes
<1>6. \A k \in 1 .. Len(c) : \A g \in G :
         s[g].off < k /\ k <= s[g].off + Len(s[g].pend) => c[k] = s[g].pend[k - s[g].off]
  BY DEF Comes
<1>7. Len(d) <= Len(c)
  BY DEF Comes
<1> HIDE DEF o, b, G
<1>8. /\ x \in Bytes /\ Len(x) = (IF Len(d) >= o + Len(b) THEN Len(d) ELSE o + Len(b))
      /\ \A k \in 1 .. Len(x) : x[k] = IF o < k /\ k <= o + Len(b) THEN b[k - o]
                                       ELSE IF k <= Len(d) THEN d[k] ELSE 0
  BY <1>1, PutIs
<1> HIDE DEF x
<1>9. Len(x) <= Len(c) /\ (Len(c) = Len(x) \/ \E g \in G : Len(c) = s[g].off + Len(s[g].pend))
  BY <1>1, <1>2, <1>3, <1>7, <1>8
<1>10. ASSUME NEW k \in 1 .. Len(c),
              \A g \in G : ~ (s[g].off < k /\ k <= s[g].off + Len(s[g].pend))
       PROVE  c[k] = IF k <= Len(x) THEN x[k] ELSE 0
  <2>1. CASE o < k /\ k <= o + Len(b)
    <3>1. k <= Len(x) /\ k \in 1 .. Len(x)
      BY <2>1, <1>1, <1>8
    <3> QED  BY <2>1, <3>1, <1>2, <1>8
  <2>2. CASE ~ (o < k /\ k <= o + Len(b))
    <3>1. c[k] = IF k <= Len(d) THEN d[k] ELSE 0
      BY <2>2, <1>10, <1>4
    <3>2. k <= Len(d) => k <= Len(x)
      BY <1>1, <1>8
    <3>3. k <= Len(x) => x[k] = IF k <= Len(d) THEN d[k] ELSE 0
      BY <2>2, <1>8
    <3> QED  BY <3>1, <3>2, <3>3
  <2> QED  BY <2>1, <2>2
<1>11. Comes(x, G, s, c)
  BY <1>5, <1>6, <1>9, <1>10, Zenon DEF Comes
<1> QED  BY <1>11 DEF x, o, b, G

(* The same streams hold the same. *)
LEMMA SameHeld ==
  ASSUME NEW d, NEW H, NEW s, NEW t, NEW c, Comes(d, H, s, c),
         \A h \in H : t[h].off = s[h].off /\ t[h].pend = s[h].pend
  PROVE  Comes(d, H, t, c)
BY DEF Comes

(* Bytes get into the file past what is held, in whose order nothing is lost *)
(* if nothing was held, or if what the file comes to does not change.        *)
LEMMA PutPast ==
  ASSUME NEW d \in Bytes, NEW H, NEW s, Holding(H, s), NEW a \in Bytes, Comes(d, H, s, a),
         NEW o \in Nat, NEW b \in Bytes, H = {} \/ Put(a, o, b) = a
  PROVE  Comes(Put(d, o, b), H, s, Put(a, o, b))
<1>1. CASE H = {}
  BY <1>1, NoneHolds, PutIs
<1>2. CASE Put(a, o, b) = a
  <2> DEFINE x == Put(d, o, b)
             y == Put(a, o, b)
  <2>1. /\ x \in Bytes /\ Len(x) = (IF Len(d) >= o + Len(b) THEN Len(d) ELSE o + Len(b))
        /\ \A k \in 1 .. Len(x) : x[k] = IF o < k /\ k <= o + Len(b) THEN b[k - o]
                                         ELSE IF k <= Len(d) THEN d[k] ELSE 0
    BY PutIs
  <2>2. /\ Len(y) = (IF Len(a) >= o + Len(b) THEN Len(a) ELSE o + Len(b))
        /\ \A k \in 1 .. Len(y) : y[k] = IF o < k /\ k <= o + Len(b) THEN b[k - o]
                                         ELSE IF k <= Len(a) THEN a[k] ELSE 0
    BY PutIs
  <2>3. y = a
    BY <1>2
  <2> HIDE DEF x, y
  <2>4. Len(d) \in Nat /\ Len(b) \in Nat /\ Len(a) \in Nat /\ Len(d) <= Len(a)
    BY DEF Bytes, Comes
  <2>5. /\ Len(x) = IF Len(d) >= o + Len(b) THEN Len(d) ELSE o + Len(b)
        /\ Len(a) = IF Len(a) >= o + Len(b) THEN Len(a) ELSE o + Len(b)
    BY <2>1, <2>2, <2>3
  <2>6. Len(x) <= Len(a) /\ (Len(a) = Len(d) => Len(a) = Len(x))
    BY <2>4, <2>5
  <2>7. Len(a) = Len(x) \/ \E h \in H : Len(a) = s[h].off + Len(s[h].pend)
    BY <2>6 DEF Comes
  <2>8. ASSUME NEW k \in 1 .. Len(a),
               \A h \in H : ~ (s[h].off < k /\ k <= s[h].off + Len(s[h].pend))
        PROVE  a[k] = IF k <= Len(x) THEN x[k] ELSE 0
    <3>1. a[k] = IF k <= Len(d) THEN d[k] ELSE 0
      BY <2>8 DEF Comes
    <3>2. CASE o < k /\ k <= o + Len(b)
      <4>1. k <= Len(x) /\ k \in 1 .. Len(x) /\ k \in 1 .. Len(y)
        BY <3>2, <2>3, <2>4, <2>5
      <4> QED  BY <3>2, <4>1, <2>1, <2>2, <2>3
    <3>3. CASE ~ (o < k /\ k <= o + Len(b))
      <4>1. k <= Len(d) => k <= Len(x)
        BY <2>4, <2>5
      <4>2. k <= Len(x) => x[k] = IF k <= Len(d) THEN d[k] ELSE 0
        BY <3>3, <2>1
      <4> QED  BY <3>1, <4>1, <4>2
    <3> QED  BY <3>2, <3>3
  <2>9. /\ \A h \in H : s[h].off + Len(s[h].pend) <= Len(a)
        /\ \A k \in 1 .. Len(a) : \A h \in H :
             s[h].off < k /\ k <= s[h].off + Len(s[h].pend) => a[k] = s[h].pend[k - s[h].off]
    BY DEF Comes
  <2>10. Comes(x, H, s, a)
    BY <2>6, <2>7, <2>8, <2>9, Zenon DEF Comes
  <2> QED  BY <2>3, <2>10 DEF x, y
<1> QED  BY <1>1, <1>2

(* The same when another stream holds the bytes back. *)
LEMMA HoldBack ==
  ASSUME NEW d \in Bytes, NEW H, NEW s, Holding(H, s), NEW a \in Bytes, Comes(d, H, s, a),
         NEW h, h \notin H, NEW t, t[h].off \in Nat, t[h].pend \in Bytes,
         \A g \in H : t[g].off = s[g].off /\ t[g].pend = s[g].pend,
         H = {} \/ Put(a, t[h].off, t[h].pend) = a
  PROVE  Comes(d, H \cup {h}, t, Put(a, t[h].off, t[h].pend))
<1> DEFINE o == t[h].off
           b == t[h].pend
           y == Put(a, o, b)
           G == H \cup {h}
           Over(g, k) == t[g].off < k /\ k <= t[g].off + Len(t[g].pend)
<1>1. Comes(d, H, t, a)
  BY SameHeld
<1>2. o \in Nat /\ b \in Bytes
  OBVIOUS
<1>3. /\ y \in Bytes /\ Len(y) = (IF Len(a) >= o + Len(b) THEN Len(a) ELSE o + Len(b))
      /\ \A k \in 1 .. Len(y) : y[k] = IF o < k /\ k <= o + Len(b) THEN b[k - o]
                                       ELSE IF k <= Len(a) THEN a[k] ELSE 0
  BY PutIs
<1>4. H = {} => d = a
  BY <1>1, NoneHolds
<1>5. H = {} \/ y = a
  OBVIOUS
<1>6. /\ Len(d) <= Len(a)
      /\ \A g \in H : t[g].off + Len(t[g].pend) <= Len(a)
      /\ Len(a) = Len(d) \/ \E g \in H : Len(a) = t[g].off + Len(t[g].pend)
      /\ \A k \in 1 .. Len(a) :
           /\ \A g \in H : Over(g, k) => a[k] = t[g].pend[k - t[g].off]
           /\ (\A g \in H : ~ Over(g, k)) => a[k] = IF k <= Len(d) THEN d[k] ELSE 0
  BY <1>1 DEF Comes
<1>7. Over(h, 0) \in BOOLEAN /\ \A k : Over(h, k) <=> o < k /\ k <= o + Len(b)
  OBVIOUS
<1>8. Len(d) \in Nat /\ Len(b) \in Nat /\ Len(a) \in Nat
  BY DEF Bytes
<1>9. h \in G /\ H \subseteq G /\ (\A g \in G : g \in H \/ g = h)
  OBVIOUS
<1>10. Len(a) <= Len(y) /\ o + Len(b) <= Len(y) /\ (Len(y) = Len(a) \/ Len(y) = o + Len(b))
  <2>1. Len(y) = IF Len(a) >= o + Len(b) THEN Len(a) ELSE o + Len(b)
    BY <1>3
  <2> QED  BY <2>1, <1>2, <1>8
<1>11. \A g \in G : t[g].off + Len(t[g].pend) <= Len(y)
  <2>1. ASSUME NEW g \in H PROVE t[g].off + Len(t[g].pend) <= Len(y)
    <3>1. t[g].off + Len(t[g].pend) <= Len(a) /\ t[g].off + Len(t[g].pend) \in Int
      BY <1>6 DEF Holding, Bytes
    <3>2. Len(y) \in Int
      BY <1>3 DEF Bytes
    <3> QED  BY <3>1, <3>2, <1>8, <1>10
  <2> QED  BY <2>1, <1>9, <1>10
<1>12. Len(d) <= Len(y) /\ Len(y) \in Nat
  BY <1>3, <1>6, <1>8, <1>10 DEF Bytes
<1>13. Len(y) = Len(d) \/ \E g \in G : Len(y) = t[g].off + Len(t[g].pend)
  <2>1. CASE Len(y) = o + Len(b)
    BY <2>1, <1>9
  <2>2. CASE Len(y) = Len(a)
    BY <2>2, <1>6, <1>9
  <2> QED  BY <2>1, <2>2, <1>10
<1> HIDE DEF y, o, b, G
<1>14. ASSUME NEW k \in 1 .. Len(y), NEW g \in G, Over(g, k)
       PROVE  y[k] = t[g].pend[k - t[g].off]
  <2>1. CASE g = h
    BY <2>1, <1>3, <1>7, <1>14 DEF o, b
  <2>2. CASE g \in H
    <3>1. y = a
      BY <2>2, <1>5
    <3> QED  BY <2>2, <3>1, <1>6, <1>14
  <2> QED  BY <2>1, <2>2, <1>9
<1>15. ASSUME NEW k \in 1 .. Len(y), \A g \in G : ~ Over(g, k)
       PROVE  y[k] = IF k <= Len(d) THEN d[k] ELSE 0
  <2>1. ~ (o < k /\ k <= o + Len(b)) /\ \A g \in H : ~ Over(g, k)
    BY <1>7, <1>9, <1>15
  <2>2. y[k] = IF k <= Len(a) THEN a[k] ELSE 0
    BY <2>1, <1>3
  <2>3. k <= Len(d) => k <= Len(a)
    BY <1>6, <1>8
  <2>4. k <= Len(a) => a[k] = IF k <= Len(d) THEN d[k] ELSE 0
    BY <2>1, <1>6
  <2> QED  BY <2>2, <2>3, <2>4
<1>16. Comes(d, G, t, y)
  BY <1>11, <1>12, <1>13, <1>14, <1>15, Zenon DEF Comes
<1> QED  BY <1>16 DEF y, o, b, G

-----------------------------------------------------------------------------
(* The invariant, as a relation of the files f and what the guest g knows,  *)
(* on an archive of kind k.                                                 *)

Stream == [ino : Inodes \cup {Absent}, mode : {"", "r", "rw", "w", "raw"}, sz : Nat,
           off : Nat, pend : Bytes, old : BOOLEAN]
EntryName == Names \cup {".", ".."}
DirStreams == [path : Paths \cup {"none"}, start : SUBSET EntryName, given : SUBSET EntryName]
Files == [tree : [Names \cup {Root} -> {Absent, Directory} \cup Inodes],
          data : [Inodes -> Bytes],
          open : [Handles -> Stream],
          dir : DirStreams,
          link : Handles \cup {NoHandle},
          up : BOOLEAN]

Holders(f, i) == {h \in Handles : f.open[h].ino = i /\ f.open[h].pend # <<>>}

(* When h has passed on what it holds, its file has the bytes c. *)
PassesOn(f, h, c) ==
  IF f.open[h].pend = <<>> THEN f.data[f.open[h].ino] = c
  ELSE Put(f.data[f.open[h].ino], f.open[h].off, f.open[h].pend) = c

(* A handle that nobody else has disturbed: c are the bytes acknowledged. *)
Sound(k, f, h, c) ==
  /\ PassesOn(f, h, c)
  /\ k = "SDMC" /\ f.open[h].mode = "rw" => f.open[h].sz = Len(c)
  /\ k = "SDMC" => f.open[h].mode # "w"

(* What it reads is not an old buffer. *)
Fresh(f, h) == f.open[h].mode = "w" \/ ~ f.open[h].old \/ f.open[h].pend # <<>>

Stores(k) == k \in WriteThrough \cup {"RomFS"}
Listed(k) == k \in {"SDMC", "SharedExtData"}
HasDirs(k) == k \in {"SDMC", "SaveData", "ExtData", "SharedExtData"}

Kept(k, f, g) ==
  /\ \A i \in Inodes \ Used(f) : f.data[i] = <<>> /\ g.acked[i] = <<>>
  /\ g.raced \subseteq Used(f)
  /\ \A i \in Inodes \ g.raced : Settles(f, i, g.acked[i])
  /\ Stores(k) => g.raced = {} /\ \A h \in Handles : f.open[h].pend = <<>>

Undisturbed(k, f, g) ==
  /\ \A h \in g.alone : /\ IsOpen(f, h) /\ f.open[h].ino \notin g.raced
                         /\ Sound(k, f, h, g.acked[f.open[h].ino])
  /\ \A h \in g.alone \ g.cut : Fresh(f, h)

RomStays(k, f, g) ==
  k = "RomFS" => /\ IsDir(f, Root) => g.acked[1] = RomImage /\ \E n \in Names : f.tree[n] = 1
                 /\ \A h \in Handles : IsOpen(f, h) => f.open[h].ino = 1 /\ IsDir(f, Root)

Listing(k, f, g) ==
  /\ f.dir # NoDir => HasDirs(k)
  /\ Listed(k) /\ f.dir = NoDir => g.given = {}
  /\ Listed(k) /\ g.exact => /\ f.dir # NoDir /\ g.given = f.dir.given
                             /\ f.dir.start = Entries(f, f.dir.path)
                             /\ f.dir.given \subseteq f.dir.start
                             /\ f.dir.path = Unsafe \/ IsDir(f, f.dir.path)

Guests == [acked : [Inodes -> Bytes], alone : SUBSET Handles, cut : SUBSET Handles,
           raced : SUBSET Inodes, exact : BOOLEAN, given : SUBSET EntryName]

Good(k, f, g) ==
  /\ f \in Files /\ g \in Guests
  /\ Kept(k, f, g) /\ Undisturbed(k, f, g) /\ RomStays(k, f, g) /\ Listing(k, f, g)

LEMMA HoldersHold == ASSUME NEW f \in Files, NEW i PROVE Holding(Holders(f, i), f.open)
BY DEF Files, Stream, Holders, Holding

LEMMA SettlesIs ==
  ASSUME NEW f \in Files, NEW i \in Inodes, NEW c \in Bytes
  PROVE  Settles(f, i, c) <=> Comes(f.data[i], Holders(f, i), f.open, c)
<1> DEFINE H == Holders(f, i)
           d == f.data[i]
           s == f.open
           Ends == {Len(d)} \cup {s[h].off + Len(s[h].pend) : h \in H}
           Covers(h, k) == k - s[h].off \in DOMAIN s[h].pend
           Over(h, k) == s[h].off < k /\ k <= s[h].off + Len(s[h].pend)
<1>1. Settles(f, i, c) <=>
        /\ Len(c) \in Ends /\ \A e \in Ends : e <= Len(c)
        /\ \A k \in DOMAIN c :
             /\ \A h \in H : Covers(h, k) => c[k] = s[h].pend[k - s[h].off]
             /\ (\A h \in H : ~ Covers(h, k)) => c[k] = Byte(d, k)
  BY DEF Settles, Holders
<1>2. Holding(H, s) /\ d \in Bytes
  BY HoldersHold DEF Files
<1> HIDE DEF H, s, d
<1>3. \A h \in H : \A k \in 1 .. Len(c) : Covers(h, k) <=> Over(h, k)
  <2>1. ASSUME NEW h \in H, NEW k \in 1 .. Len(c) PROVE Covers(h, k) <=> Over(h, k)
    <3>1. /\ DOMAIN s[h].pend = 1 .. Len(s[h].pend) /\ Len(s[h].pend) \in Nat /\ s[h].off \in Nat
          /\ Len(c) \in Nat
      BY <1>2 DEF Holding, Bytes
    <3> QED  BY <3>1
  <2> QED  BY <2>1
<1>4. DOMAIN c = 1 .. Len(c) /\ \A k \in 1 .. Len(c) : Byte(d, k) = IF k <= Len(d) THEN d[k] ELSE 0
  BY <1>2 DEF Byte, Bytes
<1>5. /\ Len(c) \in Ends <=> (Len(c) = Len(d) \/ \E h \in H : Len(c) = s[h].off + Len(s[h].pend))
      /\ (\A e \in Ends : e <= Len(c)) <=>
           (Len(d) <= Len(c) /\ \A h \in H : s[h].off + Len(s[h].pend) <= Len(c))
  OBVIOUS
<1>6. (\A k \in DOMAIN c :
         /\ \A h \in H : Covers(h, k) => c[k] = s[h].pend[k - s[h].off]
         /\ (\A h \in H : ~ Covers(h, k)) => c[k] = Byte(d, k))
      <=> \A k \in 1 .. Len(c) :
            /\ \A h \in H : Over(h, k) => c[k] = s[h].pend[k - s[h].off]
            /\ (\A h \in H : ~ Over(h, k)) => c[k] = IF k <= Len(d) THEN d[k] ELSE 0
  <2> HIDE DEF Covers, Over
  <2> QED  BY <1>3, <1>4
<1>7. Comes(d, H, s, c) <=>
        /\ Len(c) = Len(d) \/ \E h \in H : Len(c) = s[h].off + Len(s[h].pend)
        /\ Len(d) <= Len(c) /\ \A h \in H : s[h].off + Len(s[h].pend) <= Len(c)
        /\ \A k \in 1 .. Len(c) :
            /\ \A h \in H : Over(h, k) => c[k] = s[h].pend[k - s[h].off]
            /\ (\A h \in H : ~ Over(h, k)) => c[k] = IF k <= Len(d) THEN d[k] ELSE 0
  BY Zenon DEF Comes
<1> HIDE DEF Ends, Covers, Over
<1>8. Settles(f, i, c) <=> Comes(d, H, s, c)
  BY <1>1, <1>5, <1>6, <1>7, Zenon
<1> QED  BY <1>8 DEF d, H, s

-----------------------------------------------------------------------------
(* What every command sees to when it leads from the files f to n, so that  *)
(* what the guest learns from it is right.                                  *)

Tracks(k, f, n, g, by, acked, cut, torn) ==
  \A h \in Handles : IsOpen(n, h) /\ n.open[h].ino \notin g.raced \cup torn =>
    LET i == n.open[h].ino
    IN  /\ IsOpen(f, h) /\ h \in g.alone /\ (h = by \/ acked[i] = g.acked[i]) =>
             Sound(k, n, h, acked[i]) /\ (h \notin cut => Fresh(n, h))
        /\ ~ IsOpen(f, h) /\ acked[i] = n.data[i] => Sound(k, n, h, acked[i]) /\ Fresh(n, h)

MovesDir(k, f, n) ==
  \/ n.dir = f.dir
  \/ n.dir = NoDir
  \/ /\ f.dir = NoDir /\ HasDirs(k)
     /\ \E p \in Paths : n.dir = DirStream(n, p) /\ (p = Unsafe \/ IsDir(n, p))

Advances(k, f, n, g, by, acked, cut, torn) ==
  /\ n \in Files /\ acked \in [Inodes -> Bytes] /\ cut \subseteq Handles
  /\ \A i \in Inodes \ Used(n) : n.data[i] = <<>>
  /\ \A i \in Used(n) \ (g.raced \cup torn) :
       acked[i] = g.acked[i] \/ Holders(f, i) \subseteq {by} => Settles(n, i, acked[i])
  /\ Stores(k) => torn = {} /\ \A h \in Handles : n.open[h].pend = <<>>
  /\ Tracks(k, f, n, g, by, acked, cut, torn)
  /\ k = "RomFS" => /\ n.tree = f.tree /\ acked[1] = g.acked[1]
                    /\ \A h \in Handles : IsOpen(n, h) => n.open[h].ino = 1 /\ IsDir(n, Root)
  /\ MovesDir(k, f, n)

LEMMA SettledEmpty ==
  ASSUME NEW f \in Files, NEW i \in Inodes, i \notin Used(f), f.data[i] = <<>>
  PROVE  Settles(f, i, <<>>)
<1>1. Holders(f, i) = {}
  BY DEF Used, Holders
<1>2. <<>> \in Bytes
  BY DEF Bytes
<1>3. Comes(<<>>, {}, f.open, <<>>)
  BY <1>2, NoneHolds
<1> QED  BY <1>1, <1>2, <1>3, SettlesIs

LEMMA LearnsKeeps ==
  ASSUME Good(kind, fs, guest), NEW by, NEW n, NEW acked, NEW cut, NEW torn,
         Advances(kind, fs, n, guest, by, acked, cut, torn), Learns(by, n, acked, cut, torn)
  PROVE  Good(kind, n, guest')
<1> DEFINE raced == {i \in Used(n) : \/ i \in guest.raced \cup torn
                                     \/ /\ acked[i] # guest.acked[i]
                                        /\ \E h \in Handles \ {by} : Holds(h, i)}
           Alone(h) == /\ n.open[h].ino \notin raced
                       /\ IF IsOpen(fs, h)
                             THEN h \in guest.alone /\ (h = by \/ acked[n.open[h].ino] = guest.acked[n.open[h].ino])
                             ELSE acked[n.open[h].ino] = n.data[n.open[h].ino]
<1>1. /\ guest'.acked = [i \in Inodes |-> IF i \in Used(n) THEN acked[i] ELSE <<>>]
      /\ guest'.alone = {h \in Handles : IsOpen(n, h) /\ Alone(h)}
      /\ guest'.cut = {h \in cut : IsOpen(n, h)}
      /\ guest'.raced = raced
      /\ guest'.exact = IF fs.dir = NoDir THEN n.dir # NoDir
                        ELSE guest.exact /\ n.tree = fs.tree /\ n.dir # NoDir
      /\ guest'.given = IF n.tree = fs.tree /\ n.dir # NoDir THEN guest.given ELSE {}
      /\ DOMAIN guest' = {"acked", "alone", "cut", "raced", "exact", "given"}
  BY DEF Learns
<1>2. n \in Files /\ acked \in [Inodes -> Bytes] /\ cut \subseteq Handles
  BY DEF Advances
<1>3. Used(n) \subseteq Inodes /\ \A h \in Handles : IsOpen(n, h) => n.open[h].ino \in Used(n)
  BY <1>2 DEF Used, Files, Stream, IsOpen
<1>4. guest' \in Guests
  <2>1. <<>> \in Bytes
    BY DEF Bytes
  <2>2. guest'.acked \in [Inodes -> Bytes]
    BY <1>1, <1>2, <2>1
  <2>3. guest'.alone \subseteq Handles /\ guest'.cut \subseteq Handles
    BY <1>1, <1>2
  <2>4. guest'.raced \subseteq Inodes
    BY <1>1, <1>3
  <2>5. guest.exact \in BOOLEAN /\ guest.given \subseteq EntryName
    BY DEF Good, Guests
  <2>6. guest'.exact \in BOOLEAN
    BY <1>1, <2>5
  <2>7. guest'.given \subseteq EntryName
    BY <1>1, <2>5
  <2>8. guest' = [acked |-> guest'.acked, alone |-> guest'.alone, cut |-> guest'.cut,
                  raced |-> guest'.raced, exact |-> guest'.exact, given |-> guest'.given]
    BY DEF Learns
  <2> QED  BY <2>2, <2>3, <2>4, <2>6, <2>7, <2>8 DEF Guests
<1>5. \A i \in Used(n) : guest'.acked[i] = acked[i]
  BY <1>1, <1>3
<1>6. \A i \in Inodes \ Used(n) : n.data[i] = <<>> /\ guest'.acked[i] = <<>>
  BY <1>1 DEF Advances
<1>7. ASSUME NEW i \in Used(n) \ raced
      PROVE  i \notin guest.raced \cup torn /\ (acked[i] = guest.acked[i] \/ Holders(fs, i) \subseteq {by})
  <2>1. i \notin guest.raced \cup torn
    BY <1>7
  <2>2. ~ (acked[i] # guest.acked[i] /\ \E h \in Handles \ {by} : Holds(h, i))
    BY <1>7
  <2>3. \A h : h \in Holders(fs, i) => h \in Handles /\ Holds(h, i)
    BY DEF Holders, Holds
  <2> QED  BY <2>1, <2>2, <2>3
<1>8. ASSUME NEW i \in Inodes \ raced PROVE Settles(n, i, guest'.acked[i])
  <2>1. CASE i \in Used(n)
    <3>1. Settles(n, i, acked[i])
      BY <2>1, <1>7, <1>8 DEF Advances
    <3> QED  BY <2>1, <3>1, <1>5
  <2>2. CASE i \notin Used(n)
    BY <2>2, <1>2, <1>6, SettledEmpty
  <2> QED  BY <2>1, <2>2
<1>9. ASSUME Stores(kind)
      PROVE  raced = {} /\ \A h \in Handles : n.open[h].pend = <<>>
  <2>1. guest.raced = {} /\ \A h \in Handles : fs.open[h].pend = <<>>
    BY <1>9 DEF Good, Kept
  <2>2. torn = {} /\ \A h \in Handles : n.open[h].pend = <<>>
    BY <1>9 DEF Advances
  <2> QED  BY <2>1, <2>2 DEF Holds
<1>10. Kept(kind, n, guest')
  <2>1. raced \subseteq Used(n)
    OBVIOUS
  <2> HIDE DEF raced
  <2> QED  BY <2>1, <1>1, <1>6, <1>8, <1>9 DEF Kept
<1>11. ASSUME NEW h \in guest'.alone
       PROVE  /\ IsOpen(n, h) /\ n.open[h].ino \notin guest'.raced
              /\ Sound(kind, n, h, guest'.acked[n.open[h].ino])
              /\ h \notin guest'.cut => Fresh(n, h)
  <2> DEFINE i == n.open[h].ino
  <2>1. h \in Handles /\ IsOpen(n, h) /\ Alone(h)
    BY <1>1, <1>11
  <2>2. i \in Used(n) /\ i \notin raced
    BY <2>1, <1>3
  <2>3. i \notin guest.raced \cup torn /\ guest'.acked[i] = acked[i]
    BY <2>2, <1>5, <1>7
  <2>4. h \notin guest'.cut => h \notin cut
    BY <1>1, <2>1
  <2>5. Sound(kind, n, h, acked[i]) /\ (h \notin cut => Fresh(n, h))
    <3>1. Tracks(kind, fs, n, guest, by, acked, cut, torn)
      BY DEF Advances
    <3> HIDE DEF raced
    <3>2. CASE IsOpen(fs, h)
      BY <2>1, <2>3, <3>1, <3>2 DEF Tracks
    <3>3. CASE ~ IsOpen(fs, h)
      BY <2>1, <2>3, <3>1, <3>3 DEF Tracks
    <3> QED  BY <3>2, <3>3
  <2> HIDE DEF raced
  <2> QED  BY <2>1, <2>2, <2>3, <2>4, <2>5, <1>1
<1>12. Undisturbed(kind, n, guest')
  BY <1>11, Zenon DEF Undisturbed
<1>13. RomStays(kind, n, guest')
  <2> SUFFICES ASSUME kind = "RomFS"
               PROVE  /\ IsDir(n, Root) => guest'.acked[1] = RomImage /\ \E m \in Names : n.tree[m] = 1
                      /\ \A h \in Handles : IsOpen(n, h) => n.open[h].ino = 1 /\ IsDir(n, Root)
    BY DEF RomStays
  <2>1. /\ n.tree = fs.tree /\ acked[1] = guest.acked[1]
        /\ \A h \in Handles : IsOpen(n, h) => n.open[h].ino = 1 /\ IsDir(n, Root)
    BY DEF Advances
  <2>2. ASSUME IsDir(n, Root)
        PROVE  guest'.acked[1] = RomImage /\ \E m \in Names : n.tree[m] = 1
    <3>1. IsDir(fs, Root)
      BY <2>1, <2>2 DEF IsDir, At
    <3>2. guest.acked[1] = RomImage
      BY <3>1 DEF Good, RomStays
    <3>3. PICK m \in Names : fs.tree[m] = 1
      BY <3>1 DEF Good, RomStays
    <3>4. 1 \in Inodes
      BY <3>3 DEF Good, Files, Absent, Directory
    <3>5. 1 \in Used(n)
      BY <2>1, <3>3, <3>4 DEF Used
    <3> QED  BY <2>1, <3>2, <3>3, <3>5, <1>5
  <2> QED  BY <2>1, <2>2
<1>14. Listing(kind, n, guest')
  <2>1. MovesDir(kind, fs, n) /\ Listing(kind, fs, guest)
    BY DEF Advances, Good
  <2>2. CASE n.dir = NoDir
    BY <2>2, <1>1 DEF Listing
  <2>3. CASE n.dir # NoDir /\ n.dir = fs.dir
    <3>1. n.dir # NoDir => HasDirs(kind)
      BY <2>1, <2>3 DEF Listing
    <3>2. ASSUME Listed(kind), guest'.exact
          PROVE  /\ guest'.given = n.dir.given /\ n.dir.start = Entries(n, n.dir.path)
                 /\ n.dir.given \subseteq n.dir.start
                 /\ n.dir.path = Unsafe \/ IsDir(n, n.dir.path)
      <4>1. guest.exact /\ n.tree = fs.tree /\ guest'.given = guest.given
        BY <2>3, <3>2, <1>1
      <4>2. /\ guest.given = fs.dir.given /\ fs.dir.start = Entries(fs, fs.dir.path)
            /\ fs.dir.given \subseteq fs.dir.start
            /\ fs.dir.path = Unsafe \/ IsDir(fs, fs.dir.path)
        BY <2>1, <3>2, <4>1 DEF Listing
      <4>3. \A p : Entries(n, p) = Entries(fs, p) /\ (IsDir(n, p) <=> IsDir(fs, p))
        BY <4>1 DEF Entries, IsDir, At
      <4> QED  BY <2>3, <4>1, <4>2, <4>3
    <3> QED  BY <2>3, <3>1, <3>2 DEF Listing
  <2>4. CASE n.dir # NoDir /\ n.dir # fs.dir
    <3>1. PICK p \in Paths : n.dir = DirStream(n, p) /\ (p = Unsafe \/ IsDir(n, p))
      BY <2>1, <2>4 DEF MovesDir
    <3>2. fs.dir = NoDir /\ HasDirs(kind)
      BY <2>1, <2>4 DEF MovesDir
    <3>3. n.dir.path = p /\ n.dir.start = Entries(n, p) /\ n.dir.given = {}
      BY <3>1 DEF DirStream
    <3>4. Listed(kind) => guest'.given = {}
      BY <2>1, <3>2, <1>1 DEF Listing
    <3> QED  BY <2>4, <3>1, <3>2, <3>3, <3>4 DEF Listing
  <2> QED  BY <2>2, <2>3, <2>4
<1> QED  BY <1>2, <1>4, <1>10, <1>12, <1>13, <1>14 DEF Good

-----------------------------------------------------------------------------
(* The host's operations on one file. *)

SameStream(s, t) == s.ino = t.ino /\ s.mode = t.mode /\ s.sz = t.sz /\ s.off = t.off /\ s.pend = t.pend

SameNames(f, n) == n.tree = f.tree /\ n.dir = f.dir /\ n.link = f.link /\ n.up = f.up

StoredAs(f, n, h, i, c) ==
  /\ n \in Files /\ SameNames(f, n)
  /\ n.data[i] = c /\ \A j \in Inodes \ {i} : n.data[j] = f.data[j]
  /\ \A g \in Handles : SameStream(f.open[g], n.open[g])
  /\ h \in Handles => ~ n.open[h].old
  /\ \A g \in Handles : f.open[g].ino # i \/ f.data[i] = c =>
       n.open[g].old = (f.open[g].old /\ g # h)

LEMMA StoredIs ==
  ASSUME NEW f \in Files, NEW h, NEW i \in Inodes, NEW c \in Bytes, NEW n, n = Stored(f, h, i, c)
  PROVE  StoredAs(f, n, h, i, c)
<1> DEFINE stale(g) == IF g = h THEN FALSE
                       ELSE f.open[g].old \/ (f.open[g].ino = i /\ f.open[g].mode # "w" /\ f.data[i] # c)
           open == [g \in Handles |-> [f.open[g] EXCEPT !.old = stale(g)]]
           data == [f.data EXCEPT ![i] = c]
<1>1. n = [f EXCEPT !.data = data, !.open = open]
  BY DEF Stored
<1>2. ASSUME NEW g \in Handles
      PROVE  /\ open[g] \in Stream /\ SameStream(f.open[g], open[g]) /\ open[g].old = stale(g)
  <2>1. f.open[g] \in Stream /\ stale(g) \in BOOLEAN
    BY DEF Files, Stream
  <2> HIDE DEF stale
  <2> QED  BY <2>1 DEF Stream, SameStream
<1>3. data \in [Inodes -> Bytes] /\ data[i] = c /\ \A j \in Inodes \ {i} : data[j] = f.data[j]
  BY DEF Files
<1>4. open \in [Handles -> Stream]
  BY <1>2
<1> HIDE DEF open, data
<1>5. n \in Files /\ SameNames(f, n) /\ n.data = data /\ n.open = open
  BY <1>1, <1>3, <1>4 DEF Files, SameNames
<1>6. \A g \in Handles : f.open[g].ino # i \/ f.data[i] = c =>
              open[g].old = (f.open[g].old /\ g # h)
  <2>1. \A g \in Handles : f.open[g].old \in BOOLEAN
    BY DEF Files, Stream
  <2> QED  BY <1>2, <2>1
<1> QED  BY <1>2, <1>3, <1>5, <1>6 DEF StoredAs

LEMMA FileNumbers ==
  /\ Cardinality(Names) \in Nat /\ Cardinality(Handles) \in Nat
  /\ Absent \notin Inodes /\ Directory \notin Inodes /\ Inodes \subseteq Nat
<1>1. Cardinality(Names) \in Nat /\ Cardinality(Handles) \in Nat
  BY HostAssumption, FS_CardinalityType
<1> QED  BY <1>1 DEF Inodes, Absent, Directory

(* What the streams hold of a file that is left alone. *)
LEMMA HoldersSame ==
  ASSUME NEW f, NEW n, \A g \in Handles : SameStream(f.open[g], n.open[g]), NEW i
  PROVE  Holders(n, i) = Holders(f, i)
BY DEF SameStream, Holders

LEMMA SettlesSame ==
  ASSUME NEW f \in Files, NEW n \in Files, NEW i \in Inodes, n.data[i] = f.data[i],
         Holders(n, i) = Holders(f, i),
         \A g \in Holders(f, i) : SameStream(f.open[g], n.open[g]),
         NEW c \in Bytes, Settles(f, i, c)
  PROVE  Settles(n, i, c)
<1>1. Comes(f.data[i], Holders(f, i), f.open, c)
  BY SettlesIs
<1>2. Comes(f.data[i], Holders(f, i), n.open, c)
  BY <1>1, SameHeld DEF SameStream
<1> QED  BY <1>2, SettlesIs

(* Nothing is held of a file that has no holder. *)
LEMMA SettledFile ==
  ASSUME NEW f \in Files, NEW i \in Inodes, Holders(f, i) = {}, NEW c \in Bytes
  PROVE  Settles(f, i, c) <=> f.data[i] = c
<1>1. f.data[i] \in Bytes
  BY DEF Files
<1> QED  BY <1>1, SettlesIs, NoneHolds

LEMMA StreamTypes ==
  ASSUME NEW f \in Files, NEW h \in Handles
  PROVE  /\ f.open[h] \in Stream /\ f.open[h].off \in Nat /\ f.open[h].pend \in Bytes
         /\ f.open[h].ino \in Inodes \cup {Absent} /\ f.open[h].sz \in Nat
         /\ IsOpen(f, h) <=> f.open[h].ino \in Inodes
         /\ f.open[h].ino \in Inodes => f.data[f.open[h].ino] \in Bytes
<1>1. Absent \notin Inodes
  BY FileNumbers
<1> QED  BY <1>1 DEF Files, Stream, IsOpen

(* fseek and fflush *)
LEMMA FlushedIs ==
  ASSUME NEW f \in Files, NEW h \in Handles, IsOpen(f, h), NEW n, n = Flushed(f, h)
  PROVE  /\ n \in Files /\ SameNames(f, n)
         /\ \A g \in Handles \ {h} : SameStream(f.open[g], n.open[g])
         /\ n.open[h].pend = <<>> /\ n.open[h].ino = f.open[h].ino
         /\ n.open[h].mode = f.open[h].mode /\ n.open[h].sz = f.open[h].sz
         /\ \A j \in Inodes \ {f.open[h].ino} : n.data[j] = f.data[j]
         /\ f.open[h].pend = <<>> => n = f
         /\ f.open[h].pend # <<>> =>
              /\ n.data[f.open[h].ino] = Put(f.data[f.open[h].ino], f.open[h].off, f.open[h].pend)
              /\ ~ n.open[h].old
              /\ \A g \in Handles : \/ f.open[g].ino # f.open[h].ino
                                    \/ n.data[f.open[h].ino] = f.data[f.open[h].ino]
                                    => n.open[g].old = (f.open[g].old /\ g # h)
<1> DEFINE s == f.open[h]
           i == s.ino
           c == Put(f.data[i], s.off, s.pend)
           m == Stored(f, h, i, c)
<1>1. i \in Inodes /\ c \in Bytes
  BY StreamTypes, PutIs
<1>2. CASE s.pend = <<>>
  <2>1. n = f
    BY <1>2 DEF Flushed
  <2> QED  BY <1>2, <2>1 DEF SameNames, SameStream
<1>3. CASE s.pend # <<>>
  <2>1. n = [m EXCEPT !.open[h] = [@ EXCEPT !.off = 0, !.pend = <<>>]]
    BY <1>3 DEF Flushed
  <2>a. m = Stored(f, h, i, c)
    OBVIOUS
  <2> HIDE DEF m, c
  <2>2. /\ m \in Files /\ SameNames(f, m)
        /\ m.data[i] = c /\ \A j \in Inodes \ {i} : m.data[j] = f.data[j]
        /\ \A g \in Handles : SameStream(f.open[g], m.open[g])
        /\ ~ m.open[h].old
        /\ \A g \in Handles : f.open[g].ino # i \/ f.data[i] = c =>
              m.open[g].old = (f.open[g].old /\ g # h)
    <3>1. StoredAs(f, m, h, i, c)
      BY <1>1, <2>a, StoredIs
    <3> QED  BY <3>1 DEF StoredAs
  <2> DEFINE t == [m.open[h] EXCEPT !.off = 0, !.pend = <<>>]
  <2>3. /\ t \in Stream /\ t.pend = <<>> /\ t.ino = m.open[h].ino /\ t.mode = m.open[h].mode
        /\ t.sz = m.open[h].sz /\ t.old = m.open[h].old
    <3>1. m.open[h] \in Stream /\ <<>> \in Bytes
      BY <2>2 DEF Files, Bytes
    <3> QED  BY <3>1 DEF Stream
  <2>4. n = [m EXCEPT !.open = [m.open EXCEPT ![h] = t]]
    BY <2>1, <2>2 DEF Files
  <2> HIDE DEF t
  <2>5. /\ n \in Files /\ SameNames(f, n) /\ n.data = m.data
        /\ n.open[h] = t /\ \A g \in Handles \ {h} : n.open[g] = m.open[g]
    BY <2>2, <2>3, <2>4 DEF Files, SameNames
  <2>6. n.open[h].ino = f.open[h].ino /\ n.open[h].mode = f.open[h].mode /\ n.open[h].sz = f.open[h].sz
    BY <2>2, <2>3, <2>5 DEF SameStream
  <2>7. \A g \in Handles : n.open[g].old = m.open[g].old
    BY <2>3, <2>5
  <2> QED  BY <1>3, <2>2, <2>3, <2>5, <2>6, <2>7 DEF c
<1> QED  BY <1>2, <1>3

LEMMA FlushedHolders ==
  ASSUME NEW f \in Files, NEW h \in Handles, IsOpen(f, h), NEW n, n = Flushed(f, h), NEW i
  PROVE  Holders(n, i) = Holders(f, i) \ {h}
<1>1. /\ \A g \in Handles \ {h} : SameStream(f.open[g], n.open[g])
      /\ n.open[h].pend = <<>>
  BY FlushedIs
<1> QED  BY <1>1 DEF Holders, SameStream

(* What a stream passes on is in the file already, or gets there. *)
LEMMA FlushSettles ==
  ASSUME NEW f \in Files, NEW h \in Handles, IsOpen(f, h), NEW n, n = Flushed(f, h),
         NEW j \in Inodes, NEW c \in Bytes, Settles(f, j, c)
  PROVE  Settles(n, j, c)
<1> DEFINE i == f.open[h].ino
           H == Holders(f, j)
<1>1. Comes(f.data[j], H, f.open, c) /\ Holding(H, f.open) /\ f.data[j] \in Bytes
  BY SettlesIs, HoldersHold DEF Files
<1>2. n \in Files /\ Holders(n, j) = H \ {h}
  BY FlushedIs, FlushedHolders
<1>3. \A g \in H \ {h} : n.open[g].off = f.open[g].off /\ n.open[g].pend = f.open[g].pend
  BY FlushedIs DEF SameStream, Holders
<1>4. CASE h \in H
  <2>1. i = j /\ f.open[h].pend # <<>>
    BY <1>4 DEF Holders
  <2>2. n.data[j] = Put(f.data[j], f.open[h].off, f.open[h].pend)
    BY <2>1, FlushedIs
  <2> HIDE DEF H
  <2>a. Comes(Put(f.data[j], f.open[h].off, f.open[h].pend), H \ {h}, f.open, c)
    BY <1>1, <1>4, PassOn
  <2>3. Comes(n.data[j], H \ {h}, f.open, c)
    BY <2>2, <2>a
  <2>4. Comes(n.data[j], H \ {h}, n.open, c)
    BY <1>3, <2>3, SameHeld
  <2> QED  BY <1>2, <2>4, SettlesIs
<1>5. CASE h \notin H
  <2>1. n.data[j] = f.data[j]
    BY <1>5, FlushedIs DEF Holders
  <2> HIDE DEF H
  <2>a. H \ {h} = H
    BY <1>5
  <2>b. Comes(n.data[j], H, f.open, c)
    BY <1>1, <2>1
  <2>c. \A g \in H : n.open[g].off = f.open[g].off /\ n.open[g].pend = f.open[g].pend
    BY <1>3, <2>a
  <2>d. Comes(n.data[j], H, n.open, c)
    BY <2>b, <2>c, SameHeld
  <2>2. Comes(n.data[j], H \ {h}, n.open, c)
    BY <2>a, <2>d
  <2> QED  BY <1>2, <2>2, SettlesIs
<1> QED  BY <1>4, <1>5

LEMMA FlushSound ==
  ASSUME NEW f \in Files, NEW h \in Handles, IsOpen(f, h), NEW n, n = Flushed(f, h),
         NEW g \in Handles, IsOpen(f, g), NEW c \in Bytes, Settles(f, f.open[g].ino, c),
         NEW k, Sound(k, f, g, c)
  PROVE  Sound(k, n, g, c) /\ (Fresh(f, g) => Fresh(n, g))
<1> DEFINE i == f.open[g].ino
           d == f.data[i]
<1>1. i \in Inodes /\ d \in Bytes /\ f.open[g].off \in Nat /\ f.open[g].pend \in Bytes
      /\ f.open[h].ino \in Inodes /\ f.open[h].off \in Nat /\ f.open[h].pend \in Bytes
  BY StreamTypes
<1>2. PassesOn(f, g, c)
  BY DEF Sound
<1>3. CASE f.open[h].pend = <<>>
  BY <1>3, FlushedIs
<1>4. CASE f.open[h].pend # <<>> /\ g = h
  <2>1. n.data[i] = c
    BY <1>2, <1>4, FlushedIs DEF PassesOn
  <2>2. PassesOn(n, g, c)
    BY <1>4, <2>1, FlushedIs DEF PassesOn
  <2>3. Sound(k, n, g, c)
    BY <1>4, <2>2, FlushedIs DEF Sound
  <2>4. Fresh(n, g)
    BY <1>4, FlushedIs DEF Fresh
  <2> QED  BY <2>3, <2>4
<1>5. CASE f.open[h].pend # <<>> /\ g # h
  <2>1. SameStream(f.open[g], n.open[g])
    BY <1>5, FlushedIs
  <2>a. f.open[g].ino # f.open[h].ino \/ n.data[f.open[h].ino] = f.data[f.open[h].ino] =>
          n.open[g].old = f.open[g].old
    <3>1. \A q \in Handles : \/ f.open[q].ino # f.open[h].ino
                             \/ n.data[f.open[h].ino] = f.data[f.open[h].ino]
                             => n.open[q].old = (f.open[q].old /\ q # h)
      BY <1>5, FlushedIs
    <3>2. f.open[g].old \in BOOLEAN
      BY DEF Files, Stream
    <3> QED  BY <1>5, <3>1, <3>2
  <2>2. CASE f.open[h].ino # i
    <3>1. n.data[i] = d
      BY <1>1, <2>2, FlushedIs
    <3>2. n.open[g].old = f.open[g].old
      BY <1>5, <2>2, <2>a
    <3> QED  BY <2>1, <3>1, <3>2, <1>2 DEF Sound, PassesOn, Fresh, SameStream
  <2>3. CASE f.open[h].ino = i
    <3> DEFINE o == f.open[h].off
               b == f.open[h].pend
    <3>1. n.data[i] = Put(d, o, b)
      BY <1>5, <2>3, FlushedIs
    <3>2. Put(c, o, b) = c
      <4>1. Comes(d, Holders(f, i), f.open, c) /\ Holding(Holders(f, i), f.open)
        BY <1>1, SettlesIs, HoldersHold
      <4>2. h \in Holders(f, i)
        BY <1>5, <2>3 DEF Holders
      <4> QED  BY <1>1, <4>1, <4>2, HeldIsThere
    <3>3. CASE f.open[g].pend = <<>>
      <4>1. d = c /\ n.data[i] = c
        BY <1>2, <3>1, <3>2, <3>3 DEF PassesOn
      <4>2. n.open[g].old = f.open[g].old
        BY <2>3, <4>1, <2>a
      <4> QED  BY <2>1, <4>1, <4>2, <3>3 DEF Sound, PassesOn, Fresh, SameStream
    <3>4. CASE f.open[g].pend # <<>>
      <4>1. Put(d, f.open[g].off, f.open[g].pend) = c
        BY <1>2, <3>4 DEF PassesOn
      <4>2. Put(Put(d, o, b), f.open[g].off, f.open[g].pend) = c
        BY <1>1, <3>2, <4>1, PutTwice
      <4> QED  BY <2>1, <3>1, <4>2, <3>4 DEF Sound, PassesOn, Fresh, SameStream
    <3> QED  BY <3>3, <3>4
  <2> QED  BY <2>2, <2>3
<1> QED  BY <1>3, <1>4, <1>5

-----------------------------------------------------------------------------
(* The archives' operations on files: each one advances. *)

LEMMA GoodSettles ==
  ASSUME NEW k, NEW f, NEW g, Good(k, f, g)
  PROVE  /\ f \in Files /\ g.acked \in [Inodes -> Bytes] /\ g.cut \subseteq Handles
         /\ g.alone \subseteq Handles /\ g.raced \subseteq Inodes
         /\ \A i \in Inodes \ g.raced : Settles(f, i, g.acked[i])
         /\ \A i \in Inodes \ Used(f) : f.data[i] = <<>> /\ g.acked[i] = <<>>
         /\ \A h \in g.alone : /\ IsOpen(f, h) /\ f.open[h].ino \in Inodes
                                /\ Sound(k, f, h, g.acked[f.open[h].ino])
         /\ \A h \in g.alone \ g.cut : Fresh(f, h)
         /\ Stores(k) => \A h \in Handles : f.open[h].pend = <<>>
<1>1. f \in Files /\ g \in Guests /\ Kept(k, f, g) /\ Undisturbed(k, f, g)
  BY DEF Good
<1>2. /\ g.acked \in [Inodes -> Bytes] /\ g.cut \subseteq Handles
      /\ g.alone \subseteq Handles /\ g.raced \subseteq Inodes
  BY <1>1 DEF Guests
<1>3. \A h \in g.alone : IsOpen(f, h) /\ Sound(k, f, h, g.acked[f.open[h].ino])
  BY <1>1 DEF Undisturbed
<1>4. \A h \in g.alone : f.open[h].ino \in Inodes
  BY <1>1, <1>2, <1>3, StreamTypes
<1> QED  BY <1>1, <1>2, <1>3, <1>4 DEF Kept, Undisturbed

LEMMA UsedSame ==
  ASSUME NEW f, NEW n, n.tree = f.tree, \A h \in Handles : n.open[h].ino = f.open[h].ino
  PROVE  Used(n) = Used(f)
BY DEF Used

(* Nothing happens to the bytes; a note of the size may change. *)
LEMMA StayAdvances ==
  ASSUME NEW k, NEW f, NEW g, Good(k, f, g), NEW n \in Files, n.tree = f.tree, n.data = f.data,
         \A h \in Handles : /\ n.open[h].ino = f.open[h].ino /\ n.open[h].mode = f.open[h].mode
                            /\ n.open[h].off = f.open[h].off /\ n.open[h].pend = f.open[h].pend
                            /\ n.open[h].old = f.open[h].old
                            /\ n.open[h].mode = "rw" => n.open[h].sz = f.open[h].sz,
         MovesDir(k, f, n), NEW by, NEW cut, g.cut \subseteq cut, cut \subseteq Handles
  PROVE  Advances(k, f, n, g, by, g.acked, cut, {})
<1>1. Used(n) = Used(f)
  BY UsedSame
<1>2. ASSUME NEW i \in Inodes, NEW c \in Bytes, Settles(f, i, c) PROVE Settles(n, i, c)
  <2>1. Holders(n, i) = Holders(f, i)
    BY DEF Holders
  <2>2. Comes(f.data[i], Holders(f, i), f.open, c) /\ f \in Files
    BY <1>2, GoodSettles, SettlesIs
  <2>3. \A h \in Holders(f, i) : n.open[h].off = f.open[h].off /\ n.open[h].pend = f.open[h].pend
    BY DEF Holders
  <2>4. Comes(f.data[i], Holders(f, i), n.open, c)
    BY <2>2, <2>3, SameHeld
  <2> QED  BY <2>1, <2>4, SettlesIs
<1>3. Tracks(k, f, n, g, by, g.acked, cut, {})
  <2>1. ASSUME NEW h \in g.alone
        PROVE  /\ Sound(k, n, h, g.acked[f.open[h].ino])
               /\ h \notin cut => Fresh(n, h)
    <3>1. Sound(k, f, h, g.acked[f.open[h].ino]) /\ (h \notin g.cut => Fresh(f, h)) /\ h \in Handles
      BY GoodSettles
    <3>2. Sound(k, n, h, g.acked[f.open[h].ino])
      BY <3>1 DEF Sound, PassesOn
    <3>3. h \notin cut => Fresh(n, h)
      BY <3>1 DEF Fresh
    <3> QED  BY <3>2, <3>3
  <2>2. \A h \in Handles : n.open[h].ino = f.open[h].ino /\ (IsOpen(n, h) <=> IsOpen(f, h))
    BY DEF IsOpen
  <2> QED  BY <2>1, <2>2 DEF Tracks
<1>4. \A i \in Inodes \ g.raced : Settles(n, i, g.acked[i])
  BY <1>2, GoodSettles
<1>5. Used(n) \subseteq Inodes
  BY DEF Used
<1>6. k = "RomFS" => \A h \in Handles : IsOpen(n, h) => n.open[h].ino = 1 /\ IsDir(n, Root)
  BY DEF Good, RomStays, IsOpen, IsDir, At
<1> QED  BY <1>1, <1>3, <1>4, <1>5, <1>6, GoodSettles DEF Advances

(* A stream passes on what it holds. *)
LEMMA FlushAdvances ==
  ASSUME NEW k, NEW f, NEW g, Good(k, f, g), NEW h \in Handles, IsOpen(f, h),
         NEW n, n = Flushed(f, h)
  PROVE  Advances(k, f, n, g, h, g.acked, g.cut, {})
<1>1. f \in Files /\ n \in Files /\ SameNames(f, n)
  BY GoodSettles, FlushedIs
<1>2. \A q \in Handles : n.open[q].ino = f.open[q].ino
  BY <1>1, FlushedIs DEF SameStream
<1>3. Used(n) = Used(f)
  BY <1>1, <1>2, UsedSame DEF SameNames
<1>4. ASSUME NEW i \in Inodes \ Used(n) PROVE n.data[i] = <<>>
  <2>1. i # f.open[h].ino
    BY <1>3, <1>4 DEF Used
  <2> QED  BY <1>1, <1>3, <1>4, <2>1, FlushedIs, GoodSettles
<1>5. \A i \in Inodes \ g.raced : Settles(n, i, g.acked[i])
  BY <1>1, FlushSettles, GoodSettles
<1>6. Tracks(k, f, n, g, h, g.acked, g.cut, {})
  <2>1. ASSUME NEW q \in g.alone
        PROVE  /\ Sound(k, n, q, g.acked[f.open[q].ino])
               /\ q \notin g.cut => Fresh(n, q)
    <3>1. /\ Sound(k, f, q, g.acked[f.open[q].ino]) /\ (q \notin g.cut => Fresh(f, q))
          /\ q \in Handles /\ IsOpen(f, q) /\ f.open[q].ino \in Inodes
          /\ g.acked[f.open[q].ino] \in Bytes
      BY GoodSettles
    <3>2. f.open[q].ino \notin g.raced
      BY DEF Good, Undisturbed
    <3>3. Settles(f, f.open[q].ino, g.acked[f.open[q].ino])
      BY <3>1, <3>2, GoodSettles
    <3> QED  BY <1>1, <3>1, <3>3, FlushSound
  <2>2. \A q \in Handles : n.open[q].ino = f.open[q].ino /\ (IsOpen(n, q) <=> IsOpen(f, q))
    BY <1>2 DEF IsOpen
  <2> QED  BY <2>1, <2>2 DEF Tracks
<1>7. Used(n) \subseteq Inodes
  BY DEF Used
<1>8. k = "RomFS" => \A q \in Handles : IsOpen(n, q) => n.open[q].ino = 1 /\ IsDir(n, Root)
  BY <1>1, <1>2 DEF Good, RomStays, IsOpen, IsDir, At, SameNames
<1>9. Stores(k) => \A q \in Handles : n.open[q].pend = <<>>
  BY <1>1, FlushedIs, GoodSettles
<1>10. n.tree = f.tree /\ MovesDir(k, f, n)
  BY <1>1 DEF MovesDir, SameNames
<1> QED  BY <1>1, <1>3, <1>4, <1>5, <1>6, <1>7, <1>8, <1>9, <1>10, GoodSettles DEF Advances

LEMMA TidyIs ==
  ASSUME NEW f \in Files, NEW n, n = Tidy(f)
  PROVE  /\ n \in Files /\ SameNames(f, n) /\ n.open = f.open /\ Used(n) = Used(f)
         /\ \A i \in Used(f) : n.data[i] = f.data[i]
         /\ \A i \in Inodes \ Used(f) : n.data[i] = <<>>
<1> DEFINE data == [i \in Inodes |-> IF i \in Used(f) THEN f.data[i] ELSE <<>>]
<1>1. n = [f EXCEPT !.data = data]
  BY DEF Tidy
<1>2. data \in [Inodes -> Bytes]
  <2>1. <<>> \in Bytes
    BY DEF Bytes
  <2>2. \A i \in Inodes : f.data[i] \in Bytes
    BY DEF Files
  <2> QED  BY <2>1, <2>2
<1>3. Used(f) \subseteq Inodes
  BY DEF Used
<1>4. /\ \A i \in Used(f) : data[i] = f.data[i]
      /\ \A i \in Inodes \ Used(f) : data[i] = <<>>
  BY <1>3
<1> HIDE DEF data
<1>5. n \in Files /\ SameNames(f, n) /\ n.open = f.open /\ n.data = data
  BY <1>1, <1>2 DEF Files, SameNames
<1>6. Used(n) = Used(f)
  BY <1>5, UsedSame DEF SameNames
<1> QED  BY <1>4, <1>5, <1>6

LEMMA NoStreamTyped == NoStream \in Stream /\ NoStream.ino = Absent /\ NoStream.pend = <<>>
<1>1. <<>> \in Bytes
  BY DEF Bytes
<1> QED  BY <1>1 DEF NoStream, Stream

(* A stream is gone: what it held, if anything, is lost to its file. *)
LEMMA DropAdvances ==
  ASSUME NEW k, NEW f, NEW g, NEW m, NEW h \in Handles, NEW acked, NEW cut, NEW torn, NEW n,
         Advances(k, f, m, g, h, acked, cut, {}), m.open[h].ino \in Inodes,
         torn = IF m.open[h].pend # <<>> THEN {m.open[h].ino} ELSE {},
         n = Tidy([m EXCEPT !.open[h] = NoStream])
  PROVE  Advances(k, f, n, g, h, acked, cut, torn)
<1> DEFINE open == [m.open EXCEPT ![h] = NoStream]
           e == [m EXCEPT !.open = open]
<1>1. m \in Files /\ acked \in [Inodes -> Bytes]
  BY DEF Advances
<1>2. /\ open \in [Handles -> Stream] /\ open[h] = NoStream
      /\ \A q \in Handles \ {h} : open[q] = m.open[q]
  BY <1>1, NoStreamTyped DEF Files
<1>3. e = [m EXCEPT !.open[h] = NoStream]
  BY <1>1 DEF Files
<1> HIDE DEF open
<1>4. e \in Files /\ SameNames(m, e) /\ e.data = m.data /\ e.open = open
  BY <1>1, <1>2 DEF Files, SameNames
<1>5. n = Tidy(e)
  BY <1>3
<1> HIDE DEF e
<1>6. /\ n \in Files /\ SameNames(m, n) /\ n.open = open /\ Used(n) = Used(e)
      /\ \A i \in Used(n) : n.data[i] = m.data[i]
      /\ \A i \in Inodes \ Used(n) : n.data[i] = <<>>
  <2>1. /\ n \in Files /\ SameNames(e, n) /\ n.open = e.open /\ Used(n) = Used(e)
        /\ \A i \in Used(e) : n.data[i] = e.data[i]
        /\ \A i \in Inodes \ Used(e) : n.data[i] = <<>>
    BY <1>4, <1>5, TidyIs
  <2>2. SameNames(m, n)
    BY <1>4, <2>1 DEF SameNames
  <2> QED  BY <1>4, <2>1, <2>2
<1>7. Absent \notin Inodes
  BY FileNumbers
<1>8. Used(n) \subseteq Used(m) /\ Used(n) \subseteq Inodes
  BY <1>2, <1>6, <1>7, NoStreamTyped DEF Used, SameNames
<1>9. ASSUME NEW i \in Used(n) \ (g.raced \cup torn),
             acked[i] = g.acked[i] \/ Holders(f, i) \subseteq {h}
      PROVE  Settles(n, i, acked[i])
  <2>1. Settles(m, i, acked[i]) /\ i \in Inodes
    BY <1>8, <1>9 DEF Advances
  <2>2. Holders(n, i) = Holders(m, i)
    BY <1>2, <1>6, <1>9, NoStreamTyped DEF Holders
  <2>3. \A q \in Holders(m, i) : SameStream(m.open[q], n.open[q])
    <3>1. h \notin Holders(m, i)
      BY <1>9 DEF Holders
    <3> QED  BY <1>2, <1>6, <3>1 DEF Holders, SameStream
  <2>4. n.data[i] = m.data[i] /\ acked[i] \in Bytes
    BY <1>1, <1>6, <1>9, <2>1
  <2> QED  BY <1>1, <1>6, <2>1, <2>2, <2>3, <2>4, SettlesSame
<1>10. ~ IsOpen(n, h) /\ \A q \in Handles \ {h} : n.open[q] = m.open[q]
  BY <1>2, <1>6, NoStreamTyped DEF IsOpen
<1>11. Tracks(k, f, n, g, h, acked, cut, torn)
  <2> SUFFICES ASSUME NEW q \in Handles, IsOpen(n, q), n.open[q].ino \notin g.raced \cup torn
               PROVE  LET i == n.open[q].ino
                      IN  /\ IsOpen(f, q) /\ q \in g.alone /\ (q = h \/ acked[i] = g.acked[i]) =>
                               Sound(k, n, q, acked[i]) /\ (q \notin cut => Fresh(n, q))
                          /\ ~ IsOpen(f, q) /\ acked[i] = n.data[i] =>
                               Sound(k, n, q, acked[i]) /\ Fresh(n, q)
    BY DEF Tracks
  <2> DEFINE i == n.open[q].ino
  <2>1. q # h /\ n.open[q] = m.open[q] /\ IsOpen(m, q) /\ i = m.open[q].ino
    BY <1>10 DEF IsOpen
  <2>2. i \in Inodes
    BY <2>1, <1>1, StreamTypes
  <2>3. i \in Used(n) /\ n.data[i] = m.data[i]
    BY <2>2, <1>6 DEF Used
  <2>4. /\ IsOpen(f, q) /\ q \in g.alone /\ (q = h \/ acked[i] = g.acked[i]) =>
             Sound(k, m, q, acked[i]) /\ (q \notin cut => Fresh(m, q))
        /\ ~ IsOpen(f, q) /\ acked[i] = m.data[i] => Sound(k, m, q, acked[i]) /\ Fresh(m, q)
    <3>1. Tracks(k, f, m, g, h, acked, cut, {})
      BY DEF Advances
    <3>2. i \notin g.raced \cup {}
      OBVIOUS
    <3> HIDE DEF i
    <3> QED  BY <2>1, <3>1, <3>2 DEF Tracks
  <2> HIDE DEF i
  <2>5. \A c : (Sound(k, m, q, c) <=> Sound(k, n, q, c)) /\ (Fresh(m, q) <=> Fresh(n, q))
    BY <2>1, <2>3 DEF Sound, PassesOn, Fresh
  <2> QED  BY <2>3, <2>4, <2>5 DEF i
<1>12. Stores(k) => torn = {} /\ \A q \in Handles : n.open[q].pend = <<>>
  BY <1>2, <1>6, NoStreamTyped DEF Advances
<1>13. k = "RomFS" => \A q \in Handles : IsOpen(n, q) => n.open[q].ino = 1 /\ IsDir(n, Root)
  <2>1. \A q \in Handles : IsOpen(n, q) => q # h /\ IsOpen(m, q) /\ n.open[q] = m.open[q]
    BY <1>10 DEF IsOpen
  <2>2. IsDir(n, Root) <=> IsDir(m, Root)
    BY <1>6 DEF IsDir, At, SameNames
  <2> QED  BY <2>1, <2>2 DEF Advances
<1>14. n.tree = m.tree /\ n.dir = m.dir
  BY <1>6 DEF SameNames
<1>15. MovesDir(k, f, n)
  <2>1. MovesDir(k, f, m)
    BY DEF Advances
  <2>2. \A p : DirStream(n, p) = DirStream(m, p) /\ (IsDir(n, p) <=> IsDir(m, p))
    BY <1>14 DEF DirStream, Entries, IsDir, At
  <2> QED  BY <1>14, <2>1, <2>2 DEF MovesDir
<1> QED  BY <1>6, <1>9, <1>11, <1>12, <1>13, <1>14, <1>15 DEF Advances

(* What is known of the handles and files after the stream h has passed on  *)
(* what it held, the first thing a write does.                              *)
Seeks(k, f, g, h, m) ==
  /\ m \in Files /\ SameNames(f, m) /\ Used(m) = Used(f) /\ f.open[h].ino \in Inodes
  /\ m.open[h].pend = <<>> /\ m.open[h].mode = f.open[h].mode
  /\ \A q \in Handles : m.open[q].ino = f.open[q].ino /\ (IsOpen(m, q) <=> IsOpen(f, q))
  /\ \A i \in Inodes \ Used(f) : m.data[i] = <<>>
  /\ \A i \in Inodes \ g.raced : Settles(m, i, g.acked[i])
  /\ \A i : Holders(m, i) = Holders(f, i) \ {h}
  /\ \A q \in g.alone : Sound(k, m, q, g.acked[f.open[q].ino]) /\ (q \notin g.cut => Fresh(m, q))
  /\ Stores(k) => \A q \in Handles : m.open[q].pend = <<>>

LEMMA Sought ==
  ASSUME NEW k, NEW f, NEW g, Good(k, f, g), NEW h \in Handles, IsOpen(f, h),
         NEW m, m = Flushed(f, h)
  PROVE  Seeks(k, f, g, h, m)
<1>1. f \in Files /\ m \in Files /\ SameNames(f, m) /\ m.open[h].pend = <<>>
      /\ m.open[h].mode = f.open[h].mode
  BY GoodSettles, FlushedIs
<1>2. \A q \in Handles : m.open[q].ino = f.open[q].ino /\ (IsOpen(m, q) <=> IsOpen(f, q))
  BY <1>1, FlushedIs DEF SameStream, IsOpen
<1>3. Used(m) = Used(f)
  BY <1>1, <1>2, UsedSame DEF SameNames
<1>4. Advances(k, f, m, g, h, g.acked, g.cut, {})
  BY FlushAdvances
<1>5. \A i \in Inodes \ Used(f) : m.data[i] = <<>>
  BY <1>3, <1>4 DEF Advances
<1>6. \A i \in Inodes \ g.raced : Settles(m, i, g.acked[i])
  BY <1>1, FlushSettles, GoodSettles
<1>7. \A i : Holders(m, i) = Holders(f, i) \ {h}
  BY <1>1, FlushedHolders
<1>8. ASSUME NEW q \in g.alone
      PROVE  Sound(k, m, q, g.acked[f.open[q].ino]) /\ (q \notin g.cut => Fresh(m, q))
  <2>1. Tracks(k, f, m, g, h, g.acked, g.cut, {})
    BY <1>4 DEF Advances
  <2>2. q \in Handles /\ IsOpen(f, q) /\ f.open[q].ino \notin g.raced \cup {}
    BY GoodSettles DEF Good, Undisturbed
  <2> QED  BY <1>2, <2>1, <2>2 DEF Tracks
<1>9. Stores(k) => \A q \in Handles : m.open[q].pend = <<>>
  BY <1>4 DEF Advances
<1>10. f.open[h].ino \in Inodes
  BY <1>1, StreamTypes
<1> QED  BY <1>1, <1>2, <1>3, <1>5, <1>6, <1>7, <1>8, <1>9, <1>10 DEF Seeks

(* A write that gets through to the file, and what it is acknowledged as. *)
Through(f, h, i, c, sz) == [Stored(f, h, i, c) EXCEPT !.open[h].sz = sz]
Wrote(acked, i, off, b) == [acked EXCEPT ![i] = Put(@, off, b)]

Written(f, n, h, i, c, sz) ==
  /\ n \in Files /\ SameNames(f, n)
  /\ n.data[i] = c /\ \A j \in Inodes \ {i} : n.data[j] = f.data[j]
  /\ \A q \in Handles \ {h} : SameStream(f.open[q], n.open[q])
  /\ n.open[h].ino = f.open[h].ino /\ n.open[h].mode = f.open[h].mode
  /\ n.open[h].off = f.open[h].off /\ n.open[h].pend = f.open[h].pend
  /\ n.open[h].sz = sz /\ ~ n.open[h].old
  /\ \A q \in Handles \ {h} : f.open[q].ino # i \/ f.data[i] = c => n.open[q].old = f.open[q].old

Acknowledged(acked, was, i, c) ==
  acked \in [Inodes -> Bytes] /\ acked[i] = c /\ \A j \in Inodes \ {i} : acked[j] = was[j]

LEMMA ThroughIs ==
  ASSUME NEW f \in Files, NEW h \in Handles, NEW i \in Inodes, NEW c \in Bytes, NEW sz \in Nat,
         NEW n, n = Through(f, h, i, c, sz)
  PROVE  Written(f, n, h, i, c, sz)
<1> DEFINE r == Stored(f, h, i, c)
           t == [r.open[h] EXCEPT !.sz = sz]
<1>1. n = [r EXCEPT !.open[h].sz = sz]
  BY DEF Through
<1>2. r = Stored(f, h, i, c)
  OBVIOUS
<1> HIDE DEF r
<1>3. /\ r \in Files /\ SameNames(f, r)
      /\ r.data[i] = c /\ \A j \in Inodes \ {i} : r.data[j] = f.data[j]
      /\ \A q \in Handles : SameStream(f.open[q], r.open[q])
      /\ ~ r.open[h].old
      /\ \A q \in Handles : f.open[q].ino # i \/ f.data[i] = c =>
              r.open[q].old = (f.open[q].old /\ q # h)
  <2>1. StoredAs(f, r, h, i, c)
    BY <1>2, StoredIs
  <2> QED  BY <2>1 DEF StoredAs
<1>4. t \in Stream /\ t.ino = r.open[h].ino /\ t.mode = r.open[h].mode /\ t.off = r.open[h].off
      /\ t.pend = r.open[h].pend /\ t.old = r.open[h].old /\ t.sz = sz
  <2>1. r.open[h] \in Stream
    BY <1>3 DEF Files
  <2> QED  BY <2>1 DEF Stream
<1>5. n = [r EXCEPT !.open = [r.open EXCEPT ![h] = t]]
  BY <1>1, <1>3 DEF Files
<1> HIDE DEF t
<1>6. /\ n \in Files /\ SameNames(f, n) /\ n.data = r.data
      /\ n.open[h] = t /\ \A q \in Handles \ {h} : n.open[q] = r.open[q]
  BY <1>3, <1>4, <1>5 DEF Files, SameNames
<1>7. \A q \in Handles \ {h} : f.open[q].ino # i \/ f.data[i] = c => n.open[q].old = f.open[q].old
  <2>1. \A q \in Handles : f.open[q].old \in BOOLEAN
    BY DEF Files, Stream
  <2> QED  BY <1>3, <1>6, <2>1
<1>8. /\ n.open[h].ino = f.open[h].ino /\ n.open[h].mode = f.open[h].mode
      /\ n.open[h].off = f.open[h].off /\ n.open[h].pend = f.open[h].pend
      /\ n.open[h].sz = sz /\ ~ n.open[h].old
  BY <1>3, <1>4, <1>6 DEF SameStream
<1> QED  BY <1>3, <1>6, <1>7, <1>8 DEF Written

LEMMA WroteIs ==
  ASSUME NEW acked \in [Inodes -> Bytes], NEW i \in Inodes, NEW off \in Nat, NEW b \in Bytes,
         NEW w, w = Wrote(acked, i, off, b)
  PROVE  Acknowledged(w, acked, i, Put(acked[i], off, b))
<1>1. Put(acked[i], off, b) \in Bytes
  BY PutIs
<1> QED  BY <1>1 DEF Wrote, Acknowledged

LEMMA WrittenAdvances ==
  ASSUME NEW k, NEW f, NEW g, Good(k, f, g), k # "RomFS", NEW h \in Handles, IsOpen(f, h),
         NEW m, Seeks(k, f, g, h, m), NEW off \in Nat, NEW b \in Bytes,
         NEW i, f.open[h].ino = i, NEW sz \in Nat,
         k = "SDMC" => sz = Len(Put(m.data[i], off, b)),
         NEW n, Written(m, n, h, i, Put(m.data[i], off, b), sz),
         NEW acked, Acknowledged(acked, g.acked, i, Put(g.acked[i], off, b))
  PROVE  Advances(k, f, n, g, h, acked, g.cut \ {h}, {})
<1> DEFINE stored == Put(m.data[i], off, b)
<1> DEFINE a == g.acked[i]
<1>1. /\ m \in Files /\ SameNames(f, m) /\ Used(m) = Used(f) /\ i \in Inodes
      /\ m.open[h].pend = <<>>
      /\ \A q \in Handles : m.open[q].ino = f.open[q].ino /\ (IsOpen(m, q) <=> IsOpen(f, q))
      /\ \A j \in Inodes \ Used(f) : m.data[j] = <<>>
      /\ \A j \in Inodes \ g.raced : Settles(m, j, g.acked[j])
      /\ \A j : Holders(m, j) = Holders(f, j) \ {h}
      /\ \A q \in g.alone : Sound(k, m, q, g.acked[f.open[q].ino]) /\ (q \notin g.cut => Fresh(m, q))
      /\ Stores(k) => \A q \in Handles : m.open[q].pend = <<>>
  BY DEF Seeks
<1>a. g.acked \in [Inodes -> Bytes]
  BY GoodSettles
<1>b. m.data \in [Inodes -> Bytes]
  BY <1>1 DEF Files
<1>2. m.data[i] \in Bytes /\ stored \in Bytes /\ a \in Bytes
  BY <1>1, <1>a, <1>b, PutIs
<1>3. /\ n \in Files /\ SameNames(m, n)
      /\ n.data[i] = stored /\ \A j \in Inodes \ {i} : n.data[j] = m.data[j]
      /\ \A q \in Handles \ {h} : SameStream(m.open[q], n.open[q])
      /\ n.open[h].ino = m.open[h].ino /\ n.open[h].mode = m.open[h].mode
      /\ n.open[h].off = m.open[h].off /\ n.open[h].pend = m.open[h].pend
      /\ n.open[h].sz = sz /\ ~ n.open[h].old
      /\ \A q \in Handles \ {h} : m.open[q].ino # i \/ m.data[i] = stored => n.open[q].old = m.open[q].old
  BY DEF Written
<1>4. SameNames(f, n)
  BY <1>1, <1>3 DEF SameNames
<1>7. \A q \in Handles : /\ n.open[q].ino = f.open[q].ino /\ n.open[q].ino = m.open[q].ino
                         /\ n.open[q].off = m.open[q].off /\ n.open[q].pend = m.open[q].pend
                         /\ n.open[q].mode = m.open[q].mode
                         /\ q # h => n.open[q].sz = m.open[q].sz
                         /\ IsOpen(n, q) <=> IsOpen(f, q)
  <2>1. \A q \in Handles : m.open[q].ino = f.open[q].ino
    BY <1>1
  <2>2. ASSUME NEW q \in Handles
        PROVE  /\ n.open[q].ino = m.open[q].ino /\ n.open[q].mode = m.open[q].mode
               /\ n.open[q].off = m.open[q].off /\ n.open[q].pend = m.open[q].pend
               /\ q # h => n.open[q].sz = m.open[q].sz
    <3>1. CASE q = h
      BY <1>3, <3>1
    <3>2. CASE q # h
      BY <1>3, <3>2 DEF SameStream
    <3> QED  BY <3>1, <3>2
  <2> QED  BY <2>1, <2>2 DEF IsOpen
<1>8. Used(n) = Used(f)
  BY <1>4, <1>7, UsedSame DEF SameNames
<1>9. /\ acked \in [Inodes -> Bytes] /\ acked[i] = Put(a, off, b) /\ acked[i] \in Bytes
      /\ \A j \in Inodes \ {i} : acked[j] = g.acked[j]
  <2>1. Put(a, off, b) \in Bytes
    BY <1>2, PutIs
  <2> QED  BY <2>1 DEF Acknowledged
<1>b1. k = "SDMC" => sz = Len(stored)
  OBVIOUS
<1> HIDE DEF a, stored
<1>10. \A j \in Inodes \ Used(n) : n.data[j] = <<>>
  <2>1. i \in Used(f)
    BY <1>1 DEF Used
  <2>2. ASSUME NEW j \in Inodes \ Used(n) PROVE n.data[j] = <<>>
    <3>1. j \in Inodes \ {i} /\ j \notin Used(f)
      BY <1>8, <2>1, <2>2
    <3> QED  BY <1>1, <1>3, <3>1
  <2> QED  BY <2>2
<1>11. \A j : Holders(n, j) = Holders(m, j)
  BY <1>7 DEF Holders
<1> HIDE DEF a
<1>12. ASSUME NEW j \in Used(n) \ (g.raced \cup {}),
              acked[j] = g.acked[j] \/ Holders(f, j) \subseteq {h}
       PROVE  Settles(n, j, acked[j])
  <2> DEFINE H == Holders(m, j)
  <2>1. j \in Inodes /\ Settles(m, j, g.acked[j]) /\ g.acked[j] \in Bytes /\ m.data[j] \in Bytes
    BY <1>1, <1>a, <1>b, <1>12 DEF Used
  <2>2. Comes(m.data[j], H, m.open, g.acked[j]) /\ Holding(H, m.open)
    BY <1>1, <2>1, SettlesIs, HoldersHold
  <2>3. \A q \in H : n.open[q].off = m.open[q].off /\ n.open[q].pend = m.open[q].pend
    BY <1>7 DEF Holders
  <2>4. H = Holders(n, j) /\ H = Holders(f, j) \ {h}
    BY <1>1, <1>11
  <2> HIDE DEF H
  <2>5. CASE j # i
    <3>1. n.data[j] = m.data[j] /\ acked[j] = g.acked[j]
      BY <1>3, <1>9, <2>1, <2>5
    <3>2. Comes(n.data[j], H, m.open, acked[j])
      BY <2>2, <3>1
    <3>3. Comes(n.data[j], H, n.open, acked[j])
      BY <2>3, <3>2, SameHeld
    <3>4. acked[j] \in Bytes
      BY <2>1, <3>1
    <3> QED  BY <1>3, <2>1, <2>4, <3>3, <3>4, SettlesIs
  <2>6. CASE j = i
    <3>1. H = {} \/ Put(a, off, b) = a
      BY <1>9, <1>12, <2>4, <2>6 DEF a
    <3>2. Comes(m.data[i], H, m.open, a)
      BY <2>2, <2>6 DEF a
    <3>3. Comes(Put(m.data[i], off, b), H, m.open, Put(a, off, b))
      BY <1>2, <2>2, <3>1, <3>2, PutPast
    <3>4. Comes(n.data[j], H, m.open, acked[j])
      BY <1>3, <1>9, <2>6, <3>3 DEF stored
    <3>5. Comes(n.data[j], H, n.open, acked[j])
      BY <2>3, <3>4, SameHeld
    <3> QED  BY <1>3, <1>9, <2>1, <2>4, <2>6, <3>5, SettlesIs
  <2> QED  BY <2>5, <2>6
<1>13. Tracks(k, f, n, g, h, acked, g.cut \ {h}, {})
  <2> SUFFICES ASSUME NEW q \in g.alone, q = h \/ acked[f.open[q].ino] = g.acked[f.open[q].ino]
               PROVE  /\ Sound(k, n, q, acked[f.open[q].ino])
                      /\ q \notin g.cut \ {h} => Fresh(n, q)
    BY <1>7 DEF Tracks
  <2> DEFINE j == f.open[q].ino
             p == m.open[q].off
             e == m.open[q].pend
  <2>1. /\ q \in Handles /\ IsOpen(f, q) /\ j \in Inodes /\ m.open[q].ino = j
        /\ Sound(k, m, q, g.acked[j]) /\ (q \notin g.cut => Fresh(m, q))
    BY <1>1, GoodSettles
  <2>2. PassesOn(m, q, g.acked[j]) /\ p \in Nat /\ e \in Bytes /\ g.acked[j] \in Bytes
        /\ m.data[j] \in Bytes
    BY <1>1, <1>a, <1>b, <2>1, StreamTypes DEF Sound
  <2>3. n.open[q].ino = j /\ n.open[q].off = p /\ n.open[q].pend = e /\ n.open[q].mode = m.open[q].mode
        /\ (q # h => n.open[q].sz = m.open[q].sz)
    BY <1>7, <2>1
  <2>a. /\ e = <<>> => m.data[j] = g.acked[j]
        /\ e # <<>> => Put(m.data[j], p, e) = g.acked[j]
    BY <2>1, <2>2 DEF PassesOn
  <2>b. \A c : Sound(k, n, q, c) <=>
                 /\ IF e = <<>> THEN n.data[j] = c ELSE Put(n.data[j], p, e) = c
                 /\ k = "SDMC" /\ m.open[q].mode = "rw" => n.open[q].sz = Len(c)
    BY <2>1, <2>3 DEF Sound, PassesOn
  <2>c. k = "SDMC" /\ m.open[q].mode = "rw" => m.open[q].sz = Len(g.acked[j])
    BY <2>1 DEF Sound
  <2>d. n.open[q].old = m.open[q].old => (Fresh(m, q) => Fresh(n, q))
    BY <2>3 DEF Fresh
  <2>e. n.open[q].pend # <<>> \/ ~ n.open[q].old => Fresh(n, q)
    BY DEF Fresh
  <2>f. j # i \/ m.data[i] = stored => q = h \/ n.open[q].old = m.open[q].old
    BY <1>3, <2>1
  <2> HIDE DEF j, p, e
  <2>4. CASE q = h
    <3>1. j = i /\ e = <<>>
      BY <1>1, <2>4 DEF j, e
    <3>2. n.data[j] = acked[j] /\ stored = acked[j]
      BY <1>3, <1>9, <2>a, <3>1 DEF a, stored
    <3>3. n.open[q].sz = sz /\ ~ n.open[q].old
      BY <1>3, <2>4
    <3>4. Sound(k, n, q, acked[j])
      BY <1>b1, <2>b, <3>1, <3>2, <3>3
    <3> QED  BY <2>e, <3>3, <3>4 DEF j
  <2>5. CASE q # h /\ j # i
    <3>1. n.data[j] = m.data[j] /\ acked[j] = g.acked[j]
      BY <1>3, <1>9, <2>1, <2>5
    <3>2. Sound(k, n, q, acked[j])
      <4>1. IF e = <<>> THEN n.data[j] = acked[j] ELSE Put(n.data[j], p, e) = acked[j]
        BY <2>a, <3>1
      <4>2. k = "SDMC" /\ m.open[q].mode = "rw" => n.open[q].sz = Len(acked[j])
        BY <2>3, <2>5, <2>c, <3>1
      <4> QED  BY <2>b, <4>1, <4>2
    <3> QED  BY <2>1, <2>5, <2>d, <2>f, <3>2 DEF j
  <2>6. CASE q # h /\ j = i
    <3>1. acked[j] = g.acked[j]
      BY <2>6 DEF j
    <3>2. g.acked[j] = a /\ Put(a, off, b) = a /\ n.data[j] = Put(m.data[j], off, b)
      BY <1>3, <1>9, <2>6, <3>1 DEF a, stored
    <3>3. CASE e = <<>>
      <4>1. m.data[j] = a /\ n.data[j] = a /\ stored = m.data[i]
        BY <2>6, <2>a, <3>2, <3>3 DEF stored
      <4>2. Sound(k, n, q, acked[j])
        BY <2>3, <2>6, <2>b, <2>c, <3>1, <3>2, <3>3, <4>1
      <4> QED  BY <2>1, <2>6, <2>d, <2>f, <4>1, <4>2 DEF j
    <3>4. CASE e # <<>>
      <4>1. Put(m.data[j], p, e) = a
        BY <2>a, <3>2, <3>4
      <4>2. Put(Put(m.data[j], off, b), p, e) = a
        BY <1>2, <2>2, <3>2, <4>1, PutTwice
      <4>3. Put(n.data[j], p, e) = acked[j]
        BY <3>1, <3>2, <4>2
      <4>4. Sound(k, n, q, acked[j])
        BY <2>3, <2>6, <2>b, <2>c, <3>1, <3>4, <4>3
      <4> QED  BY <2>3, <2>e, <3>4, <4>4 DEF j
    <3> QED  BY <3>3, <3>4
  <2> QED  BY <2>4, <2>5, <2>6
<1>14. g.cut \ {h} \subseteq Handles /\ MovesDir(k, f, n)
  BY <1>4, GoodSettles DEF MovesDir, SameNames
<1>15. Stores(k) => \A q \in Handles : n.open[q].pend = <<>>
  BY <1>1, <1>7
<1> QED  BY <1>3, <1>9, <1>10, <1>12, <1>13, <1>14, <1>15 DEF Advances

(* A write that the stream holds back. *)
HeldBack(f, n, h, off, b) ==
  /\ n \in Files /\ SameNames(f, n) /\ n.data = f.data
  /\ \A q \in Handles \ {h} : n.open[q] = f.open[q]
  /\ n.open[h].ino = f.open[h].ino /\ n.open[h].mode = f.open[h].mode
  /\ n.open[h].sz = f.open[h].sz /\ n.open[h].off = off /\ n.open[h].pend = b /\ ~ n.open[h].old

LEMMA HeldAdvances ==
  ASSUME NEW k, NEW f, NEW g, Good(k, f, g), ~ Stores(k), NEW h \in Handles, IsOpen(f, h),
         NEW m, Seeks(k, f, g, h, m), NEW off \in Nat, NEW b \in Bytes, b # <<>>,
         NEW i, f.open[h].ino = i, NEW n, HeldBack(m, n, h, off, b),
         NEW acked, Acknowledged(acked, g.acked, i, Put(g.acked[i], off, b))
  PROVE  Advances(k, f, n, g, h, acked, g.cut \ {h}, {})
<1>1. /\ m \in Files /\ SameNames(f, m) /\ Used(m) = Used(f) /\ i \in Inodes
      /\ m.open[h].pend = <<>>
      /\ \A q \in Handles : m.open[q].ino = f.open[q].ino /\ (IsOpen(m, q) <=> IsOpen(f, q))
      /\ \A j \in Inodes \ Used(f) : m.data[j] = <<>>
      /\ \A j \in Inodes \ g.raced : Settles(m, j, g.acked[j])
      /\ \A j : Holders(m, j) = Holders(f, j) \ {h}
      /\ \A q \in g.alone : Sound(k, m, q, g.acked[f.open[q].ino]) /\ (q \notin g.cut => Fresh(m, q))
  BY DEF Seeks
<1>2. /\ n \in Files /\ SameNames(m, n) /\ n.data = m.data
      /\ \A q \in Handles \ {h} : n.open[q] = m.open[q]
      /\ n.open[h].ino = m.open[h].ino /\ n.open[h].off = off /\ n.open[h].pend = b
  BY DEF HeldBack
<1>3. \A q \in Handles : n.open[q].ino = f.open[q].ino /\ (IsOpen(n, q) <=> IsOpen(f, q))
  BY <1>1, <1>2 DEF IsOpen
<1>4. SameNames(f, n) /\ Used(n) = Used(f) /\ Used(f) \subseteq Inodes
  <2>1. SameNames(f, n)
    BY <1>1, <1>2 DEF SameNames
  <2> QED  BY <1>3, <2>1, UsedSame DEF SameNames, Used
<1>5. /\ g.acked \in [Inodes -> Bytes] /\ acked \in [Inodes -> Bytes]
      /\ acked[i] = Put(g.acked[i], off, b) /\ \A j \in Inodes \ {i} : acked[j] = g.acked[j]
      /\ m.data \in [Inodes -> Bytes]
  BY <1>1, GoodSettles DEF Acknowledged, Files
<1>6. ASSUME NEW j \in Used(n) \ (g.raced \cup {}),
             acked[j] = g.acked[j] \/ Holders(f, j) \subseteq {h}
      PROVE  Settles(n, j, acked[j])
  <2> DEFINE H == Holders(m, j)
  <2>1. j \in Inodes /\ Settles(m, j, g.acked[j]) /\ acked[j] \in Bytes /\ g.acked[j] \in Bytes
        /\ m.data[j] \in Bytes
    BY <1>1, <1>4, <1>5, <1>6
  <2>2. Comes(m.data[j], H, m.open, g.acked[j]) /\ Holding(H, m.open)
    BY <1>1, <2>1, SettlesIs, HoldersHold
  <2>3. h \notin H /\ H = Holders(f, j) \ {h}
    BY <1>1
  <2>4. CASE j # i
    <3>1. Holders(n, j) = H
      BY <1>1, <1>2, <1>3, <2>4 DEF Holders
    <3>2. \A q \in H : SameStream(m.open[q], n.open[q])
      BY <1>2, <2>3 DEF Holders, SameStream
    <3> QED  BY <1>1, <1>2, <1>5, <2>1, <2>4, <3>1, <3>2, SettlesSame
  <2>5. CASE j = i
    <3>1. Holders(n, j) = H \cup {h}
      BY <1>1, <1>2, <1>3, <2>5 DEF Holders
    <3>2. \A q \in H : n.open[q].off = m.open[q].off /\ n.open[q].pend = m.open[q].pend
      BY <1>2, <2>3 DEF Holders
    <3>3. H = {} \/ Put(g.acked[j], off, b) = g.acked[j]
      BY <1>5, <1>6, <2>3, <2>5
    <3> HIDE DEF H
    <3>4. Comes(m.data[j], H \cup {h}, n.open, Put(g.acked[j], n.open[h].off, n.open[h].pend))
      <4>1. n.open[h].off \in Nat /\ n.open[h].pend \in Bytes
        BY <1>2
      <4>2. H = {} \/ Put(g.acked[j], n.open[h].off, n.open[h].pend) = g.acked[j]
        BY <1>2, <3>3
      <4>3. m.data[j] \in Bytes /\ g.acked[j] \in Bytes /\ h \notin H
        BY <2>1, <2>3
      <4> QED  BY <2>2, <3>2, <4>1, <4>2, <4>3, HoldBack, ZenonT(60)
    <3>5. Comes(n.data[j], Holders(n, j), n.open, acked[j])
      BY <1>2, <1>5, <2>5, <3>1, <3>4
    <3> QED  BY <1>2, <2>1, <3>5, SettlesIs
  <2> QED  BY <2>4, <2>5
<1>7. Tracks(k, f, n, g, h, acked, g.cut \ {h}, {})
  <2> SUFFICES ASSUME NEW q \in g.alone, q = h \/ acked[f.open[q].ino] = g.acked[f.open[q].ino]
               PROVE  /\ Sound(k, n, q, acked[f.open[q].ino])
                      /\ q \notin g.cut \ {h} => Fresh(n, q)
    BY <1>3 DEF Tracks
  <2> DEFINE j == f.open[q].ino
  <2>1. /\ q \in Handles /\ Sound(k, m, q, g.acked[j]) /\ (q \notin g.cut => Fresh(m, q))
        /\ m.open[q].ino = j /\ n.open[q].ino = j
    BY <1>1, <1>3, GoodSettles
  <2>2. k # "SDMC"
    BY DEF Stores, WriteThrough
  <2> HIDE DEF j
  <2>3. CASE q = h
    <3>1. j = i
      BY <2>3 DEF j
    <3>2. m.data[i] = g.acked[i]
      BY <1>1, <2>1, <2>3, <3>1 DEF Sound, PassesOn
    <3>3. PassesOn(n, q, acked[j])
      BY <1>2, <1>5, <2>1, <2>3, <3>1, <3>2 DEF PassesOn
    <3>4. Fresh(n, q)
      BY <1>2, <2>3 DEF Fresh
    <3> QED  BY <2>2, <3>3, <3>4 DEF Sound, j
  <2>4. CASE q # h
    <3>1. n.open[q] = m.open[q] /\ n.data = m.data
      BY <1>2, <2>1, <2>4
    <3>2. acked[j] = g.acked[j]
      BY <2>4 DEF j
    <3>3. Sound(k, n, q, acked[j])
      BY <2>1, <3>1, <3>2 DEF Sound, PassesOn
    <3>4. q \notin g.cut => Fresh(n, q)
      BY <2>1, <3>1 DEF Fresh
    <3> QED  BY <2>4, <3>3, <3>4 DEF j
  <2> QED  BY <2>3, <2>4
<1>8. \A j \in Inodes \ Used(n) : n.data[j] = <<>>
  BY <1>1, <1>2, <1>4
<1>9. g.cut \ {h} \subseteq Handles /\ MovesDir(k, f, n) /\ k # "RomFS"
  BY <1>4, GoodSettles DEF MovesDir, SameNames, Stores
<1> QED  BY <1>2, <1>5, <1>6, <1>7, <1>8, <1>9 DEF Advances

(* A file is given another size, past all streams. *)
LEMMA ResizeIs ==
  ASSUME NEW c \in Bytes, NEW n \in Nat
  PROVE  Resize(c, n) \in Bytes /\ Len(Resize(c, n)) = n
<1>1. \A k \in 1 .. n : Byte(c, k) \in Nat
  BY DEF Byte, Bytes
<1>2. [k \in 1 .. n |-> Byte(c, k)] \in Seq(Nat) /\ Len([k \in 1 .. n |-> Byte(c, k)]) = n
  BY <1>1
<1> QED  BY <1>2 DEF Resize, Bytes

Resized(f, n, h, i, c, sz) ==
  /\ n \in Files /\ SameNames(f, n)
  /\ n.data[i] = c /\ \A j \in Inodes \ {i} : n.data[j] = f.data[j]
  /\ \A q \in Handles : /\ n.open[q].ino = f.open[q].ino /\ n.open[q].mode = f.open[q].mode
                        /\ n.open[q].off = f.open[q].off /\ n.open[q].pend = f.open[q].pend
                        /\ n.open[q].sz = IF q = h THEN sz ELSE f.open[q].sz
                        /\ f.open[q].ino # i \/ f.data[i] = c => n.open[q].old = f.open[q].old

LEMMA ResizedAdvances ==
  ASSUME NEW k, NEW f, NEW g, Good(k, f, g), k # "RomFS", NEW h \in Handles, IsOpen(f, h),
         NEW i, f.open[h].ino = i, NEW sz \in Nat,
         NEW n, Resized(f, n, h, i, Resize(f.data[i], sz), sz),
         NEW acked, Acknowledged(acked, g.acked, i, Resize(g.acked[i], sz)),
         NEW torn, torn = IF Holders(f, i) # {} THEN {i} ELSE {}
  PROVE  Advances(k, f, n, g, h, acked, g.cut \cup {h}, torn)
<1> DEFINE c == Resize(f.data[i], sz)
           a == Resize(g.acked[i], sz)
<1>1. f \in Files /\ i \in Inodes
  BY GoodSettles, StreamTypes
<1>2. /\ n \in Files /\ SameNames(f, n)
      /\ n.data[i] = c /\ \A j \in Inodes \ {i} : n.data[j] = f.data[j]
      /\ \A q \in Handles : /\ n.open[q].ino = f.open[q].ino /\ n.open[q].mode = f.open[q].mode
                            /\ n.open[q].off = f.open[q].off /\ n.open[q].pend = f.open[q].pend
                            /\ n.open[q].sz = IF q = h THEN sz ELSE f.open[q].sz
                            /\ f.open[q].ino # i \/ f.data[i] = c => n.open[q].old = f.open[q].old
  BY DEF Resized
<1>3. /\ g.acked \in [Inodes -> Bytes] /\ acked \in [Inodes -> Bytes]
      /\ acked[i] = a /\ \A j \in Inodes \ {i} : acked[j] = g.acked[j]
      /\ f.data \in [Inodes -> Bytes]
  BY <1>1, GoodSettles DEF Acknowledged, Files
<1>4. Len(a) = sz
  BY <1>1, <1>3, ResizeIs
<1>5. f.data[i] = g.acked[i] => c = a
  OBVIOUS
<1> HIDE DEF c, a
<1>6. Used(n) = Used(f) /\ Used(f) \subseteq Inodes /\ \A q \in Handles : IsOpen(n, q) <=> IsOpen(f, q)
  BY <1>2, UsedSame DEF SameNames, Used, IsOpen
<1>7. \A j \in Inodes \ Used(n) : n.data[j] = <<>>
  <2>1. i \in Used(f)
    BY <1>1 DEF Used
  <2> QED  BY <1>2, <1>6, <2>1, GoodSettles
<1>8. \A j : Holders(n, j) = Holders(f, j)
  BY <1>2 DEF Holders
<1>9. Holders(f, i) = {} /\ i \notin g.raced => f.data[i] = g.acked[i]
  BY <1>1, <1>3, SettledFile, GoodSettles
<1>10. ASSUME NEW j \in Used(n) \ (g.raced \cup torn)
       PROVE  Settles(n, j, acked[j])
  <2>1. j \in Inodes /\ Settles(f, j, g.acked[j]) /\ acked[j] \in Bytes /\ g.acked[j] \in Bytes
    BY <1>3, <1>6, <1>10, GoodSettles
  <2>2. CASE j # i
    <3>1. Comes(f.data[j], Holders(f, j), f.open, acked[j])
      BY <1>1, <1>3, <2>1, <2>2, SettlesIs
    <3>2. \A q \in Holders(f, j) : n.open[q].off = f.open[q].off /\ n.open[q].pend = f.open[q].pend
      BY <1>2 DEF Holders
    <3>3. Comes(f.data[j], Holders(f, j), n.open, acked[j])
      BY <3>1, <3>2, SameHeld
    <3>4. Comes(n.data[j], Holders(n, j), n.open, acked[j])
      BY <1>2, <1>8, <2>1, <2>2, <3>3
    <3> QED  BY <1>2, <2>1, <3>4, SettlesIs
  <2>3. CASE j = i
    <3>1. Holders(f, i) = {} /\ i \notin g.raced
      BY <1>10, <2>3
    <3>2. n.data[j] = acked[j] /\ Holders(n, j) = {}
      BY <1>2, <1>3, <1>5, <1>8, <1>9, <2>3, <3>1
    <3> QED  BY <1>2, <2>1, <3>2, SettledFile
  <2> QED  BY <2>2, <2>3
<1>11. Tracks(k, f, n, g, h, acked, g.cut \cup {h}, torn)
  <2> SUFFICES ASSUME NEW q \in g.alone, q = h \/ acked[f.open[q].ino] = g.acked[f.open[q].ino],
                      f.open[q].ino \notin g.raced \cup torn
               PROVE  /\ Sound(k, n, q, acked[f.open[q].ino])
                      /\ q \notin g.cut \cup {h} => Fresh(n, q)
    BY <1>2, <1>6 DEF Tracks
  <2> DEFINE j == f.open[q].ino
  <2>1. /\ q \in Handles /\ j \in Inodes /\ Sound(k, f, q, g.acked[j]) /\ (q \notin g.cut => Fresh(f, q))
    BY GoodSettles
  <2>2. /\ n.open[q].ino = j /\ n.open[q].mode = f.open[q].mode
        /\ n.open[q].off = f.open[q].off /\ n.open[q].pend = f.open[q].pend
        /\ n.open[q].sz = IF q = h THEN sz ELSE f.open[q].sz
        /\ j # i \/ f.data[i] = c => n.open[q].old = f.open[q].old
    BY <1>2, <2>1
  <2>3. j \notin g.raced \cup torn
    OBVIOUS
  <2>4. q = h => j = i
    OBVIOUS
  <2>5. q = h \/ acked[j] = g.acked[j]
    OBVIOUS
  <2>6. f.open[q].ino = j
    OBVIOUS
  <2> HIDE DEF j
  <2>7. CASE j # i
    <3>1. q # h /\ n.data[j] = f.data[j] /\ acked[j] = g.acked[j]
      BY <1>2, <1>3, <2>1, <2>4, <2>7
    <3>2. Sound(k, n, q, acked[j])
      BY <2>1, <2>2, <2>6, <3>1 DEF Sound, PassesOn
    <3>3. q \notin g.cut => Fresh(n, q)
      BY <2>1, <2>2, <2>7 DEF Fresh
    <3> QED  BY <3>2, <3>3 DEF j
  <2>8. CASE j = i
    <3>1. Holders(f, i) = {} /\ f.data[i] = g.acked[i]
      BY <1>9, <2>3, <2>8
    <3>2. n.open[q].pend = <<>> /\ n.data[j] = acked[j]
      BY <1>2, <1>3, <1>5, <2>1, <2>2, <2>6, <2>8, <3>1 DEF Holders
    <3>3. PassesOn(n, q, acked[j])
      BY <2>2, <3>2 DEF PassesOn
    <3>4. k = "SDMC" /\ n.open[q].mode = "rw" => n.open[q].sz = Len(acked[j])
      <4>1. CASE q = h
        BY <1>3, <1>4, <2>2, <2>8, <4>1
      <4>2. CASE q # h
        BY <2>1, <2>2, <2>5, <4>2 DEF Sound
      <4> QED  BY <4>1, <4>2
    <3>5. q \notin g.cut \cup {h} => Fresh(n, q)
      <4>1. ASSUME q \notin g.cut \cup {h} PROVE Fresh(n, q)
        <5>1. f.data[i] = c
          BY <1>3, <1>5, <2>5, <2>8, <3>1, <4>1
        <5> QED  BY <2>1, <2>2, <4>1, <5>1 DEF Fresh
      <4> QED  BY <4>1
    <3>6. k = "SDMC" => n.open[q].mode # "w"
      BY <2>1, <2>2 DEF Sound
    <3> QED  BY <3>3, <3>4, <3>5, <3>6 DEF Sound, j
  <2> QED  BY <2>7, <2>8
<1>12. g.cut \cup {h} \subseteq Handles /\ MovesDir(k, f, n)
  BY <1>2, GoodSettles DEF MovesDir, SameNames
<1>13. Stores(k) => torn = {} /\ \A q \in Handles : n.open[q].pend = <<>>
  BY <1>2, GoodSettles DEF Holders
<1> QED  BY <1>2, <1>3, <1>7, <1>10, <1>11, <1>12, <1>13 DEF Advances

-----------------------------------------------------------------------------
(* Names come and go, and files are opened: no stream that is open passes   *)
(* on or loses anything.                                                    *)

(* A file that was there and is left alone, and one that is new or emptied. *)
LeftAlone(f, n, g, acked, i) ==
  /\ i \in Used(f) /\ acked[i] = g.acked[i] /\ n.data[i] = f.data[i]
  /\ \A q \in Handles : f.open[q].ino = i => n.open[q].old = f.open[q].old

NewFile(f, n, acked, i) == i \notin Used(f) /\ acked[i] = n.data[i]

Emptied(f, n, acked, i) ==
  /\ acked[i] = <<>> /\ n.data[i] = <<>>
  /\ f.data[i] = <<>> => \A q \in Handles : f.open[q].ino = i => n.open[q].old = f.open[q].old

LEMMA OpenAdvances ==
  ASSUME NEW k, NEW f, NEW g, Good(k, f, g), NEW n \in Files, MovesDir(k, f, n),
         NEW acked \in [Inodes -> Bytes],
         \A i \in Inodes \ Used(n) : n.data[i] = <<>>,
         \A q \in Handles : IsOpen(f, q) => SameStream(f.open[q], n.open[q]),
         \A q \in Handles : ~ IsOpen(f, q) =>
            /\ IsOpen(n, q) => /\ ~ n.open[q].old /\ n.open[q].pend = <<>>
                               /\ n.open[q].mode = "rw" => n.open[q].sz = Len(n.data[n.open[q].ino])
                               /\ k = "SDMC" => n.open[q].mode # "w"
            /\ Stores(k) => n.open[q].pend = <<>>,
         \A i \in Used(n) : \/ LeftAlone(f, n, g, acked, i)
                            \/ NewFile(f, n, acked, i)
                            \/ Emptied(f, n, acked, i),
         k = "RomFS" => /\ n.tree = f.tree /\ acked[1] = g.acked[1]
                        /\ \A q \in Handles : IsOpen(n, q) => n.open[q].ino = 1 /\ IsDir(n, Root)
  PROVE  Advances(k, f, n, g, NoHandle, acked, g.cut, {})
<1>1. /\ f \in Files /\ g.acked \in [Inodes -> Bytes] /\ f.data \in [Inodes -> Bytes]
      /\ n.data \in [Inodes -> Bytes] /\ Used(n) \subseteq Inodes /\ g.cut \subseteq Handles
  BY GoodSettles DEF Files, Used
<1>2. \A j \in Inodes : Holders(n, j) = Holders(f, j)
  <2>1. ASSUME NEW j \in Inodes, NEW q \in Handles
        PROVE  n.open[q].ino = j /\ n.open[q].pend # <<>> <=> f.open[q].ino = j /\ f.open[q].pend # <<>>
    <3>1. CASE IsOpen(f, q)
      BY <3>1 DEF SameStream
    <3>2. CASE ~ IsOpen(f, q) /\ IsOpen(n, q)
      BY <1>1, <3>2, StreamTypes
    <3>3. CASE ~ IsOpen(f, q) /\ ~ IsOpen(n, q)
      BY <1>1, <3>3, StreamTypes
    <3> QED  BY <3>1, <3>2, <3>3
  <2> QED  BY <2>1 DEF Holders
<1>3. \A j \in Inodes : \A q \in Holders(f, j) : n.open[q].off = f.open[q].off /\ n.open[q].pend = f.open[q].pend
  <2>1. ASSUME NEW j \in Inodes, NEW q \in Holders(f, j)
        PROVE  n.open[q].off = f.open[q].off /\ n.open[q].pend = f.open[q].pend
    <3>1. q \in Handles /\ IsOpen(f, q)
      BY <1>1, StreamTypes DEF Holders
    <3> QED  BY <3>1 DEF SameStream
  <2> QED  BY <2>1
<1>4. \A q \in Handles : IsOpen(f, q) => IsOpen(n, q) /\ n.open[q].ino = f.open[q].ino
  BY DEF IsOpen, SameStream
(* An emptied file of which something was acknowledged that is not lost. *)
<1>5. ASSUME NEW j \in Inodes \ g.raced, acked[j] = g.acked[j] \/ Holders(f, j) = {}, acked[j] = <<>>
      PROVE  Holders(f, j) = {} /\ (acked[j] = g.acked[j] => f.data[j] = <<>>)
  <2>1. CASE acked[j] = g.acked[j]
    <3>1. Comes(f.data[j], Holders(f, j), f.open, <<>>) /\ Holding(Holders(f, j), f.open)
      BY <1>1, <1>5, <2>1, GoodSettles, SettlesIs, HoldersHold
    <3>2. ASSUME NEW q \in Holders(f, j) PROVE FALSE
      <4>1. f.open[q].off + Len(f.open[q].pend) <= 0 /\ f.open[q].off \in Nat /\ f.open[q].pend \in Bytes
        BY <3>1 DEF Comes, Holding
      <4>2. f.open[q].pend = <<>>
        BY <4>1 DEF Bytes
      <4> QED  BY <4>2 DEF Holders
    <3>3. Holders(f, j) = {}
      BY <3>2
    <3> QED  BY <1>1, <1>5, <2>1, <3>3, GoodSettles, SettledFile
  <2>2. CASE acked[j] # g.acked[j]
    BY <1>5, <2>2
  <2> QED  BY <2>1, <2>2
<1>6. ASSUME NEW j \in Used(n) \ (g.raced \cup {}),
             acked[j] = g.acked[j] \/ Holders(f, j) \subseteq {NoHandle}
      PROVE  Settles(n, j, acked[j])
  <2>1. j \in Inodes /\ acked[j] \in Bytes /\ g.acked[j] \in Bytes
    BY <1>1, <1>6
  <2>2. acked[j] = g.acked[j] \/ Holders(f, j) = {}
    BY <1>6, HostAssumption DEF Holders
  <2>3. CASE LeftAlone(f, n, g, acked, j)
    <3>1. Comes(f.data[j], Holders(f, j), f.open, acked[j])
      BY <1>1, <1>6, <2>1, <2>3, GoodSettles, SettlesIs DEF LeftAlone
    <3>2. Comes(f.data[j], Holders(f, j), n.open, acked[j])
      BY <1>3, <2>1, <3>1, SameHeld
    <3> QED  BY <1>2, <2>1, <2>3, <3>2, SettlesIs DEF LeftAlone
  <2>4. CASE NewFile(f, n, acked, j)
    <3>1. Holders(f, j) = {}
      BY <2>4 DEF NewFile, Used, Holders
    <3> QED  BY <1>2, <2>1, <2>4, <3>1, SettledFile DEF NewFile
  <2>5. CASE Emptied(f, n, acked, j)
    <3>1. Holders(f, j) = {}
      BY <1>5, <1>6, <2>1, <2>2, <2>5 DEF Emptied
    <3> QED  BY <1>2, <2>1, <2>5, <3>1, SettledFile DEF Emptied
  <2> QED  BY <1>6, <2>3, <2>4, <2>5
<1>7. ASSUME NEW q \in Handles, IsOpen(n, q), n.open[q].ino \notin g.raced \cup {},
             IsOpen(f, q), q \in g.alone, acked[n.open[q].ino] = g.acked[n.open[q].ino]
      PROVE  Sound(k, n, q, acked[n.open[q].ino]) /\ (q \notin g.cut => Fresh(n, q))
  <2> DEFINE j == n.open[q].ino
  <2>1. f.open[q].ino = j /\ SameStream(f.open[q], n.open[q]) /\ j \in Inodes /\ j \in Used(n) /\ j \in Used(f)
    BY <1>1, <1>4, <1>7, StreamTypes DEF Used
  <2>2. Sound(k, f, q, g.acked[j]) /\ (q \notin g.cut => Fresh(f, q))
    BY <1>7, <2>1, GoodSettles
  <2>3. acked[j] = g.acked[j] /\ j \notin g.raced
    BY <1>7
  <2> HIDE DEF j
  <2>4. n.data[j] = f.data[j] /\ n.open[q].old = f.open[q].old
    <3>1. CASE LeftAlone(f, n, g, acked, j)
      BY <2>1, <3>1 DEF LeftAlone
    <3>2. CASE NewFile(f, n, acked, j)
      BY <2>1, <3>2 DEF NewFile
    <3>3. CASE Emptied(f, n, acked, j)
      <4>1. f.data[j] = <<>>
        BY <1>5, <2>1, <2>3, <3>3 DEF Emptied
      <4> QED  BY <2>1, <3>3, <4>1 DEF Emptied
    <3> QED  BY <2>1, <3>1, <3>2, <3>3
  <2>5. Sound(k, n, q, acked[j]) /\ (q \notin g.cut => Fresh(n, q))
    BY <2>1, <2>2, <2>3, <2>4 DEF Sound, PassesOn, Fresh, SameStream
  <2> QED  BY <2>5 DEF j
<1>8. ASSUME NEW q \in Handles, IsOpen(n, q), ~ IsOpen(f, q), acked[n.open[q].ino] = n.data[n.open[q].ino]
      PROVE  Sound(k, n, q, acked[n.open[q].ino]) /\ Fresh(n, q)
  BY <1>8 DEF Sound, PassesOn, Fresh
<1>9. Tracks(k, f, n, g, NoHandle, acked, g.cut, {})
  <2>1. \A q \in Handles : q # NoHandle
    BY HostAssumption
  <2> QED  BY <1>7, <1>8, <2>1 DEF Tracks
<1>10. Stores(k) => \A q \in Handles : n.open[q].pend = <<>>
  <2>1. ASSUME Stores(k), NEW q \in Handles PROVE n.open[q].pend = <<>>
    <3>1. f.open[q].pend = <<>>
      BY <2>1, GoodSettles
    <3>2. CASE IsOpen(f, q)
      BY <3>1, <3>2 DEF SameStream
    <3>3. CASE ~ IsOpen(f, q)
      BY <2>1, <3>3
    <3> QED  BY <3>2, <3>3
  <2> QED  BY <2>1
<1> QED  BY <1>1, <1>6, <1>9, <1>10 DEF Advances

(* The names change, and no stream does. *)
Moves(k, f, n) ==
  /\ n \in Files /\ n.open = f.open /\ MovesDir(k, f, n)
  /\ \A i \in Used(f) \cap Used(n) : n.data[i] = f.data[i]
  /\ \A i \in Inodes \ Used(n) : n.data[i] = <<>>
  /\ k = "RomFS" => n.tree = f.tree

LEMMA MovesAdvance ==
  ASSUME NEW k, NEW f, NEW g, Good(k, f, g), NEW n, Moves(k, f, n),
         NEW acked, acked = [i \in Inodes |-> IF i \in Used(f) THEN g.acked[i] ELSE n.data[i]]
  PROVE  Advances(k, f, n, g, NoHandle, acked, g.cut, {})
<1>1. /\ n \in Files /\ n.open = f.open /\ MovesDir(k, f, n)
      /\ \A i \in Used(f) \cap Used(n) : n.data[i] = f.data[i]
      /\ \A i \in Inodes \ Used(n) : n.data[i] = <<>>
      /\ k = "RomFS" => n.tree = f.tree
  BY DEF Moves
<1>2. f \in Files /\ g.acked \in [Inodes -> Bytes] /\ n.data \in [Inodes -> Bytes]
      /\ \A i \in Inodes \ Used(f) : g.acked[i] = <<>>
  BY <1>1, GoodSettles DEF Files
<1>3. acked \in [Inodes -> Bytes]
  BY <1>2
<1>4. Used(n) \subseteq Inodes /\ Used(f) \subseteq Inodes
  BY DEF Used
<1>5. /\ \A i \in Used(f) : acked[i] = g.acked[i]
      /\ \A i \in Inodes \ Used(f) : acked[i] = n.data[i]
  BY <1>4
<1>6. \A i \in Used(n) : LeftAlone(f, n, g, acked, i) \/ NewFile(f, n, acked, i)
  BY <1>1, <1>4, <1>5 DEF LeftAlone, NewFile
<1>7. \A q \in Handles : SameStream(f.open[q], n.open[q]) /\ (IsOpen(n, q) <=> IsOpen(f, q))
  BY <1>1 DEF SameStream, IsOpen
<1>8. ASSUME k = "RomFS"
      PROVE  /\ n.tree = f.tree /\ acked[1] = g.acked[1]
             /\ \A q \in Handles : IsOpen(n, q) => n.open[q].ino = 1 /\ IsDir(n, Root)
  <2>1. n.tree = f.tree /\ Used(n) = Used(f)
    BY <1>1, <1>8, UsedSame
  <2>2. acked[1] = g.acked[1]
    <3>1. CASE 1 \in Used(f)
      BY <1>5, <3>1
    <3>2. CASE 1 \in Inodes \ Used(f)
      BY <1>1, <1>2, <1>5, <2>1, <3>2
    <3>3. CASE 1 \notin Inodes
      <4>1. Inodes = {}
        BY <3>3, FileNumbers DEF Inodes
      <4> QED  BY <1>2, <1>3, <4>1
    <3> QED  BY <3>1, <3>2, <3>3
  <2>3. \A q \in Handles : IsOpen(n, q) => n.open[q].ino = 1 /\ IsDir(n, Root)
    BY <1>1, <1>7, <1>8, <2>1 DEF Good, RomStays, IsDir, At
  <2> QED  BY <2>1, <2>2, <2>3
<1>9. Stores(k) => \A q \in Handles : n.open[q].pend = <<>>
  BY <1>1, GoodSettles
<1> QED  BY <1>1, <1>3, <1>6, <1>7, <1>8, <1>9, OpenAdvances

-----------------------------------------------------------------------------
(* There are more file numbers than names and streams that can use them.    *)
LEMMA FreeInode ==
  ASSUME NEW f \in Files, NEW p \in Names, f.tree[p] = Absent
  PROVE  \E i \in Inodes : i \notin Used(f)
<1> SUFFICES ASSUME Inodes \subseteq Used(f) PROVE FALSE
  OBVIOUS
<1> DEFINE N == Names \ {p}
           A == {f.tree[m] : m \in N}
           B == {f.open[h].ino : h \in Handles}
           byName == [m \in N |-> f.tree[m]]
           byHandle == [h \in Handles |-> f.open[h].ino]
<1>1. IsFiniteSet(Names) /\ IsFiniteSet(Handles) /\ Cardinality(Names) \in Nat /\ Cardinality(Handles) \in Nat
  BY HostAssumption, FS_CardinalityType
<1>2. IsFiniteSet(N) /\ Cardinality(N) = Cardinality(Names) - 1
  BY <1>1, FS_RemoveElement
<1>3. IsFiniteSet(A) /\ Cardinality(A) <= Cardinality(Names) - 1
  <2>1. byName \in Surjection(N, A)
    BY DEF Surjection
  <2> HIDE DEF A, N, byName
  <2> QED  BY <1>2, <2>1, FS_Surjection
<1>4. IsFiniteSet(B) /\ Cardinality(B) <= Cardinality(Handles)
  <2>1. byHandle \in Surjection(Handles, B)
    BY DEF Surjection
  <2> HIDE DEF B, byHandle
  <2> QED  BY <1>1, <2>1, FS_Surjection
<1>5. Inodes \subseteq A \cup B
  <2>1. ASSUME NEW i \in Inodes PROVE i \in A \cup B
    <3>1. (\E m \in Names : f.tree[m] = i) \/ \E h \in Handles : f.open[h].ino = i
      BY <2>1 DEF Used
    <3>2. f.tree[p] # i
      BY FileNumbers
    <3> QED  BY <3>1, <3>2
  <2> QED  BY <2>1
<1> HIDE DEF A, B
<1>6. IsFiniteSet(A \cup B) /\ Cardinality(A \cup B) <= Cardinality(A) + Cardinality(B)
  <2>1. IsFiniteSet(A \cup B) /\ Cardinality(A \cup B) = Cardinality(A) + Cardinality(B) - Cardinality(A \cap B)
    BY <1>3, <1>4, FS_Union
  <2>2. IsFiniteSet(A \cap B)
    BY <1>3, FS_Subset
  <2>3. Cardinality(A \cap B) \in Nat /\ Cardinality(A) \in Nat /\ Cardinality(B) \in Nat
    BY <1>3, <1>4, <2>2, FS_CardinalityType
  <2> QED  BY <2>1, <2>3
<1>7. IsFiniteSet(Inodes) /\ Cardinality(Inodes) = Cardinality(Names) + Cardinality(Handles)
  <2> DEFINE c == Cardinality(Names) + Cardinality(Handles)
  <2>1. c \in Int /\ c \in Nat /\ Inodes = 1 .. c
    BY <1>1 DEF Inodes
  <2> HIDE DEF c
  <2>2. IsFiniteSet(1 .. c) /\ Cardinality(1 .. c) = IF 1 > c THEN 0 ELSE c - 1 + 1
    BY <2>1, FS_Interval
  <2>3. Cardinality(1 .. c) = c
    BY <2>1, <2>2
  <2> QED  BY <2>1, <2>2, <2>3 DEF c
<1>8. Cardinality(Inodes) <= Cardinality(A \cup B)
  BY <1>5, <1>6, FS_Subset
<1>9. Cardinality(A) \in Nat /\ Cardinality(B) \in Nat /\ Cardinality(A \cup B) \in Nat
  BY <1>3, <1>4, <1>6, FS_CardinalityType
<1> QED  BY <1>1, <1>3, <1>4, <1>6, <1>7, <1>8, <1>9

(* A tree in which one entry has been changed. *)
LEMMA EntryIs ==
  ASSUME NEW f \in Files, NEW p \in Names \cup {Root}, NEW x \in {Absent, Directory} \cup Inodes,
         NEW n, n = [f EXCEPT !.tree[p] = x]
  PROVE  /\ n \in Files /\ n.open = f.open /\ n.data = f.data /\ n.dir = f.dir /\ n.up = f.up
         /\ n.tree[p] = x /\ \A m \in (Names \cup {Root}) \ {p} : n.tree[m] = f.tree[m]
BY DEF Files

LEMMA CreatedIs ==
  ASSUME NEW f \in Files, NEW p, MayCreate(f, p), NEW n, n = Created(f, p)
  PROVE  /\ p \in Names /\ n \in Files /\ n.open = f.open /\ n.data = f.data /\ n.dir = f.dir
         /\ n.tree[p] \in Inodes \ Used(f) /\ Used(n) = Used(f) \cup {n.tree[p]}
         /\ \A m \in (Names \cup {Root}) \ {p} : n.tree[m] = f.tree[m]
<1> DEFINE i == CHOOSE j \in Inodes : j \notin Used(f)
<1>1. p \in Names /\ f.tree[Root] = Directory /\ At(f, p) = Absent
  BY DEF MayCreate
<1>2. p # Unsafe /\ Directory # Absent
  BY <1>1, HostAssumption DEF Directory, Absent
<1>3. f.tree[p] = Absent
  BY <1>1, <1>2 DEF At
<1>4. i \in Inodes /\ i \notin Used(f)
  BY <1>1, <1>3, FreeInode
<1>5. n = [f EXCEPT !.tree[p] = i]
  BY DEF Created
<1> HIDE DEF i
<1>6. /\ n \in Files /\ n.open = f.open /\ n.data = f.data /\ n.dir = f.dir
      /\ n.tree[p] = i /\ \A m \in (Names \cup {Root}) \ {p} : n.tree[m] = f.tree[m]
  BY <1>1, <1>4, <1>5, EntryIs
<1>7. Used(n) = Used(f) \cup {i}
  <2>1. ASSUME NEW j \in Inodes PROVE j \in Used(n) <=> j \in Used(f) \/ j = i
    <3>1. (\E m \in Names : n.tree[m] = j) <=> (\E m \in Names : f.tree[m] = j) \/ j = i
      <4>1. \A m \in Names \ {p} : n.tree[m] = f.tree[m]
        BY <1>6
      <4>2. f.tree[p] # j
        BY <1>3, FileNumbers
      <4> QED  BY <1>1, <1>6, <4>1, <4>2
    <3> QED  BY <1>6, <3>1 DEF Used
  <2>2. Used(n) \subseteq Inodes /\ Used(f) \subseteq Inodes
    BY DEF Used
  <2> QED  BY <1>4, <2>1, <2>2
<1> QED  BY <1>1, <1>4, <1>6, <1>7

LEMMA SameMoves ==
  ASSUME NEW k, NEW f, NEW g, Good(k, f, g)
  PROVE  Moves(k, f, f) /\ Moves(k, f, [f EXCEPT !.up = FALSE])
<1>1. f \in Files /\ \A i \in Inodes \ Used(f) : f.data[i] = <<>>
  BY GoodSettles
<1> DEFINE n == [f EXCEPT !.up = FALSE]
<1>2. n \in Files /\ n.open = f.open /\ n.data = f.data /\ n.dir = f.dir /\ n.tree = f.tree
  BY <1>1 DEF Files
<1>3. Moves(k, f, f)
  BY <1>1 DEF Moves, MovesDir
<1> HIDE DEF n
<1>4. Used(n) = Used(f)
  BY <1>2, UsedSame
<1>5. Moves(k, f, n)
  BY <1>1, <1>2, <1>4 DEF Moves, MovesDir
<1> QED  BY <1>3, <1>5 DEF n

LEMMA CreatedMoves ==
  ASSUME NEW k, k # "RomFS", NEW f, NEW g, Good(k, f, g), NEW p, MayCreate(f, p), NEW c \in Bytes,
         NEW n, n = [Created(f, p) EXCEPT !.data[Created(f, p).tree[p]] = c]
  PROVE  Moves(k, f, n)
<1> DEFINE m == Created(f, p)
           i == m.tree[p]
           data == [m.data EXCEPT ![i] = c]
<1>1. f \in Files /\ \A j \in Inodes \ Used(f) : f.data[j] = <<>>
  BY GoodSettles
<1>2. /\ m \in Files /\ m.open = f.open /\ m.data = f.data /\ m.dir = f.dir
      /\ i \in Inodes \ Used(f) /\ Used(m) = Used(f) \cup {i}
  BY <1>1, CreatedIs
<1>3. n = [m EXCEPT !.data = data]
  <2>1. n = [m EXCEPT !.data[i] = c]
    OBVIOUS
  <2> HIDE DEF m, i
  <2> QED  BY <1>2, <2>1 DEF Files
<1> HIDE DEF m, i
<1>4. data \in [Inodes -> Bytes] /\ \A j \in Inodes \ {i} : data[j] = f.data[j]
  BY <1>2 DEF Files
<1> HIDE DEF data
<1>5. n \in Files /\ n.open = f.open /\ n.dir = f.dir /\ n.tree = m.tree /\ n.data = data
  BY <1>2, <1>3, <1>4 DEF Files
<1>6. Used(n) = Used(f) \cup {i}
  BY <1>2, <1>5, UsedSame
<1>7. Used(f) \subseteq Inodes
  BY DEF Used
<1> QED  BY <1>1, <1>2, <1>4, <1>5, <1>6, <1>7 DEF Moves, MovesDir

(* Names that go away, with the files that nothing else keeps. *)
LEMMA TidyMoves ==
  ASSUME NEW k, k # "RomFS", NEW f, NEW g, Good(k, f, g), NEW e \in Files, e.open = f.open,
         e.data = f.data, e.dir = f.dir, NEW n, n = Tidy(e)
  PROVE  Moves(k, f, n)
<1>1. /\ n \in Files /\ SameNames(e, n) /\ n.open = e.open /\ Used(n) = Used(e)
      /\ \A i \in Used(e) : n.data[i] = e.data[i]
      /\ \A i \in Inodes \ Used(e) : n.data[i] = <<>>
  BY TidyIs
<1> QED  BY <1>1 DEF Moves, MovesDir, SameNames

LEMMA UnlinkedMoves ==
  ASSUME NEW k, k # "RomFS", NEW f, NEW g, Good(k, f, g), NEW p \in Paths, At(f, p) # Absent,
         NEW n, n = Unlinked(f, p)
  PROVE  Moves(k, f, n)
<1> DEFINE e == [f EXCEPT !.tree[p] = Absent]
<1>1. f \in Files /\ p \in Names \cup {Root}
  BY GoodSettles DEF At, Paths
<1>2. e \in Files /\ e.open = f.open /\ e.data = f.data /\ e.dir = f.dir
  BY <1>1, EntryIs
<1>3. n = Tidy(e)
  BY DEF Unlinked
<1> HIDE DEF e
<1> QED  BY <1>2, <1>3, TidyMoves

LEMMA RenamedMoves ==
  ASSUME NEW k, k # "RomFS", NEW f, NEW g, Good(k, f, g), NEW p \in Paths, NEW q \in Paths,
         MayRename(f, p, q), Unsafe \notin {p, q}, NEW n, n = Renamed(f, p, q)
  PROVE  Moves(k, f, n)
<1>1. CASE p = q
  BY <1>1, SameMoves DEF Renamed
<1>2. CASE p # q
  <2> DEFINE d == [f EXCEPT !.tree[q] = f.tree[p]]
             e == [d EXCEPT !.tree[p] = Absent]
  <2>1. f \in Files /\ p \in Names \cup {Root} /\ q \in Names \cup {Root}
    BY GoodSettles DEF Paths
  <2>2. f.tree[p] \in {Absent, Directory} \cup Inodes
    BY <2>1 DEF Files
  <2>3. d \in Files /\ d.open = f.open /\ d.data = f.data /\ d.dir = f.dir
    BY <2>1, <2>2, EntryIs
  <2>4. n = Tidy(e)
    BY <1>2 DEF Renamed
  <2>5. e \in Files /\ e.open = d.open /\ e.data = d.data /\ e.dir = d.dir
    <3> HIDE DEF d
    <3> QED  BY <2>1, <2>3, EntryIs
  <2> HIDE DEF d, e
  <2> QED  BY <2>3, <2>4, <2>5, TidyMoves
<1> QED  BY <1>1, <1>2

LEMMA MkdirMoves ==
  ASSUME NEW k, k # "RomFS", NEW f, NEW g, Good(k, f, g), NEW p \in Paths, MayMkdir(f, p),
         NEW n, n = [f EXCEPT !.tree[p] = Directory]
  PROVE  Moves(k, f, n)
<1>1. f \in Files /\ \A i \in Inodes \ Used(f) : f.data[i] = <<>>
  BY GoodSettles
<1>2. p \in Names \cup {Root} /\ f.tree[p] = Absent
  <2>1. CASE p = Root
    BY <2>1 DEF MayMkdir
  <2>2. CASE p # Root
    <3>1. p \in Names /\ f.tree[Root] = Directory /\ At(f, p) = Absent
      BY <2>2 DEF MayMkdir, MayCreate
    <3>2. p # Unsafe /\ Directory # Absent
      BY <3>1, HostAssumption DEF Directory, Absent
    <3> QED  BY <3>1, <3>2 DEF At
  <2> QED  BY <2>1, <2>2
<1>3. /\ n \in Files /\ n.open = f.open /\ n.data = f.data /\ n.dir = f.dir
      /\ n.tree[p] = Directory /\ \A m \in (Names \cup {Root}) \ {p} : n.tree[m] = f.tree[m]
  <2> DEFINE x == Directory
  <2>1. x \in {Absent, Directory} \cup Inodes /\ n = [f EXCEPT !.tree[p] = x]
    OBVIOUS
  <2> HIDE DEF x
  <2>2. /\ n \in Files /\ n.open = f.open /\ n.data = f.data /\ n.dir = f.dir
        /\ n.tree[p] = x /\ \A m \in (Names \cup {Root}) \ {p} : n.tree[m] = f.tree[m]
    <3>1. f \in Files /\ p \in Names \cup {Root}
      BY <1>1, <1>2
    <3> QED  BY <2>1, <3>1, SMTT(20) DEF Files
  <2> QED  BY <2>2 DEF x
<1>4. Used(n) = Used(f)
  <2>1. ASSUME NEW i \in Inodes, NEW m \in Names PROVE n.tree[m] = i <=> f.tree[m] = i
    <3>1. CASE m = p
      BY <1>2, <1>3, <3>1, FileNumbers
    <3>2. CASE m # p
      BY <1>3, <3>2
    <3> QED  BY <3>1, <3>2
  <2> QED  BY <1>3, <2>1 DEF Used
<1> QED  BY <1>1, <1>3, <1>4 DEF Moves, MovesDir

-----------------------------------------------------------------------------
(* The archives' functions that change names.                               *)

LEMMA RemoveMoves ==
  ASSUME NEW k, k # "RomFS", NEW f, NEW g, Good(k, f, g), NEW p \in Paths,
         NEW o \in {Remove(f, p), Rmdir(f, p)}
  PROVE  Moves(k, f, o.fs)
<1>1. Absent \notin Inodes /\ Directory # Absent
  BY FileNumbers DEF Directory, Absent
<1>2. MayRemove(f, p) => At(f, p) # Absent
  BY <1>1 DEF MayRemove, MayRmdir, IsFile, IsDir
<1>3. MayRmdir(f, p) => At(f, p) # Absent
  BY <1>1 DEF MayRmdir, IsDir
<1>4. o.fs = f \/ (At(f, p) # Absent /\ o.fs = Unlinked(f, p))
  BY <1>2, <1>3 DEF Remove, Rmdir, Try, Returns
<1>5. CASE o.fs = f
  <2>1. Moves(k, f, f)
    BY SameMoves
  <2> QED  BY <1>5, <2>1
<1>6. CASE At(f, p) # Absent /\ o.fs = Unlinked(f, p)
  BY <1>6, UnlinkedMoves
<1> QED  BY <1>4, <1>5, <1>6

LEMMA MkdirTriesMoves ==
  ASSUME NEW k, k # "RomFS", NEW f, NEW g, Good(k, f, g), NEW p \in Paths
  PROVE  Moves(k, f, Mkdir(f, p).fs)
<1>1. CASE ~ MayMkdir(f, p)
  <2>1. Mkdir(f, p).fs = f
    BY <1>1 DEF Mkdir, Try, Returns
  <2>2. Moves(k, f, f)
    BY SameMoves
  <2> QED  BY <2>1, <2>2
<1>2. CASE MayMkdir(f, p)
  <2> DEFINE n == [f EXCEPT !.tree[p] = Directory]
  <2>1. Mkdir(f, p).fs = n
    BY <1>2 DEF Mkdir, Try, Returns
  <2>2. n = [f EXCEPT !.tree[p] = Directory]
    OBVIOUS
  <2> HIDE DEF n
  <2>3. Moves(k, f, n)
    BY <1>2, <2>2, MkdirMoves
  <2> QED  BY <2>1, <2>3
<1> QED  BY <1>1, <1>2

LEMMA UnlessUnsafeMoves ==
  ASSUME NEW k, NEW f, NEW g, Good(k, f, g), NEW p, NEW x, Moves(k, f, x.fs),
         NEW o \in UnlessUnsafe(f, p, x)
  PROVE  Moves(k, f, o.fs)
<1>1. o.fs = f \/ o.fs = x.fs
  BY DEF UnlessUnsafe, Returns
<1>2. Moves(k, f, f)
  BY SameMoves
<1> QED  BY <1>1, <1>2

LEMMA RenameMoves ==
  ASSUME NEW k, k # "RomFS", NEW f, NEW g, Good(k, f, g), NEW p \in Paths, NEW q \in Paths,
         NEW o \in sdmc_Rename(f, p, q)
  PROVE  Moves(k, f, o.fs)
<1>1. o.fs = f \/ (MayRename(f, p, q) /\ Unsafe \notin {p, q} /\ o.fs = Renamed(f, p, q))
  BY DEF sdmc_Rename, Returns
<1>2. CASE o.fs = f
  <2>1. Moves(k, f, f)
    BY SameMoves
  <2> QED  BY <1>2, <2>1
<1>3. CASE MayRename(f, p, q) /\ Unsafe \notin {p, q} /\ o.fs = Renamed(f, p, q)
  BY <1>3, RenamedMoves
<1> QED  BY <1>1, <1>2, <1>3

LEMMA CreateMoves ==
  ASSUME NEW k, k # "RomFS", NEW f, NEW g, Good(k, f, g), NEW p, NEW n \in Nat,
         NEW o \in CreateEmptyFile(f, p, n)
  PROVE  Moves(k, f, o.fs)
<1> DEFINE made == Created(f, p)
           made2 == [made EXCEPT !.data[made.tree[p]] = Resize(<<>>, n)]
<1>1. o.fs = f \/ (MayCreate(f, p) /\ o.fs = made2)
  BY DEF CreateEmptyFile, Returns
<1>2. CASE o.fs = f
  <2>1. Moves(k, f, f)
    BY SameMoves
  <2> QED  BY <1>2, <2>1
<1>3. CASE MayCreate(f, p) /\ o.fs = made2
  <2>1. <<>> \in Bytes
    BY DEF Bytes
  <2>2. Resize(<<>>, n) \in Bytes
    BY <2>1, ResizeIs
  <2>3. Moves(k, f, made2)
    BY <1>3, <2>2, CreatedMoves
  <2> QED  BY <1>3, <2>3
<1> QED  BY <1>1, <1>2, <1>3

(* The directory stream. *)
LEMMA DirMoves ==
  ASSUME NEW k, NEW f, NEW g, Good(k, f, g), NEW d \in DirStreams,
         NEW n, n = [f EXCEPT !.dir = d],
         d = NoDir \/ (f.dir = NoDir /\ HasDirs(k) /\ \E p \in Paths : d = DirStream(f, p) /\ (p = Unsafe \/ IsDir(f, p)))
  PROVE  Moves(k, f, n)
<1>1. f \in Files /\ \A i \in Inodes \ Used(f) : f.data[i] = <<>>
  BY GoodSettles
<1>2. n \in Files /\ n.open = f.open /\ n.data = f.data /\ n.dir = d /\ n.tree = f.tree
  BY <1>1 DEF Files
<1>3. Used(n) = Used(f)
  BY <1>2, UsedSame
<1>4. \A p : DirStream(n, p) = DirStream(f, p) /\ (IsDir(n, p) <=> IsDir(f, p))
  BY <1>2 DEF DirStream, Entries, IsDir, At
<1>5. MovesDir(k, f, n)
  BY <1>2, <1>4 DEF MovesDir
<1> QED  BY <1>1, <1>2, <1>3, <1>5 DEF Moves

LEMMA DirStreamTyped ==
  ASSUME NEW f \in Files, NEW p \in Paths
  PROVE  DirStream(f, p) \in DirStreams /\ NoDir \in DirStreams
<1>1. Entries(f, p) \subseteq EntryName
  BY DEF Entries, EntryName
<1> QED  BY <1>1 DEF DirStream, DirStreams, NoDir

LEMMA OpenDirMoves ==
  ASSUME NEW k, HasDirs(k), NEW f, NEW g, Good(k, f, g), f.dir = NoDir, NEW p \in Paths,
         NEW o \in OpenStreamDir(f, p)
  PROVE  Moves(k, f, o.fs)
<1> DEFINE d == DirStream(f, p)
           n == [f EXCEPT !.dir = d]
<1>1. o.fs = f \/ ((p = Unsafe \/ IsDir(f, p)) /\ o.fs = n)
  BY DEF OpenStreamDir, Opens, OpensNone, Gives, Returns
<1>2. CASE o.fs = f
  <2>1. Moves(k, f, f)
    BY SameMoves
  <2> QED  BY <1>2, <2>1
<1>3. CASE (p = Unsafe \/ IsDir(f, p)) /\ o.fs = n
  <2>1. d \in DirStreams /\ d = DirStream(f, p)
    BY DirStreamTyped, GoodSettles
  <2>2. n = [f EXCEPT !.dir = d]
    OBVIOUS
  <2> HIDE DEF n, d
  <2>3. Moves(k, f, n)
    BY <1>3, <2>1, <2>2, DirMoves
  <2> QED  BY <1>3, <2>3
<1> QED  BY <1>1, <1>2, <1>3

-----------------------------------------------------------------------------
(* The archive that is open offers what its type has.                       *)

Able(k, a, f) ==
  /\ "DeleteFile" \in a.fns => k \in {"SDMC", "SaveData", "ExtData", "SharedExtData", "SysData"}
  /\ "RenameFile" \in a.fns \/ "RenameDir" \in a.fns => k = "SDMC"
  /\ "DeleteDir" \in a.fns => k \in {"SDMC", "SharedExtData", "SysData", "SaveDatacheck"}
  /\ "CreateDir" \in a.fns => k \in {"SDMC", "SaveData", "ExtData", "SysData", "SaveDatacheck"}
  /\ "OpenDir" \in a.fns \/ "CreateFile" \in a.fns => HasDirs(k)
  /\ k = "RomFS" /\ a.fns # {} => IsDir(f, Root)

IInv == kind \in Kinds /\ Good(kind, fs, guest) /\ Able(kind, arch, fs)

LEMMA LearnsInvariant ==
  ASSUME IInv, NEW by, NEW n, NEW acked, NEW cut, NEW torn,
         Advances(kind, fs, n, guest, by, acked, cut, torn), Learns(by, n, acked, cut, torn),
         fs' = n, UNCHANGED <<kind, arch>>
  PROVE  IInv'
<1>1. Good(kind, n, guest')
  BY LearnsKeeps DEF IInv
<1>2. Good(kind, fs, guest)'
  BY <1>1
<1>3. kind = "RomFS" => n.tree = fs.tree
  BY DEF Advances
<1>4. Able(kind, arch, fs)'
  BY <1>3 DEF IInv, Able, IsDir, At
<1> QED  BY <1>2, <1>4 DEF IInv

LEMMA DoesKeeps ==
  ASSUME IInv, NEW o, NEW rc, NEW by, NEW acked, NEW cut, NEW torn,
         Advances(kind, fs, o.fs, guest, by, acked, cut, torn), Does(o, rc, by, acked, cut, torn)
  PROVE  IInv'
BY LearnsInvariant DEF Does

LEMMA ChangesKeeps ==
  ASSUME IInv, NEW o, NEW rc, Moves(kind, fs, o.fs), Changes(o, rc)
  PROVE  IInv'
<1> DEFINE acked == [i \in Inodes |-> IF i \in Used(fs) THEN guest.acked[i] ELSE o.fs.data[i]]
<1>1. acked = [i \in Inodes |-> IF i \in Used(fs) THEN guest.acked[i] ELSE o.fs.data[i]]
  OBVIOUS
<1>2. Does(o, rc, NoHandle, acked, guest.cut, {})
  BY DEF Changes
<1> HIDE DEF acked
<1>3. Advances(kind, fs, o.fs, guest, NoHandle, acked, guest.cut, {})
  BY <1>1, MovesAdvance DEF IInv
<1> QED  BY <1>2, <1>3, DoesKeeps

LEMMA AnswersKeeps == ASSUME IInv, NEW rc, NEW h, Answers(rc, h) PROVE IInv'
<1>1. UNCHANGED <<kind, fs, arch, guest>>
  BY DEF Answers
<1>2. Good(kind, fs, guest)'
  BY <1>1 DEF IInv
<1>3. Able(kind, arch, fs)'
  BY <1>1 DEF IInv, Able, IsDir, At
<1> QED  BY <1>1, <1>2, <1>3 DEF IInv

-----------------------------------------------------------------------------
(* The commands that change names. *)

LEMMA DeletesKeep ==
  ASSUME IInv, kind # "RomFS", NEW p \in Paths,
         NEW o \in UnlessUnsafe(fs, p, Remove(fs, p)) \cup UnlessUnsafe(fs, p, Rmdir(fs, p))
                   \cup sysdata_DeleteFile(fs, p)
  PROVE  Moves(kind, fs, o.fs)
<1>1. Good(kind, fs, guest)
  BY DEF IInv
<1>2. Moves(kind, fs, Remove(fs, p).fs) /\ Moves(kind, fs, Rmdir(fs, p).fs) /\ Moves(kind, fs, fs)
  BY <1>1, RemoveMoves, SameMoves
<1>3. CASE o \in UnlessUnsafe(fs, p, Remove(fs, p))
  BY <1>1, <1>2, <1>3, UnlessUnsafeMoves
<1>4. CASE o \in UnlessUnsafe(fs, p, Rmdir(fs, p))
  BY <1>1, <1>2, <1>4, UnlessUnsafeMoves
<1>5. CASE o \in sysdata_DeleteFile(fs, p)
  <2>1. o.fs = fs \/ o.fs = Remove(fs, p).fs
    BY <1>5 DEF sysdata_DeleteFile, Returns
  <2> QED  BY <1>2, <2>1
<1> QED  BY <1>3, <1>4, <1>5

LEMMA DeleteFileKeeps == ASSUME IInv, DeleteFile PROVE IInv'
<1>1. CASE NotImplemented("DeleteFile")
  BY <1>1, AnswersKeeps DEF NotImplemented
<1>2. CASE /\ "DeleteFile" \in arch.fns
           /\ \E p \in Paths : \E o \in fnDeleteFile(p) : Changes(o, Ok)
  <2>1. PICK p \in Paths : \E o \in fnDeleteFile(p) : Changes(o, Ok)
    BY <1>2
  <2>2. PICK o \in fnDeleteFile(p) : Changes(o, Ok)
    BY <2>1
  <2>3. kind \in {"SDMC", "SaveData", "ExtData", "SharedExtData", "SysData"} /\ kind # "RomFS"
    BY <1>2 DEF IInv, Able
  <2>4. o \in UnlessUnsafe(fs, p, Remove(fs, p)) \cup UnlessUnsafe(fs, p, Rmdir(fs, p))
              \cup sysdata_DeleteFile(fs, p)
    BY <2>2, <2>3 DEF fnDeleteFile, sdmc_DeleteFile, savedata_DeleteDir, extsavedata_DeleteDir,
       sharedextd_DeleteFile
  <2> QED  BY <2>2, <2>3, <2>4, DeletesKeep, ChangesKeeps
<1> QED  BY <1>1, <1>2 DEF DeleteFile

LEMMA DeleteDirKeeps ==
  ASSUME IInv, "DeleteDir" \in arch.fns, NEW p \in Paths, NEW o \in fnDeleteDir(p), Changes(o, o.ret)
  PROVE  IInv'
<1>1. kind \in {"SDMC", "SharedExtData", "SysData", "SaveDatacheck"} /\ kind # "RomFS"
  BY DEF IInv, Able
<1>2. o \in UnlessUnsafe(fs, p, Rmdir(fs, p))
  BY <1>1 DEF fnDeleteDir, sdmc_DeleteDir, sharedextd_DeleteDir, sysdata_DeleteDir, SaveDatacheck_DeleteDir
<1> QED  BY <1>1, <1>2, DeletesKeep, ChangesKeeps

LEMMA DeleteDirectoryKeeps == ASSUME IInv, DeleteDirectory \/ DeleteDirectoryRecursively PROVE IInv'
<1>1. CASE NotImplemented("DeleteDir")
  BY <1>1, AnswersKeeps DEF NotImplemented
<1>2. CASE /\ "DeleteDir" \in arch.fns
           /\ \E p \in Paths : \E o \in fnDeleteDir(p) : Changes(o, o.ret)
  BY <1>2, DeleteDirKeeps
<1> QED  BY <1>1, <1>2 DEF DeleteDirectory, DeleteDirectoryRecursively

LEMMA RenamesKeep == ASSUME IInv, RenameFile \/ RenameDirectory PROVE IInv'
<1>1. CASE NotImplemented("RenameFile") \/ NotImplemented("RenameDir")
  BY <1>1, AnswersKeeps DEF NotImplemented
<1>2. CASE /\ "RenameFile" \in arch.fns \/ "RenameDir" \in arch.fns
           /\ \E p, q \in Paths : \E o \in sdmc_Rename(fs, p, q) : Changes(o, o.ret)
  <2>1. PICK p \in Paths, q \in Paths : \E o \in sdmc_Rename(fs, p, q) : Changes(o, o.ret)
    BY <1>2
  <2>2. PICK o \in sdmc_Rename(fs, p, q) : Changes(o, o.ret)
    BY <2>1
  <2>3. kind # "RomFS" /\ Good(kind, fs, guest)
    BY <1>2 DEF IInv, Able
  <2>4. Moves(kind, fs, o.fs)
    BY <2>3, RenameMoves
  <2> QED  BY <2>2, <2>4, ChangesKeeps
<1> QED  BY <1>1, <1>2 DEF RenameFile, RenameDirectory, fnRenameFile, fnRenameDir

LEMMA MkdirKeeps ==
  ASSUME IInv, kind # "RomFS", NEW p \in Paths, NEW o \in UnlessUnsafe(fs, p, Mkdir(fs, p)),
         NEW rc, Changes(o, rc)
  PROVE  IInv'
<1>1. Good(kind, fs, guest)
  BY DEF IInv
<1>2. Moves(kind, fs, Mkdir(fs, p).fs)
  BY <1>1, MkdirTriesMoves
<1>3. Moves(kind, fs, o.fs)
  BY <1>1, <1>2, UnlessUnsafeMoves
<1> QED  BY <1>3, ChangesKeeps

LEMMA CreateDirectoryKeeps == ASSUME IInv, CreateDirectory PROVE IInv'
<1>1. CASE NotImplemented("CreateDir")
  BY <1>1, AnswersKeeps DEF NotImplemented
<1>2. CASE /\ "CreateDir" \in arch.fns
           /\ \E p \in Paths : \E o \in fnCreateDir(p) : Changes(o, o.ret)
  <2>1. PICK p \in Paths : \E o \in fnCreateDir(p) : Changes(o, o.ret)
    BY <1>2
  <2>2. PICK o \in fnCreateDir(p) : Changes(o, o.ret)
    BY <2>1
  <2>3. kind \in {"SDMC", "SaveData", "ExtData", "SysData", "SaveDatacheck"} /\ kind # "RomFS"
    BY <1>2 DEF IInv, Able
  <2>4. o \in UnlessUnsafe(fs, p, Mkdir(fs, p))
    BY <2>2, <2>3 DEF fnCreateDir, sdmc_CreateDir, savedata_CreateDir, extsavedata_CreateDir,
       sysdata_CreateDir, SaveDatacheck_CreateDir
  <2> QED  BY <2>2, <2>3, <2>4, MkdirKeeps
<1> QED  BY <1>1, <1>2 DEF CreateDirectory

LEMMA FormatsKeep == ASSUME IInv, FormatThisUserSaveData \/ FormatSaveData PROVE IInv'
<1>1. kind # "RomFS" /\ Changes(Mkdir(fs, Root), Ok) /\ Root \in Paths /\ Good(kind, fs, guest)
  BY DEF FormatThisUserSaveData, FormatSaveData, Paths, IInv
<1>2. Moves(kind, fs, Mkdir(fs, Root).fs)
  BY <1>1, MkdirTriesMoves
<1> QED  BY <1>1, <1>2, ChangesKeeps

LEMMA CreateFileKeeps == ASSUME IInv, CreateFile PROVE IInv'
<1>1. CASE NotImplemented("CreateFile")
  BY <1>1, AnswersKeeps DEF NotImplemented
<1>2. CASE /\ "CreateFile" \in arch.fns
           /\ \E p \in Paths, n \in Sizes : \E o \in fnCreateFile(p, n) : Changes(o, o.ret)
  <2>1. PICK p \in Paths, n \in Sizes : \E o \in fnCreateFile(p, n) : Changes(o, o.ret)
    BY <1>2
  <2>2. PICK o \in fnCreateFile(p, n) : Changes(o, o.ret)
    BY <2>1
  <2>3. HasDirs(kind) /\ Good(kind, fs, guest)
    BY <1>2 DEF IInv, Able
  <2>4. kind # "RomFS" /\ n \in Nat
    BY <2>3, FsAssumption DEF HasDirs
  <2>5. o \in CreateEmptyFile(fs, p, n)
    BY <2>2, <2>3 DEF HasDirs, fnCreateFile, sdmc_CreateFile, savedata_CreateFile,
       extsavedata_CreateFile, sharedextdfile_CreateFile
  <2>6. Moves(kind, fs, o.fs)
    BY <2>3, <2>4, <2>5, CreateMoves
  <2> QED  BY <2>2, <2>6, ChangesKeeps
<1> QED  BY <1>1, <1>2 DEF CreateFile

LEMMA OpenDirectoryKeeps == ASSUME IInv, OpenDirectory PROVE IInv'
<1>1. CASE NotImplemented("OpenDir")
  BY <1>1, AnswersKeeps DEF NotImplemented
<1>2. CASE /\ "OpenDir" \in arch.fns
           /\ fs.dir = NoDir /\ AllClosed
           /\ \E p \in Paths : \E o \in fnOpenDir(p) :
                  Changes(o, IF o.out = <<>> THEN NotFound ELSE Ok)
  <2>1. PICK p \in Paths : \E o \in fnOpenDir(p) : Changes(o, IF o.out = <<>> THEN NotFound ELSE Ok)
    BY <1>2
  <2>2. PICK o \in fnOpenDir(p) : Changes(o, IF o.out = <<>> THEN NotFound ELSE Ok)
    BY <2>1
  <2>3. HasDirs(kind) /\ Good(kind, fs, guest)
    BY <1>2 DEF IInv, Able
  <2>4. o \in OpenStreamDir(fs, p)
    BY <2>2, <2>3 DEF HasDirs, fnOpenDir, sdmc_OpenDir, savedata_OpenDir, extsavedata_OpenDir,
       sharedextd_OpenDir
  <2>5. Moves(kind, fs, o.fs)
    BY <1>2, <2>3, <2>4, OpenDirMoves
  <2> QED  BY <2>2, <2>5, ChangesKeeps
<1> QED  BY <1>1, <1>2 DEF OpenDirectory

LEMMA CloseDirKeeps == ASSUME IInv, CloseDir PROVE IInv'
<1> DEFINE d == NoDir
           n == [fs EXCEPT !.dir = d]
<1>1. Changes(Returns(n, Ok), Ok) /\ Returns(n, Ok).fs = n
  BY DEF CloseDir, Returns
<1>2. Good(kind, fs, guest) /\ d \in DirStreams /\ d = NoDir
  BY DEF IInv, NoDir, DirStreams
<1>3. n = [fs EXCEPT !.dir = d]
  OBVIOUS
<1> HIDE DEF n, d
<1>4. Moves(kind, fs, n)
  BY <1>2, <1>3, DirMoves
<1> QED  BY <1>1, <1>4, ChangesKeeps

LEMMA OpenArchiveKeeps ==
  ASSUME IInv, NEW t, NEW mapped, OpenArchive(t, mapped)
  PROVE  IInv'
<1>1. arch' = fnOpenArchive(t, mapped) /\ UNCHANGED <<kind, fs, guest>>
  BY DEF OpenArchive
<1>2. Good(kind, fs, guest)'
  BY <1>1 DEF IInv
<1>3. kind \in {"SDMC", "SaveData", "ExtData", "SharedExtData", "SysData", "SaveDatacheck", "RomFS"}
  BY FsAssumption DEF IInv
<1>4. Able(kind, fnOpenArchive(t, mapped), fs)
  <2> USE DEF fnOpenArchive, Able, OpenedArchive, NoArchive, HasDirs
  <2>1. CASE kind = "SDMC"
    BY <2>1 DEF sdmc_OpenArchive
  <2>2. CASE kind = "SaveData"
    BY <2>2 DEF savedata_OpenArchive, SaveDataFns
  <2>3. CASE kind = "ExtData"
    BY <2>3 DEF extsavedata_OpenArchive, SaveDataFns
  <2>4. CASE kind = "SharedExtData"
    BY <2>4 DEF sharedextd_OpenArchive
  <2>5. CASE kind = "SysData"
    BY <2>5 DEF sysdata_OpenArchive
  <2>6. CASE kind = "SaveDatacheck"
    BY <2>6 DEF SaveDatacheck_OpenArchive
  <2>7. CASE kind = "RomFS"
    BY <2>7 DEF romfs_OpenArchive
  <2> QED  BY <1>3, <2>1, <2>2, <2>3, <2>4, <2>5, <2>6, <2>7
<1>5. Able(kind, arch, fs)'
  BY <1>1, <1>4 DEF Able, IsDir, At
<1> QED  BY <1>1, <1>2, <1>5 DEF IInv

LEMMA CloseArchiveKeeps == ASSUME IInv, CloseArchive PROVE IInv'
<1>1. arch' = NoArchive /\ UNCHANGED <<kind, fs, guest>>
  BY DEF CloseArchive
<1>2. Good(kind, fs, guest)'
  BY <1>1 DEF IInv
<1>3. Able(kind, arch, fs)'
  BY <1>1 DEF Able, NoArchive
<1> QED  BY <1>1, <1>2, <1>3 DEF IInv

-----------------------------------------------------------------------------
(* Opening files. *)

Modes == {"r", "rw", "w", "raw"}

(* The file i has been found in f or made, which has led to m. *)
Found(f, m, i) ==
  /\ m \in Files /\ m.open = f.open /\ m.data = f.data /\ m.dir = f.dir
  /\ i \in Inodes /\ Used(m) \cup {i} = Used(f) \cup {i}

(* The file i has got the stream h and, if emptied, lost its bytes. *)
Opening(f, n, h, i, emptied) ==
  /\ n \in Files /\ n.dir = f.dir /\ i \in Inodes /\ Used(n) = Used(f) \cup {i}
  /\ h \in Handles /\ ~ IsOpen(f, h)
  /\ n.open[h].ino = i /\ n.open[h].pend = <<>> /\ ~ n.open[h].old
  /\ n.open[h].mode = "rw" => n.open[h].sz = Len(n.data[i])
  /\ ~ emptied => n.open[h].mode # "w"
  /\ \A q \in Handles \ {h} :
       /\ SameStream(f.open[q], n.open[q])
       /\ ~ emptied \/ f.open[q].ino # i \/ f.data[i] = <<>> => n.open[q].old = f.open[q].old
  /\ \A j \in Inodes \ {i} : n.data[j] = f.data[j]
  /\ n.data[i] = IF emptied THEN <<>> ELSE f.data[i]

LEMMA OpeningAdvances ==
  ASSUME NEW k, NEW f, NEW g, Good(k, f, g), NEW n, NEW h, NEW i, NEW emptied \in BOOLEAN,
         Opening(f, n, h, i, emptied),
         k = "RomFS" => ~ emptied /\ i = 1 /\ n.tree = f.tree /\ IsDir(f, Root),
         k = "SDMC" => ~ emptied,
         NEW acked, acked = [j \in Inodes |-> IF j \notin Used(f) \/ (j = i /\ emptied)
                                              THEN n.data[j] ELSE g.acked[j]]
  PROVE  Advances(k, f, n, g, NoHandle, acked, g.cut, {})
<1>1. /\ n \in Files /\ n.dir = f.dir /\ i \in Inodes /\ Used(n) = Used(f) \cup {i}
      /\ h \in Handles /\ ~ IsOpen(f, h)
      /\ n.open[h].ino = i /\ n.open[h].pend = <<>> /\ ~ n.open[h].old
      /\ n.open[h].mode = "rw" => n.open[h].sz = Len(n.data[i])
      /\ k = "SDMC" => n.open[h].mode # "w"
      /\ \A q \in Handles \ {h} :
           /\ SameStream(f.open[q], n.open[q])
           /\ ~ emptied \/ f.open[q].ino # i \/ f.data[i] = <<>> => n.open[q].old = f.open[q].old
      /\ \A j \in Inodes \ {i} : n.data[j] = f.data[j]
      /\ n.data[i] = IF emptied THEN <<>> ELSE f.data[i]
  BY DEF Opening
<1>2. /\ f \in Files /\ g.acked \in [Inodes -> Bytes] /\ n.data \in [Inodes -> Bytes]
      /\ Used(f) \subseteq Inodes /\ \A j \in Inodes \ Used(f) : f.data[j] = <<>>
  BY <1>1, GoodSettles DEF Files, Used
<1>3. /\ acked \in [Inodes -> Bytes]
      /\ \A j \in Inodes : acked[j] = IF j \notin Used(f) \/ (j = i /\ emptied) THEN n.data[j] ELSE g.acked[j]
  BY <1>2
<1>4. ASSUME NEW j \in Used(n)
      PROVE  \/ LeftAlone(f, n, g, acked, j)
             \/ NewFile(f, n, acked, j)
             \/ Emptied(f, n, acked, j)
  <2>1. j \in Inodes
    BY <1>1, <1>2
  <2>2. \A q \in Handles : f.open[q].ino = j => q # h
    BY <1>1, <1>2, <2>1, StreamTypes
  <2>3. CASE j \notin Used(f)
    BY <1>3, <2>1, <2>3 DEF NewFile
  <2>4. CASE j \in Used(f) /\ ~ (j = i /\ emptied)
    <3>1. acked[j] = g.acked[j] /\ n.data[j] = f.data[j]
      BY <1>1, <1>3, <2>1, <2>4
    <3>2. \A q \in Handles : f.open[q].ino = j => n.open[q].old = f.open[q].old
      BY <1>1, <2>2, <2>4
    <3> QED  BY <2>4, <3>1, <3>2 DEF LeftAlone
  <2>5. CASE j = i /\ emptied
    <3>1. acked[j] = <<>> /\ n.data[j] = <<>>
      BY <1>1, <1>3, <2>1, <2>5
    <3>2. f.data[j] = <<>> => \A q \in Handles : f.open[q].ino = j => n.open[q].old = f.open[q].old
      BY <1>1, <2>2, <2>5
    <3> QED  BY <3>1, <3>2 DEF Emptied
  <2> QED  BY <2>3, <2>4, <2>5
<1>5. \A j \in Inodes \ Used(n) : n.data[j] = <<>>
  BY <1>1, <1>2
<1>6. \A q \in Handles : IsOpen(f, q) => SameStream(f.open[q], n.open[q])
  BY <1>1
<1>7. ASSUME NEW q \in Handles, ~ IsOpen(f, q)
      PROVE  /\ IsOpen(n, q) => /\ ~ n.open[q].old /\ n.open[q].pend = <<>>
                                /\ n.open[q].mode = "rw" => n.open[q].sz = Len(n.data[n.open[q].ino])
                                /\ k = "SDMC" => n.open[q].mode # "w"
             /\ Stores(k) => n.open[q].pend = <<>>
  <2>1. CASE q = h
    BY <1>1, <2>1
  <2>2. CASE q # h
    <3>1. SameStream(f.open[q], n.open[q])
      BY <1>1, <2>2
    <3>2. ~ IsOpen(n, q)
      BY <1>7, <3>1 DEF IsOpen, SameStream
    <3>3. Stores(k) => n.open[q].pend = <<>>
      BY <3>1, GoodSettles DEF SameStream
    <3> QED  BY <3>2, <3>3
  <2> QED  BY <2>1, <2>2
<1>8. ASSUME k = "RomFS"
      PROVE  /\ n.tree = f.tree /\ acked[1] = g.acked[1]
             /\ \A q \in Handles : IsOpen(n, q) => n.open[q].ino = 1 /\ IsDir(n, Root)
  <2>1. ~ emptied /\ i = 1 /\ n.tree = f.tree /\ IsDir(f, Root)
    BY <1>8
  <2>2. 1 \in Used(f)
    BY <1>1, <1>8, <2>1 DEF Good, RomStays, Used
  <2>3. IsDir(n, Root)
    BY <2>1 DEF IsDir, At
  <2>4. \A q \in Handles : IsOpen(f, q) => f.open[q].ino = 1
    BY <1>8 DEF Good, RomStays
  <2>5. ASSUME NEW q \in Handles, IsOpen(n, q) PROVE n.open[q].ino = 1
    <3>1. CASE q = h
      BY <1>1, <2>1, <3>1
    <3>2. CASE q # h
      <4>1. SameStream(f.open[q], n.open[q])
        BY <1>1, <3>2
      <4> QED  BY <2>4, <2>5, <4>1 DEF SameStream, IsOpen
    <3> QED  BY <3>1, <3>2
  <2>6. acked[1] = g.acked[1]
    BY <1>1, <1>3, <2>1, <2>2
  <2> QED  BY <2>1, <2>3, <2>5, <2>6
<1>9. MovesDir(k, f, n)
  BY <1>1 DEF MovesDir
<1> QED  BY <1>1, <1>3, <1>4, <1>5, <1>6, <1>7, <1>8, <1>9, OpenAdvances

(* fopen on a file that is not emptied, and on one that is. *)
NewStream(m, n, h, i, mode) ==
  /\ h \in Handles /\ ~ IsOpen(m, h) /\ n \in Files /\ SameNames(m, n) /\ n.data = m.data
  /\ \A q \in Handles \ {h} : n.open[q] = m.open[q]
  /\ n.open[h].ino = i /\ n.open[h].mode = mode /\ n.open[h].sz = Len(m.data[i])
  /\ n.open[h].pend = <<>> /\ ~ n.open[h].old

LEMMA OpenedIs ==
  ASSUME NEW m \in Files, NEW i \in Inodes, NEW mode \in Modes, NEW o \in Opened(m, i, mode)
  PROVE  \E h \in Handles : o.out = <<h>> /\ NewStream(m, o.fs, h, i, mode)
<1> DEFINE t == [NoStream EXCEPT !.ino = i, !.mode = mode, !.sz = Len(m.data[i])]
<1>1. PICK h \in FreeHandles(m) : o = Opens([m EXCEPT !.open[h] = t], h)
  BY DEF Opened
<1> DEFINE open == [m.open EXCEPT ![h] = t]
<1>2. o.out = <<h>> /\ o.fs = [m EXCEPT !.open = open]
  BY <1>1 DEF Opens, Gives, Files
<1>3. h \in Handles /\ ~ IsOpen(m, h)
  BY DEF FreeHandles
<1>4. /\ t \in Stream /\ t.ino = i /\ t.mode = mode /\ t.sz = Len(m.data[i]) /\ t.pend = <<>> /\ ~ t.old
  <2>1. Len(m.data[i]) \in Nat /\ <<>> \in Bytes
    BY DEF Files, Bytes
  <2> QED  BY <2>1 DEF NoStream, Stream, Modes
<1> HIDE DEF t
<1>5. open \in [Handles -> Stream] /\ open[h] = t /\ \A q \in Handles \ {h} : open[q] = m.open[q]
  BY <1>3, <1>4 DEF Files
<1> HIDE DEF open
<1>6. o.fs \in Files /\ SameNames(m, o.fs) /\ o.fs.data = m.data /\ o.fs.open = open
  BY <1>2, <1>5 DEF Files, SameNames
<1>7. NewStream(m, o.fs, h, i, mode)
  BY <1>3, <1>4, <1>5, <1>6 DEF NewStream
<1> QED  BY <1>2, <1>3, <1>7

LEMMA UsedGrows ==
  ASSUME NEW m, NEW n, NEW h \in Handles, NEW i \in Inodes, n.tree = m.tree, ~ IsOpen(m, h), n.open[h].ino = i,
         \A q \in Handles \ {h} : n.open[q].ino = m.open[q].ino
  PROVE  Used(n) = Used(m) \cup {i}
<1>1. ASSUME NEW j \in Inodes
      PROVE  (\E q \in Handles : n.open[q].ino = j) <=> (\E q \in Handles : m.open[q].ino = j) \/ j = i
  <2>1. m.open[h].ino # j
    BY FileNumbers DEF IsOpen
  <2> QED  BY <2>1
<1> QED  BY <1>1 DEF Used

LEMMA FoundOpening ==
  ASSUME NEW f \in Files, NEW m, NEW i, Found(f, m, i), NEW mode \in Modes \ {"w"}, NEW n, NEW h,
         NewStream(m, n, h, i, mode)
  PROVE  Opening(f, n, h, i, FALSE)
<1>1. /\ m \in Files /\ m.open = f.open /\ m.data = f.data /\ m.dir = f.dir
      /\ i \in Inodes /\ Used(m) \cup {i} = Used(f) \cup {i}
  BY DEF Found
<1>2. /\ h \in Handles /\ ~ IsOpen(m, h) /\ n \in Files /\ SameNames(m, n) /\ n.data = m.data
      /\ \A q \in Handles \ {h} : n.open[q] = m.open[q]
      /\ n.open[h].ino = i /\ n.open[h].mode = mode /\ n.open[h].sz = Len(m.data[i])
      /\ n.open[h].pend = <<>> /\ ~ n.open[h].old
  BY DEF NewStream
<1>3. Used(n) = Used(m) \cup {i}
  <2>1. n.tree = m.tree /\ \A q \in Handles \ {h} : n.open[q].ino = m.open[q].ino
    BY <1>2 DEF SameNames
  <2>2. h \in Handles /\ i \in Inodes /\ ~ IsOpen(m, h) /\ n.open[h].ino = i
    BY <1>1, <1>2
  <2> QED  BY <2>1, <2>2, UsedGrows, SMTT(30)
<1>4. ~ IsOpen(f, h) /\ n.dir = f.dir
  BY <1>1, <1>2 DEF IsOpen, SameNames
<1>5. \A q \in Handles \ {h} : SameStream(f.open[q], n.open[q]) /\ n.open[q].old = f.open[q].old
  BY <1>1, <1>2 DEF SameStream
<1> QED  BY <1>1, <1>2, <1>3, <1>4, <1>5 DEF Opening

Emptying(m, e, i) ==
  /\ e \in Files /\ SameNames(m, e)
  /\ e.data[i] = <<>> /\ \A j \in Inodes \ {i} : e.data[j] = m.data[j]
  /\ \A q \in Handles : /\ SameStream(m.open[q], e.open[q])
                        /\ m.open[q].ino # i \/ m.data[i] = <<>> => e.open[q].old = m.open[q].old

LEMMA EmptyingIs ==
  ASSUME NEW m \in Files, NEW i \in Inodes
  PROVE  Emptying(m, Stored(m, NoHandle, i, <<>>), i)
<1> DEFINE c == <<>>
           e == Stored(m, NoHandle, i, c)
<1>1. e = Stored(m, NoHandle, i, c) /\ c \in Bytes
  BY DEF Bytes
<1> HIDE DEF e, c
<1>2. StoredAs(m, e, NoHandle, i, c)
  BY <1>1, StoredIs
<1>3. \A q \in Handles : m.open[q].old \in BOOLEAN /\ q # NoHandle
  BY HostAssumption DEF Files, Stream
<1>4. Emptying(m, e, i)
  BY <1>2, <1>3 DEF Emptying, StoredAs, c
<1> QED  BY <1>4 DEF e, c

LEMMA EmptiedOpening ==
  ASSUME NEW f \in Files, NEW m, NEW i, Found(f, m, i), NEW mode \in Modes, NEW e, NEW n, NEW h,
         Emptying(m, e, i), NewStream(e, n, h, i, mode)
  PROVE  Opening(f, n, h, i, TRUE)
<1>1. /\ m \in Files /\ m.open = f.open /\ m.data = f.data /\ m.dir = f.dir
      /\ i \in Inodes /\ Used(m) \cup {i} = Used(f) \cup {i}
  BY DEF Found
<1>2. /\ h \in Handles /\ ~ IsOpen(e, h) /\ n \in Files /\ SameNames(e, n) /\ n.data = e.data
      /\ \A q \in Handles \ {h} : n.open[q] = e.open[q]
      /\ n.open[h].ino = i /\ n.open[h].mode = mode /\ n.open[h].sz = Len(e.data[i])
      /\ n.open[h].pend = <<>> /\ ~ n.open[h].old
  BY DEF NewStream
<1>4. /\ e \in Files /\ SameNames(m, e)
      /\ e.data[i] = <<>> /\ \A j \in Inodes \ {i} : e.data[j] = m.data[j]
      /\ \A q \in Handles : /\ SameStream(m.open[q], e.open[q])
                            /\ m.open[q].ino # i \/ m.data[i] = <<>> => e.open[q].old = m.open[q].old
  BY DEF Emptying
<1>5. Used(e) = Used(m)
  BY <1>4, UsedSame DEF SameNames, SameStream
<1>6. Used(n) = Used(e) \cup {i}
  BY <1>1, <1>2, UsedGrows DEF SameNames
<1>7. ~ IsOpen(f, h) /\ n.dir = f.dir
  BY <1>1, <1>2, <1>4 DEF IsOpen, SameNames, SameStream
<1>8. ASSUME NEW q \in Handles \ {h}
      PROVE  /\ SameStream(f.open[q], n.open[q])
             /\ f.open[q].ino # i \/ f.data[i] = <<>> => n.open[q].old = f.open[q].old
  <2>1. SameStream(m.open[q], e.open[q]) /\ n.open[q] = e.open[q] /\ m.open[q] = f.open[q]
    BY <1>1, <1>2, <1>4
  <2>2. f.open[q].ino # i \/ f.data[i] = <<>> => e.open[q].old = m.open[q].old
    BY <1>1, <1>4
  <2> QED  BY <2>1, <2>2
<1> QED  BY <1>1, <1>2, <1>4, <1>5, <1>6, <1>7, <1>8 DEF Opening

LEMMA FoundMade ==
  ASSUME NEW f \in Files, NEW p, NEW m, m = f \/ (MayCreate(f, p) /\ m = Created(f, p)), IsFile(m, p)
  PROVE  Found(f, m, At(m, p))
<1>1. At(m, p) \in Inodes
  BY DEF IsFile
<1>2. CASE m = f
  BY <1>1, <1>2 DEF Found
<1>3. CASE MayCreate(f, p) /\ m = Created(f, p)
  <2>1. /\ p \in Names /\ m \in Files /\ m.open = f.open /\ m.data = f.data /\ m.dir = f.dir
        /\ Used(m) = Used(f) \cup {m.tree[p]}
    BY <1>3, CreatedIs
  <2>2. At(m, p) = m.tree[p]
    BY <1>1, FileNumbers DEF At
  <2> QED  BY <1>1, <2>1, <2>2 DEF Found
<1> QED  BY <1>2, <1>3

(* Either nothing is opened, or one file is. *)
OpensOne(k, f, o, emptied) ==
  \/ o.out = <<>> /\ Moves(k, f, o.fs)
  \/ \E h \in Handles, i \in Inodes : o.out = <<h>> /\ Opening(f, o.fs, h, i, emptied)

LEMMA OpensOneFound ==
  ASSUME NEW k, NEW f \in Files, NEW p, NEW m, m = f \/ (MayCreate(f, p) /\ m = Created(f, p)),
         IsFile(m, p), NEW mode \in Modes \ {"w"}, NEW o \in Opened(m, At(m, p), mode)
  PROVE  OpensOne(k, f, o, FALSE)
<1>1. PICK i : i = At(m, p)
  OBVIOUS
<1>2. Found(f, m, i) /\ o \in Opened(m, i, mode)
  BY <1>1, FoundMade
<1>3. m \in Files /\ i \in Inodes
  BY <1>2 DEF Found
<1>4. PICK h \in Handles : o.out = <<h>> /\ NewStream(m, o.fs, h, i, mode)
  BY <1>2, <1>3, OpenedIs
<1>5. Opening(f, o.fs, h, i, FALSE)
  BY <1>2, <1>4, FoundOpening
<1> QED  BY <1>3, <1>4, <1>5 DEF OpensOne

LEMMA OpensOneEmptied ==
  ASSUME NEW k, NEW f \in Files, NEW p, NEW m, m = f \/ (MayCreate(f, p) /\ m = Created(f, p)),
         IsFile(m, p), NEW mode \in Modes,
         NEW o \in Opened(Stored(m, NoHandle, At(m, p), <<>>), At(m, p), mode)
  PROVE  OpensOne(k, f, o, TRUE)
<1>1. PICK i : i = At(m, p)
  OBVIOUS
<1>2. Found(f, m, i)
  BY <1>1, FoundMade
<1>3. m \in Files /\ i \in Inodes
  BY <1>2 DEF Found
<1>4. PICK e : e = Stored(m, NoHandle, i, <<>>)
  OBVIOUS
<1>5. Emptying(m, e, i) /\ o \in Opened(e, i, mode)
  BY <1>1, <1>3, <1>4, EmptyingIs
<1>6. e \in Files
  BY <1>5 DEF Emptying
<1>7. PICK h \in Handles : o.out = <<h>> /\ NewStream(e, o.fs, h, i, mode)
  BY <1>3, <1>5, <1>6, OpenedIs
<1>8. Opening(f, o.fs, h, i, TRUE)
  BY <1>2, <1>5, <1>7, EmptiedOpening
<1> QED  BY <1>3, <1>7, <1>8 DEF OpensOne

LEMMA ProbeOpens ==
  ASSUME NEW k, NEW f, NEW g, Good(k, f, g), NEW p, NEW flags, NEW tested,
         NEW o \in OpenByProbe(f, p, flags, tested)
  PROVE  OpensOne(k, f, o, FALSE)
<1> DEFINE m == IF "create" \in flags /\ MayCreate(f, p) THEN Created(f, p) ELSE f
           mode == IF "write" \in flags THEN "rw" ELSE "r"
<1>1. f \in Files /\ Moves(k, f, f) /\ Moves(k, f, [f EXCEPT !.up = FALSE])
  BY GoodSettles, SameMoves
<1>2. m = f \/ (MayCreate(f, p) /\ m = Created(f, p))
  OBVIOUS
<1>3. mode \in Modes \ {"w"}
  BY DEF Modes
<1>4. \/ IsFile(m, p) /\ o \in Opened(m, At(m, p), mode)
      \/ o \in {Crashed(f), OpensNone(f)}
  BY DEF OpenByProbe
<1> HIDE DEF m, mode
<1>5. CASE IsFile(m, p) /\ o \in Opened(m, At(m, p), mode)
  BY <1>1, <1>2, <1>3, <1>5, OpensOneFound
<1>6. CASE o \in {Crashed(f), OpensNone(f)}
  <2> DEFINE d == [f EXCEPT !.up = FALSE]
  <2>1. CASE o = OpensNone(f)
    BY <1>1, <2>1 DEF OpensOne, OpensNone, Returns
  <2>2. CASE o = Crashed(f)
    <3>1. o.out = <<>> /\ o.fs = d
      BY <2>2 DEF Crashed, Returns
    <3>2. Moves(k, f, d)
      BY <1>1
    <3> HIDE DEF d
    <3> QED  BY <3>1, <3>2 DEF OpensOne
  <2> QED  BY <1>6, <2>1, <2>2
<1> QED  BY <1>4, <1>5, <1>6

LEMMA ModeOpens ==
  ASSUME NEW k, NEW f, NEW g, Good(k, f, g), NEW p, NEW flags, NEW all \in {"wb+", ""},
         NEW o \in OpenByMode(f, p, flags, all), NEW emptied \in BOOLEAN, emptied <=> "create" \in flags
  PROVE  OpensOne(k, f, o, emptied)
<1> DEFINE mode == CASE flags = {"read"} -> "rb"
                     [] flags \in {{"write"}, {"read", "write"}} -> "rb+"
                     [] flags \in {{"create"}, {"write", "create"}} -> "wb"
                     [] flags = {"read", "write", "create"} -> all
                     [] OTHER -> ""
           m == IF MayCreate(f, p) THEN Created(f, p) ELSE f
           e == Stored(m, NoHandle, At(m, p), <<>>)
<1>1. f \in Files /\ Moves(k, f, f)
  BY GoodSettles, SameMoves
<1>2. m = f \/ (MayCreate(f, p) /\ m = Created(f, p))
  OBVIOUS
<1>3. /\ mode = "rb" \/ mode = "rb+" => "create" \notin flags
      /\ mode = "wb" \/ mode = "wb+" => "create" \in flags
  <2>1. CASE flags = {"read"}
    BY <2>1
  <2>2. CASE flags \in {{"write"}, {"read", "write"}}
    BY <2>2
  <2>3. CASE flags \in {{"create"}, {"write", "create"}}
    <3>1. "create" \in flags /\ "read" \notin flags
      BY <2>3
    <3>2. "create" \notin {"read"} /\ "create" \notin {"write"} /\ "create" \notin {"read", "write"}
      OBVIOUS
    <3>5. flags # {"read"} /\ flags # {"write"} /\ flags # {"read", "write"}
      BY <3>1, <3>2, Zenon
    <3>3. mode = "wb"
      BY <2>3, <3>5
    <3> QED  BY <3>1, <3>3
  <2>4. CASE flags = {"read", "write", "create"}
    <3>1. "create" \in flags /\ "read" \in flags
      BY <2>4
    <3>2. "create" \notin {"read"} /\ "create" \notin {"write"} /\ "create" \notin {"read", "write"}
          /\ "read" \notin {"create"} /\ "read" \notin {"write", "create"}
      OBVIOUS
    <3>4. /\ flags # {"read"} /\ flags # {"write"} /\ flags # {"read", "write"}
          /\ flags # {"create"} /\ flags # {"write", "create"}
      BY <3>1, <3>2, Zenon
    <3>3. mode = all
      BY <2>4, <3>4
    <3> QED  BY <3>1, <3>3
  <2>5. CASE /\ flags # {"read"} /\ flags \notin {{"write"}, {"read", "write"}}
             /\ flags \notin {{"create"}, {"write", "create"}} /\ flags # {"read", "write", "create"}
    BY <2>5
  <2> QED  BY <2>1, <2>2, <2>3, <2>4, <2>5
<1>4. o \in CASE mode = "rb" /\ IsFile(f, p) -> Opened(f, At(f, p), "r")
              [] mode = "rb+" /\ IsFile(f, p) -> Opened(f, At(f, p), "rw")
              [] mode = "wb" /\ IsFile(m, p) -> Opened(e, At(m, p), "w")
              [] mode = "wb+" /\ IsFile(m, p) -> Opened(e, At(m, p), "rw")
              [] OTHER -> {OpensNone(f)}
  BY DEF OpenByMode
<1> HIDE DEF mode, m, e
<1>5. \/ mode = "rb" /\ IsFile(f, p) /\ o \in Opened(f, At(f, p), "r")
      \/ mode = "rb+" /\ IsFile(f, p) /\ o \in Opened(f, At(f, p), "rw")
      \/ mode = "wb" /\ IsFile(m, p) /\ o \in Opened(e, At(m, p), "w")
      \/ mode = "wb+" /\ IsFile(m, p) /\ o \in Opened(e, At(m, p), "rw")
      \/ o = OpensNone(f)
  BY <1>4
<1>6. CASE o = OpensNone(f)
  BY <1>1, <1>6 DEF OpensOne, OpensNone, Returns
<1>7. ASSUME NEW x \in Modes \ {"w"}, mode \in {"rb", "rb+"}, IsFile(f, p), o \in Opened(f, At(f, p), x)
      PROVE  OpensOne(k, f, o, emptied)
  <2>1. OpensOne(k, f, o, FALSE)
    BY <1>1, <1>7, OpensOneFound
  <2>2. emptied = FALSE
    BY <1>3, <1>7
  <2> QED  BY <2>1, <2>2
<1>8. ASSUME NEW x \in Modes, mode \in {"wb", "wb+"}, IsFile(m, p), o \in Opened(e, At(m, p), x)
      PROVE  OpensOne(k, f, o, emptied)
  <2>1. OpensOne(k, f, o, TRUE)
    BY <1>1, <1>2, <1>8, OpensOneEmptied DEF e
  <2>2. emptied = TRUE
    BY <1>3, <1>8
  <2> QED  BY <2>1, <2>2
<1>9. "r" \in Modes \ {"w"} /\ "rw" \in Modes \ {"w"} /\ "w" \in Modes /\ "rw" \in Modes
  BY DEF Modes
<1> QED  BY <1>5, <1>6, <1>7, <1>8, <1>9

LEMMA RomOpens ==
  ASSUME NEW f, NEW g, Good("RomFS", f, g), IsDir(f, Root), NEW p, NEW flags,
         NEW o \in romfs_OpenFile(f, p, flags)
  PROVE  \/ o.out = <<>> /\ Moves("RomFS", f, o.fs)
         \/ \E h \in Handles : o.out = <<h>> /\ Opening(f, o.fs, h, 1, FALSE) /\ o.fs.tree = f.tree
<1>1. f \in Files /\ Moves("RomFS", f, f)
  BY GoodSettles, SameMoves
<1>2. CASE o = OpensNone(f)
  BY <1>1, <1>2 DEF OpensNone, Returns
<1>3. CASE o # OpensNone(f)
  <2> DEFINE t == [NoStream EXCEPT !.ino = 1, !.mode = "raw"]
  <2>1. PICK h \in FreeHandles(f) : o = Opens([f EXCEPT !.link = h, !.open[h] = t], h)
    BY <1>3 DEF romfs_OpenFile
  <2> DEFINE open == [f.open EXCEPT ![h] = t]
             n == [f EXCEPT !.link = h, !.open = open]
  <2>2. o.out = <<h>> /\ o.fs = n
    BY <1>1, <2>1 DEF Opens, Gives, Files
  <2>3. h \in Handles /\ ~ IsOpen(f, h)
    BY DEF FreeHandles
  <2>4. 1 \in Inodes /\ 1 \in Used(f)
    <3>1. PICK m \in Names : f.tree[m] = 1
      BY DEF Good, RomStays
    <3>2. 1 \in Inodes
      BY <1>1, <3>1 DEF Files, Absent, Directory
    <3> QED  BY <3>1, <3>2 DEF Used
  <2>5. t \in Stream /\ t.ino = 1 /\ t.mode = "raw" /\ t.mode # "w" /\ t.pend = <<>> /\ ~ t.old
    <3>1. <<>> \in Bytes
      BY DEF Bytes
    <3> QED  BY <2>4, <3>1 DEF NoStream, Stream
  <2> HIDE DEF t
  <2>6. open \in [Handles -> Stream] /\ open[h] = t /\ \A q \in Handles \ {h} : open[q] = f.open[q]
    BY <1>1, <2>3, <2>5 DEF Files
  <2> HIDE DEF open
  <2>7. n \in Files /\ n.tree = f.tree /\ n.dir = f.dir /\ n.data = f.data /\ n.open = open
    BY <1>1, <2>3, <2>6 DEF Files
  <2> HIDE DEF n
  <2>8. Used(n) = Used(f) \cup {1}
    BY <2>3, <2>4, <2>5, <2>6, <2>7, UsedGrows
  <2>9. Opening(f, n, h, 1, FALSE)
    BY <2>3, <2>4, <2>5, <2>6, <2>7, <2>8 DEF Opening, SameStream
  <2> QED  BY <2>2, <2>3, <2>7, <2>9
<1> QED  BY <1>2, <1>3

LEMMA GetsKeeps ==
  ASSUME IInv, kind = "RomFS" => IsDir(fs, Root), NEW p \in Paths, NEW flags,
         NEW o \in fnOpenFile(p, flags), NEW rc, Gets(o, flags, rc)
  PROVE  IInv'
<1> DEFINE empties == kind \in {"SaveData", "ExtData"} /\ "create" \in flags
           new == {o.fs.open[o.out[k]].ino : k \in DOMAIN o.out}
           acked == [i \in Inodes |-> IF i \notin Used(fs) \/ (i \in new /\ empties)
                                      THEN o.fs.data[i] ELSE guest.acked[i]]
<1>1. /\ Learns(NoHandle, o.fs, acked, guest.cut, {}) /\ fs' = o.fs /\ UNCHANGED <<kind, arch>>
  BY DEF Gets
<1>2. Good(kind, fs, guest)
  BY DEF IInv
<1>3. \/ o.out = <<>> /\ Moves(kind, fs, o.fs)
      \/ \E h \in Handles, i \in Inodes : /\ o.out = <<h>> /\ Opening(fs, o.fs, h, i, empties)
                                          /\ kind = "RomFS" => i = 1 /\ o.fs.tree = fs.tree
  <2>1. kind \in {"SDMC", "SaveData", "ExtData", "SharedExtData", "SysData", "SaveDatacheck", "RomFS"}
    BY FsAssumption DEF IInv
  <2>2. CASE kind \in {"SDMC", "SharedExtData", "SysData", "SaveDatacheck"}
    <3>1. o \in OpenByProbe(fs, p, flags, TRUE) \/ o \in OpenByProbe(fs, p, flags, FALSE)
      BY <2>2 DEF fnOpenFile, sdmc_OpenFile, sharedextd_OpenFile, sysdata_OpenFile, SaveDatacheck_OpenFile
    <3>2. OpensOne(kind, fs, o, FALSE)
      BY <1>2, <3>1, ProbeOpens
    <3>3. empties = FALSE /\ kind # "RomFS"
      BY <2>2
    <3> QED  BY <3>2, <3>3 DEF OpensOne
  <2>3. CASE kind \in {"SaveData", "ExtData"}
    <3>1. o \in OpenByMode(fs, p, flags, "wb+") \/ o \in OpenByMode(fs, p, flags, "")
      BY <2>3 DEF fnOpenFile, savedata_OpenFile, extsavedata_OpenFile
    <3>2. OpensOne(kind, fs, o, empties)
      <4>1. empties \in BOOLEAN /\ (empties <=> "create" \in flags)
        BY <2>3
      <4> HIDE DEF empties
      <4> QED  BY <1>2, <3>1, <4>1, ModeOpens
    <3>3. kind # "RomFS"
      BY <2>3
    <3> QED  BY <3>2, <3>3 DEF OpensOne
  <2>4. CASE kind = "RomFS"
    <3>1. o \in romfs_OpenFile(fs, p, flags) /\ Good("RomFS", fs, guest) /\ IsDir(fs, Root)
      BY <1>2, <2>4 DEF fnOpenFile
    <3>2. \/ o.out = <<>> /\ Moves("RomFS", fs, o.fs)
          \/ \E h \in Handles : o.out = <<h>> /\ Opening(fs, o.fs, h, 1, FALSE) /\ o.fs.tree = fs.tree
      BY <3>1, RomOpens, ZenonT(60)
    <3>3. empties = FALSE
      BY <2>4
    <3>4. \A h : Opening(fs, o.fs, h, 1, FALSE) => 1 \in Inodes
      BY DEF Opening
    <3> QED  BY <2>4, <3>2, <3>3, <3>4
  <2> QED  BY <2>1, <2>2, <2>3, <2>4
<1>4. CASE o.out = <<>> /\ Moves(kind, fs, o.fs)
  <2>1. new = {}
    BY <1>4
  <2>2. acked = [i \in Inodes |-> IF i \in Used(fs) THEN guest.acked[i] ELSE o.fs.data[i]]
    BY <2>1
  <2> HIDE DEF acked
  <2>3. Advances(kind, fs, o.fs, guest, NoHandle, acked, guest.cut, {})
    BY <1>2, <1>4, <2>2, MovesAdvance
  <2> QED  BY <1>1, <2>3, LearnsInvariant
<1>5. ASSUME NEW h \in Handles, NEW i \in Inodes, o.out = <<h>>, Opening(fs, o.fs, h, i, empties),
             kind = "RomFS" => i = 1 /\ o.fs.tree = fs.tree
      PROVE  IInv'
  <2>1. new = {i}
    <3>1. o.fs.open[h].ino = i
      BY <1>5 DEF Opening
    <3>2. DOMAIN o.out = {1} /\ o.out[1] = h
      BY <1>5
    <3> QED  BY <3>1, <3>2
  <2>2. acked = [j \in Inodes |-> IF j \notin Used(fs) \/ (j = i /\ empties)
                                  THEN o.fs.data[j] ELSE guest.acked[j]]
    BY <2>1
  <2>3. empties \in BOOLEAN /\ (kind = "RomFS" => ~ empties /\ i = 1 /\ o.fs.tree = fs.tree /\ IsDir(fs, Root))
        /\ (kind = "SDMC" => ~ empties)
    BY <1>5
  <2> HIDE DEF acked, empties
  <2>4. Advances(kind, fs, o.fs, guest, NoHandle, acked, guest.cut, {})
    BY <1>2, <1>5, <2>2, <2>3, OpeningAdvances
  <2> QED  BY <1>1, <2>4, LearnsInvariant
<1> QED  BY <1>3, <1>4, <1>5

LEMMA OpenFileKeeps == ASSUME IInv, OpenFile PROVE IInv'
<1>1. CASE NotImplemented("OpenFile")
  BY <1>1, AnswersKeeps DEF NotImplemented
<1>2. CASE /\ "OpenFile" \in arch.fns
           /\ \E p \in Paths, flags \in Flags : \E o \in fnOpenFile(p, flags) :
                 Gets(o, flags, IF o.out = <<>> THEN NotFound ELSE Ok)
  <2>1. kind = "RomFS" => IsDir(fs, Root)
    BY <1>2 DEF IInv, Able
  <2> QED  BY <1>2, <2>1, GetsKeeps
<1> QED  BY <1>1, <1>2 DEF OpenFile

LEMMA OpenFileDirectlyKeeps ==
  ASSUME IInv, NEW t, NEW mapped, OpenFileDirectly(t, mapped)
  PROVE  IInv'
<1>1. CASE Answers(Failed, NoHandle)
  BY <1>1, AnswersKeeps
<1>2. CASE /\ fnOpenArchive(t, mapped) # NoArchive
           /\ \E p \in Paths, flags \in Flags : \E o \in fnOpenFile(p, flags) : Gets(o, flags, Ok)
  <2>1. kind = "RomFS" => IsDir(fs, Root)
    BY <1>2 DEF fnOpenArchive, romfs_OpenArchive, OpenedArchive
  <2> QED  BY <1>2, <2>1, GetsKeeps
<1> QED  BY <1>1, <1>2 DEF OpenFileDirectly

-----------------------------------------------------------------------------
(* The commands on one file. *)

LEMMA NothingAdvances ==
  ASSUME IInv, NEW h \in Handles, IsOpen(fs, h)
  PROVE  /\ Advances(kind, fs, fs, guest, h, guest.acked, guest.cut, {})
         /\ Advances(kind, fs, Flushed(fs, h), guest, h, guest.acked, guest.cut, {})
<1>1. Good(kind, fs, guest)
  BY DEF IInv
<1>2. fs \in Files /\ guest.cut \subseteq Handles
  BY <1>1, GoodSettles
<1>3. MovesDir(kind, fs, fs)
  BY DEF MovesDir
<1>4. Advances(kind, fs, fs, guest, h, guest.acked, guest.cut, {})
  BY <1>1, <1>2, <1>3, StayAdvances
<1>5. Advances(kind, fs, Flushed(fs, h), guest, h, guest.acked, guest.cut, {})
  BY <1>1, FlushAdvances
<1> QED  BY <1>4, <1>5

LEMMA ReadKeeps ==
  ASSUME IInv, NEW h \in Handles, NEW off, NEW sz, NEW mapped, Read(h, off, sz, mapped)
  PROVE  IInv'
<1>1. IsOpen(fs, h) /\ \E o \in fnRead(h, off, sz, mapped) : Does(o, o.ret, h, guest.acked, guest.cut, {})
  BY DEF Read
<1>2. PICK o \in fnRead(h, off, sz, mapped) : Does(o, o.ret, h, guest.acked, guest.cut, {})
  BY <1>1
<1>3. o.fs = fs \/ o.fs = Flushed(fs, h)
  <2>1. kind \in {"SDMC", "SaveData", "ExtData", "SharedExtData", "SysData", "SaveDatacheck", "RomFS"}
    BY FsAssumption DEF IInv
  <2>2. CASE kind # "RomFS"
    <3>1. o \in ReadStream(fs, h, off, sz, mapped, FALSE) \/ o \in ReadStream(fs, h, off, sz, mapped, TRUE)
      BY <1>2, <2>1, <2>2 DEF fnRead, sdmcfile_Read, savedatafile_Read, extsavedatafile_Read,
         sharedextdfile_Read, sysdatafile_Read, SaveDatacheck_Read
    <3> QED  BY <3>1 DEF ReadStream, Returns, Gives
  <2>3. CASE kind = "RomFS"
    BY <1>2, <2>3 DEF fnRead, rawromfs_Read, Returns, Gives
  <2> QED  BY <2>2, <2>3
<1>4. Advances(kind, fs, o.fs, guest, h, guest.acked, guest.cut, {})
  BY <1>1, <1>3, NothingAdvances
<1> QED  BY <1>2, <1>4, DoesKeeps

(* What a write may come to: it fails, or its bytes reach the file, or the   *)
(* stream holds them back.                                                   *)
Holdback(m, h, off, b) == [m EXCEPT !.open[h] = [@ EXCEPT !.off = off, !.pend = b, !.old = FALSE]]
WriteEnds(f, m, h, i, off, b, after, o) ==
    \/ o.ret # Ok /\ o.fs \in {f, m}
    \/ /\ o.ret = Ok
       /\ \/ \E sz \in Nat : /\ o.fs = Through(m, h, i, Put(m.data[i], off, b), sz)
                             /\ after = "end" => sz = Len(Put(m.data[i], off, b))
          \/ after = "held" /\ o.fs = Holdback(m, h, off, b)

LEMMA WriteOutcomes ==
  ASSUME NEW f \in Files, NEW h \in Handles, NEW off \in Nat, NEW b \in Bytes, NEW mapped,
         NEW after \in {"end", "here", "held"}, NEW m, m = Flushed(f, h), NEW i, i = m.open[h].ino, i \in Inodes,
         m \in Files, NEW o \in WriteStream(f, h, off, b, mapped, after)
  PROVE  WriteEnds(f, m, h, i, off, b, after, o)
<1> DEFINE s == m.open[h]
           stored == Put(m.data[i], off, b)
           held == Holdback(m, h, off, b)
           T(sz) == [Stored(m, h, i, stored) EXCEPT !.open[h].sz = sz]
<1>1. o \in CASE off = Far -> {Returns(f, Failed)}
              [] off # Far /\ (~mapped \/ s.mode = "r") -> {Returns(m, Failed)}
              [] OTHER -> CASE after = "end" -> {Gives(T(Len(stored)), b)}
                            [] after = "here" -> {Gives(T(off + Len(b)), b)}
                            [] after = "held" -> {Gives(T(s.sz), b), Gives(held, b)}
  BY DEF WriteStream, Holdback
<1>2. Len(stored) \in Nat /\ off + Len(b) \in Nat /\ s.sz \in Nat
  <2>1. m.data[i] \in Bytes
    BY DEF Files
  <2>2. stored \in Bytes
    BY <2>1, PutIs
  <2> HIDE DEF stored
  <2> QED  BY <2>2, StreamTypes DEF Bytes
<1>3. \A sz : T(sz) = Through(m, h, i, stored, sz)
  BY DEF Through
<1> HIDE DEF held, T, stored, s
<1>4. \/ o = Returns(f, Failed) \/ o = Returns(m, Failed)
      \/ after = "end" /\ o = Gives(T(Len(stored)), b)
      \/ after = "here" /\ o = Gives(T(off + Len(b)), b)
      \/ after = "held" /\ (o = Gives(T(s.sz), b) \/ o = Gives(held, b))
  BY <1>1
<1>5. CASE o = Returns(f, Failed) \/ o = Returns(m, Failed)
  BY <1>5 DEF WriteEnds, Returns, Failed, Ok
<1>6. ASSUME NEW sz \in Nat, o = Gives(T(sz), b), after = "end" => sz = Len(stored)
      PROVE  /\ o.ret = Ok
             /\ \E x \in Nat : /\ o.fs = Through(m, h, i, stored, x)
                               /\ after = "end" => x = Len(stored)
  BY <1>3, <1>6 DEF Gives
<1>7. CASE after = "held" /\ o = Gives(held, b)
  BY <1>7 DEF WriteEnds, Gives, held
<1> QED  BY <1>2, <1>4, <1>5, <1>6, <1>7 DEF stored, WriteEnds

LEMMA HeldIs ==
  ASSUME NEW m \in Files, NEW h \in Handles, NEW off \in Nat, NEW b \in Bytes,
         NEW n, n = Holdback(m, h, off, b)
  PROVE  HeldBack(m, n, h, off, b)
<1> DEFINE t == [m.open[h] EXCEPT !.off = off, !.pend = b, !.old = FALSE]
           open == [m.open EXCEPT ![h] = t]
<1>1. n = [m EXCEPT !.open = open]
  BY DEF Files, Holdback
<1>2. /\ t \in Stream /\ t.ino = m.open[h].ino /\ t.mode = m.open[h].mode /\ t.sz = m.open[h].sz
      /\ t.off = off /\ t.pend = b /\ ~ t.old
  <2>1. m.open[h] \in Stream
    BY DEF Files
  <2> QED  BY <2>1 DEF Stream
<1> HIDE DEF t
<1>3. open \in [Handles -> Stream] /\ open[h] = t /\ \A q \in Handles \ {h} : open[q] = m.open[q]
  BY <1>2 DEF Files
<1> HIDE DEF open
<1>4. n \in Files /\ SameNames(m, n) /\ n.data = m.data /\ n.open = open
  BY <1>1, <1>3 DEF Files, SameNames
<1> QED  BY <1>2, <1>3, <1>4 DEF HeldBack

(* A write that succeeds. *)
LEMMA WriteAdvances ==
  ASSUME IInv, NEW h \in Handles, IsOpen(fs, h), NEW off \in Nat, NEW b \in Bytes, b # <<>>, NEW mapped,
         NEW after \in {"end", "here", "held"}, kind # "RomFS", kind = "SDMC" => after = "end",
         after = "held" => ~ Stores(kind),
         NEW o \in WriteStream(fs, h, off, b, mapped, after)
  PROVE  \/ o.ret # Ok /\ o.fs \in {fs, Flushed(fs, h)}
         \/ /\ o.ret = Ok
            /\ Advances(kind, fs, o.fs, guest, h, Wrote(guest.acked, fs.open[h].ino, off, b), guest.cut \ {h}, {})
<1>1. Good(kind, fs, guest) /\ fs \in Files /\ guest.acked \in [Inodes -> Bytes]
  BY GoodSettles DEF IInv
<1>2. PICK m : m = Flushed(fs, h)
  OBVIOUS
<1>3. PICK i : i = fs.open[h].ino
  OBVIOUS
<1>4. Seeks(kind, fs, guest, h, m)
  BY <1>1, <1>2, Sought
<1>5. m \in Files /\ i \in Inodes /\ i = m.open[h].ino
  BY <1>3, <1>4 DEF Seeks
<1>6. WriteEnds(fs, m, h, i, off, b, after, o)
  BY <1>1, <1>2, <1>5, WriteOutcomes
<1>7. PICK acked : acked = Wrote(guest.acked, i, off, b)
  OBVIOUS
<1>8. Acknowledged(acked, guest.acked, i, Put(guest.acked[i], off, b))
  BY <1>1, <1>5, <1>7, WroteIs
<1>9. PICK n : n = o.fs
  OBVIOUS
<1>10. ASSUME NEW sz \in Nat, n = Through(m, h, i, Put(m.data[i], off, b), sz),
              after = "end" => sz = Len(Put(m.data[i], off, b))
       PROVE  Advances(kind, fs, n, guest, h, acked, guest.cut \ {h}, {})
  <2>1. m.data[i] \in Bytes
    BY <1>5 DEF Files
  <2>2. Put(m.data[i], off, b) \in Bytes
    BY <2>1, PutIs
  <2>3. Written(m, n, h, i, Put(m.data[i], off, b), sz)
    BY <1>5, <1>10, <2>2, ThroughIs
  <2>4. kind = "SDMC" => sz = Len(Put(m.data[i], off, b))
    BY <1>10
  <2> QED  BY <1>1, <1>3, <1>4, <1>8, <2>3, <2>4, WrittenAdvances
<1>11. ASSUME after = "held", n = Holdback(m, h, off, b)
       PROVE  Advances(kind, fs, n, guest, h, acked, guest.cut \ {h}, {})
  <2>1. HeldBack(m, n, h, off, b)
    BY <1>5, <1>11, HeldIs
  <2> QED  BY <1>1, <1>3, <1>4, <1>8, <1>11, <2>1, HeldAdvances
<1> QED  BY <1>2, <1>3, <1>6, <1>7, <1>9, <1>10, <1>11 DEF WriteEnds

LEMMA WriteKinds ==
  ASSUME IInv, NEW h, NEW off, NEW b, NEW mapped, NEW o \in fnWrite(h, off, b, mapped)
  PROVE  \/ o = Returns(fs, Failed)
         \/ /\ kind # "RomFS"
            /\ \E after \in {"end", "here", "held"} :
                  /\ o \in WriteStream(fs, h, off, b, mapped, after)
                  /\ kind = "SDMC" => after = "end"
                  /\ after = "held" => ~ Stores(kind)
<1>1. CASE kind = "SDMC"
  BY <1>1, Zenon DEF fnWrite, sdmcfile_Write
<1>2. CASE kind = "SaveData"
  BY <1>2 DEF fnWrite, savedatafile_Write
<1>3. CASE kind \in {"ExtData", "SharedExtData", "SysData"}
  <2>1. o \in WriteStream(fs, h, off, b, mapped, "held")
    BY <1>3 DEF fnWrite, extsavedatafile_Write, sharedextdfile_Write, sysdatafile_Write
  <2>2. kind # "RomFS" /\ kind # "SDMC" /\ ~ Stores(kind)
    BY <1>3 DEF Stores, WriteThrough
  <2> QED  BY <2>1, <2>2
<1>4. CASE kind \notin {"SDMC", "SaveData", "ExtData", "SharedExtData", "SysData"}
  BY <1>4 DEF fnWrite
<1> QED  BY <1>1, <1>2, <1>3, <1>4

LEMMA WriteKeeps ==
  ASSUME IInv, NEW h \in Handles, NEW off \in Offsets, NEW b \in Payloads, NEW mapped, Write(h, off, b, mapped)
  PROVE  IInv'
<1>1. off \in Nat /\ b \in Bytes /\ b # <<>>
  BY FsAssumption DEF Bytes
<1>2. PICK i : i = fs.open[h].ino
  OBVIOUS
<1>3. /\ IsOpen(fs, h)
      /\ \E o \in fnWrite(h, off, b, mapped) :
            IF o.ret = Ok
               THEN Does(o, o.ret, h, Wrote(guest.acked, i, off, b), guest.cut \ {h}, {})
               ELSE Does(o, o.ret, h, guest.acked, guest.cut, {})
  BY <1>2 DEF Write, Wrote
<1>4. PICK o \in fnWrite(h, off, b, mapped) :
            IF o.ret = Ok
               THEN Does(o, o.ret, h, Wrote(guest.acked, i, off, b), guest.cut \ {h}, {})
               ELSE Does(o, o.ret, h, guest.acked, guest.cut, {})
  BY <1>3
<1>5. \/ o.ret # Ok /\ o.fs \in {fs, Flushed(fs, h)}
      \/ /\ o.ret = Ok
         /\ Advances(kind, fs, o.fs, guest, h, Wrote(guest.acked, i, off, b), guest.cut \ {h}, {})
  <2>1. CASE o = Returns(fs, Failed)
    BY <2>1 DEF Returns, Failed, Ok
  <2>2. ASSUME kind # "RomFS", NEW after \in {"end", "here", "held"},
               o \in WriteStream(fs, h, off, b, mapped, after), kind = "SDMC" => after = "end",
               after = "held" => ~ Stores(kind)
        PROVE  \/ o.ret # Ok /\ o.fs \in {fs, Flushed(fs, h)}
               \/ /\ o.ret = Ok
                  /\ Advances(kind, fs, o.fs, guest, h, Wrote(guest.acked, i, off, b), guest.cut \ {h}, {})
    BY <1>1, <1>2, <1>3, <2>2, WriteAdvances
  <2> QED  BY <1>4, <2>1, <2>2, WriteKinds
<1>6. CASE o.ret = Ok
  <2>1. Does(o, o.ret, h, Wrote(guest.acked, i, off, b), guest.cut \ {h}, {})
    BY <1>4, <1>6
  <2>2. Advances(kind, fs, o.fs, guest, h, Wrote(guest.acked, i, off, b), guest.cut \ {h}, {})
    BY <1>5, <1>6
  <2> HIDE DEF Wrote
  <2> QED  BY <2>1, <2>2, DoesKeeps
<1>7. CASE o.ret # Ok
  <2>1. Does(o, o.ret, h, guest.acked, guest.cut, {})
    BY <1>4, <1>7
  <2>2. Advances(kind, fs, o.fs, guest, h, guest.acked, guest.cut, {})
    BY <1>3, <1>5, <1>7, NothingAdvances
  <2> QED  BY <2>1, <2>2, DoesKeeps
<1> QED  BY <1>6, <1>7

(* ftruncate, and the note of the size that is changed in any case. *)
Noting(f, h, sz) == [f EXCEPT !.open[h].sz = sz]

ButForSize(s, t) == t.ino = s.ino /\ t.mode = s.mode /\ t.off = s.off /\ t.pend = s.pend

Noted(f, n, h, sz) ==
  /\ n \in Files /\ SameNames(f, n) /\ n.data = f.data
  /\ \A q \in Handles : ButForSize(f.open[q], n.open[q]) /\ n.open[q].old = f.open[q].old
  /\ n.open[h].sz = sz /\ \A q \in Handles \ {h} : n.open[q].sz = f.open[q].sz

LEMMA NotedIs ==
  ASSUME NEW f \in Files, NEW h \in Handles, NEW sz \in Nat, NEW n, n = Noting(f, h, sz)
  PROVE  Noted(f, n, h, sz)
<1> DEFINE t == [f.open[h] EXCEPT !.sz = sz]
           open == [f.open EXCEPT ![h] = t]
<1>1. n = [f EXCEPT !.open = open]
  BY DEF Files, Noting
<1>2. t \in Stream /\ ButForSize(f.open[h], t) /\ t.old = f.open[h].old /\ t.sz = sz
  <2>1. f.open[h] \in Stream
    BY DEF Files
  <2> QED  BY <2>1 DEF Stream, ButForSize
<1> HIDE DEF t
<1>3. open \in [Handles -> Stream] /\ open[h] = t /\ \A q \in Handles \ {h} : open[q] = f.open[q]
  BY <1>2 DEF Files
<1> HIDE DEF open
<1>4. n \in Files /\ SameNames(f, n) /\ n.data = f.data /\ n.open = open
  BY <1>1, <1>3 DEF Files, SameNames
<1>5. \A q \in Handles : ButForSize(f.open[q], open[q]) /\ open[q].old = f.open[q].old
  <2>1. \A q \in Handles : ButForSize(f.open[q], f.open[q])
    BY DEF ButForSize
  <2> QED  BY <1>2, <1>3, <2>1
<1> QED  BY <1>2, <1>3, <1>4, <1>5 DEF Noted

LEMMA NotedResized ==
  ASSUME NEW f \in Files, NEW h \in Handles, NEW sz \in Nat, NEW m, Noted(f, m, h, sz),
         NEW i \in Inodes, NEW c \in Bytes, NEW n, n = Stored(m, NoHandle, i, c)
  PROVE  Resized(f, n, h, i, c, sz)
<1>1. m \in Files
  BY DEF Noted
<1>2. StoredAs(m, n, NoHandle, i, c)
  BY <1>1, StoredIs
<1>3. /\ n \in Files /\ SameNames(f, n)
      /\ n.data[i] = c /\ \A j \in Inodes \ {i} : n.data[j] = f.data[j]
  BY <1>2 DEF Noted, StoredAs, SameNames
<1>4. ASSUME NEW q \in Handles
      PROVE  /\ n.open[q].ino = f.open[q].ino /\ n.open[q].mode = f.open[q].mode
             /\ n.open[q].off = f.open[q].off /\ n.open[q].pend = f.open[q].pend
             /\ q = h => n.open[q].sz = sz
             /\ q # h => n.open[q].sz = f.open[q].sz
             /\ f.open[q].ino # i \/ f.data[i] = c => n.open[q].old = f.open[q].old
  <2>1. ButForSize(f.open[q], m.open[q]) /\ m.open[q].old = f.open[q].old /\ m.data = f.data
        /\ (q = h => m.open[q].sz = sz) /\ (q # h => m.open[q].sz = f.open[q].sz)
    BY DEF Noted
  <2>2. SameStream(m.open[q], n.open[q])
        /\ (m.open[q].ino # i \/ m.data[i] = c => n.open[q].old = (m.open[q].old /\ q # NoHandle))
    BY <1>2 DEF StoredAs
  <2>3. q # NoHandle
    BY HostAssumption
  <2>4. f.open[q].old \in BOOLEAN
    BY DEF Files, Stream
  <2>5. f.open[q].ino # i \/ f.data[i] = c => n.open[q].old = f.open[q].old
    BY <2>1, <2>2, <2>3, <2>4 DEF ButForSize
  <2>6. n.open[q].sz = m.open[q].sz
    BY <2>2 DEF SameStream
  <2>7. /\ n.open[q].ino = f.open[q].ino /\ n.open[q].mode = f.open[q].mode
        /\ n.open[q].off = f.open[q].off /\ n.open[q].pend = f.open[q].pend
    BY <2>1, <2>2 DEF ButForSize, SameStream
  <2> QED  BY <2>1, <2>5, <2>6, <2>7
<1> QED  BY <1>3, <1>4 DEF Resized

LEMMA NotedAdvances ==
  ASSUME IInv, NEW h \in Handles, IsOpen(fs, h), fs.open[h].mode # "rw", NEW sz \in Nat,
         NEW n, Noted(fs, n, h, sz)
  PROVE  Advances(kind, fs, n, guest, h, guest.acked, guest.cut \cup {h}, {})
<1>1. Good(kind, fs, guest)
  BY DEF IInv
<1>2. guest.cut \cup {h} \subseteq Handles /\ guest.cut \subseteq guest.cut \cup {h}
  BY <1>1, GoodSettles
<1>3. n \in Files /\ n.tree = fs.tree /\ n.data = fs.data /\ MovesDir(kind, fs, n)
  BY DEF Noted, SameNames, MovesDir
<1>4. ASSUME NEW q \in Handles
      PROVE  /\ n.open[q].ino = fs.open[q].ino /\ n.open[q].mode = fs.open[q].mode
             /\ n.open[q].off = fs.open[q].off /\ n.open[q].pend = fs.open[q].pend
             /\ n.open[q].old = fs.open[q].old
             /\ n.open[q].mode = "rw" => n.open[q].sz = fs.open[q].sz
  <2>1. ButForSize(fs.open[q], n.open[q]) /\ n.open[q].old = fs.open[q].old
    BY DEF Noted
  <2>2. q # h => n.open[q].sz = fs.open[q].sz
    BY DEF Noted
  <2> QED  BY <2>1, <2>2 DEF ButForSize
<1>5. PICK cut : cut = guest.cut \cup {h}
  OBVIOUS
<1>6. guest.cut \subseteq cut /\ cut \subseteq Handles
  BY <1>2, <1>5
<1>7. Advances(kind, fs, n, guest, h, guest.acked, cut, {})
  BY <1>1, <1>3, <1>4, <1>6, StayAdvances
<1> QED  BY <1>5, <1>7

LEMMA TruncateIs ==
  ASSUME NEW f, NEW h, NEW sz, NEW i, i = f.open[h].ino, NEW c, c = Resize(f.data[i], sz),
         NEW o \in TruncateStream(f, h, sz)
  PROVE  \/ o.ret # Ok /\ f.open[h].mode = "r" /\ o.fs = Noting(f, h, sz)
         \/ o.ret = Ok /\ o.fs = Stored(Noting(f, h, sz), NoHandle, i, c)
BY DEF TruncateStream, Noting, Try, Returns, Ok, Failed

LEMMA TruncatesKeep ==
  ASSUME IInv, NEW h \in Handles, IsOpen(fs, h), NEW sz \in Nat, kind # "RomFS",
         NEW i, i = fs.open[h].ino, NEW o \in TruncateStream(fs, h, sz), NEW torn,
         torn = IF Holders(fs, i) # {} THEN {i} ELSE {}, NEW acked, Acknowledged(acked, guest.acked, i, Resize(guest.acked[i], sz))
  PROVE  \/ o.ret # Ok /\ Advances(kind, fs, o.fs, guest, h, guest.acked, guest.cut \cup {h}, {})
         \/ o.ret = Ok /\ Advances(kind, fs, o.fs, guest, h, acked, guest.cut \cup {h}, torn)
<1>1. Good(kind, fs, guest) /\ fs \in Files /\ i \in Inodes
  BY GoodSettles, StreamTypes DEF IInv
<1>2. PICK c : c = Resize(fs.data[i], sz)
  OBVIOUS
<1>3. c \in Bytes
  <2>1. fs.data[i] \in Bytes
    BY <1>1 DEF Files
  <2> QED  BY <1>2, <2>1, ResizeIs
<1>4. PICK m : m = Noting(fs, h, sz)
  OBVIOUS
<1>5. Noted(fs, m, h, sz)
  BY <1>1, <1>4, NotedIs
<1>6. CASE o.ret # Ok /\ fs.open[h].mode = "r" /\ o.fs = m
  BY <1>5, <1>6, NotedAdvances
<1>7. CASE o.ret = Ok /\ o.fs = Stored(m, NoHandle, i, c)
  <2>1. PICK n : n = o.fs
    OBVIOUS
  <2>2. Resized(fs, n, h, i, c, sz)
    BY <1>1, <1>3, <1>5, <1>7, <2>1, NotedResized
  <2>3. Resized(fs, n, h, i, Resize(fs.data[i], sz), sz)
    BY <1>2, <2>2
  <2>4. Advances(kind, fs, n, guest, h, acked, guest.cut \cup {h}, torn)
    BY <1>1, <2>3, ResizedAdvances
  <2> QED  BY <1>7, <2>1, <2>4
<1> QED  BY <1>2, <1>4, <1>6, <1>7, TruncateIs

Sized(acked, i, n) == [acked EXCEPT ![i] = Resize(@, n)]

LEMMA SetSizeKeeps ==
  ASSUME IInv, NEW h \in Handles, NEW sz \in Sizes, SetSize(h, sz)
  PROVE  IInv'
<1>1. sz \in Nat
  BY FsAssumption
<1>2. PICK i : i = fs.open[h].ino
  OBVIOUS
<1>3. PICK torn : torn = IF Holders(fs, i) # {} THEN {i} ELSE {}
  OBVIOUS
<1>4. PICK acked : acked = Sized(guest.acked, i, sz)
  OBVIOUS
<1>5. (\E q \in Handles : Holds(q, i)) <=> Holders(fs, i) # {}
  BY DEF Holds, Holders
<1>6. torn = IF \E q \in Handles : Holds(q, i) THEN {i} ELSE {}
  BY <1>3, <1>5
<1>7. /\ IsOpen(fs, h)
      /\ \E o \in fnSetSize(h, sz) :
            IF o.ret = Ok
               THEN Does(o, o.ret, h, acked, guest.cut \cup {h}, torn)
               ELSE Does(o, o.ret, h, guest.acked, guest.cut \cup {h}, {})
  BY <1>2, <1>4, <1>6 DEF SetSize, Sized
<1>8. PICK o \in fnSetSize(h, sz) :
            IF o.ret = Ok
               THEN Does(o, o.ret, h, acked, guest.cut \cup {h}, torn)
               ELSE Does(o, o.ret, h, guest.acked, guest.cut \cup {h}, {})
  BY <1>7
<1>9. Good(kind, fs, guest) /\ fs \in Files /\ i \in Inodes /\ guest.acked \in [Inodes -> Bytes]
  BY <1>2, <1>7, GoodSettles, StreamTypes DEF IInv
<1>10. Acknowledged(acked, guest.acked, i, Resize(guest.acked[i], sz))
  <2>1. Resize(guest.acked[i], sz) \in Bytes
    BY <1>1, <1>9, ResizeIs
  <2> QED  BY <1>4, <1>9, <2>1 DEF Sized, Acknowledged
<1>11. \/ o.ret # Ok /\ Advances(kind, fs, o.fs, guest, h, guest.acked, guest.cut \cup {h}, {})
       \/ o.ret = Ok /\ Advances(kind, fs, o.fs, guest, h, acked, guest.cut \cup {h}, torn)
  <2>1. CASE kind \in {"SDMC", "SaveData", "ExtData"}
    <3>1. kind # "RomFS"
      BY <2>1
    <3>2. o \in TruncateStream(fs, h, sz)
      BY <1>8, <2>1 DEF fnSetSize, sdmcfile_SetSize, savedatafile_SetSize, extsavedatafile_SetSize
    <3> QED  BY <1>1, <1>2, <1>3, <1>7, <1>10, <3>1, <3>2, TruncatesKeep
  <2>2. CASE kind \notin {"SDMC", "SaveData", "ExtData"}
    <3>1. o = Returns(fs, Failed)
      BY <1>8, <2>2 DEF fnSetSize
    <3>2. o.ret # Ok /\ o.fs = fs
      BY <3>1 DEF Returns, Failed, Ok
    <3>3. MovesDir(kind, fs, fs)
      BY DEF MovesDir
    <3>4. PICK cut : cut = guest.cut \cup {h}
      OBVIOUS
    <3>5. guest.cut \subseteq cut /\ cut \subseteq Handles
      BY <1>9, <3>4, GoodSettles
    <3>6. Advances(kind, fs, fs, guest, h, guest.acked, cut, {})
      BY <1>9, <3>3, <3>5, StayAdvances
    <3> QED  BY <3>2, <3>4, <3>6
  <2> QED  BY <2>1, <2>2
<1>12. CASE o.ret = Ok
  <2>1. Does(o, o.ret, h, acked, guest.cut \cup {h}, torn)
    BY <1>8, <1>12
  <2> QED  BY <1>11, <1>12, <2>1, DoesKeeps
<1>13. CASE o.ret # Ok
  <2>1. Does(o, o.ret, h, guest.acked, guest.cut \cup {h}, {})
    BY <1>8, <1>13
  <2> QED  BY <1>11, <1>13, <2>1, DoesKeeps
<1> QED  BY <1>12, <1>13

LEMMA CloseKeeps ==
  ASSUME IInv, NEW h \in Handles, Close(h)
  PROVE  IInv'
<1>1. IsOpen(fs, h) /\ \E o \in fnClose(h) : Does(o, o.ret, h, guest.acked, guest.cut, {})
  BY DEF Close
<1>2. PICK o \in fnClose(h) : Does(o, o.ret, h, guest.acked, guest.cut, {})
  BY <1>1
<1>3. kind \in {"SDMC", "SaveData", "ExtData", "SharedExtData", "SysData", "SaveDatacheck", "RomFS"}
  BY FsAssumption DEF IInv
<1>4. CASE kind # "RomFS"
  <2>1. o \in CloseStream(fs, h)
    BY <1>2, <1>3, <1>4 DEF fnClose, sdmcfile_Close, savedatafile_Close, extsavedatafile_Close,
       sharedextdfile_Close, sysdatafile_Close, SaveDatacheck_Close
  <2>2. PICK m : m = Flushed(fs, h)
    OBVIOUS
  <2>3. PICK n : n = Tidy([m EXCEPT !.open[h] = NoStream])
    OBVIOUS
  <2>4. o.fs = n
    BY <2>1, <2>2, <2>3 DEF CloseStream, Returns
  <2>5. Advances(kind, fs, m, guest, h, guest.acked, guest.cut, {})
    BY <1>1, <2>2, NothingAdvances
  <2>6. Seeks(kind, fs, guest, h, m)
    BY <1>1, <2>2, Sought DEF IInv
  <2>7. m.open[h].pend = <<>> /\ m.open[h].ino \in Inodes
    BY <2>6 DEF Seeks
  <2>8. PICK torn : torn = IF m.open[h].pend # <<>> THEN {m.open[h].ino} ELSE {}
    OBVIOUS
  <2>9. Advances(kind, fs, n, guest, h, guest.acked, guest.cut, torn)
    BY <2>3, <2>5, <2>7, <2>8, DropAdvances
  <2>10. torn = {}
    BY <2>7, <2>8
  <2> QED  BY <1>2, <2>4, <2>9, <2>10, DoesKeeps
<1>5. CASE kind = "RomFS"
  <2>1. o.fs = fs
    BY <1>2, <1>5 DEF fnClose, Returns
  <2> QED  BY <1>1, <1>2, <2>1, NothingAdvances, DoesKeeps
<1> QED  BY <1>4, <1>5

LEMMA CloseHandleKeeps ==
  ASSUME IInv, NEW h \in Handles, file_CloseHandle(h)
  PROVE  IInv'
<1>1. PICK i : i = fs.open[h].ino
  OBVIOUS
<1>2. PICK n : n = Tidy([fs EXCEPT !.open[h] = NoStream])
  OBVIOUS
<1>3. PICK torn : torn = IF fs.open[h].pend # <<>> THEN {fs.open[h].ino} ELSE {}
  OBVIOUS
<1>4. torn = IF Holds(h, i) THEN {i} ELSE {}
  BY <1>1, <1>3 DEF Holds
<1>5. IsOpen(fs, h) /\ Does(Returns(n, Ok), Ok, h, guest.acked, guest.cut, torn)
  BY <1>1, <1>2, <1>4 DEF file_CloseHandle
<1>6. fs.open[h].ino \in Inodes
  BY <1>5, StreamTypes, GoodSettles DEF IInv
<1>7. Advances(kind, fs, n, guest, h, guest.acked, guest.cut, torn)
  BY <1>2, <1>3, <1>5, <1>6, NothingAdvances, DropAdvances
<1>8. Returns(n, Ok).fs = n
  BY DEF Returns
<1> QED  BY <1>5, <1>7, <1>8, DoesKeeps

LEMMA AsksKeep ==
  ASSUME IInv, NEW h \in Handles, GetSize(h) \/ Flush(h) \/ OpenLinkFile(h)
  PROVE  IInv'
<1>1. \E x : Answers(Ok, x)
  BY DEF GetSize, Flush, OpenLinkFile
<1> QED  BY <1>1, AnswersKeeps

-----------------------------------------------------------------------------
(* Reading a directory. *)

DirOnly(f, n) == n \in Files /\ n.tree = f.tree /\ n.data = f.data /\ n.open = f.open
Hears(g, e) == e \in Guests /\ e.acked = g.acked /\ e.alone = g.alone /\ e.cut = g.cut /\ e.raced = g.raced
Further(f, taken) == [f EXCEPT !.dir.given = @ \cup taken]
Unread(f) == f.dir.start \ f.dir.given

LEMMA HearsKeeps ==
  ASSUME NEW k, NEW f, NEW g, Good(k, f, g), NEW n, DirOnly(f, n), NEW e, Hears(g, e), Listing(k, n, e)
  PROVE  Good(k, n, e)
<1>1. /\ n \in Files /\ n.tree = f.tree /\ n.data = f.data /\ n.open = f.open
      /\ e \in Guests /\ e.acked = g.acked /\ e.alone = g.alone /\ e.cut = g.cut /\ e.raced = g.raced
  BY DEF DirOnly, Hears
<1>2. Used(n) = Used(f)
  BY <1>1 DEF Used
<1>3. \A i, c : Settles(f, i, c) => Settles(n, i, c)
  BY <1>1 DEF Settles
<1>4. Kept(k, n, e)
  <2>1. Kept(k, f, g)
    BY DEF Good
  <2> QED  BY <1>1, <1>2, <1>3, <2>1 DEF Kept
<1>5. Undisturbed(k, n, e)
  <2>1. Undisturbed(k, f, g)
    BY DEF Good
  <2> QED  BY <1>1, <2>1 DEF Undisturbed, IsOpen, Sound, PassesOn, Fresh
<1>6. RomStays(k, n, e)
  <2>1. RomStays(k, f, g)
    BY DEF Good
  <2> QED  BY <1>1, <2>1 DEF RomStays, IsOpen, IsDir, At
<1> QED  BY <1>1, <1>4, <1>5, <1>6 DEF Good

LEMMA DirIs ==
  ASSUME NEW f \in Files, NEW d \in DirStreams, NEW n, n = [f EXCEPT !.dir = d]
  PROVE  DirOnly(f, n) /\ n.dir = d
BY DEF Files, DirOnly

LEMMA GivesNames ==
  ASSUME NEW f \in Files
  PROVE  MayGive(f) \subseteq EntryName /\ IsFiniteSet(EntryName)
<1>1. \A p : Entries(f, p) \subseteq EntryName
  BY DEF Entries, EntryName
<1>2. Present(f) \subseteq EntryName
  BY <1>1 DEF Present
<1>3. f.dir.start \subseteq EntryName
  BY DEF Files, DirStreams
<1>4. IsFiniteSet(Names \cup {".", ".."})
  <2>1. IsFiniteSet({"."}) /\ IsFiniteSet({".."}) /\ IsFiniteSet(Names)
    BY FS_Singleton, HostAssumption
  <2>2. IsFiniteSet(Names \cup {"."})
    BY <2>1, FS_AddElement
  <2>3. IsFiniteSet((Names \cup {"."}) \cup {".."})
    BY <2>2, FS_AddElement
  <2>4. (Names \cup {"."}) \cup {".."} = Names \cup {".", ".."}
    OBVIOUS
  <2> QED  BY <2>3, <2>4
<1> QED  BY <1>2, <1>3, <1>4 DEF MayGive, EntryName

LEMMA FurtherIs ==
  ASSUME NEW f \in Files, NEW taken \in SUBSET EntryName, NEW n, n = Further(f, taken)
  PROVE  /\ DirOnly(f, n) /\ n.dir.path = f.dir.path /\ n.dir.start = f.dir.start
         /\ n.dir.given = f.dir.given \cup taken
         /\ f.dir # NoDir => n.dir # NoDir
<1> DEFINE d == [f.dir EXCEPT !.given = @ \cup taken]
<1>1. n = [f EXCEPT !.dir = d]
  BY DEF Files, Further
<1>2. /\ d \in DirStreams /\ d.path = f.dir.path /\ d.start = f.dir.start
      /\ d.given = f.dir.given \cup taken
  <2>1. f.dir \in DirStreams
    BY DEF Files
  <2> QED  BY <2>1 DEF DirStreams
<1> HIDE DEF d
<1>3. DirOnly(f, n) /\ n.dir = d
  BY <1>1, <1>2, DirIs
<1>4. f.dir # NoDir => d # NoDir
  <2> SUFFICES ASSUME d = NoDir
               PROVE  f.dir = NoDir
    OBVIOUS
  <2>1. f.dir.path = "none" /\ f.dir.start = {} /\ f.dir.given \cup taken = {}
    BY <1>2 DEF NoDir
  <2>2. f.dir.given = {}
    BY <2>1
  <2>3. f.dir \in DirStreams
    BY DEF Files
  <2> QED  BY <2>1, <2>2, <2>3 DEF DirStreams, NoDir
<1> QED  BY <1>2, <1>3, <1>4

LEMMA CrashIs ==
  ASSUME NEW f \in Files, NEW n, n = [f EXCEPT !.up = FALSE]
  PROVE  DirOnly(f, n) /\ n.dir = f.dir
BY DEF Files, DirOnly

LEMMA NoEntryIs ==
  ASSUME NEW f, NEW c, c = [f EXCEPT !.up = FALSE], NEW o \in NoEntryAsked(f)
  PROVE  (o.fs = f \/ o.fs = c) /\ o.out = <<>>
<1>1. o = Returns(c, Failed) \/ o = Returns(f, Failed) \/ o = Returns(f, Ok)
  BY DEF NoEntryAsked, Crashed
<1>2. \A x, ret : Returns(x, ret).fs = x /\ Returns(x, ret).out = <<>>
  BY DEF Returns
<1>3. PICK x \in {f, c} : \E ret : o = Returns(x, ret)
  BY <1>1
<1>4. PICK ret : o = Returns(x, ret)
  BY <1>3
<1>5. o.fs = x /\ o.out = <<>>
  BY <1>2, <1>4
<1> QED  BY <1>5

(* Wherever one entry is asked for at a time, an entry that was not given    *)
(* before is, and the end is reported when there is none.                    *)
OneRead(f, o) ==
  \/ Unread(f) = {} /\ o.out = <<>> /\ o.fs = Further(f, {})
  \/ \E e \in Unread(f) : o.out = <<e>> /\ o.fs = Further(f, {e})

Exact(f) ==
  /\ f.dir.start = Entries(f, f.dir.path) /\ f.dir.given \subseteq f.dir.start
  /\ f.dir.path = Unsafe \/ IsDir(f, f.dir.path)

LEMMA ReadsOne ==
  ASSUME NEW f \in Files, Exact(f), NEW o \in ReadStreamDir(f, 1)
  PROVE  OneRead(f, o)
<1>1. Present(f) = f.dir.start
  BY DEF Present, Exact
<1>2. MayGive(f) = Unread(f) /\ MustGive(f) = Unread(f)
  BY <1>1 DEF MayGive, MustGive, Unread
<1>3. \A T \in SUBSET MayGive(f) : IsFiniteSet(T)
  BY GivesNames, FS_Subset
<1>4. \/ \E T \in SUBSET MayGive(f) : /\ Cardinality(T) < 1 /\ MustGive(f) \subseteq T
                                      /\ o = Returns(Further(f, T), Ok)
      \/ \E T \in SUBSET MayGive(f) :
            /\ Cardinality(T) = 1
            /\ \E e \in T : o = IF e \in Present(f) THEN Gives(Further(f, T), <<e>>)
                               ELSE Returns(Further(f, T), Failed)
  BY DEF ReadStreamDir, kSubset, Further
<1>5. ASSUME NEW T \in SUBSET MayGive(f), Cardinality(T) < 1, MustGive(f) \subseteq T,
             o = Returns(Further(f, T), Ok)
      PROVE  OneRead(f, o)
  <2>1. Cardinality(T) \in Nat
    BY <1>3, FS_CardinalityType
  <2>2. Cardinality(T) = 0
    BY <1>5, <2>1
  <2>3. T = {}
    BY <1>3, <2>2, FS_EmptySet
  <2> QED  BY <1>2, <1>5, <2>3 DEF OneRead, Returns
<1>6. ASSUME NEW T \in SUBSET MayGive(f), Cardinality(T) = 1, NEW e \in T,
             o = IF e \in Present(f) THEN Gives(Further(f, T), <<e>>) ELSE Returns(Further(f, T), Failed)
      PROVE  OneRead(f, o)
  <2>1. T = {e}
    BY <1>3, <1>6, FS_Singleton
  <2>2. e \in Unread(f) /\ e \in Present(f)
    BY <1>1, <1>2 DEF Unread
  <2> QED  BY <1>6, <2>1, <2>2 DEF OneRead, Gives
<1> QED  BY <1>4, <1>5, <1>6

(* What any reading does to the files. *)
DirRead(k, f, o) ==
  /\ DirOnly(f, o.fs)
  /\ Listed(k) /\ f.dir # NoDir => o.fs.dir # NoDir
  /\ ~ Listed(k) => o.out = <<>>

LEMMA StreamReads ==
  ASSUME NEW k, NEW f \in Files, Listed(k), NEW n, NEW o \in ReadStreamDir(f, n)
  PROVE  DirRead(k, f, o)
<1>1. \/ o \in NoEntryAsked(f)
      \/ \E T \in SUBSET MayGive(f) : o.fs = Further(f, T)
  <2> DEFINE Ends(T) == o = Returns(Further(f, T), Ok)
             Names1(T) == \E e \in T : o = IF e \in Present(f) THEN Gives(Further(f, T), <<e>>)
                                       ELSE Returns(Further(f, T), Failed)
  <2>1. \/ o \in NoEntryAsked(f)
        \/ \E T \in SUBSET MayGive(f) : Ends(T) \/ Names1(T)
    BY DEF ReadStreamDir, kSubset, Further
  <2>2. ASSUME NEW T, Ends(T) \/ Names1(T)
        PROVE  o.fs = Further(f, T)
    BY <2>2 DEF Returns, Gives
  <2> HIDE DEF Ends, Names1
  <2> QED  BY <2>1, <2>2
<1>2. CASE o \in NoEntryAsked(f)
  <2>1. PICK c : c = [f EXCEPT !.up = FALSE]
    OBVIOUS
  <2>2. o.fs = f \/ o.fs = c
    BY <1>2, <2>1, NoEntryIs
  <2>3. DirOnly(f, f) /\ DirOnly(f, c) /\ c.dir = f.dir
    BY <2>1, CrashIs DEF DirOnly
  <2> QED  BY <2>2, <2>3 DEF DirRead
<1>3. ASSUME NEW T \in SUBSET MayGive(f), o.fs = Further(f, T)
      PROVE  DirRead(k, f, o)
  <2>1. T \subseteq EntryName
    BY GivesNames
  <2>2. PICK m : m = Further(f, T)
    OBVIOUS
  <2>3. DirOnly(f, m) /\ (f.dir # NoDir => m.dir # NoDir)
    BY <2>1, <2>2, FurtherIs
  <2> QED  BY <1>3, <2>2, <2>3 DEF DirRead
<1> QED  BY <1>1, <1>2, <1>3

LEMMA RewoundReads ==
  ASSUME NEW k, NEW f \in Files, ~ Listed(k), NEW n, NEW o \in ReadRewoundDir(f, n)
  PROVE  DirRead(k, f, o)
<1>1. PICK d : d = DirStream(f, f.dir.path)
  OBVIOUS
<1>2. PICK r : r = [f EXCEPT !.dir = d]
  OBVIOUS
<1>3. d \in DirStreams
  <2>1. Entries(f, f.dir.path) \subseteq EntryName
    BY DEF Entries, EntryName
  <2>2. f.dir.path \in Paths \cup {"none"}
    BY DEF Files, DirStreams
  <2> QED  BY <1>1, <2>1, <2>2 DEF DirStream, DirStreams
<1>4. DirOnly(f, r) /\ r.dir = d
  BY <1>2, <1>3, DirIs
<1>5. r = [f EXCEPT !.dir = DirStream(f, @.path)]
  BY <1>1, <1>2
<1>6. \/ o \in NoEntryAsked(r)
      \/ o = Returns([r EXCEPT !.dir.given = r.dir.start], Ok)
  BY <1>5, Zenon DEF ReadRewoundDir
<1>7. CASE o \in NoEntryAsked(r)
  <2>1. PICK c : c = [r EXCEPT !.up = FALSE]
    OBVIOUS
  <2>2. (o.fs = r \/ o.fs = c) /\ o.out = <<>>
    BY <1>7, <2>1, NoEntryIs
  <2>3. r \in Files
    BY <1>4 DEF DirOnly
  <2>4. DirOnly(r, c)
    BY <2>1, <2>3, CrashIs
  <2>5. DirOnly(f, r) /\ DirOnly(f, c)
    BY <1>4, <2>4 DEF DirOnly
  <2> QED  BY <2>2, <2>5 DEF DirRead
<1>8. CASE o = Returns([r EXCEPT !.dir.given = r.dir.start], Ok)
  <2>1. r \in Files /\ d.start \subseteq EntryName
    BY <1>3, <1>4 DEF DirOnly, DirStreams
  <2>2. PICK e : e = [d EXCEPT !.given = d.start]
    OBVIOUS
  <2>3. e \in DirStreams
    BY <1>3, <2>1, <2>2 DEF DirStreams
  <2>4. PICK m : m = [r EXCEPT !.dir = e]
    OBVIOUS
  <2>5. DirOnly(r, m)
    BY <2>1, <2>3, <2>4, DirIs
  <2>6. o.fs = m /\ o.out = <<>>
    BY <1>4, <1>8, <2>1, <2>2, <2>4 DEF Returns, Files
  <2> QED  BY <1>4, <2>5, <2>6 DEF DirRead, DirOnly
<1> QED  BY <1>6, <1>7, <1>8

(* What is told of the directory afterwards. *)
Exactly(g, n) == g.exact /\ n = 1
Told(g, n, out) == IF Exactly(g, n) THEN g.given \cup {out[j] : j \in DOMAIN out} ELSE {}

LEMMA ToldKeeps ==
  ASSUME NEW k, NEW f, NEW g, Good(k, f, g), f.dir # NoDir, NEW n, NEW o, DirRead(k, f, o),
         Listed(k) => o \in ReadStreamDir(f, n),
         NEW e, e = [g EXCEPT !.exact = Exactly(g, n), !.given = Told(g, n, o.out)]
  PROVE  Hears(g, e) /\ Listing(k, o.fs, e)
<1>1. f \in Files /\ g \in Guests /\ Listing(k, f, g)
  BY DEF Good
<1>2. PICK x : x = Exactly(g, n)
  OBVIOUS
<1>3. PICK given : given = Told(g, n, o.out)
  OBVIOUS
<1>4. e = [g EXCEPT !.exact = x, !.given = given]
  BY <1>2, <1>3
<1>5. x \in BOOLEAN
  BY <1>2 DEF Exactly
<1>6. PICK m : m = o.fs
  OBVIOUS
<1>7. CASE ~ x
  <2>1. given = {}
    BY <1>2, <1>3, <1>7 DEF Told
  <2>2. Hears(g, e) /\ e.given = {} /\ ~ e.exact
    BY <1>1, <1>4, <1>5, <1>7, <2>1 DEF Hears, Guests
  <2>3. m.dir # NoDir => HasDirs(k)
    BY <1>1 DEF Listing
  <2> QED  BY <1>6, <2>2, <2>3 DEF Listing
<1>8. CASE x /\ ~ Listed(k)
  <2>1. o.out = <<>>
    BY <1>8 DEF DirRead
  <2>2. given = g.given
    BY <1>2, <1>3, <1>8, <2>1 DEF Told
  <2>3. Hears(g, e)
    BY <1>1, <1>4, <1>5, <2>2 DEF Hears, Guests
  <2>4. HasDirs(k)
    BY <1>1 DEF Listing
  <2> QED  BY <1>6, <1>8, <2>3, <2>4 DEF Listing
<1>9. CASE x /\ Listed(k)
  <2>1. g.exact /\ o \in ReadStreamDir(f, 1)
    BY <1>2, <1>9 DEF Exactly
  <2>2. g.given = f.dir.given /\ Exact(f) /\ HasDirs(k)
    BY <1>1, <1>9, <2>1 DEF Listing, Exact
  <2>3. OneRead(f, o)
    BY <1>1, <2>1, <2>2, ReadsOne
  <2>4. given = g.given \cup {o.out[j] : j \in DOMAIN o.out}
    BY <1>2, <1>3, <1>9 DEF Told
  <2>5. \E T \in SUBSET Unread(f) : given = g.given \cup T /\ m = Further(f, T)
    <3>1. CASE Unread(f) = {} /\ o.out = <<>> /\ o.fs = Further(f, {})
      <4>1. given = g.given \cup {}
        BY <2>4, <3>1
      <4> QED  BY <1>6, <3>1, <4>1
    <3>2. ASSUME NEW y \in Unread(f), o.out = <<y>>, o.fs = Further(f, {y})
          PROVE  \E T \in SUBSET Unread(f) : given = g.given \cup T /\ m = Further(f, T)
      <4>1. {o.out[j] : j \in DOMAIN o.out} = {y}
        BY <3>2
      <4>2. given = g.given \cup {y}
        BY <2>4, <4>1
      <4> QED  BY <1>6, <3>2, <4>2
    <3> QED  BY <2>3, <3>1, <3>2 DEF OneRead
  <2>6. PICK T \in SUBSET Unread(f) : given = g.given \cup T /\ m = Further(f, T)
    BY <2>5
  <2>7. T \subseteq f.dir.start /\ T \subseteq EntryName
    BY <1>1, <2>6 DEF Unread, Files, DirStreams
  <2>8. /\ DirOnly(f, m) /\ m.dir.path = f.dir.path /\ m.dir.start = f.dir.start
        /\ m.dir.given = f.dir.given \cup T /\ m.dir # NoDir
    BY <1>1, <2>6, <2>7, FurtherIs
  <2>9. Hears(g, e) /\ e.given = g.given \cup T
    BY <1>1, <1>4, <1>5, <2>6, <2>7 DEF Hears, Guests
  <2>10. m.dir.start = Entries(m, m.dir.path) /\ (m.dir.path = Unsafe \/ IsDir(m, m.dir.path))
    BY <2>2, <2>8 DEF DirOnly, Exact, Entries, IsDir, At
  <2>11. m.dir.given \subseteq m.dir.start /\ e.given = m.dir.given
    BY <2>2, <2>7, <2>8, <2>9 DEF Exact
  <2> QED  BY <1>6, <2>2, <2>8, <2>9, <2>10, <2>11 DEF Listing
<1> QED  BY <1>5, <1>7, <1>8, <1>9

LEMMA ReadDirKeeps ==
  ASSUME IInv, NEW n \in Counts, ReadDir(n)
  PROVE  IInv'
<1>1. /\ fs.dir # NoDir /\ UNCHANGED <<kind, arch>>
      /\ \E o \in fnReadDir(n) :
            /\ fs' = o.fs
            /\ guest' = [guest EXCEPT !.exact = Exactly(guest, n), !.given = Told(guest, n, o.out)]
  BY DEF ReadDir, Exactly, Told
<1>2. PICK o \in fnReadDir(n) :
            /\ fs' = o.fs
            /\ guest' = [guest EXCEPT !.exact = Exactly(guest, n), !.given = Told(guest, n, o.out)]
  BY <1>1
<1>3. Good(kind, fs, guest) /\ fs \in Files /\ HasDirs(kind)
  BY <1>1 DEF IInv, Good, Listing
<1>4. /\ Listed(kind) => o \in ReadStreamDir(fs, n)
      /\ ~ Listed(kind) => o \in ReadRewoundDir(fs, n)
  <2>1. kind \in {"SDMC", "SaveData", "ExtData", "SharedExtData"}
    BY <1>3 DEF HasDirs
  <2>2. CASE kind = "SDMC"
    BY <1>2, <2>2 DEF fnReadDir, sdmc_ReadDir, Listed
  <2>3. CASE kind = "SaveData"
    BY <1>2, <2>3 DEF fnReadDir, savedata_ReadDir, Listed
  <2>4. CASE kind = "ExtData"
    BY <1>2, <2>4 DEF fnReadDir, extsavedata_ReadDir, Listed
  <2>5. CASE kind = "SharedExtData"
    BY <1>2, <2>5 DEF fnReadDir, sharedextd_ReadDir, Listed
  <2> QED  BY <2>1, <2>2, <2>3, <2>4, <2>5
<1>5. DirRead(kind, fs, o)
  BY <1>3, <1>4, StreamReads, RewoundReads
<1>6. PICK e : e = [guest EXCEPT !.exact = Exactly(guest, n), !.given = Told(guest, n, o.out)]
  OBVIOUS
<1>7. Hears(guest, e) /\ Listing(kind, o.fs, e)
  BY <1>1, <1>3, <1>4, <1>5, <1>6, ToldKeeps
<1>8. DirOnly(fs, o.fs)
  BY <1>5 DEF DirRead
<1>9. PICK m : m = o.fs
  OBVIOUS
<1>10. Good(kind, m, e)
  BY <1>3, <1>7, <1>8, <1>9, HearsKeeps
<1>11. fs' = m /\ guest' = e
  BY <1>2, <1>6, <1>9
<1>12. Good(kind, fs, guest)'
  BY <1>1, <1>10, <1>11
<1>13. Able(kind, arch, fs)'
  <2>1. m.tree = fs.tree
    BY <1>8, <1>9 DEF DirOnly
  <2> QED  BY <1>1, <1>11, <2>1 DEF IInv, Able, IsDir, At
<1> QED  BY <1>1, <1>12, <1>13 DEF IInv

-----------------------------------------------------------------------------
(* The beginning and every step. *)

LEMMA InitFiles ==
  ASSUME Init
  PROVE  /\ kind \in Kinds /\ fs \in Files /\ fs.dir = NoDir
         /\ \A h \in Handles : fs.open[h] = NoStream
         /\ \A i \in Inodes \ Used(fs) : fs.data[i] = <<>>
         /\ kind = "RomFS" /\ IsDir(fs, Root) => fs.data[1] = RomImage /\ \E n \in Names : fs.tree[n] = 1
<1>1. PICK first \in Names, i \in {Absent, 1}, root \in {Absent, Directory}, c \in Stock :
           /\ kind = "RomFS" /\ root = Directory => i = 1
           /\ fs = [tree |-> [p \in Names \cup {Root} |->
                                IF p = Root THEN root
                                ELSE IF p = first /\ root = Directory THEN i ELSE Absent],
                    data |-> [j \in Inodes |->
                                IF j = i /\ root = Directory
                                   THEN IF kind = "RomFS" THEN RomImage ELSE c ELSE <<>>],
                    open |-> [h \in Handles |-> NoStream],
                    dir |-> NoDir, link |-> NoHandle, up |-> TRUE]
  BY DEF Init
<1> DEFINE tree == [p \in Names \cup {Root} |->
                      IF p = Root THEN root
                      ELSE IF p = first /\ root = Directory THEN i ELSE Absent]
           data == [j \in Inodes |->
                      IF j = i /\ root = Directory
                         THEN IF kind = "RomFS" THEN RomImage ELSE c ELSE <<>>]
<1>2. /\ fs.tree = tree /\ fs.data = data /\ fs.open = [h \in Handles |-> NoStream]
      /\ fs.dir = NoDir /\ fs.link = NoHandle /\ fs.up = TRUE
      /\ fs = [tree |-> tree, data |-> data, open |-> [h \in Handles |-> NoStream],
                dir |-> NoDir, link |-> NoHandle, up |-> TRUE]
  BY <1>1
<1>3. 1 \in Inodes
  <2>1. Cardinality(Names) \in Nat /\ Cardinality(Handles) \in Nat
    BY HostAssumption, FS_CardinalityType
  <2>2. Cardinality(Names) # 0
    BY HostAssumption, FS_EmptySet
  <2> QED  BY <2>1, <2>2 DEF Inodes
<1>4. RomImage \in Bytes /\ c \in Bytes /\ <<>> \in Bytes
  BY FsAssumption DEF Bytes
<1>5. data \in [Inodes -> Bytes]
  BY <1>4
<1>6. tree \in [Names \cup {Root} -> {Absent, Directory} \cup Inodes]
  BY <1>3
<1>7. Root \notin Names
  BY HostAssumption
<1>8. tree[Root] = root /\ (root = Directory => tree[first] = i)
  BY <1>7
<1>9. /\ \A j \in Inodes : data[j] = <<>> \/ (j = i /\ root = Directory)
      /\ i = 1 /\ root = Directory /\ kind = "RomFS" => data[1] = RomImage
  BY <1>3
<1> HIDE DEF tree, data
<1>10. fs \in Files
  <2>1. NoDir \in DirStreams
    BY DEF NoDir, DirStreams
  <2> QED  BY <1>2, <1>5, <1>6, <2>1, NoStreamTyped DEF Files
<1>11. \A j \in Inodes \ Used(fs) : fs.data[j] = <<>>
  <2>1. \A j \in Inodes : j = i /\ root = Directory => j \in Used(fs)
    BY <1>2, <1>8 DEF Used
  <2> QED  BY <1>2, <1>9, <2>1
<1>12. kind = "RomFS" /\ IsDir(fs, Root) => fs.data[1] = RomImage /\ \E n \in Names : fs.tree[n] = 1
  <2>1. IsDir(fs, Root) => root = Directory
    BY <1>2, <1>8, FileNumbers DEF IsDir, At, Directory, Absent
  <2> QED  BY <1>1, <1>2, <1>8, <1>9, <2>1
<1>13. kind \in Kinds /\ \A h \in Handles : fs.open[h] = NoStream
  BY <1>2 DEF Init
<1> QED  BY <1>2, <1>10, <1>11, <1>12, <1>13

LEMMA InitHolds == Init => IInv
<1> SUFFICES ASSUME Init PROVE IInv
  OBVIOUS
<1>1. /\ kind \in Kinds /\ fs \in Files /\ fs.dir = NoDir
      /\ \A h \in Handles : fs.open[h] = NoStream
      /\ \A i \in Inodes \ Used(fs) : fs.data[i] = <<>>
      /\ kind = "RomFS" /\ IsDir(fs, Root) => fs.data[1] = RomImage /\ \E n \in Names : fs.tree[n] = 1
  BY InitFiles
<1>2. guest = [acked |-> fs.data, alone |-> {}, cut |-> {}, raced |-> {}, exact |-> FALSE, given |-> {}]
  BY DEF Init
<1>3. arch.fns = {}
  BY DEF Init, NoArchive
<1>4. \A h \in Handles : fs.open[h].pend = <<>> /\ ~ IsOpen(fs, h)
  BY <1>1, NoStreamTyped DEF IsOpen
<1>5. fs.data \in [Inodes -> Bytes]
  BY <1>1 DEF Files
<1>6. guest \in Guests
  BY <1>2, <1>5 DEF Guests
<1>7. Kept(kind, fs, guest)
  <2>1. \A i \in Inodes : Holders(fs, i) = {}
    BY <1>4 DEF Holders
  <2>2. \A i \in Inodes : Settles(fs, i, fs.data[i])
    BY <1>1, <1>5, <2>1, SettledFile
  <2> QED  BY <1>1, <1>2, <1>4, <2>2 DEF Kept
<1>8. Undisturbed(kind, fs, guest)
  BY <1>2 DEF Undisturbed
<1>9. RomStays(kind, fs, guest)
  BY <1>1, <1>2, <1>4 DEF RomStays
<1>10. Listing(kind, fs, guest)
  BY <1>1, <1>2 DEF Listing
<1>11. Able(kind, arch, fs)
  BY <1>3 DEF Able
<1> QED  BY <1>1, <1>6, <1>7, <1>8, <1>9, <1>10, <1>11 DEF IInv, Good

LEMMA StutterKeeps == IInv /\ UNCHANGED vars => IInv'
<1> SUFFICES ASSUME IInv, UNCHANGED vars PROVE IInv'
  OBVIOUS
<1>1. UNCHANGED <<kind, fs, arch, guest>>
  BY DEF vars
<1>2. Good(kind, fs, guest)'
  BY <1>1 DEF IInv
<1>3. Able(kind, arch, fs)'
  BY <1>1 DEF IInv, Able, IsDir, At
<1> QED  BY <1>1, <1>2, <1>3 DEF IInv

LEMMA StepKeeps == IInv /\ Next => IInv'
<1> SUFFICES ASSUME IInv, Next PROVE IInv'
  OBVIOUS
<1>1. CASE DeleteFile
  BY <1>1, DeleteFileKeeps
<1>2. CASE RenameFile \/ RenameDirectory
  BY <1>2, RenamesKeep
<1>3. CASE DeleteDirectory \/ DeleteDirectoryRecursively
  BY <1>3, DeleteDirectoryKeeps
<1>4. CASE CreateDirectory
  BY <1>4, CreateDirectoryKeeps
<1>5. CASE OpenFile
  BY <1>5, OpenFileKeeps
<1>6. CASE OpenDirectory
  BY <1>6, OpenDirectoryKeeps
<1>7. CASE CreateFile
  BY <1>7, CreateFileKeeps
<1>8. ASSUME NEW t \in PathTypes, NEW mapped \in BOOLEAN, OpenArchive(t, mapped) \/ OpenFileDirectly(t, mapped)
      PROVE  IInv'
  BY <1>8, OpenArchiveKeeps, OpenFileDirectlyKeeps
<1>9. CASE CloseArchive
  BY <1>9, CloseArchiveKeeps
<1>10. CASE FormatThisUserSaveData \/ FormatSaveData
  BY <1>10, FormatsKeep
<1>11. ASSUME NEW h \in Handles, GetSize(h) \/ Flush(h) \/ OpenLinkFile(h)
       PROVE  IInv'
  BY <1>11, AsksKeep
<1>12. ASSUME NEW h \in Handles, Close(h)
       PROVE  IInv'
  BY <1>12, CloseKeeps
<1>13. ASSUME NEW h \in Handles, file_CloseHandle(h)
       PROVE  IInv'
  BY <1>13, CloseHandleKeeps
<1>14. ASSUME NEW h \in Handles, NEW n \in Sizes, SetSize(h, n)
       PROVE  IInv'
  BY <1>14, SetSizeKeeps
<1>15. ASSUME NEW h \in Handles, NEW off \in Offsets, NEW mapped \in BOOLEAN, NEW n \in Counts,
              Read(h, off, n, mapped)
       PROVE  IInv'
  BY <1>15, ReadKeeps
<1>16. ASSUME NEW h \in Handles, NEW off \in Offsets, NEW mapped \in BOOLEAN, NEW b \in Payloads,
              Write(h, off, b, mapped)
       PROVE  IInv'
  BY <1>16, WriteKeeps
<1>17. ASSUME NEW n \in Counts, ReadDir(n)
       PROVE  IInv'
  BY <1>17, ReadDirKeeps
<1>18. CASE CloseDir
  BY <1>18, CloseDirKeeps
<1> QED  BY <1>1, <1>2, <1>3, <1>4, <1>5, <1>6, <1>7, <1>8, <1>9, <1>10, <1>11, <1>12, <1>13, <1>14,
            <1>15, <1>16, <1>17, <1>18 DEF Next

(* The files, their streams and what the guest knows of them always fit      *)
(* together: in particular every part of the state has its type.             *)
THEOREM FsInvariance == Spec => []IInv
<1>1. Init => IInv
  BY InitHolds
<1>2. IInv /\ [Next]_vars => IInv'
  BY StepKeeps, StutterKeeps
<1> QED  BY <1>1, <1>2, PTL DEF Spec

-----------------------------------------------------------------------------
(* What follows for the guest. *)

LEMMA MinOfTwo == \A a, b \in Nat : Min({a, b}) = IF a <= b THEN a ELSE b
<1> SUFFICES ASSUME NEW a \in Nat, NEW b \in Nat PROVE Min({a, b}) = IF a <= b THEN a ELSE b
  OBVIOUS
<1> DEFINE m == IF a <= b THEN a ELSE b
<1>1. m \in {a, b} /\ \A y \in {a, b} : m <= y
  OBVIOUS
<1>2. \A x \in {a, b} : (\A y \in {a, b} : x <= y) => x = m
  OBVIOUS
<1> HIDE DEF m
<1>3. Min({a, b}) = m
  BY <1>1, <1>2 DEF Min
<1> QED  BY <1>3 DEF m

(* Nothing is read where nothing is asked for, and from a file with nothing. *)
LEMMA SliceEmpty ==
  ASSUME NEW c \in Bytes, NEW off \in Nat, NEW sz \in Nat, sz = 0 \/ Len(c) = 0
  PROVE  Slice(c, off, sz) = <<>>
<1>1. Len(c) \in Nat /\ off + sz \in Nat
  BY DEF Bytes
<1>2. PICK last : last = Min({off + sz, Len(c)})
  OBVIOUS
<1>3. last \in Nat /\ last < off + 1
  BY <1>1, <1>2, MinOfTwo
<1>4. SubSeq(c, off + 1, last) = <<>>
  BY <1>3, SubSeqEmpty
<1> QED  BY <1>2, <1>4 DEF Slice

(* AcknowledgedIsStored: what any sequence of acknowledged calls wrote gets  *)
(* into the files, however the streams of the archives buffer it.            *)
THEOREM AcknowledgedStays == Spec => []AcknowledgedIsStored
<1>1. IInv => AcknowledgedIsStored
  <2> SUFFICES ASSUME IInv PROVE AcknowledgedIsStored
    OBVIOUS
  <2>1. fs \in Files /\ guest.acked \in [Inodes -> Bytes] /\ Kept(kind, fs, guest)
    BY GoodSettles DEF IInv, Good
  <2>2. \A i \in Inodes \ guest.raced : Settles(fs, i, guest.acked[i])
    BY <2>1 DEF Kept
  <2>3. ASSUME kind \in WriteThrough PROVE guest.raced = {} /\ fs.data = guest.acked
    <3>1. guest.raced = {} /\ \A h \in Handles : fs.open[h].pend = <<>>
      BY <2>1, <2>3 DEF Kept, Stores
    <3>2. \A i \in Inodes : Holders(fs, i) = {}
      BY <3>1 DEF Holders
    <3>3. \A i \in Inodes : fs.data[i] = guest.acked[i]
      BY <2>1, <2>2, <3>1, <3>2, SettledFile
    <3>4. fs.data \in [Inodes -> Bytes]
      BY <2>1 DEF Files
    <3> QED  BY <2>1, <3>1, <3>3, <3>4
  <2> QED  BY <2>2, <2>3 DEF AcknowledgedIsStored
<1> QED  BY <1>1, FsInvariance, PTL

(* SizeIsKnown: the size that sdmcfile_Write and sdmcfile_SetSize note is    *)
(* the file's.                                                               *)
THEOREM SizesAreKnown == Spec => []SizeIsKnown
<1>1. IInv => SizeIsKnown
  <2> SUFFICES ASSUME IInv, NEW h \in guest.alone, kind = "SDMC", fs.open[h].mode = "rw"
               PROVE  fnGetSize(h) = Len(guest.acked[fs.open[h].ino])
    BY DEF SizeIsKnown
  <2>1. Sound(kind, fs, h, guest.acked[fs.open[h].ino])
    BY DEF IInv, Good, Undisturbed
  <2>2. fnGetSize(h) = fs.open[h].sz
    BY DEF fnGetSize, sdmcfile_GetSize
  <2> QED  BY <2>1, <2>2 DEF Sound
<1> QED  BY <1>1, FsInvariance, PTL

(* ListsEveryEntryOnce: reading a directory entry by entry gives each entry  *)
(* once and ends after the last.                                             *)
THEOREM ListsAreComplete == Spec => []ListsEveryEntryOnce
<1>1. IInv => ListsEveryEntryOnce
  <2> SUFFICES ASSUME IInv, kind \in {"SDMC", "SharedExtData"}, guest.exact,
                      NEW o \in fnReadDir(1), o.ret = Ok
               PROVE  IF o.out = <<>> THEN guest.given = Entries(fs, fs.dir.path)
                      ELSE o.out[1] \notin guest.given
    BY DEF ListsEveryEntryOnce
  <2>1. fs \in Files /\ Listing(kind, fs, guest) /\ Listed(kind)
    BY DEF IInv, Good, Listed
  <2>2. Exact(fs) /\ guest.given = fs.dir.given
    BY <2>1 DEF Listing, Exact
  <2>3. o \in ReadStreamDir(fs, 1)
    BY DEF fnReadDir, sdmc_ReadDir, sharedextd_ReadDir
  <2>4. OneRead(fs, o)
    BY <2>1, <2>2, <2>3, ReadsOne
  <2>5. ASSUME Unread(fs) = {}
        PROVE  guest.given = Entries(fs, fs.dir.path)
    <3>1. fs.dir.start \subseteq fs.dir.given
      BY <2>5 DEF Unread
    <3>2. fs.dir.start = Entries(fs, fs.dir.path) /\ fs.dir.given \subseteq fs.dir.start
      BY <2>2 DEF Exact
    <3> QED  BY <2>2, <3>1, <3>2
  <2>6. ASSUME NEW e \in Unread(fs), o.out = <<e>>
        PROVE  o.out # <<>> /\ o.out[1] \notin guest.given
    BY <2>2, <2>6 DEF Unread
  <2> QED  BY <2>4, <2>5, <2>6 DEF OneRead
<1> QED  BY <1>1, FsInvariance, PTL

(* ReadsWhatItWrote: a handle reads back the bytes it was told are written.  *)
THEOREM HandlesReadBack == Spec => []ReadsWhatItWrote
<1>1. IInv => ReadsWhatItWrote
  <2> SUFFICES ASSUME IInv, NEW h \in guest.alone \ guest.cut, NEW off \in Offsets, NEW sz \in Counts,
                      NEW o \in fnRead(h, off, sz, TRUE), o.ret = Ok
               PROVE  o.out = Slice(guest.acked[fs.open[h].ino], off, sz)
    BY DEF ReadsWhatItWrote
  <2>1. off \in Nat /\ sz \in Nat
    BY FsAssumption
  <2>2. Good(kind, fs, guest) /\ h \in Handles /\ IsOpen(fs, h) /\ guest.acked \in [Inodes -> Bytes]
    BY GoodSettles DEF IInv, Good, Undisturbed, Guests
  <2>3. PICK i : i = fs.open[h].ino
    OBVIOUS
  <2>4. kind \in {"SDMC", "SaveData", "ExtData", "SharedExtData", "SysData", "SaveDatacheck", "RomFS"}
    BY FsAssumption DEF IInv
  <2>5. CASE kind = "RomFS"
    <3>1. i = 1 /\ guest.acked[1] = RomImage
      BY <2>2, <2>3, <2>5 DEF Good, RomStays
    <3>2. o = Returns(fs, Failed) \/ o = Gives(fs, Slice(RomImage, off, sz))
      BY <2>5 DEF fnRead, rawromfs_Read
    <3>3. o.out = Slice(RomImage, off, sz)
      BY <3>2 DEF Returns, Gives, Ok, Failed
    <3> QED  BY <2>3, <3>1, <3>3
  <2>6. CASE kind # "RomFS"
    <3>1. PICK m : m = Flushed(fs, h)
      OBVIOUS
    <3>2. Seeks(kind, fs, guest, h, m)
      BY <2>2, <3>1, Sought
    <3>3. /\ m.open[h].pend = <<>> /\ m.open[h].ino = i /\ i \in Inodes
          /\ Sound(kind, m, h, guest.acked[i]) /\ Fresh(m, h)
      BY <2>2, <2>3, <3>2 DEF Seeks
    <3>4. m.data[i] = guest.acked[i] /\ (m.open[h].mode = "w" \/ ~ m.open[h].old)
      BY <3>3 DEF Sound, PassesOn, Fresh
    <3>5. \A view \in Views(m, h) : \/ m.open[h].mode = "w" /\ view = <<>>
                                    \/ m.open[h].mode # "w" /\ view = guest.acked[i]
      BY <3>3, <3>4 DEF Views
    <3>6. PICK strict \in BOOLEAN : o \in ReadStream(fs, h, off, sz, TRUE, strict) /\ (~ strict => kind = "SDMC")
      <4>1. CASE kind = "SDMC"
        BY <4>1 DEF fnRead, sdmcfile_Read
      <4>2. CASE kind # "SDMC"
        <5>1. o \in ReadStream(fs, h, off, sz, TRUE, TRUE)
          BY <2>4, <2>6, <4>2 DEF fnRead, savedatafile_Read, extsavedatafile_Read,
             sharedextdfile_Read, sysdatafile_Read, SaveDatacheck_Read
        <5> QED  BY <5>1
      <4> QED  BY <4>1, <4>2
    <3>7. PICK view \in Views(m, h) : /\ o.out = Slice(view, off, sz)
                                      /\ strict => Len(Slice(view, off, sz)) = sz
      <4>1. \/ o = Returns(fs, Failed)
            \/ \E view \in Views(m, h) :
                  o = IF ~ TRUE \/ (strict /\ Len(Slice(view, off, sz)) # sz)
                         THEN Returns(m, Failed) ELSE Gives(m, Slice(view, off, sz))
        BY <3>1, <3>6 DEF ReadStream
      <4>2. \A f : Returns(f, Failed).ret # Ok
        BY DEF Returns, Failed, Ok
      <4>3. \A x : Gives(m, x).out = x
        BY DEF Gives
      <4> QED  BY <4>1, <4>2, <4>3
    <3>8. CASE m.open[h].mode # "w"
      BY <2>3, <3>5, <3>7, <3>8
    <3>9. CASE m.open[h].mode = "w"
      <4>1. kind # "SDMC" /\ strict
        BY <3>3, <3>6, <3>9 DEF Sound
      <4>2. view = <<>> /\ <<>> \in Bytes /\ Len(<<>>) = 0
        BY <3>5, <3>9 DEF Bytes
      <4>3. Slice(view, off, sz) = <<>>
        BY <2>1, <4>2, SliceEmpty
      <4>4. sz = 0
        BY <3>7, <4>1, <4>2, <4>3
      <4>5. guest.acked[i] \in Bytes
        BY <2>2, <3>3
      <4>6. Slice(guest.acked[i], off, sz) = <<>>
        BY <2>1, <4>4, <4>5, SliceEmpty
      <4> QED  BY <2>3, <3>7, <4>3, <4>6
    <3> QED  BY <3>8, <3>9
  <2> QED  BY <2>5, <2>6
<1> QED  BY <1>1, FsInvariance, PTL
=============================================================================
